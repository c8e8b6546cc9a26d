---------------------------- MODULE ContentAudit ----------------------------
(***************************************************************************)
(* Whether the content of a request is kept: the logging scopes that       *)
(* administrators switch in the dashboard, the check a handler makes when  *)
(* its answer is complete, what it stores then, and the deletion of        *)
(* history while requests run.                                             *)
(*                                                                         *)
(* A switch moves at once and its write follows, through a proxy that does *)
(* not abort writes; writes of one switch may overtake each other, and an  *)
(* answer may be lost after the write was made. Ages of rows are "old" or  *)
(* not; what is stored of a request is only that it is.                    *)
(***************************************************************************)
EXTENDS Naturals

CONSTANTS Calls,        \* requests to the gateway
          Teams, Models,
          TeamOf, ModelOf,
          Switches,     \* switches on open pages of the dashboard
          ScopeOf,      \* the scope type and key each of them sends
          Writes        \* writes that may be under way at once

Scopes == {<<"global", "">>, <<"global", "global">>}
          \cup ({"team"} \X Teams) \cup ({"model"} \X Models)

ASSUME AuditAssumption ==
    /\ TeamOf \in [Calls -> Teams] /\ ModelOf \in [Calls -> Models]
    /\ ScopeOf \in [Switches -> Scopes]

VARIABLES
    enabled,     \* audit_logging_config: the scopes that are on
    lastSet,     \* the scopes whose last write turned them on
    knob,        \* what each switch shows
    muddled,     \* switches whose writes overlapped, or whose answer was lost
    write,       \* the writes under way
    call,        \* where each handler has got to
    rows,        \* table requests
    old,         \* rows past the age at which history is deleted
    content,     \* table audit_content: the requests it has content of
    everOn       \* requests for which some scope was on while they ran

auditVars == <<enabled, lastSet, knob, muddled, write, call, rows, old, content, everOn>>

NoWrite == [at |-> "none"]

AuditInit ==
    /\ enabled = {} /\ lastSet = {}
    /\ knob = [s \in Switches |-> FALSE]
    /\ muddled = {}
    /\ write = [w \in Writes |-> NoWrite]
    /\ call = [r \in Calls |-> "none"]
    /\ rows = {} /\ old = {} /\ content = {} /\ everOn = {}

handlers == <<call, rows, old, content>>

\* Mutant of Stored: the key is stored as it came.
Stored_AsSent(scope) == scope

\* setLoggingScope: there is one global row, whatever key it is sent with.
Stored(scope) == IF scope[1] = "global" THEN <<"global", "">> ELSE scope

\* isContentLoggingEnabled: any scope that applies is enough.
Applicable(r) == {<<"global", "">>, <<"team", TeamOf[r]>>, <<"model", ModelOf[r]>>}
IsContentLoggingEnabled(r) == Applicable(r) \cap enabled # {}

\* The administrators' notion of the same: a global switch is global.
Meant(scope) == IF scope[1] = "global" THEN <<"everywhere", "">> ELSE scope
MeantFor(r) == {<<"everywhere", "">>, <<"team", TeamOf[r]>>, <<"model", ModelOf[r]>>}

Pending(s) == {w \in Writes : write[w] # NoWrite /\ Meant(ScopeOf[write[w].by]) = Meant(ScopeOf[s])}
SameScope(s) == {t \in Switches : Meant(ScopeOf[t]) = Meant(ScopeOf[s])}

\* A page is opened or loaded again: its switch shows what is stored.
Open(s) ==
    /\ knob' = [knob EXCEPT ![s] = Stored(ScopeOf[s]) \in enabled]
    /\ muddled' = IF Pending(s) = {} THEN muddled \ {s} ELSE muddled \cup {s}
    /\ UNCHANGED <<enabled, lastSet, write, handlers, everOn>>

\* toggle: the knob moves, and the write is sent. Other switches of the scope
\* are not told, and writes under way may come after it.
Toggle(s) ==
    /\ \E w \in Writes :
          /\ write[w] = NoWrite
          /\ write' = [write EXCEPT ![w] = [at |-> "sent", by |-> s, on |-> ~knob[s]]]
    /\ knob' = [knob EXCEPT ![s] = ~@]
    /\ muddled' = muddled \cup (IF Pending(s) = {} THEN SameScope(s) \ {s} ELSE SameScope(s))
    /\ UNCHANGED <<enabled, lastSet, handlers, everOn>>

Set(S, x, on) == IF on THEN S \cup {x} ELSE S \ {x}

Apply(w) ==
    LET scope == ScopeOf[write[w].by] IN
    /\ write[w].at = "sent"
    /\ write' = [write EXCEPT ![w].at = "applied"]
    /\ enabled' = Set(enabled, Stored(scope), write[w].on)
    /\ lastSet' = Set(lastSet, Meant(scope), write[w].on)
    /\ everOn' = everOn \cup {r \in Calls : call[r] # "none" /\ MeantFor(r) \cap lastSet' # {}}
    /\ UNCHANGED <<knob, muddled, handlers>>

WriteAnswered(w) ==
    /\ write[w].at = "applied"
    /\ write' = [write EXCEPT ![w] = NoWrite]
    /\ UNCHANGED <<enabled, lastSet, knob, muddled, handlers, everOn>>

\* Mutant of WriteFails: the knob stays where it was put.
WriteFails_KeepsKnob(w) ==
    /\ write[w] # NoWrite
    /\ write' = [write EXCEPT ![w] = NoWrite]
    /\ UNCHANGED <<enabled, lastSet, knob, muddled, handlers, everOn>>

\* The write fails, or its answer does not come back: the knob goes back to
\* where it was before this write.
WriteFails(w) ==
    LET s == write[w].by IN
    /\ write[w] # NoWrite
    /\ knob' = [knob EXCEPT ![s] = ~write[w].on]
    /\ muddled' = IF write[w].at = "applied" THEN muddled \cup {s} ELSE muddled
    /\ write' = [write EXCEPT ![w] = NoWrite]
    /\ UNCHANGED <<enabled, lastSet, handlers, everOn>>

Arrive(r) ==
    /\ call[r] = "none"
    /\ call' = [call EXCEPT ![r] = "running"]
    /\ rows' = rows \cup {r}
    /\ everOn' = IF MeantFor(r) \cap lastSet # {} THEN everOn \cup {r} ELSE everOn
    /\ UNCHANGED <<enabled, lastSet, knob, muddled, write, old, content>>

\* The answer is complete (its row is updated, if it is still there), and the
\* handler asks whether to keep the content.
Check(r) ==
    /\ call[r] = "running"
    /\ call' = [call EXCEPT ![r] = IF IsContentLoggingEnabled(r) THEN "record" ELSE "over"]
    /\ UNCHANGED <<enabled, lastSet, knob, muddled, write, rows, old, content, everOn>>

\* Mutant of RecordAuditContent: the content does not reference its row.
RecordAuditContent_Unbound(r) ==
    /\ call[r] = "record"
    /\ call' = [call EXCEPT ![r] = "over"]
    /\ content' = content \cup {r}
    /\ UNCHANGED <<enabled, lastSet, knob, muddled, write, rows, old, everOn>>

\* recordAuditContent: the content references the row, which may have been
\* deleted meanwhile; the handler reports the failure.
RecordAuditContent(r) ==
    /\ call[r] = "record"
    /\ call' = [call EXCEPT ![r] = "over"]
    /\ content' = IF r \in rows THEN content \cup {r} ELSE content
    /\ UNCHANGED <<enabled, lastSet, knob, muddled, write, rows, old, everOn>>

RowAges ==
    /\ \E r \in rows \ old : old' = old \cup {r}
    /\ UNCHANGED <<enabled, lastSet, knob, muddled, write, call, rows, content, everOn>>

\* deleteAuditHistory: by age alone, running requests included; with zero days
\* every row is old enough. The content goes with its row.
DeleteAuditHistory ==
    /\ \E gone \in {old, rows} :
          /\ gone # {}
          /\ rows' = rows \ gone
          /\ content' = content \ gone
          /\ old' = old \ gone
    /\ UNCHANGED <<enabled, lastSet, knob, muddled, write, call, everOn>>

AuditNext ==
    \/ \E s \in Switches : Open(s) \/ Toggle(s)
    \/ \E w \in Writes : Apply(w) \/ WriteAnswered(w) \/ WriteFails(w)
    \/ \E r \in Calls : Arrive(r) \/ Check(r) \/ RecordAuditContent(r)
    \/ RowAges \/ DeleteAuditHistory

AuditSpec == AuditInit /\ [][AuditNext]_auditVars

-----------------------------------------------------------------------------

AuditTypeOK ==
    /\ enabled \subseteq Scopes
    /\ lastSet \subseteq {Meant(s) : s \in Scopes}
    /\ knob \in [Switches -> BOOLEAN] /\ muddled \subseteq Switches
    /\ write \in [Writes -> {NoWrite} \cup
                   [at : {"sent", "applied"}, by : Switches, on : BOOLEAN]]
    /\ call \in [Calls -> {"none", "running", "record", "over"}]
    /\ rows \subseteq Calls /\ old \subseteq rows
    /\ content \subseteq Calls /\ everOn \subseteq Calls

\* The switches of a scope are one switch: what the handlers go by is what the
\* last write to any scope of the request said, from whichever page it came and
\* whatever key that page gives the global scope.
OneSwitchPerScope ==
    \A r \in Calls : IsContentLoggingEnabled(r) <=> MeantFor(r) \cap lastSet # {}

\* Content is kept only of a request that some scope applied to while it ran, and
\* only for as long as its row is there: deleting history leaves none behind, not
\* even that of a request whose handler was about to store it.
ContentAllowed ==
    \A r \in content : r \in everOn /\ r \in rows

\* A switch without a write under way shows what is stored, unless its writes
\* overlapped, an answer was lost, or another switch of its scope was used since
\* the page was loaded: a failed write is taken back.
KnobTellsTruth ==
    \A s \in Switches :
        Pending(s) = {} /\ s \notin muddled => (knob[s] <=> Stored(ScopeOf[s]) \in enabled)

=============================================================================
