---------------------------- MODULE AuditProofs -----------------------------
(***************************************************************************)
(* The audit. The switches of a scope act as one switch and tell the truth *)
(* at rest; content is kept only of requests some scope applied to, for as *)
(* long as their rows are kept; and a listing that is read to its end has  *)
(* missed nothing it should have shown: for any number of requests,        *)
(* switches, scopes, writes under way and rows, and pages of any size.     *)
(***************************************************************************)
EXTENDS ContentAudit, Reports, FiniteSetTheorems, SequenceTheorems, TLAPS

(* Types. *)

\* A scope is one of the four kinds, and is stored and meant as one.
LEMMA ScopeTypes ==
    ASSUME NEW scope \in Scopes
    PROVE  Stored(scope) \in Scopes /\ Meant(scope) \in {Meant(s) : s \in Scopes}
BY DEF Scopes, Stored

\* Initially every variable has its type ...
LEMMA InitType == AuditInit => AuditTypeOK
BY DEF AuditInit, AuditTypeOK, NoWrite

\* ... and every step keeps it.
LEMMA NextType == AuditTypeOK /\ [AuditNext]_auditVars => AuditTypeOK'
<1> SUFFICES ASSUME AuditTypeOK, [AuditNext]_auditVars PROVE AuditTypeOK'
  OBVIOUS
<1> USE AuditAssumption DEF AuditAssumption, AuditTypeOK, handlers
<1>1. ASSUME NEW s \in Switches, Open(s) PROVE AuditTypeOK'
  BY <1>1 DEF Open
<1>2. ASSUME NEW s \in Switches, Toggle(s) PROVE AuditTypeOK'
  <2>1. PICK w \in Writes :
           write' = [write EXCEPT ![w] = [at |-> "sent", by |-> s, on |-> ~knob[s]]]
    BY <1>2 DEF Toggle
  <2>2. write' \in [Writes -> {NoWrite} \cup
                      [at : {"sent", "applied"}, by : Switches, on : BOOLEAN]]
    BY <2>1
  <2>3. knob' \in [Switches -> BOOLEAN] /\ muddled' \subseteq Switches
    BY <1>2 DEF Toggle, SameScope
  <2>4. QED
    BY <1>2, <2>2, <2>3 DEF Toggle
<1>3. ASSUME NEW w \in Writes, Apply(w) PROVE AuditTypeOK'
  <2>1. /\ write[w] \in [at : {"sent", "applied"}, by : Switches, on : BOOLEAN]
        /\ ScopeOf[write[w].by] \in Scopes
    BY <1>3 DEF Apply, NoWrite
  <2>2. enabled' \subseteq Scopes /\ lastSet' \subseteq {Meant(s) : s \in Scopes}
    BY <1>3, <2>1, ScopeTypes DEF Apply, Set
  <2>3. write' \in [Writes -> {NoWrite} \cup
                      [at : {"sent", "applied"}, by : Switches, on : BOOLEAN]]
    <3>1. [write[w] EXCEPT !.at = "applied"]
              \in [at : {"sent", "applied"}, by : Switches, on : BOOLEAN]
      BY <2>1
    <3>2. QED
      BY <1>3, <3>1 DEF Apply
  <2>4. everOn' \subseteq Calls
    BY <1>3 DEF Apply
  <2>5. QED
    BY <1>3, <2>2, <2>3, <2>4 DEF Apply
<1>4. ASSUME NEW w \in Writes, WriteAnswered(w) PROVE AuditTypeOK'
  BY <1>4 DEF WriteAnswered
<1>5. ASSUME NEW w \in Writes, WriteFails(w) PROVE AuditTypeOK'
  <2>1. write[w] \in [at : {"sent", "applied"}, by : Switches, on : BOOLEAN]
    BY <1>5 DEF WriteFails
  <2>2. QED
    BY <1>5, <2>1 DEF WriteFails
<1>6. ASSUME NEW r \in Calls, Arrive(r) PROVE AuditTypeOK'
  BY <1>6 DEF Arrive
<1>7. ASSUME NEW r \in Calls, Check(r) PROVE AuditTypeOK'
  BY <1>7 DEF Check
<1>8. ASSUME NEW r \in Calls, RecordAuditContent(r) PROVE AuditTypeOK'
  BY <1>8 DEF RecordAuditContent
<1>9. CASE RowAges
  BY <1>9 DEF RowAges
<1>10. CASE DeleteAuditHistory
  BY <1>10 DEF DeleteAuditHistory
<1>11. CASE UNCHANGED auditVars
  BY <1>11 DEF auditVars
<1>12. QED
  BY <1>1, <1>2, <1>3, <1>4, <1>5, <1>6, <1>7, <1>8, <1>9, <1>10, <1>11
     DEF AuditNext

\* Type correctness: scopes, switches, writes, handlers and rows have their
\* types, for any number of each.
THEOREM TypeCorrect == AuditSpec => []AuditTypeOK
<1>1. AuditInit => AuditTypeOK
  BY InitType
<1>2. AuditTypeOK /\ [AuditNext]_auditVars => AuditTypeOK'
  BY NextType
<1>3. QED
  BY <1>1, <1>2, PTL DEF AuditSpec

-----------------------------------------------------------------------------
(* One switch for each scope. *)

\* What is stored of a scope is what was last said of it.
StoredAsSaid == \A s \in Scopes : Stored(s) \in enabled <=> Meant(s) \in lastSet

\* Two scopes share a row if, and only if, they are meant as one scope.
LEMMA SameRowSameScope ==
    ASSUME NEW s \in Scopes, NEW t \in Scopes
    PROVE  Stored(s) = Stored(t) <=> Meant(s) = Meant(t)
<1> DEFINE IsGlobal(x) == x[1] = "global"
<1>1. ASSUME NEW x \in Scopes, IsGlobal(x)
      PROVE  Stored(x) = <<"global", "">> /\ Meant(x) = <<"everywhere", "">>
  BY <1>1 DEF Stored, Meant
<1>2. ASSUME NEW x \in Scopes, ~IsGlobal(x)
      PROVE  Stored(x) = x /\ Meant(x) = x
  BY <1>2 DEF Stored, Meant
<1>3. ASSUME NEW x \in Scopes, ~IsGlobal(x)
      PROVE  x # <<"global", "">> /\ x # <<"everywhere", "">>
  <2>1. x[1] \in {"team", "model"}
    <3>1. x \in ({"team"} \X Teams) \cup ({"model"} \X Models)
      <4>1. <<"global", "">>[1] = "global" /\ <<"global", "global">>[1] = "global"
        OBVIOUS
      <4>2. x # <<"global", "">> /\ x # <<"global", "global">>
        BY <1>3, <4>1
      <4>3. QED
        BY <4>2 DEF Scopes
    <3>2. QED
      BY <3>1
  <2>2. <<"global", "">>[1] = "global" /\ <<"everywhere", "">>[1] = "everywhere"
    OBVIOUS
  <2>3. QED
    BY <2>1, <2>2
<1> HIDE DEF IsGlobal
<1>4. QED
  BY <1>1, <1>2, <1>3

\* Before any write nothing is stored and nothing was said ...
LEMMA InitSaid == AuditInit => StoredAsSaid
BY DEF AuditInit, StoredAsSaid

\* ... and a write changes both for the same scopes; nothing else changes either.
LEMMA NextSaid ==
    AuditTypeOK /\ StoredAsSaid /\ [AuditNext]_auditVars => StoredAsSaid'
<1> SUFFICES ASSUME AuditTypeOK, StoredAsSaid, [AuditNext]_auditVars
             PROVE  StoredAsSaid'
  OBVIOUS
<1>1. ASSUME NEW w \in Writes, Apply(w) PROVE StoredAsSaid'
  <2> DEFINE scope == ScopeOf[write[w].by]
  <2>1. scope \in Scopes
    BY <1>1, AuditAssumption DEF AuditAssumption, AuditTypeOK, Apply, NoWrite
  <2>2. /\ enabled' = Set(enabled, Stored(scope), write[w].on)
        /\ lastSet' = Set(lastSet, Meant(scope), write[w].on)
    BY <1>1 DEF Apply
  <2> HIDE DEF scope
  <2>3. ASSUME NEW s \in Scopes
        PROVE  Stored(s) \in enabled' <=> Meant(s) \in lastSet'
    BY <2>1, <2>2, SameRowSameScope DEF Set, StoredAsSaid
  <2>4. QED
    BY <2>3 DEF StoredAsSaid, Stored, Meant
<1>2. CASE UNCHANGED <<enabled, lastSet>>
  BY <1>2 DEF StoredAsSaid, Stored, Meant
<1>3. ASSUME ~ \E w \in Writes : Apply(w) PROVE UNCHANGED <<enabled, lastSet>>
  BY <1>3 DEF AuditNext, auditVars, Open, Toggle, WriteAnswered, WriteFails,
              Arrive, Check, RecordAuditContent, RowAges, DeleteAuditHistory
<1>4. QED
  BY <1>1, <1>2, <1>3

\* The scopes a request is checked against are the ones meant for it.
LEMMA SaidMeansOneSwitch == StoredAsSaid => OneSwitchPerScope
<1> SUFFICES ASSUME StoredAsSaid, NEW r \in Calls
             PROVE  IsContentLoggingEnabled(r) <=> MeantFor(r) \cap lastSet # {}
  BY DEF OneSwitchPerScope
<1> DEFINE everywhere == <<"global", "">>
           team == <<"team", TeamOf[r]>>
           model == <<"model", ModelOf[r]>>
<1>1. everywhere \in Scopes /\ team \in Scopes /\ model \in Scopes
  BY AuditAssumption DEF AuditAssumption, Scopes
<1>2. /\ Stored(everywhere) = everywhere /\ Meant(everywhere) = <<"everywhere", "">>
      /\ Stored(team) = team /\ Meant(team) = team
      /\ Stored(model) = model /\ Meant(model) = model
  BY DEF Stored, Meant
<1>3. /\ everywhere \in enabled <=> <<"everywhere", "">> \in lastSet
      /\ team \in enabled <=> team \in lastSet
      /\ model \in enabled <=> model \in lastSet
  BY <1>1, <1>2 DEF StoredAsSaid
<1>4. QED
  BY <1>3 DEF IsContentLoggingEnabled, Applicable, MeantFor

\* The switches of a scope are one switch: in any order of writes, from any
\* number of pages, handlers go by what was last said of a scope.
THEOREM SwitchesAreOne == AuditSpec => []OneSwitchPerScope
<1>1. AuditInit => StoredAsSaid
  BY InitSaid
<1>2. AuditTypeOK /\ StoredAsSaid /\ [AuditNext]_auditVars => StoredAsSaid'
  BY NextSaid
<1>3. StoredAsSaid => OneSwitchPerScope
  BY SaidMeansOneSwitch
<1>4. QED
  BY <1>1, <1>2, <1>3, TypeCorrect, PTL DEF AuditSpec

-----------------------------------------------------------------------------
(* Content. *)

\* A request that some scope applies to, or whose content is about to be
\* stored, has met a scope that was on; content that is stored has its row.
ContentInv ==
    /\ \A r \in Calls : /\ call[r] # "none" /\ MeantFor(r) \cap lastSet # {} => r \in everOn
                        /\ call[r] = "record" => r \in everOn
    /\ ContentAllowed

\* Nothing runs and nothing is stored initially ...
LEMMA InitContent == AuditInit => ContentInv
BY DEF AuditInit, ContentInv, ContentAllowed

\* ... a scope that is turned on meets the requests that run, a check that
\* succeeds does so by such a scope, and rows take their content with them.
LEMMA NextContent ==
    /\ AuditTypeOK /\ OneSwitchPerScope /\ ContentInv
    /\ [AuditNext]_auditVars
    => ContentInv'
<1> SUFFICES ASSUME AuditTypeOK, OneSwitchPerScope, ContentInv,
                    [AuditNext]_auditVars
             PROVE  ContentInv'
  OBVIOUS
<1> USE DEF AuditTypeOK, ContentInv, ContentAllowed, MeantFor
<1>1. CASE UNCHANGED <<call, lastSet, everOn, content, rows>>
  BY <1>1
<1>2. ASSUME NEW w \in Writes, Apply(w) PROVE ContentInv'
  BY <1>2 DEF Apply, handlers
<1>3. ASSUME NEW r \in Calls, Arrive(r) PROVE ContentInv'
  BY <1>3 DEF Arrive
<1>4. ASSUME NEW r \in Calls, Check(r) PROVE ContentInv'
  BY <1>4 DEF Check, OneSwitchPerScope
<1>5. ASSUME NEW r \in Calls, RecordAuditContent(r) PROVE ContentInv'
  BY <1>5 DEF RecordAuditContent
<1>6. CASE DeleteAuditHistory
  BY <1>6 DEF DeleteAuditHistory
<1>7. ASSUME NEW s \in Switches, Open(s) \/ Toggle(s) PROVE ContentInv'
  BY <1>1, <1>7 DEF Open, Toggle, handlers
<1>8. ASSUME NEW w \in Writes, WriteAnswered(w) \/ WriteFails(w) PROVE ContentInv'
  BY <1>1, <1>8 DEF WriteAnswered, WriteFails, handlers
<1>9. CASE RowAges \/ UNCHANGED auditVars
  BY <1>1, <1>9 DEF RowAges, auditVars
<1>10. QED
  BY <1>2, <1>3, <1>4, <1>5, <1>6, <1>7, <1>8, <1>9 DEF AuditNext

\* Content is kept only of requests that met a scope that was on, and only with
\* their rows: whatever switches, handlers and deletions do meanwhile.
THEOREM ContentKeptAsAllowed == AuditSpec => []ContentAllowed
<1>1. AuditInit => ContentInv
  BY InitContent
<1>2. AuditTypeOK /\ OneSwitchPerScope /\ ContentInv /\ [AuditNext]_auditVars
      => ContentInv'
  BY NextContent
<1>3. ContentInv => ContentAllowed
  BY DEF ContentInv
<1>4. QED
  BY <1>1, <1>2, <1>3, TypeCorrect, SwitchesAreOne, PTL DEF AuditSpec

-----------------------------------------------------------------------------
(* Knobs. *)

\* A switch that is not muddled has one write under way at most and it is its
\* own: the knob shows what that write is to set, and what is stored is the
\* opposite until it is applied. Without a write the knob shows what is stored.
Truthful(s) ==
    /\ \A w, x \in Pending(s) : w = x
    /\ \A w \in Pending(s) :
          /\ write[w].by = s
          /\ write[w].on = knob[s]
          /\ Stored(ScopeOf[s]) \in enabled <=> (write[w].at = "applied" <=> write[w].on)
    /\ Pending(s) = {} => (knob[s] <=> Stored(ScopeOf[s]) \in enabled)

KnobInv == \A s \in Switches \ muddled : Truthful(s)

\* Nothing is stored, shown or under way initially.
LEMMA InitKnobs == AuditInit => KnobInv
BY DEF AuditInit, KnobInv, Truthful, Pending

\* What is said of a switch depends on its scope's writes, its knob and what is
\* stored of its scope.
LEMMA TruthfulKept ==
    ASSUME NEW s \in Switches, Truthful(s), Pending(s)' = Pending(s),
           \A w \in Pending(s) : write'[w] = write[w],
           knob'[s] = knob[s],
           Stored(ScopeOf[s]) \in enabled' <=> Stored(ScopeOf[s]) \in enabled
    PROVE  Truthful(s)'
BY DEF Truthful, Stored

\* A write that is under way is of a switch, and says what it sets.
LEMMA WriteTypes ==
    ASSUME AuditTypeOK, NEW w \in Writes, write[w] # NoWrite
    PROVE  /\ write[w] \in [at : {"sent", "applied"}, by : Switches, on : BOOLEAN]
           /\ ScopeOf[write[w].by] \in Scopes
BY AuditAssumption DEF AuditAssumption, AuditTypeOK

\* Opening a page shows what is stored.
LEMMA OpenTruthful ==
    ASSUME AuditTypeOK, KnobInv, NEW s \in Switches, Open(s) PROVE KnobInv'
<1> SUFFICES ASSUME NEW t \in Switches, t \notin muddled' PROVE Truthful(t)'
  BY DEF KnobInv
<1>1. \A u \in Switches : Pending(u)' = Pending(u)
  BY DEF Open, Pending, Meant
<1>2. CASE t = s
  <2>1. Pending(s) = {}
    BY <1>2 DEF Open
  <2>2. knob'[s] <=> Stored(ScopeOf[s]) \in enabled'
    BY DEF Open, AuditTypeOK, Stored
  <2>3. QED
    BY <1>1, <1>2, <2>1, <2>2 DEF Truthful, Stored
<1>3. CASE t # s
  <2>1. Truthful(t)
    BY <1>3 DEF Open, KnobInv
  <2>2. knob'[t] = knob[t] /\ write' = write /\ enabled' = enabled
    BY <1>3 DEF Open, AuditTypeOK
  <2>3. QED
    BY <1>1, <2>1, <2>2, TruthfulKept
<1>4. QED
  BY <1>2, <1>3

\* A toggled switch has its one write under way, or is muddled with the others
\* of its scope.
LEMMA ToggleTruthful ==
    ASSUME AuditTypeOK, KnobInv, NEW s \in Switches, Toggle(s) PROVE KnobInv'
<1> SUFFICES ASSUME NEW t \in Switches, t \notin muddled' PROVE Truthful(t)'
  BY DEF KnobInv
<1>1. PICK w \in Writes :
         /\ write[w] = NoWrite
         /\ write' = [write EXCEPT ![w] = [at |-> "sent", by |-> s, on |-> ~knob[s]]]
  BY DEF Toggle
<1>2. /\ enabled' = enabled /\ knob' = [knob EXCEPT ![s] = ~@]
      /\ t \notin muddled
      /\ t \in SameScope(s) => t = s /\ Pending(s) = {}
  BY DEF Toggle, handlers
<1>3. Truthful(t)
  BY <1>2 DEF KnobInv
<1>4. write'[w] # NoWrite /\ write'[w].by = s /\ write'[w].at = "sent" /\ write'[w].on = ~knob[s]
  BY <1>1 DEF AuditTypeOK, NoWrite
<1>5. \A x \in Writes : x # w => write'[x] = write[x]
  BY <1>1 DEF AuditTypeOK
<1>6. CASE t = s
  <2>1. Pending(s)' = {w}
    <3>1. Pending(s) = {}
      BY <1>2, <1>6 DEF SameScope
    <3>2. ASSUME NEW x \in Writes
          PROVE  x \in Pending(s)' <=> /\ write'[x] # NoWrite
                                      /\ Meant(ScopeOf[write'[x].by]) = Meant(ScopeOf[s])
      BY DEF Pending, Meant
    <3>3. Pending(s)' \subseteq Writes
      BY DEF Pending
    <3>4. ASSUME NEW x \in Writes, x # w PROVE x \notin Pending(s)'
      BY <3>1, <3>2, <3>4, <1>5 DEF Pending
    <3>5. w \in Pending(s)'
      BY <3>2, <1>4
    <3>6. QED
      BY <3>3, <3>4, <3>5
  <2>2. knob'[s] = ~knob[s] /\ knob[s] \in BOOLEAN
    BY <1>2 DEF AuditTypeOK
  <2>3. knob[s] <=> Stored(ScopeOf[s]) \in enabled
    BY <1>2, <1>3, <1>6 DEF Truthful, SameScope
  <2>4. QED
    BY <1>2, <1>4, <1>6, <2>1, <2>2, <2>3 DEF Truthful, Stored
<1>7. CASE t # s
  <2>1. Meant(ScopeOf[t]) # Meant(ScopeOf[s])
    BY <1>2, <1>7 DEF SameScope
  <2>2. Pending(t)' = Pending(t)
    BY <1>1, <1>4, <1>5, <2>1 DEF Pending, Meant
  <2>3. \A x \in Pending(t) : write'[x] = write[x]
    BY <1>1, <1>5 DEF Pending
  <2>4. knob'[t] = knob[t]
    BY <1>2, <1>7 DEF AuditTypeOK
  <2>5. QED
    BY <1>2, <1>3, <2>2, <2>3, <2>4, TruthfulKept
<1>8. QED
  BY <1>6, <1>7

\* A write that is applied was the one its switch waits for, or the switches of
\* its scope are all muddled; it leaves other scopes as they are.
LEMMA ApplyTruthful ==
    ASSUME AuditTypeOK, KnobInv, NEW w \in Writes, Apply(w) PROVE KnobInv'
<1> SUFFICES ASSUME NEW t \in Switches, t \notin muddled' PROVE Truthful(t)'
  BY DEF KnobInv
<1>1. /\ write[w] # NoWrite /\ write[w].at = "sent"
      /\ write' = [write EXCEPT ![w].at = "applied"]
      /\ enabled' = Set(enabled, Stored(ScopeOf[write[w].by]), write[w].on)
      /\ knob' = knob /\ muddled' = muddled
  BY DEF Apply, NoWrite
<1>2. /\ write[w] \in [at : {"sent", "applied"}, by : Switches, on : BOOLEAN]
      /\ ScopeOf[write[w].by] \in Scopes /\ ScopeOf[t] \in Scopes
  BY <1>1, WriteTypes, AuditAssumption DEF AuditAssumption
<1>3. Truthful(t)
  BY <1>1 DEF KnobInv
<1>4. /\ write'[w] # NoWrite /\ write'[w].at = "applied"
      /\ write'[w].by = write[w].by /\ write'[w].on = write[w].on
  BY <1>1, <1>2 DEF AuditTypeOK, NoWrite
<1>5. \A x \in Writes : x # w => write'[x] = write[x]
  BY <1>1 DEF AuditTypeOK
<1>6. Pending(t)' = Pending(t)
  BY <1>1, <1>4, <1>5 DEF Pending, Meant
<1>7. CASE w \in Pending(t)
  <2>1. write[w].by = t /\ Pending(t) = {w} /\ write[w].on = knob[t]
    BY <1>3, <1>7 DEF Truthful
  <2>2. Stored(ScopeOf[t]) \in enabled' <=> write[w].on
    BY <1>1, <2>1 DEF Set
  <2>3. knob'[t] = knob[t] /\ Pending(t)' = {w}
    BY <1>1, <1>6, <2>1
  <2>4. QED
    BY <1>4, <2>1, <2>2, <2>3 DEF Truthful, Stored
<1>8. CASE w \notin Pending(t)
  <2>1. Stored(ScopeOf[t]) # Stored(ScopeOf[write[w].by])
    BY <1>1, <1>2, <1>8, SameRowSameScope DEF Pending
  <2>2. Stored(ScopeOf[t]) \in enabled' <=> Stored(ScopeOf[t]) \in enabled
    BY <1>1, <2>1 DEF Set
  <2>3. \A x \in Pending(t) : write'[x] = write[x]
    BY <1>5, <1>8 DEF Pending
  <2>4. QED
    BY <1>1, <1>3, <1>6, <2>2, <2>3, TruthfulKept
<1>9. QED
  BY <1>7, <1>8

\* A write that ends, with its knob taken back or not, leaves what it has set;
\* one that was not applied has set nothing.
LEMMA EndTruthful ==
    ASSUME AuditTypeOK, KnobInv, NEW w \in Writes, WriteAnswered(w) \/ WriteFails(w)
    PROVE  KnobInv'
<1> SUFFICES ASSUME NEW t \in Switches, t \notin muddled' PROVE Truthful(t)'
  BY DEF KnobInv
<1>1. /\ write[w] # NoWrite
      /\ write' = [write EXCEPT ![w] = NoWrite]
      /\ enabled' = enabled /\ muddled \subseteq muddled'
  BY DEF WriteAnswered, WriteFails, NoWrite, handlers
<1>2. write[w] \in [at : {"sent", "applied"}, by : Switches, on : BOOLEAN]
  BY <1>1, WriteTypes
<1>3. Truthful(t)
  BY <1>1 DEF KnobInv
<1>4. write'[w] = NoWrite /\ \A x \in Writes : x # w => write'[x] = write[x]
  BY <1>1 DEF AuditTypeOK
<1>5. Pending(t)' = Pending(t) \ {w}
  BY <1>4 DEF Pending, Meant
<1>6. CASE w \in Pending(t)
  <2>1. write[w].by = t /\ Pending(t) = {w} /\ write[w].on = knob[t]
    BY <1>3, <1>6 DEF Truthful
  <2>2. Stored(ScopeOf[t]) \in enabled <=> (write[w].at = "applied" <=> write[w].on)
    BY <1>3, <1>6 DEF Truthful
  <2>3. CASE WriteAnswered(w)
    <3>1. write[w].at = "applied" /\ knob' = knob
      BY <2>3 DEF WriteAnswered
    <3>2. QED
      BY <1>1, <1>2, <1>5, <2>1, <2>2, <3>1 DEF Truthful, Stored
  <2>4. CASE WriteFails(w)
    <3>1. knob'[t] = ~write[w].on
      BY <2>1, <2>4 DEF WriteFails, AuditTypeOK
    <3>2. write[w].at # "applied"
      BY <2>1, <2>4 DEF WriteFails
    <3>3. QED
      BY <1>1, <1>2, <1>5, <2>1, <2>2, <3>1, <3>2 DEF Truthful, Stored
  <2>5. QED
    BY <2>3, <2>4
<1>7. CASE w \notin Pending(t)
  <2>1. write[w].by # t
    BY <1>1, <1>7 DEF Pending
  <2>2. knob'[t] = knob[t]
    BY <2>1 DEF WriteAnswered, WriteFails, AuditTypeOK
  <2>3. \A x \in Pending(t) : write'[x] = write[x]
    BY <1>4, <1>7 DEF Pending
  <2>4. QED
    BY <1>1, <1>3, <1>5, <1>7, <2>2, <2>3, TruthfulKept
<1>8. QED
  BY <1>6, <1>7

\* Handlers and retention leave the switches alone.
LEMMA NextKnobs == AuditTypeOK /\ KnobInv /\ [AuditNext]_auditVars => KnobInv'
<1> SUFFICES ASSUME AuditTypeOK, KnobInv, [AuditNext]_auditVars PROVE KnobInv'
  OBVIOUS
<1>1. CASE UNCHANGED <<enabled, knob, muddled, write>>
  <2> SUFFICES ASSUME NEW t \in Switches, t \notin muddled' PROVE Truthful(t)'
    BY DEF KnobInv
  <2>1. Truthful(t) /\ Pending(t)' = Pending(t)
    BY <1>1 DEF KnobInv, Pending, Meant
  <2>2. QED
    BY <1>1, <2>1, TruthfulKept
<1>2. ASSUME NEW r \in Calls, Arrive(r) \/ Check(r) \/ RecordAuditContent(r)
      PROVE  KnobInv'
  BY <1>1, <1>2 DEF Arrive, Check, RecordAuditContent
<1>3. CASE RowAges \/ DeleteAuditHistory \/ UNCHANGED auditVars
  BY <1>1, <1>3 DEF RowAges, DeleteAuditHistory, auditVars
<1>4. QED
  BY <1>2, <1>3, OpenTruthful, ToggleTruthful, ApplyTruthful, EndTruthful DEF AuditNext

\* A switch at rest tells the truth: for any number of pages, switches and
\* writes under way, in any order of their arrival and whichever of them fail.
THEOREM KnobsTellTruth == AuditSpec => []KnobTellsTruth
<1>1. AuditInit => KnobInv
  BY InitKnobs
<1>2. AuditTypeOK /\ KnobInv /\ [AuditNext]_auditVars => KnobInv'
  BY NextKnobs
<1>3. KnobInv => KnobTellsTruth
  BY DEF KnobInv, Truthful, KnobTellsTruth
<1>4. QED
  BY <1>1, <1>2, <1>3, TypeCorrect, PTL DEF AuditSpec

-----------------------------------------------------------------------------
(* The listing: types. *)

Row == [routed : BOOLEAN, status : {"queued", "completed"}]

\* Nothing has arrived initially and nobody reads ...
LEMMA InitReportsType == ReportsInit => ReportsTypeOK
BY ReportsAssumption DEF ReportsAssumption, ReportsInit, ReportsTypeOK, Filters, Arrived

\* ... and every step keeps the types of the table and of the walk.
LEMMA NextReportsType ==
    ReportsTypeOK /\ [ReportsNext]_reportVars => ReportsTypeOK'
<1> SUFFICES ASSUME ReportsTypeOK, [ReportsNext]_reportVars PROVE ReportsTypeOK'
  OBVIOUS
<1> USE ReportsAssumption DEF ReportsAssumption, ReportsTypeOK, Filters, Arrived
<1>1. table \in Seq(Row) /\ Len(table) \in Nat /\ DOMAIN table = 1..Len(table)
  BY DEF Row
<1>2. CASE RequestArrives
  <2>1. [routed |-> FALSE, status |-> "queued"] \in Row
    BY DEF Row
  <2>2. table' \in Seq(Row) /\ Len(table') = Len(table) + 1
    BY <1>1, <1>2, <2>1, AppendProperties DEF RequestArrives
  <2>3. QED
    BY <1>1, <1>2, <2>2 DEF RequestArrives, Row
<1>3. ASSUME NEW n \in Arrived, NEW row \in Row, Change(n, row) PROVE ReportsTypeOK'
  <2>1. table' \in Seq(Row) /\ Len(table') = Len(table)
    BY <1>1, <1>3, ExceptSeq DEF Change
  <2>2. steady' \subseteq steady /\ left' \in Nat
    BY <1>3 DEF Change
  <2>3. QED
    BY <1>1, <1>3, <2>1, <2>2 DEF Change, Row
<1>4. ASSUME NEW n \in Arrived, RequestRouted(n) \/ RequestSettles(n) PROVE ReportsTypeOK'
  <2>1. table[n] \in Row
    BY <1>1, ElementOfSeq
  <2>2. [table[n] EXCEPT !.routed = TRUE] \in Row /\ [table[n] EXCEPT !.status = "completed"] \in Row
    BY <2>1 DEF Row
  <2>3. QED
    BY <1>3, <1>4, <2>2 DEF RequestRouted, RequestSettles
<1>5. CASE DeleteOldest
  <2>1. deleted' \in 0..Len(table) /\ steady' \subseteq steady
    BY <1>1, <1>5 DEF DeleteOldest
  <2>2. QED
    BY <1>5, <2>1 DEF DeleteOldest
<1>6. CASE BeginWalk
  BY <1>1, <1>6 DEF BeginWalk, Matching
<1>7. CASE ReadPage
  <2>1. PageAt(walk.filter, walk.offset) \subseteq Arrived
    BY DEF PageAt, Matching
  <2>2. /\ walk' \in [stage : {"none", "reading", "done"}, filter : Filters,
                       offset : Nat, seen : SUBSET Arrived]
        /\ UNCHANGED <<table, deleted, steady, left>>
    <3>1. walk.offset + Limit \in Nat
      OBVIOUS
    <3>2. QED
      BY <1>7, <2>1, <3>1 DEF ReadPage
  <2>3. QED
    BY <2>2
<1>8. CASE UNCHANGED reportVars
  BY <1>8 DEF reportVars
<1>9. QED
  BY <1>2, <1>4, <1>5, <1>6, <1>7, <1>8 DEF ReportsNext

\* Type correctness of the listing, for tables and pages of any size.
THEOREM ReportsTypeCorrect == ReportsSpec => []ReportsTypeOK
<1>1. ReportsInit => ReportsTypeOK
  BY InitReportsType
<1>2. ReportsTypeOK /\ [ReportsNext]_reportVars => ReportsTypeOK'
  BY NextReportsType
<1>3. QED
  BY <1>1, <1>2, PTL DEF ReportsSpec

-----------------------------------------------------------------------------
(* Positions in a listing, newest first, of a finite set of rows. *)

Newer(M, n) == {m \in M : m > n}
Position(M, n) == Cardinality(Newer(M, n))
FirstRows(M, k) == {n \in M : Position(M, n) < k}

\* A position is a number less than the rows there are; a newer row comes
\* strictly before an older one.
LEMMA Positions ==
    ASSUME NEW M \in SUBSET Nat, IsFiniteSet(M)
    PROVE  /\ Cardinality(M) \in Nat
           /\ \A n \in Nat : IsFiniteSet(Newer(M, n)) /\ Position(M, n) \in Nat
           /\ \A n \in M : Position(M, n) < Cardinality(M)
           /\ \A n \in M, m \in M : m > n => Position(M, m) < Position(M, n)
<1>1. Cardinality(M) \in Nat
  BY FS_CardinalityType
<1>2. ASSUME NEW n \in Nat PROVE IsFiniteSet(Newer(M, n)) /\ Position(M, n) \in Nat
  <2>1. Newer(M, n) \subseteq M
    BY DEF Newer
  <2>2. IsFiniteSet(Newer(M, n))
    BY <2>1, FS_Subset
  <2>3. QED
    BY <2>2, FS_CardinalityType DEF Position
<1>3. ASSUME NEW n \in M PROVE Position(M, n) < Cardinality(M)
  <2>1. Newer(M, n) \subseteq M /\ n \notin Newer(M, n)
    BY DEF Newer
  <2>2. Cardinality(Newer(M, n)) <= Cardinality(M) /\ Cardinality(Newer(M, n)) # Cardinality(M)
    BY <2>1, FS_Subset
  <2>3. QED
    BY <1>1, <1>2, <2>2 DEF Position
<1>4. ASSUME NEW n \in M, NEW m \in M, m > n PROVE Position(M, m) < Position(M, n)
  <2>1. Newer(M, m) \subseteq Newer(M, n) /\ m \in Newer(M, n) /\ m \notin Newer(M, m)
    <3>1. \A x \in M : x \in Nat
      OBVIOUS
    <3>2. \A x \in M : x > m => x > n
      BY <1>4, <3>1
    <3>3. ~(m > m)
      BY <3>1
    <3>4. QED
      BY <1>4, <3>2, <3>3 DEF Newer
  <2>2. /\ Cardinality(Newer(M, m)) <= Cardinality(Newer(M, n))
        /\ Cardinality(Newer(M, m)) # Cardinality(Newer(M, n))
    BY <1>2, <2>1, FS_Subset
  <2>3. QED
    BY <1>2, <2>2 DEF Position
<1>5. QED
  BY <1>1, <1>2, <1>3, <1>4

\* Every position up to the number of rows is taken, by one row.
LEMMA PositionsTaken ==
    ASSUME NEW M \in SUBSET Nat, IsFiniteSet(M)
    PROVE  \A k \in 0..(Cardinality(M) - 1) : \E n \in M : Position(M, n) = k
<1> DEFINE c == Cardinality(M)
           f == [n \in M |-> Position(M, n)]
<1>1. c \in Nat /\ f \in [M -> 0..(c - 1)]
  BY Positions
<1>2. \A n \in M, m \in M : f[n] = f[m] => n = m
  BY Positions
<1>3. f \in Injection(M, 0..(c - 1))
  BY <1>1, <1>2 DEF Injection, IsInjective
<1>4. IsFiniteSet(0..(c - 1)) /\ Cardinality(0..(c - 1)) = c
  <2>1. c \in Nat /\ 0 \in Int /\ c - 1 \in Int
    BY <1>1
  <2> HIDE DEF c
  <2>2. IsFiniteSet(0..(c - 1)) /\ Cardinality(0..(c - 1)) = IF 0 > c - 1 THEN 0 ELSE c - 1 - 0 + 1
    BY <2>1, FS_Interval
  <2>3. QED
    BY <2>1, <2>2
<1>5. f \in Surjection(M, 0..(c - 1))
  BY <1>3, <1>4, FS_Injection
<1>6. \A k \in 0..(c - 1) : \E n \in M : f[n] = k
  BY <1>5 DEF Surjection
<1>7. QED
  BY <1>6

\* A row that is new to the listing comes before no row that was not there before.
LEMMA FirstRowsAfterInsert ==
    ASSUME NEW M \in SUBSET Nat, IsFiniteSet(M), NEW x \in Nat, NEW k \in Nat
    PROVE  FirstRows(M \cup {x}, k) \ {x} \subseteq FirstRows(M, k)
<1> SUFFICES ASSUME NEW n \in M, Position(M \cup {x}, n) < k PROVE Position(M, n) < k
  BY DEF FirstRows
<1>1. M \cup {x} \in SUBSET Nat /\ IsFiniteSet(M \cup {x})
  BY FS_AddElement
<1>2. Newer(M, n) \subseteq Newer(M \cup {x}, n)
  BY DEF Newer
<1>3. IsFiniteSet(Newer(M \cup {x}, n)) /\ Position(M \cup {x}, n) \in Nat /\ Position(M, n) \in Nat
  BY <1>1, Positions
<1>4. Position(M, n) <= Position(M \cup {x}, n)
  BY <1>2, <1>3, FS_Subset DEF Position
<1>5. QED
  BY <1>3, <1>4

\* When a row leaves the listing, one other at most moves up among the first.
LEMMA FirstRowsAfterRemove ==
    ASSUME NEW M \in SUBSET Nat, IsFiniteSet(M), NEW x \in Nat, NEW k \in Nat
    PROVE  \E y \in Nat : FirstRows(M \ {x}, k) \subseteq FirstRows(M, k) \cup {y}
<1>1. ASSUME NEW n \in FirstRows(M \ {x}, k)
      PROVE  n \in M /\ Position(M, n) \in Nat /\ Position(M, n) <= k
  <2>1. n \in M /\ n \in Nat /\ Position(M \ {x}, n) < k
    BY DEF FirstRows
  <2>2. Newer(M \ {x}, n) = Newer(M, n) \ {x}
    BY DEF Newer
  <2>3. IsFiniteSet(Newer(M, n)) /\ Position(M, n) \in Nat
    BY <2>1, Positions
  <2>4. Position(M \ {x}, n) >= Position(M, n) - 1 /\ Position(M \ {x}, n) \in Int
    <3> DEFINE N == Newer(M, n)
    <3>1. Cardinality(N) \in Nat /\ IsFiniteSet(N)
      BY <2>3 DEF Position
    <3> HIDE DEF N
    <3>2. Cardinality(N \ {x}) = IF x \in N THEN Cardinality(N) - 1 ELSE Cardinality(N)
      BY <3>1, FS_RemoveElement
    <3>3. Cardinality(N \ {x}) >= Cardinality(N) - 1 /\ Cardinality(N \ {x}) \in Int
      BY <3>1, <3>2
    <3>4. QED
      BY <2>2, <3>3 DEF Position, N
  <2>5. QED
    BY <2>1, <2>3, <2>4
<1>2. ASSUME NEW n \in M, NEW m \in M, Position(M, n) = k, Position(M, m) = k PROVE n = m
  BY <1>2, Positions
<1>3. ASSUME NEW n \in FirstRows(M \ {x}, k) PROVE n \in FirstRows(M, k) \/ Position(M, n) = k
  BY <1>1 DEF FirstRows
<1>4. CASE \E y \in M : Position(M, y) = k
  <2>1. PICK y \in M : Position(M, y) = k
    BY <1>4
  <2>2. FirstRows(M \ {x}, k) \subseteq FirstRows(M, k) \cup {y}
    BY <1>1, <1>2, <1>3, <2>1
  <2>3. QED
    BY <2>2
<1>5. CASE ~ \E y \in M : Position(M, y) = k
  <2>1. FirstRows(M \ {x}, k) \subseteq FirstRows(M, k) \cup {0}
    BY <1>1, <1>3, <1>5
  <2>2. QED
    BY <2>1
<1>6. QED
  BY <1>4, <1>5

\* Rows that go at the old end are not missed at the new one.
LEMMA FirstRowsAfterCut ==
    ASSUME NEW M \in SUBSET Nat, NEW d \in Nat, NEW k \in Nat
    PROVE  FirstRows({m \in M : m > d}, k) \subseteq FirstRows(M, k)
<1>1. ASSUME NEW n \in M, n > d PROVE Position({m \in M : m > d}, n) = Position(M, n)
  <2>1. ASSUME NEW m \in M, m > n PROVE m > d
    BY <1>1, <2>1
  <2>2. Newer({m \in M : m > d}, n) = Newer(M, n)
    BY <2>1 DEF Newer
  <2>3. QED
    BY <2>2 DEF Position
<1>2. QED
  BY <1>1 DEF FirstRows

\* A page continues the rows before it, and a short one is the last.
LEMMA FirstRowsWithPage ==
    ASSUME NEW M \in SUBSET Nat, IsFiniteSet(M), NEW k \in Nat, NEW l \in Nat \ {0},
           NEW page, page = {n \in M : Position(M, n) \in k..(k + l - 1)}
    PROVE  /\ FirstRows(M, k + l) = FirstRows(M, k) \cup page
           /\ Cardinality(page) < l => M = FirstRows(M, k + l)
<1>1. \A n \in M : Position(M, n) \in Nat /\ Position(M, n) < Cardinality(M)
  BY Positions
<1>2. FirstRows(M, k + l) = FirstRows(M, k) \cup page
  <2>1. ASSUME NEW n \in M
        PROVE  Position(M, n) < k + l <=> Position(M, n) < k \/ Position(M, n) \in k..(k + l - 1)
    BY <1>1
  <2>2. QED
    BY <2>1 DEF FirstRows
<1>3. ASSUME NEW x \in M, Position(M, x) >= k + l PROVE Cardinality(page) >= l
  <2> DEFINE places == k..(k + l - 1)
             f == [n \in page |-> Position(M, n)]
  <2>1. \A p \in places : \E n \in page : Position(M, n) = p
    <3>1. Cardinality(M) \in Nat /\ k + l < Cardinality(M)
      BY <1>1, <1>3, Positions
    <3>2. ASSUME NEW p \in places PROVE p \in 0..(Cardinality(M) - 1)
      BY <3>1
    <3>3. QED
      BY <3>2, PositionsTaken
  <2>2. f \in [page -> places] /\ \A p \in places : \E n \in page : f[n] = p
    BY <2>1
  <2>3. f \in Surjection(page, places)
    BY <2>2 DEF Surjection
  <2>4. IsFiniteSet(page)
    BY FS_Subset
  <2>5. Cardinality(places) <= Cardinality(page)
    BY <2>3, <2>4, FS_Surjection
  <2>6. Cardinality(places) = l
    BY FS_Interval
  <2>7. QED
    BY <2>5, <2>6
<1>4. ASSUME Cardinality(page) < l PROVE M = FirstRows(M, k + l)
  <2>1. Cardinality(page) \in Nat
    BY FS_Subset, FS_CardinalityType
  <2>2. ASSUME NEW x \in M PROVE Position(M, x) < k + l
    BY <1>1, <1>3, <1>4, <2>1
  <2>3. QED
    BY <2>2 DEF FirstRows
<1>5. QED
  BY <1>2, <1>4

-----------------------------------------------------------------------------
(* The walk through the pages. *)

\* Those that should have been shown, had no page shifted.
Passed == FirstRows(Matching(walk.filter), walk.offset)

\* Before a walk nothing is remembered of one. While it reads, the rows that
\* matched all along still match, and of those before the present offset so many
\* at most have not been shown as have left the listing; at the end, of all.
WalkInv ==
    /\ walk.stage = "none" => steady = {} /\ left = 0 /\ walk.offset = 0
    /\ walk.stage = "reading" =>
          /\ steady \subseteq Matching(walk.filter)
          /\ Cardinality((steady \cap Passed) \ walk.seen) <= left
    /\ PagesMissNothing

\* The rows that match a filter are finitely many.
LEMMA MatchingFinite ==
    ASSUME ReportsTypeOK, NEW f
    PROVE  Matching(f) \in SUBSET Nat /\ IsFiniteSet(Matching(f))
<1>1. Len(table) \in Nat
  BY DEF ReportsTypeOK
<1>2. Matching(f) \subseteq 1..Len(table)
  BY DEF Matching, Arrived
<1>3. IsFiniteSet(1..Len(table))
  BY <1>1, FS_Interval
<1>4. QED
  BY <1>1, <1>2, <1>3, FS_Subset

\* Fewer rows of a smaller set: what a bound on a set says of its part.
LEMMA FewerOfPart ==
    ASSUME NEW S, IsFiniteSet(S), NEW T, T \subseteq S, NEW k \in Nat, Cardinality(S) <= k
    PROVE  IsFiniteSet(T) /\ Cardinality(T) <= k
<1>1. IsFiniteSet(T) /\ Cardinality(T) <= Cardinality(S)
  BY FS_Subset
<1>2. Cardinality(S) \in Nat /\ Cardinality(T) \in Nat
  BY <1>1, FS_CardinalityType
<1>3. QED
  BY <1>1, <1>2

\* What is behind a walk is finite.
LEMMA BehindFinite ==
    ASSUME ReportsTypeOK PROVE IsFiniteSet((steady \cap Passed) \ walk.seen) /\ left \in Nat
<1>1. (steady \cap Passed) \ walk.seen \subseteq Matching(walk.filter)
  BY DEF Passed, FirstRows
<1>2. QED
  BY <1>1, MatchingFinite, FS_Subset DEF ReportsTypeOK

\* One row matches or does not match any more; the others are as they were.
LEMMA MatchingChange ==
    ASSUME ReportsTypeOK, NEW n \in Arrived, n > deleted, NEW row \in Row, Change(n, row),
           NEW f \in Filters
    PROVE  Matching(f)' = IF Matches(f, row) THEN Matching(f) \cup {n} ELSE Matching(f) \ {n}
<1>1. /\ table' = [table EXCEPT ![n] = row] /\ deleted' = deleted
      /\ table \in Seq(Row) /\ n \in 1..Len(table)
  BY DEF Change, ReportsTypeOK, Arrived, Row
<1>2. /\ Len(table') = Len(table)
      /\ \A m \in 1..Len(table) : table'[m] = IF m = n THEN row ELSE table[m]
  BY <1>1, ExceptSeq
<1>3. Matching(f)' = {m \in 1..Len(table') : m > deleted' /\ Matches(f, table'[m])}
  BY DEF Matching, Arrived, Matches
<1>4. QED
  BY <1>1, <1>2, <1>3 DEF Matching, Arrived

\* A row that arrives is the newest, if it matches.
LEMMA MatchingArrival ==
    ASSUME ReportsTypeOK, RequestArrives, NEW f \in Filters
    PROVE  /\ Len(table) + 1 \in Nat \ Arrived
           /\ Matching(f) \subseteq Matching(f)'
           /\ Matching(f)' \subseteq Matching(f) \cup {Len(table) + 1}
<1> DEFINE row == [routed |-> FALSE, status |-> "queued"]
<1>1. /\ table' = Append(table, row) /\ deleted' = deleted
      /\ table \in Seq(Row) /\ row \in Row /\ Len(table) \in Nat
  BY DEF RequestArrives, ReportsTypeOK, Row
<1> HIDE DEF row
<1>2. /\ Len(table') = Len(table) + 1
      /\ \A m \in 1..Len(table) : table'[m] = table[m]
  BY <1>1, AppendProperties
<1>3. Matching(f)' = {m \in 1..Len(table') : m > deleted' /\ Matches(f, table'[m])}
  BY DEF Matching, Arrived, Matches
<1>4. QED
  BY <1>1, <1>2, <1>3 DEF Matching, Arrived

\* A row that comes into the listing of a walk, or one that was in it and stays.
LEMMA WalkMeetsRow ==
    ASSUME ReportsTypeOK, WalkInv, ReportsTypeOK', NEW n \in Nat, n \notin steady \/ n \in Matching(walk.filter),
           walk.stage = "reading" =>
              Matching(walk.filter)' \in {Matching(walk.filter), Matching(walk.filter) \cup {n}},
           UNCHANGED <<walk, steady, left>>
    PROVE  WalkInv'
<1>1. CASE walk.stage # "reading"
  BY <1>1 DEF WalkInv, PagesMissNothing
<1>2. CASE walk.stage = "reading"
  <2> DEFINE M == Matching(walk.filter)
             now == Matching(walk.filter)'
  <2>1. M \in SUBSET Nat /\ IsFiniteSet(M) /\ walk.offset \in Nat
    BY MatchingFinite DEF ReportsTypeOK
  <2>2. now = M \/ now = M \cup {n}
    BY <1>2
  <2>3. Passed' = FirstRows(now, walk.offset)
    BY DEF Passed, FirstRows, Position, Newer
  <2>4. steady \cap Passed' \subseteq Passed
    <3>1. CASE now = M
      BY <2>3, <3>1 DEF Passed
    <3>2. CASE now = M \cup {n} /\ n \notin M
      BY <2>1, <2>3, <3>2, FirstRowsAfterInsert DEF Passed
    <3>3. CASE n \in M
      BY <2>2, <3>1, <3>3
    <3>4. QED
      BY <2>2, <3>1, <3>2, <3>3
  <2>5. (steady \cap Passed') \ walk.seen \subseteq (steady \cap Passed) \ walk.seen
    BY <2>4
  <2>6. Cardinality((steady \cap Passed') \ walk.seen) <= left
    BY <1>2, <2>5, BehindFinite, FewerOfPart DEF WalkInv
  <2>7. steady \subseteq now
    BY <1>2, <2>2 DEF WalkInv
  <2>8. QED
    BY <1>2, <2>6, <2>7 DEF WalkInv, PagesMissNothing
<1>3. QED
  BY <1>1, <1>2

\* A row that leaves the listing of a walk takes one other's turn at most.
LEMMA WalkLosesRow ==
    ASSUME ReportsTypeOK, WalkInv, NEW n \in Nat,
           walk.stage = "reading", n \in Matching(walk.filter),
           Matching(walk.filter)' = Matching(walk.filter) \ {n},
           walk' = walk, steady' = steady \ {n}, left' = left + 1
    PROVE  WalkInv'
<1> DEFINE M == Matching(walk.filter)
           behind == (steady \cap Passed) \ walk.seen
<1>1. M \in SUBSET Nat /\ IsFiniteSet(M) /\ walk.offset \in Nat
  BY MatchingFinite DEF ReportsTypeOK
<1>2. Passed' = FirstRows(M \ {n}, walk.offset)
  BY DEF Passed, FirstRows, Position, Newer
<1>3. PICK y \in Nat : Passed' \subseteq Passed \cup {y}
  BY <1>1, <1>2, FirstRowsAfterRemove DEF Passed
<1>4. (steady' \cap Passed') \ walk'.seen \subseteq behind \cup {y}
  BY <1>3
<1>5. /\ IsFiniteSet(behind \cup {y})
      /\ Cardinality(behind \cup {y}) <= left + 1
  <2>1. IsFiniteSet(behind) /\ Cardinality(behind) <= left /\ left \in Nat
    BY BehindFinite DEF WalkInv
  <2> HIDE DEF behind
  <2>2. /\ IsFiniteSet(behind \cup {y}) /\ Cardinality(behind) \in Nat
        /\ Cardinality(behind \cup {y}) = IF y \in behind THEN Cardinality(behind)
                                          ELSE Cardinality(behind) + 1
    BY <2>1, FS_AddElement, FS_CardinalityType
  <2>3. QED
    BY <2>1, <2>2
<1>6. Cardinality((steady' \cap Passed') \ walk'.seen) <= left'
  <2>1. left + 1 \in Nat
    BY DEF ReportsTypeOK
  <2> HIDE DEF behind
  <2>2. QED
    BY <1>4, <1>5, <2>1, FewerOfPart
<1>7. steady' \subseteq Matching(walk.filter)'
  BY DEF WalkInv
<1>8. QED
  BY <1>6, <1>7 DEF WalkInv, PagesMissNothing

\* A change of a row's model or status.
LEMMA ChangeKeepsWalk ==
    ASSUME ReportsTypeOK, ReportsTypeOK', WalkInv, NEW n \in Arrived, n > deleted,
           NEW row \in Row, Change(n, row)
    PROVE  WalkInv'
<1> DEFINE f == walk.filter
<1>1. n \in Nat /\ f \in Filters /\ walk' = walk
  BY DEF Arrived, ReportsTypeOK, Change
<1>2. Matching(f)' = IF Matches(f, row) THEN Matching(f) \cup {n} ELSE Matching(f) \ {n}
  BY <1>1, MatchingChange
<1>3. CASE walk.stage = "reading" /\ n \in Matching(f) /\ ~Matches(f, row)
  BY <1>1, <1>2, <1>3, WalkLosesRow DEF Change
<1>4. CASE ~(walk.stage = "reading" /\ n \in Matching(f) /\ ~Matches(f, row))
  <2>1. UNCHANGED <<walk, steady, left>>
    BY <1>4 DEF Change
  <2>2. walk.stage = "reading" => Matching(f)' \in {Matching(f), Matching(f) \cup {n}}
    BY <1>2, <1>4
  <2>3. CASE walk.stage # "reading"
    BY <2>1, <2>3 DEF WalkInv, PagesMissNothing
  <2>4. CASE walk.stage = "reading"
    <3>1. n \notin steady \/ n \in Matching(f)
      BY <2>4 DEF WalkInv
    <3>2. QED
      BY <1>1, <2>1, <2>2, <3>1, WalkMeetsRow
  <2>5. QED
    BY <2>3, <2>4
<1>5. QED
  BY <1>3, <1>4

\* A request that arrives comes first.
LEMMA ArrivalKeepsWalk ==
    ASSUME ReportsTypeOK, ReportsTypeOK', WalkInv, RequestArrives PROVE WalkInv'
<1> DEFINE n == Len(table) + 1
<1>1. UNCHANGED <<walk, steady, left>> /\ walk.filter \in Filters /\ steady \subseteq Arrived
  BY DEF RequestArrives, ReportsTypeOK
<1>2. /\ n \in Nat /\ n \notin steady
      /\ Matching(walk.filter) \subseteq Matching(walk.filter)'
      /\ Matching(walk.filter)' \subseteq Matching(walk.filter) \cup {n}
  BY <1>1, MatchingArrival
<1>3. Matching(walk.filter)' \in {Matching(walk.filter), Matching(walk.filter) \cup {n}}
  BY <1>2
<1> HIDE DEF n
<1>4. QED
  BY <1>1, <1>2, <1>3, WalkMeetsRow

\* The oldest rows go from the far end.
LEMMA DeletionKeepsWalk ==
    ASSUME ReportsTypeOK, WalkInv, DeleteOldest PROVE WalkInv'
<1>1. /\ UNCHANGED <<table, walk, left>> /\ steady' = {n \in steady : n > deleted'}
      /\ deleted' \in Nat /\ deleted' > deleted /\ deleted \in Nat
  BY DEF DeleteOldest, Arrived, ReportsTypeOK
<1>2. steady' \subseteq steady
  BY <1>1
<1>3. CASE walk.stage = "none"
  BY <1>1, <1>2, <1>3 DEF WalkInv, PagesMissNothing
<1>4. CASE walk.stage = "done"
  <2>1. steady' \ walk.seen \subseteq steady \ walk.seen
    BY <1>2
  <2>2. IsFiniteSet(steady \ walk.seen) /\ left \in Nat
    <3>1. IsFiniteSet(Arrived)
      BY FS_Interval DEF Arrived, ReportsTypeOK
    <3>2. QED
      BY <3>1, FS_Subset DEF ReportsTypeOK
  <2>3. Cardinality(steady' \ walk.seen) <= left
    BY <1>4, <2>1, <2>2, FewerOfPart DEF WalkInv, PagesMissNothing
  <2>4. QED
    BY <1>1, <1>4, <2>3 DEF WalkInv, PagesMissNothing
<1>5. CASE walk.stage = "reading"
  <2> DEFINE M == Matching(walk.filter)
  <2>1. M \in SUBSET Nat /\ walk.offset \in Nat
    BY MatchingFinite DEF ReportsTypeOK
  <2>2. Matching(walk.filter)' = {m \in M : m > deleted'}
    <3>1. Matching(walk.filter)' = {m \in Arrived : m > deleted' /\ Matches(walk.filter, table[m])}
      BY <1>1 DEF Matching, Arrived, Matches
    <3>2. \A m \in Arrived : m > deleted' => m > deleted
      BY <1>1 DEF Arrived, ReportsTypeOK
    <3>3. QED
      BY <3>1, <3>2 DEF Matching
  <2>3. Passed' \subseteq Passed
    <3>1. Passed' = FirstRows({m \in M : m > deleted'}, walk.offset)
      BY <1>1, <2>2 DEF Passed, FirstRows, Position, Newer
    <3>2. QED
      BY <1>1, <2>1, <3>1, FirstRowsAfterCut DEF Passed
  <2>4. (steady' \cap Passed') \ walk.seen \subseteq (steady \cap Passed) \ walk.seen
    BY <1>2, <2>3
  <2>5. Cardinality((steady' \cap Passed') \ walk.seen) <= left
    BY <1>5, <2>4, BehindFinite, FewerOfPart DEF WalkInv
  <2>6. steady' \subseteq Matching(walk.filter)'
    BY <1>1, <1>5, <2>2 DEF WalkInv
  <2>7. QED
    BY <1>1, <1>5, <2>5, <2>6 DEF WalkInv, PagesMissNothing
<1>6. QED
  BY <1>3, <1>4, <1>5 DEF ReportsTypeOK

\* A page that is read shows what it passes; a short one leaves nothing.
LEMMA PageKeepsWalk ==
    ASSUME ReportsTypeOK, WalkInv, ReadPage PROVE WalkInv'
<1> DEFINE M == Matching(walk.filter)
           page == PageAt(walk.filter, walk.offset)
<1>1. /\ walk.stage = "reading"
      /\ UNCHANGED <<table, deleted, steady, left>>
      /\ walk'.filter = walk.filter /\ walk'.seen = walk.seen \cup page
      /\ walk'.offset = walk.offset + Limit
      /\ walk'.stage = IF Cardinality(page) < Limit THEN "done" ELSE "reading"
  BY DEF ReadPage, ReportsTypeOK
<1>2. M \in SUBSET Nat /\ IsFiniteSet(M) /\ walk.offset \in Nat /\ Limit \in Nat \ {0}
  BY MatchingFinite, ReportsAssumption DEF ReportsTypeOK, ReportsAssumption
<1>3. page = {n \in M : Position(M, n) \in walk.offset..(walk.offset + Limit - 1)}
  BY DEF PageAt, Position, Newer
<1>4. /\ FirstRows(M, walk.offset + Limit) = Passed \cup page
      /\ Cardinality(page) < Limit => M = FirstRows(M, walk.offset + Limit)
  <2>1. Passed = FirstRows(M, walk.offset)
    BY DEF Passed
  <2> HIDE DEF M, page
  <2>2. QED
    BY <1>2, <1>3, <2>1, FirstRowsWithPage
<1>5. Matching(walk.filter)' = M
  BY <1>1 DEF Matching, Arrived, Matches
<1>6. Passed' = FirstRows(M, walk.offset + Limit)
  BY <1>1, <1>5 DEF Passed, FirstRows, Position, Newer
<1>7. (steady \cap Passed') \ walk'.seen \subseteq (steady \cap Passed) \ walk.seen
  BY <1>1, <1>4, <1>6
<1>8. Cardinality((steady \cap Passed') \ walk'.seen) <= left
  BY <1>1, <1>7, BehindFinite, FewerOfPart DEF WalkInv
<1>9. steady \subseteq M
  BY <1>1 DEF WalkInv
<1>10. CASE Cardinality(page) < Limit
  <2>1. steady \cap Passed' = steady
    BY <1>4, <1>6, <1>9, <1>10
  <2>2. QED
    BY <1>1, <1>8, <1>10, <2>1 DEF WalkInv, PagesMissNothing
<1>11. CASE ~(Cardinality(page) < Limit)
  BY <1>1, <1>5, <1>8, <1>9, <1>11 DEF WalkInv, PagesMissNothing
<1>12. QED
  BY <1>10, <1>11

\* A walk begins with nothing passed.
LEMMA BeginsWithNothing ==
    ASSUME ReportsTypeOK, WalkInv, BeginWalk PROVE WalkInv'
<1>1. PICK f \in Filters : /\ walk' = [walk EXCEPT !.stage = "reading", !.filter = f]
                           /\ steady' = Matching(f)
                           /\ UNCHANGED <<table, deleted, left>>
  BY DEF BeginWalk
<1>2. walk'.stage = "reading" /\ walk'.filter = f /\ walk'.offset = 0 /\ left = 0
  BY <1>1 DEF BeginWalk, WalkInv, ReportsTypeOK
<1>3. Matching(walk.filter)' = Matching(f)
  BY <1>1, <1>2 DEF Matching, Arrived, Matches
<1>4. Passed' = {}
  <2>1. Passed' = FirstRows(Matching(f), 0)
    BY <1>2, <1>3 DEF Passed, FirstRows, Position, Newer
  <2>2. \A n \in Matching(f) : Position(Matching(f), n) \in Nat
    BY MatchingFinite, Positions
  <2>3. QED
    BY <2>1, <2>2 DEF FirstRows
<1>5. Cardinality((steady' \cap Passed') \ walk'.seen) = 0
  BY <1>4, FS_EmptySet
<1>6. QED
  BY <1>1, <1>2, <1>3, <1>5 DEF WalkInv, PagesMissNothing

\* Every step keeps what is said of a walk.
LEMMA NextWalk ==
    ReportsTypeOK /\ ReportsTypeOK' /\ WalkInv /\ [ReportsNext]_reportVars => WalkInv'
<1> SUFFICES ASSUME ReportsTypeOK, ReportsTypeOK', WalkInv, [ReportsNext]_reportVars
             PROVE  WalkInv'
  OBVIOUS
<1>1. ASSUME NEW n \in Arrived, RequestRouted(n) \/ RequestSettles(n) PROVE WalkInv'
  <2>1. table[n] \in Row
    BY ElementOfSeq DEF ReportsTypeOK, Arrived, Row
  <2>2. [table[n] EXCEPT !.routed = TRUE] \in Row /\ [table[n] EXCEPT !.status = "completed"] \in Row
    BY <2>1 DEF Row
  <2>3. QED
    BY <1>1, <2>2, ChangeKeepsWalk DEF RequestRouted, RequestSettles
<1>2. CASE UNCHANGED reportVars
  BY <1>2 DEF reportVars, WalkInv, PagesMissNothing, Passed, FirstRows, Position, Newer,
              Matching, Matches, Arrived
<1>3. QED
  BY <1>1, <1>2, ArrivalKeepsWalk, DeletionKeepsWalk, BeginsWithNothing, PageKeepsWalk
     DEF ReportsNext

\* A listing that is read to its end has missed no more requests than have left
\* it by their status: whatever arrives and is deleted meanwhile, for any number
\* of rows, any filter and pages of any size.
THEOREM ListingMissesNothing == ReportsSpec => []PagesMissNothing
<1>1. ReportsInit => WalkInv
  BY DEF ReportsInit, WalkInv, PagesMissNothing
<1>2. ReportsTypeOK /\ ReportsTypeOK' /\ WalkInv /\ [ReportsNext]_reportVars => WalkInv'
  BY NextWalk
<1>3. WalkInv => PagesMissNothing
  BY DEF WalkInv
<1>4. QED
  BY <1>1, <1>2, <1>3, ReportsTypeCorrect, PTL DEF ReportsSpec

=============================================================================
