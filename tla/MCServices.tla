----------------------------- MODULE MCServices -----------------------------
(***************************************************************************)
(* Instances for TLC of the parts that share no state with one another:    *)
(* the registry, the choice of a model, the answer stream, the audit       *)
(* switches and listing, the log tail, the check of upstream names, the    *)
(* check of callers, the dashboard's sign-in, the token broker and the     *)
(* traffic simulator. A behaviour of this specification is a behaviour of  *)
(* one of them, the others staying where they begin.                       *)
(***************************************************************************)
EXTENDS TokenBroker, CallerAuth, SignIn, LogTail, AnswerStream, Routing,
        ContentAudit, Catalogue, UpstreamCheck, Reports, LiveTraffic, Backfill

CONSTANTS b1, b2, u1, u2, h1, h2, c1, c2, v1, r1, t1, m1, s1, s2,
          mA, mB, mC, p1, p2, n1, n2, e1, o1

VARIABLE part

allVars == <<part, brokerVars, authVars, signInVars, logVars, answerVars,
             routingVars, auditVars, catalogueVars, upstreamVars, reportVars,
             liveVars, backfillVars>>

Init ==
    /\ part \in {"broker", "auth", "signIn", "log", "answer", "routing",
                 "audit", "catalogue", "upstream", "reports", "live", "backfill"}
    /\ BrokerInit /\ AuthInit /\ SignInInit /\ LogInit
    /\ AnswerInit /\ RoutingInit /\ AuditInit /\ CatalogueInit
    /\ UpstreamInit /\ ReportsInit /\ LiveInit /\ BackfillInit
    \* of a part that stays, one initial state is enough
    /\ part # "upstream" => image = NoListing /\ registered = [m \in Served |-> n1]
    /\ part # "backfill" => ~simMode

Broker ==
    /\ part = "broker" /\ BrokerNext
    /\ UNCHANGED <<part, authVars, signInVars, logVars, answerVars, routingVars,
                   auditVars, catalogueVars, upstreamVars, reportVars,
                   liveVars, backfillVars>>

Auth ==
    /\ part = "auth" /\ AuthNext
    /\ UNCHANGED <<part, brokerVars, signInVars, logVars, answerVars, routingVars,
                   auditVars, catalogueVars, upstreamVars, reportVars,
                   liveVars, backfillVars>>

Dashboard ==
    /\ part = "signIn" /\ SignInNext
    /\ UNCHANGED <<part, brokerVars, authVars, logVars, answerVars, routingVars,
                   auditVars, catalogueVars, upstreamVars, reportVars,
                   liveVars, backfillVars>>

Logs ==
    /\ part = "log" /\ LogNext
    /\ UNCHANGED <<part, brokerVars, authVars, signInVars, answerVars,
                   routingVars, auditVars, catalogueVars, upstreamVars,
                   reportVars, liveVars, backfillVars>>

Answer ==
    /\ part = "answer" /\ AnswerNext
    /\ UNCHANGED <<part, brokerVars, authVars, signInVars, logVars, routingVars,
                   auditVars, catalogueVars, upstreamVars, reportVars,
                   liveVars, backfillVars>>

Choice ==
    /\ part = "routing" /\ RoutingNext
    /\ UNCHANGED <<part, brokerVars, authVars, signInVars, logVars, answerVars,
                   auditVars, catalogueVars, upstreamVars, reportVars,
                   liveVars, backfillVars>>

Audit ==
    /\ part = "audit" /\ AuditNext
    /\ UNCHANGED <<part, brokerVars, authVars, signInVars, logVars, answerVars,
                   routingVars, catalogueVars, upstreamVars, reportVars,
                   liveVars, backfillVars>>

Registry ==
    /\ part = "catalogue" /\ CatalogueNext
    /\ UNCHANGED <<part, brokerVars, authVars, signInVars, logVars, answerVars,
                   routingVars, auditVars, upstreamVars, reportVars,
                   liveVars, backfillVars>>

Upstream ==
    /\ part = "upstream" /\ UpstreamNext
    /\ UNCHANGED <<part, brokerVars, authVars, signInVars, logVars, answerVars,
                   routingVars, auditVars, catalogueVars, reportVars,
                   liveVars, backfillVars>>

Listing ==
    /\ part = "reports" /\ ReportsNext
    /\ UNCHANGED <<part, brokerVars, authVars, signInVars, logVars, answerVars,
                   routingVars, auditVars, catalogueVars, upstreamVars,
                   liveVars, backfillVars>>

Traffic ==
    /\ part = "live" /\ LiveNext
    /\ UNCHANGED <<part, brokerVars, authVars, signInVars, logVars, answerVars,
                   routingVars, auditVars, catalogueVars, upstreamVars,
                   reportVars, backfillVars>>

History ==
    /\ part = "backfill" /\ BackfillNext
    /\ UNCHANGED <<part, brokerVars, authVars, signInVars, logVars, answerVars,
                   routingVars, auditVars, catalogueVars, upstreamVars,
                   reportVars, liveVars>>

Next == \/ Broker \/ Auth \/ Dashboard \/ Logs \/ Answer \/ Choice
        \/ Audit \/ Registry \/ Upstream \/ Listing \/ Traffic \/ History

\* Of a part that stays where it begins, the fairness asks nothing: none of the
\* actions it is about is enabled there.
Spec == Init /\ [][Next]_allVars
        /\ BrokerFairness /\ AuthFairness /\ LogFairness /\ UpstreamFairness

-----------------------------------------------------------------------------
(* The instances. *)

\* In the order of the registry; "large" merges the system role, as a template
\* without one needs.
Listed(id, capabilities, prompt, mode, class) ==
    [id |-> id, capabilities |-> capabilities, prompt |-> prompt, mode |-> mode,
     modelClass |-> class]
Fast1 == Listed("fast", {"chat", "tools"}, TRUE, "passthrough", "fast")
Large1 == Listed("large", {"chat", "tools"}, TRUE, "merge", "large")
Vision1 == Listed("vis", {"chat", "vision"}, FALSE, "merge", "vision")
Embed1 == Listed("emb", {"embeddings"}, FALSE, "passthrough", "embedding")
Listings == {<<Embed1, Fast1, Large1, Vision1>>, <<Embed1, Large1, Vision1>>,
             <<Fast1, Vision1>>}

\* Two releases that share model mA, in another order, and a list that names an
\* owner it does not have.
Entry(id, owner, v) ==
    [id |-> id, capable |-> TRUE, backendRef |-> owner, fields |-> [f \in Fields |-> v]]
Releases == {<<Entry(mA, Absent, 1), Entry(mB, mA, 1)>>,
             <<Entry(mC, Absent, 1), Entry(mA, Absent, 2)>>,
             <<Entry(mB, mC, 2), Entry(mA, Absent, 2)>>}

\* An image that answers to one name, and the one that renames it.
TwoImages == {{n1}, {n2}}

OneTeam == [r \in Calls |-> t1]
OneModel == [r \in Calls |-> m1]

\* Two pages that name the global scope, each by one of its keys.
TwoGlobalSwitches ==
    [s \in Switches |-> <<"global", IF s = s1 THEN "" ELSE "global">>]

=============================================================================
