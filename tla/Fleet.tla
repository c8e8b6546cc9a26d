------------------------------- MODULE Fleet -------------------------------
(***************************************************************************)
(* The replica table while reconcile passes rewrite it, placements and     *)
(* releases count in it, and the model registry changes under both.        *)
(*                                                                         *)
(* A pass is one execution of reconcileReplicas. Routers start one every   *)
(* five seconds whether or not the last has ended, so several run at once, *)
(* of one router or of several; Passes are the ones that may overlap. A    *)
(* pass is sequential between its awaits: it reads the registry, and then  *)
(* for one model after the other lists, probes and writes; its last        *)
(* statement deletes what it has not seen.                                 *)
(*                                                                         *)
(* Only registry entries that own a workload are modelled (an alias shares *)
(* the replicas of one). The claim and the release are the statements of   *)
(* the scheduler, with the handler between them left out.                  *)
(***************************************************************************)
EXTENDS Naturals, FiniteSets, Functions

CONSTANTS Pods,       \* replica ids: pod names, or configured endpoints
          Models,     \* registry entries
          ModelOf,    \* the entry whose workload a pod is
          Configs,    \* the configurations routers start with: sets of entries
          Passes,     \* reconcile passes that may overlap
          Requests,   \* callers, each with one request at a time
          Healths,    \* what /health may say, of Statuses
          Reports,    \* the maxConcurrency it may report; 0 if it reports none
          NoPod

Statuses == {"ready", "loading", "error"}

ASSUME FleetAssumption ==
    /\ IsFiniteSet(Requests)
    /\ ModelOf \in [Pods -> Models]
    /\ Configs \subseteq SUBSET Models
    /\ Healths \subseteq Statuses
    /\ Reports \subseteq Nat
    /\ NoPod \notin Pods

VARIABLES
    \* the cluster
    listed,       \* the pods a listing names
    retired,      \* the pods that were listed once; a name is not used again
    health,       \* what a probe finds at each pod
    \* tables model_registry and replicas
    models,
    replicas,     \* a row for each id of its domain
    \* a pass; empty when it is not running
    running,
    todo,         \* models it has read and not listed yet
    candidates,   \* pods of the current model it has not probed yet
    answers,      \* what the others answered, not written yet
    seen,         \* seenIds
    \* callers
    at            \* the replica whose slot the handler of each caller holds

cluster == <<listed, retired, health>>
pass == <<running, todo, candidates, answers, seen>>
vars == <<cluster, models, replicas, pass, at>>

Nothing == [p \in {} |-> p]

Answer == [status : Statuses, report : Reports \cup {0}]
Row == [status : Statuses, inFlight : Nat, maxConcurrency : Nat \ {0}]

Init ==
    /\ listed \in SUBSET Pods
    /\ retired = {}
    /\ health \in [Pods -> Healths]
    /\ models \in SUBSET Models
    /\ replicas = Nothing
    /\ running = {}
    /\ todo = [s \in Passes |-> {}]
    /\ candidates = [s \in Passes |-> {}]
    /\ answers = [s \in Passes |-> Nothing]
    /\ seen = [s \in Passes |-> {}]
    /\ at = [q \in Requests |-> NoPod]

----------------------------------------------------------------------------
(* reconcileReplicas *)

Start(s) ==
    /\ s \notin running
    /\ running' = running \cup {s}
    /\ todo' = [todo EXCEPT ![s] = models]
    /\ UNCHANGED <<cluster, models, replicas, candidates, answers, seen, at>>

\* Between two models.
Listing(s) == s \in running /\ candidates[s] = {} /\ answers[s] = Nothing

TakeUp(s, m, ids) ==
    /\ todo' = [todo EXCEPT ![s] = @ \ {m}]
    /\ candidates' = [candidates EXCEPT ![s] = ids]
    /\ UNCHANGED <<cluster, models, replicas, running, answers, seen, at>>

List(s, m) ==
    /\ Listing(s) /\ m \in todo[s]
    /\ TakeUp(s, m, {p \in listed : ModelOf[p] = m})

\* Mutant of ListFails: a failing list is an empty one.
ListFails_Empty(s, m) ==
    /\ Listing(s) /\ m \in todo[s]
    /\ TakeUp(s, m, {})

\* A denied or failing list: the pods the table knows stand in for it.
ListFails(s, m) ==
    /\ Listing(s) /\ m \in todo[s]
    /\ TakeUp(s, m, {p \in DOMAIN replicas : ModelOf[p] = m})

Answered(s, p, answer) ==
    /\ p \in candidates[s]
    /\ candidates' = [candidates EXCEPT ![s] = @ \ {p}]
    /\ answers' = [answers EXCEPT ![s] =
                      [x \in DOMAIN @ \cup {p} |-> IF x = p THEN answer ELSE @[x]]]
    /\ UNCHANGED <<cluster, models, replicas, running, todo, seen, at>>

\* The probes of one model run together and their answers come in any order.
Probe(s, p) ==
    \E report \in Reports :
        Answered(s, p, [status |-> health[p], report |-> report])

ProbeTimesOut(s, p) == Answered(s, p, [status |-> "error", report |-> 0])

Writing(s) == candidates[s] = {} /\ answers[s] # Nothing

Leave(s) ==
    /\ running' = running \ {s}
    /\ todo' = [todo EXCEPT ![s] = {}]
    /\ candidates' = [candidates EXCEPT ![s] = {}]
    /\ answers' = [answers EXCEPT ![s] = Nothing]
    /\ seen' = [seen EXCEPT ![s] = {}]

\* Mutant of Coalesce: a probe without a figure is written as it is.
Coalesce_NoDefault(report, otherwise) == report

\* COALESCE
Coalesce(report, otherwise) == IF report = 0 THEN otherwise ELSE report

\* Mutant of Upserted: the pass writes the load it found, none.
Upserted_Resets(p, answer) ==
    LET known == p \in DOMAIN replicas
        row == [status |-> answer.status, inFlight |-> 0,
                maxConcurrency |-> Coalesce(answer.report,
                    IF known THEN replicas[p].maxConcurrency ELSE 1)]
    IN  [x \in DOMAIN replicas \cup {p} |-> IF x = p THEN row ELSE replicas[x]]

\* The statement that inserts the row of p, or updates it but for in_flight.
Upserted(p, answer) ==
    LET known == p \in DOMAIN replicas
        row == [status |-> answer.status,
                inFlight |-> IF known THEN replicas[p].inFlight ELSE 0,
                maxConcurrency |-> Coalesce(answer.report,
                    IF known THEN replicas[p].maxConcurrency ELSE 1)]
    IN  [x \in DOMAIN replicas \cup {p} |-> IF x = p THEN row ELSE replicas[x]]

\* Mutant of Upsert: a row that is known keeps its status.
Upsert_InsertOnly(s, p) ==
    /\ Writing(s) /\ p \in DOMAIN answers[s]
    /\ ModelOf[p] \in models
    /\ replicas' = IF p \in DOMAIN replicas THEN replicas ELSE Upserted(p, answers[s][p])
    /\ answers' = [answers EXCEPT ![s] = Restrict(@, DOMAIN @ \ {p})]
    /\ seen' = [seen EXCEPT ![s] = @ \cup {p}]
    /\ UNCHANGED <<cluster, models, running, todo, candidates, at>>

Upsert(s, p) ==
    /\ Writing(s) /\ p \in DOMAIN answers[s]
    /\ ModelOf[p] \in models
    /\ replicas' = Upserted(p, answers[s][p])
    /\ answers' = [answers EXCEPT ![s] = Restrict(@, DOMAIN @ \ {p})]
    /\ seen' = [seen EXCEPT ![s] = @ \cup {p}]
    /\ UNCHANGED <<cluster, models, running, todo, candidates, at>>

\* model_id references a row that is gone: the pass ends there.
UpsertRefused(s, p) ==
    /\ Writing(s) /\ p \in DOMAIN answers[s]
    /\ ModelOf[p] \notin models
    /\ Leave(s)
    /\ UNCHANGED <<cluster, models, replicas, at>>

\* The final DELETE.
Finish(s) ==
    /\ Listing(s) /\ todo[s] = {}
    /\ replicas' = Restrict(replicas, DOMAIN replicas \cap seen[s])
    /\ Leave(s)
    /\ UNCHANGED <<cluster, models, at>>

\* A statement fails, or the router stops.
Break(s) ==
    /\ s \in running
    /\ Leave(s)
    /\ UNCHANGED <<cluster, models, replicas, at>>

----------------------------------------------------------------------------
(* The scheduler's statements on the same rows. *)

Claim(q, p) ==
    /\ at[q] = NoPod
    /\ p \in DOMAIN replicas
    /\ replicas[p].status = "ready"
    /\ replicas[p].inFlight < replicas[p].maxConcurrency
    /\ replicas' = [replicas EXCEPT ![p].inFlight = @ + 1]
    /\ at' = [at EXCEPT ![q] = p]
    /\ UNCHANGED <<cluster, models, pass>>

\* Mutant of Release: only a replica that is up gets its slot back.
Release_ReadyOnly(q) ==
    /\ at[q] # NoPod
    /\ replicas' = [x \in DOMAIN replicas |->
                       IF x = at[q] /\ replicas[x].inFlight > 0 /\ replicas[x].status = "ready"
                       THEN [replicas[x] EXCEPT !.inFlight = @ - 1] ELSE replicas[x]]
    /\ at' = [at EXCEPT ![q] = NoPod]
    /\ UNCHANGED <<cluster, models, pass>>

\* WHERE id = the slot's replica: no row, no effect; and never below 0.
Release(q) ==
    /\ at[q] # NoPod
    /\ replicas' = [x \in DOMAIN replicas |->
                       IF x = at[q] /\ replicas[x].inFlight > 0
                       THEN [replicas[x] EXCEPT !.inFlight = @ - 1] ELSE replicas[x]]
    /\ at' = [at EXCEPT ![q] = NoPod]
    /\ UNCHANGED <<cluster, models, pass>>

----------------------------------------------------------------------------
(* The registry and the cluster. *)

\* syncModelsFromConfig of a router that starts: one transaction, whose DELETE
\* takes the replicas of the models it removes along.
Sync(c) ==
    /\ models # c
    /\ models' = c
    /\ replicas' = Restrict(replicas, {p \in DOMAIN replicas : ModelOf[p] \in c})
    /\ UNCHANGED <<cluster, pass, at>>

PodStarts(p) ==
    /\ p \notin listed \cup retired
    /\ listed' = listed \cup {p}
    /\ UNCHANGED <<retired, health, models, replicas, pass, at>>

\* Terminating: it is not listed from here on, and may still answer.
PodStops(p) ==
    /\ p \in listed
    /\ listed' = listed \ {p}
    /\ retired' = retired \cup {p}
    /\ UNCHANGED <<health, models, replicas, pass, at>>

HealthChanges(p) ==
    /\ \E h \in Healths \ {health[p]} : health' = [health EXCEPT ![p] = h]
    /\ UNCHANGED <<listed, retired, models, replicas, pass, at>>

----------------------------------------------------------------------------

Pass(s) ==
    \/ Start(s) \/ Finish(s)
    \/ \E m \in Models : List(s, m)
    \/ \E p \in Pods : Probe(s, p) \/ Upsert(s, p) \/ UpsertRefused(s, p)

PassFault(s) ==
    \/ Break(s)
    \/ \E m \in Models : ListFails(s, m)
    \/ \E p \in Pods : ProbeTimesOut(s, p)

Scheduler(q) == Release(q) \/ \E p \in Pods : Claim(q, p)

Change ==
    \/ \E c \in Configs : Sync(c)
    \/ \E p \in Pods : PodStarts(p) \/ PodStops(p) \/ HealthChanges(p)

Next ==
    \/ \E s \in Passes : Pass(s) \/ PassFault(s)
    \/ \E q \in Requests : Scheduler(q)
    \/ Change

Spec == Init /\ [][Next]_vars

\* setInterval starts passes for ever and each gets to its next await.
FairSpec == Spec /\ \A s \in Passes : WF_vars(Pass(s))

----------------------------------------------------------------------------
(* What must hold. *)

PartialFunctions(S, T) == UNION {[X -> T] : X \in SUBSET S}

\* Every variable keeps its type.
TypeOK ==
    /\ listed \in SUBSET Pods /\ retired \in SUBSET Pods
    /\ health \in [Pods -> Statuses]
    /\ models \in SUBSET Models
    /\ DOMAIN replicas \subseteq Pods
    /\ \A p \in DOMAIN replicas : replicas[p] \in Row
    /\ running \in SUBSET Passes
    /\ todo \in [Passes -> SUBSET Models]
    /\ candidates \in [Passes -> SUBSET Pods]
    /\ answers \in [Passes -> PartialFunctions(Pods, Answer)]
    /\ seen \in [Passes -> SUBSET Pods]
    /\ at \in [Requests -> Pods \cup {NoPod}]

\* The callers whose handler holds a slot of p, whatever the table says.
Holding(p) == {q \in Requests : at[q] = p}

\* The table never counts a request that is not there: rows deleted under
\* their holders, inserted again by a pass that has seen the pod, and released
\* by id later may lose a count but never gain one, so no capacity is lost for
\* good.
CapacityNeverLost ==
    \A p \in DOMAIN replicas : replicas[p].inFlight <= Cardinality(Holding(p))

\* A placement finds a slot that is really free: with the new request counted,
\* the handlers at the replica fit the ceiling in its row.
ClaimsFindRoom ==
    [][\A q \in Requests, p \in Pods :
          at[q] # p /\ at'[q] = p =>
              Cardinality(Holding(p)') <= replicas'[p].maxConcurrency]_vars

\* A pass does not delete the row of a pod that is listed, of a model that is
\* registered: neither when a list fails nor when a pass breaks off half-way.
ListedRowsStay ==
    [][\A p \in DOMAIN replicas :
          p \in listed /\ ModelOf[p] \in models' => p \in DOMAIN replicas']_vars

\* The table shows the fleet: the listed pods of the registered models, each
\* as its last probe found it.
Current ==
    /\ DOMAIN replicas = {p \in listed : ModelOf[p] \in models}
    /\ \A p \in DOMAIN replicas : replicas[p].status = health[p]

\* The cluster or the registry changes, or a fault makes a pass do something
\* it would not have done without.
Disturbance == Change \/ \E s \in Passes : PassFault(s) /\ ~Pass(s)

\* Once the cluster, the registry and the network come to rest the table
\* becomes current and stays so, whatever stale passes were under way.
FleetConverges == <>[][~Disturbance]_vars => <>[]Current

=============================================================================
