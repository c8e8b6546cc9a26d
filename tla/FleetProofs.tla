---------------------------- MODULE FleetProofs ----------------------------
(***************************************************************************)
(* Theorems about Fleet, for any pods, models, configurations and callers. *)
(***************************************************************************)
EXTENDS Fleet, FiniteSetTheorems, TLAPS

\* What a pass leaves behind when it ends, in whichever way, has its type.
LEMMA LeaveType ==
    ASSUME TypeOK, NEW s \in Passes, Leave(s)
    PROVE  /\ running' \in SUBSET Passes
           /\ todo' \in [Passes -> SUBSET Models]
           /\ candidates' \in [Passes -> SUBSET Pods]
           /\ answers' \in [Passes -> PartialFunctions(Pods, Answer)]
           /\ seen' \in [Passes -> SUBSET Pods]
<1>1. Nothing \in PartialFunctions(Pods, Answer)
  <2>1. Nothing \in [{} -> Answer]
    BY DEF Nothing
  <2>2. QED
    BY <2>1 DEF PartialFunctions
<1>2. QED
  BY <1>1 DEF TypeOK, Leave

\* An answer that a pass holds is an answer of /health.
LEMMA AnswerType ==
    ASSUME TypeOK, NEW s \in Passes, NEW p \in DOMAIN answers[s]
    PROVE  /\ p \in Pods
           /\ answers[s][p].status \in Statuses
           /\ answers[s][p].report \in Nat
<1>1. PICK X \in SUBSET Pods : answers[s] \in [X -> Answer]
  BY DEF TypeOK, PartialFunctions
<1>2. answers[s][p] \in Answer /\ p \in Pods
  BY <1>1
<1>3. answers[s][p].status \in Statuses /\ answers[s][p].report \in Reports \cup {0}
  BY <1>2 DEF Answer
<1>4. Reports \cup {0} \subseteq Nat
  BY FleetAssumption
<1>5. QED
  BY <1>2, <1>3, <1>4

\* Writing one row keeps the others, keeps in_flight of a row that was there,
\* and starts a new one at 0.
LEMMA UpsertedRows ==
    ASSUME TypeOK, NEW s \in Passes, NEW p \in DOMAIN answers[s],
           replicas' = Upserted(p, answers[s][p])
    PROVE  /\ DOMAIN replicas' = DOMAIN replicas \cup {p}
           /\ \A x \in DOMAIN replicas : replicas'[x].inFlight = replicas[x].inFlight
           /\ p \notin DOMAIN replicas => replicas'[p].inFlight = 0
           /\ \A x \in DOMAIN replicas' : replicas'[x] \in Row
<1> DEFINE known == p \in DOMAIN replicas
           row == [status |-> answers[s][p].status,
                   inFlight |-> IF known THEN replicas[p].inFlight ELSE 0,
                   maxConcurrency |-> Coalesce(answers[s][p].report,
                       IF known THEN replicas[p].maxConcurrency ELSE 1)]
<1>1. row \in Row
  <2>1. known => replicas[p].inFlight \in Nat /\ replicas[p].maxConcurrency \in Nat \ {0}
    BY DEF TypeOK, Row
  <2>2. Coalesce(answers[s][p].report, IF known THEN replicas[p].maxConcurrency ELSE 1)
            \in Nat \ {0}
    BY <2>1, AnswerType DEF Coalesce
  <2>3. QED
    BY <2>1, <2>2, AnswerType DEF Row
<1>2. replicas' = [x \in DOMAIN replicas \cup {p} |-> IF x = p THEN row ELSE replicas[x]]
  BY DEF Upserted
<1>3. DOMAIN replicas' = DOMAIN replicas \cup {p}
  BY <1>2
<1>4. \A x \in DOMAIN replicas' : replicas'[x] = IF x = p THEN row ELSE replicas[x]
  BY <1>2
<1>5. row.inFlight = IF known THEN replicas[p].inFlight ELSE 0
  OBVIOUS
<1> HIDE DEF row
<1>6. QED
  BY <1>1, <1>3, <1>4, <1>5 DEF TypeOK

\* A step, whichever it is, keeps the type of every variable.
LEMMA TypeStep ==
    ASSUME TypeOK, [Next]_vars
    PROVE  TypeOK'
<1>1. ASSUME NEW s \in Passes, Start(s)
      PROVE  TypeOK'
  BY <1>1 DEF TypeOK, Start, cluster
<1>2. ASSUME NEW s \in Passes, NEW m \in Models, List(s, m) \/ ListFails(s, m)
      PROVE  TypeOK'
  BY <1>2 DEF TypeOK, List, ListFails, TakeUp, cluster
<1>3. ASSUME NEW s \in Passes, NEW p \in Pods, NEW answer \in Answer,
             Answered(s, p, answer)
      PROVE  TypeOK'
  <2>1. PICK X \in SUBSET Pods : answers[s] \in [X -> Answer]
    BY DEF TypeOK, PartialFunctions
  <2>2. [x \in X \cup {p} |-> IF x = p THEN answer ELSE answers[s][x]]
            \in [X \cup {p} -> Answer]
    BY <2>1
  <2>3. [x \in X \cup {p} |-> IF x = p THEN answer ELSE answers[s][x]]
            \in PartialFunctions(Pods, Answer)
    BY <2>2 DEF PartialFunctions
  <2>4. DOMAIN answers[s] = X
    BY <2>1
  <2>5. answers' \in [Passes -> PartialFunctions(Pods, Answer)]
    BY <1>3, <2>3, <2>4 DEF Answered, TypeOK
  <2>6. QED
    BY <1>3, <2>5 DEF TypeOK, Answered, cluster
<1>4. ASSUME NEW s \in Passes, NEW p \in Pods, Probe(s, p) \/ ProbeTimesOut(s, p)
      PROVE  TypeOK'
  <2>1. \E answer \in Answer : Answered(s, p, answer)
    BY <1>4, FleetAssumption DEF Probe, ProbeTimesOut, Answer, Statuses, TypeOK
  <2>2. QED
    BY <2>1, <1>3
<1>5. ASSUME NEW s \in Passes, NEW p \in Pods, Upsert(s, p)
      PROVE  TypeOK'
  <2>1. p \in DOMAIN answers[s] /\ replicas' = Upserted(p, answers[s][p])
    BY <1>5 DEF Upsert
  <2>2. PICK X \in SUBSET Pods : answers[s] \in [X -> Answer]
    BY DEF TypeOK, PartialFunctions
  <2>3. Restrict(answers[s], DOMAIN answers[s] \ {p}) \in [X \ {p} -> Answer]
    BY <2>2 DEF Restrict
  <2>4. Restrict(answers[s], DOMAIN answers[s] \ {p}) \in PartialFunctions(Pods, Answer)
    BY <2>3 DEF PartialFunctions
  <2>5. answers' \in [Passes -> PartialFunctions(Pods, Answer)]
    BY <1>5, <2>4 DEF Upsert, TypeOK
  <2>6. /\ DOMAIN replicas' = DOMAIN replicas \cup {p}
        /\ \A x \in DOMAIN replicas' : replicas'[x] \in Row
    BY <2>1, UpsertedRows
  <2>7. QED
    BY <1>5, <2>5, <2>6 DEF TypeOK, Upsert, cluster
<1>6. ASSUME NEW s \in Passes, NEW p \in Pods, UpsertRefused(s, p)
      PROVE  TypeOK'
  BY <1>6, LeaveType DEF TypeOK, UpsertRefused, cluster
<1>7. ASSUME NEW s \in Passes, Break(s)
      PROVE  TypeOK'
  BY <1>7, LeaveType DEF TypeOK, Break, cluster
<1>8. ASSUME NEW s \in Passes, Finish(s)
      PROVE  TypeOK'
  <2>1. /\ DOMAIN replicas' \subseteq DOMAIN replicas
        /\ \A p \in DOMAIN replicas' : replicas'[p] = replicas[p]
    BY <1>8 DEF Finish, Restrict
  <2>2. QED
    BY <1>8, <2>1, LeaveType DEF TypeOK, Finish, cluster
<1>9. ASSUME NEW q \in Requests, NEW p \in Pods, Claim(q, p)
      PROVE  TypeOK'
  <2>1. /\ DOMAIN replicas' = DOMAIN replicas
        /\ \A x \in DOMAIN replicas :
              replicas'[x] = IF x = p THEN [replicas[p] EXCEPT !.inFlight = @ + 1]
                                      ELSE replicas[x]
    BY <1>9 DEF Claim
  <2>2. \A x \in DOMAIN replicas' : replicas'[x] \in Row
    BY <2>1 DEF TypeOK, Row
  <2>3. QED
    BY <1>9, <2>1, <2>2 DEF TypeOK, Claim, cluster, pass
<1>10. ASSUME NEW q \in Requests, Release(q)
       PROVE  TypeOK'
  <2>1. /\ DOMAIN replicas' = DOMAIN replicas
        /\ \A x \in DOMAIN replicas :
              replicas'[x] = IF x = at[q] /\ replicas[x].inFlight > 0
                             THEN [replicas[x] EXCEPT !.inFlight = @ - 1]
                             ELSE replicas[x]
    BY <1>10 DEF Release
  <2>2. \A x \in DOMAIN replicas' : replicas'[x] \in Row
    BY <2>1 DEF TypeOK, Row
  <2>3. QED
    BY <1>10, <2>1, <2>2 DEF TypeOK, Release, cluster, pass
<1>11. ASSUME NEW c \in Configs, Sync(c)
       PROVE  TypeOK'
  <2>1. /\ DOMAIN replicas' \subseteq DOMAIN replicas
        /\ \A p \in DOMAIN replicas' : replicas'[p] = replicas[p]
    BY <1>11 DEF Sync, Restrict
  <2>2. QED
    BY <1>11, <2>1, FleetAssumption DEF TypeOK, Sync, cluster, pass
<1>12. ASSUME NEW p \in Pods, PodStarts(p) \/ PodStops(p) \/ HealthChanges(p)
       PROVE  TypeOK'
  BY <1>12, FleetAssumption DEF TypeOK, PodStarts, PodStops, HealthChanges, pass
<1>13. CASE UNCHANGED vars
  BY <1>13 DEF TypeOK, vars, cluster, pass
<1>14. QED
  BY <1>1, <1>2, <1>4, <1>5, <1>6, <1>7, <1>8, <1>9, <1>10, <1>11, <1>12, <1>13
  DEF Next, Pass, PassFault, Scheduler, Change

\* Every variable keeps its type; every row has a ceiling of at least one and
\* a count of at least zero.
THEOREM TypeCorrect == Spec => []TypeOK
<1>1. Init => TypeOK
  <2> SUFFICES ASSUME Init PROVE TypeOK
    OBVIOUS
  <2>1. Nothing \in [{} -> Answer] /\ DOMAIN Nothing = {}
    BY DEF Nothing
  <2>2. Nothing \in PartialFunctions(Pods, Answer)
    BY <2>1 DEF PartialFunctions
  <2>3. health \in [Pods -> Statuses]
    BY FleetAssumption DEF Init
  <2>4. QED
    BY <2>1, <2>2, <2>3 DEF Init, TypeOK
<1>2. TypeOK /\ [Next]_vars => TypeOK'
  BY TypeStep
<1>3. QED
  BY <1>1, <1>2, PTL DEF Spec

----------------------------------------------------------------------------
(* What the table counts.                                                  *)

\* The handlers at a replica are finitely many, so that they can be counted.
LEMMA HoldingFinite ==
    \A p \in Pods : IsFiniteSet(Holding(p)) /\ Cardinality(Holding(p)) \in Nat
<1>1. \A p \in Pods : Holding(p) \subseteq Requests
  BY DEF Holding
<1>2. QED
  BY <1>1, FleetAssumption, FS_Subset, FS_CardinalityType

\* A claim adds one handler and one to the count of one row, below its ceiling.
LEMMA ClaimCounts ==
    ASSUME TypeOK, NEW q \in Requests, NEW p \in Pods, Claim(q, p)
    PROVE  /\ p \in DOMAIN replicas /\ DOMAIN replicas' = DOMAIN replicas
           /\ replicas[p].inFlight < replicas[p].maxConcurrency
           /\ replicas'[p].maxConcurrency = replicas[p].maxConcurrency
           /\ \A x \in DOMAIN replicas :
                 replicas'[x].inFlight = replicas[x].inFlight + (IF x = p THEN 1 ELSE 0)
           /\ \A x \in Pods :
                 Cardinality(Holding(x)') = Cardinality(Holding(x)) + (IF x = p THEN 1 ELSE 0)
<1>1. /\ p \in DOMAIN replicas /\ DOMAIN replicas' = DOMAIN replicas
      /\ replicas[p].inFlight < replicas[p].maxConcurrency
      /\ \A x \in DOMAIN replicas :
            replicas'[x] = IF x = p THEN [replicas[p] EXCEPT !.inFlight = @ + 1]
                                    ELSE replicas[x]
  BY DEF Claim
<1>2. \A x \in DOMAIN replicas : replicas[x] \in Row
  BY DEF TypeOK
<1>3. /\ replicas'[p].maxConcurrency = replicas[p].maxConcurrency
      /\ \A x \in DOMAIN replicas :
            replicas'[x].inFlight = replicas[x].inFlight + (IF x = p THEN 1 ELSE 0)
  BY <1>1, <1>2 DEF Row
<1>4. ASSUME NEW x \in Pods
      PROVE  Cardinality(Holding(x)') = Cardinality(Holding(x)) + (IF x = p THEN 1 ELSE 0)
  <2>1. /\ Holding(x)' = IF x = p THEN Holding(x) \cup {q} ELSE Holding(x)
        /\ q \notin Holding(x)
    BY FleetAssumption DEF Claim, Holding, TypeOK
  <2>2. IsFiniteSet(Holding(x)) /\ Cardinality(Holding(x)) \in Nat
    BY HoldingFinite
  <2>3. Cardinality(Holding(x) \cup {q}) = Cardinality(Holding(x)) + 1
    BY <2>1, <2>2, FS_AddElement
  <2>4. QED
    BY <2>1, <2>2, <2>3
<1>5. QED
  BY <1>1, <1>3, <1>4

\* A release takes one handler away, and one from the count of its row if
\* there is a row and the count is not 0.
LEMMA ReleaseCounts ==
    ASSUME TypeOK, NEW q \in Requests, Release(q)
    PROVE  /\ at[q] \in Pods /\ q \in Holding(at[q])
           /\ DOMAIN replicas' = DOMAIN replicas
           /\ \A x \in DOMAIN replicas :
                 replicas'[x].inFlight =
                    IF x = at[q] /\ replicas[x].inFlight > 0 THEN replicas[x].inFlight - 1
                                                             ELSE replicas[x].inFlight
           /\ \A x \in Pods :
                 /\ Holding(x)' \subseteq Holding(x)
                 /\ Cardinality(Holding(x)') =
                       Cardinality(Holding(x)) - (IF x = at[q] THEN 1 ELSE 0)
<1>1. /\ DOMAIN replicas' = DOMAIN replicas
      /\ \A x \in DOMAIN replicas :
            replicas'[x] = IF x = at[q] /\ replicas[x].inFlight > 0
                           THEN [replicas[x] EXCEPT !.inFlight = @ - 1]
                           ELSE replicas[x]
  BY DEF Release
<1>2. \A x \in DOMAIN replicas : replicas[x] \in Row
  BY DEF TypeOK
<1>3. \A x \in DOMAIN replicas :
            replicas'[x].inFlight =
               IF x = at[q] /\ replicas[x].inFlight > 0 THEN replicas[x].inFlight - 1
                                                        ELSE replicas[x].inFlight
  BY <1>1, <1>2 DEF Row
<1>4. at[q] \in Pods /\ q \in Holding(at[q])
  BY DEF Release, TypeOK, Holding
<1>5. ASSUME NEW x \in Pods
      PROVE  /\ Holding(x)' \subseteq Holding(x)
             /\ Cardinality(Holding(x)') =
                   Cardinality(Holding(x)) - (IF x = at[q] THEN 1 ELSE 0)
  <2>1. /\ Holding(x)' = IF x = at[q] THEN Holding(x) \ {q} ELSE Holding(x)
        /\ x = at[q] => q \in Holding(x)
    BY FleetAssumption DEF Release, Holding, TypeOK
  <2>2. IsFiniteSet(Holding(x)) /\ Cardinality(Holding(x)) \in Nat
    BY HoldingFinite
  <2>3. x = at[q] => Cardinality(Holding(x) \ {q}) = Cardinality(Holding(x)) - 1
    BY <2>1, <2>2, FS_RemoveElement
  <2>4. QED
    BY <2>1, <2>2, <2>3
<1>6. QED
  BY <1>1, <1>3, <1>4, <1>5

\* No other step touches the handlers; a row it leaves keeps its count, and a
\* row it inserts starts at 0.
CountsKept ==
    /\ at' = at
    /\ \A x \in DOMAIN replicas' :
          replicas'[x].inFlight = IF x \in DOMAIN replicas THEN replicas[x].inFlight ELSE 0

\* Every step is a claim, a release, or one of those.
LEMMA CountStep ==
    ASSUME TypeOK, [Next]_vars
    PROVE  \/ \E q \in Requests, p \in Pods : Claim(q, p)
           \/ \E q \in Requests : Release(q)
           \/ CountsKept
<1>1. ASSUME NEW s \in Passes, NEW p \in Pods, Upsert(s, p)
      PROVE  CountsKept
  <2>1. p \in DOMAIN answers[s] /\ replicas' = Upserted(p, answers[s][p]) /\ at' = at
    BY <1>1 DEF Upsert
  <2>2. QED
    BY <2>1, UpsertedRows DEF CountsKept
<1>2. ASSUME NEW s \in Passes, Finish(s)
      PROVE  CountsKept
  BY <1>2 DEF Finish, Restrict, CountsKept
<1>3. ASSUME NEW c \in Configs, Sync(c)
      PROVE  CountsKept
  BY <1>3 DEF Sync, Restrict, CountsKept
<1>4. ASSUME NEW s \in Passes,
             \/ Start(s) \/ Break(s)
             \/ \E m \in Models : List(s, m) \/ ListFails(s, m)
             \/ \E p \in Pods : Probe(s, p) \/ ProbeTimesOut(s, p) \/ UpsertRefused(s, p)
      PROVE  CountsKept
  BY <1>4 DEF Start, Break, List, ListFails, TakeUp, Probe, ProbeTimesOut, Answered,
              UpsertRefused, CountsKept
<1>5. ASSUME NEW p \in Pods, PodStarts(p) \/ PodStops(p) \/ HealthChanges(p)
      PROVE  CountsKept
  BY <1>5 DEF PodStarts, PodStops, HealthChanges, CountsKept
<1>6. CASE UNCHANGED vars
  BY <1>6 DEF vars, CountsKept
<1>7. QED
  BY <1>1, <1>2, <1>3, <1>4, <1>5, <1>6 DEF Next, Pass, PassFault, Scheduler, Change

\* However many passes overlap, whatever they list and delete, and however
\* often configurations alternate, no row counts a request that is not there.
THEOREM CapacityIsNeverLost == Spec => []CapacityNeverLost
<1>1. Init => CapacityNeverLost
  BY DEF Init, CapacityNeverLost, Nothing
<1>2. TypeOK /\ CapacityNeverLost /\ [Next]_vars => CapacityNeverLost'
  <2> SUFFICES ASSUME TypeOK, CapacityNeverLost, [Next]_vars,
                      NEW x \in DOMAIN replicas'
               PROVE  replicas'[x].inFlight <= Cardinality(Holding(x)')
    BY DEF CapacityNeverLost
  <2> x \in Pods
    <3>1. TypeOK'
      BY TypeStep
    <3>2. QED
      BY <3>1 DEF TypeOK
  <2>1. Cardinality(Holding(x)) \in Nat
    BY HoldingFinite
  <2>2. x \in DOMAIN replicas => /\ replicas[x].inFlight \in Nat
                                 /\ replicas[x].inFlight <= Cardinality(Holding(x))
    BY DEF CapacityNeverLost, TypeOK, Row
  <2>3. ASSUME NEW q \in Requests, NEW p \in Pods, Claim(q, p)
        PROVE  replicas'[x].inFlight <= Cardinality(Holding(x)')
    BY <2>1, <2>2, <2>3, ClaimCounts
  <2>4. ASSUME NEW q \in Requests, Release(q)
        PROVE  replicas'[x].inFlight <= Cardinality(Holding(x)')
    <3>1. IsFiniteSet(Holding(x)) /\ (x = at[q] => Holding(x) # {})
      BY <2>4, HoldingFinite, ReleaseCounts
    <3>2. x = at[q] => Cardinality(Holding(x)) >= 1
      BY <3>1, <2>1, FS_EmptySet
    <3>3. QED
      BY <2>1, <2>2, <2>4, <3>2, ReleaseCounts
  <2>5. CASE CountsKept
    <3>1. Holding(x)' = Holding(x)
      BY <2>5 DEF CountsKept, Holding
    <3>2. QED
      BY <2>1, <2>2, <2>5, <3>1 DEF CountsKept
  <2>6. QED
    BY <2>3, <2>4, <2>5, CountStep
<1>3. QED
  BY <1>1, <1>2, TypeCorrect, PTL DEF Spec

----------------------------------------------------------------------------
(* One pass at a time.                                                     *)

\* One router, whose passes end before the next one starts.
OnePass == \A s, t \in Passes : s = t

\* Every router starts with the same configuration.
OneConfig == \A c, d \in Configs : c = d

\* What the table and the passes can know: pods that are or were listed, and
\* rows of registered models only; a pass that is not running holds nothing.
KnownPods ==
    /\ listed \cap retired = {}
    /\ DOMAIN replicas \subseteq listed \cup retired
    /\ \A p \in DOMAIN replicas : ModelOf[p] \in models
    /\ \A s \in Passes : candidates[s] \cup DOMAIN answers[s] \subseteq listed \cup retired
    /\ \A s \in Passes \ running : candidates[s] = {} /\ DOMAIN answers[s] = {}

\* A running pass still accounts for every row: it has written it, has it in
\* hand, has its model to come, or looked for it in vain because it is gone.
Accounted(s, p) ==
    \/ p \in seen[s] \cup candidates[s] \cup DOMAIN answers[s] \cup retired
    \/ ModelOf[p] \in todo[s]

RowsAccounted == \A s \in running, p \in DOMAIN replicas : Accounted(s, p)

\* What a pass that ends leaves behind, of its own and of the others.
LEMMA LeaveEmpty ==
    ASSUME TypeOK, NEW s \in Passes, Leave(s)
    PROVE  /\ running' = running \ {s}
           /\ candidates'[s] = {} /\ DOMAIN answers'[s] = {}
           /\ \A t \in Passes \ {s} : /\ candidates'[t] = candidates[t]
                                      /\ answers'[t] = answers[t]
                                      /\ todo'[t] = todo[t] /\ seen'[t] = seen[t]
<1>1. DOMAIN Nothing = {}
  BY DEF Nothing
<1>2. QED
  BY <1>1 DEF Leave, TypeOK

\* What an answer, or its writing, changes of a pass.
LEMMA AnsweredPass ==
    ASSUME TypeOK, NEW s \in Passes, NEW p \in Pods, NEW answer, Answered(s, p, answer)
    PROVE  /\ p \in candidates[s]
           /\ candidates'[s] = candidates[s] \ {p}
           /\ DOMAIN answers'[s] = DOMAIN answers[s] \cup {p}
           /\ \A t \in Passes \ {s} : /\ candidates'[t] = candidates[t]
                                      /\ answers'[t] = answers[t]
  BY DEF Answered, TypeOK

\* The same for an upsert.
LEMMA UpsertPass ==
    ASSUME TypeOK, NEW s \in Passes, NEW p \in Pods, Upsert(s, p)
    PROVE  /\ p \in DOMAIN answers[s] /\ ModelOf[p] \in models
           /\ DOMAIN replicas' = DOMAIN replicas \cup {p}
           /\ DOMAIN answers'[s] = DOMAIN answers[s] \ {p}
           /\ seen'[s] = seen[s] \cup {p}
           /\ \A t \in Passes \ {s} : answers'[t] = answers[t] /\ seen'[t] = seen[t]
<1>1. DOMAIN replicas' = DOMAIN replicas \cup {p}
  BY UpsertedRows DEF Upsert
<1>2. QED
  BY <1>1 DEF Upsert, Restrict, TypeOK

\* Known pods only: an invariant, whatever passes overlap.
LEMMA KnownPodsInvariant == Spec => []KnownPods
<1>1. Init => KnownPods
  BY DEF Init, KnownPods, Nothing
<1>2. TypeOK /\ KnownPods /\ [Next]_vars => KnownPods'
  <2> SUFFICES ASSUME TypeOK, KnownPods, [Next]_vars
               PROVE  KnownPods'
    OBVIOUS
  <2>1. ASSUME NEW s \in Passes, Start(s)
        PROVE  KnownPods'
    BY <2>1 DEF KnownPods, Start, cluster
  <2>2. ASSUME NEW s \in Passes, NEW m \in Models, List(s, m) \/ ListFails(s, m)
        PROVE  KnownPods'
    BY <2>2 DEF KnownPods, List, ListFails, TakeUp, Listing, cluster, TypeOK
  <2>3. ASSUME NEW s \in Passes, NEW p \in Pods, Probe(s, p) \/ ProbeTimesOut(s, p)
        PROVE  KnownPods'
    <3>1. PICK answer : Answered(s, p, answer)
      BY <2>3 DEF Probe, ProbeTimesOut
    <3>2. s \in running
      BY <3>1, AnsweredPass DEF KnownPods
    <3>3. UNCHANGED <<listed, retired, models, replicas, running>>
      BY <3>1 DEF Answered, cluster
    <3>4. QED
      BY <3>1, <3>2, <3>3, AnsweredPass DEF KnownPods
  <2>4. ASSUME NEW s \in Passes, NEW p \in Pods, Upsert(s, p)
        PROVE  KnownPods'
    <3>1. UNCHANGED <<listed, retired, models, running, candidates>>
      BY <2>4 DEF Upsert, cluster
    <3>2. /\ p \in DOMAIN answers[s] /\ ModelOf[p] \in models
          /\ DOMAIN replicas' = DOMAIN replicas \cup {p}
          /\ DOMAIN answers'[s] = DOMAIN answers[s] \ {p}
          /\ seen'[s] = seen[s] \cup {p}
          /\ \A t \in Passes \ {s} : answers'[t] = answers[t] /\ seen'[t] = seen[t]
      BY <2>4, UpsertPass
    <3>3. QED
      BY <3>1, <3>2 DEF KnownPods
  <2>5. ASSUME NEW s \in Passes,
               Break(s) \/ Finish(s) \/ \E p \in Pods : UpsertRefused(s, p)
        PROVE  KnownPods'
    <3>1. /\ Leave(s) /\ UNCHANGED <<listed, retired, models>>
          /\ DOMAIN replicas' \subseteq DOMAIN replicas
      BY <2>5 DEF Break, Finish, UpsertRefused, Restrict, cluster
    <3>2. QED
      BY <3>1, LeaveEmpty DEF KnownPods
  <2>6. ASSUME NEW c \in Configs, Sync(c)
        PROVE  KnownPods'
    BY <2>6 DEF KnownPods, Sync, Restrict, cluster, pass
  <2>7. ASSUME NEW q \in Requests, Scheduler(q)
        PROVE  KnownPods'
    <3>1. DOMAIN replicas' = DOMAIN replicas
      BY <2>7 DEF Scheduler, Claim, Release
    <3>2. UNCHANGED <<cluster, models, pass>>
      BY <2>7 DEF Scheduler, Claim, Release
    <3>3. QED
      BY <3>1, <3>2 DEF KnownPods, cluster, pass
  <2>8. ASSUME NEW p \in Pods, PodStarts(p) \/ PodStops(p) \/ HealthChanges(p)
        PROVE  KnownPods'
    BY <2>8 DEF KnownPods, PodStarts, PodStops, HealthChanges, pass
  <2>9. CASE UNCHANGED vars
    BY <2>9 DEF KnownPods, vars, cluster, pass
  <2>10. QED
    BY <2>1, <2>2, <2>3, <2>4, <2>5, <2>6, <2>7, <2>8, <2>9
    DEF Next, Pass, PassFault, Change
<1>3. QED
  BY <1>1, <1>2, TypeCorrect, PTL DEF Spec

\* With one pass at a time every row is accounted for: nobody else inserts
\* rows while the pass is under way.
LEMMA RowsAccountedInvariant ==
    ASSUME OnePass
    PROVE  Spec => []RowsAccounted
<1>1. Init => RowsAccounted
  BY DEF Init, RowsAccounted
<1>2. TypeOK /\ KnownPods /\ RowsAccounted /\ [Next]_vars => RowsAccounted'
  <2> SUFFICES ASSUME TypeOK, KnownPods, RowsAccounted, [Next]_vars
               PROVE  RowsAccounted'
    OBVIOUS
  <2> running \subseteq Passes
    BY DEF TypeOK
  <2>1. ASSUME NEW s \in Passes, Start(s)
        PROVE  RowsAccounted'
    BY <2>1 DEF RowsAccounted, Accounted, Start, KnownPods, OnePass, cluster, TypeOK
  <2>2. ASSUME NEW s \in Passes, NEW m \in Models, List(s, m) \/ ListFails(s, m)
        PROVE  RowsAccounted'
    <3>1. /\ UNCHANGED <<listed, retired, models, replicas, running, answers, seen>>
          /\ candidates[s] = {}
          /\ todo'[s] = todo[s] \ {m}
          /\ \/ candidates'[s] = {p \in listed : ModelOf[p] = m}
             \/ candidates'[s] = {p \in DOMAIN replicas : ModelOf[p] = m}
      BY <2>2 DEF List, ListFails, TakeUp, Listing, cluster, TypeOK
    <3>2. QED
      BY <3>1 DEF RowsAccounted, Accounted, KnownPods, OnePass
  <2>3. ASSUME NEW s \in Passes, NEW p \in Pods, Probe(s, p) \/ ProbeTimesOut(s, p)
        PROVE  RowsAccounted'
    <3>1. PICK answer : Answered(s, p, answer)
      BY <2>3 DEF Probe, ProbeTimesOut
    <3>2. UNCHANGED <<retired, replicas, running, todo, seen>>
      BY <3>1 DEF Answered, cluster
    <3>3. QED
      BY <3>1, <3>2, AnsweredPass DEF RowsAccounted, Accounted, OnePass
  <2>4. ASSUME NEW s \in Passes, NEW p \in Pods, Upsert(s, p)
        PROVE  RowsAccounted'
    <3>1. UNCHANGED <<retired, running, candidates, todo>>
      BY <2>4 DEF Upsert, cluster
    <3>2. /\ p \in DOMAIN answers[s] /\ ModelOf[p] \in models
          /\ DOMAIN replicas' = DOMAIN replicas \cup {p}
          /\ DOMAIN answers'[s] = DOMAIN answers[s] \ {p}
          /\ seen'[s] = seen[s] \cup {p}
          /\ \A t \in Passes \ {s} : answers'[t] = answers[t] /\ seen'[t] = seen[t]
      BY <2>4, UpsertPass
    <3>3. QED
      BY <3>1, <3>2 DEF RowsAccounted, Accounted, OnePass
  <2>5. ASSUME NEW s \in Passes,
               Break(s) \/ Finish(s) \/ \E p \in Pods : UpsertRefused(s, p)
        PROVE  RowsAccounted'
    <3>1. Leave(s)
      BY <2>5 DEF Break, Finish, UpsertRefused
    <3>2. running' = {}
      BY <3>1, LeaveEmpty DEF OnePass
    <3>3. QED
      BY <3>2 DEF RowsAccounted
  <2>6. ASSUME NEW c \in Configs, Sync(c)
        PROVE  RowsAccounted'
    BY <2>6 DEF RowsAccounted, Accounted, Sync, Restrict, cluster, pass
  <2>7. ASSUME NEW q \in Requests, Scheduler(q)
        PROVE  RowsAccounted'
    <3>1. DOMAIN replicas' = DOMAIN replicas
      BY <2>7 DEF Scheduler, Claim, Release
    <3>2. UNCHANGED <<cluster, models, pass>>
      BY <2>7 DEF Scheduler, Claim, Release
    <3>3. QED
      BY <3>1, <3>2 DEF RowsAccounted, Accounted, cluster, pass
  <2>8. ASSUME NEW p \in Pods, PodStarts(p) \/ PodStops(p) \/ HealthChanges(p)
        PROVE  RowsAccounted'
    BY <2>8 DEF RowsAccounted, Accounted, PodStarts, PodStops, HealthChanges, pass
  <2>9. CASE UNCHANGED vars
    BY <2>9 DEF RowsAccounted, Accounted, vars, cluster, pass
  <2>10. QED
    BY <2>1, <2>2, <2>3, <2>4, <2>5, <2>6, <2>7, <2>8, <2>9
    DEF Next, Pass, PassFault, Change
<1>3. QED
  BY <1>1, <1>2, TypeCorrect, KnownPodsInvariant, PTL DEF Spec

\* The rows a step can delete are those of the final DELETE, which with one
\* pass at a time are of retired pods, and those of models that Sync removes.
LEMMA RowsDeleted ==
    ASSUME TypeOK, RowsAccounted, [Next]_vars,
           NEW p \in DOMAIN replicas, p \notin DOMAIN replicas'
    PROVE  \/ \E s \in Passes : Finish(s) /\ p \in retired
           \/ \E c \in Configs : Sync(c) /\ ModelOf[p] \notin c
<1>1. ASSUME NEW s \in Passes, Finish(s)
      PROVE  p \in retired
  <2>1. /\ s \in running /\ todo[s] = {} /\ candidates[s] = {} /\ DOMAIN answers[s] = {}
        /\ p \notin seen[s]
    BY <1>1 DEF Finish, Listing, Restrict, Nothing
  <2>2. QED
    BY <2>1 DEF RowsAccounted, Accounted
<1>2. ASSUME NEW c \in Configs, Sync(c)
      PROVE  ModelOf[p] \notin c
  BY <1>2 DEF Sync, Restrict
<1>3. ASSUME NEW s \in Passes, NEW x \in Pods, Upsert(s, x)
      PROVE  FALSE
  BY <1>3, UpsertPass
<1>4. ASSUME NEW q \in Requests, Scheduler(q)
      PROVE  FALSE
  BY <1>4 DEF Scheduler, Claim, Release
<1>5. ASSUME NEW s \in Passes,
             \/ Start(s) \/ Break(s)
             \/ \E m \in Models : List(s, m) \/ ListFails(s, m)
             \/ \E x \in Pods : Probe(s, x) \/ ProbeTimesOut(s, x) \/ UpsertRefused(s, x)
      PROVE  FALSE
  BY <1>5 DEF Start, Break, List, ListFails, TakeUp, Probe, ProbeTimesOut, Answered,
              UpsertRefused
<1>6. ASSUME NEW x \in Pods, PodStarts(x) \/ PodStops(x) \/ HealthChanges(x)
      PROVE  FALSE
  BY <1>6 DEF PodStarts, PodStops, HealthChanges
<1>7. CASE UNCHANGED vars
  BY <1>7 DEF vars
<1>8. QED
  BY <1>1, <1>2, <1>3, <1>4, <1>5, <1>6, <1>7 DEF Next, Pass, PassFault, Change

\* With one pass at a time no pass deletes the row of a listed pod of a
\* registered model, whatever lists, probes and statements fail.
THEOREM ListedRowsAreKept ==
    ASSUME OnePass
    PROVE  Spec => ListedRowsStay
<1>1. /\ TypeOK /\ KnownPods /\ RowsAccounted /\ [Next]_vars
      => [\A p \in DOMAIN replicas :
             p \in listed /\ ModelOf[p] \in models' => p \in DOMAIN replicas']_vars
  <2> SUFFICES ASSUME TypeOK, KnownPods, RowsAccounted, [Next]_vars,
                      NEW p \in DOMAIN replicas, p \in listed, ModelOf[p] \in models',
                      p \notin DOMAIN replicas'
               PROVE  FALSE
    OBVIOUS
  <2>1. p \notin retired
    BY DEF KnownPods
  <2>2. ASSUME NEW c \in Configs, Sync(c)
        PROVE  ModelOf[p] \in c
    BY <2>2 DEF Sync
  <2>3. QED
    BY <2>1, <2>2, RowsDeleted
<1>2. QED
  BY <1>1, TypeCorrect, KnownPodsInvariant, RowsAccountedInvariant, PTL
  DEF Spec, ListedRowsStay

\* A pod that no pass will write a row for again: it is retired and no pass
\* has it in hand, or the configuration does not name its model any more.
InNoPass(p) == \A s \in Passes : p \notin candidates[s] \cup DOMAIN answers[s]

Unconfigured(p) == models \in Configs /\ ModelOf[p] \notin models

Gone(p) == (p \in retired /\ InNoPass(p)) \/ Unconfigured(p)

\* A row counts exactly the handlers at its replica, and a handler at a replica
\* without a row is at one that is gone.
SlotsCounted ==
    /\ \A p \in DOMAIN replicas : replicas[p].inFlight = Cardinality(Holding(p))
    /\ \A p \in Pods \ DOMAIN replicas : Holding(p) # {} => Gone(p)

\* Gone is for good when all routers start with the same configuration.
LEMMA GoneStays ==
    ASSUME TypeOK, KnownPods, OneConfig, [Next]_vars,
           NEW p \in Pods, p \notin DOMAIN replicas, Gone(p)
    PROVE  Gone(p)'
<1>1. ASSUME Unconfigured(p)
      PROVE  models' = models
  <2>1. ASSUME NEW c \in Configs, Sync(c)
        PROVE  FALSE
    BY <1>1, <2>1 DEF Unconfigured, Sync, OneConfig
  <2>2. QED
    BY <2>1 DEF Next, Pass, PassFault, Scheduler, Change, Start, Break, Finish, List,
                ListFails, TakeUp, Probe, ProbeTimesOut, Answered, Upsert, UpsertRefused,
                Claim, Release, PodStarts, PodStops, HealthChanges, vars
<1>2. ASSUME p \in retired, InNoPass(p)
      PROVE  p \in retired' /\ InNoPass(p)'
  <2> USE <1>2
  <2>1. p \notin listed
    BY DEF KnownPods
  <2>2. ASSUME NEW s \in Passes, NEW m \in Models, List(s, m) \/ ListFails(s, m)
        PROVE  p \in retired' /\ InNoPass(p)'
    BY <2>1, <2>2 DEF List, ListFails, TakeUp, InNoPass, cluster, TypeOK
  <2>3. ASSUME NEW s \in Passes, NEW x \in Pods, Probe(s, x) \/ ProbeTimesOut(s, x)
        PROVE  p \in retired' /\ InNoPass(p)'
    <3>1. PICK answer : Answered(s, x, answer)
      BY <2>3 DEF Probe, ProbeTimesOut
    <3>2. /\ x \in candidates[s]
          /\ candidates'[s] = candidates[s] \ {x}
          /\ DOMAIN answers'[s] = DOMAIN answers[s] \cup {x}
          /\ \A t \in Passes \ {s} : candidates'[t] = candidates[t] /\ answers'[t] = answers[t]
      BY <3>1, AnsweredPass
    <3>3. retired' = retired
      BY <3>1 DEF Answered, cluster
    <3>4. QED
      BY <3>2, <3>3 DEF InNoPass
  <2>4. ASSUME NEW s \in Passes, NEW x \in Pods, Upsert(s, x)
        PROVE  p \in retired' /\ InNoPass(p)'
    <3>1. /\ DOMAIN answers'[s] = DOMAIN answers[s] \ {x}
          /\ \A t \in Passes \ {s} : answers'[t] = answers[t]
      BY <2>4, UpsertPass
    <3>2. UNCHANGED <<retired, candidates>>
      BY <2>4 DEF Upsert, cluster
    <3>3. QED
      BY <3>1, <3>2 DEF InNoPass
  <2>5. ASSUME NEW s \in Passes,
               Break(s) \/ Finish(s) \/ \E x \in Pods : UpsertRefused(s, x)
        PROVE  p \in retired' /\ InNoPass(p)'
    <3>1. Leave(s) /\ UNCHANGED retired
      BY <2>5 DEF Break, Finish, UpsertRefused, cluster
    <3>2. QED
      BY <3>1, LeaveEmpty DEF InNoPass
  <2>6. ASSUME NEW s \in Passes, Start(s)
        PROVE  p \in retired' /\ InNoPass(p)'
    BY <2>6 DEF Start, cluster, InNoPass
  <2>7. CASE Change \/ (\E q \in Requests : Scheduler(q)) \/ UNCHANGED vars
    BY <2>7 DEF Change, Sync, PodStarts, PodStops, HealthChanges, Scheduler, Claim,
                Release, vars, pass, cluster, InNoPass
  <2>8. QED
    BY <2>2, <2>3, <2>4, <2>5, <2>6, <2>7 DEF Next, Pass, PassFault
<1>3. QED
  BY <1>1, <1>2 DEF Gone, Unconfigured

\* A row is inserted only by an upsert.
LEMMA RowsInserted ==
    ASSUME TypeOK, [Next]_vars, NEW p \in DOMAIN replicas', p \notin DOMAIN replicas
    PROVE  \E s \in Passes : Upsert(s, p)
<1>1. ASSUME NEW s \in Passes, NEW x \in Pods, Upsert(s, x)
      PROVE  x = p
  <2>1. DOMAIN replicas' = DOMAIN replicas \cup {x}
    BY <1>1, UpsertPass
  <2>2. QED
    BY <2>1
<1>2. CASE \A s \in Passes, x \in Pods : ~Upsert(s, x)
  BY <1>2 DEF Next, Pass, PassFault, Scheduler, Change, Start, Break, Finish, List,
              ListFails, TakeUp, Probe, ProbeTimesOut, Answered, UpsertRefused, Restrict,
              Claim, Release, Sync, PodStarts, PodStops, HealthChanges, vars
<1>3. QED
  BY <1>1, <1>2

\* With one pass at a time and one configuration the rows count exactly.
LEMMA SlotsCountedInvariant ==
    ASSUME OnePass, OneConfig
    PROVE  Spec => []SlotsCounted
<1>1. Init => SlotsCounted
  BY FleetAssumption DEF Init, SlotsCounted, Holding, Nothing
<1>2. /\ TypeOK /\ KnownPods /\ RowsAccounted /\ SlotsCounted /\ [Next]_vars
      => SlotsCounted'
  <2> SUFFICES ASSUME TypeOK, KnownPods, RowsAccounted, SlotsCounted, [Next]_vars
               PROVE  SlotsCounted'
    OBVIOUS
  <2>0. /\ DOMAIN replicas \subseteq Pods
        /\ \A p \in Pods : IsFiniteSet(Holding(p)) /\ Cardinality(Holding(p)) \in Nat
        /\ \A p \in DOMAIN replicas : replicas[p].inFlight = Cardinality(Holding(p))
    BY HoldingFinite DEF TypeOK, SlotsCounted
  <2>1. ASSUME NEW q \in Requests, NEW p \in Pods, Claim(q, p)
        PROVE  SlotsCounted'
    <3>1. /\ p \in DOMAIN replicas /\ DOMAIN replicas' = DOMAIN replicas
          /\ \A x \in DOMAIN replicas : replicas'[x].inFlight = Cardinality(Holding(x)')
      BY <2>0, <2>1, ClaimCounts
    <3>2. \A x \in Pods : x # p => Holding(x)' = Holding(x)
      BY <2>1, FleetAssumption DEF Claim, Holding, TypeOK
    <3>3. \A x \in Pods : Gone(x)' = Gone(x)
      BY <2>1 DEF Claim, Gone, InNoPass, Unconfigured, cluster, pass
    <3>4. QED
      BY <3>1, <3>2, <3>3 DEF SlotsCounted
  <2>2. ASSUME NEW q \in Requests, Release(q)
        PROVE  SlotsCounted'
    <3>1. ASSUME NEW x \in DOMAIN replicas
          PROVE  replicas'[x].inFlight = Cardinality(Holding(x)')
      <4>1. x = at[q] => Holding(x) # {}
        BY <2>2, ReleaseCounts
      <4>2. x = at[q] => Cardinality(Holding(x)) > 0
        BY <2>0, <4>1, FS_EmptySet
      <4>3. QED
        BY <2>0, <2>2, <4>2, ReleaseCounts
    <3>2. DOMAIN replicas' = DOMAIN replicas /\ \A x \in Pods : Holding(x)' \subseteq Holding(x)
      BY <2>2, ReleaseCounts
    <3>3. \A x \in Pods : Gone(x)' = Gone(x)
      BY <2>2 DEF Release, Gone, InNoPass, Unconfigured, cluster, pass
    <3>4. QED
      BY <3>1, <3>2, <3>3 DEF SlotsCounted
  <2>3. CASE CountsKept
    <3>1. \A x \in Pods : Holding(x)' = Holding(x)
      BY <2>3 DEF CountsKept, Holding
    <3>2. ASSUME NEW x \in DOMAIN replicas'
          PROVE  replicas'[x].inFlight = Cardinality(Holding(x)')
      <4>1. x \in Pods
        <5>1. TypeOK'
          BY TypeStep
        <5>2. QED
          BY <5>1 DEF TypeOK
      <4>2. CASE x \in DOMAIN replicas
        BY <2>0, <2>3, <3>1, <4>1, <4>2 DEF CountsKept
      <4>3. CASE x \notin DOMAIN replicas
        <5>1. PICK s \in Passes : Upsert(s, x)
          BY <4>3, RowsInserted
        <5>2. ~Gone(x)
          BY <5>1 DEF Upsert, Gone, InNoPass, Unconfigured
        <5>3. Holding(x) = {}
          BY <4>1, <4>3, <5>2 DEF SlotsCounted
        <5>4. QED
          BY <2>3, <3>1, <4>1, <4>3, <5>3, FS_EmptySet DEF CountsKept
      <4>4. QED
        BY <4>2, <4>3
    <3>3. ASSUME NEW x \in Pods, x \notin DOMAIN replicas', Holding(x)' # {}
          PROVE  Gone(x)'
      <4>1. CASE x \notin DOMAIN replicas
        <5>1. Gone(x)
          BY <3>1, <3>3, <4>1 DEF SlotsCounted
        <5>2. QED
          BY <4>1, <5>1, GoneStays
      <4>2. ASSUME NEW s \in Passes, Finish(s), x \in retired
            PROVE  Gone(x)'
        <5>1. Leave(s) /\ retired' = retired
          BY <4>2 DEF Finish, cluster
        <5>2. InNoPass(x)'
          BY <5>1, LeaveEmpty DEF InNoPass, OnePass
        <5>3. QED
          BY <4>2, <5>1, <5>2 DEF Gone
      <4>3. ASSUME NEW c \in Configs, Sync(c), ModelOf[x] \notin c
            PROVE  Gone(x)'
        BY <4>3 DEF Sync, Gone, Unconfigured
      <4>4. QED
        BY <3>3, <4>1, <4>2, <4>3, RowsDeleted
    <3>4. QED
      BY <3>2, <3>3 DEF SlotsCounted
  <2>4. QED
    BY <2>1, <2>2, <2>3, CountStep
<1>3. QED
  BY <1>1, <1>2, TypeCorrect, KnownPodsInvariant, RowsAccountedInvariant, PTL DEF Spec

\* With one pass at a time and one configuration a placement always finds a
\* slot that is really free, although rows come and go under the handlers.
THEOREM ClaimsAlwaysFindRoom ==
    ASSUME OnePass, OneConfig
    PROVE  Spec => ClaimsFindRoom
<1>1. TypeOK /\ SlotsCounted /\ [Next]_vars
      => [\A q \in Requests, p \in Pods :
             at[q] # p /\ at'[q] = p =>
                 Cardinality(Holding(p)') <= replicas'[p].maxConcurrency]_vars
  <2> SUFFICES ASSUME TypeOK, SlotsCounted, [Next]_vars,
                      NEW q \in Requests, NEW p \in Pods, at[q] # p, at'[q] = p
               PROVE  Cardinality(Holding(p)') <= replicas'[p].maxConcurrency
    OBVIOUS
  <2>1. ASSUME NEW r \in Requests, NEW x \in Pods, Claim(r, x)
        PROVE  x = p
    BY <2>1 DEF Claim, TypeOK
  <2>2. ASSUME NEW r \in Requests, Release(r)
        PROVE  FALSE
    BY <2>2, FleetAssumption DEF Release, TypeOK
  <2>3. PICK r \in Requests : Claim(r, p)
    BY <2>1, <2>2, CountStep DEF CountsKept
  <2>4. /\ replicas[p].inFlight < replicas[p].maxConcurrency
        /\ replicas'[p].maxConcurrency = replicas[p].maxConcurrency
        /\ Cardinality(Holding(p)') = Cardinality(Holding(p)) + 1
        /\ p \in DOMAIN replicas
    BY <2>3, ClaimCounts
  <2>5. /\ replicas[p].inFlight = Cardinality(Holding(p))
        /\ replicas[p].inFlight \in Nat /\ replicas[p].maxConcurrency \in Nat
    BY <2>4 DEF SlotsCounted, TypeOK, Row
  <2>6. QED
    BY <2>4, <2>5
<1>2. QED
  BY <1>1, TypeCorrect, SlotsCountedInvariant, PTL DEF Spec, ClaimsFindRoom

=============================================================================
