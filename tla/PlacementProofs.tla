-------------------------- MODULE PlacementProofs --------------------------
(***************************************************************************)
(* Placement keeps its types and the ceilings, makes a caller wait only    *)
(* when no ready replica has room, returns a conversation to where it was, *)
(* and shows KEDA every first request: for every set of requests, replicas *)
(* and conversations, and every debounce, window and polling interval.     *)
(***************************************************************************)
EXTENDS Placement, FiniteSetTheorems, TLAPS

----------------------------------------------------------------------------
(* Types. *)

\* Only requests with a key are at the statements of the affinity.
Keyed ==
    \A q \in Requests :
        pc[q] \in {"lookup", "aimed", "hitSignal", "hitRecord", "record"} =>
            KeyOf[q] \in Keys

TypeInv == TypeOK /\ Keyed

\* Initially every variable has its type ...
LEMMA InitType == Init => TypeInv
<1> SUFFICES ASSUME Init PROVE TypeInv
  OBVIOUS
<1>1. /\ pc \in [Requests -> Pcs]
      /\ slot \in [Requests -> Replicas \cup {NoReplica}]
      /\ target \in [Requests -> Replicas \cup {NoReplica}]
  BY DEF Init, Pcs
<1>2. /\ first \in [Requests -> BOOLEAN]
      /\ unseen \in BOOLEAN /\ owed \in BOOLEAN
  BY DEF Init
<1>3. /\ present \subseteq Replicas /\ ready \subseteq present
      /\ inFlight \in [Replicas -> Nat]
      /\ rate \in [Replicas -> 0..MaxRate]
      /\ fresh \subseteq present /\ recent \subseteq present
  BY PlacementAssumption DEF PlacementAssumption, Init
<1>4. /\ affinity \in [Keys -> Replicas \cup {NoReplica}]
      /\ last \in [Keys -> Replicas \cup {NoReplica}]
      /\ live \subseteq Keys
  BY DEF Init
<1>5. /\ signalAge \in 0..Window /\ pollAge \in 0..PollEvery
      /\ poll \in {"none", "plain", "wanted"}
  BY PlacementAssumption DEF PlacementAssumption, Init
<1>6. Keyed
  BY DEF Init, Keyed
<1>7. QED
  BY <1>1, <1>2, <1>3, <1>4, <1>5, <1>6 DEF TypeInv, TypeOK

\* ... and every step keeps it.
LEMMA NextType == TypeInv /\ [Next]_vars => TypeInv'
<1> SUFFICES ASSUME TypeInv, [Next]_vars PROVE TypeInv'
  OBVIOUS
<1> USE PlacementAssumption
    DEF PlacementAssumption, TypeInv, TypeOK, Keyed, Pcs, Goto, Entry,
        handler, fleet, table, scaling
<1>1. ASSUME NEW q \in Requests, Arrive(q) PROVE TypeInv'
  BY <1>1 DEF Arrive
<1>2. ASSUME NEW q \in Requests, Lookup(q) PROVE TypeInv'
  BY <1>2 DEF Lookup, lookupAffinity
<1>3. ASSUME NEW q \in Requests, AffineClaim(q) PROVE TypeInv'
  BY <1>3 DEF AffineClaim, HasRoom, Take
<1>4. ASSUME NEW q \in Requests, AffineMiss(q) PROVE TypeInv'
  BY <1>4 DEF AffineMiss
<1>5. ASSUME NEW q \in Requests, NEW r \in Replicas, GeneralClaim(q, r) PROVE TypeInv'
  BY <1>5 DEF GeneralClaim, Take
<1>6. ASSUME NEW q \in Requests, GeneralMiss(q) PROVE TypeInv'
  BY <1>6 DEF GeneralMiss
<1>7. ASSUME NEW q \in Requests, Record(q) PROVE TypeInv'
  <2>1. KeyOf[q] \in Keys
    BY <1>7 DEF Record
  <2>2. /\ affinity' = [affinity EXCEPT ![KeyOf[q]] = slot[q]]
        /\ live' = live \cup {KeyOf[q]}
    BY <1>7 DEF Record, recordAffinity
  <2>3. affinity' \in [Keys -> Replicas \cup {NoReplica}] /\ live' \subseteq Keys
    BY <2>1, <2>2
  <2>4. \E s \in {"placed", "signal"} : pc' = [pc EXCEPT ![q] = s]
    BY <1>7 DEF Record
  <2>5. QED
    BY <1>7, <2>3, <2>4 DEF Record
<1>8. ASSUME NEW q \in Requests, Signal(q) PROVE TypeInv'
  <2>1. unseen' \in BOOLEAN
    BY <1>8 DEF Signal
  <2>2. signalAge' \in 0..Window
    BY <1>8 DEF Signal, requestScaleUp
  <2>3. \E s \in {"placed", "hitRecord"} :
            /\ pc' = [pc EXCEPT ![q] = s]
            /\ s = "hitRecord" => KeyOf[q] \in Keys
    BY <1>8 DEF Signal
  <2>4. QED
    BY <1>8, <2>1, <2>2, <2>3 DEF Signal
<1>9. ASSUME NEW q \in Requests, Completing(q) PROVE TypeInv'
  BY <1>9 DEF Completing
<1>10. ASSUME NEW q \in Requests, CommitShort(q) PROVE TypeInv'
  BY <1>10 DEF CommitShort, Leave
<1>11. ASSUME NEW q \in Requests, CommitMeasured(q) PROVE TypeInv'
  BY <1>11 DEF CommitMeasured, Leave
<1>12. ASSUME NEW q \in Requests, Fail(q) PROVE TypeInv'
  BY <1>12 DEF Fail, Leave
<1>13. ASSUME NEW r \in Replicas, Probed(r) PROVE TypeInv'
  BY <1>13 DEF Probed
<1>14. ASSUME NEW r \in Replicas, Removed(r) PROVE TypeInv'
  BY <1>14 DEF Removed
<1>15. ASSUME NEW r \in Replicas, ReadingAges(r) PROVE TypeInv'
  BY <1>15 DEF ReadingAges
<1>16. ASSUME NEW k \in Keys, AffinityAges(k) PROVE TypeInv'
  BY <1>16 DEF AffinityAges
<1>17. CASE sweepAffinities
  BY <1>17 DEF sweepAffinities
<1>18. CASE Tick
  BY <1>18 DEF Tick
<1>19. CASE PollSignal \/ PollDemand
  <2>1. unseen' \in BOOLEAN /\ owed' \in BOOLEAN
    BY <1>19 DEF PollSignal, PollDemand
  <2>2. pollAge' \in 0..PollEvery /\ poll' \in {"none", "plain", "wanted"}
    BY <1>19 DEF PollSignal, PollDemand
  <2>3. UNCHANGED <<handler, fleet, inFlight, rate, fresh, table, signalAge, last, recent>>
    BY <1>19 DEF PollSignal, PollDemand
  <2>4. QED
    BY <2>1, <2>2, <2>3
<1>20. CASE UNCHANGED vars
  BY <1>20 DEF vars
<1>21. QED
  BY <1>1, <1>2, <1>3, <1>4, <1>5, <1>6, <1>7, <1>8, <1>9, <1>10, <1>11, <1>12,
     <1>13, <1>14, <1>15, <1>16, <1>17, <1>18, <1>19, <1>20 DEF Next, Handler

\* Every variable keeps its type.
THEOREM TypeCorrect == Spec => []TypeOK
<1>1. Spec => []TypeInv
  BY InitType, NextType, PTL DEF Spec
<1>2. TypeInv => TypeOK
  BY DEF TypeInv
<1>3. QED
  BY <1>1, <1>2, PTL

----------------------------------------------------------------------------
(* Ceilings. *)

\* A claim that finds room keeps to the ceiling ...
LEMMA TakeRespects ==
    ASSUME TypeOK, CeilingRespected,
           NEW q \in Requests, NEW r \in Replicas, HasRoom(r), Take(q, r)
    PROVE  CeilingRespected'
<1>1. /\ inFlight \in [Replicas -> Nat]
      /\ MaxConcurrency \in [Replicas -> Nat]
      /\ inFlight[r] < MaxConcurrency[r]
      /\ inFlight' = [inFlight EXCEPT ![r] = @ + 1]
      /\ \A s \in Replicas : inFlight[s] <= MaxConcurrency[s]
  BY PlacementAssumption
     DEF PlacementAssumption, TypeOK, CeilingRespected, HasRoom, Take
<1>2. SUFFICES ASSUME NEW s \in Replicas
               PROVE  inFlight'[s] <= MaxConcurrency[s]
  BY DEF CeilingRespected
<1>3. CASE s = r
  BY <1>1, <1>3
<1>4. CASE s # r
  BY <1>1, <1>4
<1>5. QED
  BY <1>3, <1>4

\* ... as does a slot that is given back, ...
LEMMA LeaveRespects ==
    ASSUME TypeOK, CeilingRespected,
           NEW q \in Requests, NEW from, Leave(q, from)
    PROVE  CeilingRespected'
BY PlacementAssumption
   DEF PlacementAssumption, TypeOK, CeilingRespected, Leave

\* ... and nothing else touches in_flight but the removal of the row.
LEMMA NextRespects ==
    TypeInv /\ CeilingRespected /\ [Next]_vars => CeilingRespected'
<1> SUFFICES ASSUME TypeInv, CeilingRespected, [Next]_vars PROVE CeilingRespected'
  OBVIOUS
<1> USE PlacementAssumption DEF PlacementAssumption, TypeInv
<1>1. ASSUME NEW q \in Requests, AffineClaim(q) PROVE CeilingRespected'
  <2>1. target[q] \in Replicas
    BY <1>1 DEF AffineClaim, HasRoom, TypeOK
  <2>2. QED
    BY <1>1, <2>1, TakeRespects DEF AffineClaim
<1>2. ASSUME NEW q \in Requests, NEW r \in Replicas, GeneralClaim(q, r)
      PROVE  CeilingRespected'
  BY <1>2, TakeRespects DEF GeneralClaim
<1>3. ASSUME NEW q \in Requests, CommitShort(q) \/ CommitMeasured(q) \/ Fail(q)
      PROVE  CeilingRespected'
  BY <1>3, LeaveRespects DEF CommitShort, CommitMeasured, Fail
<1>4. ASSUME NEW r \in Replicas, Removed(r) PROVE CeilingRespected'
  BY <1>4 DEF Removed, CeilingRespected, TypeOK
<1>5. CASE UNCHANGED inFlight
  BY <1>5 DEF CeilingRespected
<1>6. ASSUME NEW q \in Requests,
             Arrive(q) \/ Lookup(q) \/ AffineMiss(q) \/ GeneralMiss(q)
             \/ Record(q) \/ Signal(q) \/ Completing(q)
      PROVE  UNCHANGED inFlight
  BY <1>6 DEF Arrive, Lookup, AffineMiss, GeneralMiss, Record, Signal, Completing
<1>7. ASSUME NEW r \in Replicas, Probed(r) \/ ReadingAges(r)
      PROVE  UNCHANGED inFlight
  BY <1>7 DEF Probed, ReadingAges
<1>8. ASSUME NEW k \in Keys, AffinityAges(k) PROVE UNCHANGED inFlight
  BY <1>8 DEF AffinityAges
<1>9. ASSUME sweepAffinities \/ Tick \/ PollSignal \/ PollDemand \/ UNCHANGED vars
      PROVE  UNCHANGED inFlight
  BY <1>9 DEF sweepAffinities, Tick, PollSignal, PollDemand, vars
<1>10. QED
  BY <1>1, <1>2, <1>3, <1>4, <1>5, <1>6, <1>7, <1>8, <1>9 DEF Next, Handler

\* By either statement, a replica never gets more requests than its ceiling.
THEOREM CeilingsHold == Spec => []CeilingRespected
<1>1. Init => CeilingRespected
  BY PlacementAssumption DEF PlacementAssumption, Init, CeilingRespected
<1>2. QED
  BY <1>1, InitType, NextType, NextRespects, PTL DEF Spec

----------------------------------------------------------------------------
(* Waiting. *)

\* A caller is sent back to wait only when no ready replica has room.
THEOREM WaitsOnlyWhenFull == Spec => QueuedOnlyWhenFull
<1> DEFINE Waits == \A q \in Requests :
              pc[q] \in {"aimed", "general"} /\ pc'[q] = "lookup" =>
                  \A r \in ready \ Locked : inFlight[r] >= MaxConcurrency[r]
<1>1. ASSUME TypeInv, [Next]_vars PROVE Waits
  <2> SUFFICES ASSUME NEW q \in Requests,
                      pc[q] \in {"aimed", "general"}, pc'[q] = "lookup"
               PROVE  \A r \in ready \ Locked : inFlight[r] >= MaxConcurrency[r]
    OBVIOUS
  <2> USE PlacementAssumption DEF PlacementAssumption, TypeInv, TypeOK
  <2>1. ASSUME NEW p \in Requests, NEW from, NEW to, Goto(p, from, to)
        PROVE  p = q /\ from = pc[q] /\ to = "lookup"
    BY <1>1, <2>1 DEF Goto
  <2>2. ASSUME NEW p \in Requests, GeneralMiss(p)
        PROVE  \A r \in ready \ Locked : inFlight[r] >= MaxConcurrency[r]
    <3> SUFFICES ASSUME NEW r \in ready \ Locked
                 PROVE  inFlight[r] >= MaxConcurrency[r]
      OBVIOUS
    <3>1. r \in Replicas /\ inFlight[r] \in Nat /\ MaxConcurrency[r] \in Nat
      BY <1>1
    <3>2. ~(inFlight[r] < MaxConcurrency[r])
      BY <2>2, <3>1 DEF GeneralMiss, HasRoom
    <3>3. QED
      BY <3>1, <3>2
  <2>3. ASSUME NEW p \in Requests, Handler(p) \/ Fail(p) PROVE FALSE
    <3>1. ~Arrive(p)
      BY <2>1 DEF Arrive
    <3>2. ~Lookup(p)
      BY <2>1 DEF Lookup
    <3>3. ~AffineClaim(p)
      BY <2>1 DEF AffineClaim
    <3>4. ~AffineMiss(p)
      BY <2>1 DEF AffineMiss
    <3>5. \A r \in Replicas : ~GeneralClaim(p, r)
      BY <2>1 DEF GeneralClaim
    <3>6. ~Record(p)
      BY <2>1 DEF Record
    <3>7. ~Signal(p)
      BY <2>1 DEF Signal
    <3>8. ~Completing(p)
      BY <2>1 DEF Completing
    <3>9. ~CommitShort(p) /\ ~CommitMeasured(p) /\ ~Fail(p)
      BY <2>1 DEF CommitShort, CommitMeasured, Fail, Leave
    <3>10. QED
      BY <2>3, <3>1, <3>2, <3>3, <3>4, <3>5, <3>6, <3>7, <3>8, <3>9 DEF Handler
  <2>4. UNCHANGED pc => FALSE
    OBVIOUS
  <2>5. ASSUME NEW r \in Replicas, Probed(r) \/ Removed(r) \/ ReadingAges(r)
        PROVE  FALSE
    BY <2>4, <2>5 DEF Probed, Removed, ReadingAges, handler
  <2>6. ASSUME NEW k \in Keys, AffinityAges(k) PROVE FALSE
    BY <2>4, <2>6 DEF AffinityAges, handler
  <2>7. ASSUME sweepAffinities \/ Tick \/ PollSignal \/ PollDemand \/ UNCHANGED vars PROVE FALSE
    BY <2>4, <2>7 DEF sweepAffinities, Tick, PollSignal, PollDemand, vars, handler
  <2>8. QED
    <3>1. CASE \E p \in Requests : Handler(p) \/ GeneralMiss(p) \/ Fail(p)
      BY <2>2, <2>3, <3>1
    <3>2. CASE \E r \in Replicas : Probed(r) \/ Removed(r) \/ ReadingAges(r)
      BY <2>5, <3>2
    <3>3. CASE \E k \in Keys : AffinityAges(k)
      BY <2>6, <3>3
    <3>4. QED
      BY <1>1, <2>7, <3>1, <3>2, <3>3 DEF Next
<1>2. TypeInv /\ [Next]_vars => [Waits]_vars
  BY <1>1
<1>3. QED
  BY <1>2, InitType, NextType, PTL DEF Spec, QueuedOnlyWhenFull

----------------------------------------------------------------------------
(* Conversations. *)

Alone(q) ==
    /\ KeyOf[q] \in Keys
    /\ \A p \in Requests \ {q} : KeyOf[p] # KeyOf[q]

\* Of a conversation with one sender, the table holds the replica of the last
\* turn or none, but from a claim to its record, when the sender's slot does.
Remembered(q) ==
    /\ pc[q] = "aimed" => target[q] = last[KeyOf[q]]
    /\ IF pc[q] \in {"hitSignal", "hitRecord", "record"}
       THEN slot[q] = last[KeyOf[q]]
       ELSE affinity[KeyOf[q]] \in {NoReplica, last[KeyOf[q]]}

AffinityInv == \A q \in Requests : Alone(q) => Remembered(q)

\* Every step keeps the table in line with the last turn.
LEMMA NextRemembers == TypeInv /\ AffinityInv /\ [Next]_vars => AffinityInv'
<1> SUFFICES ASSUME TypeInv, AffinityInv, [Next]_vars,
                    NEW q \in Requests, Alone(q)
             PROVE  Remembered(q)'
  BY DEF AffinityInv, Alone
<1> DEFINE k == KeyOf[q]
<1>0. Remembered(q) /\ k \in Keys
  BY DEF AffinityInv, Alone
<1> USE <1>0 DEF TypeInv, TypeOK, Remembered, Goto, handler, fleet, table, scaling
<1>1. ASSUME Lookup(q) PROVE Remembered(q)'
  BY <1>1 DEF Lookup, lookupAffinity
<1>2. ASSUME AffineClaim(q) PROVE Remembered(q)'
  BY <1>2 DEF AffineClaim, Take
<1>3. ASSUME NEW r \in Replicas, GeneralClaim(q, r) PROVE Remembered(q)'
  <2>1. k # NoKey
    BY PlacementAssumption DEF PlacementAssumption
  <2>2. pc'[q] = "record" /\ slot'[q] = r /\ last'[k] = r
    BY <1>3, <2>1 DEF GeneralClaim, Take
  <2>3. QED
    BY <2>2
<1>4. ASSUME Record(q) PROVE Remembered(q)'
  BY <1>4 DEF Record, recordAffinity
<1>5. ASSUME Signal(q) PROVE Remembered(q)'
  BY <1>5 DEF Signal
<1>6. ASSUME Arrive(q) \/ AffineMiss(q) \/ GeneralMiss(q) PROVE Remembered(q)'
  BY <1>6 DEF Arrive, AffineMiss, GeneralMiss, Entry
<1>7. ASSUME Completing(q) \/ CommitShort(q) \/ CommitMeasured(q) \/ Fail(q)
      PROVE  Remembered(q)'
  BY <1>7 DEF Completing, CommitShort, CommitMeasured, Fail, Leave
<1>8. ASSUME NEW p \in Requests \ {q},
             Handler(p) \/ GeneralMiss(p) \/ Fail(p)
      PROVE  Remembered(q)'
  <2>1. KeyOf[p] # k
    BY DEF Alone
  <2>2. CASE Arrive(p) \/ Lookup(p) \/ AffineMiss(p) \/ GeneralMiss(p)
             \/ Signal(p) \/ Completing(p)
    BY <2>2 DEF Arrive, Lookup, AffineMiss, GeneralMiss, Signal, Completing
  <2>3. CASE AffineClaim(p)
    BY <2>1, <2>3 DEF AffineClaim, Take
  <2>4. ASSUME NEW r \in Replicas, GeneralClaim(p, r) PROVE Remembered(q)'
    BY <2>1, <2>4 DEF GeneralClaim, Take
  <2>5. CASE Record(p)
    BY <2>1, <2>5 DEF Record, recordAffinity
  <2>6. CASE CommitShort(p) \/ CommitMeasured(p) \/ Fail(p)
    BY <2>6 DEF CommitShort, CommitMeasured, Fail, Leave
  <2>7. QED
    BY <1>8, <2>2, <2>3, <2>4, <2>5, <2>6 DEF Handler
<1>9. ASSUME NEW r \in Replicas, Probed(r) \/ Removed(r) \/ ReadingAges(r)
      PROVE  Remembered(q)'
  BY <1>9 DEF Probed, Removed, ReadingAges
<1>10. ASSUME NEW j \in Keys, AffinityAges(j) PROVE Remembered(q)'
  BY <1>10 DEF AffinityAges
<1>11. CASE sweepAffinities
  BY <1>11 DEF sweepAffinities
<1>12. CASE Tick \/ PollSignal \/ PollDemand
  BY <1>12 DEF Tick, PollSignal, PollDemand
<1>13. CASE UNCHANGED vars
  BY <1>13 DEF vars
<1>14. CASE \E p \in Requests : Handler(p) \/ GeneralMiss(p) \/ Fail(p)
  BY <1>1, <1>2, <1>3, <1>4, <1>5, <1>6, <1>7, <1>8, <1>14 DEF Handler
<1>15. QED
  BY <1>9, <1>10, <1>11, <1>12, <1>13, <1>14 DEF Next

\* A turn that hits its affinity is placed where the turn before it was.
THEOREM HitsReturn == Spec => HitsAreReturns
<1> DEFINE Returns == \A q \in Requests :
              /\ pc[q] = "aimed" /\ slot'[q] # slot[q]
              /\ \A p \in Requests \ {q} : KeyOf[p] # KeyOf[q]
              => slot'[q] = last[KeyOf[q]]
<1>1. ASSUME TypeInv, AffinityInv, [Next]_vars PROVE Returns
  <2> SUFFICES ASSUME NEW q \in Requests,
                      pc[q] = "aimed", slot'[q] # slot[q],
                      \A p \in Requests \ {q} : KeyOf[p] # KeyOf[q]
               PROVE  slot'[q] = last[KeyOf[q]]
    OBVIOUS
  <2>1. target[q] = last[KeyOf[q]]
    BY <1>1 DEF TypeInv, Keyed, AffinityInv, Alone, Remembered
  <2> USE <1>1 DEF TypeInv, TypeOK, Goto, handler
  <2>2. ASSUME NEW p \in Requests, AffineClaim(p) PROVE slot'[q] = target[q]
    BY <2>2 DEF AffineClaim, Take
  <2>3. ASSUME NEW p \in Requests, NEW r \in Replicas, GeneralClaim(p, r) PROVE FALSE
    BY <2>3 DEF GeneralClaim, Take
  <2>4. ASSUME NEW p \in Requests, CommitShort(p) \/ CommitMeasured(p) \/ Fail(p)
        PROVE  FALSE
    BY <2>4 DEF CommitShort, CommitMeasured, Fail, Leave
  <2>5. ASSUME NEW p \in Requests,
               Arrive(p) \/ Lookup(p) \/ AffineMiss(p) \/ GeneralMiss(p)
               \/ Record(p) \/ Signal(p) \/ Completing(p)
        PROVE  FALSE
    BY <2>5 DEF Arrive, Lookup, AffineMiss, GeneralMiss, Record, Signal, Completing
  <2>6. ASSUME NEW r \in Replicas, Probed(r) \/ Removed(r) \/ ReadingAges(r)
        PROVE  FALSE
    BY <2>6 DEF Probed, Removed, ReadingAges
  <2>7. ASSUME NEW k \in Keys, AffinityAges(k) PROVE FALSE
    BY <2>7 DEF AffinityAges
  <2>8. ASSUME sweepAffinities \/ Tick \/ PollSignal \/ PollDemand \/ UNCHANGED vars PROVE FALSE
    BY <2>8 DEF sweepAffinities, Tick, PollSignal, PollDemand, vars
  <2>9. QED
    <3> HIDE DEF TypeInv
    <3>1. CASE \E p \in Requests : Handler(p) \/ GeneralMiss(p) \/ Fail(p)
      BY <2>1, <2>2, <2>3, <2>4, <2>5, <3>1 DEF Handler
    <3>2. QED
      BY <2>6, <2>7, <2>8, <3>1 DEF Next
<1>2. TypeInv /\ AffinityInv /\ [Next]_vars => [Returns]_vars
  BY <1>1
<1>3. Init => AffinityInv
  BY DEF Init, AffinityInv, Alone, Remembered
<1>4. QED
  BY <1>2, <1>3, InitType, NextType, NextRemembers, PTL DEF Spec, HitsAreReturns

----------------------------------------------------------------------------
(* Demand. *)

\* What KEDA is shown is a sum of two numbers.
LEMMA DemandIsCount ==
    TypeOK => Cardinality(Serving) \in Nat /\ Cardinality(Queued) \in Nat
<1> SUFFICES ASSUME TypeOK
             PROVE  Cardinality(Serving) \in Nat /\ Cardinality(Queued) \in Nat
  OBVIOUS
<1> DEFINE row(r) == {r} \X (1..inFlight[r])
           slots == [r \in present |-> row(r)]
           Rows == {row(r) : r \in present}
<1>1. IsFiniteSet(present)
  BY PlacementAssumption, FS_Subset DEF PlacementAssumption, TypeOK
<1>2. ASSUME NEW r \in present PROVE IsFiniteSet(slots[r])
  <2>1. inFlight[r] \in Int
    BY DEF TypeOK
  <2>2. IsFiniteSet({r})
    BY FS_Singleton
  <2>3. IsFiniteSet(1..inFlight[r])
    BY <2>1, FS_Interval
  <2>4. QED
    BY <2>2, <2>3, FS_Product
<1>3. IsFiniteSet(Rows)
  <2>1. slots \in [present -> Rows]
    <3>1. \A r \in present : row(r) \in Rows
      OBVIOUS
    <3> HIDE DEF Rows, row
    <3>2. QED
      BY <3>1
  <2>2. ASSUME NEW T \in Rows PROVE \E r \in present : slots[r] = T
    OBVIOUS
  <2> HIDE DEF slots, Rows, row
  <2>3. slots \in Surjection(present, Rows)
    BY <2>1, <2>2 DEF Surjection
  <2>4. QED
    BY <1>1, <2>3, FS_Surjection
<1>4. IsFiniteSet(Serving)
  <2>1. \A S \in Rows : IsFiniteSet(S)
    BY <1>2
  <2> HIDE DEF Rows
  <2>2. IsFiniteSet(UNION Rows)
    BY <1>3, <2>1, FS_UNION
  <2>3. QED
    BY <2>2 DEF Serving, Rows
<1>5. IsFiniteSet(Queued)
  BY PlacementAssumption, FS_Subset DEF PlacementAssumption, Queued
<1>6. QED
  BY <1>4, <1>5, FS_CardinalityType

\* Until a poll begins, a signal that has been given or refused is no older
\* than the debounce let it be at the time, plus the time since the last poll
\* began; and one that began with such a signal has found it.
SeenInv ==
    /\ unseen = TRUE => signalAge <= Debounce + pollAge
    /\ PollsOften /\ owed = TRUE => poll = "wanted"

\* Only signals, time and polls can disturb it, and they do not.
LEMMA NextSeen == TypeInv /\ SeenInv /\ [Next]_vars => SeenInv'
<1> SUFFICES ASSUME TypeInv, SeenInv, [Next]_vars PROVE SeenInv'
  OBVIOUS
<1> USE DEF scaling
<1>0. /\ signalAge \in Nat /\ pollAge \in 0..PollEvery
      /\ Debounce \in Nat /\ Window \in Nat /\ PollEvery \in Nat
  BY PlacementAssumption DEF PlacementAssumption, TypeInv, TypeOK
<1>1. CASE UNCHANGED scaling
  BY <1>1 DEF SeenInv, PollsOften
<1>2. ASSUME NEW q \in Requests, Signal(q) PROVE SeenInv'
  <2>1. signalAge' <= Debounce + pollAge'
    BY <1>0, <1>2 DEF Signal, requestScaleUp
  <2>2. UNCHANGED <<owed, poll>>
    BY <1>2 DEF Signal
  <2>3. QED
    BY <2>1, <2>2 DEF SeenInv, PollsOften
<1>3. CASE Tick
  <2>1. UNCHANGED <<unseen, owed, poll>> /\ pollAge' = pollAge + 1
    BY <1>3 DEF Tick
  <2>2. signalAge' <= signalAge + 1 /\ signalAge' \in Nat
    BY <1>0, <1>3, PlacementAssumption DEF Tick, TypeInv, TypeOK, PlacementAssumption
  <2>3. signalAge <= Debounce + pollAge => signalAge' <= Debounce + pollAge'
    BY <1>0, <2>1, <2>2
  <2>4. QED
    BY <2>1, <2>3 DEF SeenInv, PollsOften
<1>4. CASE PollSignal
  <2>1. unseen' = FALSE /\ owed' = unseen
    BY <1>4 DEF PollSignal
  <2>2. ASSUME PollsOften, unseen = TRUE PROVE poll' = "wanted"
    <3>1. signalAge < Window
      BY <1>0, <2>2 DEF SeenInv, PollsOften
    <3>2. QED
      BY <1>4, <3>1 DEF PollSignal, wantsScaleUp
  <2>3. QED
    BY <2>1, <2>2 DEF SeenInv, PollsOften
<1>5. CASE PollDemand
  <2>1. owed' = FALSE /\ UNCHANGED <<unseen, signalAge, pollAge>>
    BY <1>5 DEF PollDemand
  <2>2. QED
    BY <2>1 DEF SeenInv
<1>6. ASSUME NEW q \in Requests,
             Arrive(q) \/ Lookup(q) \/ AffineMiss(q) \/ GeneralMiss(q) \/ Record(q)
             \/ Completing(q) \/ CommitShort(q) \/ CommitMeasured(q) \/ Fail(q)
      PROVE  UNCHANGED scaling
  BY <1>6 DEF Arrive, Lookup, AffineMiss, GeneralMiss, Record, Completing,
              CommitShort, CommitMeasured, Fail, Leave
<1>7. ASSUME NEW q \in Requests,
             AffineClaim(q) \/ \E r \in Replicas : GeneralClaim(q, r)
      PROVE  UNCHANGED scaling
  BY <1>7 DEF AffineClaim, GeneralClaim, Take
<1>8. ASSUME NEW r \in Replicas, Probed(r) \/ Removed(r) \/ ReadingAges(r)
      PROVE  UNCHANGED scaling
  BY <1>8 DEF Probed, Removed, ReadingAges
<1>9. ASSUME NEW k \in Keys, AffinityAges(k) PROVE UNCHANGED scaling
  BY <1>9 DEF AffinityAges
<1>10. ASSUME sweepAffinities \/ UNCHANGED vars PROVE UNCHANGED scaling
  BY <1>10 DEF sweepAffinities, vars
<1>11. QED
  BY <1>1, <1>2, <1>3, <1>4, <1>5, <1>6, <1>7, <1>8, <1>9, <1>10 DEF Next, Handler

\* What is owed to KEDA at the end of a poll is shown to it.
LEMMA DemandIsShown ==
    ASSUME TypeOK, SeenInv, PollsOften, owed \/ \E q \in Requests : Asking(q)
    PROVE  pending_requests > 0
<1>1. Cardinality(Serving) \in Nat /\ Cardinality(Queued) \in Nat
  BY DemandIsCount
<1>2. CASE owed
  <2>1. poll = "wanted"
    BY <1>2 DEF SeenInv
  <2>2. QED
    BY <1>1, <2>1 DEF pending_requests, Demand
<1>3. CASE \E q \in Requests : Asking(q)
  <2>1. Queued # {}
    BY <1>3 DEF Asking, Queued
  <2>2. IsFiniteSet(Queued)
    BY PlacementAssumption, FS_Subset DEF PlacementAssumption, Queued
  <2>3. Cardinality(Queued) # 0
    BY <2>1, <2>2, FS_EmptySet
  <2>4. QED
    BY <1>1, <2>3 DEF pending_requests, Demand
<1>4. QED
  BY <1>2, <1>3

\* After a request to an idle replica KEDA is shown demand.
THEOREM FirstRequestsSeen == Spec => FirstRequestsAreSeen
<1> DEFINE Shown ==
       /\ PollsOften
       /\ poll # "none" /\ poll' = "none"
       /\ owed \/ \E q \in Requests : Asking(q)
       => pending_requests > 0
<1>1. TypeInv /\ SeenInv => [Shown]_vars
  BY DemandIsShown DEF TypeInv
<1>2. Init => SeenInv
  BY DEF Init, SeenInv
<1>3. QED
  BY <1>1, <1>2, InitType, NextType, NextSeen, PTL DEF Spec, FirstRequestsAreSeen

----------------------------------------------------------------------------
(* Slots. *)

\* A handler has a slot from its claim to the end of its answer, and a replica
\* that is there counts those that are on it.
SlotInv ==
    /\ \A q \in Requests : slot[q] = NoReplica <=> pc[q] \in {"idle", "lookup", "aimed", "general"}
    /\ \A r \in present : inFlight[r] = Cardinality(Held(r))

\* What a step does to the slots: nothing, a claim with room, a return, or the
\* replica goes away with its count.
SlotsStay == UNCHANGED <<slot, present, inFlight>>

SlotTaken(q, r) ==
    /\ r \in present /\ inFlight[r] < MaxConcurrency[r] /\ slot[q] = NoReplica
    /\ slot' = [slot EXCEPT ![q] = r]
    /\ inFlight' = [inFlight EXCEPT ![r] = @ + 1]
    /\ UNCHANGED present

SlotGiven(q, r) ==
    /\ slot[q] = r
    /\ slot' = [slot EXCEPT ![q] = NoReplica]
    /\ inFlight' = [s \in Replicas |->
                       IF s = r /\ inFlight[s] > 0 THEN inFlight[s] - 1 ELSE inFlight[s]]
    /\ UNCHANGED present

SlotsGone(r) ==
    /\ UNCHANGED slot
    /\ present' = present \ {r}
    /\ inFlight' = [inFlight EXCEPT ![r] = 0]

\* Every step is one of the four, and a handler is where its slot says it is.
LEMMA SlotStep ==
    ASSUME TypeInv, SlotInv, [Next]_vars
    PROVE  /\ \/ SlotsStay
              \/ \E q \in Requests, r \in Replicas : SlotTaken(q, r)
              \/ \E q \in Requests, r \in Replicas : SlotGiven(q, r)
              \/ \E r \in Replicas : SlotsGone(r)
           /\ \A q \in Requests :
                 slot'[q] = NoReplica <=> pc'[q] \in {"idle", "lookup", "aimed", "general"}
<1> DEFINE Effect == \/ SlotsStay
                     \/ \E q \in Requests, r \in Replicas : SlotTaken(q, r)
                     \/ \E q \in Requests, r \in Replicas : SlotGiven(q, r)
                     \/ \E r \in Replicas : SlotsGone(r)
           Placed == \A q \in Requests :
                        slot'[q] = NoReplica <=> pc'[q] \in {"idle", "lookup", "aimed", "general"}
<1> USE DEF TypeInv
<1>0. /\ pc \in [Requests -> Pcs] /\ slot \in [Requests -> Replicas \cup {NoReplica}]
      /\ NoReplica \notin Replicas /\ ready \subseteq present /\ present \subseteq Replicas
      /\ \A q \in Requests : slot[q] = NoReplica <=> pc[q] \in {"idle", "lookup", "aimed", "general"}
  BY PlacementAssumption DEF PlacementAssumption, TypeOK, SlotInv
<1>1. ASSUME NEW q \in Requests,
             Arrive(q) \/ Lookup(q) \/ AffineMiss(q) \/ GeneralMiss(q)
             \/ Record(q) \/ Signal(q) \/ Completing(q)
      PROVE  Effect /\ Placed
  <2>1. SlotsStay
    BY <1>1 DEF Arrive, Lookup, AffineMiss, GeneralMiss, Record, Signal, Completing, SlotsStay, fleet
  <2>2. \E from, to \in Pcs :
            /\ pc[q] = from /\ pc' = [pc EXCEPT ![q] = to]
            /\ from \in {"idle", "lookup", "aimed", "general"} <=> to \in {"idle", "lookup", "aimed", "general"}
    <3>1. CASE Arrive(q) \/ Lookup(q) \/ AffineMiss(q) \/ GeneralMiss(q)
      BY <3>1 DEF Arrive, Lookup, AffineMiss, GeneralMiss, Goto, Entry, Pcs
    <3>2. CASE Record(q) \/ Signal(q) \/ Completing(q)
      BY <3>2 DEF Record, Signal, Completing, Goto, Pcs
    <3>3. QED
      BY <1>1, <3>1, <3>2
  <2>3. Placed
    BY <1>0, <2>1, <2>2 DEF SlotsStay
  <2>4. QED
    BY <2>1, <2>3
<1>2. ASSUME NEW q \in Requests, NEW r, (AffineClaim(q) /\ r = target[q]) \/ GeneralClaim(q, r)
      PROVE  Effect /\ Placed
  <2>1. /\ HasRoom(r) /\ Take(q, r) /\ pc[q] \in {"aimed", "general"}
        /\ \E to \in {"hitSignal", "hitRecord", "record", "signal", "placed"} : pc' = [pc EXCEPT ![q] = to]
    BY <1>2 DEF AffineClaim, GeneralClaim, Goto
  <2>2. r \in Replicas /\ SlotTaken(q, r)
    BY <1>0, <2>1 DEF HasRoom, Take, SlotTaken, fleet
  <2>3. Placed
    BY <1>0, <2>1, <2>2 DEF SlotTaken
  <2>4. QED
    BY <2>2, <2>3
<1>3. ASSUME NEW q \in Requests, CommitShort(q) \/ CommitMeasured(q) \/ Fail(q)
      PROVE  Effect /\ Placed
  <2>1. /\ pc[q] \in {"placed", "committing"} /\ pc' = [pc EXCEPT ![q] = "idle"]
        /\ slot' = [slot EXCEPT ![q] = NoReplica]
        /\ inFlight' = [r \in Replicas |-> IF r = slot[q] /\ inFlight[r] > 0 THEN inFlight[r] - 1
                                                                          ELSE inFlight[r]]
        /\ UNCHANGED present
    BY <1>3 DEF CommitShort, CommitMeasured, Fail, Leave, Goto, fleet
  <2>2. PICK r \in Replicas : r = slot[q]
    BY <1>0, <2>1
  <2>3. SlotGiven(q, r)
    BY <2>1, <2>2 DEF SlotGiven
  <2>4. Placed
    BY <1>0, <2>1
  <2>5. QED
    BY <2>3, <2>4
<1>4. ASSUME NEW r \in Replicas, Removed(r) PROVE Effect /\ Placed
  BY <1>0, <1>4 DEF Removed, SlotsGone, handler
<1>5. ASSUME UNCHANGED <<pc, slot, present, inFlight>> PROVE Effect /\ Placed
  BY <1>0, <1>5 DEF SlotsStay
<1>6. ASSUME NEW r \in Replicas, Probed(r) \/ ReadingAges(r)
      PROVE  UNCHANGED <<pc, slot, present, inFlight>>
  BY <1>6 DEF Probed, ReadingAges, handler, fleet
<1>7. ASSUME NEW k \in Keys, AffinityAges(k) PROVE UNCHANGED <<pc, slot, present, inFlight>>
  BY <1>7 DEF AffinityAges, handler, fleet
<1>8. ASSUME sweepAffinities \/ Tick \/ PollSignal \/ PollDemand \/ UNCHANGED vars
      PROVE  UNCHANGED <<pc, slot, present, inFlight>>
  BY <1>8 DEF sweepAffinities, Tick, PollSignal, PollDemand, vars, handler, fleet
<1> HIDE DEF Effect, Placed
<1>9. Effect /\ Placed
  BY <1>1, <1>2, <1>3, <1>4, <1>5, <1>6, <1>7, <1>8 DEF Next, Handler
<1>10. QED
  BY <1>9 DEF Effect, Placed

\* A claim adds one to those on the replica, and touches no other.
LEMMA HeldTaken ==
    ASSUME TypeOK, NEW q \in Requests, NEW r \in Replicas, SlotTaken(q, r)
    PROVE  /\ q \notin Held(r) /\ Held(r)' = Held(r) \cup {q}
           /\ \A s \in Replicas \ {r} : Held(s)' = Held(s)
           /\ Cardinality(Held(r)') = Cardinality(Held(r)) + 1
<1>0. slot \in [Requests -> Replicas \cup {NoReplica}] /\ NoReplica \notin Replicas
  BY PlacementAssumption DEF PlacementAssumption, TypeOK
<1>1. /\ q \notin Held(r) /\ Held(r)' = Held(r) \cup {q}
      /\ \A s \in Replicas \ {r} : Held(s)' = Held(s)
  BY <1>0 DEF SlotTaken, Held
<1>2. IsFiniteSet(Held(r))
  BY PlacementAssumption, FS_Subset DEF PlacementAssumption, Held
<1>3. QED
  BY <1>1, <1>2, FS_AddElement

\* A return takes one away, and touches no other.
LEMMA HeldGiven ==
    ASSUME TypeOK, NEW q \in Requests, NEW r \in Replicas, SlotGiven(q, r)
    PROVE  /\ q \in Held(r) /\ Held(r)' = Held(r) \ {q}
           /\ \A s \in Replicas \ {r} : Held(s)' = Held(s)
           /\ Cardinality(Held(r)') = Cardinality(Held(r)) - 1
           /\ Cardinality(Held(r)) \in Nat /\ Cardinality(Held(r)) > 0
<1>0. slot \in [Requests -> Replicas \cup {NoReplica}] /\ NoReplica \notin Replicas
  BY PlacementAssumption DEF PlacementAssumption, TypeOK
<1>1. /\ q \in Held(r) /\ Held(r)' = Held(r) \ {q}
      /\ \A s \in Replicas \ {r} : Held(s)' = Held(s)
  BY <1>0 DEF SlotGiven, Held
<1>2. IsFiniteSet(Held(r))
  BY PlacementAssumption, FS_Subset DEF PlacementAssumption, Held
<1>3. /\ Cardinality(Held(r)') = Cardinality(Held(r)) - 1
      /\ Cardinality(Held(r)) \in Nat /\ Cardinality(Held(r)) # 0
  BY <1>1, <1>2, FS_RemoveElement, FS_CardinalityType, FS_EmptySet
<1>4. QED
  BY <1>1, <1>3

LEMMA NextSlots == TypeInv /\ SlotInv /\ [Next]_vars => SlotInv'
<1> SUFFICES ASSUME TypeInv, SlotInv, [Next]_vars PROVE SlotInv'
  OBVIOUS
<1> USE DEF TypeInv
<1>0. /\ inFlight \in [Replicas -> Nat] /\ present \subseteq Replicas
      /\ \A s \in present : inFlight[s] = Cardinality(Held(s))
  BY DEF TypeOK, SlotInv
<1>1. \A s \in present' : inFlight'[s] = Cardinality(Held(s)')
  <2>1. CASE SlotsStay
    BY <1>0, <2>1 DEF SlotsStay, Held
  <2>2. ASSUME NEW q \in Requests, NEW r \in Replicas, SlotTaken(q, r), NEW s \in present'
        PROVE  inFlight'[s] = Cardinality(Held(s)')
    <3>1. CASE s = r
      BY <1>0, <2>2, <3>1, HeldTaken DEF SlotTaken
    <3>2. CASE s # r
      BY <1>0, <2>2, <3>2, HeldTaken DEF SlotTaken
    <3>3. QED
      BY <3>1, <3>2
  <2>3. ASSUME NEW q \in Requests, NEW r \in Replicas, SlotGiven(q, r), NEW s \in present'
        PROVE  inFlight'[s] = Cardinality(Held(s)')
    <3>1. CASE s = r
      BY <1>0, <2>3, <3>1, HeldGiven DEF SlotGiven
    <3>2. CASE s # r
      BY <1>0, <2>3, <3>2, HeldGiven DEF SlotGiven
    <3>3. QED
      BY <3>1, <3>2
  <2>4. ASSUME NEW r \in Replicas, SlotsGone(r), NEW s \in present'
        PROVE  inFlight'[s] = Cardinality(Held(s)')
    BY <1>0, <2>4 DEF SlotsGone, Held
  <2>5. QED
    BY <2>1, <2>2, <2>3, <2>4, SlotStep
<1>2. QED
  BY <1>1, SlotStep DEF SlotInv

\* The choice by affinity, load and throughput implements the ledger: a step is a
\* claim below the ceiling of a replica that is there, a return of a slot, or
\* touches none; and of a replica that is gone the slots are returned as they end.
THEOREM PlacementImplementsLedger == Spec => SlotsKeptAsPromised
<1> DEFINE holders == [r \in Replicas |-> Held(r)]
           load == [r \in Replicas |-> IF r \in present THEN inFlight[r] ELSE Cardinality(Held(r))]
<1>1. Init => TypeInv /\ SlotInv /\ Ledger!LedgerInit
  <2> SUFFICES ASSUME Init PROVE TypeInv /\ SlotInv /\ Ledger!LedgerInit
    OBVIOUS
  <2>1. \A r \in Replicas : Held(r) = {}
    BY PlacementAssumption DEF PlacementAssumption, Init, Held
  <2>2. Cardinality({}) = 0
    BY FS_EmptySet
  <2>3. SlotInv
    BY <2>1, <2>2 DEF Init, SlotInv
  <2>4. Ledger!LedgerInit
    BY <2>1 DEF Init, Ledger!LedgerInit
  <2>5. QED
    BY <2>3, <2>4, InitType
<1>2. TypeInv /\ SlotInv /\ [Next]_vars => [Ledger!LedgerNext]_(Ledger!ledgerVars)
  <2> SUFFICES ASSUME TypeInv, SlotInv, [Next]_vars
               PROVE  Ledger!LedgerNext \/ UNCHANGED Ledger!ledgerVars
    BY DEF Ledger!ledgerVars
  <2>0. /\ inFlight \in [Replicas -> Nat] /\ present \subseteq Replicas /\ TypeOK
        /\ \A s \in present : inFlight[s] = Cardinality(Held(s))
    BY DEF TypeInv, TypeOK, SlotInv
  <2>1. CASE SlotsStay
    <3>1. holders' = holders /\ load' = load
      BY <2>1 DEF SlotsStay, Held
    <3>2. QED
      BY <3>1 DEF Ledger!ledgerVars
  <2>2. ASSUME NEW q \in Requests, NEW r \in Replicas, SlotTaken(q, r)
        PROVE  Ledger!Claim(q, r)
    <3>1. \A s \in Replicas : q \notin holders[s]
      BY <2>2, PlacementAssumption DEF PlacementAssumption, SlotTaken, Held
    <3>2. Cardinality(holders[r]) < MaxConcurrency[r]
      BY <2>0, <2>2 DEF SlotTaken
    <3>3. holders' = [holders EXCEPT ![r] = @ \cup {q}]
      BY <2>0, <2>2, HeldTaken
    <3>4. load' = [load EXCEPT ![r] = @ + 1]
      BY <2>0, <2>2, HeldTaken DEF SlotTaken
    <3>5. QED
      BY <3>1, <3>2, <3>3, <3>4 DEF Ledger!Claim, Ledger!Cardinality, Cardinality
  <2>3. ASSUME NEW q \in Requests, NEW r \in Replicas, SlotGiven(q, r)
        PROVE  Ledger!Return(q, r)
    <3>1. q \in holders[r]
      BY <2>0, <2>3, HeldGiven
    <3>2. holders' = [holders EXCEPT ![r] = @ \ {q}]
      BY <2>0, <2>3, HeldGiven
    <3>3. load' = [load EXCEPT ![r] = @ - 1]
      <4>1. present' = present
        BY <2>3 DEF SlotGiven
      <4>2. \A s \in Replicas \ {r} : load'[s] = load[s]
        BY <2>0, <2>3, <4>1, HeldGiven DEF SlotGiven
      <4>3. load'[r] = load[r] - 1
        <5>1. CASE r \in present
          <6>1. inFlight[r] > 0
            BY <2>0, <2>3, <5>1, HeldGiven
          <6>2. inFlight'[r] = inFlight[r] - 1
            BY <2>3, <6>1 DEF SlotGiven
          <6>3. QED
            BY <4>1, <5>1, <6>2
        <5>2. CASE r \notin present
          BY <2>0, <2>3, <4>1, <5>2, HeldGiven
        <5>3. QED
          BY <5>1, <5>2
      <4>4. DOMAIN load = Replicas /\ load' = [s \in Replicas |-> load'[s]]
        OBVIOUS
      <4> HIDE DEF load
      <4>5. load = [s \in Replicas |-> load[s]]
        BY DEF load
      <4>6. QED
        BY <4>2, <4>3, <4>4, <4>5
    <3>4. QED
      BY <3>1, <3>2, <3>3 DEF Ledger!Return
  <2>4. ASSUME NEW r \in Replicas, SlotsGone(r)
        PROVE  UNCHANGED Ledger!ledgerVars
    <3>1. holders' = holders
      BY <2>4 DEF SlotsGone, Held
    <3>2. load' = load
      BY <2>0, <2>4 DEF SlotsGone, Held
    <3>3. QED
      BY <3>1, <3>2 DEF Ledger!ledgerVars
  <2>5. QED
    BY <2>1, <2>2, <2>3, <2>4, SlotStep DEF Ledger!LedgerNext
<1>3. QED
  BY <1>1, <1>2, NextType, NextSlots, PTL DEF Spec, SlotsKeptAsPromised, Ledger!LedgerSpec

=============================================================================
