----------------------- MODULE RequestLifecycleProofs -----------------------
(***************************************************************************)
(* Theorems about RequestLifecycle, for any number of requests, replicas   *)
(* and routers, any ceilings, and any set of faults.                       *)
(***************************************************************************)
EXTENDS RequestLifecycle, FiniteSetTheorems, TLAPS

\* GREATEST(0, in_flight - 1) keeps in_flight a natural number.
LEMMA ReturnSlotType ==
    ASSUME inFlight \in [Replicas -> Nat], NEW r, ReturnSlot(r)
    PROVE  /\ inFlight' \in [Replicas -> Nat]
           /\ \A s \in Replicas : inFlight'[s] <= inFlight[s]
<1>1. \A s \in Replicas : inFlight'[s] = IF s = r /\ inFlight[s] > 0
                                         THEN inFlight[s] - 1 ELSE inFlight[s]
  BY DEF ReturnSlot
<1>2. inFlight' = [s \in Replicas |-> inFlight'[s]]
  BY DEF ReturnSlot
<1>3. QED
  BY <1>1, <1>2

\* Every variable keeps its type, and in_flight never goes below 0, whatever
\* handlers, sweeps, probes and crashes do and whatever fails.
THEOREM TypeCorrect == Spec => []TypeOK
<1>1. Init => TypeOK
  BY LifecycleAssumption
  DEF Init, TypeOK, Live, Ended, Statuses
<1>2. TypeOK /\ [Next]_vars => TypeOK'
  <2> SUFFICES ASSUME TypeOK, [Next]_vars
               PROVE  TypeOK'
    OBVIOUS
  <2> USE LifecycleAssumption DEF TypeOK, Live, Ended, Statuses
  <2>1. ASSUME NEW q \in Requests, Arrive(q)
        PROVE  TypeOK'
    BY <2>1 DEF Arrive, Goto, enqueueRequest, fleet
  <2>2. ASSUME NEW q \in Requests, NEW r \in Replicas, Claim(q, r)
        PROVE  TypeOK'
    BY <2>2 DEF Claim, Goto, TakeSlot, HasRoom, rows
  <2>3. ASSUME NEW q \in Requests, GiveUp(q)
        PROVE  TypeOK'
    BY <2>3 DEF GiveUp, End, Goto, expireQueuedRequest, fleet
  <2>4. ASSUME NEW q \in Requests, StreamStarted(q)
        PROVE  TypeOK'
    BY <2>4 DEF StreamStarted, Goto, markStreamStarted, fleet
  <2>5. ASSUME NEW q \in Requests, OpenStream(q)
        PROVE  TypeOK'
    BY <2>5 DEF OpenStream, Goto, rows, fleet
  <2>6. ASSUME NEW q \in Requests, Token(q)
        PROVE  TypeOK'
    BY <2>6 DEF Token, recordTokenEmitted, handler, fleet
  <2>7. ASSUME NEW q \in Requests, AnswerEnds(q)
        PROVE  TypeOK'
    BY <2>7 DEF AnswerEnds, Goto, rows, fleet
  <2>8. ASSUME NEW q \in Requests, Complete(q)
        PROVE  TypeOK'
    <3>1. /\ pc' \in [Requests -> Live \cup Ended \cup {"idle"}]
          /\ slot' \in [Requests -> Replicas \cup {NoReplica}]
          /\ overtime' \in [Requests -> BOOLEAN]
      BY <2>8 DEF Complete, End, Goto
    <3>2. inFlight' \in [Replicas -> Nat]
      BY <2>8, ReturnSlotType DEF Complete, completeRequest
    <3>3. QED
      BY <2>8, <3>1, <3>2 DEF Complete, completeRequest
  <2>9. ASSUME NEW q \in Requests, Audit(q)
        PROVE  TypeOK'
    BY <2>9 DEF Audit, End, Goto, rows, fleet
  <2>10. ASSUME NEW q \in Requests, Fail(q)
         PROVE  TypeOK'
    BY <2>10 DEF Fail, Goto, fleet
  <2>11. ASSUME NEW q \in Requests, Release(q)
         PROVE  TypeOK'
    <3>1. inFlight' \in [Replicas -> Nat]
      BY <2>11, ReturnSlotType DEF Release
    <3>2. QED
      BY <2>11, <3>1 DEF Release, End, Goto, rows
  <2>12. ASSUME NEW q \in Requests, HandlerFault(q)
         PROVE  TypeOK'
    BY <2>12 DEF HandlerFault, QueryFails, StartFails, AnswerBreaks, SettleFails,
                 AuditFails, ReleaseFails, End, Goto, rows, fleet
  <2>13. ASSUME NEW q \in Requests, DeadlinePasses(q) \/ RowAges(q)
         PROVE  TypeOK'
    BY <2>13 DEF DeadlinePasses, RowAges, handler, rows, fleet
  <2>14. CASE Sweeps
    BY <2>14 DEF Sweeps, sweepQueueTimeouts, sweepStallTimeouts,
                 sweepFirstTokenTimeouts, Sweep, handler, fleet
  <2>15. ASSUME NEW r \in Replicas, Probed(r)
         PROVE  TypeOK'
    BY <2>15 DEF Probed, handler, rows
  <2>16. ASSUME NEW rt \in Routers, Crash(rt)
         PROVE  TypeOK'
    BY <2>16 DEF Crash, rows, fleet
  <2>17. CASE RemoveModel
    BY <2>17 DEF RemoveModel, handler, rows
  <2>18. CASE UNCHANGED vars
    BY <2>18 DEF vars, handler, rows, fleet
  <2>19. QED
    BY <2>1, <2>2, <2>3, <2>4, <2>5, <2>6, <2>7, <2>8, <2>9, <2>10, <2>11,
       <2>12, <2>13, <2>14, <2>15, <2>16, <2>17, <2>18 DEF Next, Handler
<1>3. QED
  BY <1>1, <1>2, PTL DEF Spec

----------------------------------------------------------------------------
(* Slots.                                                                  *)

\* A handler that holds a slot knows which, and from markStreamStarted on so
\* does its row: the slot completeRequest returns is the one that was claimed.
SlotKnown ==
    /\ \A q \in Requests : pc[q] \in HoldingAt \cup {"auditing"} => slot[q] \in Replicas
    /\ \A q \in Requests : pc[q] \in {"started", "streaming", "settling"} =>
           replicaId[q] = slot[q]

\* It is an invariant: only StreamStarted writes replica_id, from the handler's
\* own placement.
LEMMA SlotKnownInvariant == Spec => []SlotKnown
<1>1. Init => SlotKnown
  BY DEF Init, SlotKnown, HoldingAt
<1>2. TypeOK /\ SlotKnown /\ [Next]_vars => SlotKnown'
  <2> SUFFICES ASSUME TypeOK, SlotKnown, [Next]_vars
               PROVE  SlotKnown'
    OBVIOUS
  <2> USE LifecycleAssumption DEF TypeOK, SlotKnown, HoldingAt
  <2>1. ASSUME NEW q \in Requests, Arrive(q)
        PROVE  SlotKnown'
    BY <2>1 DEF Arrive, Goto, enqueueRequest
  <2>2. ASSUME NEW q \in Requests, NEW r \in Replicas, Claim(q, r)
        PROVE  SlotKnown'
    BY <2>2 DEF Claim, Goto, rows
  <2>3. ASSUME NEW q \in Requests, GiveUp(q)
        PROVE  SlotKnown'
    BY <2>3 DEF GiveUp, End, Goto, expireQueuedRequest
  <2>4. ASSUME NEW q \in Requests, StreamStarted(q)
        PROVE  SlotKnown'
    BY <2>4 DEF StreamStarted, Goto, markStreamStarted
  <2>5. ASSUME NEW q \in Requests, OpenStream(q) \/ AnswerEnds(q)
        PROVE  SlotKnown'
    BY <2>5 DEF OpenStream, AnswerEnds, Goto, rows
  <2>6. ASSUME NEW q \in Requests, Token(q)
        PROVE  SlotKnown'
    BY <2>6 DEF Token, recordTokenEmitted, handler
  <2>7. ASSUME NEW q \in Requests, Complete(q)
        PROVE  SlotKnown'
    BY <2>7 DEF Complete, End, Goto, completeRequest
  <2>8. ASSUME NEW q \in Requests, Audit(q) \/ Release(q)
        PROVE  SlotKnown'
    BY <2>8 DEF Audit, Release, End, Goto, rows
  <2>9. ASSUME NEW q \in Requests, Fail(q)
        PROVE  SlotKnown'
    BY <2>9 DEF Fail, Goto
  <2>10. ASSUME NEW q \in Requests, HandlerFault(q)
         PROVE  SlotKnown'
    BY <2>10 DEF HandlerFault, QueryFails, StartFails, AnswerBreaks, SettleFails,
                 AuditFails, ReleaseFails, End, Goto, rows
  <2>11. ASSUME NEW q \in Requests, DeadlinePasses(q) \/ RowAges(q)
         PROVE  SlotKnown'
    BY <2>11 DEF DeadlinePasses, RowAges, handler, rows
  <2>12. CASE Sweeps
    BY <2>12 DEF Sweeps, sweepQueueTimeouts, sweepStallTimeouts,
                 sweepFirstTokenTimeouts, Sweep, handler
  <2>13. ASSUME NEW r \in Replicas, Probed(r)
         PROVE  SlotKnown'
    BY <2>13 DEF Probed, handler, rows
  <2>14. ASSUME NEW rt \in Routers, Crash(rt)
         PROVE  SlotKnown'
    BY <2>14 DEF Crash, rows
  <2>15. CASE RemoveModel
    BY <2>15 DEF RemoveModel, handler, rows
  <2>16. CASE UNCHANGED vars
    BY <2>16 DEF vars, handler, rows
  <2>17. QED
    BY <2>1, <2>2, <2>3, <2>4, <2>5, <2>6, <2>7, <2>8, <2>9, <2>10, <2>11,
       <2>12, <2>13, <2>14, <2>15, <2>16 DEF Next, Handler
<1>3. QED
  BY <1>1, <1>2, TypeCorrect, PTL DEF Spec

(***************************************************************************)
(* What a step can do to the slots: one handler takes one with room, one   *)
(* gives back the one it holds, some handlers are gone without giving back *)
(* theirs, the model is removed and the replicas with it, or neither the   *)
(* holders nor in_flight change.                                           *)
(***************************************************************************)
HoldersKept == \A s \in Replicas : Holding(s)' = Holding(s)

Takes(q, r) ==
    /\ q \in Requests /\ r \in Replicas
    /\ \A s \in Replicas : q \notin Holding(s)
    /\ \A s \in Replicas : Holding(s)' = IF s = r THEN Holding(s) \cup {q} ELSE Holding(s)
    /\ TakeSlot(r)

Gives(q, r) ==
    /\ q \in Requests /\ r \in Replicas
    /\ q \in Holding(r)
    /\ \A s \in Replicas : Holding(s)' = IF s = r THEN Holding(s) \ {q} ELSE Holding(s)
    /\ ReturnSlot(r)

Loses == /\ \A s \in Replicas : Holding(s)' \subseteq Holding(s)
         /\ inFlight' = inFlight

Removes == HoldersKept /\ registered' = FALSE

Keeps == HoldersKept /\ inFlight' = inFlight

\* The streaming handler, whose audit write shares the try block that gives
\* the slot back, is not used while audit writes may fail.
NoDoubleRelease == \A q \in Requests : "audit" \in Faults => Kind[q] # "stream"

\* Every step of the lifecycle has one of these effects, and in a run whose
\* faults are lossless none of them loses a slot.
LEMMA StepEffect ==
    ASSUME TypeOK, SlotKnown, NoDoubleRelease, [Next]_vars
    PROVE  \/ Keeps
           \/ (Loses \/ Removes) /\ ~Lossless
           \/ \E q \in Requests, r \in Replicas : Takes(q, r) \/ Gives(q, r)
<1> USE LifecycleAssumption DEF TypeOK, SlotKnown, Holding, HoldingAt
<1>1. ASSUME NEW q \in Requests, Arrive(q) \/ OpenStream(q) \/ AnswerEnds(q)
      PROVE  Keeps
  BY <1>1 DEF Arrive, OpenStream, AnswerEnds, Goto, fleet, Keeps, HoldersKept
<1>2. ASSUME NEW q \in Requests, NEW r \in Replicas, Claim(q, r)
      PROVE  Takes(q, r)
  BY <1>2 DEF Claim, Goto, Takes
<1>3. ASSUME NEW q \in Requests, GiveUp(q) \/ Audit(q)
      PROVE  Keeps
  BY <1>3 DEF GiveUp, Audit, End, Goto, fleet, Keeps, HoldersKept
<1>4. ASSUME NEW q \in Requests, StreamStarted(q) \/ Fail(q)
      PROVE  Keeps
  BY <1>4 DEF StreamStarted, Fail, Goto, fleet, Keeps, HoldersKept
<1>5. ASSUME NEW q \in Requests, Token(q) \/ DeadlinePasses(q) \/ RowAges(q)
      PROVE  Keeps
  BY <1>5 DEF Token, DeadlinePasses, RowAges, handler, fleet, Keeps, HoldersKept
<1>6. ASSUME NEW q \in Requests, Complete(q)
      PROVE  \E r \in Replicas : Gives(q, r)
  <2>1. /\ pc[q] = "settling" /\ slot[q] \in Replicas /\ replicaId[q] = slot[q]
        /\ ReturnSlot(slot[q])
    BY <1>6 DEF Complete, End, Goto, completeRequest
  <2>2. \A s \in Replicas :
            Holding(s)' = IF s = slot[q] THEN Holding(s) \ {q} ELSE Holding(s)
    BY <1>6 DEF Complete, End, Goto
  <2>3. QED
    BY <2>1, <2>2 DEF Gives
<1>7. ASSUME NEW q \in Requests, Release(q)
      PROVE  \E r \in Replicas : Gives(q, r)
  <2>1. pc[q] = "releasing" /\ slot[q] \in Replicas /\ ReturnSlot(slot[q])
    BY <1>7 DEF Release, End, Goto
  <2>2. \A s \in Replicas :
            Holding(s)' = IF s = slot[q] THEN Holding(s) \ {q} ELSE Holding(s)
    BY <1>7 DEF Release, End, Goto
  <2>3. QED
    BY <2>1, <2>2 DEF Gives
<1>8. ASSUME NEW q \in Requests, QueryFails(q)
      PROVE  Keeps
  BY <1>8 DEF QueryFails, End, Goto, fleet, Keeps, HoldersKept
<1>9. ASSUME NEW q \in Requests, AnswerBreaks(q), Kind[q] # "embed"
      PROVE  Keeps
  BY <1>9 DEF AnswerBreaks, Goto, fleet, Keeps, HoldersKept
<1>10. ASSUME NEW q \in Requests, SettleFails(q), Kind[q] = "stream"
       PROVE  Keeps
  BY <1>10 DEF SettleFails, Goto, fleet, Keeps, HoldersKept
<1>11. ASSUME NEW q \in Requests, AuditFails(q)
       PROVE  Keeps
  BY <1>11 DEF AuditFails, NoDoubleRelease, End, Goto, fleet, Keeps, HoldersKept
<1>12. ASSUME NEW q \in Requests, StartFails(q) \/ ReleaseFails(q)
       PROVE  Loses /\ ~Lossless
  BY <1>12 DEF StartFails, ReleaseFails, End, Goto, fleet, Loses, Lossless
<1>13. ASSUME NEW q \in Requests, SettleFails(q), Kind[q] # "stream"
       PROVE  Loses /\ ~Lossless
  BY <1>13 DEF SettleFails, End, Goto, fleet, Loses, Lossless
<1>14. ASSUME NEW q \in Requests, AnswerBreaks(q), Kind[q] = "embed"
       PROVE  Loses /\ ~Lossless
  BY <1>14 DEF AnswerBreaks, End, Goto, fleet, Loses, Lossless
<1>15. ASSUME NEW rt \in Routers, Crash(rt)
       PROVE  Loses /\ ~Lossless
  BY <1>15 DEF Crash, fleet, Loses, Lossless
<1>16. CASE Sweeps \/ \E r \in Replicas : Probed(r)
  BY <1>16 DEF Sweeps, sweepQueueTimeouts, sweepStallTimeouts, Probed,
               sweepFirstTokenTimeouts, Sweep, handler, fleet, Keeps, HoldersKept
<1>17. CASE RemoveModel
  BY <1>17 DEF RemoveModel, handler, Removes, HoldersKept, Lossless
<1>18. CASE UNCHANGED vars
  BY <1>18 DEF vars, handler, fleet, Keeps, HoldersKept
<1>19. QED
  BY <1>1, <1>2, <1>3, <1>4, <1>5, <1>6, <1>7, <1>8, <1>9, <1>10, <1>11,
     <1>12, <1>13, <1>14, <1>15, <1>16, <1>17, <1>18
  DEF Next, Handler, HandlerFault

(***************************************************************************)
(* The ceiling. It needs nothing of the faults: every increment of         *)
(* in_flight is conditional, and a release only ever lowers it.            *)
(***************************************************************************)
\* A step leaves in_flight alone, takes one slot, gives one back, or deletes
\* the rows.
LEMMA InFlightStep ==
    ASSUME TypeOK, [Next]_vars
    PROVE  \/ inFlight' = inFlight
           \/ \E r \in Replicas : TakeSlot(r)
           \/ \E r \in Replicas \cup {NoReplica} : ReturnSlot(r)
           \/ inFlight' = [r \in Replicas |-> 0]
<1> USE DEF TypeOK
<1>1. ASSUME NEW q \in Requests, NEW r \in Replicas, Claim(q, r)
      PROVE  TakeSlot(r)
  BY <1>1 DEF Claim
<1>2. ASSUME NEW q \in Requests, Complete(q)
      PROVE  inFlight' = inFlight \/ ReturnSlot(replicaId[q])
  BY <1>2 DEF Complete, completeRequest
<1>3. ASSUME NEW q \in Requests, Release(q)
      PROVE  ReturnSlot(slot[q])
  BY <1>3 DEF Release
<1>4. ASSUME NEW q \in Requests,
             \/ Arrive(q) \/ GiveUp(q) \/ StreamStarted(q) \/ OpenStream(q)
             \/ Token(q) \/ AnswerEnds(q) \/ Audit(q) \/ Fail(q)
             \/ HandlerFault(q) \/ DeadlinePasses(q) \/ RowAges(q)
      PROVE  inFlight' = inFlight
  BY <1>4 DEF Arrive, GiveUp, StreamStarted, OpenStream, Token, AnswerEnds, Audit,
              Fail, HandlerFault, QueryFails, StartFails, AnswerBreaks, SettleFails,
              AuditFails, ReleaseFails, DeadlinePasses, RowAges, fleet
<1>5. CASE \/ Sweeps
           \/ \E r \in Replicas : Probed(r)
           \/ \E rt \in Routers : Crash(rt)
  BY <1>5 DEF Sweeps, sweepQueueTimeouts, sweepStallTimeouts,
              sweepFirstTokenTimeouts, Sweep, Probed, Crash, fleet
<1>6. CASE UNCHANGED vars
  BY <1>6 DEF vars, fleet
<1>7. ASSUME NEW q \in Requests
      PROVE  slot[q] \in Replicas \cup {NoReplica} /\ replicaId[q] \in Replicas \cup {NoReplica}
  OBVIOUS
<1>8. CASE RemoveModel
  BY <1>8 DEF RemoveModel
<1>9. QED
  BY <1>1, <1>2, <1>3, <1>4, <1>5, <1>6, <1>7, <1>8 DEF Next, Handler

\* A model that was removed stays removed: RemoveModel is the only action that
\* writes it.
LEMMA RemovalIsFinal ==
    ASSUME [Next]_vars, registered'
    PROVE  registered
<1>1. CASE RemoveModel
  BY <1>1 DEF RemoveModel
<1>2. CASE ~RemoveModel
  BY <1>2 DEF Next, Handler, HandlerFault, Arrive, Claim, GiveUp, StreamStarted,
              OpenStream, Token, AnswerEnds, Complete, Audit, Fail, Release,
              QueryFails, StartFails, AnswerBreaks, SettleFails, AuditFails,
              ReleaseFails, DeadlinePasses, RowAges, Sweeps, sweepQueueTimeouts,
              sweepStallTimeouts, sweepFirstTokenTimeouts, Sweep, Probed, Crash,
              fleet, vars
<1>3. QED
  BY <1>1, <1>2

\* The replicas of a removed model are gone, and with them the room.
RemovedHasNoRoom == ~registered => ready = {}

\* It is an invariant: only a probe makes a replica ready, and only of a model
\* that is registered.
LEMMA RemovedHasNoRoomInvariant == Spec => []RemovedHasNoRoom
<1>1. Init => RemovedHasNoRoom
  BY DEF Init, RemovedHasNoRoom
<1>2. RemovedHasNoRoom /\ [Next]_vars => RemovedHasNoRoom'
  <2> SUFFICES ASSUME RemovedHasNoRoom, [Next]_vars
               PROVE  RemovedHasNoRoom'
    OBVIOUS
  <2>1. CASE RemoveModel
    BY <2>1 DEF RemoveModel, RemovedHasNoRoom
  <2>2. ASSUME NEW r \in Replicas, Probed(r)
        PROVE  RemovedHasNoRoom'
    BY <2>2 DEF Probed, RemovedHasNoRoom
  <2>3. CASE ~RemoveModel /\ ~\E r \in Replicas : Probed(r)
    <3>1. UNCHANGED <<ready, registered>>
      BY <2>3 DEF Next, Handler, HandlerFault, Arrive, Claim, GiveUp, StreamStarted,
                  OpenStream, Token, AnswerEnds, Complete, Audit, Fail, Release,
                  QueryFails, StartFails, AnswerBreaks, SettleFails, AuditFails,
                  ReleaseFails, DeadlinePasses, RowAges, Sweeps, sweepQueueTimeouts,
                  sweepStallTimeouts, sweepFirstTokenTimeouts, Sweep, Crash, fleet, vars
    <3>2. QED
      BY <3>1 DEF RemovedHasNoRoom
  <2>4. QED
    BY <2>1, <2>2, <2>3
<1>3. QED
  BY <1>1, <1>2, PTL DEF Spec

\* in_flight never exceeds max_concurrency, however many routers place
\* concurrently and whatever fails.
THEOREM CeilingHolds == Spec => []CeilingRespected
<1>1. Init => CeilingRespected
  BY LifecycleAssumption DEF Init, CeilingRespected
<1>2. TypeOK /\ CeilingRespected /\ [Next]_vars => CeilingRespected'
  <2> SUFFICES ASSUME TypeOK, CeilingRespected, [Next]_vars
               PROVE  CeilingRespected'
    OBVIOUS
  <2>1. inFlight \in [Replicas -> Nat] /\ MaxConcurrency \in [Replicas -> Nat \ {0}]
    BY LifecycleAssumption DEF TypeOK
  <2>2. CASE inFlight' = inFlight
    BY <2>2 DEF CeilingRespected
  <2>3. CASE \E r \in Replicas : TakeSlot(r)
    BY <2>1, <2>3 DEF CeilingRespected, TakeSlot, HasRoom
  <2>4. ASSUME NEW r, ReturnSlot(r)
        PROVE  CeilingRespected'
    <3>1. \A s \in Replicas : inFlight'[s] \in Nat /\ inFlight'[s] <= inFlight[s]
      BY <2>1, <2>4, ReturnSlotType
    <3>2. QED
      BY <2>1, <3>1 DEF CeilingRespected
  <2>5. CASE inFlight' = [r \in Replicas |-> 0]
    BY <2>1, <2>5 DEF CeilingRespected
  <2>6. QED
    BY <2>2, <2>3, <2>4, <2>5, InFlightStep
<1>3. QED
  BY <1>1, <1>2, TypeCorrect, PTL DEF Spec

(***************************************************************************)
(* Counting the holders of a replica.                                      *)
(***************************************************************************)
\* The holders of a replica are finitely many, so that they can be counted.
LEMMA HoldingFinite ==
    \A r \in Replicas : IsFiniteSet(Holding(r)) /\ Cardinality(Holding(r)) \in Nat
<1>1. \A r \in Replicas : Holding(r) \subseteq Requests
  BY DEF Holding
<1>2. QED
  BY <1>1, LifecycleAssumption, FS_Subset, FS_CardinalityType

\* A slot taken adds one holder and one to in_flight, a slot given back
\* removes one of each: the floor of in_flight is never what stops it.
LEMMA TakesCounts ==
    ASSUME TypeOK, NEW q, NEW r, Takes(q, r)
    PROVE  \A s \in Replicas :
             /\ Cardinality(Holding(s)') = Cardinality(Holding(s)) + (IF s = r THEN 1 ELSE 0)
             /\ inFlight'[s] = inFlight[s] + (IF s = r THEN 1 ELSE 0)
<1>1. ASSUME NEW s \in Replicas
      PROVE  Cardinality(Holding(s)') = Cardinality(Holding(s)) + (IF s = r THEN 1 ELSE 0)
  <2>1. IsFiniteSet(Holding(s)) /\ Cardinality(Holding(s)) \in Nat /\ q \notin Holding(s)
    BY HoldingFinite DEF Takes
  <2>2. Cardinality(Holding(s) \cup {q}) = Cardinality(Holding(s)) + 1
    BY <2>1, FS_AddElement
  <2>3. Holding(s)' = IF s = r THEN Holding(s) \cup {q} ELSE Holding(s)
    BY DEF Takes
  <2>4. QED
    BY <2>1, <2>2, <2>3
<1>2. ASSUME NEW s \in Replicas
      PROVE  inFlight'[s] = inFlight[s] + (IF s = r THEN 1 ELSE 0)
  BY DEF Takes, TakeSlot, TypeOK
<1>3. QED
  BY <1>1, <1>2

\* The counterpart for a slot that is given back.
LEMMA GivesCounts ==
    ASSUME TypeOK, NEW q, NEW r, Gives(q, r),
           Cardinality(Holding(r)) <= inFlight[r]
    PROVE  /\ inFlight[r] > 0
           /\ \A s \in Replicas :
                /\ Cardinality(Holding(s)') = Cardinality(Holding(s)) - (IF s = r THEN 1 ELSE 0)
                /\ inFlight'[s] = inFlight[s] - (IF s = r THEN 1 ELSE 0)
<1>1. r \in Replicas /\ q \in Holding(r) /\ inFlight \in [Replicas -> Nat]
  BY DEF Gives, TypeOK
<1>2. IsFiniteSet(Holding(r)) /\ Cardinality(Holding(r)) \in Nat
  BY <1>1, HoldingFinite
<1>3. /\ Cardinality(Holding(r) \ {q}) = Cardinality(Holding(r)) - 1
      /\ Cardinality(Holding(r) \ {q}) \in Nat
  BY <1>1, <1>2, FS_RemoveElement, FS_CardinalityType
<1>4. inFlight[r] \in Nat /\ inFlight[r] > 0
  BY <1>1, <1>2, <1>3
<1>5. ASSUME NEW s \in Replicas
      PROVE  Cardinality(Holding(s)') = Cardinality(Holding(s)) - (IF s = r THEN 1 ELSE 0)
  <2>1. Holding(s)' = IF s = r THEN Holding(s) \ {q} ELSE Holding(s)
    BY DEF Gives
  <2>2. Cardinality(Holding(s)) \in Nat
    BY HoldingFinite
  <2>3. QED
    BY <1>3, <2>1, <2>2
<1>6. ASSUME NEW s \in Replicas
      PROVE  inFlight'[s] = inFlight[s] - (IF s = r THEN 1 ELSE 0)
  BY <1>1, <1>4 DEF Gives, ReturnSlot
<1>7. QED
  BY <1>4, <1>5, <1>6

\* At the start nobody holds a slot and no in_flight counts one.
LEMMA HoldingInit == Init => \A r \in Replicas : Holding(r) = {} /\ inFlight[r] = 0
  BY DEF Init, Holding, HoldingAt

\* Every handler that holds a slot is counted in in_flight, as long as a
\* streaming handler cannot fail after it has completed its request: whatever
\* else fails, capacity is never handed out twice.
THEOREM SlotsAreCovered ==
    ASSUME NoDoubleRelease
    PROVE  Spec => []SlotsCovered
<1>1. Init => SlotsCovered
  BY HoldingInit, FS_EmptySet DEF SlotsCovered
<1>2. TypeOK /\ SlotKnown /\ SlotsCovered /\ [Next]_vars => SlotsCovered'
  <2> SUFFICES ASSUME TypeOK, SlotKnown, SlotsCovered, [Next]_vars,
                      registered', NEW s \in Replicas
               PROVE  Cardinality(Holding(s)') <= inFlight'[s]
    BY DEF SlotsCovered
  <2> registered
    BY RemovalIsFinal
  <2>1. /\ inFlight[s] \in Nat /\ Cardinality(Holding(s)) <= inFlight[s]
        /\ IsFiniteSet(Holding(s)) /\ Cardinality(Holding(s)) \in Nat
    BY HoldingFinite DEF TypeOK, SlotsCovered
  <2>2. CASE Keeps
    BY <2>1, <2>2 DEF Keeps, HoldersKept
  <2>3. CASE Loses
    <3>1. Holding(s)' \subseteq Holding(s) /\ inFlight' = inFlight
      BY <2>3 DEF Loses
    <3>2. Cardinality(Holding(s)') <= Cardinality(Holding(s)) /\ Cardinality(Holding(s)') \in Nat
      BY <2>1, <3>1, FS_Subset, FS_CardinalityType
    <3>3. QED
      BY <2>1, <3>1, <3>2
  <2>4. ASSUME NEW q \in Requests, NEW r \in Replicas, Takes(q, r)
        PROVE  Cardinality(Holding(s)') <= inFlight'[s]
    BY <2>1, <2>4, TakesCounts
  <2>5. ASSUME NEW q \in Requests, NEW r \in Replicas, Gives(q, r)
        PROVE  Cardinality(Holding(s)') <= inFlight'[s]
    <3>1. Cardinality(Holding(r)) <= inFlight[r]
      BY DEF SlotsCovered
    <3>2. QED
      BY <2>1, <2>5, <3>1, GivesCounts
  <2>6. QED
    BY <2>2, <2>3, <2>4, <2>5, StepEffect DEF Removes
<1>3. QED
  BY <1>1, <1>2, TypeCorrect, SlotKnownInvariant, PTL DEF Spec

\* The handlers holding a slot of a replica fit its ceiling. Counting them in
\* in_flight shows it while the replica has a row; afterwards nobody claims.
HoldersFit == \A r \in Replicas : Cardinality(Holding(r)) <= MaxConcurrency[r]

\* It is an invariant under the same condition.
LEMMA HoldersFitInvariant ==
    ASSUME NoDoubleRelease
    PROVE  Spec => []HoldersFit
<1>1. Init => HoldersFit
  BY HoldingInit, FS_EmptySet, LifecycleAssumption DEF HoldersFit
<1>2. /\ TypeOK /\ SlotKnown /\ SlotsCovered /\ RemovedHasNoRoom
      /\ HoldersFit /\ [Next]_vars
      => HoldersFit'
  <2> SUFFICES ASSUME TypeOK, SlotKnown, SlotsCovered, RemovedHasNoRoom,
                      HoldersFit, [Next]_vars, NEW s \in Replicas
               PROVE  Cardinality(Holding(s)') <= MaxConcurrency[s]
    BY DEF HoldersFit
  <2>1. /\ MaxConcurrency[s] \in Nat
        /\ Cardinality(Holding(s)) <= MaxConcurrency[s]
        /\ IsFiniteSet(Holding(s)) /\ Cardinality(Holding(s)) \in Nat
    BY HoldingFinite, LifecycleAssumption DEF HoldersFit
  <2>2. ASSUME Holding(s)' \subseteq Holding(s)
        PROVE  Cardinality(Holding(s)') <= MaxConcurrency[s]
    <3>1. Cardinality(Holding(s)') <= Cardinality(Holding(s)) /\ Cardinality(Holding(s)') \in Nat
      BY <2>1, <2>2, FS_Subset, FS_CardinalityType
    <3>2. QED
      BY <2>1, <3>1
  <2>3. CASE Keeps \/ Loses \/ Removes
    BY <2>2, <2>3 DEF Keeps, Loses, Removes, HoldersKept
  <2>4. ASSUME NEW q \in Requests, NEW r \in Replicas, Takes(q, r)
        PROVE  Cardinality(Holding(s)') <= MaxConcurrency[s]
    <3>1. registered /\ inFlight[r] < MaxConcurrency[r]
      BY <2>4 DEF Takes, TakeSlot, HasRoom, RemovedHasNoRoom
    <3>2. /\ Cardinality(Holding(r)) <= inFlight[r] /\ inFlight[r] \in Nat
          /\ Cardinality(Holding(r)) \in Nat /\ MaxConcurrency[r] \in Nat
      BY <3>1, HoldingFinite, LifecycleAssumption DEF SlotsCovered, TypeOK
    <3>3. QED
      BY <2>1, <2>4, <3>1, <3>2, TakesCounts
  <2>5. ASSUME NEW q \in Requests, NEW r \in Replicas, Gives(q, r)
        PROVE  Cardinality(Holding(s)') <= MaxConcurrency[s]
    BY <2>2, <2>5 DEF Gives
  <2>6. QED
    BY <2>3, <2>4, <2>5, StepEffect
<1>3. QED
  BY <1>1, <1>2, TypeCorrect, SlotKnownInvariant, SlotsAreCovered,
     RemovedHasNoRoomInvariant, PTL DEF Spec

\* Under the same condition no replica ever answers more requests at once
\* than its ceiling allows.
THEOREM NeverOversubscribed ==
    ASSUME NoDoubleRelease
    PROVE  Spec => []NoOversubscription
<1>1. HoldersFit => NoOversubscription
  <2> SUFFICES ASSUME HoldersFit, NEW r \in Replicas
               PROVE  Cardinality(Serving(r)) <= MaxConcurrency[r]
    BY DEF NoOversubscription
  <2>1. Serving(r) \subseteq Holding(r)
    BY DEF Serving, Holding, HoldingAt
  <2>2. IsFiniteSet(Holding(r)) /\ Cardinality(Holding(r)) \in Nat
    BY HoldingFinite
  <2>3. Cardinality(Serving(r)) <= Cardinality(Holding(r)) /\ Cardinality(Serving(r)) \in Nat
    BY <2>1, <2>2, FS_Subset, FS_CardinalityType
  <2>4. MaxConcurrency[r] \in Nat /\ Cardinality(Holding(r)) <= MaxConcurrency[r]
    BY LifecycleAssumption DEF HoldersFit
  <2>5. QED
    BY <2>2, <2>3, <2>4
<1>2. QED
  BY <1>1, HoldersFitInvariant, PTL

\* When the faults are lossless in_flight is exactly the number of handlers
\* that hold a slot.
THEOREM SlotsAreExact ==
    ASSUME Lossless
    PROVE  Spec => []SlotsExact
<1>0. NoDoubleRelease
  BY DEF Lossless, NoDoubleRelease
<1>1. Init => SlotsExact
  BY HoldingInit, FS_EmptySet DEF SlotsExact
<1>2. TypeOK /\ SlotKnown /\ SlotsExact /\ [Next]_vars => SlotsExact'
  <2> SUFFICES ASSUME TypeOK, SlotKnown, SlotsExact, [Next]_vars,
                      NEW s \in Replicas
               PROVE  inFlight'[s] = Cardinality(Holding(s)')
    BY DEF SlotsExact
  <2>1. inFlight[s] \in Nat /\ Cardinality(Holding(s)) = inFlight[s]
    BY DEF TypeOK, SlotsExact
  <2>2. CASE Keeps
    BY <2>1, <2>2 DEF Keeps, HoldersKept
  <2>3. ASSUME NEW q \in Requests, NEW r \in Replicas, Takes(q, r)
        PROVE  inFlight'[s] = Cardinality(Holding(s)')
    BY <2>1, <2>3, TakesCounts
  <2>4. ASSUME NEW q \in Requests, NEW r \in Replicas, Gives(q, r)
        PROVE  inFlight'[s] = Cardinality(Holding(s)')
    <3>1. inFlight[r] \in Nat /\ Cardinality(Holding(r)) <= inFlight[r]
      BY DEF TypeOK, SlotsExact
    <3>2. QED
      BY <2>1, <2>4, <3>1, GivesCounts
  <2>5. QED
    BY <1>0, <2>2, <2>3, <2>4, StepEffect
<1>3. QED
  BY <1>1, <1>2, TypeCorrect, SlotKnownInvariant, PTL DEF Spec

\* Hence the lifecycle implements the ledger: each of its steps is a claim
\* below the ceiling, a return of a slot that is held, or a stutter.
THEOREM LifecycleImplementsLedger ==
    ASSUME Lossless
    PROVE  Spec => SlotsKeptAsPromised
<1>0. NoDoubleRelease
  BY DEF Lossless, NoDoubleRelease
<1>1. Init => Ledger!LedgerInit
  <2> SUFFICES ASSUME Init PROVE Ledger!LedgerInit
    OBVIOUS
  <2>1. inFlight = [r \in Replicas |-> 0]
    BY DEF Init
  <2>2. QED
    BY <2>1, HoldingInit DEF Ledger!LedgerInit
<1>2. TypeOK /\ SlotKnown /\ SlotsExact /\ [Next]_vars
         => [Ledger!LedgerNext]_(Ledger!ledgerVars)
  <2> SUFFICES ASSUME TypeOK, SlotKnown, SlotsExact, [Next]_vars
               PROVE  Ledger!LedgerNext \/ UNCHANGED Ledger!ledgerVars
    BY DEF Ledger!ledgerVars
  <2> DEFINE holders == [r \in Replicas |-> Holding(r)]
  <2>1. CASE Keeps
    <3>1. holders' = holders
      BY <2>1 DEF Keeps, HoldersKept
    <3>2. QED
      BY <2>1, <3>1 DEF Keeps, Ledger!ledgerVars
  <2>2. ASSUME NEW q \in Requests, NEW r \in Replicas, Takes(q, r)
        PROVE  Ledger!Claim(q, r)
    <3>1. \A s \in Replicas : q \notin holders[s]
      BY <2>2 DEF Takes
    <3>2. Cardinality(holders[r]) < MaxConcurrency[r]
      BY <2>2 DEF Takes, TakeSlot, HasRoom, SlotsExact
    <3>3. holders' = [holders EXCEPT ![r] = @ \cup {q}]
      BY <2>2 DEF Takes
    <3>4. inFlight' = [inFlight EXCEPT ![r] = @ + 1]
      BY <2>2 DEF Takes, TakeSlot
    <3>5. QED
      BY <3>1, <3>2, <3>3, <3>4 DEF Ledger!Claim, Ledger!Cardinality, Cardinality
  <2>3. ASSUME NEW q \in Requests, NEW r \in Replicas, Gives(q, r)
        PROVE  Ledger!Return(q, r)
    <3>1. q \in holders[r]
      BY <2>3 DEF Gives
    <3>2. holders' = [holders EXCEPT ![r] = @ \ {q}]
      BY <2>3 DEF Gives
    <3>3. inFlight' = [inFlight EXCEPT ![r] = @ - 1]
      <4>1. inFlight[r] \in Nat /\ Cardinality(Holding(r)) <= inFlight[r]
        BY DEF TypeOK, SlotsExact
      <4>2. inFlight[r] > 0
        BY <2>3, <4>1, GivesCounts
      <4>3. QED
        BY <2>3, <4>2 DEF Gives, ReturnSlot, TypeOK
    <3>4. QED
      BY <3>1, <3>2, <3>3 DEF Ledger!Return
  <2>4. QED
    BY <1>0, <2>1, <2>2, <2>3, StepEffect DEF Ledger!LedgerNext
<1>3. QED
  BY <1>1, <1>2, TypeCorrect, SlotKnownInvariant, SlotsAreExact, PTL
  DEF Spec, SlotsKeptAsPromised, Ledger!LedgerSpec

----------------------------------------------------------------------------
(* Rows and handlers.                                                      *)

\* Where a handler is bounds what its row can say. The sweeps write rows of
\* any handler at any time, which is why no await has just one status.
RowFollowsHandler ==
    \A q \in Requests :
        /\ pc[q] = "idle" => status[q] = "none"
        /\ pc[q] \in {"waiting", "claimed"} => status[q] \in {"queued", "queue_timeout"}
        /\ pc[q] \in {"started", "streaming", "settling"} =>
              status[q] \in {"streaming", "stall_timeout"}
        /\ pc[q] \in {"auditing", "answered"} => status[q] = "completed"
        /\ pc[q] = "timedout" => status[q] = "queue_timeout"
        /\ pc[q] \in {"releasing", "failed"} =>
              status[q] \in {"stall_timeout", "replica_unavailable", "error"}

\* It is an invariant of every run, whatever fails.
LEMMA RowFollowsHandlerInvariant == Spec => []RowFollowsHandler
<1>1. Init => RowFollowsHandler
  BY DEF Init, RowFollowsHandler
<1>2. TypeOK /\ RowFollowsHandler /\ [Next]_vars => RowFollowsHandler'
  <2> SUFFICES ASSUME TypeOK, RowFollowsHandler, [Next]_vars
               PROVE  RowFollowsHandler'
    OBVIOUS
  <2> USE LifecycleAssumption DEF TypeOK, RowFollowsHandler
  <2>1. ASSUME NEW q \in Requests, Arrive(q)
        PROVE  RowFollowsHandler'
    BY <2>1 DEF Arrive, Goto, enqueueRequest
  <2>2. ASSUME NEW q \in Requests, NEW r \in Replicas, Claim(q, r)
        PROVE  RowFollowsHandler'
    BY <2>2 DEF Claim, Goto, rows
  <2>3. ASSUME NEW q \in Requests, GiveUp(q)
        PROVE  RowFollowsHandler'
    BY <2>3 DEF GiveUp, End, Goto, expireQueuedRequest
  <2>4. ASSUME NEW q \in Requests, StreamStarted(q)
        PROVE  RowFollowsHandler'
    BY <2>4 DEF StreamStarted, Goto, markStreamStarted
  <2>5. ASSUME NEW q \in Requests, OpenStream(q) \/ AnswerEnds(q)
        PROVE  RowFollowsHandler'
    BY <2>5 DEF OpenStream, AnswerEnds, Goto, rows
  <2>6. ASSUME NEW q \in Requests, Token(q)
        PROVE  RowFollowsHandler'
    BY <2>6 DEF Token, recordTokenEmitted, handler
  <2>7. ASSUME NEW q \in Requests, Complete(q)
        PROVE  RowFollowsHandler'
    BY <2>7 DEF Complete, End, Goto, completeRequest
  <2>8. ASSUME NEW q \in Requests, Audit(q) \/ Release(q)
        PROVE  RowFollowsHandler'
    BY <2>8 DEF Audit, Release, End, Goto, rows
  <2>9. ASSUME NEW q \in Requests, Fail(q)
        PROVE  RowFollowsHandler'
    BY <2>9 DEF Fail, Goto
  <2>10. ASSUME NEW q \in Requests, HandlerFault(q)
         PROVE  RowFollowsHandler'
    BY <2>10 DEF HandlerFault, QueryFails, StartFails, AnswerBreaks, SettleFails,
                 AuditFails, ReleaseFails, End, Goto, rows
  <2>11. ASSUME NEW q \in Requests, DeadlinePasses(q) \/ RowAges(q)
         PROVE  RowFollowsHandler'
    BY <2>11 DEF DeadlinePasses, RowAges, handler, rows
  <2>12. CASE Sweeps
    <3>1. /\ pc' = pc
          /\ \A q \in Requests : \/ status'[q] = status[q]
                                 \/ status[q] = "queued" /\ status'[q] = "queue_timeout"
                                 \/ status[q] = "streaming" /\ status'[q] = "stall_timeout"
      BY <2>12 DEF Sweeps, sweepQueueTimeouts, sweepStallTimeouts,
                   sweepFirstTokenTimeouts, Sweep, handler
    <3>2. QED
      BY <3>1
  <2>13. ASSUME NEW r \in Replicas, Probed(r)
         PROVE  RowFollowsHandler'
    BY <2>13 DEF Probed, handler, rows
  <2>14. ASSUME NEW rt \in Routers, Crash(rt)
         PROVE  RowFollowsHandler'
    BY <2>14 DEF Crash, rows
  <2>15. CASE RemoveModel
    BY <2>15 DEF RemoveModel, handler, rows
  <2>16. CASE UNCHANGED vars
    BY <2>16 DEF vars, handler, rows
  <2>17. QED
    BY <2>1, <2>2, <2>3, <2>4, <2>5, <2>6, <2>7, <2>8, <2>9, <2>10, <2>11,
       <2>12, <2>13, <2>14, <2>15, <2>16 DEF Next, Handler
<1>3. QED
  BY <1>1, <1>2, TypeCorrect, PTL DEF Spec

\* While a backend answers a request, its row is open or was failed by one of
\* the two generation sweeps.
THEOREM ServedRowsAreOpen == Spec => []ServedRowOpen
<1>1. RowFollowsHandler => ServedRowOpen
  BY DEF RowFollowsHandler, ServedRowOpen
<1>2. QED
  BY <1>1, RowFollowsHandlerInvariant, PTL

\* A caller is never told something other than what its row ends up saying.
THEOREM AnswersMatchRows == Spec => []AnswerMatchesRow
<1>1. RowFollowsHandler => AnswerMatchesRow
  BY DEF RowFollowsHandler, AnswerMatchesRow
<1>2. QED
  BY <1>1, RowFollowsHandlerInvariant, PTL

=============================================================================
