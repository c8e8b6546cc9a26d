-------------------------- MODULE RequestLifecycle --------------------------
(***************************************************************************)
(* A request's way through the router: the row in the requests table, the  *)
(* slot it takes on a replica, the handler of the router process that      *)
(* serves it, the three periodic sweeps, and what goes wrong on the way.   *)
(*                                                                         *)
(* All routers share one Postgres. A handler is sequential between its     *)
(* awaits and every statement it sends is atomic, so an action is the code *)
(* from one await to the next; statements of different handlers and of the *)
(* sweeps interleave in any order. The requests of the model are for one   *)
(* backend: placements on different backends touch different rows.         *)
(*                                                                         *)
(* Which replica a placement picks among those with room, and the affinity *)
(* and scale-up records it writes, are abstracted: FOR UPDATE SKIP LOCKED  *)
(* may pass over any row that another statement holds, so every replica    *)
(* with room may be the one picked.                                        *)
(***************************************************************************)
EXTENDS Naturals, FiniteSets

CONSTANTS Requests, Replicas,
          Routers,          \* router processes
          RouterOf,         \* the router that received each request
          Kind,             \* "stream", "chat" or "embed"
          MaxConcurrency,   \* max_concurrency of each replica
          MaxTokens,        \* bound: tokens a backend generates for one request
          Faults,           \* which awaits may fail, of FaultKinds
          NoReplica         \* NULL in replica_id

Kinds == {"stream", "chat", "embed"}

\* "query": the polling placement statement; "placement": a statement after
\* the claim, up to and including markStreamStarted; "start": the
\* affinity_hit update; "backend": the backend's answer; "settle": anything
\* from the end of the answer up to the commit of completeRequest; "audit":
\* the logging-scope lookup or the audit row; "release": either statement of
\* failRequest; "crash": the router process; "removal": the model is taken
\* out of the configuration.
FaultKinds == {"query", "placement", "start", "backend", "settle", "audit",
               "release", "crash", "removal"}

ASSUME LifecycleAssumption ==
    /\ IsFiniteSet(Requests)
    /\ RouterOf \in [Requests -> Routers]
    /\ Kind \in [Requests -> Kinds]
    /\ MaxConcurrency \in [Replicas -> Nat \ {0}]
    /\ MaxTokens \in Nat \ {0}
    /\ Faults \subseteq FaultKinds
    /\ NoReplica \notin Replicas

VARIABLES
    \* handler, one per request; gone when its router is
    pc,          \* the await the handler is at
    slot,        \* placement.replicaId
    overtime,    \* the router's own clock for this request has run out
    \* table requests
    status,      \* "none" until the row is inserted
    replicaId,   \* replica_id
    tokens,      \* tokens recorded; first_token_at is NULL iff 0
    overdue,     \* the timestamp its sweep compares is past the threshold
    \* table replicas
    inFlight,    \* in_flight; 0 once the row is deleted
    ready,       \* the replicas whose status is 'ready'
    \* table model_registry
    registered   \* the backend's model has a row

handler == <<pc, slot, overtime>>
rows == <<status, replicaId, tokens, overdue>>
fleet == <<inFlight, ready, registered>>
vars == <<handler, rows, fleet>>

Statuses == {"none", "queued", "streaming", "completed", "queue_timeout",
             "stall_timeout", "replica_unavailable", "error"}
OpenStatuses == {"queued", "streaming"}
Terminal == Statuses \ {"none", "queued", "streaming"}

\* pc of a handler that waits on something and dies with its router ...
Live == {"waiting", "claimed", "started", "streaming", "settling",
         "auditing", "failing", "releasing"}
\* ... and how it ended: answered in full, 504 queue_timeout, the error of
\* failRequest, an exception that left the handler, a crash.
Ended == {"answered", "timedout", "failed", "aborted", "crashed"}

Init ==
    /\ pc = [q \in Requests |-> "idle"]
    /\ slot = [q \in Requests |-> NoReplica]
    /\ overtime = [q \in Requests |-> FALSE]
    /\ status = [q \in Requests |-> "none"]
    /\ replicaId = [q \in Requests |-> NoReplica]
    /\ tokens = [q \in Requests |-> 0]
    /\ overdue = [q \in Requests |-> FALSE]
    /\ inFlight = [r \in Replicas |-> 0]
    /\ ready \in SUBSET Replicas
    /\ registered = TRUE

Goto(q, from, to) == pc[q] = from /\ pc' = [pc EXCEPT ![q] = to]

\* A handler that ends takes its variables along.
End(q, from, how) ==
    /\ Goto(q, from, how)
    /\ slot' = [slot EXCEPT ![q] = NoReplica]
    /\ overtime' = [overtime EXCEPT ![q] = FALSE]

----------------------------------------------------------------------------
(* The statements of the scheduler. *)

\* Mutants of HasRoom: one slot too many, and the placement of before
\* max_concurrency existed.
HasRoom_OffByOne(r) == r \in ready /\ inFlight[r] <= MaxConcurrency[r]
HasRoom_NoCeiling(r) == r \in ready

HasRoom(r) == r \in ready /\ inFlight[r] < MaxConcurrency[r]

TakeSlot(r) ==
    /\ HasRoom(r)
    /\ inFlight' = [inFlight EXCEPT ![r] = @ + 1]

\* Mutant of ReturnSlot: no floor.
ReturnSlot_NoFloor(r) == inFlight' = [inFlight EXCEPT ![r] = @ - 1]

\* in_flight = GREATEST(0, in_flight - 1)
ReturnSlot(r) ==
    inFlight' = [inFlight EXCEPT ![r] = IF @ > 0 THEN @ - 1 ELSE 0]

enqueueRequest(q) ==
    /\ status' = [status EXCEPT ![q] = "queued"]
    /\ UNCHANGED <<replicaId, tokens, overdue>>

\* Returns whether the row was still queued; its caller ignores the answer.
expireQueuedRequest(q) ==
    /\ status' = [status EXCEPT ![q] = IF @ = "queued" THEN "queue_timeout" ELSE @]
    /\ UNCHANGED <<replicaId, tokens, overdue>>

\* Mutant of markStreamStarted: the row does not name its replica.
markStreamStarted_NoReplica(q) ==
    /\ status' = [status EXCEPT ![q] = "streaming"]
    /\ overdue' = [overdue EXCEPT ![q] = FALSE]
    /\ UNCHANGED <<tokens, replicaId>>

\* WHERE id = $1 alone: whatever the row's status was.
markStreamStarted(q) ==
    /\ status' = [status EXCEPT ![q] = "streaming"]
    /\ replicaId' = [replicaId EXCEPT ![q] = slot[q]]
    /\ overdue' = [overdue EXCEPT ![q] = FALSE]
    /\ UNCHANGED tokens

recordTokenEmitted(q) ==
    /\ tokens' = [tokens EXCEPT ![q] = @ + 1]
    /\ overdue' = [overdue EXCEPT ![q] = FALSE]
    /\ UNCHANGED <<status, replicaId>>

\* Mutant of completeRequest: a row some sweep has failed stays failed.
completeRequest_OnlyStreaming(q) ==
    /\ status' = [status EXCEPT ![q] = IF @ = "streaming" THEN "completed" ELSE @]
    /\ IF replicaId[q] \in Replicas THEN ReturnSlot(replicaId[q])
                                    ELSE UNCHANGED inFlight
    /\ UNCHANGED <<replicaId, tokens, overdue>>

\* One transaction over both tables. The slot returned is the one the row
\* names.
completeRequest(q) ==
    /\ status' = [status EXCEPT ![q] = "completed"]
    /\ IF replicaId[q] \in Replicas THEN ReturnSlot(replicaId[q])
                                    ELSE UNCHANGED inFlight
    /\ UNCHANGED <<replicaId, tokens, overdue>>

\* The periodic sweeps, over the whole table, of any router. They write rows
\* only: no handler and no slot is touched.
Sweep(due, outcome) ==
    /\ due # {}
    /\ status' = [q \in Requests |-> IF q \in due THEN outcome ELSE status[q]]
    /\ UNCHANGED <<handler, replicaId, tokens, overdue, fleet>>

\* Mutant of sweepQueueTimeouts: any open row that arrived long ago.
sweepQueueTimeouts_AnyOpen ==
    Sweep({q \in Requests : status[q] \in OpenStatuses /\ overdue[q]}, "queue_timeout")

sweepQueueTimeouts ==
    Sweep({q \in Requests : status[q] = "queued" /\ overdue[q]}, "queue_timeout")

\* Mutant of sweepStallTimeouts: the sweep returns the slots of the rows it
\* fails, which their handlers return too.
sweepStallTimeouts_FreesSlots ==
    \E q \in Requests :
        /\ status[q] = "streaming" /\ tokens[q] > 0 /\ overdue[q]
        /\ status' = [status EXCEPT ![q] = "stall_timeout"]
        /\ ReturnSlot(replicaId[q])
        /\ UNCHANGED <<handler, replicaId, tokens, overdue, ready, registered>>

sweepStallTimeouts ==
    Sweep({q \in Requests : status[q] = "streaming" /\ tokens[q] > 0 /\ overdue[q]},
          "stall_timeout")

\* Mutant of sweepFirstTokenTimeouts: only rows that have a token.
sweepFirstTokenTimeouts_NeedsToken == sweepStallTimeouts

\* Joined with model_registry, for the model's own allowance.
sweepFirstTokenTimeouts ==
    /\ registered
    /\ Sweep({q \in Requests : status[q] = "streaming" /\ tokens[q] = 0 /\ overdue[q]},
             "stall_timeout")

----------------------------------------------------------------------------
(* The handlers of POST /v1/chat/completions, streamed or not, and of      *)
(* POST /v1/embeddings.                                                    *)

\* Validated, a model selected, and the row inserted; the model was registered
\* when it was selected. (An exception between the insert and the first poll
\* ends as QueryFails does.)
Arrive(q) ==
    /\ Goto(q, "idle", "waiting")
    /\ enqueueRequest(q)
    /\ UNCHANGED <<slot, overtime, fleet>>

\* waitForPlacement's poll found room. A poll that finds none changes nothing.
Claim(q, r) ==
    /\ Goto(q, "waiting", "claimed")
    /\ TakeSlot(r)
    /\ slot' = [slot EXCEPT ![q] = r]
    /\ UNCHANGED <<overtime, rows, ready, registered>>

GiveUp(q) ==
    /\ overtime[q]
    /\ End(q, "waiting", "timedout")
    /\ expireQueuedRequest(q)
    /\ UNCHANGED fleet

QueryFails(q) ==
    /\ "query" \in Faults
    /\ End(q, "waiting", "aborted")
    /\ UNCHANGED <<rows, fleet>>

StreamStarted(q) ==
    /\ Goto(q, "claimed", "started")
    /\ markStreamStarted(q)
    /\ UNCHANGED <<slot, overtime, fleet>>

\* From here a chat request has a deadline; an embeddings call has none.
OpenStream(q) ==
    /\ Goto(q, "started", "streaming")
    /\ overtime' = [overtime EXCEPT ![q] = FALSE]
    /\ UNCHANGED <<slot, rows, fleet>>

\* No try block is open yet: the exception leaves the handler.
StartFails(q) ==
    /\ \/ "placement" \in Faults /\ End(q, "claimed", "aborted")
       \/ "start" \in Faults /\ Kind[q] # "embed" /\ End(q, "started", "aborted")
    /\ UNCHANGED <<rows, fleet>>

\* A token may still come out of what was already decoded after the abort
\* signal, which stays raised: sawToken re-arms the timer, not the signal.
Token(q) ==
    /\ pc[q] = "streaming" /\ Kind[q] # "embed"
    /\ tokens[q] < MaxTokens
    /\ recordTokenEmitted(q)
    /\ UNCHANGED <<handler, fleet>>

AnswerEnds(q) ==
    /\ Goto(q, "streaming", "settling")
    /\ UNCHANGED <<slot, overtime, rows, fleet>>

\* Mutant of AnswerBreaks: no catch around the non-streaming call either.
AnswerBreaks_StreamOnly(q) ==
    /\ "backend" \in Faults \/ (overtime[q] /\ Kind[q] # "embed")
    /\ IF Kind[q] # "stream"
       THEN End(q, "streaming", "aborted")
       ELSE Goto(q, "streaming", "failing") /\ UNCHANGED <<slot, overtime>>
    /\ UNCHANGED <<rows, fleet>>

\* The deadline aborted the stream, or the backend refused or broke off. The
\* embeddings handler has no catch.
AnswerBreaks(q) ==
    /\ "backend" \in Faults \/ (overtime[q] /\ Kind[q] # "embed")
    /\ IF Kind[q] = "embed"
       THEN End(q, "streaming", "aborted")
       ELSE Goto(q, "streaming", "failing") /\ UNCHANGED <<slot, overtime>>
    /\ UNCHANGED <<rows, fleet>>

Complete(q) ==
    /\ IF Kind[q] = "embed"
       THEN End(q, "settling", "answered")
       ELSE Goto(q, "settling", "auditing") /\ UNCHANGED <<slot, overtime>>
    /\ completeRequest(q)
    /\ UNCHANGED <<ready, registered>>

\* The transaction rolled back, or was never reached. Only the streaming
\* handler is still inside its try block.
SettleFails(q) ==
    /\ "settle" \in Faults
    /\ IF Kind[q] = "stream"
       THEN Goto(q, "settling", "failing") /\ UNCHANGED <<slot, overtime>>
       ELSE End(q, "settling", "aborted")
    /\ UNCHANGED <<rows, fleet>>

Audit(q) ==
    /\ End(q, "auditing", "answered")
    /\ UNCHANGED <<rows, fleet>>

\* Still inside the streaming handler's try block, so it ends in failRequest.
AuditFails(q) ==
    /\ "audit" \in Faults
    /\ IF Kind[q] = "stream"
       THEN Goto(q, "auditing", "failing") /\ UNCHANGED <<slot, overtime>>
       ELSE End(q, "auditing", "aborted")
    /\ UNCHANGED <<rows, fleet>>

\* failRequest, first statement: an elapsed deadline names the error.
Fail(q) ==
    /\ Goto(q, "failing", "releasing")
    /\ \E code \in IF overtime[q] THEN {"stall_timeout"}
                                  ELSE {"replica_unavailable", "error"} :
          status' = [status EXCEPT ![q] = code]
    /\ UNCHANGED <<slot, overtime, replicaId, tokens, overdue, fleet>>

\* Mutant of Release: failRequest is not told the replica.
Release_NoReplica(q) ==
    /\ End(q, "releasing", "failed")
    /\ UNCHANGED <<rows, fleet>>

\* failRequest, second statement, not in a transaction with the first.
Release(q) ==
    /\ End(q, "releasing", "failed")
    /\ ReturnSlot(slot[q])
    /\ UNCHANGED <<rows, ready, registered>>

ReleaseFails(q) ==
    /\ "release" \in Faults
    /\ \/ End(q, "failing", "aborted")
       \/ End(q, "releasing", "aborted")
    /\ UNCHANGED <<rows, fleet>>

----------------------------------------------------------------------------
(* Time, the fleet, and crashes. *)

\* Mutant of DeadlineRuns: the wait for placement is timed, the answer is not.
DeadlineRuns_WaitOnly(q) == pc[q] = "waiting"

\* The handler's deadline: the wait for placement, then the timer of
\* generationDeadline, which the streaming handler clears only in finally
\* (the error is named on entering catch, so it no longer matters there).
DeadlineRuns(q) ==
    \/ pc[q] = "waiting"
    \/ pc[q] = "streaming" /\ Kind[q] # "embed"
    \/ pc[q] \in {"settling", "auditing"} /\ Kind[q] = "stream"

DeadlinePasses(q) ==
    /\ DeadlineRuns(q) /\ ~overtime[q]
    /\ overtime' = [overtime EXCEPT ![q] = TRUE]
    /\ UNCHANGED <<pc, slot, rows, fleet>>

\* Postgres's clock, not the router's: the order of the two is not assumed.
RowAges(q) ==
    /\ status[q] \in OpenStatuses /\ ~overdue[q]
    /\ overdue' = [overdue EXCEPT ![q] = TRUE]
    /\ UNCHANGED <<handler, status, replicaId, tokens, fleet>>

\* The reconciler's upsert writes the status a probe found, and leaves
\* in_flight alone.
Probed(r) ==
    /\ registered
    /\ \/ r \in ready /\ ready' = ready \ {r}
       \/ r \notin ready /\ ready' = ready \cup {r}
    /\ UNCHANGED <<handler, rows, inFlight, registered>>

\* syncModelsFromConfig of a router that starts with a configuration without
\* the model: the DELETE cascades to the replicas. A release of a slot there
\* finds no row, which is what the floor of in_flight makes of it here.
RemoveModel ==
    /\ "removal" \in Faults
    /\ registered
    /\ registered' = FALSE
    /\ ready' = {}
    /\ inFlight' = [r \in Replicas |-> 0]
    /\ UNCHANGED <<handler, rows>>

\* Nothing of a handler survives its router; its row and its slot do.
Crash(rt) ==
    LET dying == {q \in Requests : RouterOf[q] = rt /\ pc[q] \in Live}
    IN  /\ "crash" \in Faults
        /\ dying # {}
        /\ pc' = [q \in Requests |-> IF q \in dying THEN "crashed" ELSE pc[q]]
        /\ slot' = [q \in Requests |-> IF q \in dying THEN NoReplica ELSE slot[q]]
        /\ overtime' = [q \in Requests |-> overtime[q] /\ q \notin dying]
        /\ UNCHANGED <<rows, fleet>>

----------------------------------------------------------------------------

Handler(q) ==
    \/ \E r \in Replicas : Claim(q, r)
    \/ GiveUp(q) \/ StreamStarted(q) \/ OpenStream(q) \/ Token(q)
    \/ AnswerEnds(q) \/ Complete(q) \/ Audit(q) \/ Fail(q) \/ Release(q)

HandlerFault(q) ==
    \/ QueryFails(q) \/ StartFails(q) \/ AnswerBreaks(q)
    \/ SettleFails(q) \/ AuditFails(q) \/ ReleaseFails(q)

Sweeps == sweepQueueTimeouts \/ sweepStallTimeouts \/ sweepFirstTokenTimeouts

Next ==
    \/ \E q \in Requests :
          \/ Arrive(q) \/ Handler(q) \/ HandlerFault(q)
          \/ DeadlinePasses(q) \/ RowAges(q)
    \/ Sweeps
    \/ \E r \in Replicas : Probed(r)
    \/ RemoveModel
    \/ \E rt \in Routers : Crash(rt)

Spec == Init /\ [][Next]_vars

\* Time passes, routers sweep (a crashed one is restarted), and a handler that
\* is not crashed gets to its next await. Nothing is assumed of callers and
\* backends: a request may never arrive, an answer may never come.
Fairness ==
    /\ WF_vars(sweepQueueTimeouts)
    /\ WF_vars(sweepStallTimeouts)
    /\ WF_vars(sweepFirstTokenTimeouts)
    /\ \A q \in Requests :
          /\ WF_vars(RowAges(q)) /\ WF_vars(DeadlinePasses(q))
          /\ WF_vars(GiveUp(q)) /\ WF_vars(StreamStarted(q))
          /\ WF_vars(OpenStream(q)) /\ WF_vars(Complete(q))
          /\ WF_vars(Audit(q)) /\ WF_vars(Fail(q)) /\ WF_vars(Release(q))
          /\ WF_vars(overtime[q] /\ AnswerBreaks(q))

FairSpec == Spec /\ Fairness

----------------------------------------------------------------------------
(* What must hold. *)

\* Every variable keeps its type; in particular in_flight never goes below 0.
TypeOK ==
    /\ pc \in [Requests -> Live \cup Ended \cup {"idle"}]
    /\ slot \in [Requests -> Replicas \cup {NoReplica}]
    /\ overtime \in [Requests -> BOOLEAN]
    /\ status \in [Requests -> Statuses]
    /\ replicaId \in [Requests -> Replicas \cup {NoReplica}]
    /\ tokens \in [Requests -> 0..MaxTokens]
    /\ overdue \in [Requests -> BOOLEAN]
    /\ inFlight \in [Replicas -> Nat]
    /\ ready \subseteq Replicas
    /\ registered \in BOOLEAN

\* The handlers that claimed a slot of r and have not given it back.
HoldingAt == {"claimed", "started", "streaming", "settling", "failing", "releasing"}
Holding(r) == {q \in Requests : slot[q] = r /\ pc[q] \in HoldingAt}

\* The requests the backend of r is answering.
Serving(r) == {q \in Requests : slot[q] = r /\ pc[q] = "streaming"}

\* No claim, from any router, takes in_flight past max_concurrency.
CeilingRespected == \A r \in Replicas : inFlight[r] <= MaxConcurrency[r]

\* A replica is never answering more requests than its ceiling: a slot is not
\* given back while its stream runs, nor given back twice, which would let a
\* further request in.
NoOversubscription ==
    \A r \in Replicas : Cardinality(Serving(r)) <= MaxConcurrency[r]

\* Every handler between its claim and its release is counted in in_flight,
\* whichever awaits fail meanwhile, as long as there is a row to count it in.
SlotsCovered ==
    registered => \A r \in Replicas : Cardinality(Holding(r)) <= inFlight[r]

\* in_flight is exactly the number of handlers holding a slot: none is lost.
SlotsExact == \A r \in Replicas : inFlight[r] = Cardinality(Holding(r))

\* Once no handler is at work every slot is free again.
IdleMeansFree ==
    (\A q \in Requests : pc[q] \notin Live) => \A r \in Replicas : inFlight[r] = 0

\* While the backend is answering, the row is open or was failed by a sweep of
\* the generation clocks: the queue sweep never fails a request at a replica,
\* and no other request's failure reaches this row.
ServedRowOpen ==
    \A q \in Requests : pc[q] \in {"started", "streaming", "settling"} =>
        status[q] \in {"streaming", "stall_timeout"}

\* What the caller was told is what the row says, and no sweep that runs
\* later, or ran meanwhile, changes it.
AnswerMatchesRow ==
    \A q \in Requests :
        /\ pc[q] = "answered" => status[q] = "completed"
        /\ pc[q] = "timedout" => status[q] = "queue_timeout"
        /\ pc[q] = "failed" =>
              status[q] \in {"stall_timeout", "replica_unavailable", "error"}

\* A request that timed out in the queue stays failed.
QueueTimeoutIsFinal ==
    [][\A q \in Requests : status[q] = "queue_timeout" => status'[q] = "queue_timeout"]_vars

\* The faults of a run leave the accounting exact: none falls between a claim
\* and the block that gives the slot back, and nothing fails after a
\* completion inside a block that gives it back again.
Lossless ==
    /\ Faults \cap {"placement", "start", "release", "crash", "removal"} = {}
    /\ \A q \in Requests :
          /\ "backend" \in Faults => Kind[q] # "embed"
          /\ "settle" \in Faults => Kind[q] = "stream"
          /\ "audit" \in Faults => Kind[q] # "stream"

\* The lifecycle keeps the scheduler's promise: each step takes one slot below
\* the ceiling for one request, gives one back, or touches none.
Ledger == INSTANCE SlotLedger
              WITH holders <- [r \in Replicas |-> Holding(r)], load <- inFlight
SlotsKeptAsPromised == Ledger!LedgerSpec

\* No row stays open: whatever fails, and wherever a router dies, the sweeps
\* or the handler bring it to a terminal status for good.
EveryRowSettles ==
    \A q \in Requests : (status[q] # "none") ~> [](status[q] \in Terminal)

\* A caller of the chat endpoint hears back, however silent the backend is,
\* unless its router dies.
EveryCallerAnswered ==
    \A q \in Requests : (Kind[q] # "embed" /\ pc[q] = "waiting") ~> (pc[q] \in Ended)

=============================================================================
