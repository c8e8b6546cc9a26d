----------------------------- MODULE Placement -----------------------------
(***************************************************************************)
(* How placeRequest chooses: the replica that holds the conversation if it *)
(* has room, else the least loaded and, of those, the one that is fastest  *)
(* or has not been measured lately; what it records of the choice; and the *)
(* demand that KEDA is shown in consequence.                               *)
(*                                                                         *)
(* A request of the model is a caller who sends one turn after another,    *)
(* with a conversation's key or with none. An action is one statement on   *)
(* the shared database, but for completeRequest, whose transaction holds   *)
(* the replica's row from its UPDATE to its COMMIT: a placement skips the  *)
(* row meanwhile. What may fail between a claim and its release is in      *)
(* RequestLifecycle, and how rows come to be in Fleet.                     *)
(***************************************************************************)
EXTENDS Naturals, FiniteSets

CONSTANTS Requests, Replicas,
          Keys,             \* affinity keys
          KeyOf,            \* the key of each request, or NoKey
          MaxConcurrency,
          MaxRate,          \* bound: throughputs are told apart up to this
          Debounce,         \* of requestScaleUp
          Window,           \* withinMs of wantsScaleUp
          PollEvery,        \* KEDA's pollingInterval
          NoReplica, NoKey

ASSUME PlacementAssumption ==
    /\ IsFiniteSet(Requests) /\ IsFiniteSet(Replicas)
    /\ KeyOf \in [Requests -> Keys \cup {NoKey}]
    /\ NoKey \notin Keys
    /\ NoReplica \notin Replicas
    /\ MaxConcurrency \in [Replicas -> Nat \ {0}]
    /\ MaxRate \in Nat \ {0}
    /\ Debounce \in Nat /\ Window \in Nat /\ PollEvery \in Nat

VARIABLES
    \* the handler of each request
    pc,         \* the statement it is at
    slot,       \* the replica it was placed on
    target,     \* what lookupAffinity returned
    first,      \* old_in_flight was 0
    \* table replicas
    present,    \* the replicas that have a row
    ready,      \* ... with status 'ready'
    inFlight,
    rate,       \* tokens_per_sec; 0 for NULL
    fresh,      \* tokens_per_sec_at is within THROUGHPUT_FRESH_MS
    \* table replica_affinity
    affinity,   \* replica_id of each key; NoReplica if there is no row
    live,       \* the keys used within the TTL
    \* table scale_signals and KEDA
    signalAge,  \* time since requested_at, up to Window
    pollAge,    \* time since the last poll began
    poll,       \* "none", or what the poll under way has read of the signal
    \* history
    last,       \* where the last turn of each conversation was placed
    recent,     \* replicas measured since the last placement by load
    unseen,     \* requestScaleUp has returned and no poll has begun since
    owed        \* ... or none had when the poll under way began

handler == <<pc, slot, target, first>>
fleet == <<present, ready>>
table == <<affinity, live>>
scaling == <<signalAge, pollAge, poll, owed, unseen>>
vars == <<handler, fleet, inFlight, rate, fresh, table, scaling, last, recent>>

Entry(q) == IF KeyOf[q] = NoKey THEN "general" ELSE "lookup"

Init ==
    /\ pc = [q \in Requests |-> "idle"]
    /\ slot = [q \in Requests |-> NoReplica]
    /\ target = [q \in Requests |-> NoReplica]
    /\ first = [q \in Requests |-> FALSE]
    /\ present = Replicas
    /\ ready \in SUBSET Replicas
    /\ inFlight = [r \in Replicas |-> 0]
    /\ rate = [r \in Replicas |-> 0]
    /\ fresh = {}
    /\ affinity = [k \in Keys |-> NoReplica]
    /\ live = {}
    /\ signalAge = Window
    /\ pollAge = 0
    /\ last = [k \in Keys |-> NoReplica]
    /\ recent = {}
    /\ poll = "none"
    /\ unseen = FALSE
    /\ owed = FALSE

----------------------------------------------------------------------------
(* placeRequest, in the order of its statements. *)

Goto(q, from, to) == pc[q] = from /\ pc' = [pc EXCEPT ![q] = to]

Arrive(q) ==
    /\ Goto(q, "idle", Entry(q))
    /\ UNCHANGED <<slot, target, first, fleet, inFlight, rate, fresh, table,
                   scaling, last, recent>>

\* Only an affinity used within the TTL is returned.
lookupAffinity(k) == IF k \in live THEN affinity[k] ELSE NoReplica

Lookup(q) ==
    LET found == lookupAffinity(KeyOf[q])
    IN  /\ Goto(q, "lookup", IF found = NoReplica THEN "general" ELSE "aimed")
        /\ target' = [target EXCEPT ![q] = found]
        /\ UNCHANGED <<slot, first, fleet, inFlight, rate, fresh, table,
                       scaling, last, recent>>

\* Rows that an open completeRequest has written.
Locked == {slot[q] : q \in {p \in Requests : pc[p] = "committing"}}

\* Mutant of HasRoom: affinity is a pin, whatever the replica is serving.
HasRoom_Unbounded(r) == r \in ready \ Locked

HasRoom(r) == r \in ready \ Locked /\ inFlight[r] < MaxConcurrency[r]

\* A claim, by either statement.
Take(q, r) ==
    /\ inFlight' = [inFlight EXCEPT ![r] = @ + 1]
    /\ slot' = [slot EXCEPT ![q] = r]
    /\ target' = [target EXCEPT ![q] = NoReplica]
    /\ first' = [first EXCEPT ![q] = inFlight[r] = 0]
    /\ last' = [k \in Keys |-> IF k = KeyOf[q] THEN r ELSE last[k]]
    /\ UNCHANGED <<fleet, rate, fresh, table, scaling>>

\* The replica of the conversation, if it still has room.
AffineClaim(q) ==
    /\ HasRoom(target[q])
    /\ Goto(q, "aimed", IF inFlight[target[q]] = 0 THEN "hitSignal" ELSE "hitRecord")
    /\ Take(q, target[q])
    /\ UNCHANGED recent

\* Mutant of AffineMiss: the conversation waits for its replica.
AffineMiss_Waits(q) ==
    /\ ~HasRoom(target[q])
    /\ Goto(q, "aimed", Entry(q))
    /\ target' = [target EXCEPT ![q] = NoReplica]
    /\ UNCHANGED <<slot, first, fleet, inFlight, rate, fresh, table,
                   scaling, last, recent>>

\* Busy or gone: fall through.
AffineMiss(q) ==
    /\ ~HasRoom(target[q])
    /\ Goto(q, "aimed", "general")
    /\ target' = [target EXCEPT ![q] = NoReplica]
    /\ UNCHANGED <<slot, first, fleet, inFlight, rate, fresh, table,
                   scaling, last, recent>>

\* Mutant of Throughput: a reading is trusted for ever.
Throughput_NeverStale(r) == rate[r]

\* A reading that is too old counts as none.
Throughput(r) == IF r \in fresh THEN rate[r] ELSE 0

\* ORDER BY in_flight, throughput DESC NULLS FIRST. Of replicas equal in both
\* load_pct, a figure of the last reconcile pass, and the id decide: any.
Precedes(r, s) ==
    \/ inFlight[r] < inFlight[s]
    \/ /\ inFlight[r] = inFlight[s]
       /\ Throughput(s) # 0
       /\ Throughput(r) = 0 \/ Throughput(r) > Throughput(s)

GeneralClaim(q, r) ==
    /\ HasRoom(r)
    /\ \A s \in Replicas : HasRoom(s) => ~Precedes(s, r)
    /\ Goto(q, "general",
            IF KeyOf[q] # NoKey THEN "record"
            ELSE IF inFlight[r] = 0 THEN "signal" ELSE "placed")
    /\ Take(q, r)
    /\ recent' = {}

\* needsQueue: the caller polls again.
GeneralMiss(q) ==
    /\ \A r \in Replicas : ~HasRoom(r)
    /\ Goto(q, "general", Entry(q))
    /\ UNCHANGED <<slot, target, first, fleet, inFlight, rate, fresh, table,
                   scaling, last, recent>>

\* Mutant of recordAffinity: ON CONFLICT only the time is updated.
recordAffinity_KeepsReplica(k, r) ==
    /\ affinity' = [affinity EXCEPT ![k] = IF @ = NoReplica THEN r ELSE @]
    /\ live' = live \cup {k}

recordAffinity(k, r) ==
    /\ affinity' = [affinity EXCEPT ![k] = r]
    /\ live' = live \cup {k}

\* After a general claim the record comes before the signal, after an affine
\* one behind it. The row is marked as streaming with the last of them.
Record(q) ==
    /\ \/ Goto(q, "hitRecord", "placed")
       \/ Goto(q, "record", IF first[q] THEN "signal" ELSE "placed")
    /\ recordAffinity(KeyOf[q], slot[q])
    /\ UNCHANGED <<slot, target, first, fleet, inFlight, rate, fresh,
                   scaling, last, recent>>

\* Mutant of requestScaleUp: ON CONFLICT DO NOTHING.
requestScaleUp_Once == signalAge' = signalAge

\* A signal younger than the debounce stands for this one.
requestScaleUp == signalAge' = IF signalAge > Debounce THEN 0 ELSE signalAge

Signal(q) ==
    /\ \/ Goto(q, "hitSignal", "hitRecord")
       \/ Goto(q, "signal", "placed")
    /\ requestScaleUp
    /\ unseen' = TRUE
    /\ UNCHANGED <<slot, target, first, fleet, inFlight, rate, fresh, table,
                   pollAge, poll, owed, last, recent>>

----------------------------------------------------------------------------
(* The end of an answer. *)

Leave(q, from) ==
    /\ Goto(q, from, "idle")
    /\ slot' = [slot EXCEPT ![q] = NoReplica]
    /\ first' = [first EXCEPT ![q] = FALSE]
    /\ inFlight' = [r \in Replicas |->
                       IF r = slot[q] /\ inFlight[r] > 0 THEN inFlight[r] - 1
                                                         ELSE inFlight[r]]
    /\ UNCHANGED <<target, fleet, table, scaling, last>>

\* completeRequest up to its UPDATE of the replica.
Completing(q) ==
    /\ Goto(q, "placed", "committing")
    /\ UNCHANGED <<slot, target, first, fleet, inFlight, rate, fresh, table,
                   scaling, last, recent>>

\* Its COMMIT, of an answer too short to be measured ...
CommitShort(q) ==
    /\ Leave(q, "committing")
    /\ UNCHANGED <<rate, fresh, recent>>

\* ... and of one that moves the average towards its own throughput.
CommitMeasured(q) ==
    LET r == slot[q] IN
    /\ r \in present
    /\ \E v \in 1..MaxRate : rate' = [rate EXCEPT ![r] = v]
    /\ fresh' = fresh \cup {r}
    /\ recent' = recent \cup {r}
    /\ Leave(q, "committing")

\* failRequest.
Fail(q) ==
    /\ Leave(q, "placed")
    /\ UNCHANGED <<rate, fresh, recent>>

----------------------------------------------------------------------------
(* The fleet, time, and KEDA. *)

Probed(r) ==
    /\ r \in present
    /\ \/ r \in ready /\ ready' = ready \ {r}
       \/ r \notin ready /\ ready' = ready \cup {r}
    /\ UNCHANGED <<handler, present, inFlight, rate, fresh, table, scaling,
                   last, recent>>

\* Mutant of Removed: the row is marked as gone and goes on being 'ready'.
Removed_StaysReady(r) ==
    /\ r \in present
    /\ present' = present \ {r}
    /\ inFlight' = [inFlight EXCEPT ![r] = 0]
    /\ rate' = [rate EXCEPT ![r] = 0]
    /\ fresh' = fresh \ {r}
    /\ recent' = recent \ {r}
    /\ UNCHANGED <<handler, ready, table, scaling, last>>

\* A pod is scaled away.
Removed(r) ==
    /\ r \in present
    /\ present' = present \ {r}
    /\ ready' = ready \ {r}
    /\ inFlight' = [inFlight EXCEPT ![r] = 0]
    /\ rate' = [rate EXCEPT ![r] = 0]
    /\ fresh' = fresh \ {r}
    /\ recent' = recent \ {r}
    /\ UNCHANGED <<handler, table, scaling, last>>

ReadingAges(r) ==
    /\ r \in fresh
    /\ fresh' = fresh \ {r}
    /\ UNCHANGED <<handler, fleet, inFlight, rate, table, scaling, last,
                   recent>>

AffinityAges(k) ==
    /\ k \in live
    /\ live' = live \ {k}
    /\ UNCHANGED <<handler, fleet, inFlight, rate, fresh, affinity, scaling,
                   last, recent>>

sweepAffinities ==
    LET dropped == {k \in Keys : affinity[k] # NoReplica
                                 /\ (k \notin live \/ affinity[k] \notin present)}
    IN  /\ dropped # {}
        /\ affinity' = [k \in Keys |-> IF k \in dropped THEN NoReplica ELSE affinity[k]]
        /\ live' = live \ dropped
        /\ UNCHANGED <<handler, fleet, inFlight, rate, fresh, scaling, last,
                       recent>>

\* Time as the signal and KEDA's next poll measure it.
Tick ==
    /\ pollAge < PollEvery
    /\ pollAge' = pollAge + 1
    /\ signalAge' = IF signalAge < Window THEN signalAge + 1 ELSE Window
    /\ UNCHANGED <<handler, fleet, inFlight, rate, fresh, table, poll, owed,
                   unseen, last, recent>>

wantsScaleUp == signalAge < Window

\* The first of the two queries of a poll ...
PollSignal ==
    /\ poll = "none"
    /\ poll' = IF wantsScaleUp THEN "wanted" ELSE "plain"
    /\ pollAge' = 0
    /\ owed' = unseen
    /\ unseen' = FALSE
    /\ UNCHANGED <<handler, fleet, inFlight, rate, fresh, table, signalAge, last, recent>>

Queued == {q \in Requests : pc[q] \in {"lookup", "aimed", "general", "hitSignal",
                                       "hitRecord", "record", "signal"}}

\* The sum of in_flight over the rows, as the number of slots they hold.
Serving == UNION {{r} \X (1..inFlight[r]) : r \in present}

Demand == Cardinality(Serving) + Cardinality(Queued)

\* getKedaMetricForModel
pending_requests == Demand + (IF Demand > 0 \/ poll = "wanted" THEN 1 ELSE 0)

\* ... and the second, with the answer to KEDA.
PollDemand ==
    /\ poll # "none"
    /\ poll' = "none"
    /\ owed' = FALSE
    /\ UNCHANGED <<handler, fleet, inFlight, rate, fresh, table, signalAge,
                   pollAge, unseen, last, recent>>

----------------------------------------------------------------------------

Handler(q) ==
    \/ Arrive(q) \/ Lookup(q) \/ AffineClaim(q) \/ AffineMiss(q)
    \/ \E r \in Replicas : GeneralClaim(q, r)
    \/ Record(q) \/ Signal(q)
    \/ Completing(q) \/ CommitShort(q) \/ CommitMeasured(q)

Next ==
    \/ \E q \in Requests : Handler(q) \/ GeneralMiss(q) \/ Fail(q)
    \/ \E r \in Replicas : Probed(r) \/ Removed(r) \/ ReadingAges(r)
    \/ \E k \in Keys : AffinityAges(k)
    \/ sweepAffinities
    \/ Tick \/ PollSignal \/ PollDemand

Spec == Init /\ [][Next]_vars

\* Callers send one turn after another, handlers get to their next statement,
\* answers end, and readings grow old when there has been a placement since.
Fairness ==
    /\ \A q \in Requests : WF_vars(Handler(q))
    /\ \A r \in Replicas : WF_vars(r \notin recent /\ ReadingAges(r))

FairSpec == Spec /\ Fairness

----------------------------------------------------------------------------
(* What must hold. *)

Pcs == {"idle", "lookup", "aimed", "general", "hitSignal", "hitRecord",
        "record", "signal", "placed", "committing"}

\* Every variable keeps its type.
TypeOK ==
    /\ pc \in [Requests -> Pcs]
    /\ slot \in [Requests -> Replicas \cup {NoReplica}]
    /\ target \in [Requests -> Replicas \cup {NoReplica}]
    /\ first \in [Requests -> BOOLEAN]
    /\ present \subseteq Replicas /\ ready \subseteq present
    /\ inFlight \in [Replicas -> Nat]
    /\ rate \in [Replicas -> 0..MaxRate]
    /\ fresh \subseteq present
    /\ affinity \in [Keys -> Replicas \cup {NoReplica}]
    /\ live \subseteq Keys
    /\ signalAge \in 0..Window /\ pollAge \in 0..PollEvery
    /\ poll \in {"none", "plain", "wanted"}
    /\ last \in [Keys -> Replicas \cup {NoReplica}]
    /\ recent \subseteq present
    /\ unseen \in BOOLEAN /\ owed \in BOOLEAN

\* An affinity gives no right to a slot: by either path a replica never gets
\* more requests than its ceiling.
CeilingRespected == \A r \in Replicas : inFlight[r] <= MaxConcurrency[r]

\* Whichever way a replica is chosen, its slots are kept as the scheduler promises:
\* in_flight is the number of requests that are on it, for as long as it is there.
Held(r) == {q \in Requests : slot[q] = r}
Ledger == INSTANCE SlotLedger
              WITH holders <- [r \in Replicas |-> Held(r)],
                   load <- [r \in Replicas |-> IF r \in present THEN inFlight[r]
                                               ELSE Cardinality(Held(r))]
SlotsKeptAsPromised == Ledger!LedgerSpec

\* A preference, never a pin: a request goes back to waiting only when no
\* ready replica has room, whatever replica its conversation is at.
QueuedOnlyWhenFull ==
    [][\A q \in Requests :
          pc[q] \in {"aimed", "general"} /\ pc'[q] = "lookup" =>
              \A r \in ready \ Locked : inFlight[r] >= MaxConcurrency[r]]_vars

\* The turns of a conversation sent one by one: one that hits its affinity is
\* where the turn before it was, though that one had been displaced, the row
\* had expired, or the sweep ran in between.
HitsAreReturns ==
    [][\A q \in Requests :
          /\ pc[q] = "aimed" /\ slot'[q] # slot[q]
          /\ \A p \in Requests \ {q} : KeyOf[p] # KeyOf[q]
          => slot'[q] = last[KeyOf[q]]]_vars

\* The window outlasts the debounce and the time to the next poll (30 s against
\* 1 s and 15 s as deployed).
PollsOften == Debounce + PollEvery < Window

Asking(q) == pc[q] \in {"hitSignal", "signal"} \/ (pc[q] = "record" /\ first[q])

\* Preemptive scaling: when an idle replica has been given a request, KEDA is
\* shown demand. The slot or the row is the demand until requestScaleUp has
\* returned, and then the poll that begins next finds a signal, even if the
\* request is over by then and its own was refused for an earlier one.
FirstRequestsAreSeen ==
    [][/\ PollsOften
       /\ poll # "none" /\ poll' = "none"
       /\ owed \/ \E q \in Requests : Asking(q)
       => pending_requests > 0]_vars

\* Nothing is learnt from an answer, or what was learnt is forgotten before
\* the next placement.
Lull ==
    \/ \E q \in Requests : CommitShort(q) \/ Fail(q)
    \/ \E r \in recent : ReadingAges(r)

\* A replica that stays ready gets work again and again, however slow it was
\* measured once, as long as the fleet goes on measuring.
EveryReplicaRetried ==
    <>[][~Lull]_vars =>
        \A r \in Replicas :
            <>[](r \in ready) => []<>(\E q \in Requests : slot[q] = r)

=============================================================================
