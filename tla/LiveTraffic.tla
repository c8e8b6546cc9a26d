---------------------------- MODULE LiveTraffic ----------------------------
(***************************************************************************)
(* The traffic simulator's live mode: a driver that starts requests at a   *)
(* rate, never more at once than it is told to, and on an interrupt or at  *)
(* the end of its time waits for those in flight and reports.              *)
(*                                                                         *)
(* Each request is built to be routed to a certain model of the demo       *)
(* registry, or to be refused, and the driver counts those that came back  *)
(* from another. What the router makes of a request is what Routing says.  *)
(***************************************************************************)
EXTENDS Routing, FiniteSets

CONSTANTS Concurrency,   \* requests in flight at once
          MaxRequests    \* bound on the requests begun

ASSUME LiveAssumption == Concurrency \in Nat \ {0} /\ MaxRequests \in Nat

VARIABLES
    driver,      \* where the driver is
    stopping,    \* it has been interrupted
    overdue,     \* its time is over
    asking,      \* the requests in flight: what each was built to do, how far it is
    tally,       \* what the report is made of
    late         \* requests begun after the interrupt or the end of the time

liveVars == <<driver, stopping, overdue, asking, tally, late>>

-----------------------------------------------------------------------------
(* What is asked, and of which models.                                     *)

\* seed: the registry of the demo, in the order of its ids.
Seeded(id, class, capabilities) ==
    [id |-> id, modelClass |-> class, capabilities |-> capabilities]
DemoRegistry ==
    <<Seeded("ember-embed", "embedding", {"embeddings"}),
      Seeded("kestrel-9b", "fast", {"chat", "tools"}),
      Seeded("lark-vision", "vision", {"chat", "vision"}),
      Seeded("ornith-35b", "large", {"chat", "tools"})>>

\* One prompt, in a request of its own.
Chat(name, form, tools, signals) ==
    Asking("chat", name, <<Message("user", form, 1)>>, tools, signals)

\* buildRequest: what a persona asks, and the model the mix expects to answer.
BuiltRequests ==
    LET Expecting(request, model) == [request |-> request, model |-> model, fails |-> FALSE]
    IN  {Expecting(Chat("auto", "text", FALSE, {}), "kestrel-9b"),
         Expecting(Chat("auto", "text", FALSE, {"reasoning"}), "ornith-35b"),
         Expecting(Chat("auto", "image", FALSE, {}), "lark-vision"),
         Expecting(Embedding("auto"), "ember-embed"),
         Expecting(Chat("auto", "text", TRUE, {}), "kestrel-9b")}
        \cup {Expecting(Chat(name, "text", FALSE, {}), name) : name \in {"ornith-35b", "kestrel-9b"}}

\* buildFailingRequest: no model has what is asked of it, or there is no such model.
FailingRequests ==
    LET Failing(request) == [request |-> request, model |-> "none", fails |-> TRUE]
    IN  {Failing(Chat("kestrel-9b", "image", FALSE, {})),
         Failing(Embedding("kestrel-9b")),
         Failing(Chat("does-not-exist-7b", "text", FALSE, {}))}

\* The requests in flight each have a ticket, of as many as the driver may need.
Tickets == 1..(Concurrency + 1)
Free == [spec |-> [request |-> Unasked, model |-> "none", fails |-> FALSE], stage |-> "none"]

Selection(n) == SelectModel(asking[n].spec.request, DemoRegistry)

InFlight == {n \in Tickets : asking[n] # Free}
Ending == stopping \/ overdue

-----------------------------------------------------------------------------

NoTally == [sent |-> 0, completed |-> 0, failed |-> 0, mismatched |-> 0]

LiveInit ==
    /\ driver = "minting"
    /\ stopping = FALSE /\ overdue = FALSE
    /\ asking = [n \in Tickets |-> Free]
    /\ tally = NoTally
    /\ late = 0

\* A token for every persona, or the driver gives up: the router has no route
\* for it unless it runs with fake adapters.
MintTokens ==
    /\ driver = "minting"
    /\ driver' \in {"head", "exited"}
    /\ UNCHANGED <<stopping, overdue, asking, tally, late>>

\* sendOne, up to its first await.
SendOne ==
    /\ tally.sent < MaxRequests
    /\ \E n \in Tickets \ InFlight, spec \in BuiltRequests \cup FailingRequests :
          /\ \A m \in Tickets \ InFlight : n <= m
          /\ asking' = [asking EXCEPT ![n] = [spec |-> spec, stage |-> "asked"]]
    /\ tally' = [tally EXCEPT !.sent = @ + 1]
    /\ late' = late + (IF Ending THEN 1 ELSE 0)
    /\ driver' = "pausing"
    /\ UNCHANGED <<stopping, overdue>>

\* The head of the loop: with room the request goes out at once, else the
\* driver waits for one of those in flight, and does not look again.
LoopHead ==
    /\ driver = "head"
    /\ \/ /\ Ending
          /\ driver' = "draining"
          /\ UNCHANGED <<stopping, overdue, asking, tally, late>>
       \/ /\ ~Ending /\ Cardinality(InFlight) < Concurrency
          /\ SendOne
       \/ /\ ~Ending /\ Cardinality(InFlight) >= Concurrency
          /\ driver' = "waiting"
          /\ UNCHANGED <<stopping, overdue, asking, tally, late>>

\* Mutant of Backpressure: any answer lets the driver go on, room or not.
Backpressure_Once == driver = "waiting" /\ SendOne

Backpressure ==
    /\ driver = "waiting"
    /\ Cardinality(InFlight) < Concurrency
    /\ SendOne

Interval ==
    /\ driver = "pausing"
    /\ driver' = "head"
    /\ UNCHANGED <<stopping, overdue, asking, tally, late>>

Settles(n, count) ==
    /\ asking' = [asking EXCEPT ![n] = Free]
    /\ tally' = count
    /\ UNCHANGED <<driver, stopping, overdue, late>>

OneMoreFailed == [tally EXCEPT !.failed = @ + 1]

\* The router answers a request that it can route; one it cannot, or has no
\* replica for in time, it refuses; and a connection may break.
RouterAnswers(n) ==
    /\ asking[n].stage = "asked"
    /\ Selection(n).ok
    /\ asking' = [asking EXCEPT ![n].stage = "answering"]
    /\ UNCHANGED <<driver, stopping, overdue, tally, late>>

CallFails(n) == n \in InFlight /\ Settles(n, OneMoreFailed)

\* drainStream: the model is the one the frames name. A stream that reports an
\* error is a stream that ended, perhaps before any frame named a model.
BodyEnds(n) ==
    /\ asking[n].stage = "answering"
    /\ \E model \in {"none", Selection(n).model.id} :
          Settles(n, [tally EXCEPT !.completed = @ + 1,
                       !.mismatched = @ + IF model \in {"none", asking[n].spec.model} THEN 0 ELSE 1])

\* ctrl-c: the first one stops the loop, the second one the process; so does one
\* before the loop, where nobody listens for it. What the process held is gone.
Interrupt ==
    /\ driver \notin {"done", "exited"}
    /\ IF driver = "minting" \/ stopping
       THEN /\ driver' = "exited"
            /\ asking' = [n \in Tickets |-> Free] /\ tally' = NoTally
            /\ UNCHANGED stopping
       ELSE /\ stopping' = TRUE
            /\ UNCHANGED <<driver, asking, tally>>
    /\ UNCHANGED <<overdue, late>>

DeadlinePassed ==
    /\ driver \notin {"minting", "done", "exited"}
    /\ ~overdue
    /\ overdue' = TRUE
    /\ UNCHANGED <<driver, stopping, asking, tally, late>>

\* The final report, when every request has settled.
Drained ==
    /\ driver = "draining"
    /\ InFlight = {}
    /\ driver' = "done"
    /\ UNCHANGED <<stopping, overdue, asking, tally, late>>

LiveNext ==
    \/ MintTokens \/ LoopHead \/ Backpressure \/ Interval \/ Interrupt \/ DeadlinePassed \/ Drained
    \/ \E n \in Tickets : RouterAnswers(n) \/ CallFails(n) \/ BodyEnds(n)

LiveSpec == LiveInit /\ [][LiveNext]_liveVars

-----------------------------------------------------------------------------

\* What the driver holds is of its type.
LiveTypeOK ==
    /\ driver \in {"minting", "head", "waiting", "pausing", "draining", "done", "exited"}
    /\ stopping \in BOOLEAN /\ overdue \in BOOLEAN
    /\ asking \in [Tickets -> [spec : BuiltRequests \cup FailingRequests,
                              stage : {"asked", "answering"}] \cup {Free}]
    /\ tally \in [sent : Nat, completed : Nat, failed : Nat, mismatched : Nat]
    /\ late \in Nat

\* The driver never asks more of the router at once than it is told to, begins
\* one request at most after it was stopped (the one that waited for room), and
\* reports only when each request it began has been counted, once.
LoadIsReal ==
    /\ Cardinality(InFlight) <= Concurrency
    /\ late <= 1
    /\ tally.sent = tally.completed + tally.failed + Cardinality(InFlight)
    /\ driver = "done" => InFlight = {}

\* Over the demo registry the mix is an assertion that holds: no request comes
\* back from a model it was not built for, and none that was built to fail is
\* answered.
TrafficAsExpected ==
    /\ tally.mismatched = 0
    /\ \A n \in Tickets : asking[n].stage = "answering" => ~asking[n].spec.fails

=============================================================================
