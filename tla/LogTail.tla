------------------------------ MODULE LogTail ------------------------------
(***************************************************************************)
(* The live log of a replica in the dashboard: what the model server       *)
(* prints, the tail the router opens on it, the mask put over prompts and  *)
(* completions on the way, and the viewer at the other end of a proxy.     *)
(*                                                                         *)
(* A printed line is represented by what the parser and the redactor tell  *)
(* apart. A tail replays lines printed before and follows; a viewer whose  *)
(* stream ends reconnects by itself. Of the panel, only what the present   *)
(* connection added is kept: the component appends to what it has.         *)
(***************************************************************************)
EXTENDS Naturals, Sequences

CONSTANTS Viewers,
          TailLines,   \* the lines asked for from before the connection
          MaxPrinted,  \* bound on what the server prints
          MaxOrphans   \* bound on the tails that are left running

ASSUME LogAssumption == TailLines \in Nat /\ MaxPrinted \in Nat /\ MaxOrphans \in Nat

\* An opener announces a dump ("prompt:"); content has no mark of its own unless
\* it is "marked" with a chat template's; a record has the shape of a log line,
\* a "prefixed" one only in the level it starts with; a probe is a /health hit.
LineKinds == {"opener", "content", "marked", "record", "prefixed", "probe"}

VARIABLES
    printed,    \* what the server has printed
    viewer,     \* whether a panel is open
    route,      \* the handler of /api/logs for it
    closed,     \* whether the handler has been told that the client is gone
    text,       \* the tail is plain text, parsed line by line; else framed
    from, pos,  \* the first line of the tail, and the next one
    inBlock,    \* the redactor of the tail: a dump is open
    shown,      \* what the connection has brought: line, and whether masked
    orphans     \* tails nothing will cancel

connection == <<route, closed, text, from, pos, inBlock, shown>>
logVars == <<printed, viewer, connection, orphans>>

LogInit ==
    /\ printed = <<>>
    /\ viewer = [v \in Viewers |-> "away"]
    /\ route = [v \in Viewers |-> "none"]
    /\ closed = [v \in Viewers |-> FALSE]
    /\ text = [v \in Viewers |-> FALSE]
    /\ from = [v \in Viewers |-> 1] /\ pos = [v \in Viewers |-> 1]
    /\ inBlock = [v \in Viewers |-> FALSE]
    /\ shown = [v \in Viewers |-> {}]
    /\ orphans = 0

EmitLine ==
    /\ Len(printed) < MaxPrinted
    /\ \E kind \in LineKinds : printed' = Append(printed, kind)
    /\ UNCHANGED <<viewer, connection, orphans>>

\* The panel opens an EventSource on the route; so does a stream that has ended.
Request(v) ==
    /\ route[v] = "none"
    /\ route' = [route EXCEPT ![v] = "opening"]
    /\ closed' = [closed EXCEPT ![v] = FALSE]
    /\ shown' = [shown EXCEPT ![v] = {}]
    /\ UNCHANGED <<printed, text, from, pos, inBlock, orphans>>

Watch(v) ==
    /\ viewer[v] = "away"
    /\ viewer' = [viewer EXCEPT ![v] = "watching"]
    /\ Request(v)

Reconnect(v) ==
    /\ viewer[v] = "watching"
    /\ Request(v)
    /\ UNCHANGED viewer

Leave(v) ==
    /\ viewer[v] = "watching"
    /\ viewer' = [viewer EXCEPT ![v] = "away"]
    /\ UNCHANGED <<printed, connection, orphans>>

\* forward: the proxy passes the abort of a read on to the router.
Aborted(v) == viewer[v] = "away" /\ route[v] # "none" /\ ~closed[v]

\* Mutant of Close: the tail is not cancelled.
Close_KeepsTail(v) ==
    /\ Aborted(v)
    /\ closed' = [closed EXCEPT ![v] = TRUE]
    /\ UNCHANGED <<printed, viewer, route, text, from, pos, inBlock, shown, orphans>>

\* The router's request closes: the tail is cancelled, if there is one yet.
Close(v) ==
    /\ Aborted(v)
    /\ closed' = [closed EXCEPT ![v] = TRUE]
    /\ route' = [route EXCEPT ![v] = IF @ = "streaming" THEN "none" ELSE @]
    /\ UNCHANGED <<printed, viewer, text, from, pos, inBlock, shown, orphans>>

\* The tails there are: the cluster gives the last lines as text; of a server's
\* own two, llama-swap replays all it has, and the other frames what it sends.
TailStart == IF Len(printed) > TailLines THEN Len(printed) - TailLines + 1 ELSE 1

TailFromKubernetes == {[asText |-> TRUE, start |-> TailStart]}
TailFromEndpoint == {[asText |-> TRUE, start |-> 1], [asText |-> FALSE, start |-> TailStart]}

\* tailReplicaLogs: the replica's row is found and the tail is opened, with a
\* redactor of its own. A client that closed meanwhile is not looked for.
Attach(v) ==
    /\ route[v] = "opening"
    /\ \/ /\ ~closed[v]
          /\ route' = [route EXCEPT ![v] = "streaming"]
          /\ \E tail \in TailFromKubernetes \cup TailFromEndpoint :
                /\ text' = [text EXCEPT ![v] = tail.asText]
                /\ from' = [from EXCEPT ![v] = tail.start]
                /\ pos' = [pos EXCEPT ![v] = tail.start]
          /\ inBlock' = [inBlock EXCEPT ![v] = FALSE]
          /\ UNCHANGED orphans
       \/ /\ closed[v]
          /\ orphans < MaxOrphans
          /\ orphans' = orphans + 1
          /\ route' = [route EXCEPT ![v] = "none"]
          /\ UNCHANGED <<text, from, pos, inBlock>>
    /\ UNCHANGED <<printed, viewer, closed, shown>>

\* No such replica, no log source, or the source refuses: the stream says so
\* and ends.
AttachFails(v) ==
    /\ route[v] = "opening"
    /\ route' = [route EXCEPT ![v] = "none"]
    /\ UNCHANGED <<printed, viewer, closed, text, from, pos, inBlock, shown, orphans>>

\* parseLine drops the hits of a readiness probe and takes the level off a line
\* that begins with one; a framed line has been parsed by who sent it.
IsDropped(v, kind) == text[v] /\ kind = "probe"
LooksLikeLogLine(v, kind) == kind = "record" \/ (kind = "prefixed" /\ ~text[v])

\* Mutant of Redact: a dump is taken to be the line that opens it.
Redact_OneLine(v, kind) ==
    /\ inBlock' = [inBlock EXCEPT ![v] = FALSE]
    /\ shown' = [shown EXCEPT ![v] = @ \cup
                  {[line |-> pos[v], masked |-> kind \in {"opener", "marked"}]}]

\* createRedactor: an opener begins a block, which lasts until a line that looks
\* like a log record.
Redact(v, kind) ==
    /\ inBlock' = [inBlock EXCEPT ![v] =
                     \/ kind = "opener"
                     \/ @ /\ ~LooksLikeLogLine(v, kind)]
    /\ shown' = [shown EXCEPT ![v] = @ \cup
                  {[line |-> pos[v],
                    masked |-> \/ kind \in {"opener", "marked"}
                               \/ inBlock[v] /\ ~LooksLikeLogLine(v, kind)]}]

DeliverLine(v) ==
    /\ route[v] = "streaming"
    /\ pos[v] <= Len(printed)
    /\ pos' = [pos EXCEPT ![v] = @ + 1]
    /\ IF IsDropped(v, printed[pos[v]])
       THEN UNCHANGED <<inBlock, shown>>
       ELSE Redact(v, printed[pos[v]])
    /\ UNCHANGED <<printed, viewer, route, closed, text, from, orphans>>

\* The replica stops, or the connection to it fails.
TailEnds(v) ==
    /\ route[v] = "streaming"
    /\ route' = [route EXCEPT ![v] = "none"]
    /\ UNCHANGED <<printed, viewer, closed, text, from, pos, inBlock, shown, orphans>>

OrphanEnds ==
    /\ orphans > 0
    /\ orphans' = orphans - 1
    /\ UNCHANGED <<printed, viewer, connection>>

LogNext ==
    \/ EmitLine \/ OrphanEnds
    \/ \E v \in Viewers :
          \/ Watch(v) \/ Reconnect(v) \/ Leave(v) \/ Close(v)
          \/ Attach(v) \/ AttachFails(v) \/ DeliverLine(v) \/ TailEnds(v)

\* A close reaches the router, and what a tail has is passed on.
LogFairness == \A v \in Viewers : WF_logVars(Close(v)) /\ WF_logVars(DeliverLine(v))

LogSpec == LogInit /\ [][LogNext]_logVars
FairLogSpec == LogSpec /\ LogFairness

-----------------------------------------------------------------------------

LogTypeOK ==
    /\ printed \in Seq(LineKinds) /\ Len(printed) <= MaxPrinted
    /\ viewer \in [Viewers -> {"away", "watching"}]
    /\ route \in [Viewers -> {"none", "opening", "streaming"}]
    /\ closed \in [Viewers -> BOOLEAN] /\ text \in [Viewers -> BOOLEAN]
    /\ from \in [Viewers -> 1..(MaxPrinted + 1)] /\ pos \in [Viewers -> 1..(MaxPrinted + 1)]
    /\ inBlock \in [Viewers -> BOOLEAN]
    /\ shown \in [Viewers -> SUBSET [line : 1..MaxPrinted, masked : BOOLEAN]]
    /\ orphans \in 0..MaxOrphans

\* A line is content as far as this stream can tell: it is marked, it opens a
\* dump, or a dump was opened after the stream began and no record came since.
IsContent(v, n) ==
    \/ printed[n] \in {"opener", "marked"}
    \/ \E o \in from[v]..(n - 1) :
          /\ printed[o] = "opener"
          /\ \A m \in (o + 1)..n : ~LooksLikeLogLine(v, printed[m])

\* A viewer is shown every line of its stream that is no probe, with content
\* masked and all else as it is: no sequence of lines, dropped ones included,
\* and no other viewer's stream makes the redactor lose a dump or mask on.
RedactionExact ==
    \A v \in Viewers : route[v] = "streaming" =>
        shown[v] = {[line |-> n, masked |-> IsContent(v, n)] :
                      n \in {m \in from[v]..(pos[v] - 1) : ~IsDropped(v, printed[m])}}

\* A tail whose viewer leaves is released: only one that was still being opened
\* when the client closed runs on.
TailReleased ==
    \A v \in Viewers :
        route[v] = "streaming" /\ viewer[v] = "away" ~> route[v] # "streaming"

=============================================================================
