------------------------------ MODULE Backfill ------------------------------
(***************************************************************************)
(* The traffic simulator's other mode: days of finished requests, made up  *)
(* in memory and written straight to the database, in statements of so     *)
(* many rows and no transaction: the requests first, then the content of    *)
(* those whose scope is logged. Others clear history meanwhile, and the    *)
(* run may die between two statements.                                     *)
(*                                                                         *)
(* Of a made-up row only the order and whether its content is to be kept    *)
(* matter here: not the caller, the model, the times, the cost.            *)
(***************************************************************************)
EXTENDS Naturals, Sequences, InOrder

CONSTANTS Earlier,           \* rows of the simulator's callers, from before or live
          Others,            \* rows of everybody else
          MaxGenerated,      \* bound on the rows made up
          RequestsPerChunk, ContentPerChunk   \* rows of a statement

ASSUME BackfillAssumption ==
    /\ MaxGenerated \in Nat
    /\ RequestsPerChunk \in Nat \ {0} /\ ContentPerChunk \in Nat \ {0}
    /\ Earlier \cap Others = {} /\ (Earlier \cup Others) \cap Nat = {}

VARIABLES
    simMode,     \* whether the process was started for simulation
    run,         \* where the run is
    plan,        \* the rows made up: whether each is to have content
    offset,      \* rows of the present kind that have been sent
    stored,      \* table requests
    contents,    \* table audit_content
    removed      \* rows of this run that others have deleted

backfillVars == <<simMode, run, plan, offset, stored, contents, removed>>

BackfillInit ==
    /\ simMode \in BOOLEAN
    /\ run = "started" /\ plan = <<>> /\ offset = 0
    /\ stored = Earlier \cup Others /\ contents = {}
    /\ removed = {}

Own == DOMAIN plan

\* main: outside sim mode nothing is done; without a model to attribute rows to
\* the run fails.
CheckMode ==
    /\ run = "started"
    /\ run' \in IF simMode THEN {"ready", "failed"} ELSE {"failed"}
    /\ UNCHANGED <<simMode, plan, offset, stored, contents, removed>>

\* --reset: whatever the simulator's callers ever asked, live traffic as well;
\* the content goes with it.
Reset ==
    /\ run = "ready"
    /\ run' = "reset"
    /\ stored' = stored \cap Others
    /\ contents' = contents \cap Others
    /\ UNCHANGED <<simMode, plan, offset, removed>>

\* The scopes were read once, before; what is switched now is not looked at.
Generate ==
    /\ run \in {"ready", "reset"}
    /\ run' = "requests"
    /\ \E n \in 0..MaxGenerated : plan' \in [1..n -> BOOLEAN]
    /\ UNCHANGED <<simMode, offset, stored, contents, removed>>

ContentRows == InOrder({n \in Own : plan[n]})

\* Mutant of Chunk: the row a statement ends with is left to the next one.
Chunk_ShortByOne(rows, perChunk) ==
    {rows[i] : i \in {j \in DOMAIN rows : offset < j /\ j < offset + perChunk}}

\* insertBatched: the rows of the next statement.
Chunk(rows, perChunk) ==
    {rows[i] : i \in {j \in DOMAIN rows : offset < j /\ j <= offset + perChunk}}

InsertRequests ==
    /\ run = "requests"
    /\ IF offset < Len(plan)
       THEN /\ stored' = stored \cup Chunk([n \in Own |-> n], RequestsPerChunk)
            /\ offset' = offset + RequestsPerChunk
            /\ UNCHANGED run
       ELSE /\ run' = "content" /\ offset' = 0
            /\ UNCHANGED stored
    /\ UNCHANGED <<simMode, plan, contents, removed>>

\* Content refers to its request: with one of them gone the statement fails, and
\* the run with it.
InsertContent ==
    /\ run = "content"
    /\ IF offset < Len(ContentRows)
       THEN LET chunk == Chunk(ContentRows, ContentPerChunk)
            IN  IF chunk \subseteq stored
                THEN /\ contents' = contents \cup chunk
                     /\ offset' = offset + ContentPerChunk
                     /\ UNCHANGED run
                ELSE run' = "failed" /\ UNCHANGED <<contents, offset>>
       ELSE run' = "done" /\ UNCHANGED <<contents, offset>>
    /\ UNCHANGED <<simMode, plan, stored, removed>>

RunDies ==
    /\ run \notin {"done", "failed"}
    /\ run' = "failed"
    /\ UNCHANGED <<simMode, plan, offset, stored, contents, removed>>

\* Others delete the history before a moment, or reset the simulator's rows.
OthersDelete ==
    /\ \/ \E n \in Own : stored' = {row \in stored : row \in Own /\ row > n}
       \/ stored' = stored \cap Others
    /\ contents' = contents \cap stored'
    /\ removed' = removed \cup (Own \cap (stored \ stored'))
    /\ UNCHANGED <<simMode, run, plan, offset>>

BackfillNext ==
    \/ CheckMode \/ Reset \/ Generate \/ InsertRequests \/ InsertContent \/ RunDies
    \/ OthersDelete

BackfillSpec == BackfillInit /\ [][BackfillNext]_backfillVars

-----------------------------------------------------------------------------

\* The run and the two tables are of their type.
BackfillTypeOK ==
    /\ simMode \in BOOLEAN
    /\ run \in {"started", "ready", "reset", "requests", "content", "done", "failed"}
    /\ plan \in Seq(BOOLEAN) /\ Len(plan) <= MaxGenerated
    /\ offset \in Nat
    /\ stored \subseteq Earlier \cup Others \cup Own
    /\ contents \subseteq Earlier \cup Others \cup Own
    /\ removed \subseteq Own

\* A run that ends well has written every row it made up, and the content of
\* just those that are to have any, less what others deleted meanwhile; content
\* is there only for a row that is; and a run outside sim mode writes nothing.
HistoryWhole ==
    /\ contents \subseteq stored
    /\ run \in {"content", "done"} => Own \ removed \subseteq stored
    /\ run = "done" => contents \cap Own = {n \in Own \cap stored : plan[n]}
    /\ ~simMode => stored \subseteq Earlier \cup Others

=============================================================================
