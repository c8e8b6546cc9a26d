------------------------------ MODULE Reports ------------------------------
(***************************************************************************)
(* The audit listing, read page by page: GET /api/audit answers with the   *)
(* requests that match, newest first, and skips as many as it is told to.  *)
(* Between two pages requests arrive, are routed, settle, and the history  *)
(* of the oldest ones is deleted.                                          *)
(*                                                                         *)
(* Requests are numbered in the order of arrived_at, which is taken to be  *)
(* different for each of them: nothing else orders the listing.            *)
(***************************************************************************)
EXTENDS Naturals, Sequences, FiniteSets

CONSTANTS MaxRows,    \* bound on the requests that arrive
          Limit       \* rows of a page

ASSUME ReportsAssumption == MaxRows \in Nat /\ Limit \in Nat \ {0}

\* What a listing may ask for: everything, or one value of a column that changes.
Filters == {"all", "routed", "queued", "completed"}

VARIABLES
    table,     \* the requests that arrived: whether routed_model is set, the status
    deleted,   \* the oldest of them that are gone
    walk,      \* a client's way through the pages
    steady,    \* requests that matched ever since it began
    left       \* how many that matched no longer do, by a change of status

reportVars == <<table, deleted, walk, steady, left>>

ReportsInit ==
    /\ table = <<>> /\ deleted = 0
    /\ walk = [stage |-> "none", filter |-> "all", offset |-> 0, seen |-> {}]
    /\ steady = {} /\ left = 0

Arrived == 1..Len(table)

\* The WHERE clause.
Matches(filter, row) ==
    \/ filter = "all"
    \/ filter = "routed" /\ row.routed
    \/ filter = row.status

Matching(filter) == {n \in Arrived : n > deleted /\ Matches(filter, table[n])}

\* enqueueRequest; the model is set by a statement of its own, and the status
\* goes on as the request does, or is given up by the sweeps.
RequestArrives ==
    /\ Len(table) < MaxRows
    /\ table' = Append(table, [routed |-> FALSE, status |-> "queued"])
    /\ UNCHANGED <<deleted, walk, steady, left>>

Change(n, row) ==
    /\ table' = [table EXCEPT ![n] = row]
    /\ IF walk.stage = "reading" /\ n \in Matching(walk.filter) /\ ~Matches(walk.filter, row)
       THEN steady' = steady \ {n} /\ left' = left + 1
       ELSE UNCHANGED <<steady, left>>
    /\ UNCHANGED <<deleted, walk>>

RequestRouted(n) == n > deleted /\ ~table[n].routed /\ Change(n, [table[n] EXCEPT !.routed = TRUE])

RequestSettles(n) ==
    /\ n > deleted
    /\ table[n].status = "queued"
    /\ Change(n, [table[n] EXCEPT !.status = "completed"])

\* deleteAuditHistory: whatever arrived before a moment.
DeleteOldest ==
    /\ deleted' \in {n \in Arrived : n > deleted}
    /\ steady' = {n \in steady : n > deleted'}
    /\ UNCHANGED <<table, walk, left>>

-----------------------------------------------------------------------------

BeginWalk ==
    /\ walk.stage = "none"
    /\ \E filter \in Filters :
          /\ walk' = [walk EXCEPT !.stage = "reading", !.filter = filter]
          /\ steady' = Matching(filter)
    /\ UNCHANGED <<table, deleted, left>>

\* Mutant of PageAt: the oldest first.
PageAt_OldestFirst(filter, offset) ==
    {n \in Matching(filter) :
       Cardinality({m \in Matching(filter) : m < n}) \in offset..(offset + Limit - 1)}

\* ORDER BY arrived_at DESC LIMIT .. OFFSET ..: those with so many newer ones.
PageAt(filter, offset) ==
    {n \in Matching(filter) :
       Cardinality({m \in Matching(filter) : m > n}) \in offset..(offset + Limit - 1)}

\* A page; a short one is the last.
ReadPage ==
    /\ walk.stage = "reading"
    /\ LET page == PageAt(walk.filter, walk.offset)
       IN  walk' = [walk EXCEPT !.seen = @ \cup page,
                                !.offset = @ + Limit,
                                !.stage = IF Cardinality(page) < Limit THEN "done" ELSE @]
    /\ UNCHANGED <<table, deleted, steady, left>>

ReportsNext ==
    \/ RequestArrives \/ DeleteOldest \/ BeginWalk \/ ReadPage
    \/ \E n \in Arrived : RequestRouted(n) \/ RequestSettles(n)

ReportsSpec == ReportsInit /\ [][ReportsNext]_reportVars

-----------------------------------------------------------------------------

\* What the table holds and the client has seen is of its type.
ReportsTypeOK ==
    /\ table \in Seq([routed : BOOLEAN, status : {"queued", "completed"}])
    /\ Len(table) <= MaxRows
    /\ deleted \in 0..Len(table)
    /\ walk \in [stage : {"none", "reading", "done"}, filter : Filters,
                 offset : Nat, seen : SUBSET Arrived]
    /\ steady \subseteq Arrived /\ left \in Nat

\* A walk through the pages shows every request that matched all along, whatever
\* arrives at the head and is deleted at the tail between two pages; only a
\* request that leaves the listing by its status hides another, and one at most.
PagesMissNothing ==
    walk.stage = "done" => Cardinality(steady \ walk.seen) <= left

=============================================================================
