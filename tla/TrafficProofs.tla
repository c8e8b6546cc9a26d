---------------------------- MODULE TrafficProofs ----------------------------
(***************************************************************************)
(* Requests and their answers. The routing gives a request what it needs   *)
(* and what it asked for; the live simulator keeps to its load, counts     *)
(* every request and is answered by the models it built for; the backfill  *)
(* leaves a history that is whole; an answer reaches the caller in order,  *)
(* once, and is closed as what it was; and a log tail masks content and    *)
(* nothing else: for registries, loads, histories, answers and logs of     *)
(* any size.                                                               *)
(***************************************************************************)
EXTENDS LiveTraffic, Backfill, AnswerStream, LogTail,
        FiniteSetTheorems, SequenceTheorems, WellFoundedInduction, TLAPS

-----------------------------------------------------------------------------
(* Numbers in order. *)

\* A set of numbers that is not empty has a least one.
LEMMA LeastNumber ==
    ASSUME NEW S \in SUBSET Nat, S # {}
    PROVE  \E n \in S : \A m \in S : n <= m
<1>1. PICK n \in S : \A m \in S : ~ (<<m, n>> \in OpToRel(<, Nat))
  BY NatLessThanWellFounded, WFMin
<1>2. ASSUME NEW m \in S PROVE n <= m
  <2>1. n \in Nat /\ m \in Nat
    OBVIOUS
  <2>2. ~(m < n)
    BY <1>1, <2>1 DEF OpToRel
  <2>3. QED
    BY <2>1, <2>2
<1>3. QED
  BY <1>2

\* Of a finite set of numbers each has its own place, and every place is taken.
Below(S, n) == {m \in S : m < n}

LEMMA Places ==
    ASSUME NEW S \in SUBSET Nat, IsFiniteSet(S)
    PROVE  /\ Cardinality(S) \in Nat
           /\ \A n \in S : Cardinality(Below(S, n)) \in 0..(Cardinality(S) - 1)
           /\ \A n \in S, m \in S : m < n => Cardinality(Below(S, m)) < Cardinality(Below(S, n))
           /\ \A k \in 0..(Cardinality(S) - 1) : \E n \in S : Cardinality(Below(S, n)) = k
<1> DEFINE c == Cardinality(S)
           Place(n) == Cardinality(Below(S, n))
           f == [n \in S |-> Place(n)]
<1>1. c \in Nat
  BY FS_CardinalityType
<1>2. ASSUME NEW n \in S PROVE IsFiniteSet(Below(S, n)) /\ Place(n) \in Nat
  <2>1. Below(S, n) \subseteq S
    BY DEF Below
  <2>2. QED
    BY <2>1, FS_Subset, FS_CardinalityType
<1>3. ASSUME NEW n \in S PROVE Place(n) \in 0..(c - 1)
  <2>1. Below(S, n) \subseteq S /\ n \notin Below(S, n)
    BY DEF Below
  <2>2. Place(n) <= c /\ Place(n) # c
    BY <2>1, FS_Subset
  <2>3. QED
    BY <1>1, <1>2, <2>2
<1>4. ASSUME NEW n \in S, NEW m \in S, m < n PROVE Place(m) < Place(n)
  <2>1. Below(S, m) \subseteq Below(S, n) /\ m \in Below(S, n) /\ m \notin Below(S, m)
    <3>1. \A x \in S : x \in Nat
      OBVIOUS
    <3>2. \A x \in S : x < m => x < n
      BY <1>4, <3>1
    <3>3. ~(m < m)
      BY <3>1
    <3>4. QED
      BY <1>4, <3>2, <3>3 DEF Below
  <2>2. Place(m) <= Place(n) /\ Place(m) # Place(n)
    BY <1>2, <2>1, FS_Subset
  <2>3. QED
    BY <1>2, <2>2
<1>5. \A k \in 0..(c - 1) : \E n \in S : Place(n) = k
  <2>1. f \in [S -> 0..(c - 1)] /\ \A n \in S, m \in S : f[n] = f[m] => n = m
    <3>1. ASSUME NEW n \in S, NEW m \in S, Place(n) = Place(m) PROVE n = m
      <4>1. n \in Nat /\ m \in Nat /\ ~(n < m) /\ ~(m < n)
        BY <1>2, <1>4, <3>1
      <4>2. QED
        BY <4>1
    <3>2. QED
      BY <1>3, <3>1
  <2>2. f \in Injection(S, 0..(c - 1))
    BY <2>1 DEF Injection, IsInjective
  <2>3. IsFiniteSet(0..(c - 1)) /\ Cardinality(0..(c - 1)) = c
    <3> HIDE DEF c
    <3>1. 0 \in Int /\ c - 1 \in Int
      BY <1>1
    <3>2. IsFiniteSet(0..(c - 1)) /\ Cardinality(0..(c - 1)) = IF 0 > c - 1 THEN 0 ELSE c - 1 - 0 + 1
      BY <3>1, FS_Interval
    <3>3. QED
      BY <1>1, <3>2
  <2>4. f \in Surjection(S, 0..(c - 1))
    BY <2>2, <2>3, FS_Injection
  <2>5. QED
    BY <2>4 DEF Surjection
<1>6. QED
  BY <1>1, <1>3, <1>4, <1>5

\* A finite set of numbers in order: all of them, each once, ascending.
LEMMA InOrderProperties ==
    ASSUME NEW S \in SUBSET Nat, IsFiniteSet(S)
    PROVE  /\ InOrder(S) \in Seq(S)
           /\ Len(InOrder(S)) = Cardinality(S)
           /\ \A i, j \in 1..Cardinality(S) : i < j => InOrder(S)[i] < InOrder(S)[j]
           /\ S = {InOrder(S)[i] : i \in 1..Cardinality(S)}
<1> DEFINE c == Cardinality(S)
           s == InOrder(S)
<1>1. s = [i \in 1..c |-> CHOOSE n \in S : Cardinality(Below(S, n)) = i - 1] /\ c \in Nat
  BY Places DEF InOrder, Below
<1>2. ASSUME NEW i \in 1..c PROVE s[i] \in S /\ Cardinality(Below(S, s[i])) = i - 1
  <2>1. i - 1 \in 0..(c - 1)
    BY <1>1
  <2>2. \E n \in S : Cardinality(Below(S, n)) = i - 1
    BY <2>1, Places
  <2>3. QED
    BY <1>1, <2>2
<1>3. s \in [1..c -> S]
  BY <1>1, <1>2
<1>4. s \in Seq(S) /\ Len(s) = c
  <2>1. c \in Nat
    BY <1>1
  <2> HIDE DEF s, c
  <2>2. QED
    BY <1>3, <2>1
<1>5. ASSUME NEW i \in 1..c, NEW j \in 1..c, i < j PROVE s[i] < s[j]
  <2>1. s[i] \in S /\ s[j] \in S /\ s[i] \in Nat /\ s[j] \in Nat
    BY <1>2
  <2>2. Cardinality(Below(S, s[i])) < Cardinality(Below(S, s[j]))
    BY <1>2, <1>5
  <2>3. s[i] # s[j] /\ ~(s[j] < s[i])
    <3>1. Cardinality(Below(S, s[i])) \in Nat /\ Cardinality(Below(S, s[j])) \in Nat
      BY <2>1, Places
    <3>2. s[j] < s[i] => Cardinality(Below(S, s[j])) < Cardinality(Below(S, s[i]))
      BY <2>1, Places
    <3>3. QED
      BY <2>2, <3>1, <3>2
  <2>4. QED
    BY <2>1, <2>3
<1>6. ASSUME NEW n \in S PROVE \E i \in 1..c : s[i] = n
  <2>1. PICK k \in 0..(c - 1) : Cardinality(Below(S, n)) = k
    BY Places
  <2>2. k + 1 \in 1..c /\ (k + 1) - 1 = k
    BY <1>1, <2>1
  <2>3. s[k + 1] \in S /\ Cardinality(Below(S, s[k + 1])) = k
    BY <1>2, <2>2
  <2>4. s[k + 1] \in Nat /\ n \in Nat
    BY <2>3
  <2>5. ~(s[k + 1] < n) /\ ~(n < s[k + 1])
    <3>1. s[k + 1] < n => Cardinality(Below(S, s[k + 1])) < Cardinality(Below(S, n))
      BY <2>3, Places
    <3>2. n < s[k + 1] => Cardinality(Below(S, n)) < Cardinality(Below(S, s[k + 1]))
      BY <2>3, Places
    <3>3. QED
      BY <2>1, <2>3, <3>1, <3>2
  <2>6. s[k + 1] = n
    BY <2>4, <2>5
  <2>7. QED
    BY <2>2, <2>6
<1> HIDE DEF s
<1>7. S = {s[i] : i \in 1..c}
  BY <1>2, <1>6
<1>8. QED
  BY <1>4, <1>5, <1>7 DEF s

-----------------------------------------------------------------------------
(* The backfill. *)

\* Rows of the plan are numbers: those to have content are in order in ContentRows.
PlanRows(p) == {n \in DOMAIN p : p[n]}

LEMMA PlanProperties ==
    ASSUME BackfillTypeOK
    PROVE  /\ Len(plan) \in Nat /\ Own = 1..Len(plan) /\ Own \subseteq Nat
           /\ Len(ContentRows) \in Nat /\ DOMAIN ContentRows = 1..Len(ContentRows)
           /\ {ContentRows[i] : i \in DOMAIN ContentRows} = PlanRows(plan)
<1>1. Len(plan) \in Nat /\ Own = 1..Len(plan)
  BY DEF BackfillTypeOK, Own
<1>2. PlanRows(plan) \in SUBSET Nat /\ IsFiniteSet(PlanRows(plan))
  <2>1. IsFiniteSet(1..Len(plan)) /\ PlanRows(plan) \subseteq 1..Len(plan)
    BY <1>1, FS_Interval DEF PlanRows, Own
  <2>2. QED
    BY <2>1, FS_Subset
<1>3. ContentRows = InOrder(PlanRows(plan))
  BY DEF ContentRows, PlanRows, Own
<1>4. /\ ContentRows \in Seq(PlanRows(plan)) /\ Len(ContentRows) = Cardinality(PlanRows(plan))
      /\ PlanRows(plan) = {ContentRows[i] : i \in 1..Cardinality(PlanRows(plan))}
  BY <1>2, <1>3, InOrderProperties
<1>5. DOMAIN ContentRows = 1..Len(ContentRows) /\ Len(ContentRows) \in Nat
  BY <1>4, LenProperties
<1>6. QED
  BY <1>1, <1>4, <1>5

\* The rows a statement has, of the rows sent before it.
LEMMA ChunkOfPlan ==
    ASSUME BackfillTypeOK
    PROVE  Chunk([n \in Own |-> n], RequestsPerChunk) =
              {n \in Own : offset < n /\ n <= offset + RequestsPerChunk}
BY PlanProperties DEF Chunk

LEMMA ChunkOfContent ==
    ASSUME BackfillTypeOK
    PROVE  Chunk(ContentRows, ContentPerChunk) \subseteq Own
BY PlanProperties DEF Chunk, PlanRows, Own

\* Before the run has made up its rows it has written none, and outside sim mode
\* it never gets there. The requests it has sent are stored, or others deleted
\* them; so is, while content is sent, every row; and of the content that has
\* been sent there is what still has its row.
SentContent == {ContentRows[i] : i \in {j \in DOMAIN ContentRows : j <= offset}}

BackfillInv ==
    /\ run \in {"started", "ready", "reset"} =>
          plan = <<>> /\ offset = 0 /\ stored \subseteq Earlier \cup Others
    /\ run \in {"started", "ready", "reset", "requests"} => contents = {}
    /\ ~simMode => run \in {"started", "failed"} /\ stored \subseteq Earlier \cup Others
    /\ contents \subseteq stored
    /\ run = "requests" => \A n \in Own : n <= offset => n \in stored \cup removed
    /\ run \in {"content", "done"} => Own \subseteq stored \cup removed
    /\ run = "content" => contents = SentContent \cap stored
    /\ run = "done" => contents = PlanRows(plan) \cap stored

\* Nothing of the run is there initially ...
LEMMA InitBackfill == BackfillInit => BackfillTypeOK /\ BackfillInv
<1> SUFFICES ASSUME BackfillInit PROVE BackfillTypeOK /\ BackfillInv
  OBVIOUS
<1>1. plan \in Seq(BOOLEAN) /\ Len(plan) = 0
  BY DEF BackfillInit
<1>2. BackfillTypeOK
  BY <1>1, BackfillAssumption DEF BackfillAssumption, BackfillInit, BackfillTypeOK
<1>3. QED
  BY <1>2 DEF BackfillInit, BackfillInv

\* ... and every step keeps the types ...
LEMMA NextBackfillType ==
    BackfillTypeOK /\ BackfillInv /\ [BackfillNext]_backfillVars => BackfillTypeOK'
<1> SUFFICES ASSUME BackfillTypeOK, BackfillInv, [BackfillNext]_backfillVars
             PROVE  BackfillTypeOK'
  OBVIOUS
<1> USE DEF BackfillTypeOK
<1>1. CASE CheckMode
  BY <1>1 DEF CheckMode, Own
<1>2. CASE Reset
  BY <1>2 DEF Reset, Own
<1>3. CASE Generate
  <2>1. PICK n \in 0..MaxGenerated : plan' \in [1..n -> BOOLEAN]
    BY <1>3 DEF Generate
  <2>2. n \in Nat /\ n <= MaxGenerated
    BY <2>1, BackfillAssumption DEF BackfillAssumption
  <2>3. plan' \in Seq(BOOLEAN) /\ Len(plan') = n
    BY <2>1, <2>2
  <2>4. removed = {} /\ stored \subseteq Earlier \cup Others /\ contents = {}
    <3>1. plan = <<>>
      BY <1>3 DEF Generate, BackfillInv
    <3>2. Own = {}
      BY <3>1 DEF Own
    <3>3. QED
      BY <1>3, <3>2 DEF Generate, BackfillInv
  <2>5. QED
    BY <1>3, <2>2, <2>3, <2>4 DEF Generate, Own
<1>4. CASE InsertRequests
  <2>1. Chunk([n \in Own |-> n], RequestsPerChunk) \subseteq Own
    BY ChunkOfPlan
  <2>2. offset' \in Nat
    BY <1>4, BackfillAssumption DEF BackfillAssumption, InsertRequests
  <2>3. stored' \subseteq Earlier \cup Others \cup Own /\ run' \in {"requests", "content"}
    BY <1>4, <2>1 DEF InsertRequests
  <2>4. QED
    BY <1>4, <2>2, <2>3 DEF InsertRequests, Own
<1>5. CASE InsertContent
  <2>1. offset' \in Nat /\ run' \in {"content", "failed", "done"}
    BY <1>5, BackfillAssumption DEF BackfillAssumption, InsertContent
  <2>2. contents' \subseteq Earlier \cup Others \cup Own
    BY <1>5, ChunkOfContent DEF InsertContent
  <2>3. QED
    BY <1>5, <2>1, <2>2 DEF InsertContent, Own
<1>6. CASE RunDies
  BY <1>6 DEF RunDies, Own
<1>7. CASE OthersDelete
  BY <1>7 DEF OthersDelete, Own
<1>8. CASE UNCHANGED backfillVars
  BY <1>8 DEF backfillVars, Own
<1>9. QED
  BY <1>1, <1>2, <1>3, <1>4, <1>5, <1>6, <1>7, <1>8 DEF BackfillNext

\* ... and what is said of the run.
LEMMA NextBackfillInv ==
    BackfillTypeOK /\ BackfillInv /\ [BackfillNext]_backfillVars => BackfillInv'
<1> SUFFICES ASSUME BackfillTypeOK, BackfillInv, [BackfillNext]_backfillVars
             PROVE  BackfillInv'
  OBVIOUS
<1>1. ASSUME plan' = plan
      PROVE  /\ Own' = Own /\ PlanRows(plan)' = PlanRows(plan) /\ ContentRows' = ContentRows
  BY <1>1 DEF Own, PlanRows, ContentRows
<1>2. CASE CheckMode
  BY <1>2 DEF CheckMode, BackfillInv
<1>3. CASE Reset
  BY <1>3 DEF Reset, BackfillInv
<1>4. CASE Generate
  <2>1. /\ run' = "requests" /\ offset' = 0 /\ stored' = stored /\ contents' = {} /\ simMode
        /\ simMode' = simMode
    BY <1>4 DEF Generate, BackfillInv
  <2>2. \A n \in Own' : n \in Nat \ {0}
    <3>1. PICK k \in 0..MaxGenerated : plan' \in [1..k -> BOOLEAN]
      BY <1>4 DEF Generate
    <3>2. k \in Nat
      BY <3>1, BackfillAssumption DEF BackfillAssumption
    <3>3. QED
      BY <3>1, <3>2 DEF Own
  <2>3. \A n \in Own' : ~(n <= offset')
    BY <2>1, <2>2
  <2>4. QED
    BY <2>1, <2>3 DEF BackfillInv
<1>5. CASE InsertRequests
  <2>1. /\ plan' = plan /\ contents' = contents /\ removed' = removed /\ simMode' = simMode
        /\ run = "requests" /\ simMode /\ contents = {}
    BY <1>5 DEF InsertRequests, BackfillInv
  <2>2. CASE offset < Len(plan)
    <3>1. run' = "requests" /\ offset' = offset + RequestsPerChunk
          /\ stored' = stored \cup {n \in Own : offset < n /\ n <= offset'}
      BY <1>5, <2>2, ChunkOfPlan DEF InsertRequests
    <3>2. ASSUME NEW n \in Own, n <= offset' PROVE n \in stored' \cup removed
      <4>1. n \in Nat /\ offset \in Nat
        BY PlanProperties DEF BackfillTypeOK
      <4>2. CASE n <= offset
        BY <2>1, <3>1, <4>2 DEF BackfillInv
      <4>3. CASE offset < n
        BY <3>1, <3>2, <4>3
      <4>4. QED
        BY <4>1, <4>2, <4>3
    <3>3. QED
      BY <1>1, <2>1, <3>1, <3>2 DEF BackfillInv
  <2>3. CASE ~(offset < Len(plan))
    <3>1. run' = "content" /\ offset' = 0 /\ stored' = stored
      BY <1>5, <2>3 DEF InsertRequests
    <3>2. Own \subseteq stored \cup removed
      <4>1. \A n \in Own : n \in Nat /\ n <= Len(plan)
        BY PlanProperties
      <4>2. \A n \in Own : n <= offset
        BY <2>3, <4>1, PlanProperties DEF BackfillTypeOK
      <4>3. QED
        BY <2>1, <4>2 DEF BackfillInv
    <3>3. SentContent' = {}
      BY <1>1, <2>1, <3>1, PlanProperties DEF SentContent
    <3>4. QED
      BY <1>1, <2>1, <3>1, <3>2, <3>3 DEF BackfillInv
  <2>4. QED
    BY <2>2, <2>3
<1>6. CASE InsertContent
  <2> DEFINE chunk == Chunk(ContentRows, ContentPerChunk)
  <2>1. /\ plan' = plan /\ stored' = stored /\ removed' = removed /\ simMode' = simMode
        /\ run = "content" /\ simMode /\ contents = SentContent \cap stored
        /\ Own \subseteq stored \cup removed
    BY <1>6 DEF InsertContent, BackfillInv
  <2>2. CASE offset < Len(ContentRows) /\ chunk \subseteq stored
    <3>1. contents' = contents \cup chunk /\ offset' = offset + ContentPerChunk /\ run' = "content"
      BY <1>6, <2>1, <2>2 DEF InsertContent
    <3>2. SentContent' = SentContent \cup chunk
      <4>1. offset \in Nat /\ ContentPerChunk \in Nat /\ \A j \in DOMAIN ContentRows : j \in Nat
        BY PlanProperties, BackfillAssumption DEF BackfillTypeOK, BackfillAssumption
      <4>2. \A j \in DOMAIN ContentRows : j <= offset' <=> j <= offset \/ (offset < j /\ j <= offset + ContentPerChunk)
        BY <3>1, <4>1
      <4>3. SentContent' = {ContentRows[i] : i \in {j \in DOMAIN ContentRows : j <= offset'}}
        BY <1>1, <2>1 DEF SentContent
      <4>4. QED
        BY <4>2, <4>3 DEF SentContent, Chunk
    <3>3. contents' = SentContent' \cap stored'
      BY <2>1, <2>2, <3>1, <3>2
    <3>4. QED
      BY <1>1, <2>1, <3>1, <3>3 DEF BackfillInv
  <2>3. CASE offset < Len(ContentRows) /\ ~(chunk \subseteq stored)
    <3>1. contents' = contents /\ run' = "failed"
      BY <1>6, <2>3 DEF InsertContent
    <3>2. QED
      BY <2>1, <3>1 DEF BackfillInv
  <2>4. CASE ~(offset < Len(ContentRows))
    <3>1. contents' = contents /\ run' = "done"
      BY <1>6, <2>4 DEF InsertContent
    <3>2. SentContent = PlanRows(plan)
      <4>1. \A j \in DOMAIN ContentRows : j <= offset
        BY <2>4, PlanProperties DEF BackfillTypeOK
      <4>2. QED
        BY <4>1, PlanProperties DEF SentContent
    <3>3. QED
      BY <1>1, <2>1, <3>1, <3>2 DEF BackfillInv
  <2>5. QED
    BY <2>2, <2>3, <2>4
<1>7. CASE RunDies
  BY <1>7 DEF RunDies, BackfillInv
<1>8. CASE OthersDelete
  <2>1. /\ stored' \subseteq stored /\ contents' = contents \cap stored'
        /\ removed' = removed \cup (Own \cap (stored \ stored'))
        /\ UNCHANGED <<simMode, run, plan, offset>>
    BY <1>8 DEF OthersDelete
  <2>2. SentContent' = SentContent
    BY <1>1, <2>1 DEF SentContent
  <2>3. QED
    BY <1>1, <2>1, <2>2 DEF BackfillInv
<1>9. CASE UNCHANGED backfillVars
  BY <1>1, <1>9 DEF backfillVars, BackfillInv, SentContent
<1>10. QED
  BY <1>2, <1>3, <1>4, <1>5, <1>6, <1>7, <1>8, <1>9 DEF BackfillNext

\* Type correctness of the backfill, and what is said of the run.
THEOREM BackfillTypeCorrect == BackfillSpec => [](BackfillTypeOK /\ BackfillInv)
<1>1. BackfillInit => BackfillTypeOK /\ BackfillInv
  BY InitBackfill
<1>2. BackfillTypeOK /\ BackfillInv /\ [BackfillNext]_backfillVars
      => (BackfillTypeOK /\ BackfillInv)'
  BY NextBackfillType, NextBackfillInv
<1>3. QED
  BY <1>1, <1>2, PTL DEF BackfillSpec

\* The history a run leaves is whole: for plans and statements of any size, with
\* whatever others delete between two statements and wherever the run dies.
THEOREM HistoryIsWhole == BackfillSpec => []HistoryWhole
<1>1. BackfillTypeOK /\ BackfillInv => HistoryWhole
  <2> SUFFICES ASSUME BackfillTypeOK, BackfillInv PROVE HistoryWhole
    OBVIOUS
  <2>1. run = "done" => contents \cap Own = {n \in Own \cap stored : plan[n]}
    BY DEF BackfillInv, PlanRows, Own
  <2>2. QED
    BY <2>1 DEF BackfillInv, HistoryWhole
<1>2. QED
  BY <1>1, BackfillTypeCorrect, PTL

-----------------------------------------------------------------------------
(* The log tail. What a connection brings is said of the lines p that were *)
(* printed, a tail that is text or not (t), and its first line a, without  *)
(* a word of the redactor's state.                                         *)

Record(t, kind) == kind = "record" \/ (kind = "prefixed" /\ ~t)

\* Before line n, a dump was opened and no record has come since.
Dump(p, t, a, n) ==
    \E o \in a..(n - 1) : p[o] = "opener" /\ \A m \in (o + 1)..(n - 1) : ~Record(t, p[m])

Content(p, t, a, n) == p[n] \in {"opener", "marked"} \/ (Dump(p, t, a, n) /\ ~Record(t, p[n]))
ShownLine(p, t, a, n) == [line |-> n, masked |-> Content(p, t, a, n)]
Passed(p, t, a, n) == {m \in a..(n - 1) : ~(t /\ p[m] = "probe")}
Brought(p, t, a, n) == {ShownLine(p, t, a, m) : m \in Passed(p, t, a, n)}

\* One line more: what it does to a dump, and what it adds to what is shown.
LEMMA DumpStep ==
    ASSUME NEW p, NEW t, NEW a \in Nat, NEW n \in Nat, a <= n
    PROVE  Dump(p, t, a, n + 1) <=> p[n] = "opener" \/ (Dump(p, t, a, n) /\ ~Record(t, p[n]))
<1>1. n \in a..((n + 1) - 1) /\ \A m : m \notin (n + 1)..((n + 1) - 1)
  OBVIOUS
<1>2. ASSUME p[n] = "opener" PROVE Dump(p, t, a, n + 1)
  BY <1>1, <1>2 DEF Dump
<1>3. ASSUME Dump(p, t, a, n), ~Record(t, p[n]) PROVE Dump(p, t, a, n + 1)
  <2>1. PICK o \in a..(n - 1) :
            p[o] = "opener" /\ \A m \in (o + 1)..(n - 1) : ~Record(t, p[m])
    BY <1>3 DEF Dump
  <2>2. \A m \in (o + 1)..((n + 1) - 1) : m \in (o + 1)..(n - 1) \/ m = n
    OBVIOUS
  <2>3. o \in a..((n + 1) - 1)
    OBVIOUS
  <2>4. QED
    BY <1>3, <2>1, <2>2, <2>3 DEF Dump
<1>4. ASSUME Dump(p, t, a, n + 1), p[n] # "opener"
      PROVE  Dump(p, t, a, n) /\ ~Record(t, p[n])
  <2>1. PICK o \in a..((n + 1) - 1) :
            p[o] = "opener" /\ \A m \in (o + 1)..((n + 1) - 1) : ~Record(t, p[m])
    BY <1>4 DEF Dump
  <2>2. o # n
    BY <1>4, <2>1
  <2>3. o \in a..(n - 1) /\ n \in (o + 1)..((n + 1) - 1)
    BY <2>2
  <2>4. \A m \in (o + 1)..(n - 1) : m \in (o + 1)..((n + 1) - 1)
    OBVIOUS
  <2>5. QED
    BY <2>1, <2>3, <2>4 DEF Dump
<1>5. QED
  BY <1>2, <1>3, <1>4

LEMMA BroughtStep ==
    ASSUME NEW p, NEW t, NEW a \in Nat, NEW n \in Nat, a <= n
    PROVE  Brought(p, t, a, n + 1) =
             Brought(p, t, a, n) \cup (IF t /\ p[n] = "probe" THEN {} ELSE {ShownLine(p, t, a, n)})
<1>1. a..((n + 1) - 1) = a..(n - 1) \cup {n}
  OBVIOUS
<1>2. Passed(p, t, a, n + 1) = Passed(p, t, a, n) \cup (IF t /\ p[n] = "probe" THEN {} ELSE {n})
  BY <1>1 DEF Passed
<1>3. QED
  BY <1>2 DEF Brought

LEMMA BroughtNothing ==
    ASSUME NEW p, NEW t, NEW a \in Nat
    PROVE  Brought(p, t, a, a) = {} /\ ~Dump(p, t, a, a)
<1>1. \A m : m \notin a..(a - 1)
  OBVIOUS
<1>2. QED
  BY <1>1 DEF Brought, Passed, Dump

\* What is printed later changes nothing in what was brought.
LEMMA BroughtStays ==
    ASSUME NEW p, NEW q, NEW t, NEW a \in Nat, NEW n \in Nat,
           \A m \in a..(n - 1) : q[m] = p[m]
    PROVE  /\ Dump(q, t, a, n) <=> Dump(p, t, a, n)
           /\ Brought(q, t, a, n) = Brought(p, t, a, n)
<1>1. ASSUME NEW k \in Nat, k <= n PROVE Dump(q, t, a, k) <=> Dump(p, t, a, k)
  <2>1. \A o \in a..(k - 1) : q[o] = p[o] /\ \A m \in (o + 1)..(k - 1) : q[m] = p[m]
    BY <1>1
  <2>2. QED
    BY <2>1 DEF Dump
<1>2. Passed(q, t, a, n) = Passed(p, t, a, n)
  BY DEF Passed
<1>3. ASSUME NEW m \in Passed(p, t, a, n) PROVE ShownLine(q, t, a, m) = ShownLine(p, t, a, m)
  <2>1. m \in a..(n - 1) /\ m \in Nat /\ m <= n
    BY <1>3 DEF Passed
  <2>2. q[m] = p[m] /\ (Dump(q, t, a, m) <=> Dump(p, t, a, m))
    BY <1>1, <2>1
  <2>3. QED
    BY <2>2 DEF ShownLine, Content
<1>4. QED
  BY <1>1, <1>2, <1>3 DEF Brought

\* The redactor's own bit says whether a dump is open, and what a connection has
\* brought is what it should have: the tail never runs ahead of what is printed.
LogInv ==
    \A v \in Viewers :
        /\ from[v] <= pos[v] /\ pos[v] <= Len(printed) + 1
        /\ route[v] = "opening" => shown[v] = {}
        /\ route[v] = "streaming" =>
              /\ inBlock[v] <=> Dump(printed, text[v], from[v], pos[v])
              /\ shown[v] = Brought(printed, text[v], from[v], pos[v])

LEMMA LogInitOK == LogInit => LogTypeOK /\ LogInv
<1> SUFFICES ASSUME LogInit PROVE LogTypeOK /\ LogInv
  OBVIOUS
<1> USE LogAssumption
<1>1. printed \in Seq(LineKinds) /\ Len(printed) = 0
  BY DEF LogInit
<1>2. LogTypeOK
  BY <1>1 DEF LogInit, LogTypeOK
<1>3. LogInv
  BY <1>1 DEF LogInit, LogInv
<1>4. QED
  BY <1>2, <1>3

LEMMA TailStartIsPlace ==
    ASSUME LogTypeOK
    PROVE  TailStart \in 1..(Len(printed) + 1)
<1>1. Len(printed) \in Nat
  BY DEF LogTypeOK
<1>2. QED
  BY <1>1, LogAssumption DEF TailStart

\* A step that moves the tail of no viewer, and opens none with lines to show.
LEMMA LogInvFrame ==
    ASSUME LogTypeOK, LogInv, UNCHANGED <<printed, text, from, pos, inBlock>>,
           \A v \in Viewers :
              /\ route'[v] = "opening" => shown'[v] = {}
              /\ route'[v] = "streaming" => route[v] = "streaming" /\ shown'[v] = shown[v]
    PROVE  LogInv'
BY DEF LogInv

LEMMA EmitLineOK ==
    ASSUME LogTypeOK, LogInv, EmitLine
    PROVE  LogTypeOK' /\ LogInv'
<1>1. PICK kind \in LineKinds : printed' = Append(printed, kind)
  BY DEF EmitLine
<1>2. /\ printed' \in Seq(LineKinds) /\ Len(printed') = Len(printed) + 1
      /\ Len(printed) \in Nat
      /\ \A m \in 1..Len(printed) : printed'[m] = printed[m]
  BY <1>1 DEF LogTypeOK
<1>3. Len(printed') <= MaxPrinted
  BY <1>2, LogAssumption DEF EmitLine
<1>4. LogTypeOK'
  BY <1>2, <1>3 DEF EmitLine, LogTypeOK, connection
<1>5. ASSUME NEW v \in Viewers
      PROVE  /\ from'[v] <= pos'[v] /\ pos'[v] <= Len(printed') + 1
             /\ route'[v] = "opening" => shown'[v] = {}
             /\ route'[v] = "streaming" =>
                   /\ inBlock'[v] <=> Dump(printed', text'[v], from'[v], pos'[v])
                   /\ shown'[v] = Brought(printed', text'[v], from'[v], pos'[v])
  <2>1. /\ from[v] \in Nat /\ pos[v] \in Nat /\ 1 <= from[v]
        /\ from[v] <= pos[v] /\ pos[v] <= Len(printed) + 1
    BY DEF LogTypeOK, LogInv
  <2>2. \A m \in from[v]..(pos[v] - 1) : printed'[m] = printed[m]
    BY <1>2, <2>1
  <2>3. /\ Dump(printed', text[v], from[v], pos[v]) <=> Dump(printed, text[v], from[v], pos[v])
        /\ Brought(printed', text[v], from[v], pos[v]) = Brought(printed, text[v], from[v], pos[v])
    <3> DEFINE p == printed
               q == printed'
               t == text[v]
               a == from[v]
               n == pos[v]
    <3>1. a \in Nat /\ n \in Nat /\ \A m \in a..(n - 1) : q[m] = p[m]
      BY <2>1, <2>2
    <3> HIDE DEF p, q, t, a, n
    <3>2. Dump(q, t, a, n) <=> Dump(p, t, a, n)
      BY <3>1, BroughtStays
    <3>3. Brought(q, t, a, n) = Brought(p, t, a, n)
      BY <3>1, BroughtStays
    <3>4. QED
      BY <3>2, <3>3 DEF p, q, t, a, n
  <2>4. UNCHANGED <<route, text, from, pos, inBlock, shown>>
    BY DEF EmitLine, connection
  <2>5. QED
    BY <1>2, <2>1, <2>3, <2>4 DEF LogInv
<1>6. QED
  BY <1>4, <1>5 DEF LogInv

LEMMA RequestOK ==
    ASSUME LogTypeOK, LogInv, NEW v \in Viewers, Request(v), viewer' \in [Viewers -> {"away", "watching"}]
    PROVE  LogTypeOK' /\ LogInv'
<1>1. /\ route' \in [Viewers -> {"none", "opening", "streaming"}]
      /\ closed' \in [Viewers -> BOOLEAN]
      /\ shown' \in [Viewers -> SUBSET [line : 1..MaxPrinted, masked : BOOLEAN]]
  BY DEF Request, LogTypeOK
<1>2. LogTypeOK'
  BY <1>1 DEF Request, LogTypeOK
<1>3. \A w \in Viewers :
          /\ route'[w] = "opening" => shown'[w] = {}
          /\ route'[w] = "streaming" => route[w] = "streaming" /\ shown'[w] = shown[w]
  BY DEF Request, LogTypeOK, LogInv
<1>4. LogInv'
  BY <1>3, LogInvFrame DEF Request
<1>5. QED
  BY <1>2, <1>4

LEMMA CloseOK ==
    ASSUME LogTypeOK, LogInv, NEW v \in Viewers, Close(v) \/ AttachFails(v) \/ TailEnds(v)
    PROVE  LogTypeOK' /\ LogInv'
<1>1. /\ UNCHANGED <<printed, viewer, text, from, pos, inBlock, shown, orphans>>
      /\ closed' \in [Viewers -> BOOLEAN]
      /\ route' \in [Viewers -> {"none", "opening", "streaming"}]
      /\ \A w \in Viewers : route'[w] \in {route[w], "none"}
  BY DEF Close, AttachFails, TailEnds, LogTypeOK
<1>2. LogTypeOK'
  BY <1>1 DEF LogTypeOK
<1>3. LogInv'
  BY <1>1, LogInvFrame DEF LogInv
<1>4. QED
  BY <1>2, <1>3

LEMMA AttachOK ==
    ASSUME LogTypeOK, LogInv, NEW v \in Viewers, Attach(v)
    PROVE  LogTypeOK' /\ LogInv'
<1>1. CASE ~closed[v]
  <2>1. PICK tail \in TailFromKubernetes \cup TailFromEndpoint :
            /\ text' = [text EXCEPT ![v] = tail.asText]
            /\ from' = [from EXCEPT ![v] = tail.start]
            /\ pos' = [pos EXCEPT ![v] = tail.start]
    BY <1>1 DEF Attach
  <2>2. Len(printed) \in Nat /\ Len(printed) <= MaxPrinted
    BY DEF LogTypeOK
  <2>3. tail.asText \in BOOLEAN /\ tail.start \in 1..(Len(printed) + 1)
    <3>1. TailStart \in 1..(Len(printed) + 1) /\ 1 \in 1..(Len(printed) + 1)
      BY <2>2, TailStartIsPlace
    <3>2. \/ tail = [asText |-> TRUE, start |-> TailStart]
          \/ tail = [asText |-> TRUE, start |-> 1]
          \/ tail = [asText |-> FALSE, start |-> TailStart]
      BY DEF TailFromKubernetes, TailFromEndpoint
    <3>3. tail.asText \in BOOLEAN
      <4>1. \A start : [asText |-> TRUE, start |-> start].asText \in BOOLEAN
                      /\ [asText |-> FALSE, start |-> start].asText \in BOOLEAN
        OBVIOUS
      <4>2. QED
        BY <3>2, <4>1, Zenon
    <3>4. tail.start \in {TailStart, 1}
      BY <3>2
    <3>5. QED
      BY <3>1, <3>3, <3>4
  <2>4. tail.start \in 1..(MaxPrinted + 1) /\ tail.start \in Nat
    BY <2>2, <2>3, LogAssumption
  <2>5. /\ route' = [route EXCEPT ![v] = "streaming"]
        /\ inBlock' = [inBlock EXCEPT ![v] = FALSE]
        /\ UNCHANGED <<printed, viewer, closed, shown, orphans>>
        /\ route[v] = "opening"
    BY <1>1 DEF Attach
  <2>6. LogTypeOK'
    BY <2>1, <2>3, <2>4, <2>5 DEF LogTypeOK
  <2>7. ASSUME NEW w \in Viewers
        PROVE  /\ from'[w] <= pos'[w] /\ pos'[w] <= Len(printed') + 1
               /\ route'[w] = "opening" => shown'[w] = {}
               /\ route'[w] = "streaming" =>
                     /\ inBlock'[w] <=> Dump(printed', text'[w], from'[w], pos'[w])
                     /\ shown'[w] = Brought(printed', text'[w], from'[w], pos'[w])
    <3>1. CASE w = v
      <4>1. from'[v] = tail.start /\ pos'[v] = tail.start /\ ~inBlock'[v] /\ shown'[v] = {}
            /\ text'[v] = tail.asText /\ route'[v] = "streaming" /\ printed' = printed
        BY <2>1, <2>5 DEF LogTypeOK, LogInv
      <4>2. Brought(printed, tail.asText, tail.start, tail.start) = {}
            /\ ~Dump(printed, tail.asText, tail.start, tail.start)
        BY <2>4, BroughtNothing
      <4>3. QED
        BY <2>2, <2>3, <2>4, <3>1, <4>1, <4>2
    <3>2. CASE w # v
      <4>1. /\ from'[w] = from[w] /\ pos'[w] = pos[w] /\ text'[w] = text[w]
            /\ route'[w] = route[w] /\ inBlock'[w] = inBlock[w]
            /\ shown' = shown /\ printed' = printed
        BY <2>1, <2>5, <3>2 DEF LogTypeOK
      <4>2. QED
        BY <4>1 DEF LogInv
    <3>3. QED
      BY <3>1, <3>2
  <2>8. QED
    BY <2>6, <2>7 DEF LogInv
<1>2. CASE closed[v]
  <2>1. /\ route' = [route EXCEPT ![v] = "none"] /\ orphans < MaxOrphans /\ orphans' = orphans + 1
        /\ UNCHANGED <<printed, viewer, closed, shown, text, from, pos, inBlock>>
    BY <1>2 DEF Attach
  <2>2. LogTypeOK'
    BY <2>1, LogAssumption DEF LogTypeOK
  <2>3. \A w \in Viewers : route'[w] \in {route[w], "none"}
    BY <2>1 DEF LogTypeOK
  <2>4. LogInv'
    BY <2>1, <2>3, LogInvFrame DEF LogInv
  <2>5. QED
    BY <2>2, <2>4
<1>3. QED
  BY <1>1, <1>2

\* A line is passed on as what it is, or dropped; either way the redactor knows
\* afterwards whether a dump is open.
LEMMA DeliverLineOK ==
    ASSUME LogTypeOK, LogInv, NEW v \in Viewers, DeliverLine(v)
    PROVE  LogTypeOK' /\ LogInv'
<1> DEFINE n == pos[v]
           kind == printed[n]
<1>1. /\ Len(printed) \in Nat /\ Len(printed) <= MaxPrinted /\ n \in Nat
      /\ from[v] \in Nat /\ 1 <= n /\ n <= Len(printed) /\ from[v] <= n
      /\ kind \in LineKinds
  BY DEF LogTypeOK, LogInv, DeliverLine
<1>2. /\ route[v] = "streaming" /\ pos' = [pos EXCEPT ![v] = n + 1]
      /\ UNCHANGED <<printed, viewer, route, closed, text, from, orphans>>
  BY DEF DeliverLine
<1>3. /\ inBlock[v] <=> Dump(printed, text[v], from[v], n)
      /\ shown[v] = Brought(printed, text[v], from[v], n)
      /\ inBlock[v] \in BOOLEAN /\ text[v] \in BOOLEAN
  BY <1>2 DEF LogInv, LogTypeOK
<1>4. /\ Dump(printed, text[v], from[v], n + 1) <=>
            kind = "opener" \/ (Dump(printed, text[v], from[v], n) /\ ~Record(text[v], kind))
      /\ Brought(printed, text[v], from[v], n + 1) =
            Brought(printed, text[v], from[v], n)
              \cup (IF text[v] /\ kind = "probe" THEN {} ELSE {ShownLine(printed, text[v], from[v], n)})
  BY <1>1, DumpStep, BroughtStep
<1>5. /\ inBlock' \in [Viewers -> BOOLEAN]
      /\ shown' \in [Viewers -> SUBSET [line : 1..MaxPrinted, masked : BOOLEAN]]
      /\ \A w \in Viewers \ {v} : inBlock'[w] = inBlock[w] /\ shown'[w] = shown[w]
      /\ inBlock'[v] <=> Dump(printed, text[v], from[v], n + 1)
      /\ shown'[v] = Brought(printed, text[v], from[v], n + 1)
  <2>1. CASE text[v] /\ kind = "probe"
    <3>1. UNCHANGED <<inBlock, shown>>
      BY <2>1 DEF DeliverLine, IsDropped
    <3>2. ~Record(text[v], kind) /\ kind # "opener"
      BY <2>1 DEF Record
    <3>3. QED
      BY <1>3, <1>4, <2>1, <3>1, <3>2 DEF LogTypeOK
  <2>2. CASE ~(text[v] /\ kind = "probe")
    <3> DEFINE masked == kind \in {"opener", "marked"} \/ (inBlock[v] /\ ~Record(text[v], kind))
    <3>1. /\ inBlock' = [inBlock EXCEPT ![v] = kind = "opener" \/ (@ /\ ~Record(text[v], kind))]
          /\ shown' = [shown EXCEPT ![v] = @ \cup {[line |-> n, masked |-> masked]}]
      BY <2>2 DEF DeliverLine, IsDropped, Redact, LooksLikeLogLine, Record
    <3>2. n \in 1..MaxPrinted
      BY <1>1, LogAssumption
    <3>3. shown[v] \cup {[line |-> n, masked |-> masked]} \in SUBSET [line : 1..MaxPrinted, masked : BOOLEAN]
      <4>1. masked \in BOOLEAN
        OBVIOUS
      <4> HIDE DEF masked
      <4>2. [line |-> n, masked |-> masked] \in [line : 1..MaxPrinted, masked : BOOLEAN]
        BY <3>2, <4>1
      <4>3. shown[v] \in SUBSET [line : 1..MaxPrinted, masked : BOOLEAN]
        BY DEF LogTypeOK
      <4>4. QED
        BY <4>2, <4>3
    <3>4. shown' \in [Viewers -> SUBSET [line : 1..MaxPrinted, masked : BOOLEAN]]
      BY <3>1, <3>3 DEF LogTypeOK
    <3>5. inBlock' \in [Viewers -> BOOLEAN]
      BY <3>1 DEF LogTypeOK
    <3>6. masked = Content(printed, text[v], from[v], n)
      BY <1>3 DEF Content
    <3>7. \A w \in Viewers \ {v} : inBlock'[w] = inBlock[w] /\ shown'[w] = shown[w]
      BY <3>1 DEF LogTypeOK
    <3>8. inBlock'[v] <=> kind = "opener" \/ (inBlock[v] /\ ~Record(text[v], kind))
      BY <3>1 DEF LogTypeOK
    <3>9. shown'[v] = shown[v] \cup {ShownLine(printed, text[v], from[v], n)}
      <4>1. shown'[v] = shown[v] \cup {[line |-> n, masked |-> masked]}
        BY <3>1 DEF LogTypeOK
      <4>2. QED
        BY <3>6, <4>1 DEF ShownLine
    <3>10. QED
      BY <1>3, <1>4, <2>2, <3>4, <3>5, <3>7, <3>8, <3>9
  <2>3. QED
    BY <2>1, <2>2
<1>6. pos' \in [Viewers -> 1..(MaxPrinted + 1)]
  BY <1>1, <1>2, LogAssumption DEF LogTypeOK
<1>7. LogTypeOK'
  BY <1>2, <1>5, <1>6 DEF LogTypeOK
<1>8. ASSUME NEW w \in Viewers
      PROVE  /\ from'[w] <= pos'[w] /\ pos'[w] <= Len(printed') + 1
             /\ route'[w] = "opening" => shown'[w] = {}
             /\ route'[w] = "streaming" =>
                   /\ inBlock'[w] <=> Dump(printed', text'[w], from'[w], pos'[w])
                   /\ shown'[w] = Brought(printed', text'[w], from'[w], pos'[w])
  <2>1. CASE w = v
    <3>1. pos'[v] = n + 1 /\ from' = from /\ text' = text /\ printed' = printed /\ route'[v] = "streaming"
      BY <1>2 DEF LogTypeOK
    <3>2. QED
      BY <1>1, <1>5, <2>1, <3>1
  <2>2. CASE w # v
    <3>1. /\ pos'[w] = pos[w] /\ from' = from /\ text' = text /\ printed' = printed /\ route' = route
          /\ inBlock'[w] = inBlock[w] /\ shown'[w] = shown[w]
      BY <1>2, <1>5, <2>2 DEF LogTypeOK
    <3>2. QED
      BY <3>1 DEF LogInv
  <2>3. QED
    BY <2>1, <2>2
<1>9. QED
  BY <1>7, <1>8 DEF LogInv

LEMMA LogNextOK ==
    ASSUME LogTypeOK, LogInv, [LogNext]_logVars
    PROVE  LogTypeOK' /\ LogInv'
<1>1. CASE EmitLine
  BY <1>1, EmitLineOK
<1>2. CASE OrphanEnds
  <2>1. LogTypeOK'
    BY <1>2, LogAssumption DEF OrphanEnds, LogTypeOK, connection
  <2>2. LogInv'
    BY <1>2, LogInvFrame DEF OrphanEnds, connection, LogInv
  <2>3. QED
    BY <2>1, <2>2
<1>3. ASSUME NEW v \in Viewers, Watch(v) PROVE LogTypeOK' /\ LogInv'
  <2>1. viewer' \in [Viewers -> {"away", "watching"}]
    BY <1>3 DEF Watch, LogTypeOK
  <2>2. QED
    BY <1>3, <2>1, RequestOK DEF Watch
<1>4. ASSUME NEW v \in Viewers, Reconnect(v) PROVE LogTypeOK' /\ LogInv'
  <2>1. viewer' \in [Viewers -> {"away", "watching"}]
    BY <1>4 DEF Reconnect, LogTypeOK
  <2>2. QED
    BY <1>4, <2>1, RequestOK DEF Reconnect
<1>5. ASSUME NEW v \in Viewers, Leave(v) PROVE LogTypeOK' /\ LogInv'
  <2>1. LogTypeOK'
    BY <1>5 DEF Leave, LogTypeOK, connection
  <2>2. LogInv'
    BY <1>5, LogInvFrame DEF Leave, connection, LogInv
  <2>3. QED
    BY <2>1, <2>2
<1>6. ASSUME NEW v \in Viewers, Attach(v) PROVE LogTypeOK' /\ LogInv'
  BY <1>6, AttachOK
<1>7. ASSUME NEW v \in Viewers, Close(v) \/ AttachFails(v) \/ TailEnds(v) PROVE LogTypeOK' /\ LogInv'
  BY <1>7, CloseOK
<1>8. ASSUME NEW v \in Viewers, DeliverLine(v) PROVE LogTypeOK' /\ LogInv'
  BY <1>8, DeliverLineOK
<1>9. CASE UNCHANGED logVars
  <2>1. UNCHANGED <<printed, viewer, route, closed, text, from, pos, inBlock, shown, orphans>>
    BY <1>9 DEF logVars, connection
  <2>2. QED
    BY <2>1 DEF LogTypeOK, LogInv
<1>10. QED
  BY <1>1, <1>2, <1>3, <1>4, <1>5, <1>6, <1>7, <1>8, <1>9 DEF LogNext

\* What the redactor and the tails hold is of its type, and the redactor's bit is
\* what the lines since the connection began say.
THEOREM LogTypeCorrect == LogSpec => [](LogTypeOK /\ LogInv)
<1>1. LogInit => LogTypeOK /\ LogInv
  BY LogInitOK
<1>2. LogTypeOK /\ LogInv /\ [LogNext]_logVars => (LogTypeOK /\ LogInv)'
  BY LogNextOK
<1>3. QED
  BY <1>1, <1>2, PTL DEF LogSpec

LEMMA LogExact == LogTypeOK /\ LogInv => RedactionExact
<1> SUFFICES ASSUME LogTypeOK, LogInv, NEW v \in Viewers, route[v] = "streaming"
             PROVE  shown[v] = {[line |-> n, masked |-> IsContent(v, n)] :
                                  n \in {m \in from[v]..(pos[v] - 1) : ~IsDropped(v, printed[m])}}
  BY DEF RedactionExact
<1>1. from[v] \in Nat /\ pos[v] \in Nat
  BY DEF LogTypeOK
<1>2. {m \in from[v]..(pos[v] - 1) : ~IsDropped(v, printed[m])} = Passed(printed, text[v], from[v], pos[v])
  BY DEF IsDropped, Passed
<1>3. ASSUME NEW n \in from[v]..(pos[v] - 1)
      PROVE  IsContent(v, n) = Content(printed, text[v], from[v], n)
  <2>1. \A kind : LooksLikeLogLine(v, kind) = Record(text[v], kind)
    BY DEF LooksLikeLogLine, Record
  <2>2. ASSUME NEW o \in from[v]..(n - 1)
        PROVE  (\A m \in (o + 1)..n : ~Record(text[v], printed[m])) <=>
                 (\A m \in (o + 1)..(n - 1) : ~Record(text[v], printed[m])) /\ ~Record(text[v], printed[n])
    <3>1. (o + 1)..n = (o + 1)..(n - 1) \cup {n}
      BY <1>1
    <3>2. QED
      BY <3>1
  <2>3. QED
    BY <2>1, <2>2 DEF IsContent, Content, Dump
<1>4. shown[v] = Brought(printed, text[v], from[v], pos[v])
  BY DEF LogInv
<1>5. QED
  BY <1>2, <1>3, <1>4 DEF Brought, Passed, ShownLine

\* A viewer is shown every line of its stream, content masked and the rest as it
\* was printed, for any lines in any order, any number of viewers, whatever each
\* of them misses by leaving, and whichever lines the parser drops.
THEOREM ContentStaysMasked == LogSpec => []RedactionExact
BY LogTypeCorrect, LogExact, PTL

-----------------------------------------------------------------------------
(* The answer stream.                                                      *)

Ascending(s) == \A i, j \in DOMAIN s : i < j => s[i] < s[j]
Entries(s) == {s[i] : i \in DOMAIN s}

\* Numbers in order, and behind them greater ones in order.
LEMMA AscendingConcat ==
    ASSUME NEW S \in SUBSET Nat, NEW s \in Seq(S), NEW t \in Seq(S),
           Ascending(s), Ascending(t),
           \A m \in Entries(s), n \in Entries(t) : m < n
    PROVE  /\ s \o t \in Seq(S)
           /\ Ascending(s \o t)
           /\ Entries(s \o t) = Entries(s) \cup Entries(t)
<1> DEFINE a == Len(s)
           b == Len(t)
           c == s \o t
<1>1. /\ a \in Nat /\ b \in Nat /\ DOMAIN s = 1..a /\ DOMAIN t = 1..b
      /\ c \in Seq(S) /\ DOMAIN c = 1..(a + b)
      /\ \A i \in 1..(a + b) : c[i] = IF i <= a THEN s[i] ELSE t[i - a]
  BY ConcatProperties, LenProperties
<1>2. /\ \A i \in 1..a : s[i] \in S /\ s[i] \in Nat /\ s[i] \in Entries(s)
      /\ \A i \in 1..b : t[i] \in S /\ t[i] \in Nat /\ t[i] \in Entries(t)
  BY <1>1, ElementOfSeq DEF Entries
<1> HIDE DEF a, b, c
<1>3. ASSUME NEW i \in 1..(a + b), NEW j \in 1..(a + b), i < j PROVE c[i] < c[j]
  <2>1. CASE j <= a
    <3>1. i \in 1..a /\ j \in 1..a /\ c[i] = s[i] /\ c[j] = s[j]
      BY <1>1, <1>3, <2>1
    <3>2. QED
      BY <1>1, <1>3, <3>1 DEF Ascending
  <2>2. CASE i <= a /\ ~(j <= a)
    <3>1. i \in 1..a /\ j - a \in 1..b /\ c[i] = s[i] /\ c[j] = t[j - a]
      BY <1>1, <2>2
    <3>2. QED
      BY <1>2, <3>1
  <2>3. CASE ~(i <= a)
    <3>1. i - a \in 1..b /\ j - a \in 1..b /\ i - a < j - a /\ ~(j <= a)
      BY <1>1, <1>3, <2>3
    <3>2. c[i] = t[i - a] /\ c[j] = t[j - a]
      BY <1>1, <2>3, <3>1
    <3>3. QED
      BY <1>1, <3>1, <3>2 DEF Ascending
  <2>4. QED
    BY <1>1, <1>3, <2>1, <2>2, <2>3
<1>4. ASSUME NEW x \in Entries(c) PROVE x \in Entries(s) \cup Entries(t)
  <2>1. PICK i \in 1..(a + b) : x = c[i]
    BY <1>1 DEF Entries
  <2>2. i \in 1..a \/ i - a \in 1..b
    BY <1>1
  <2>3. QED
    BY <1>1, <1>2, <2>1, <2>2
<1>5. ASSUME NEW x \in Entries(s) PROVE x \in Entries(c)
  <2>1. PICK i \in 1..a : x = s[i]
    BY <1>1 DEF Entries
  <2>2. i \in 1..(a + b) /\ c[i] = s[i]
    BY <1>1
  <2>3. QED
    BY <1>1, <2>1, <2>2 DEF Entries
<1>6. ASSUME NEW x \in Entries(t) PROVE x \in Entries(c)
  <2>1. PICK i \in 1..b : x = t[i]
    BY <1>1 DEF Entries
  <2>2. a + i \in 1..(a + b) /\ ~(a + i <= a) /\ (a + i) - a = i
    BY <1>1
  <2>3. c[a + i] = t[i]
    BY <1>1, <2>2
  <2>4. QED
    BY <1>1, <2>1, <2>2, <2>3 DEF Entries
<1>7. Ascending(c)
  BY <1>1, <1>3 DEF Ascending
<1>8. Entries(c) = Entries(s) \cup Entries(t)
  BY <1>4, <1>5, <1>6
<1>9. QED
  BY <1>1, <1>7, <1>8 DEF c

\* The frames that reads up to k have brought whole, if those in c were cut.
Heard(k, c) == {n \in DOMAIN sent : 2 * n <= k /\ n \notin c}

\* What the caller has is what was heard and is output, in order; a frame is cut
\* where a read ended; and a turn that ended for "stop" has no tool call.
AnswerInv ==
    /\ \A n \in cut : 2 * n - 1 <= readTo
    /\ \A n \in DOMAIN sent : 2 * n - 1 = readTo => n \in cut
    /\ Ascending(forwarded)
    /\ Entries(forwarded) = {n \in Heard(readTo, cut) : IsOutput(sent[n])}
    /\ usage <=> \E n \in Heard(readTo, cut) : sent[n] = "usage"
    /\ finish # "none" => Has(finish)
    /\ Has("stop") => ~Has("tool")
    /\ Has("stop") \/ Has("tool_calls") => backend \notin {"asked", "body"}
    /\ reply.outcome = "complete" =>
          /\ reply.measured = usage
          /\ (\E i \in DOMAIN forwarded : sent[forwarded[i]] = "tool") => reply.finish = "tool_calls"

\* What the server adds is not read yet.
LEMMA SendOK ==
    ASSUME AnswerTypeOK, AnswerInv, NEW kind \in FrameKinds, NEW next, Send(kind, next),
           next \in {"body", "finished", "told", "closed"},
           kind \in BodyKinds => backend = "body" /\ next = "body",
           kind \in Finishes => next = "finished" /\ (kind = "stop" <=> ~Has("tool")),
           backend = "body" \/ next # "body"
    PROVE  AnswerTypeOK' /\ AnswerInv'
<1> DEFINE len == Len(sent)
<1>1. /\ len \in Nat /\ DOMAIN sent = 1..len
      /\ sent' \in Seq(FrameKinds) /\ DOMAIN sent' = 1..(len + 1) /\ Len(sent') = len + 1
      /\ \A n \in 1..len : sent'[n] = sent[n]
      /\ sent'[len + 1] = kind
  BY AppendProperties, LenProperties DEF Send, AnswerTypeOK
<1>2. backend' = next /\ UNCHANGED <<readTo, cut, finish, usage, forwarded, reply>>
  BY DEF Send
<1>3. readTo \in Nat /\ readTo <= 2 * len
  BY <1>1 DEF AnswerTypeOK
<1>4. \A i \in DOMAIN forwarded : forwarded[i] \in 1..len
  BY <1>1, LenProperties, ElementOfSeq DEF AnswerTypeOK
<1>5. forwarded \in Seq(DOMAIN sent')
  BY <1>1, SeqMonotonic DEF AnswerTypeOK
<1>6. AnswerTypeOK'
  BY <1>1, <1>2, <1>3, <1>5 DEF AnswerTypeOK
<1>7. /\ \A n \in cut' : 2 * n - 1 <= readTo'
      /\ \A n \in DOMAIN sent' : 2 * n - 1 = readTo' => n \in cut'
  BY <1>1, <1>2, <1>3 DEF AnswerInv
<1>8. Heard(readTo, cut)' = Heard(readTo, cut)
  BY <1>1, <1>2, <1>3 DEF Heard
<1>9. \A n \in Heard(readTo, cut) : sent'[n] = sent[n]
  BY <1>1 DEF Heard
<1>10. Entries(forwarded)' = {n \in Heard(readTo, cut) : IsOutput(sent[n])}'
  BY <1>2, <1>8, <1>9 DEF AnswerInv, Entries
<1>11. usage' <=> \E n \in Heard(readTo, cut)' : sent'[n] = "usage"
  BY <1>2, <1>8, <1>9 DEF AnswerInv
<1>12. \A f : Has(f)' <=> Has(f) \/ f = kind
  BY <1>1 DEF Has
<1>13. (Has("stop") => ~Has("tool"))'
  BY <1>12 DEF AnswerInv, BodyKinds, Finishes
<1>14. (Has("stop") \/ Has("tool_calls") => backend \notin {"asked", "body"})'
  BY <1>2, <1>12 DEF AnswerInv, BodyKinds, Finishes
<1>15. (finish # "none" => Has(finish))'
  BY <1>2, <1>12 DEF AnswerInv
<1>16. (\E i \in DOMAIN forwarded' : sent'[forwarded'[i]] = "tool")
         <=> \E i \in DOMAIN forwarded : sent[forwarded[i]] = "tool"
  BY <1>1, <1>2, <1>4
<1>17. (reply.outcome = "complete" =>
          /\ reply.measured = usage
          /\ (\E i \in DOMAIN forwarded : sent[forwarded[i]] = "tool") => reply.finish = "tool_calls")'
  BY <1>2, <1>16 DEF AnswerInv
<1>18. Ascending(forwarded)'
  BY <1>2 DEF AnswerInv, Ascending
<1>19. QED
  BY <1>6, <1>7, <1>10, <1>11, <1>13, <1>14, <1>15, <1>17, <1>18 DEF AnswerInv

\* A read up to k brings what was not heard before and lies before k: the frame
\* the last read ended in is lost to both of them.
LEMMA ReadBrings ==
    ASSUME AnswerTypeOK, AnswerInv, NEW k \in (readTo + 1)..(2 * Len(sent)), Read(k)
    PROVE  LET whole == {n \in DOMAIN sent : 2 * n - 1 > readTo /\ 2 * n <= k}
           IN  /\ Heard(readTo', cut') = Heard(readTo, cut) \cup whole
               /\ \A m \in Heard(readTo, cut), n \in whole : m < n
<1> DEFINE whole == {n \in DOMAIN sent : 2 * n - 1 > readTo /\ 2 * n <= k}
<1>1. /\ readTo' = k /\ cut' = cut \cup {n \in DOMAIN sent : 2 * n - 1 = k}
  BY DEF Read
<1>2. readTo \in Nat /\ k \in Nat /\ readTo < k
  BY DEF AnswerTypeOK
<1>3. \A n \in DOMAIN sent : n \in Nat
  BY LenProperties DEF AnswerTypeOK
<1>4. ASSUME NEW n \in DOMAIN sent
      PROVE  n \in Heard(k, cut') <=> n \in Heard(readTo, cut) \cup whole
  <2>1. n \in Nat
    BY <1>3
  <2>2. n \in cut' <=> n \in cut \/ 2 * n - 1 = k
    BY <1>1
  <2>3. n \in cut => 2 * n - 1 <= readTo
    BY DEF AnswerInv
  <2>4. 2 * n - 1 = readTo => n \in cut
    BY DEF AnswerInv
  <2>5. (2 * n <= k /\ n \notin cut') <=> (2 * n <= readTo /\ n \notin cut) \/ (2 * n - 1 > readTo /\ 2 * n <= k)
    BY <1>2, <2>1, <2>2, <2>3, <2>4
  <2>6. QED
    BY <2>5 DEF Heard
<1>5. Heard(k, cut') = Heard(readTo, cut) \cup whole
  BY <1>4 DEF Heard
<1>6. ASSUME NEW m \in Heard(readTo, cut), NEW n \in whole PROVE m < n
  BY <1>2, <1>3 DEF Heard
<1>7. QED
  BY <1>1, <1>5, <1>6

LEMMA ReadOK ==
    ASSUME AnswerTypeOK, AnswerInv, reply = NoReply, UNCHANGED <<backend, sent>>,
           NEW k \in (readTo + 1)..(2 * Len(sent)), Read(k)
    PROVE  AnswerTypeOK' /\ AnswerInv'
<1> DEFINE whole == {n \in DOMAIN sent : 2 * n - 1 > readTo /\ 2 * n <= k}
           ended == \E n \in whole : sent[n] = "[DONE]"
           out == {n \in whole : IsOutput(sent[n])}
           passedOn == forwarded \o InOrder(out)
           reasons == {sent[n] : n \in whole} \cap Finishes
           f == IF reasons = {} THEN finish ELSE CHOOSE r \in reasons : TRUE
           u == usage \/ \E n \in whole : sent[n] = "usage"
<1>1. /\ readTo' = k /\ cut' = cut \cup {n \in DOMAIN sent : 2 * n - 1 = k}
      /\ forwarded' = passedOn /\ finish' = f /\ usage' = u
      /\ reply' = IF ended THEN CloseTurn(f, u, passedOn) ELSE reply
  BY DEF Read
<1>2. /\ Heard(readTo', cut') = Heard(readTo, cut) \cup whole
      /\ \A m \in Heard(readTo, cut), n \in whole : m < n
  BY ReadBrings
<1>3. /\ DOMAIN sent = 1..Len(sent) /\ Len(sent) \in Nat /\ DOMAIN sent \in SUBSET Nat
      /\ k \in 0..(2 * Len(sent)) /\ readTo \in Nat
      /\ \A n \in DOMAIN sent : sent[n] \in FrameKinds
  <2>1. DOMAIN sent = 1..Len(sent) /\ Len(sent) \in Nat
    BY LenProperties DEF AnswerTypeOK
  <2>2. \A n \in DOMAIN sent : sent[n] \in FrameKinds
    BY ElementOfSeq, <2>1 DEF AnswerTypeOK
  <2>3. readTo \in Nat
    BY DEF AnswerTypeOK
  <2>4. QED
    BY <2>1, <2>2, <2>3
<1>4. out \in SUBSET DOMAIN sent /\ IsFiniteSet(out) /\ out \in SUBSET Nat
  <2>1. out \in SUBSET DOMAIN sent
    OBVIOUS
  <2>2. IsFiniteSet(1..Len(sent))
    BY <1>3, FS_Interval
  <2>3. QED
    BY <1>3, <2>1, <2>2, FS_Subset
<1>5. /\ InOrder(out) \in Seq(DOMAIN sent)
      /\ Ascending(InOrder(out)) /\ Entries(InOrder(out)) = out
  <2> HIDE DEF out
  <2>1. /\ InOrder(out) \in Seq(out) /\ Len(InOrder(out)) = Cardinality(out)
        /\ \A i, j \in 1..Cardinality(out) : i < j => InOrder(out)[i] < InOrder(out)[j]
        /\ out = {InOrder(out)[i] : i \in 1..Cardinality(out)}
    BY <1>4, InOrderProperties
  <2>2. DOMAIN InOrder(out) = 1..Cardinality(out)
    BY <2>1, LenProperties
  <2>3. InOrder(out) \in Seq(DOMAIN sent)
    BY <1>4, <2>1, SeqMonotonic
  <2>4. QED
    BY <2>1, <2>2, <2>3 DEF Ascending, Entries
<1>6. Entries(forwarded) = {n \in Heard(readTo, cut) : IsOutput(sent[n])}
  BY DEF AnswerInv
<1>7. \A m \in Entries(forwarded), n \in Entries(InOrder(out)) : m < n
  BY <1>2, <1>5, <1>6
<1>8. /\ passedOn \in Seq(DOMAIN sent) /\ Ascending(passedOn)
      /\ Entries(passedOn) = Entries(forwarded) \cup out
  <2>1. forwarded \in Seq(DOMAIN sent) /\ Ascending(forwarded)
    BY DEF AnswerTypeOK, AnswerInv
  <2> HIDE DEF out
  <2>2. QED
    BY <1>3, <1>5, <1>7, <2>1, AscendingConcat
<1>9. Entries(passedOn) = {n \in Heard(readTo', cut') : IsOutput(sent[n])}
  BY <1>2, <1>6, <1>8
<1>10. reasons \subseteq Finishes /\ \A r \in reasons : Has(r)
  BY DEF Has
<1>11. f \in Finishes \cup {"none"} /\ (f # "none" => Has(f))
  <2>1. CASE reasons = {}
    <3>1. f = finish
      BY <2>1
    <3>2. QED
      BY <3>1 DEF AnswerTypeOK, AnswerInv
  <2>2. CASE reasons # {}
    <3> HIDE DEF reasons
    <3>1. (CHOOSE r \in reasons : TRUE) \in reasons
      BY <2>2
    <3>2. QED
      BY <1>10, <2>2, <3>1
  <2>3. QED
    BY <2>1, <2>2
<1>12. u <=> \E n \in Heard(readTo', cut') : sent[n] = "usage"
  BY <1>2 DEF AnswerInv
<1>13. u \in BOOLEAN
  BY DEF AnswerTypeOK
<1>14. FinishReason(f, passedOn) \in Finishes
  BY <1>11 DEF FinishReason, Finishes
<1>15. (\E i \in DOMAIN passedOn : sent[passedOn[i]] = "tool") => FinishReason(f, passedOn) = "tool_calls"
  <2>1. SUFFICES ASSUME NEW i \in DOMAIN passedOn, sent[passedOn[i]] = "tool"
                 PROVE  FinishReason(f, passedOn) = "tool_calls"
    OBVIOUS
  <2>2. passedOn[i] \in DOMAIN sent
    <3> HIDE DEF passedOn
    <3>1. DOMAIN passedOn = 1..Len(passedOn)
      BY <1>8, LenProperties
    <3>2. QED
      BY <1>8, <3>1, ElementOfSeq
  <2>3. Has("tool")
    BY <2>1, <2>2 DEF Has
  <2>4. f # "stop"
    BY <1>11, <2>3 DEF AnswerInv
  <2> HIDE DEF passedOn, f
  <2>5. QED
    BY <1>11, <2>1, <2>4 DEF FinishReason, Finishes
<1> HIDE DEF passedOn, f, u, ended, whole
<1>16. CASE ~ended
  <2>1. reply' = NoReply
    BY <1>1, <1>16
  <2>2. QED
    <3>1. AnswerTypeOK'
      BY <1>1, <1>3, <1>8, <1>11, <1>13, <2>1 DEF AnswerTypeOK
    <3>2. \A n \in cut' : 2 * n - 1 <= readTo'
      BY <1>1, <1>3 DEF AnswerInv, AnswerTypeOK
    <3>3. \A n \in DOMAIN sent' : 2 * n - 1 = readTo' => n \in cut'
      BY <1>1
    <3>4. QED
      BY <1>1, <1>8, <1>9, <1>11, <1>12, <2>1, <3>1, <3>2, <3>3 DEF AnswerInv, NoReply, Has, Heard, Ascending, Entries
<1>17. CASE ended
  <2>1. reply' = [outcome |-> "complete", finish |-> FinishReason(f, passedOn), measured |-> u]
    BY <1>1, <1>17 DEF CloseTurn
  <2>2. /\ reply' \in [outcome : {"none", "complete", "timeout", "replica_unavailable",
                                  "invalid_request", "context_length_exceeded"},
                       finish : Finishes \cup {"none"}, measured : BOOLEAN]
        /\ reply'.measured = u /\ reply'.finish = FinishReason(f, passedOn)
    BY <1>13, <1>14, <2>1
  <2>3. AnswerTypeOK'
    BY <1>1, <1>3, <1>8, <1>11, <1>13, <2>2 DEF AnswerTypeOK
  <2>4. \A n \in cut' : 2 * n - 1 <= readTo'
    BY <1>1, <1>3 DEF AnswerInv, AnswerTypeOK
  <2>5. \A n \in DOMAIN sent' : 2 * n - 1 = readTo' => n \in cut'
    BY <1>1
  <2>6. QED
    BY <1>1, <1>8, <1>9, <1>11, <1>12, <1>15, <2>2, <2>3, <2>4, <2>5 DEF AnswerInv, Has, Heard, Ascending, Entries
<1>18. QED
  BY <1>16, <1>17

LEMMA AnswerInitOK == AnswerInit => AnswerTypeOK /\ AnswerInv
<1> SUFFICES ASSUME AnswerInit PROVE AnswerTypeOK /\ AnswerInv
  OBVIOUS
<1>1. sent = <<>> /\ forwarded = <<>> /\ Len(sent) = 0 /\ DOMAIN sent = {} /\ DOMAIN forwarded = {}
  BY DEF AnswerInit
<1>2. AnswerTypeOK
  <2>1. forwarded \in Seq(DOMAIN sent) /\ sent \in Seq(FrameKinds)
    BY <1>1
  <2>2. reply \in [outcome : {"none", "complete", "timeout", "replica_unavailable",
                              "invalid_request", "context_length_exceeded"},
                   finish : Finishes \cup {"none"}, measured : BOOLEAN]
    BY DEF AnswerInit, NoReply
  <2>3. QED
    <3>1. readTo = 0 /\ cut = {} /\ finish = "none" /\ usage = FALSE /\ backend = "asked"
      BY DEF AnswerInit
    <3>2. readTo \in 0..(2 * Len(sent)) /\ cut \subseteq DOMAIN sent
      BY <1>1, <3>1
    <3>3. QED
      BY <2>1, <2>2, <3>1, <3>2 DEF AnswerTypeOK
<1>3. AnswerInv
  <2>1. Entries(forwarded) = {} /\ Heard(readTo, cut) = {} /\ \A kind : ~Has(kind)
    BY <1>1 DEF Entries, Heard, Has
  <2>2. Ascending(forwarded)
    BY <1>1 DEF Ascending
  <2>3. usage = FALSE /\ finish = "none" /\ cut = {} /\ reply.outcome = "none"
    BY DEF AnswerInit, NoReply
  <2>4. QED
    BY <1>1, <2>1, <2>2, <2>3 DEF AnswerInv
<1>4. QED
  BY <1>2, <1>3

\* A turn that is closed with nothing more read.
LEMMA CloseOfTurnOK ==
    ASSUME AnswerTypeOK, AnswerInv, UNCHANGED <<sent, readTo, cut, finish, usage, forwarded>>,
           backend' \in {"asked", "body", "finished", "told", "closed", "stalled"},
           backend' \in {"asked", "body"} => backend \in {"asked", "body"},
           \/ reply' = reply
           \/ reply' \in [outcome : {"timeout", "replica_unavailable", "invalid_request",
                                     "context_length_exceeded"},
                          finish : Finishes \cup {"none"}, measured : BOOLEAN]
           \/ reply' = CloseTurn(finish, usage, forwarded)
    PROVE  AnswerTypeOK' /\ AnswerInv'
<1>1. \A kind : Has(kind)' <=> Has(kind)
  BY DEF Has
<1>2. Heard(readTo, cut)' = Heard(readTo, cut)
  BY DEF Heard
<1>3. /\ reply' \in [outcome : {"none", "complete", "timeout", "replica_unavailable",
                                "invalid_request", "context_length_exceeded"},
                     finish : Finishes \cup {"none"}, measured : BOOLEAN]
      /\ reply'.outcome = "complete" =>
            /\ reply'.measured = usage
            /\ (\E i \in DOMAIN forwarded : sent[forwarded[i]] = "tool") => reply'.finish = "tool_calls"
  <2>1. CASE reply' = reply
    BY <2>1 DEF AnswerTypeOK, AnswerInv
  <2>2. CASE reply' \in [outcome : {"timeout", "replica_unavailable", "invalid_request",
                                    "context_length_exceeded"},
                         finish : Finishes \cup {"none"}, measured : BOOLEAN]
    BY <2>2
  <2>3. CASE reply' = CloseTurn(finish, usage, forwarded)
    <3>1. reply' = [outcome |-> "complete", finish |-> FinishReason(finish, forwarded), measured |-> usage]
      BY <2>3 DEF CloseTurn
    <3>2. usage \in BOOLEAN /\ finish \in Finishes \cup {"none"}
      BY DEF AnswerTypeOK
    <3>3. FinishReason(finish, forwarded) \in Finishes
      BY <3>2 DEF FinishReason, Finishes
    <3>4. reply'.measured = usage /\ reply'.finish = FinishReason(finish, forwarded)
      BY <3>1
    <3>5. ASSUME NEW i \in DOMAIN forwarded, sent[forwarded[i]] = "tool"
          PROVE  FinishReason(finish, forwarded) = "tool_calls"
      <4>1. DOMAIN forwarded = 1..Len(forwarded)
        BY LenProperties DEF AnswerTypeOK
      <4>2. forwarded[i] \in DOMAIN sent
        BY <4>1, ElementOfSeq DEF AnswerTypeOK
      <4>3. Has("tool")
        BY <3>5, <4>2 DEF Has
      <4>4. finish # "stop"
        BY <4>3 DEF AnswerInv
      <4>5. QED
        BY <3>2, <3>5, <4>4 DEF FinishReason, Finishes
    <3>6. QED
      BY <3>1, <3>2, <3>3, <3>4, <3>5
  <2>4. QED
    BY <2>1, <2>2, <2>3
<1>4. AnswerTypeOK'
  BY <1>3 DEF AnswerTypeOK
<1>5. (Has("stop") \/ Has("tool_calls") => backend \notin {"asked", "body"})'
  BY <1>1 DEF AnswerInv
<1>6. (finish # "none" => Has(finish))' /\ (Has("stop") => ~Has("tool"))'
  BY <1>1 DEF AnswerInv
<1>7. (usage <=> \E n \in Heard(readTo, cut) : sent[n] = "usage")'
  BY <1>2 DEF AnswerInv
<1>8. Ascending(forwarded)' /\ (Entries(forwarded) = {n \in Heard(readTo, cut) : IsOutput(sent[n])})'
  BY <1>2 DEF AnswerInv, Ascending, Entries
<1>9. QED
  BY <1>3, <1>4, <1>5, <1>6, <1>7, <1>8 DEF AnswerInv

LEMMA AnswerNextOK ==
    ASSUME AnswerTypeOK, AnswerInv, [AnswerNext]_answerVars
    PROVE  AnswerTypeOK' /\ AnswerInv'
<1>1. CASE Accept \/ FallSilent
  <2>1. /\ UNCHANGED <<sent, readTo, cut, finish, usage, forwarded, reply>>
        /\ backend' \in {"asked", "body", "finished", "told", "closed", "stalled"}
        /\ backend' \in {"asked", "body"} => backend \in {"asked", "body"}
    BY <1>1 DEF Accept, FallSilent
  <2>2. QED
    BY <2>1, CloseOfTurnOK
<1>2. CASE Refuse
  <2>1. PICK status \in {400, 500, 503}, overflow \in BOOLEAN :
            reply' = [NoReply EXCEPT !.outcome = Failure(status, overflow)]
    BY <1>2 DEF Refuse
  <2>2. Failure(status, overflow) \in {"invalid_request", "replica_unavailable", "context_length_exceeded"}
    BY DEF Failure
  <2>3. reply' \in [outcome : {"timeout", "replica_unavailable", "invalid_request",
                               "context_length_exceeded"},
                    finish : Finishes \cup {"none"}, measured : BOOLEAN]
    BY <2>1, <2>2 DEF NoReply
  <2>4. UNCHANGED <<sent, readTo, cut, finish, usage, forwarded>> /\ backend' = "closed"
    BY <1>2 DEF Refuse
  <2>5. QED
    BY <2>3, <2>4, CloseOfTurnOK
<1>3. CASE SendBody
  <2>1. PICK kind \in BodyKinds : Send(kind, "body")
    BY <1>3 DEF SendBody
  <2>2. kind \in FrameKinds /\ kind \notin Finishes /\ backend = "body"
    BY <1>3 DEF SendBody, FrameKinds, BodyKinds, Finishes
  <2>3. QED
    BY <2>1, <2>2, SendOK
<1>4. CASE SendFinish
  <2> DEFINE kind == IF Has("tool") THEN "tool_calls" ELSE "stop"
  <2>1. Send(kind, "finished") /\ backend = "body"
    BY <1>4 DEF SendFinish
  <2>2. kind \in FrameKinds /\ kind \notin BodyKinds /\ (kind = "stop" <=> ~Has("tool"))
    BY DEF FrameKinds, BodyKinds, Finishes
  <2> HIDE DEF kind
  <2>3. QED
    BY <2>1, <2>2, SendOK
<1>5. CASE SendUsage
  <2>1. Send("usage", "told") /\ "usage" \in FrameKinds /\ "usage" \notin BodyKinds /\ "usage" \notin Finishes
    BY <1>5 DEF SendUsage, FrameKinds, BodyKinds, Finishes
  <2>2. QED
    BY <2>1, SendOK
<1>6. CASE SendDone
  <2>1. Send("[DONE]", "closed") /\ "[DONE]" \in FrameKinds /\ "[DONE]" \notin BodyKinds /\ "[DONE]" \notin Finishes
    BY <1>6 DEF SendDone, FrameKinds, BodyKinds, Finishes
  <2>2. QED
    BY <2>1, SendOK
<1>7. CASE ReadChunk
  <2>1. PICK k \in (readTo + 1)..(2 * Len(sent)) : Read(k)
    BY <1>7 DEF ReadChunk
  <2>2. reply = NoReply /\ UNCHANGED <<backend, sent>>
    BY <1>7 DEF ReadChunk
  <2>3. QED
    BY <2>1, <2>2, ReadOK
<1>8. CASE ReadEnd
  <2>1. /\ UNCHANGED <<sent, readTo, cut, finish, usage, forwarded>>
        /\ reply' = CloseTurn(finish, usage, forwarded) /\ backend' = backend
        /\ backend' \in {"asked", "body", "finished", "told", "closed", "stalled"}
    BY <1>8 DEF ReadEnd, AnswerTypeOK
  <2>2. QED
    BY <2>1, CloseOfTurnOK
<1>9. CASE ReadFails
  <2>1. PICK outcome \in {"replica_unavailable", "timeout"} :
            reply' = [NoReply EXCEPT !.outcome = outcome]
    BY <1>9 DEF ReadFails
  <2>2. reply' \in [outcome : {"timeout", "replica_unavailable", "invalid_request",
                               "context_length_exceeded"},
                    finish : Finishes \cup {"none"}, measured : BOOLEAN]
    BY <2>1 DEF NoReply
  <2>3. UNCHANGED <<sent, readTo, cut, finish, usage, forwarded>> /\ backend' = backend
        /\ backend' \in {"asked", "body", "finished", "told", "closed", "stalled"}
    BY <1>9 DEF ReadFails, AnswerTypeOK
  <2>4. QED
    BY <2>2, <2>3, CloseOfTurnOK
<1>10. CASE UNCHANGED answerVars
  <2>1. /\ UNCHANGED <<sent, readTo, cut, finish, usage, forwarded>> /\ reply' = reply /\ backend' = backend
        /\ backend' \in {"asked", "body", "finished", "told", "closed", "stalled"}
    BY <1>10 DEF answerVars, AnswerTypeOK
  <2>2. QED
    BY <2>1, CloseOfTurnOK
<1>11. QED
  BY <1>1, <1>2, <1>3, <1>4, <1>5, <1>6, <1>7, <1>8, <1>9, <1>10 DEF AnswerNext

\* What the server has sent, the client has understood and the caller was given
\* is of its type, and the client's state follows from the frames it heard whole.
THEOREM AnswerTypeCorrect == AnswerSpec => [](AnswerTypeOK /\ AnswerInv)
<1>1. AnswerInit => AnswerTypeOK /\ AnswerInv
  BY AnswerInitOK
<1>2. AnswerTypeOK /\ AnswerInv /\ [AnswerNext]_answerVars => (AnswerTypeOK /\ AnswerInv)'
  BY AnswerNextOK
<1>3. QED
  BY <1>1, <1>2, PTL DEF AnswerSpec

LEMMA AnswerInOrder == AnswerTypeOK /\ AnswerInv => OutputInOrder
<1> SUFFICES ASSUME AnswerTypeOK, AnswerInv PROVE OutputInOrder
  OBVIOUS
<1>1. \A n \in DOMAIN sent : sent[n] \in BodyKinds \ {"banner"} <=> IsOutput(sent[n])
  BY DEF BodyKinds, IsOutput
<1>2. QED
  BY <1>1 DEF OutputInOrder, AnswerInv, Ascending, Entries, Heard

\* The caller gets what the model said and the client has read, once each and in
\* order, for answers of any length and reads that begin and end anywhere: only a
\* frame that a read cut in two is missing, and no banner is taken for output.
THEOREM OutputKeepsOrder == AnswerSpec => []OutputInOrder
BY AnswerTypeCorrect, AnswerInOrder, PTL

LEMMA AnswerClosedTruly == AnswerTypeOK /\ AnswerInv => TurnClosedTruly
BY DEF TurnClosedTruly, AnswerInv, Heard

\* However an answer ends, a turn that handed over a tool call is closed as one,
\* and the count the caller is told is the server's own wherever it came whole.
THEOREM TurnsClosedTruly == AnswerSpec => []TurnClosedTruly
BY AnswerTypeCorrect, AnswerClosedTruly, PTL

-----------------------------------------------------------------------------
(* The routing.                                                            *)

LEMMA FirstAtIsOne ==
    ASSUME NEW models, NEW places \in SUBSET Nat, places # {}
    PROVE  \E i \in places : FirstAt(models, places) = models[i]
<1>1. PICK n \in places : \A m \in places : n <= m
  BY LeastNumber
<1>2. Min(places) \in places
  BY <1>1 DEF Min
<1>3. QED
  BY <1>2 DEF FirstAt

\* What a selection promises of a listing: see SelectionAsPromised.
Eligible(request, models) ==
    {m \in {models[i] : i \in DOMAIN models} :
        RequiredCapabilities(request) \subseteq m.capabilities /\ request.model \in {"auto", m.id}}
Wanted(request, models) ==
    {m \in Eligible(request, models) : m.modelClass = IF IsComplex(request) THEN "large" ELSE "fast"}

LEMMA AutoPromise ==
    ASSUME NEW request, NEW models, DOMAIN models \subseteq Nat, request.model = "auto"
    PROVE  LET s == SelectModel(request, models)
           IN  \/ /\ Eligible(request, models) = {}
                  /\ s = Refused("capability_mismatch")
               \/ \E m \in Eligible(request, models) :
                     s = Chosen(m) /\ (Wanted(request, models) # {} => m \in Wanted(request, models))
<1> DEFINE required == RequiredCapabilities(request)
           places == {i \in DOMAIN models : HasAllCapabilities(models[i], required)}
           large == OfClass(models, places, "large")
           fast == OfClass(models, places, "fast")
           complex == IsComplex(request)
<1>1. SelectModel(request, models) = IF places = {} THEN Refused("capability_mismatch")
                                     ELSE Chosen(PickByClass(models, places, complex))
  BY DEF SelectModel, SelectAuto
<1>2. /\ places \in SUBSET Nat /\ large \subseteq places /\ fast \subseteq places
      /\ \A i \in large : models[i].modelClass = "large"
      /\ \A i \in fast : models[i].modelClass = "fast"
      /\ \A i \in places \ large : models[i].modelClass # "large"
      /\ \A i \in places \ fast : models[i].modelClass # "fast"
  BY DEF OfClass
<1>3. Eligible(request, models) = {models[i] : i \in places}
  BY DEF Eligible, HasAllCapabilities
<1>4. PickByClass(models, places, complex) =
        IF complex /\ large # {} THEN FirstAt(models, large)
        ELSE IF fast # {} THEN FirstAt(models, fast)
        ELSE FirstAt(models, places)
  BY DEF PickByClass
<1> HIDE DEF places, large, fast
<1>5. CASE places = {}
  BY <1>1, <1>3, <1>5
<1>6. CASE places # {} /\ complex /\ large # {}
  <2>1. PICK i \in large : FirstAt(models, large) = models[i]
    BY <1>2, <1>6, FirstAtIsOne
  <2>2. models[i] \in Eligible(request, models) /\ models[i] \in Wanted(request, models)
    BY <1>2, <1>3, <1>6, <2>1 DEF Wanted
  <2>3. QED
    BY <1>1, <1>4, <1>6, <2>1, <2>2
<1>7. CASE places # {} /\ complex /\ large = {}
  <2>1. Wanted(request, models) = {}
    BY <1>2, <1>3, <1>7 DEF Wanted
  <2>2. \E i \in places : PickByClass(models, places, complex) = models[i]
    <3>1. CASE fast # {}
      BY <1>2, <1>4, <1>7, <3>1, FirstAtIsOne
    <3>2. CASE fast = {}
      BY <1>2, <1>4, <1>7, <3>2, FirstAtIsOne
    <3>3. QED
      BY <3>1, <3>2
  <2>3. QED
    BY <1>1, <1>3, <1>7, <2>1, <2>2
<1>8. CASE places # {} /\ ~complex /\ fast # {}
  <2>1. PICK i \in fast : FirstAt(models, fast) = models[i]
    BY <1>2, <1>8, FirstAtIsOne
  <2>2. models[i] \in Eligible(request, models) /\ models[i] \in Wanted(request, models)
    BY <1>2, <1>3, <1>8, <2>1 DEF Wanted
  <2>3. QED
    BY <1>1, <1>4, <1>8, <2>1, <2>2
<1>9. CASE places # {} /\ ~complex /\ fast = {}
  <2>1. Wanted(request, models) = {}
    BY <1>2, <1>3, <1>9 DEF Wanted
  <2>2. \E i \in places : PickByClass(models, places, complex) = models[i]
    BY <1>2, <1>4, <1>9, FirstAtIsOne
  <2>3. QED
    BY <1>1, <1>3, <1>9, <2>1, <2>2
<1>10. QED
  BY <1>5, <1>6, <1>7, <1>8, <1>9

\* A model asked for by its name is the one or none: its id is its key.
LEMMA ExplicitPromise ==
    ASSUME NEW request, NEW models, DOMAIN models \subseteq Nat, request.model # "auto",
           \A i, j \in DOMAIN models : models[i].id = models[j].id => i = j
    PROVE  LET s == SelectModel(request, models)
               ids == {models[i].id : i \in DOMAIN models}
           IN  \/ /\ Eligible(request, models) = {}
                  /\ s = Refused(IF request.model \in ids THEN "capability_mismatch" ELSE "model_not_found")
               \/ \E m \in Eligible(request, models) : s = Chosen(m)
<1> DEFINE required == RequiredCapabilities(request)
           named == {i \in DOMAIN models : models[i].id = request.model}
           ids == {models[i].id : i \in DOMAIN models}
<1>1. SelectModel(request, models) =
        IF named = {} THEN Refused("model_not_found")
        ELSE IF ~HasAllCapabilities(FirstAt(models, named), required) THEN Refused("capability_mismatch")
        ELSE Chosen(FirstAt(models, named))
  BY DEF SelectModel, SelectExplicit
<1>2. Eligible(request, models) = {m \in {models[i] : i \in named} : HasAllCapabilities(m, required)}
  BY DEF Eligible, HasAllCapabilities
<1>3. named # {} <=> request.model \in ids
  OBVIOUS
<1>4. CASE named = {}
  BY <1>1, <1>2, <1>3, <1>4
<1>5. CASE named # {}
  <2>1. PICK i \in named : FirstAt(models, named) = models[i]
    <3>1. named \in SUBSET Nat
      OBVIOUS
    <3> HIDE DEF named
    <3>2. QED
      BY <1>5, <3>1, FirstAtIsOne
  <2>2. {models[j] : j \in named} = {models[i]}
    BY <2>1
  <2> HIDE DEF named
  <2>3. CASE HasAllCapabilities(models[i], required)
    <3>1. models[i] \in Eligible(request, models)
      BY <1>2, <2>2, <2>3
    <3>2. QED
      BY <1>1, <1>5, <2>1, <2>3, <3>1
  <2>4. CASE ~HasAllCapabilities(models[i], required)
    BY <1>1, <1>2, <1>3, <1>5, <2>1, <2>2, <2>4
  <2>5. QED
    BY <2>3, <2>4
<1>6. QED
  BY <1>4, <1>5

\* A selection is that of the request that was asked, over the listing it met.
RouteInv ==
    /\ asked = Unasked => selection = Refused("none")
    /\ asked # Unasked => candidates \in Registries
    /\ selection # Refused("none") => selection = SelectModel(asked, candidates)

LEMMA RouteInvOK == RoutingSpec => []RouteInv
<1>1. RoutingInit => RouteInv
  BY DEF RoutingInit, RouteInv, Refused
<1>2. RouteInv /\ [RoutingNext]_routingVars => RouteInv'
  <2> SUFFICES ASSUME RouteInv, [RoutingNext]_routingVars PROVE RouteInv'
    OBVIOUS
  <2>1. CASE Ask
    <3>1. selection' = Refused("none") /\ candidates' \in Registries
      BY <2>1 DEF Ask, RouteInv
    <3>2. QED
      BY <3>1 DEF RouteInv
  <2>2. CASE Route
    <3>1. /\ asked # Unasked /\ UNCHANGED <<asked, candidates>>
          /\ selection' = SelectModel(asked, candidates)
      BY <2>2 DEF Route
    <3>2. QED
      BY <3>1 DEF RouteInv
  <2>3. CASE UNCHANGED routingVars
    BY <2>3 DEF routingVars, RouteInv
  <2>4. QED
    BY <2>1, <2>2, <2>3 DEF RoutingNext
<1>3. QED
  BY <1>1, <1>2, PTL DEF RoutingSpec

LEMMA RoutePromise == RouteInv => SelectionAsPromised
<1> SUFFICES ASSUME RouteInv, selection # Refused("none")
             PROVE  SelectionAsPromised
  BY DEF SelectionAsPromised
<1> DEFINE listed == {candidates[i] : i \in DOMAIN candidates}
           eligible == Eligible(asked, candidates)
           wanted == Wanted(asked, candidates)
           ids == {candidates[i].id : i \in DOMAIN candidates}
<1>1. candidates \in Registries /\ selection = SelectModel(asked, candidates)
  BY DEF RouteInv
<1>2. /\ DOMAIN candidates \subseteq Nat
      /\ \A i, j \in DOMAIN candidates : candidates[i].id = candidates[j].id => i = j
  BY <1>1, RegistryAssumption
<1>3. ids = {m.id : m \in listed}
  OBVIOUS
<1>4. \/ /\ eligible = {}
         /\ \/ asked.model = "auto" /\ selection = Refused("capability_mismatch")
            \/ asked.model # "auto" /\ asked.model \in ids /\ selection = Refused("capability_mismatch")
            \/ asked.model # "auto" /\ asked.model \notin ids /\ selection = Refused("model_not_found")
      \/ \E m \in eligible :
            selection = Chosen(m) /\ (asked.model = "auto" /\ wanted # {} => m \in wanted)
  <2>1. CASE asked.model = "auto"
    BY <1>1, <1>2, <2>1, AutoPromise
  <2>2. CASE asked.model # "auto"
    BY <1>1, <1>2, <2>2, ExplicitPromise
  <2>3. QED
    BY <2>1, <2>2
<1>5. /\ eligible = {m \in listed : /\ RequiredCapabilities(asked) \subseteq m.capabilities
                                    /\ asked.model \in {"auto", m.id}}
      /\ wanted = {m \in eligible : m.modelClass = IF IsComplex(asked) THEN "large" ELSE "fast"}
  BY DEF Eligible, Wanted
<1> HIDE DEF eligible, wanted, listed, ids
<1>6. CASE eligible = {}
  <2>1. /\ ~selection.ok
        /\ selection.code = "model_not_found" <=> asked.model \notin {"auto"} \cup ids
    BY <1>4, <1>6 DEF Refused
  <2>2. QED
    BY <1>3, <1>5, <1>6, <2>1 DEF SelectionAsPromised, listed
<1>7. CASE eligible # {}
  <2>1. PICK m \in eligible :
            selection = Chosen(m) /\ (asked.model = "auto" /\ wanted # {} => m \in wanted)
    BY <1>4, <1>7
  <2>2. selection.ok /\ selection.model = m
    BY <2>1 DEF Chosen
  <2>3. QED
    BY <1>5, <2>1, <2>2 DEF SelectionAsPromised, listed
<1>8. QED
  BY <1>6, <1>7

\* For any listing, a routed request gets what it needs and what it named, or the
\* class it calls for if an eligible model has it; and it is refused for want of a
\* capability only if nothing it could have been given has them all.
THEOREM RoutingKeepsPromise == RoutingSpec => []SelectionAsPromised
BY RouteInvOK, RoutePromise, PTL

-----------------------------------------------------------------------------
(* The body sent upstream.                                                 *)

\* Messages of which the i-th has the text of number i - d, or none.
Numbered(messages, d) ==
    \E n \in Nat :
        /\ DOMAIN messages = 1..n
        /\ \A i \in 1..n : messages[i].text \in {<<>>, <<i - d>>}

\* That out has the texts of the messages, and those of either kind in their order.
Tells(out, messages, d) ==
    /\ Said(out) \subseteq Nat \X Nat
    /\ \A p \in Said(out) :
          \E i \in DOMAIN messages : messages[i].text # <<>> /\ TextAt(out, p) = i - d
    /\ \A i \in DOMAIN messages :
          messages[i].text # <<>> => \E p \in Said(out) : TextAt(out, p) = i - d
    /\ \A p, q \in Said(out), i, j \in DOMAIN messages :
          /\ TextAt(out, p) = i - d /\ TextAt(out, q) = j - d
          /\ IsSystem(messages[i]) <=> IsSystem(messages[j])
          /\ Before(p, q)
          => i < j

\* Messages that are sent as they are tell themselves.
LEMMA NumberedTells ==
    ASSUME NEW messages, NEW d \in {0, 1}, Numbered(messages, d)
    PROVE  Tells(messages, messages, d)
<1>1. PICK n \in Nat : /\ DOMAIN messages = 1..n
                       /\ \A i \in 1..n : messages[i].text \in {<<>>, <<i - d>>}
  BY DEF Numbered
<1>2. \A i \in 1..n : messages[i].text # <<>> =>
          DOMAIN messages[i].text = {1} /\ messages[i].text[1] = i - d
  BY <1>1
<1>3. ASSUME NEW p \in Said(messages)
      PROVE  \E i \in 1..n : p = <<i, 1>> /\ messages[i].text # <<>> /\ TextAt(messages, p) = i - d
  <2>1. PICK i \in 1..n : p \in {i} \X DOMAIN messages[i].text
    BY <1>1 DEF Said
  <2>2. messages[i].text # <<>>
    BY <2>1
  <2>3. p = <<i, 1>>
    BY <1>2, <2>1, <2>2
  <2>4. QED
    BY <1>2, <2>2, <2>3 DEF TextAt
<1>4. ASSUME NEW i \in 1..n, messages[i].text # <<>>
      PROVE  <<i, 1>> \in Said(messages) /\ TextAt(messages, <<i, 1>>) = i - d
  <2>1. <<i, 1>> \in {i} \X DOMAIN messages[i].text
    BY <1>2, <1>4
  <2>2. <<i, 1>> \in Said(messages)
    BY <1>1, <2>1 DEF Said
  <2>3. QED
    BY <1>2, <1>4, <2>2 DEF TextAt
<1>5. ASSUME NEW p \in Said(messages), NEW q \in Said(messages), NEW i \in 1..n, NEW j \in 1..n,
             TextAt(messages, p) = i - d, TextAt(messages, q) = j - d, Before(p, q)
      PROVE  i < j
  <2>1. PICK a \in 1..n : p = <<a, 1>> /\ TextAt(messages, p) = a - d
    BY <1>3
  <2>2. PICK b \in 1..n : q = <<b, 1>> /\ TextAt(messages, q) = b - d
    BY <1>3
  <2>3. a = i /\ b = j
    BY <1>5, <2>1, <2>2
  <2>4. p[1] = a /\ p[2] = 1 /\ q[1] = b /\ q[2] = 1
    BY <2>1, <2>2
  <2>5. QED
    BY <1>5, <2>3, <2>4 DEF Before
<1>6. Said(messages) \subseteq Nat \X Nat
  BY <1>3
<1>7. QED
  BY <1>1, <1>3, <1>4, <1>5, <1>6 DEF Tells

\* The instructions are put into message f, one behind the other; the k-th message
\* of the conversation is at k + c, and its text is the M[k]-th there.
Conversation(messages) == {i \in DOMAIN messages : ~IsSystem(messages[i])}

InstructionAt(out, messages, d, f, p, k) ==
    /\ k \in 1..Cardinality(Instructions(messages))
    /\ p = <<f, k>>
    /\ TextAt(out, p) = InOrder(Instructions(messages))[k] - d

TurnAt(out, messages, d, c, M, p, k) ==
    /\ k \in 1..Cardinality(Conversation(messages))
    /\ messages[InOrder(Conversation(messages))[k]].text # <<>>
    /\ p = <<k + c, M[k]>>
    /\ TextAt(out, p) = InOrder(Conversation(messages))[k] - d

Folded(out, messages, d, f, c, M) ==
    /\ M \in [1..Cardinality(Conversation(messages)) -> Nat]
    /\ \A p \in Said(out) : \/ \E k : InstructionAt(out, messages, d, f, p, k)
                            \/ \E k : TurnAt(out, messages, d, c, M, p, k)
    /\ \A k \in 1..Cardinality(Instructions(messages)) :
          \E p \in Said(out) : InstructionAt(out, messages, d, f, p, k)
    /\ \A k \in 1..Cardinality(Conversation(messages)) :
          messages[InOrder(Conversation(messages))[k]].text # <<>> =>
              \E p \in Said(out) : TurnAt(out, messages, d, c, M, p, k)

\* The places of a message list as a filter walks them.
LEMMA KindsInOrder ==
    ASSUME NEW messages, NEW d \in {0, 1}, Numbered(messages, d),
           NEW S, S \subseteq DOMAIN messages
    PROVE  /\ S \in SUBSET Nat /\ Cardinality(S) \in Nat
           /\ \A k \in 1..Cardinality(S) : InOrder(S)[k] \in S
           /\ \A k, l \in 1..Cardinality(S) : k < l => InOrder(S)[k] < InOrder(S)[l]
           /\ \A i \in S : \E k \in 1..Cardinality(S) : InOrder(S)[k] = i
<1>1. PICK n \in Nat : DOMAIN messages = 1..n
  BY DEF Numbered
<1>2. S \in SUBSET Nat /\ IsFiniteSet(S)
  <2>1. IsFiniteSet(1..n)
    BY FS_Interval
  <2>2. QED
    BY <1>1, <2>1, FS_Subset
<1>3. Cardinality(S) \in Nat
  BY <1>2, FS_CardinalityType
<1>4. S = {InOrder(S)[k] : k \in 1..Cardinality(S)}
  BY <1>2, InOrderProperties
<1>5. \A k, l \in 1..Cardinality(S) : k < l => InOrder(S)[k] < InOrder(S)[l]
  BY <1>2, InOrderProperties
<1> QED
  BY <1>2, <1>3, <1>4, <1>5

\* However they are folded, everything is told, once and in order.
LEMMA FoldedTells ==
    ASSUME NEW messages, NEW d \in {0, 1}, Numbered(messages, d),
           NEW out, NEW f \in Nat, NEW c \in {0, 1}, NEW M, Folded(out, messages, d, f, c, M)
    PROVE  Tells(out, messages, d)
<1> DEFINE S == Instructions(messages)
           O == Conversation(messages)
<1>1. PICK n \in Nat : DOMAIN messages = 1..n
  BY DEF Numbered
<1>2. S \subseteq 1..n /\ O \subseteq 1..n
  BY <1>1 DEF Instructions, Conversation
<1>3. /\ \A i \in S : IsSystem(messages[i]) /\ messages[i].text # <<>>
      /\ \A i \in O : ~IsSystem(messages[i])
      /\ \A i \in 1..n : messages[i].text # <<>> => i \in S \/ i \in O
  BY <1>1 DEF Instructions, Conversation
<1>4. /\ Cardinality(S) \in Nat
      /\ \A k \in 1..Cardinality(S) : InOrder(S)[k] \in S
      /\ \A k, l \in 1..Cardinality(S) : k < l => InOrder(S)[k] < InOrder(S)[l]
      /\ \A i \in S : \E k \in 1..Cardinality(S) : InOrder(S)[k] = i
  BY <1>1, <1>2, KindsInOrder
<1>5. /\ Cardinality(O) \in Nat
      /\ \A k \in 1..Cardinality(O) : InOrder(O)[k] \in O
      /\ \A k, l \in 1..Cardinality(O) : k < l => InOrder(O)[k] < InOrder(O)[l]
      /\ \A i \in O : \E k \in 1..Cardinality(O) : InOrder(O)[k] = i
  BY <1>1, <1>2, KindsInOrder
<1>6. /\ M \in [1..Cardinality(O) -> Nat]
      /\ \A p \in Said(out) : \/ \E k : InstructionAt(out, messages, d, f, p, k)
                              \/ \E k : TurnAt(out, messages, d, c, M, p, k)
      /\ \A k \in 1..Cardinality(S) : \E p \in Said(out) : InstructionAt(out, messages, d, f, p, k)
      /\ \A k \in 1..Cardinality(O) :
            messages[InOrder(O)[k]].text # <<>> =>
                \E p \in Said(out) : TurnAt(out, messages, d, c, M, p, k)
  BY DEF Folded
<1>7. \A p, k : InstructionAt(out, messages, d, f, p, k) <=>
          k \in 1..Cardinality(S) /\ p = <<f, k>> /\ TextAt(out, p) = InOrder(S)[k] - d
  BY DEF InstructionAt
<1>8. \A p, k : TurnAt(out, messages, d, c, M, p, k) <=>
          /\ k \in 1..Cardinality(O) /\ messages[InOrder(O)[k]].text # <<>>
          /\ p = <<k + c, M[k]>> /\ TextAt(out, p) = InOrder(O)[k] - d
  BY DEF TurnAt
<1> HIDE DEF S, O
<1>9. ASSUME NEW p, NEW k, InstructionAt(out, messages, d, f, p, k)
      PROVE  /\ k \in 1..Cardinality(S) /\ p \in Nat \X Nat /\ p[1] = f /\ p[2] = k
             /\ InOrder(S)[k] \in S /\ InOrder(S)[k] \in 1..n
             /\ \A i \in 1..n : TextAt(out, p) = i - d => InOrder(S)[k] = i
  <2>1. k \in 1..Cardinality(S) /\ p = <<f, k>> /\ TextAt(out, p) = InOrder(S)[k] - d
    BY <1>7, <1>9
  <2>2. InOrder(S)[k] \in S /\ InOrder(S)[k] \in 1..n
    BY <1>2, <1>4, <2>1
  <2>3. \A i \in 1..n : TextAt(out, p) = i - d => InOrder(S)[k] = i
    BY <2>1, <2>2
  <2>4. k \in Nat
    BY <1>4, <2>1
  <2>5. QED
    BY <2>1, <2>2, <2>3, <2>4
<1>10. ASSUME NEW p, NEW k, TurnAt(out, messages, d, c, M, p, k)
       PROVE  /\ k \in 1..Cardinality(O) /\ p \in Nat \X Nat /\ p[1] = k + c /\ p[2] = M[k]
              /\ InOrder(O)[k] \in O /\ InOrder(O)[k] \in 1..n
              /\ \A i \in 1..n : TextAt(out, p) = i - d => InOrder(O)[k] = i
  <2>1. k \in 1..Cardinality(O) /\ p = <<k + c, M[k]>> /\ TextAt(out, p) = InOrder(O)[k] - d
    BY <1>8, <1>10
  <2>2. InOrder(O)[k] \in O /\ InOrder(O)[k] \in 1..n
    BY <1>2, <1>5, <2>1
  <2>3. \A i \in 1..n : TextAt(out, p) = i - d => InOrder(O)[k] = i
    BY <2>1, <2>2
  <2>4. k + c \in Nat /\ M[k] \in Nat
    BY <1>5, <1>6, <2>1
  <2>5. QED
    BY <2>1, <2>2, <2>3, <2>4
<1>11. ASSUME NEW p \in Said(out)
       PROVE  /\ p \in Nat \X Nat
              /\ \E i \in 1..n : messages[i].text # <<>> /\ TextAt(out, p) = i - d
  <2>1. ASSUME NEW k, InstructionAt(out, messages, d, f, p, k)
        PROVE  /\ InOrder(S)[k] \in 1..n /\ messages[InOrder(S)[k]].text # <<>>
               /\ TextAt(out, p) = InOrder(S)[k] - d
    BY <1>3, <1>7, <1>9, <2>1
  <2>2. ASSUME NEW k, TurnAt(out, messages, d, c, M, p, k)
        PROVE  /\ InOrder(O)[k] \in 1..n /\ messages[InOrder(O)[k]].text # <<>>
               /\ TextAt(out, p) = InOrder(O)[k] - d
    BY <1>8, <1>10, <2>2
  <2>3. QED
    BY <1>6, <1>9, <1>10, <2>1, <2>2
<1>12. ASSUME NEW i \in 1..n, messages[i].text # <<>>
       PROVE  \E p \in Said(out) : TextAt(out, p) = i - d
  <2>1. CASE i \in S
    BY <1>4, <1>6, <1>7, <2>1
  <2>2. CASE i \in O
    <3>1. PICK k \in 1..Cardinality(O) : InOrder(O)[k] = i
      BY <1>5, <2>2
    <3>2. PICK p \in Said(out) : TurnAt(out, messages, d, c, M, p, k)
      BY <1>6, <1>12, <3>1
    <3>3. QED
      BY <1>8, <3>1, <3>2
  <2>3. QED
    BY <1>3, <1>12, <2>1, <2>2
<1>13. ASSUME NEW p \in Said(out), NEW q \in Said(out), NEW i \in 1..n, NEW j \in 1..n,
              TextAt(out, p) = i - d, TextAt(out, q) = j - d,
              IsSystem(messages[i]) <=> IsSystem(messages[j]), Before(p, q)
       PROVE  i < j
  <2>1. ASSUME NEW k, InstructionAt(out, messages, d, f, p, k),
               NEW l, InstructionAt(out, messages, d, f, q, l)
        PROVE  i < j
    <3>1. k \in 1..Cardinality(S) /\ p[1] = f /\ p[2] = k /\ InOrder(S)[k] = i
      BY <1>9, <1>13, <2>1
    <3>2. l \in 1..Cardinality(S) /\ q[1] = f /\ q[2] = l /\ InOrder(S)[l] = j
      BY <1>9, <1>13, <2>1
    <3>3. k < l
      BY <1>13, <3>1, <3>2 DEF Before
    <3>4. QED
      BY <1>4, <3>1, <3>2, <3>3
  <2>2. ASSUME NEW k, TurnAt(out, messages, d, c, M, p, k),
               NEW l, TurnAt(out, messages, d, c, M, q, l)
        PROVE  i < j
    <3>1. k \in 1..Cardinality(O) /\ p[1] = k + c /\ p[2] = M[k] /\ InOrder(O)[k] = i
      BY <1>10, <1>13, <2>2
    <3>2. l \in 1..Cardinality(O) /\ q[1] = l + c /\ q[2] = M[l] /\ InOrder(O)[l] = j
      BY <1>10, <1>13, <2>2
    <3>3. M[k] \in Nat /\ M[l] \in Nat
      BY <1>6, <3>1, <3>2
    <3>4. k < l
      <4>1. k + c < l + c \/ (k + c = l + c /\ M[k] < M[l])
        BY <1>13, <3>1, <3>2 DEF Before
      <4>2. k \in Int /\ l \in Int /\ c \in Int
        BY <3>1, <3>2
      <4>3. k + c = l + c => k = l
        BY <4>2
      <4>4. k + c < l + c => k < l
        BY <4>2
      <4>5. QED
        BY <3>3, <4>1, <4>3, <4>4
    <3>5. QED
      BY <1>5, <3>1, <3>2, <3>4
  <2>3. ASSUME NEW k, NEW l, NEW x, NEW y, NEW a \in 1..n, NEW b \in 1..n,
               InstructionAt(out, messages, d, f, x, k), TextAt(out, x) = a - d,
               TurnAt(out, messages, d, c, M, y, l), TextAt(out, y) = b - d
        PROVE  IsSystem(messages[a]) /\ ~IsSystem(messages[b])
    <3>1. a \in S
      BY <1>9, <2>3
    <3>2. b \in O
      BY <1>10, <2>3
    <3>3. QED
      BY <1>3, <3>1, <3>2
  <2>4. QED
    BY <1>6, <1>13, <2>1, <2>2, <2>3
<1>14. QED
  BY <1>1, <1>11, <1>12, <1>13 DEF Tells

\* The preamble has the instructions in their order, and the rest no other message.
LEMMA PreambleOf ==
    ASSUME NEW messages, NEW d \in {0, 1}, Numbered(messages, d)
    PROVE  /\ Cardinality(Instructions(messages)) \in Nat
           /\ Preamble(messages) \in Seq(Int)
           /\ Len(Preamble(messages)) = Cardinality(Instructions(messages))
           /\ \A k \in 1..Cardinality(Instructions(messages)) :
                 Preamble(messages)[k] = InOrder(Instructions(messages))[k] - d
<1> DEFINE S == Instructions(messages)
           pre == Preamble(messages)
<1>1. PICK n \in Nat : /\ DOMAIN messages = 1..n
                       /\ \A i \in 1..n : messages[i].text \in {<<>>, <<i - d>>}
  BY DEF Numbered
<1>2. S \subseteq 1..n /\ \A i \in S : messages[i].text # <<>>
  BY <1>1 DEF Instructions
<1>3. Cardinality(S) \in Nat /\ \A k \in 1..Cardinality(S) : InOrder(S)[k] \in S
  BY <1>1, <1>2, KindsInOrder
<1>4. \A i \in S : messages[i].text[1] = i - d /\ i - d \in Int
  BY <1>1, <1>2
<1>5. pre = [k \in 1..Cardinality(S) |-> FilteredAt(messages, S)[k].text[1]]
  BY DEF Preamble
<1>6. \A k \in 1..Cardinality(S) : FilteredAt(messages, S)[k] = messages[InOrder(S)[k]]
  BY DEF FilteredAt
<1> HIDE DEF S, pre
<1>7. \A k \in 1..Cardinality(S) : pre[k] = InOrder(S)[k] - d /\ pre[k] \in Int
  BY <1>3, <1>4, <1>5, <1>6
<1>8. pre \in Seq(Int) /\ Len(pre) = Cardinality(S)
  BY <1>3, <1>5, <1>7
<1> QED
  BY <1>3, <1>7, <1>8 DEF S, pre

LEMMA RestOf ==
    ASSUME NEW messages, NEW d \in {0, 1}, Numbered(messages, d)
    PROVE  LET O == Conversation(messages)
               rest == OfOthers(messages)
           IN  /\ Cardinality(O) \in Nat
               /\ rest = [k \in 1..Cardinality(O) |-> messages[InOrder(O)[k]]]
               /\ \A k \in 1..Cardinality(O) : ~IsSystem(rest[k])
               /\ \A k \in 1..Cardinality(O) : rest[k].text \in {<<>>, <<InOrder(O)[k] - d>>}
<1> DEFINE O == Conversation(messages)
           rest == OfOthers(messages)
<1>1. PICK n \in Nat : /\ DOMAIN messages = 1..n
                       /\ \A i \in 1..n : messages[i].text \in {<<>>, <<i - d>>}
  BY DEF Numbered
<1>2. O \subseteq 1..n /\ \A i \in O : ~IsSystem(messages[i])
  BY <1>1 DEF Conversation
<1>3. Cardinality(O) \in Nat /\ \A k \in 1..Cardinality(O) : InOrder(O)[k] \in O
  BY <1>1, <1>2, KindsInOrder
<1>4. rest = [k \in 1..Cardinality(O) |-> messages[InOrder(O)[k]]]
  BY DEF OfOthers, FilteredAt, Conversation
<1> HIDE DEF O, rest
<1>5. \A k \in 1..Cardinality(O) : rest[k] = messages[InOrder(O)[k]]
  BY <1>4
<1>6. \A k \in 1..Cardinality(O) : ~IsSystem(rest[k])
  BY <1>2, <1>3, <1>5
<1>7. \A k \in 1..Cardinality(O) : rest[k].text \in {<<>>, <<InOrder(O)[k] - d>>}
  BY <1>1, <1>2, <1>3, <1>5
<1> QED
  BY <1>3, <1>4, <1>6, <1>7 DEF O, rest

\* A text by itself.
LEMMA OneText ==
    /\ \A v : <<v>> # <<>> /\ DOMAIN <<v>> = {1} /\ Len(<<v>>) = 1 /\ <<v>>[1] = v
    /\ \A v \in Int : <<v>> \in Seq(Int)
    /\ <<>> \in Seq(Int) /\ Len(<<>>) = 0
OBVIOUS

\* A turn of its own before the conversation.
LEMMA OwnTurnFolded ==
    ASSUME NEW messages, NEW d \in {0, 1}, Numbered(messages, d), NEW turn,
           turn.text = Preamble(messages)
    PROVE  /\ Folded(<<turn>> \o OfOthers(messages), messages, d, 1, 1,
                     [k \in 1..Cardinality(Conversation(messages)) |-> 1])
           /\ \A i \in DOMAIN (<<turn>> \o OfOthers(messages)) :
                 (<<turn>> \o OfOthers(messages))[i] = turn \/ ~IsSystem((<<turn>> \o OfOthers(messages))[i])
<1> DEFINE S == Instructions(messages)
           O == Conversation(messages)
           pre == Preamble(messages)
           rest == OfOthers(messages)
           out == <<turn>> \o rest
           M == [k \in 1..Cardinality(O) |-> 1]
<1>1. /\ Cardinality(S) \in Nat /\ DOMAIN pre = 1..Cardinality(S)
      /\ \A k \in 1..Cardinality(S) : pre[k] = InOrder(S)[k] - d
  <2>1. DOMAIN pre = 1..Len(pre)
    BY PreambleOf, LenProperties
  <2> QED
    BY <2>1, PreambleOf
<1>2. /\ Cardinality(O) \in Nat
      /\ rest = [k \in 1..Cardinality(O) |-> messages[InOrder(O)[k]]]
      /\ \A k \in 1..Cardinality(O) : ~IsSystem(rest[k])
      /\ \A k \in 1..Cardinality(O) : rest[k].text \in {<<>>, <<InOrder(O)[k] - d>>}
  BY RestOf
<1>3. \A k \in 1..Cardinality(O) : rest[k] = messages[InOrder(O)[k]]
  BY <1>2
<1> HIDE DEF S, O, pre, rest
<1>4. /\ DOMAIN out = 1..(Cardinality(O) + 1) /\ out[1] = turn
      /\ \A k \in 1..Cardinality(O) : out[k + 1] = rest[k]
  <2> DEFINE R == {rest[k] : k \in 1..Cardinality(O)} \cup {turn}
             c == Cardinality(O)
  <2>1. rest \in Seq(R) /\ Len(rest) = c /\ c \in Nat
    <3>1. rest \in [1..c -> R]
      BY <1>2
    <3>2. c \in Nat
      BY <1>2
    <3> HIDE DEF R, c
    <3>3. QED
      BY <3>1, <3>2
  <2>2. <<turn>> \in Seq(R) /\ Len(<<turn>>) = 1 /\ <<turn>>[1] = turn
    OBVIOUS
  <2> HIDE DEF R, c
  <2>3. /\ Len(out) = 1 + c /\ out \in Seq(R)
        /\ \A i \in 1..(1 + c) : out[i] = IF i <= 1 THEN <<turn>>[i] ELSE rest[i - 1]
    BY <2>1, <2>2, ConcatProperties
  <2>4. DOMAIN out = 1..(1 + c)
    BY <2>3, LenProperties
  <2> HIDE DEF out
  <2>5. out[1] = turn
    BY <2>1, <2>2, <2>3
  <2>6. \A k \in 1..c : out[k + 1] = rest[k]
    <3>1. \A k \in 1..c : k + 1 \in 1..(1 + c) /\ ~(k + 1 <= 1) /\ (k + 1) - 1 = k
      BY <2>1
    <3> QED
      BY <2>3, <3>1
  <2> QED
    BY <2>1, <2>4, <2>5, <2>6 DEF c
<1> HIDE DEF out
<1>5. \A k \in 1..Cardinality(S) : /\ <<1, k>> \in Said(out)
                                   /\ InstructionAt(out, messages, d, 1, <<1, k>>, k)
  <2> SUFFICES ASSUME NEW k \in 1..Cardinality(S)
               PROVE  <<1, k>> \in Said(out) /\ InstructionAt(out, messages, d, 1, <<1, k>>, k)
    OBVIOUS
  <2>1. out[1].text = pre /\ 1 \in DOMAIN out
    BY <1>2, <1>4 DEF pre
  <2>2. <<1, k>> \in {1} \X DOMAIN out[1].text
    BY <1>1, <2>1
  <2>3. <<1, k>> \in Said(out)
    BY <2>1, <2>2 DEF Said
  <2>4. TextAt(out, <<1, k>>) = InOrder(S)[k] - d
    BY <1>1, <2>1 DEF TextAt
  <2> QED
    BY <2>3, <2>4 DEF InstructionAt, S
<1>6. \A k \in 1..Cardinality(O) :
          messages[InOrder(O)[k]].text # <<>> =>
              /\ <<k + 1, 1>> \in Said(out)
              /\ TurnAt(out, messages, d, 1, M, <<k + 1, 1>>, k)
  <2> SUFFICES ASSUME NEW k \in 1..Cardinality(O), messages[InOrder(O)[k]].text # <<>>
               PROVE  /\ <<k + 1, 1>> \in Said(out)
                      /\ TurnAt(out, messages, d, 1, M, <<k + 1, 1>>, k)
    OBVIOUS
  <2>1. out[k + 1].text = <<InOrder(O)[k] - d>> /\ k + 1 \in DOMAIN out
    BY <1>2, <1>3, <1>4
  <2>2. <<k + 1, 1>> \in {k + 1} \X DOMAIN out[k + 1].text
    BY <2>1
  <2>3. <<k + 1, 1>> \in Said(out)
    BY <2>1, <2>2 DEF Said
  <2>4. TextAt(out, <<k + 1, 1>>) = InOrder(O)[k] - d
    BY <2>1 DEF TextAt
  <2>5. M[k] = 1
    OBVIOUS
  <2> QED
    BY <2>3, <2>4, <2>5 DEF TurnAt, O
<1>7. ASSUME NEW p \in Said(out)
      PROVE  \/ \E k : InstructionAt(out, messages, d, 1, p, k)
             \/ \E k : TurnAt(out, messages, d, 1, M, p, k)
  <2>1. PICK i \in DOMAIN out : p \in {i} \X DOMAIN out[i].text
    BY DEF Said
  <2>2. PICK m \in DOMAIN out[i].text : p = <<i, m>>
    BY <2>1
  <2>3. CASE i = 1
    <3>1. m \in 1..Cardinality(S)
      BY <1>1, <1>4, <2>2, <2>3 DEF pre
    <3> QED
      BY <1>5, <2>2, <2>3, <3>1
  <2>4. CASE i # 1
    <3>1. PICK k \in 1..Cardinality(O) : i = k + 1
      <4>1. i - 1 \in 1..Cardinality(O) /\ i = (i - 1) + 1
        BY <1>2, <1>4, <2>4
      <4> QED
        BY <4>1
    <3>2. out[i].text = rest[k].text
      BY <1>4, <3>1
    <3>3. rest[k].text = <<InOrder(O)[k] - d>>
      BY <1>2, <2>2, <3>2
    <3>4. m = 1
      BY <3>2, <3>3
    <3>5. messages[InOrder(O)[k]].text # <<>>
      BY <1>3, <3>3, OneText
    <3> QED
      BY <1>6, <2>2, <3>1, <3>4, <3>5
  <2> QED
    BY <2>3, <2>4
<1>8. M \in [1..Cardinality(O) -> Nat]
  OBVIOUS
<1>9. \A i \in DOMAIN out : out[i] = turn \/ ~IsSystem(out[i])
  <2> SUFFICES ASSUME NEW i \in DOMAIN out, i # 1 PROVE ~IsSystem(out[i])
    BY <1>4
  <2>1. i - 1 \in 1..Cardinality(O) /\ i = (i - 1) + 1
    BY <1>2, <1>4
  <2> QED
    BY <1>2, <1>4, <2>1
<1> HIDE DEF M
<1>10. Folded(out, messages, d, 1, 1, M)
  <2>1. \A k \in 1..Cardinality(S) : \E p \in Said(out) : InstructionAt(out, messages, d, 1, p, k)
    BY <1>5
  <2>2. \A k \in 1..Cardinality(O) :
          messages[InOrder(O)[k]].text # <<>> =>
              \E p \in Said(out) : TurnAt(out, messages, d, 1, M, p, k)
    BY <1>6
  <2> QED
    BY <1>7, <1>8, <2>1, <2>2 DEF Folded, S, O
<1> QED
  BY <1>9, <1>10 DEF out, rest, M, O

\* The first user turn of the conversation, with the preamble before its text.
LEMMA FirstTurnFolded ==
    ASSUME NEW messages, NEW d \in {0, 1}, Numbered(messages, d),
           NEW f \in 1..Cardinality(Conversation(messages)), NEW turn,
           turn.text = Preamble(messages) \o OfOthers(messages)[f].text
    PROVE  LET O == Conversation(messages)
               out == [OfOthers(messages) EXCEPT ![f] = turn]
               after == Cardinality(Instructions(messages)) + 1
           IN  /\ Folded(out, messages, d, f, 0, [k \in 1..Cardinality(O) |-> IF k = f THEN after ELSE 1])
               /\ \A i \in DOMAIN out : out[i] = turn \/ ~IsSystem(out[i])
<1> DEFINE S == Instructions(messages)
           O == Conversation(messages)
           pre == Preamble(messages)
           rest == OfOthers(messages)
           s == Cardinality(S)
           c == Cardinality(O)
           out == [rest EXCEPT ![f] = turn]
           M == [k \in 1..c |-> IF k = f THEN s + 1 ELSE 1]
<1>1. /\ s \in Nat /\ pre \in Seq(Int) /\ Len(pre) = s
      /\ \A k \in 1..s : pre[k] = InOrder(S)[k] - d
  BY PreambleOf
<1>2. /\ c \in Nat
      /\ rest = [k \in 1..c |-> messages[InOrder(O)[k]]]
      /\ \A k \in 1..c : ~IsSystem(rest[k])
      /\ \A k \in 1..c : rest[k].text \in {<<>>, <<InOrder(O)[k] - d>>}
  BY RestOf
<1>3. \A k \in 1..c : rest[k] = messages[InOrder(O)[k]]
  BY <1>2
<1>4. turn.text = pre \o rest[f].text
  OBVIOUS
<1>5. \A k \in 1..c : InOrder(O)[k] - d \in Int
  <2>1. \A k \in 1..c : InOrder(O)[k] \in O
    BY KindsInOrder DEF Conversation
  <2>2. \A k \in O : k - d \in Int
    <3>1. O \in SUBSET Nat
      BY KindsInOrder DEF Conversation
    <3> QED
      BY <3>1
  <2> QED
    BY <2>1, <2>2
<1> HIDE DEF S, O, pre, rest, s, c
<1>6. /\ DOMAIN out = 1..c /\ out[f] = turn
      /\ \A k \in 1..c : k # f => out[k] = rest[k]
  BY <1>2 DEF c, O
<1> HIDE DEF out
<1>7. /\ \A k \in 1..s : k \in DOMAIN turn.text /\ turn.text[k] = InOrder(S)[k] - d
      /\ rest[f].text = <<>> => DOMAIN turn.text = 1..s
      /\ rest[f].text # <<>> => /\ DOMAIN turn.text = 1..(s + 1)
                                /\ turn.text[s + 1] = InOrder(O)[f] - d
  <2> DEFINE t == rest[f].text
  <2>0. f \in 1..c
    BY DEF c, O
  <2>1. t = <<>> \/ t = <<InOrder(O)[f] - d>>
    BY <1>2, <2>0
  <2> DEFINE v == InOrder(O)[f] - d
  <2> HIDE DEF t, v
  <2>2. v \in Int /\ (t = <<>> \/ t = <<v>>)
    BY <1>5, <2>0, <2>1 DEF v
  <2>3. t \in Seq(Int) /\ Len(t) \in Nat
    BY <2>2, OneText
  <2>4. t = <<>> => Len(t) = 0
    BY OneText
  <2>5. t # <<>> => Len(t) = 1 /\ t[1] = v
    BY <2>2, OneText
  <2>6. t # <<>> => Len(t) = 1 /\ t[1] = InOrder(O)[f] - d
    BY <2>5 DEF v
  <2>7. /\ turn.text \in Seq(Int) /\ Len(turn.text) = s + Len(t)
        /\ \A i \in 1..(s + Len(t)) : turn.text[i] = IF i <= s THEN pre[i] ELSE t[i - s]
    <3>1. turn.text = pre \o t
      BY <1>4 DEF t
    <3> DEFINE x == turn.text
    <3> HIDE DEF x
    <3>2. /\ x \in Seq(Int) /\ Len(x) = Len(pre) + Len(t)
          /\ \A i \in 1..(Len(pre) + Len(t)) : x[i] = IF i <= Len(pre) THEN pre[i] ELSE t[i - Len(pre)]
      BY <1>1, <2>3, <3>1, ConcatProperties DEF x
    <3> QED
      BY <1>1, <3>2 DEF x
  <2>8. DOMAIN turn.text = 1..(s + Len(t))
    BY <2>7, LenProperties
  <2>9. \A k \in 1..s : k \in 1..(s + Len(t)) /\ k <= s
    BY <1>1, <2>3
  <2>10. \A k \in 1..s : k \in DOMAIN turn.text /\ turn.text[k] = InOrder(S)[k] - d
    BY <1>1, <2>7, <2>8, <2>9
  <2>11. t = <<>> => DOMAIN turn.text = 1..s
    BY <1>1, <2>4, <2>8
  <2>12. ASSUME t # <<>>
         PROVE  DOMAIN turn.text = 1..(s + 1) /\ turn.text[s + 1] = InOrder(O)[f] - d
    <3>1. s + 1 \in 1..(s + Len(t)) /\ ~(s + 1 <= s) /\ (s + 1) - s = 1
      BY <1>1, <2>6, <2>12
    <3> QED
      BY <2>6, <2>7, <2>8, <2>12, <3>1
  <2> QED
    BY <2>10, <2>11, <2>12 DEF t
<1>8. \A k \in 1..s : /\ <<f, k>> \in Said(out)
                      /\ InstructionAt(out, messages, d, f, <<f, k>>, k)
  <2> SUFFICES ASSUME NEW k \in 1..s
               PROVE  <<f, k>> \in Said(out) /\ InstructionAt(out, messages, d, f, <<f, k>>, k)
    OBVIOUS
  <2>1. f \in DOMAIN out
    BY <1>6 DEF c, O
  <2>2. <<f, k>> \in {f} \X DOMAIN out[f].text
    BY <1>6, <1>7
  <2>3. <<f, k>> \in Said(out)
    BY <2>1, <2>2 DEF Said
  <2>4. TextAt(out, <<f, k>>) = InOrder(S)[k] - d
    BY <1>6, <1>7 DEF TextAt
  <2> QED
    BY <2>3, <2>4 DEF InstructionAt, S, s
<1>9. M \in [1..c -> Nat] /\ \A k \in 1..c : M[k] = IF k = f THEN s + 1 ELSE 1
  BY <1>1
<1> HIDE DEF M
<1>10. \A k \in 1..c :
          messages[InOrder(O)[k]].text # <<>> =>
              /\ <<k, M[k]>> \in Said(out)
              /\ TurnAt(out, messages, d, 0, M, <<k, M[k]>>, k)
  <2> SUFFICES ASSUME NEW k \in 1..c, messages[InOrder(O)[k]].text # <<>>
               PROVE  /\ <<k, M[k]>> \in Said(out)
                      /\ TurnAt(out, messages, d, 0, M, <<k, M[k]>>, k)
    OBVIOUS
  <2>1. rest[k].text = <<InOrder(O)[k] - d>> /\ k \in DOMAIN out
    BY <1>2, <1>3, <1>6
  <2>2. M[k] \in DOMAIN out[k].text /\ out[k].text[M[k]] = InOrder(O)[k] - d
    <3>1. CASE k = f
      <4>1. s + 1 \in 1..(s + 1)
        BY <1>1
      <4>2. rest[f].text # <<>>
        BY <2>1, <3>1, OneText
      <4>3. M[k] = s + 1 /\ out[k] = turn
        BY <1>6, <1>9, <3>1
      <4> QED
        BY <1>7, <3>1, <4>1, <4>2, <4>3
    <3>2. CASE k # f
      BY <1>6, <1>9, <2>1, <3>2
    <3> QED
      BY <3>1, <3>2
  <2>3. <<k, M[k]>> \in {k} \X DOMAIN out[k].text
    BY <2>2
  <2>4. <<k, M[k]>> \in Said(out)
    BY <2>1, <2>3 DEF Said
  <2>5. TextAt(out, <<k, M[k]>>) = InOrder(O)[k] - d
    BY <2>2 DEF TextAt
  <2>6. k + 0 = k
    OBVIOUS
  <2> QED
    BY <2>4, <2>5, <2>6 DEF TurnAt, O, c
<1>11. ASSUME NEW p \in Said(out)
       PROVE  \/ \E k : InstructionAt(out, messages, d, f, p, k)
              \/ \E k : TurnAt(out, messages, d, 0, M, p, k)
  <2>1. PICK i \in DOMAIN out : p \in {i} \X DOMAIN out[i].text
    BY DEF Said
  <2>2. PICK m \in DOMAIN out[i].text : p = <<i, m>>
    BY <2>1
  <2>3. CASE i = f /\ m \in 1..s
    BY <1>8, <2>2, <2>3
  <2>4. CASE i = f /\ m \notin 1..s
    <3>1. m \in DOMAIN turn.text
      BY <1>6, <2>2, <2>4
    <3>2. rest[f].text # <<>>
      BY <1>7, <2>4, <3>1
    <3>3. m \in 1..(s + 1)
      BY <1>7, <3>1, <3>2
    <3>4. m = s + 1 /\ i \in 1..c
      BY <1>1, <1>6, <2>4, <3>3
    <3>5. M[i] = m /\ messages[InOrder(O)[i]].text # <<>>
      BY <1>3, <1>9, <2>4, <3>2, <3>4
    <3> QED
      BY <1>10, <2>2, <3>4, <3>5
  <2>5. CASE i # f
    <3>1. i \in 1..c /\ out[i].text = rest[i].text
      BY <1>6, <2>5
    <3>2. rest[i].text = <<InOrder(O)[i] - d>>
      BY <1>2, <2>2, <3>1
    <3>3. m = 1
      BY <3>1, <3>2
    <3>4. M[i] = m
      BY <1>9, <2>5, <3>1, <3>3
    <3>5. messages[InOrder(O)[i]].text # <<>>
      BY <1>3, <3>1, <3>2, OneText
    <3> QED
      BY <1>10, <2>2, <3>1, <3>4, <3>5
  <2> QED
    BY <2>3, <2>4, <2>5
<1>12. \A i \in DOMAIN out : out[i] = turn \/ ~IsSystem(out[i])
  BY <1>2, <1>6
<1>13. Folded(out, messages, d, f, 0, M)
  <2>1. \A k \in 1..s : \E p \in Said(out) : InstructionAt(out, messages, d, f, p, k)
    BY <1>8
  <2>2. \A k \in 1..c :
          messages[InOrder(O)[k]].text # <<>> =>
              \E p \in Said(out) : TurnAt(out, messages, d, 0, M, p, k)
    BY <1>10
  <2> QED
    BY <1>9, <1>11, <2>1, <2>2 DEF Folded, S, O, s, c
<1> QED
  BY <1>12, <1>13 DEF out, rest, M, O, S, s, c

\* Merged messages tell what was given, and nothing in the system's role.
Unspoken(out) == \A i \in DOMAIN out : IsSystem(out[i]) => out[i].text = <<>>

LEMMA MergeTells ==
    ASSUME NEW messages, NEW d \in {0, 1}, Numbered(messages, d)
    PROVE  Tells(MergeSystem(messages), messages, d) /\ Unspoken(MergeSystem(messages))
<1> DEFINE S == Instructions(messages)
           O == Conversation(messages)
           rest == OfOthers(messages)
           turns == {i \in DOMAIN rest : rest[i].role = "user"}
           f == CHOOSE i \in turns : \A j \in turns : i <= j
           alone == [role |-> "user", form |-> "text", text |-> Preamble(messages)]
           turn == [alone EXCEPT !.text = @ \o rest[f].text]
<1>1. PICK n \in Nat : DOMAIN messages = 1..n
  BY DEF Numbered
<1>2. /\ alone.text = Preamble(messages) /\ ~IsSystem(alone)
      /\ turn.text = Preamble(messages) \o rest[f].text /\ ~IsSystem(turn)
  BY DEF IsSystem, SystemRoles
<1>3. CASE ~HasPreamble(messages)
  <2>1. Len(Preamble(messages)) = Cardinality(S) /\ Preamble(messages) = <<>>
    BY <1>3, PreambleOf DEF HasPreamble
  <2>2. Cardinality(S) = 0
    BY <2>1, OneText
  <2>3. S = {}
    <3>1. S \subseteq DOMAIN messages
      BY DEF Instructions
    <3>2. \A i \in S : \E k \in 1..Cardinality(S) : InOrder(S)[k] = i
      BY <3>1, KindsInOrder
    <3> HIDE DEF S
    <3> QED
      BY <2>2, <3>2
  <2>4. Unspoken(messages)
    BY <2>3 DEF Unspoken, Instructions
  <2>5. MergeSystem(messages) = messages
    BY <1>3 DEF MergeSystem
  <2> QED
    BY <2>4, <2>5, NumberedTells
<1>4. CASE HasPreamble(messages) /\ turns = {}
  <2> DEFINE out == <<alone>> \o rest
  <2>1. MergeSystem(messages) = out
    BY <1>4 DEF MergeSystem
  <2> DEFINE M == [k \in 1..Cardinality(O) |-> 1]
  <2> HIDE DEF alone
  <2>2. /\ Folded(out, messages, d, 1, 1, M)
        /\ \A i \in DOMAIN out : out[i] = alone \/ ~IsSystem(out[i])
    BY <1>2, OwnTurnFolded
  <2> HIDE DEF out, M
  <2>3. Tells(out, messages, d)
    BY <2>2, FoldedTells
  <2>4. Unspoken(out)
    BY <1>2, <2>2 DEF Unspoken
  <2> QED
    BY <2>1, <2>3, <2>4
<1>5. CASE HasPreamble(messages) /\ turns # {}
  <2> DEFINE out == [rest EXCEPT ![f] = turn]
             M == [k \in 1..Cardinality(O) |-> IF k = f THEN Cardinality(S) + 1 ELSE 1]
  <2>1. MergeSystem(messages) = out
    BY <1>5 DEF MergeSystem
  <2>2. Cardinality(O) \in Nat /\ DOMAIN rest = 1..Cardinality(O)
    BY RestOf
  <2>3. f \in turns
    <3>1. turns \in SUBSET Nat
      BY <2>2
    <3>2. \E i \in turns : \A j \in turns : i <= j
      <4> HIDE DEF turns
      <4> QED
        BY <1>5, <3>1, LeastNumber
    <3> HIDE DEF turns
    <3> QED
      BY <3>2
  <2>4. f \in 1..Cardinality(O)
    <3> HIDE DEF f
    <3> QED
      BY <2>2, <2>3
  <2> HIDE DEF turn, f
  <2>5. /\ Folded(out, messages, d, f, 0, M)
        /\ \A i \in DOMAIN out : out[i] = turn \/ ~IsSystem(out[i])
    BY <1>2, <2>4, FirstTurnFolded
  <2> HIDE DEF out, M
  <2>6. f \in Nat
    BY <2>2, <2>4
  <2>7. Tells(out, messages, d)
    BY <2>5, <2>6, FoldedTells
  <2>8. Unspoken(out)
    BY <1>2, <2>5 DEF Unspoken
  <2> QED
    BY <2>1, <2>7, <2>8
<1> QED
  BY <1>3, <1>4, <1>5

\* What a caller says: the i-th message has the text i, or is blank.
Spoken(messages) ==
    \E n \in Nat :
        /\ messages = [i \in 1..n |-> messages[i]]
        /\ \A i \in 1..n : /\ messages[i].text = IF messages[i].form = "blank" THEN <<>> ELSE <<i>>

Default == [role |-> "system", form |-> "text", text |-> <<0>>]

LEMMA SpokenNumbered ==
    ASSUME NEW messages, Spoken(messages)
    PROVE  /\ Numbered(messages, 0)
           /\ Numbered(<<Default>> \o messages, 1)
           /\ (<<Default>> \o messages)[1] = Default
           /\ DOMAIN (<<Default>> \o messages) = {1} \cup {i + 1 : i \in DOMAIN messages}
           /\ \A i \in DOMAIN messages : (<<Default>> \o messages)[i + 1] = messages[i]
           /\ DOMAIN messages \in SUBSET (Nat \ {0})
<1>1. PICK n \in Nat :
          /\ messages = [i \in 1..n |-> messages[i]]
          /\ \A i \in 1..n : messages[i].text = IF messages[i].form = "blank" THEN <<>> ELSE <<i>>
  BY DEF Spoken
<1>2. DOMAIN messages = 1..n
  BY <1>1
<1>3. Numbered(messages, 0)
  <2>1. \A i \in 1..n : i - 0 = i
    OBVIOUS
  <2> QED
    BY <1>1, <1>2, <2>1 DEF Numbered
<1> DEFINE R == {messages[i] : i \in 1..n} \cup {Default}
           given == <<Default>> \o messages
<1>4. messages \in Seq(R) /\ Len(messages) = n
  <2>1. messages \in [1..n -> R]
    BY <1>1
  <2> HIDE DEF R
  <2> QED
    BY <2>1
<1>5. <<Default>> \in Seq(R) /\ Len(<<Default>>) = 1 /\ <<Default>>[1] = Default
  OBVIOUS
<1> HIDE DEF R
<1>6. /\ Len(given) = 1 + n /\ given \in Seq(R)
      /\ \A i \in 1..(1 + n) : given[i] = IF i <= 1 THEN <<Default>>[i] ELSE messages[i - 1]
  BY <1>4, <1>5, ConcatProperties
<1>7. DOMAIN given = 1..(1 + n)
  BY <1>6, LenProperties
<1> HIDE DEF given
<1>8. given[1] = Default
  BY <1>5, <1>6
<1>9. \A i \in 1..n : given[i + 1] = messages[i]
  <2>1. \A i \in 1..n : i + 1 \in 1..(1 + n) /\ ~(i + 1 <= 1) /\ (i + 1) - 1 = i
    OBVIOUS
  <2> QED
    BY <1>6, <2>1
<1>10. 1..(1 + n) = {1} \cup {i + 1 : i \in 1..n}
  <2>1. \A i \in 1..n : i + 1 \in 1..(1 + n)
    OBVIOUS
  <2>2. \A j \in 1..(1 + n) : j # 1 => j - 1 \in 1..n /\ j = (j - 1) + 1
    OBVIOUS
  <2>3. 1 \in 1..(1 + n)
    OBVIOUS
  <2> QED
    BY <2>1, <2>2, <2>3
<1>11. \A j \in 1..(1 + n) : given[j].text \in {<<>>, <<j - 1>>}
  <2>1. given[1].text = <<1 - 1>>
    BY <1>8 DEF Default
  <2>2. \A i \in 1..n : given[i + 1].text \in {<<>>, <<(i + 1) - 1>>}
    <3>1. \A i \in 1..n : (i + 1) - 1 = i
      OBVIOUS
    <3> QED
      BY <1>1, <1>9, <3>1
  <2> QED
    BY <1>10, <2>1, <2>2
<1>12. Numbered(given, 1)
  <2>1. 1 + n \in Nat
    OBVIOUS
  <2> QED
    BY <1>7, <1>11, <2>1 DEF Numbered
<1>13. 1..n \in SUBSET (Nat \ {0})
  OBVIOUS
<1> QED
  BY <1>2, <1>3, <1>7, <1>8, <1>9, <1>10, <1>12, <1>13 DEF given

\* Of two places one is before the other.
LEMMA BeforeTotal ==
    \A p, q \in Nat \X Nat : p = q \/ Before(p, q) \/ Before(q, p)
<1> SUFFICES ASSUME NEW a \in Nat, NEW b \in Nat, NEW x \in Nat, NEW y \in Nat
             PROVE  <<a, b>> = <<x, y>> \/ Before(<<a, b>>, <<x, y>>) \/ Before(<<x, y>>, <<a, b>>)
  OBVIOUS
<1>1. \/ a < x \/ x < a
      \/ a = x /\ (b < y \/ y < b \/ b = y)
  OBVIOUS
<1>2. /\ <<a, b>>[1] = a /\ <<a, b>>[2] = b
      /\ <<x, y>>[1] = x /\ <<x, y>>[2] = y
  OBVIOUS
<1> QED
  BY <1>1, <1>2 DEF Before

\* What is asked is what a caller can say, and what is sent was built of it for the
\* model that was chosen.
BodyInv ==
    /\ asked = Unasked => selection = Refused("none")
    /\ asked.endpoint = "chat" => Spoken(asked.messages)
    /\ selection.ok /\ asked.endpoint = "chat" =>
          upstream = BuildMessages(selection.model, asked.messages)

LEMMA BodyInvOK == RoutingSpec => []BodyInv
<1>0. /\ Unasked.endpoint = "none"
      /\ \A name : Embedding(name).endpoint = "embeddings"
      /\ \A name, messages, tools, signals :
            /\ Asking("chat", name, messages, tools, signals).endpoint = "chat"
            /\ Asking("chat", name, messages, tools, signals).messages = messages
      /\ ~Refused("none").ok
  BY DEF Unasked, Embedding, Asking, Refused
<1>1. RoutingInit => BodyInv
  <2> SUFFICES ASSUME RoutingInit PROVE BodyInv
    OBVIOUS
  <2>1. asked.endpoint # "chat" /\ selection = Refused("none")
    BY <1>0 DEF RoutingInit, Refused
  <2> QED
    BY <1>0, <2>1 DEF BodyInv
<1>2. BodyInv /\ [RoutingNext]_routingVars => BodyInv'
  <2> SUFFICES ASSUME BodyInv, [RoutingNext]_routingVars PROVE BodyInv'
    OBVIOUS
  <2>1. CASE Ask
    <3>1. selection' = Refused("none")
      BY <2>1 DEF Ask, BodyInv
    <3>2. ASSUME asked'.endpoint = "chat" PROVE Spoken(asked.messages)'
      <4>1. PICK name \in Names, n \in 1..MaxMessages, tools \in BOOLEAN, signals \in {{}, {"long"}} :
              \E roles \in [1..n -> Roles], forms \in [1..n -> Forms] :
                asked' = Asking("chat", name, [i \in 1..n |-> Message(roles[i], forms[i], i)], tools, signals)
        BY <1>0, <2>1, <3>2 DEF Ask
      <4>2. PICK roles \in [1..n -> Roles], forms \in [1..n -> Forms] :
                asked' = Asking("chat", name, [i \in 1..n |-> Message(roles[i], forms[i], i)], tools, signals)
        BY <4>1
      <4> DEFINE messages == [i \in 1..n |-> Message(roles[i], forms[i], i)]
      <4>3. asked'.messages = messages
        BY <1>0, <4>2
      <4>4. n \in Nat
        BY RegistryAssumption
      <4>5. \A i \in 1..n : messages[i].text = IF messages[i].form = "blank" THEN <<>> ELSE <<i>>
        BY DEF Message
      <4>6. messages = [i \in 1..n |-> messages[i]]
        OBVIOUS
      <4> HIDE DEF messages
      <4> QED
        BY <4>3, <4>4, <4>5, <4>6 DEF Spoken
    <3>3. asked' # Unasked \/ selection' = Refused("none")
      BY <3>1
    <3> QED
      BY <1>0, <3>1, <3>2, <3>3 DEF BodyInv
  <2>2. CASE Route
    <3>1. /\ asked # Unasked /\ asked' = asked
          /\ selection'.ok /\ asked.endpoint = "chat" =>
                upstream' = BuildMessages(selection'.model, asked.messages)
      BY <2>2 DEF Route
    <3> QED
      BY <3>1 DEF BodyInv, Spoken
  <2>3. CASE UNCHANGED routingVars
    BY <2>3 DEF routingVars, BodyInv, Spoken, BuildMessages
  <2> QED
    BY <2>1, <2>2, <2>3 DEF RoutingNext
<1> QED
  BY <1>1, <1>2, PTL DEF RoutingSpec

LEMMA BodyKept == BodyInv => InstructionsKept
<1> SUFFICES ASSUME BodyInv, selection.ok, asked.endpoint = "chat" PROVE InstructionsKept
  BY DEF InstructionsKept
<1> DEFINE messages == asked.messages
           default == selection.model.prompt /\ ~CallerSetPrompt(messages)
           instruction(t) == t = 0 \/ IsSystem(messages[t])
           given == IF default THEN <<Default>> \o messages ELSE messages
           d == IF default THEN 1 ELSE 0
           told == {t \in DOMAIN messages : messages[t].text # <<>>} \cup {t \in {0} : default}
<1>1. Spoken(messages) /\ upstream = BuildMessages(selection.model, messages)
  BY DEF BodyInv
<1>2. upstream = IF selection.model.mode = "merge" THEN MergeSystem(given) ELSE given
  BY <1>1 DEF BuildMessages, Default
<1> HIDE DEF messages
<1>3. /\ d \in {0, 1} /\ Numbered(given, d)
      /\ DOMAIN given \in SUBSET Nat
      /\ \A t : t \in told <=> \E i \in DOMAIN given : given[i].text # <<>> /\ t = i - d
      /\ \A i \in DOMAIN given : IsSystem(given[i]) <=> instruction(i - d)
  <2>1. DOMAIN messages \in SUBSET (Nat \ {0})
    BY <1>1, SpokenNumbered
  <2>2. CASE default
    <3>1. /\ given = <<Default>> \o messages /\ d = 1
          /\ told = {t \in DOMAIN messages : messages[t].text # <<>>} \cup {0}
      BY <2>2
    <3> HIDE DEF default, given, d, told
    <3>2. /\ Numbered(given, 1) /\ given[1] = Default
          /\ DOMAIN given = {1} \cup {i + 1 : i \in DOMAIN messages}
          /\ \A i \in DOMAIN messages : given[i + 1] = messages[i]
      BY <1>1, <3>1, SpokenNumbered
    <3>3. Default.text # <<>> /\ IsSystem(Default)
      BY DEF Default, IsSystem, SystemRoles
    <3>4. \A i \in DOMAIN messages : (i + 1) - 1 = i /\ i + 1 \in Nat
      BY <2>1
    <3>5. 1 - 1 = 0
      OBVIOUS
    <3>6. DOMAIN given \in SUBSET Nat
      BY <3>2, <3>4
    <3>7. \A t : t \in told <=> \E i \in DOMAIN given : given[i].text # <<>> /\ t = i - 1
      <4>1. ASSUME NEW t \in told
            PROVE  \E i \in DOMAIN given : given[i].text # <<>> /\ t = i - 1
        <5>1. CASE t = 0
          <6>1. 1 \in DOMAIN given /\ given[1].text # <<>>
            BY <3>2, <3>3
          <6> QED
            BY <3>5, <5>1, <6>1
        <5>2. CASE t # 0
          <6>1. t \in DOMAIN messages /\ messages[t].text # <<>>
            BY <3>1, <5>2
          <6>2. t + 1 \in DOMAIN given /\ given[t + 1].text # <<>> /\ t = (t + 1) - 1
            BY <3>2, <3>4, <6>1
          <6> QED
            BY <6>2
        <5> QED
          BY <5>1, <5>2
      <4>2. ASSUME NEW i \in DOMAIN given, given[i].text # <<>> PROVE i - 1 \in told
        <5>1. CASE i = 1
          BY <3>1, <3>5, <5>1
        <5>2. CASE i # 1
          <6>1. PICK j \in DOMAIN messages : i = j + 1
            BY <3>2, <5>2
          <6>2. messages[j].text # <<>> /\ i - 1 = j
            BY <3>2, <3>4, <4>2, <6>1
          <6> QED
            BY <3>1, <6>2
        <5> QED
          BY <5>1, <5>2
      <4> QED
        BY <4>1, <4>2
    <3>8. \A i \in DOMAIN given : IsSystem(given[i]) <=> instruction(i - 1)
      <4>1. \A i \in DOMAIN messages : i # 0
        BY <2>1
      <4> QED
        BY <3>2, <3>3, <3>4, <3>5, <4>1
    <3> QED
      BY <3>1, <3>2, <3>6, <3>7, <3>8
  <2>3. CASE ~default
    <3>1. /\ given = messages /\ d = 0
          /\ told = {t \in DOMAIN messages : messages[t].text # <<>>}
      BY <2>3
    <3> HIDE DEF default, given, d, told
    <3>2. Numbered(given, 0)
      BY <1>1, <3>1, SpokenNumbered
    <3>3. \A i \in DOMAIN messages : i - 0 = i /\ i # 0
      BY <2>1
    <3>4. DOMAIN given \in SUBSET Nat
      BY <2>1, <3>1
    <3>5. \A t : t \in told <=> \E i \in DOMAIN given : given[i].text # <<>> /\ t = i - 0
      BY <3>1, <3>3
    <3>6. \A i \in DOMAIN given : IsSystem(given[i]) <=> instruction(i - 0)
      BY <3>1, <3>3
    <3> QED
      BY <3>1, <3>2, <3>4, <3>5, <3>6
  <2> QED
    BY <2>2, <2>3
<1> HIDE DEF default, given, d
<1>4. Tells(upstream, given, d) /\ (selection.model.mode = "merge" => Unspoken(upstream))
  BY <1>2, <1>3, NumberedTells, MergeTells
<1>5. {TextAt(upstream, p) : p \in Said(upstream)} = told
  <2> HIDE DEF told
  <2>1. ASSUME NEW p \in Said(upstream) PROVE TextAt(upstream, p) \in told
    BY <1>3, <1>4 DEF Tells
  <2>2. ASSUME NEW t \in told PROVE \E p \in Said(upstream) : t = TextAt(upstream, p)
    BY <1>3, <1>4 DEF Tells
  <2> QED
    BY <2>1, <2>2
<1>6. ASSUME NEW p \in Said(upstream), NEW q \in Said(upstream)
      PROVE  /\ TextAt(upstream, p) = TextAt(upstream, q) => p = q
             /\ Before(p, q) /\ (instruction(TextAt(upstream, p)) <=> instruction(TextAt(upstream, q)))
                  => TextAt(upstream, p) < TextAt(upstream, q)
  <2>1. PICK i \in DOMAIN given : TextAt(upstream, p) = i - d
    BY <1>4 DEF Tells
  <2>2. PICK j \in DOMAIN given : TextAt(upstream, q) = j - d
    BY <1>4 DEF Tells
  <2>3. /\ IsSystem(given[i]) <=> instruction(TextAt(upstream, p))
        /\ IsSystem(given[j]) <=> instruction(TextAt(upstream, q))
    BY <1>3, <2>1, <2>2
  <2>4. i \in Nat /\ j \in Nat /\ d \in Nat
    BY <1>3
  <2>5. (IsSystem(given[i]) <=> IsSystem(given[j])) /\ Before(p, q) => i < j
    BY <1>4, <2>1, <2>2 DEF Tells
  <2>6. (IsSystem(given[i]) <=> IsSystem(given[j])) /\ Before(q, p) => j < i
    BY <1>4, <2>1, <2>2 DEF Tells
  <2>7. i < j => i - d < j - d
    BY <2>4
  <2>8. i - d = j - d => i = j
    BY <2>4
  <2>9. p = q \/ Before(p, q) \/ Before(q, p)
    BY <1>4, BeforeTotal DEF Tells
  <2>10. ~(i < i)
    BY <2>4
  <2>11. ASSUME TextAt(upstream, p) = TextAt(upstream, q) PROVE p = q
    <3>1. i = j
      BY <2>1, <2>2, <2>8, <2>11
    <3> QED
      BY <2>5, <2>6, <2>9, <2>10, <3>1
  <2>12. ASSUME Before(p, q), instruction(TextAt(upstream, p)) <=> instruction(TextAt(upstream, q))
         PROVE  TextAt(upstream, p) < TextAt(upstream, q)
    <3>1. i < j
      BY <2>3, <2>5, <2>12
    <3> QED
      BY <2>1, <2>2, <2>7, <3>1
  <2> HIDE DEF instruction
  <2> QED
    BY <2>11, <2>12
<1>7. selection.model.mode = "merge" =>
          \A i \in DOMAIN upstream : IsSystem(upstream[i]) => upstream[i].text = <<>>
  BY <1>4 DEF Unspoken
<1> QED
  BY <1>5, <1>6, <1>7 DEF InstructionsKept, messages, default

\* For any conversation: the model is given the caller's instructions, or the
\* operator's if it gave none, and everything else that was said; each once, either
\* kind in its order; and nothing in a role its template does not have.
THEOREM InstructionsReachTheModel == RoutingSpec => []InstructionsKept
BY BodyInvOK, BodyKept, PTL

-----------------------------------------------------------------------------
(* The live simulator.                                                     *)

LEMMA DemoListing ==
    /\ DOMAIN DemoRegistry \subseteq Nat
    /\ {DemoRegistry[i] : i \in DOMAIN DemoRegistry} =
         {Seeded("ember-embed", "embedding", {"embeddings"}),
          Seeded("kestrel-9b", "fast", {"chat", "tools"}),
          Seeded("lark-vision", "vision", {"chat", "vision"}),
          Seeded("ornith-35b", "large", {"chat", "tools"})}
    /\ \A i, j \in DOMAIN DemoRegistry : DemoRegistry[i].id = DemoRegistry[j].id => i = j
<1>1. /\ DOMAIN DemoRegistry = {1, 2, 3, 4}
      /\ DemoRegistry[1] = Seeded("ember-embed", "embedding", {"embeddings"})
      /\ DemoRegistry[2] = Seeded("kestrel-9b", "fast", {"chat", "tools"})
      /\ DemoRegistry[3] = Seeded("lark-vision", "vision", {"chat", "vision"})
      /\ DemoRegistry[4] = Seeded("ornith-35b", "large", {"chat", "tools"})
  BY DEF DemoRegistry
<1>2. /\ DemoRegistry[1].id = "ember-embed" /\ DemoRegistry[2].id = "kestrel-9b"
      /\ DemoRegistry[3].id = "lark-vision" /\ DemoRegistry[4].id = "ornith-35b"
  BY <1>1 DEF Seeded
<1>3. \A i, j \in {1, 2, 3, 4} : DemoRegistry[i].id = DemoRegistry[j].id => i = j
  BY <1>2
<1>4. {DemoRegistry[i] : i \in {1, 2, 3, 4}} =
        {DemoRegistry[1], DemoRegistry[2], DemoRegistry[3], DemoRegistry[4]}
  OBVIOUS
<1>5. QED
  BY <1>1, <1>3, <1>4

LEMMA ChatNeeds ==
    ASSUME NEW name, NEW form \in Forms, NEW tools \in BOOLEAN, NEW signals
    PROVE  LET request == Chat(name, form, tools, signals)
           IN  /\ request.model = name
               /\ "chat" \in RequiredCapabilities(request)
               /\ "vision" \in RequiredCapabilities(request) <=> form = "image"
               /\ "tools" \in RequiredCapabilities(request) <=> tools
               /\ "embeddings" \notin RequiredCapabilities(request)
               /\ RequiredCapabilities(request) \subseteq {"chat", "vision", "tools"}
               /\ IsComplex(request) <=> signals # {}
<1> DEFINE request == Chat(name, form, tools, signals)
<1>1. /\ request.endpoint = "chat" /\ request.model = name
      /\ request.messages = <<Message("user", form, 1)>>
      /\ request.tools = tools /\ request.signals = signals
  BY DEF Chat, Asking
<1>2. (\E i \in DOMAIN request.messages : request.messages[i].form = "image") <=> form = "image"
  BY <1>1 DEF Message
<1> HIDE DEF request
<1>3. RequiredCapabilities(request) =
        {"chat"} \cup {c \in {"vision"} : form = "image"} \cup {c \in {"tools"} : tools}
  BY <1>1, <1>2 DEF RequiredCapabilities
<1>4. IsComplex(request) <=> signals # {}
  BY <1>1 DEF IsComplex
<1>5. QED
  BY <1>1, <1>3, <1>4 DEF request

LEMMA EmbeddingNeeds ==
    ASSUME NEW name
    PROVE  /\ Embedding(name).model = name
           /\ "embeddings" \in RequiredCapabilities(Embedding(name))
<1>1. Embedding(name).model = name /\ Embedding(name).endpoint = "embeddings"
  BY DEF Embedding, Asking
<1>2. QED
  BY <1>1 DEF RequiredCapabilities

\* Of the demo registry a request gets a model that has what it needs, by its name
\* or of the class it calls for.
LEMMA DemoPromise ==
    ASSUME NEW request, SelectModel(request, DemoRegistry).ok
    PROVE  LET m == SelectModel(request, DemoRegistry).model
           IN  /\ m \in Eligible(request, DemoRegistry)
               /\ request.model = "auto" /\ Wanted(request, DemoRegistry) # {}
                     => m \in Wanted(request, DemoRegistry)
<1> DEFINE s == SelectModel(request, DemoRegistry)
<1>1. \A code : ~Refused(code).ok
  BY DEF Refused
<1>2. \A m : Chosen(m).model = m
  BY DEF Chosen
<1>3. CASE request.model = "auto"
  <2>1. \/ s = Refused("capability_mismatch")
        \/ \E m \in Eligible(request, DemoRegistry) :
              s = Chosen(m) /\ (Wanted(request, DemoRegistry) # {} => m \in Wanted(request, DemoRegistry))
    BY <1>3, DemoListing, AutoPromise
  <2>2. QED
    BY <1>1, <1>2, <1>3, <2>1
<1>4. CASE request.model # "auto"
  <2>1. \/ \E code : s = Refused(code)
        \/ \E m \in Eligible(request, DemoRegistry) : s = Chosen(m)
    BY <1>4, DemoListing, ExplicitPromise
  <2>2. QED
    BY <1>1, <1>2, <1>4, <2>1
<1>5. QED
  BY <1>3, <1>4

\* A model of the demo registry that a request may be given, by its fields.
LEMMA DemoEligible ==
    ASSUME NEW request, NEW m \in Eligible(request, DemoRegistry)
    PROVE  /\ RequiredCapabilities(request) \subseteq m.capabilities
           /\ request.model \in {"auto", m.id}
           /\ \/ m.id = "ember-embed" /\ m.modelClass = "embedding" /\ m.capabilities = {"embeddings"}
              \/ m.id = "kestrel-9b" /\ m.modelClass = "fast" /\ m.capabilities = {"chat", "tools"}
              \/ m.id = "lark-vision" /\ m.modelClass = "vision" /\ m.capabilities = {"chat", "vision"}
              \/ m.id = "ornith-35b" /\ m.modelClass = "large" /\ m.capabilities = {"chat", "tools"}
<1>1. m \in {Seeded("ember-embed", "embedding", {"embeddings"}),
             Seeded("kestrel-9b", "fast", {"chat", "tools"}),
             Seeded("lark-vision", "vision", {"chat", "vision"}),
             Seeded("ornith-35b", "large", {"chat", "tools"})}
  BY DemoListing DEF Eligible
<1>2. \A id, class, capabilities :
          /\ Seeded(id, class, capabilities).id = id
          /\ Seeded(id, class, capabilities).modelClass = class
          /\ Seeded(id, class, capabilities).capabilities = capabilities
  BY DEF Seeded
<1>3. QED
  BY <1>1, <1>2 DEF Eligible

\* A text request without a name is given the model of the class it calls for.
LEMMA DemoText ==
    ASSUME NEW tools \in BOOLEAN, NEW signals,
           SelectModel(Chat("auto", "text", tools, signals), DemoRegistry).ok
    PROVE  SelectModel(Chat("auto", "text", tools, signals), DemoRegistry).model.id =
             IF signals # {} THEN "ornith-35b" ELSE "kestrel-9b"
<1> DEFINE request == Chat("auto", "text", tools, signals)
           m == SelectModel(request, DemoRegistry).model
           class == IF signals # {} THEN "large" ELSE "fast"
           right == IF signals # {} THEN Seeded("ornith-35b", "large", {"chat", "tools"})
                    ELSE Seeded("kestrel-9b", "fast", {"chat", "tools"})
<1>1. /\ request.model = "auto" /\ (IsComplex(request) <=> signals # {})
      /\ RequiredCapabilities(request) \subseteq {"chat", "tools"}
  <2>1. "text" \in Forms /\ "text" # "image"
    BY DEF Forms
  <2>2. QED
    BY <2>1, ChatNeeds
<1>2. right.modelClass = class /\ right.capabilities = {"chat", "tools"}
  BY DEF Seeded
<1>3. right \in {DemoRegistry[i] : i \in DOMAIN DemoRegistry}
  BY DemoListing
<1> HIDE DEF request, right
<1>4. right \in Wanted(request, DemoRegistry)
  BY <1>1, <1>2, <1>3 DEF Wanted, Eligible
<1>5. m \in Wanted(request, DemoRegistry)
  BY <1>1, <1>4, DemoPromise DEF request
<1>6. m \in Eligible(request, DemoRegistry) /\ m.modelClass = class
  BY <1>1, <1>5 DEF Wanted
<1>7. m.id = IF signals # {} THEN "ornith-35b" ELSE "kestrel-9b"
  BY <1>6, DemoEligible
<1>8. QED
  BY <1>7 DEF request

\* The mix is routed as it was built to be: a request that is answered is answered
\* by the model it expects, and one that was built to fail is not answered.
LEMMA MixIsRight ==
    ASSUME NEW spec \in BuiltRequests \cup FailingRequests,
           SelectModel(spec.request, DemoRegistry).ok
    PROVE  ~spec.fails /\ SelectModel(spec.request, DemoRegistry).model.id = spec.model
<1> DEFINE m == SelectModel(spec.request, DemoRegistry).model
           Spec3(request, model, fails) == [request |-> request, model |-> model, fails |-> fails]
<1>1. m \in Eligible(spec.request, DemoRegistry)
  BY DemoPromise
<1>2. /\ RequiredCapabilities(spec.request) \subseteq m.capabilities
      /\ spec.request.model \in {"auto", m.id}
      /\ \/ m.id = "ember-embed" /\ m.capabilities = {"embeddings"}
         \/ m.id = "kestrel-9b" /\ m.capabilities = {"chat", "tools"}
         \/ m.id = "lark-vision" /\ m.capabilities = {"chat", "vision"}
         \/ m.id = "ornith-35b" /\ m.capabilities = {"chat", "tools"}
  BY <1>1, DemoEligible
<1>3. /\ {"text", "image"} \subseteq Forms /\ TRUE \in BOOLEAN /\ FALSE \in BOOLEAN
  BY DEF Forms
<1>4. \A request, model, fails :
          /\ Spec3(request, model, fails).request = request
          /\ Spec3(request, model, fails).model = model
  OBVIOUS
<1>5. CASE spec \in BuiltRequests
  <2>1. \/ spec = Spec3(Chat("auto", "text", FALSE, {}), "kestrel-9b", FALSE)
        \/ spec = Spec3(Chat("auto", "text", FALSE, {"reasoning"}), "ornith-35b", FALSE)
        \/ spec = Spec3(Chat("auto", "image", FALSE, {}), "lark-vision", FALSE)
        \/ spec = Spec3(Embedding("auto"), "ember-embed", FALSE)
        \/ spec = Spec3(Chat("auto", "text", TRUE, {}), "kestrel-9b", FALSE)
        \/ \E name \in {"ornith-35b", "kestrel-9b"} :
              spec = Spec3(Chat(name, "text", FALSE, {}), name, FALSE)
    BY <1>5 DEF BuiltRequests
  <2>2. ~spec.fails
    <3>1. \A request, model : ~Spec3(request, model, FALSE).fails
      OBVIOUS
    <3> HIDE DEF Spec3
    <3>2. QED
      BY <2>1, <3>1, Zenon
  <2>3. CASE spec = Spec3(Chat("auto", "text", FALSE, {}), "kestrel-9b", FALSE)
    BY <2>3, DemoText
  <2>4. CASE spec = Spec3(Chat("auto", "text", FALSE, {"reasoning"}), "ornith-35b", FALSE)
    <3>1. {"reasoning"} # {}
      OBVIOUS
    <3>2. QED
      BY <2>4, <3>1, DemoText
  <2>5. CASE spec = Spec3(Chat("auto", "image", FALSE, {}), "lark-vision", FALSE)
    <3>1. "vision" \in RequiredCapabilities(spec.request)
      BY <1>3, <2>5, ChatNeeds
    <3>2. QED
      BY <1>2, <2>5, <3>1
  <2>6. CASE spec = Spec3(Embedding("auto"), "ember-embed", FALSE)
    <3>1. "embeddings" \in RequiredCapabilities(spec.request)
      BY <2>6, EmbeddingNeeds
    <3>2. QED
      BY <1>2, <2>6, <3>1
  <2>7. CASE spec = Spec3(Chat("auto", "text", TRUE, {}), "kestrel-9b", FALSE)
    BY <2>7, DemoText
  <2>8. ASSUME NEW name \in {"ornith-35b", "kestrel-9b"},
               spec = Spec3(Chat(name, "text", FALSE, {}), name, FALSE)
        PROVE  m.id = spec.model
    <3>1. spec.request.model = name
      BY <1>3, <2>8, ChatNeeds
    <3>2. QED
      BY <1>2, <2>8, <3>1
  <2>9. QED
    BY <2>1, <2>2, <2>3, <2>4, <2>5, <2>6, <2>7, <2>8
<1>6. CASE spec \in FailingRequests
  <2>1. \/ spec = Spec3(Chat("kestrel-9b", "image", FALSE, {}), "none", TRUE)
        \/ spec = Spec3(Embedding("kestrel-9b"), "none", TRUE)
        \/ spec = Spec3(Chat("does-not-exist-7b", "text", FALSE, {}), "none", TRUE)
    BY <1>6 DEF FailingRequests
  <2>2. CASE spec = Spec3(Chat("kestrel-9b", "image", FALSE, {}), "none", TRUE)
    <3>1. spec.request.model = "kestrel-9b" /\ "vision" \in RequiredCapabilities(spec.request)
      BY <1>3, <2>2, ChatNeeds
    <3>2. QED
      BY <1>2, <3>1
  <2>3. CASE spec = Spec3(Embedding("kestrel-9b"), "none", TRUE)
    <3>1. spec.request.model = "kestrel-9b" /\ "embeddings" \in RequiredCapabilities(spec.request)
      BY <2>3, EmbeddingNeeds
    <3>2. QED
      BY <1>2, <3>1
  <2>4. CASE spec = Spec3(Chat("does-not-exist-7b", "text", FALSE, {}), "none", TRUE)
    <3>1. spec.request.model = "does-not-exist-7b"
      BY <1>3, <2>4, ChatNeeds
    <3>2. QED
      BY <1>2, <3>1
  <2>5. QED
    BY <2>1, <2>2, <2>3, <2>4
<1>7. QED
  BY <1>5, <1>6

Asked == [spec : BuiltRequests \cup FailingRequests, stage : {"asked", "answering"}]

\* The tally is of every request once, the load is kept to, one request at most
\* was begun late, and what is being answered could be routed.
LiveInv ==
    /\ LoadIsReal
    /\ late = 0 \/ (late = 1 /\ Ending /\ driver # "waiting")
    /\ tally.mismatched = 0
    /\ \A n \in Tickets : asking[n].stage = "answering" => Selection(n).ok

LEMMA FlightCounted ==
    ASSUME LiveTypeOK
    PROVE  IsFiniteSet(InFlight) /\ Cardinality(InFlight) \in Nat
<1>1. IsFiniteSet(Tickets)
  BY FS_Interval, LiveAssumption DEF Tickets
<1>2. InFlight \subseteq Tickets
  BY DEF InFlight
<1>3. QED
  BY <1>1, <1>2, FS_Subset, FS_CardinalityType

LEMMA NotFree ==
    /\ Free.stage = "none"
    /\ \A a \in Asked : a # Free /\ a.stage \in {"asked", "answering"}
<1>1. Free.stage = "none"
  BY DEF Free
<1>2. \A a \in Asked : a.stage \in {"asked", "answering"}
  BY DEF Asked
<1>3. QED
  BY <1>1, <1>2

LEMMA LiveInitOK == LiveInit => LiveTypeOK /\ LiveInv
<1> SUFFICES ASSUME LiveInit PROVE LiveTypeOK /\ LiveInv
  OBVIOUS
<1>1. tally \in [sent : Nat, completed : Nat, failed : Nat, mismatched : Nat]
      /\ tally.sent = 0 /\ tally.completed = 0 /\ tally.failed = 0 /\ tally.mismatched = 0
  BY DEF LiveInit, NoTally
<1>2. LiveTypeOK
  BY <1>1 DEF LiveInit, LiveTypeOK
<1>3. InFlight = {}
  BY DEF LiveInit, InFlight
<1>4. Cardinality(InFlight) = 0
  BY <1>3, FS_EmptySet
<1>5. driver = "minting" /\ late = 0
  BY DEF LiveInit
<1>6. LoadIsReal
  BY <1>1, <1>4, <1>5, LiveAssumption DEF LoadIsReal
<1>7. \A n \in Tickets : asking[n].stage = "none"
  BY NotFree DEF LiveInit
<1>8. QED
  BY <1>1, <1>2, <1>5, <1>6, <1>7 DEF LiveInv

\* A request is begun: only with room, and late only by a driver that waited.
LEMMA SendOneOK ==
    ASSUME LiveTypeOK, LiveInv, SendOne, Cardinality(InFlight) < Concurrency,
           Ending => driver = "waiting"
    PROVE  LiveTypeOK' /\ LiveInv'
<1>1. PICK n \in Tickets \ InFlight, spec \in BuiltRequests \cup FailingRequests :
          asking' = [asking EXCEPT ![n] = [spec |-> spec, stage |-> "asked"]]
  BY DEF SendOne
<1> DEFINE one == [spec |-> spec, stage |-> "asked"]
<1>2. one \in Asked /\ one.stage = "asked"
  BY DEF Asked
<1> HIDE DEF one
<1>3. one # Free
  BY <1>2, NotFree
<1>4. asking \in [Tickets -> Asked \cup {Free}]
  BY DEF LiveTypeOK, Asked
<1>5. /\ asking' = [asking EXCEPT ![n] = one] /\ n \in Tickets
      /\ asking' \in [Tickets -> Asked \cup {Free}]
  BY <1>1, <1>2, <1>4 DEF one
<1>6. InFlight' = InFlight \cup {n} /\ n \notin InFlight
  BY <1>1, <1>3, <1>4, <1>5 DEF InFlight
<1>7. /\ Cardinality(InFlight') = Cardinality(InFlight) + 1
      /\ Cardinality(InFlight) \in Nat
  BY <1>6, FlightCounted, FS_AddElement
<1>8. /\ tally' = [tally EXCEPT !.sent = @ + 1] /\ driver' = "pausing"
      /\ late' = late + (IF Ending THEN 1 ELSE 0)
      /\ UNCHANGED <<stopping, overdue>>
  BY DEF SendOne
<1>9. /\ tally' \in [sent : Nat, completed : Nat, failed : Nat, mismatched : Nat]
      /\ tally'.sent = tally.sent + 1 /\ tally'.completed = tally.completed
      /\ tally'.failed = tally.failed /\ tally'.mismatched = tally.mismatched
      /\ tally.sent \in Nat /\ tally.completed \in Nat /\ tally.failed \in Nat
  BY <1>8 DEF LiveTypeOK
<1>10. late \in {0, 1} /\ (Ending => late = 0) /\ late \in Nat
  BY DEF LiveInv
<1>11. late' \in {0, 1} /\ (late' = 1 => Ending')
  BY <1>8, <1>10 DEF LiveInv, Ending
<1>12. LiveTypeOK'
  <2>1. asking' \in [Tickets -> [spec : BuiltRequests \cup FailingRequests,
                                 stage : {"asked", "answering"}] \cup {Free}]
    BY <1>5 DEF Asked
  <2>2. late' \in Nat
    BY <1>11
  <2>3. QED
    BY <1>8, <1>9, <2>1, <2>2 DEF LiveTypeOK
<1>13. LoadIsReal'
  <2>1. Cardinality(InFlight)' <= Concurrency
    BY <1>7, LiveAssumption
  <2>2. tally'.sent = tally'.completed + tally'.failed + Cardinality(InFlight)'
    BY <1>7, <1>9 DEF LiveInv, LoadIsReal
  <2>3. late' <= 1
    BY <1>11
  <2>4. QED
    BY <1>8, <2>1, <2>2, <2>3 DEF LoadIsReal
<1>14. \A k \in Tickets : asking'[k].stage = "answering" => Selection(k)'.ok
  <2>1. \A k \in Tickets : asking'[k] = asking[k] \/ asking'[k].stage = "asked"
    BY <1>2, <1>4, <1>5
  <2>2. QED
    BY <2>1 DEF LiveInv, Selection
<1>15. QED
  BY <1>8, <1>9, <1>11, <1>12, <1>13, <1>14 DEF LiveInv

\* The tally, with one request more that has settled.
OneMoreSettled(count) ==
    /\ count \in [sent : Nat, completed : Nat, failed : Nat, mismatched : Nat]
    /\ count.sent = tally.sent /\ count.mismatched = 0
    /\ count.completed + count.failed = tally.completed + tally.failed + 1

LEMMA FailedSettles == LiveTypeOK /\ LiveInv => OneMoreSettled(OneMoreFailed)
<1> SUFFICES ASSUME LiveTypeOK, LiveInv PROVE OneMoreSettled(OneMoreFailed)
  OBVIOUS
<1>1. /\ tally.completed \in Nat /\ tally.failed \in Nat /\ tally.mismatched = 0
      /\ tally \in [sent : Nat, completed : Nat, failed : Nat, mismatched : Nat]
  BY DEF LiveTypeOK, LiveInv
<1>2. QED
  BY <1>1 DEF OneMoreSettled, OneMoreFailed

LEMMA CompletedSettles ==
    ASSUME LiveTypeOK, LiveInv
    PROVE  OneMoreSettled([tally EXCEPT !.completed = @ + 1, !.mismatched = @ + 0])
<1>1. /\ tally.completed \in Nat /\ tally.failed \in Nat /\ tally.mismatched = 0
      /\ tally \in [sent : Nat, completed : Nat, failed : Nat, mismatched : Nat]
  BY DEF LiveTypeOK, LiveInv
<1> DEFINE next == [tally EXCEPT !.completed = @ + 1]
           count == [tally EXCEPT !.completed = @ + 1, !.mismatched = @ + 0]
<1>2. /\ next \in [sent : Nat, completed : Nat, failed : Nat, mismatched : Nat]
      /\ next.sent = tally.sent /\ next.failed = tally.failed
      /\ next.completed = tally.completed + 1 /\ next.mismatched = 0
  BY <1>1
<1>3. count = [next EXCEPT !.mismatched = tally.mismatched + 0]
  OBVIOUS
<1>4. tally.mismatched + 0 = 0
  BY <1>1
<1> HIDE DEF next, count
<1>5. count = [next EXCEPT !.mismatched = 0]
  BY <1>3, <1>4
<1>6. /\ count \in [sent : Nat, completed : Nat, failed : Nat, mismatched : Nat]
      /\ count.sent = tally.sent /\ count.failed = tally.failed
      /\ count.completed = tally.completed + 1 /\ count.mismatched = 0
  BY <1>2, <1>5
<1>7. count.completed + count.failed = tally.completed + tally.failed + 1
  BY <1>1, <1>6
<1>8. OneMoreSettled(count)
  BY <1>6, <1>7 DEF OneMoreSettled
<1>9. QED
  BY <1>8 DEF count

\* A request settles: it is counted, and no more in flight.
LEMMA SettlesOK ==
    ASSUME LiveTypeOK, LiveInv, NEW n \in InFlight, NEW count, Settles(n, count), OneMoreSettled(count)
    PROVE  LiveTypeOK' /\ LiveInv'
<1>1. n \in Tickets /\ asking \in [Tickets -> Asked \cup {Free}]
  BY DEF LiveTypeOK, Asked, InFlight
<1>2. /\ asking' = [asking EXCEPT ![n] = Free] /\ tally' = count
      /\ UNCHANGED <<driver, stopping, overdue, late>>
  BY DEF Settles
<1>3. asking' \in [Tickets -> Asked \cup {Free}] /\ InFlight' = InFlight \ {n}
  BY <1>1, <1>2 DEF InFlight
<1>4. /\ Cardinality(InFlight') = Cardinality(InFlight) - 1
      /\ Cardinality(InFlight) \in Nat /\ Cardinality(InFlight') \in Nat
  <2>1. IsFiniteSet(InFlight) /\ Cardinality(InFlight) \in Nat
    BY FlightCounted
  <2>2. IsFiniteSet(InFlight') /\ Cardinality(InFlight') = Cardinality(InFlight) - 1
    BY <1>3, <2>1, FS_RemoveElement
  <2>3. QED
    BY <2>1, <2>2, FS_CardinalityType
<1>5. /\ tally.sent \in Nat /\ tally.completed \in Nat /\ tally.failed \in Nat /\ tally.mismatched = 0
      /\ tally \in [sent : Nat, completed : Nat, failed : Nat, mismatched : Nat]
  BY DEF LiveTypeOK, LiveInv
<1>6. /\ tally' \in [sent : Nat, completed : Nat, failed : Nat, mismatched : Nat]
      /\ tally'.sent = tally.sent /\ tally'.mismatched = 0
      /\ tally'.completed + tally'.failed = tally.completed + tally.failed + 1
  BY <1>2 DEF OneMoreSettled
<1>7. LiveTypeOK'
  <2>1. asking' \in [Tickets -> [spec : BuiltRequests \cup FailingRequests,
                                 stage : {"asked", "answering"}] \cup {Free}]
    BY <1>3 DEF Asked
  <2>2. QED
    BY <1>2, <1>6, <2>1 DEF LiveTypeOK
<1>8. LoadIsReal'
  <2> DEFINE before == Cardinality(InFlight)
             after == Cardinality(InFlight')
  <2>0. /\ before <= Concurrency /\ tally.sent = tally.completed + tally.failed + before
        /\ before \in Nat /\ after \in Nat /\ after = before - 1
        /\ tally'.completed \in Nat /\ tally'.failed \in Nat /\ tally'.sent = tally.sent
    BY <1>4, <1>6 DEF LiveInv, LoadIsReal
  <2> HIDE DEF before, after
  <2>1. after <= Concurrency
    BY <2>0, LiveAssumption
  <2>2. tally'.sent = tally'.completed + tally'.failed + after
    <3>1. tally'.completed + tally'.failed = tally.completed + tally.failed + 1
      BY <1>6
    <3>2. tally.completed \in Nat /\ tally.failed \in Nat
      BY <1>5
    <3>3. QED
      BY <2>0, <3>1, <3>2
  <2>3. driver' = "done" => InFlight' = {}
    BY <1>2, <1>3 DEF LiveInv, LoadIsReal
  <2>4. late' <= 1
    BY <1>2 DEF LiveInv, LoadIsReal
  <2>5. QED
    BY <2>1, <2>2, <2>3, <2>4 DEF LoadIsReal, after
<1>9. \A k \in Tickets : asking'[k].stage = "answering" => Selection(k)'.ok
  <2>1. \A k \in Tickets : asking'[k] = asking[k] \/ asking'[k].stage = "none"
    BY <1>1, <1>2, NotFree
  <2>2. QED
    BY <2>1 DEF LiveInv, Selection
<1>10. QED
  BY <1>2, <1>6, <1>7, <1>8, <1>9 DEF LiveInv, Ending

\* The driver moves on, or it is told to end: what is in flight stays.
LEMMA DriverMovesOK ==
    ASSUME LiveTypeOK, LiveInv, UNCHANGED <<asking, tally, late>>,
           driver' \in {"minting", "head", "waiting", "pausing", "draining", "done", "exited"},
           stopping' \in BOOLEAN, overdue' \in BOOLEAN, Ending => Ending',
           driver' = "done" => InFlight = {},
           driver' = "waiting" => driver = "waiting" \/ ~Ending
    PROVE  LiveTypeOK' /\ LiveInv'
<1>1. LiveTypeOK'
  BY DEF LiveTypeOK
<1>2. InFlight' = InFlight
  BY DEF InFlight
<1>3. LoadIsReal'
  BY <1>2 DEF LiveInv, LoadIsReal
<1>4. \A n \in Tickets : asking'[n].stage = "answering" => Selection(n)'.ok
  BY DEF LiveInv, Selection
<1>5. (late = 0 \/ (late = 1 /\ Ending /\ driver # "waiting"))'
  BY DEF LiveInv
<1>6. QED
  BY <1>1, <1>3, <1>4, <1>5 DEF LiveInv

LEMMA LiveNextOK ==
    ASSUME LiveTypeOK, LiveInv, [LiveNext]_liveVars
    PROVE  LiveTypeOK' /\ LiveInv'
<1> DEFINE Places6 == {"minting", "head", "waiting", "pausing", "draining", "done", "exited"}
<1>1. stopping \in BOOLEAN /\ overdue \in BOOLEAN /\ driver \in Places6
  BY DEF LiveTypeOK
<1>2. CASE MintTokens \/ Interval
  BY <1>1, <1>2, DriverMovesOK DEF MintTokens, Interval, Ending
<1>3. CASE LoopHead
  <2>1. CASE Ending /\ driver' = "draining" /\ UNCHANGED <<stopping, overdue, asking, tally, late>>
    BY <1>1, <2>1, DriverMovesOK DEF Ending
  <2>2. CASE ~Ending /\ Cardinality(InFlight) < Concurrency /\ SendOne
    BY <2>2, SendOneOK
  <2>3. CASE ~Ending /\ driver' = "waiting" /\ UNCHANGED <<stopping, overdue, asking, tally, late>>
    BY <1>1, <2>3, DriverMovesOK DEF Ending
  <2>4. QED
    BY <1>3, <2>1, <2>2, <2>3 DEF LoopHead
<1>4. CASE Backpressure
  BY <1>4, SendOneOK DEF Backpressure
<1>5. CASE Interrupt
  <2>1. CASE driver = "minting" \/ stopping
    <3>1. /\ driver' = "exited" /\ asking' = [n \in Tickets |-> Free] /\ tally' = NoTally
          /\ UNCHANGED <<stopping, overdue, late>>
      BY <1>5, <2>1 DEF Interrupt
    <3>2. tally' \in [sent : Nat, completed : Nat, failed : Nat, mismatched : Nat]
          /\ tally'.sent = 0 /\ tally'.completed = 0 /\ tally'.failed = 0 /\ tally'.mismatched = 0
      BY <3>1 DEF NoTally
    <3>3. LiveTypeOK'
      BY <3>1, <3>2 DEF LiveTypeOK
    <3>4. InFlight' = {}
      BY <3>1 DEF InFlight
    <3>5. Cardinality(InFlight') = 0
      BY <3>4, FS_EmptySet
    <3>6. LoadIsReal'
      BY <3>1, <3>2, <3>4, <3>5, LiveAssumption DEF LiveInv, LoadIsReal
    <3>7. \A n \in Tickets : asking'[n].stage = "none"
      BY <3>1, NotFree
    <3>8. QED
      BY <3>1, <3>2, <3>3, <3>6, <3>7 DEF LiveInv, Ending
  <2>2. CASE ~(driver = "minting" \/ stopping)
    <3>1. stopping' = TRUE /\ UNCHANGED <<driver, asking, tally, overdue, late>> /\ driver # "done"
      BY <1>5, <2>2 DEF Interrupt
    <3>2. QED
      BY <1>1, <3>1, DriverMovesOK DEF Ending
  <2>3. QED
    BY <2>1, <2>2
<1>6. CASE DeadlinePassed
  <2>1. overdue' = TRUE /\ UNCHANGED <<driver, stopping, asking, tally, late>> /\ driver # "done"
    BY <1>6 DEF DeadlinePassed
  <2>2. QED
    BY <1>1, <2>1, DriverMovesOK DEF Ending
<1>7. CASE Drained
  BY <1>1, <1>7, DriverMovesOK DEF Drained, Ending
<1>8. ASSUME NEW n \in Tickets, RouterAnswers(n) PROVE LiveTypeOK' /\ LiveInv'
  <2>1. /\ asking[n].stage = "asked" /\ Selection(n).ok
        /\ asking' = [asking EXCEPT ![n].stage = "answering"]
        /\ UNCHANGED <<driver, stopping, overdue, tally, late>>
    BY <1>8 DEF RouterAnswers
  <2>2. asking \in [Tickets -> Asked \cup {Free}] /\ asking[n] \in Asked
    BY <2>1, NotFree DEF LiveTypeOK, Asked
  <2>3. [asking[n] EXCEPT !.stage = "answering"] \in Asked
    BY <2>2 DEF Asked
  <2>4. [asking[n] EXCEPT !.stage = "answering"].spec = asking[n].spec
    BY <2>2 DEF Asked
  <2> DEFINE next == [asking[n] EXCEPT !.stage = "answering"]
  <2>5. asking' = [asking EXCEPT ![n] = next]
    BY <2>1
  <2> HIDE DEF next
  <2>6. /\ asking' \in [Tickets -> Asked \cup {Free}] /\ asking'[n] = next
        /\ \A k \in Tickets \ {n} : asking'[k] = asking[k]
    BY <2>2, <2>3, <2>5 DEF next
  <2>7. InFlight' = InFlight
    BY <2>2, <2>3, <2>6, NotFree DEF InFlight, next
  <2>8. LiveTypeOK'
    <3>1. asking' \in [Tickets -> [spec : BuiltRequests \cup FailingRequests,
                                   stage : {"asked", "answering"}] \cup {Free}]
      BY <2>6 DEF Asked
    <3>2. QED
      BY <2>1, <3>1 DEF LiveTypeOK
  <2>9. LoadIsReal'
    BY <2>1, <2>7 DEF LiveInv, LoadIsReal
  <2>10. Selection(n)' = Selection(n)
    BY <2>4, <2>6 DEF Selection, next
  <2>11. \A k \in Tickets \ {n} : Selection(k)' = Selection(k)
    BY <2>6 DEF Selection
  <2>12. \A k \in Tickets : asking'[k].stage = "answering" => Selection(k)'.ok
    BY <2>1, <2>6, <2>10, <2>11 DEF LiveInv
  <2>13. QED
    BY <2>1, <2>8, <2>9, <2>12 DEF LiveInv, Ending
<1>9. ASSUME NEW n \in Tickets, CallFails(n) PROVE LiveTypeOK' /\ LiveInv'
  BY <1>9, SettlesOK, FailedSettles DEF CallFails
<1>10. ASSUME NEW n \in Tickets, BodyEnds(n) PROVE LiveTypeOK' /\ LiveInv'
  <2>1. asking[n].stage = "answering"
    BY <1>10 DEF BodyEnds
  <2>2. n \in InFlight /\ asking[n] \in Asked
    BY <2>1, NotFree DEF LiveTypeOK, Asked, InFlight
  <2>3. asking[n].spec \in BuiltRequests \cup FailingRequests /\ Selection(n).ok
    BY <2>1, <2>2 DEF Asked, LiveInv
  <2>4. Selection(n).model.id = asking[n].spec.model
    BY <2>3, MixIsRight DEF Selection
  <2>5. PICK model \in {"none", Selection(n).model.id} :
            Settles(n, [tally EXCEPT !.completed = @ + 1,
                         !.mismatched = @ + IF model \in {"none", asking[n].spec.model} THEN 0 ELSE 1])
    BY <1>10 DEF BodyEnds
  <2>6. model \in {"none", asking[n].spec.model}
    BY <2>4, <2>5
  <2>7. Settles(n, [tally EXCEPT !.completed = @ + 1, !.mismatched = @ + 0])
    BY <2>5, <2>6
  <2>8. QED
    BY <2>2, <2>7, SettlesOK, CompletedSettles
<1>11. CASE UNCHANGED liveVars
  BY <1>1, <1>11, DriverMovesOK DEF liveVars, Ending, LiveInv, LoadIsReal
<1>12. QED
  BY <1>2, <1>3, <1>4, <1>5, <1>6, <1>7, <1>8, <1>9, <1>10, <1>11 DEF LiveNext

\* What the driver holds is of its type, and the tally is true.
THEOREM LiveTypeCorrect == LiveSpec => [](LiveTypeOK /\ LiveInv)
<1>1. LiveInit => LiveTypeOK /\ LiveInv
  BY LiveInitOK
<1>2. LiveTypeOK /\ LiveInv /\ [LiveNext]_liveVars => (LiveTypeOK /\ LiveInv)'
  BY LiveNextOK
<1>3. QED
  BY <1>1, <1>2, PTL DEF LiveSpec

\* For any concurrency the simulator keeps to the load it was given, begins one
\* request at most after it was stopped, and reports when each request it began
\* has been counted once.
THEOREM LoadKept == LiveSpec => []LoadIsReal
<1>1. LiveTypeOK /\ LiveInv => LoadIsReal
  BY DEF LiveInv
<1>2. QED
  BY LiveTypeCorrect, <1>1, PTL

LEMMA LiveExpected == LiveTypeOK /\ LiveInv => TrafficAsExpected
<1> SUFFICES ASSUME LiveTypeOK, LiveInv PROVE TrafficAsExpected
  OBVIOUS
<1>1. ASSUME NEW n \in Tickets, asking[n].stage = "answering" PROVE ~asking[n].spec.fails
  <2>1. asking[n] \in Asked
    BY <1>1, NotFree DEF LiveTypeOK, Asked
  <2>2. asking[n].spec \in BuiltRequests \cup FailingRequests /\ Selection(n).ok
    BY <1>1, <2>1 DEF Asked, LiveInv
  <2>3. QED
    BY <2>2, MixIsRight DEF Selection
<1>2. QED
  BY <1>1 DEF TrafficAsExpected, LiveInv

\* Over the demo registry the mix is an assertion that holds, however many of its
\* requests are in flight at once and in whatever order they are answered.
THEOREM MixAnsweredAsBuilt == LiveSpec => []TrafficAsExpected
BY LiveTypeCorrect, LiveExpected, PTL

=============================================================================
