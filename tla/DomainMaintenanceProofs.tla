---------------------- MODULE DomainMaintenanceProofs ----------------------
(***************************************************************************)
(* Theorems of module DomainMaintenance, for any number of domains and     *)
(* request threads: the tables and threads keep their types; the timeline  *)
(* of a domain has no gap; a job reported as completed did its work; and   *)
(* races between calls and the scheduler leave at most one job in flight   *)
(* for each thread that can insert it.                                     *)
(*                                                                         *)
(* The runner keeps the position of its row while others insert rows       *)
(* before it, or purge rows: the first part follows rows from one position *)
(* to another.                                                             *)
(***************************************************************************)
EXTENDS DomainMaintenance, SequenceTheorems, FiniteSetTheorems, TLAPS

\* The steps at which the runner works on a job, by what the job asks for.
Recomputing == {"recompute"}
Checking == {"check", "lookup", "store_failure", "store"}
Working == Recomputing \union Checking \union {"complete"}

TablesOK ==
    /\ domains \in [Domains -> DomainRow]
    /\ current \in [Domains -> Snapshot \union {Null}]
    /\ history \in [Domains -> Entry \union {Null}]
QueueOK == queue \in Seq(JobRow)

\* A call knows its domain.
CallsOK ==
    /\ handler \in [Handlers -> CallState]
    /\ \A h \in Handlers : handler[h].op # "idle" => handler[h].domain \in Domains

\* So does the runner; a check knows what it compares, and no domain is queued twice.
TurnOK ==
    /\ runner \in TurnState
    /\ runner.pc \in Working \union {"schedule_insert"} => runner.domain \in Domains
    /\ runner.pc = "schedule_insert" => runner.domain \notin runner.due
    /\ runner.pc \in {"lookup", "store"} => runner.selectors \in SelectorSets
    /\ runner.pc = "store" => runner.found \in Snapshot
JobOK == runner.job \in {0} \union {i \in DOMAIN queue : queue[i].state = "processing"}

TypesInv == TablesOK /\ QueueOK /\ CallsOK /\ TurnOK /\ JobOK /\ faults \in 0 .. MaxFaults

\* What a check compares with is still the current state, unless the domain has gone.
PreviousIsCurrent ==
    /\ runner.pc \in {"lookup", "store"} /\ Exists(runner.domain) =>
          runner.previous = current[runner.domain]

\* The runner works for the domain of its row, which is there, on what the row asks for.
JobFits ==
    runner.pc \in Working /\ Mine =>
        /\ Job.domain = runner.domain /\ Exists(runner.domain)
        /\ runner.pc \in Recomputing => Job.action = Recompute
        /\ runner.pc \in Checking => Job.action = Check

\* Nothing has been done before the step that completes the job.
ScannedLast == runner.scanned => In("complete")

WorkInv == TimelineComplete /\ PreviousIsCurrent /\ JobFits /\ CompletedIsDone /\ ScannedLast

\* Threads that have found no job of a domain in flight and are about to insert one
Inserting(d, op) == {h \in Handlers : handler[h].op = op /\ handler[h].domain = d}
Scheduling(d) == IF In("schedule_insert") /\ runner.domain = d THEN 1 ELSE 0

RecomputesBounded(d) ==
    Cardinality(JobsOf(d, Recompute)) + Cardinality(Inserting(d, "recompute_insert"))
        <= Cardinality(Handlers)
ChecksBounded(d) ==
    Cardinality(JobsOf(d, Check)) + Cardinality(Inserting(d, "check_insert")) + Scheduling(d)
        <= Cardinality(Handlers) + 1
InsertsBounded == \A d \in Domains : RecomputesBounded(d) /\ ChecksBounded(d)

-----------------------------------------------------------------------------
(* Operators on sequences.                                                 *)

\* A row inserted at position p moves the rows behind it.
Moved(i, p) == IF i < p THEN i ELSE i + 1
LEMMA InsertedRow ==
    ASSUME NEW S, NEW s \in Seq(S), NEW p \in 1 .. Len(s) + 1, NEW e \in S
    PROVE  /\ InsertAt(s, p, e) \in Seq(S) /\ Len(InsertAt(s, p, e)) = Len(s) + 1
           /\ InsertAt(s, p, e)[p] = e
           /\ \A i \in 1 .. Len(s) : InsertAt(s, p, e)[Moved(i, p)] = s[i]
<1>. DEFINE front == SubSeq(s, 1, p - 1)
            back == SubSeq(s, p, Len(s))
<1>1. /\ front \in Seq(S) /\ Len(front) = p - 1 /\ \A i \in 1 .. p - 1 : front[i] = s[i]
  BY SubSeqProperties
<1>2. /\ back \in Seq(S) /\ Len(back) = Len(s) - p + 1
      /\ \A i \in 1 .. Len(s) - p + 1 : back[i] = s[p + i - 1]
  BY SubSeqProperties
<1>3. InsertAt(s, p, e) = front \o <<e>> \o back
  BY DEF InsertAt
<1>. HIDE DEF front, back
<1>. DEFINE start == front \o <<e>>
<1>4. /\ start \in Seq(S) /\ Len(start) = p
      /\ start[p] = e /\ \A i \in 1 .. p - 1 : start[i] = s[i]
  BY <1>1
<1>. HIDE DEF start
<1>5. /\ InsertAt(s, p, e) \in Seq(S) /\ Len(InsertAt(s, p, e)) = Len(s) + 1
      /\ \A i \in 1 .. Len(s) + 1 : InsertAt(s, p, e)[i] =
                                       IF i <= p THEN start[i] ELSE back[i - p]
  <2>1. /\ start \o back \in Seq(S) /\ Len(start \o back) = Len(start) + Len(back)
        /\ \A i \in 1 .. Len(start) + Len(back) :
              (start \o back)[i] = IF i <= Len(start) THEN start[i] ELSE back[i - Len(start)]
    BY <1>2, <1>4, ConcatProperties
  <2>2. InsertAt(s, p, e) = start \o back
    BY <1>3 DEF start
  <2>3. Len(start) + Len(back) = Len(s) + 1
    BY <1>2, <1>4
  <2>. QED  BY <1>4, <2>1, <2>2, <2>3
<1>6. ASSUME NEW i \in 1 .. Len(s)
      PROVE  InsertAt(s, p, e)[Moved(i, p)] = s[i]
  <2>1. CASE i < p
    BY <1>4, <1>5, <2>1 DEF Moved
  <2>2. CASE i >= p
    <3>1. Moved(i, p) = i + 1 /\ i + 1 \in 1 .. Len(s) + 1 /\ i + 1 > p
      BY <2>2 DEF Moved
    <3>2. InsertAt(s, p, e)[i + 1] = back[i + 1 - p]
      BY <1>5, <3>1
    <3>3. back[i + 1 - p] = s[i]
      BY <1>2, <2>2
    <3>. QED  BY <3>1, <3>2, <3>3
  <2>. QED  BY <2>1, <2>2
<1>. QED  BY <1>4, <1>5, <1>6

\* The rows behind a row that is removed move up.
LEMMA RemovedRow ==
    ASSUME NEW S, NEW s \in Seq(S), NEW p \in 1 .. Len(s)
    PROVE  /\ RemoveAt(s, p) \in Seq(S) /\ Len(RemoveAt(s, p)) = Len(s) - 1
           /\ \A i \in 1 .. Len(s) - 1 : RemoveAt(s, p)[i] = s[Moved(i, p)]
<1>. DEFINE front == SubSeq(s, 1, p - 1)
            back == SubSeq(s, p + 1, Len(s))
<1>1. /\ front \in Seq(S) /\ Len(front) = p - 1 /\ \A i \in 1 .. p - 1 : front[i] = s[i]
  BY SubSeqProperties
<1>2. /\ back \in Seq(S) /\ Len(back) = Len(s) - p
      /\ \A i \in 1 .. Len(s) - p : back[i] = s[p + i]
  BY SubSeqProperties
<1>3. RemoveAt(s, p) = front \o back
  BY DEF RemoveAt
<1>. HIDE DEF front, back
<1>4. /\ RemoveAt(s, p) \in Seq(S) /\ Len(RemoveAt(s, p)) = Len(s) - 1
      /\ \A i \in 1 .. Len(s) - 1 : RemoveAt(s, p)[i] =
                                       IF i < p THEN front[i] ELSE back[i - p + 1]
  <2>1. /\ front \o back \in Seq(S) /\ Len(front \o back) = Len(front) + Len(back)
        /\ \A i \in 1 .. Len(front) + Len(back) :
              (front \o back)[i] = IF i <= Len(front) THEN front[i] ELSE back[i - Len(front)]
    BY <1>1, <1>2, ConcatProperties
  <2>2. Len(front) + Len(back) = Len(s) - 1 /\ Len(front) = p - 1
    BY <1>1, <1>2
  <2>3. \A i \in 1 .. Len(s) - 1 : i <= p - 1 <=> i < p
    OBVIOUS
  <2>4. \A i : i - (p - 1) = i - p + 1 \/ i \notin Int
    OBVIOUS
  <2>. QED  BY <1>3, <2>1, <2>2, <2>3, <2>4
<1>. QED  BY <1>1, <1>2, <1>4 DEF Moved

\* One sequence behind the other, with their lengths given
LEMMA JoinedRows ==
    ASSUME NEW S, NEW first \in Seq(S), NEW rest \in Seq(S), NEW n \in Nat, NEW k \in Nat,
           Len(first) = n + 1, Len(rest) = k - 1
    PROVE  /\ Len(first \o rest) = n + k
           /\ \A i \in 1 .. n + 1 : (first \o rest)[i] = first[i]
           /\ \A i \in 1 .. k - 1 : (first \o rest)[n + 1 + i] = rest[i]
<1>1. /\ Len(first \o rest) = Len(first) + Len(rest)
      /\ \A i \in 1 .. Len(first) + Len(rest) :
            (first \o rest)[i] = IF i <= Len(first) THEN first[i] ELSE rest[i - Len(first)]
  BY ConcatProperties
<1>2. Len(first) + Len(rest) = n + k
  OBVIOUS
<1>3. \A i \in 1 .. n + k :
         (first \o rest)[i] = IF i <= n + 1 THEN first[i] ELSE rest[i - (n + 1)]
  BY <1>1, <1>2
<1>4. ASSUME NEW i \in 1 .. k - 1 PROVE (first \o rest)[n + 1 + i] = rest[i]
  <2>1. /\ n + 1 + i \in 1 .. n + k /\ ~(n + 1 + i <= n + 1) /\ (n + 1 + i) - (n + 1) = i
    OBVIOUS
  <2>. QED  BY <1>3, <2>1
<1>5. k >= 1
  BY LenProperties
<1>6. 1 .. n + 1 \subseteq 1 .. n + k
  BY <1>5
<1>7. \A i \in 1 .. n + 1 : (first \o rest)[i] = first[i]
  BY <1>3, <1>6
<1>. QED  BY <1>1, <1>2, <1>4, <1>7

\* A finite set as a sequence names each member once.
LEMMA ListOfSet ==
    ASSUME NEW S, IsFiniteSet(S)
    PROVE  /\ SetToSeq(S) \in Seq(S)
           /\ \A i, j \in DOMAIN SetToSeq(S) : SetToSeq(S)[i] = SetToSeq(S)[j] => i = j
<1>1. Cardinality(S) \in Nat /\ \E f \in [1 .. Cardinality(S) -> S] : IsInjective(f)
  BY FS_CardinalityType DEF ExistsBijection, Bijection, Injection
<1>2. SetToSeq(S) \in [1 .. Cardinality(S) -> S] /\ IsInjective(SetToSeq(S))
  BY <1>1 DEF SetToSeq
<1>. QED  BY <1>1, <1>2 DEF IsInjective

\* The lesser of two numbers
LEMMA MinOfTwo ==
    ASSUME NEW a \in Nat, NEW b \in Nat
    PROVE  Min({a, b}) \in Nat /\ Min({a, b}) <= b
<1>1. \E x \in {a, b} : \A y \in {a, b} : x <= y
  OBVIOUS
<1>2. Min({a, b}) \in {a, b} /\ \A y \in {a, b} : Min({a, b}) <= y
  BY <1>1 DEF Min
<1>. QED  BY <1>2

\* A set whose members outside N map one to one into B
LEMMA MappedSet ==
    ASSUME NEW A, NEW B, NEW N, IsFiniteSet(B), IsFiniteSet(N), NEW f,
           \A i \in A \ N : f[i] \in B,
           \A i, j \in A \ N : f[i] = f[j] => i = j
    PROVE  /\ IsFiniteSet(A) /\ Cardinality(A) \in Nat
           /\ Cardinality(B) \in Nat /\ Cardinality(N) \in Nat
           /\ Cardinality(A) <= Cardinality(B) + Cardinality(N)
<1>. DEFINE g == [i \in A \ N |-> f[i]]
<1>1. g \in Injection(A \ N, B)
  BY DEF Injection, IsInjective
<1>2. IsFiniteSet(A \ N) /\ Cardinality(A \ N) <= Cardinality(B)
  BY <1>1, FS_Injection
<1>3. /\ IsFiniteSet((A \ N) \union N)
      /\ Cardinality((A \ N) \union N) =
            Cardinality(A \ N) + Cardinality(N) - Cardinality((A \ N) \intersect N)
  BY <1>2, FS_Union
<1>4. A \in SUBSET ((A \ N) \union N) /\ (A \ N) \intersect N = {}
  OBVIOUS
<1>5. IsFiniteSet(A) /\ Cardinality(A) <= Cardinality((A \ N) \union N)
  BY <1>3, <1>4, FS_Subset
<1>6. /\ Cardinality(A) \in Nat /\ Cardinality(A \ N) \in Nat /\ Cardinality(N) \in Nat
      /\ Cardinality(B) \in Nat
  BY <1>2, <1>5, FS_CardinalityType
<1>7. Cardinality((A \ N) \intersect N) = 0
  BY <1>4, FS_EmptySet
<1>. QED  BY <1>2, <1>3, <1>5, <1>6, <1>7

-----------------------------------------------------------------------------
(* Rows of the queue.                                                      *)

Row(action, d) == [action |-> action, domain |-> d, state |-> "queued"]

\* Rows are inserted: the first at position p, the others at the end.
LEMMA InsertedRows ==
    ASSUME QueueOK, NEW action \in {Recompute, Check}, NEW ds \in Seq(Domains), ds # <<>>,
           NEW p \in 1 .. Len(queue) + 1, Insert(action, ds, p)
    PROVE  /\ QueueOK' /\ Len(queue') = Len(queue) + Len(ds)
           /\ \A i \in 1 .. Len(queue) : queue'[Moved(i, p)] = queue[i]
           /\ queue'[p] = Row(action, ds[1])
           /\ \A k \in 2 .. Len(ds) : queue'[Len(queue) + k] = Row(action, ds[k])
<1>. DEFINE rows == [i \in DOMAIN ds |-> Row(action, ds[i])]
            first == InsertAt(queue, p, rows[1])
<1>0. queue \in Seq(JobRow) /\ Len(queue) \in Nat /\ Len(ds) \in Nat /\ Len(ds) > 0
  BY DEF QueueOK
<1>1. /\ rows \in Seq(JobRow) /\ Len(rows) = Len(ds)
      /\ \A i \in 1 .. Len(ds) : rows[i] = Row(action, ds[i]) /\ rows[i] \in JobRow
  <2>1. \A i \in 1 .. Len(ds) : Row(action, ds[i]) \in JobRow
    BY DEF Row, JobRow
  <2>2. rows \in [1 .. Len(ds) -> JobRow] /\ Len(ds) \in Nat
    BY <2>1
  <2>. QED  BY <2>1, <2>2
<1>2. queue' = first \o Tail(rows)
  BY DEF Insert, Row
<1>. HIDE DEF rows
<1>3. /\ first \in Seq(JobRow) /\ Len(first) = Len(queue) + 1 /\ first[p] = rows[1]
      /\ \A i \in 1 .. Len(queue) : first[Moved(i, p)] = queue[i]
  <2>1. PICK e \in JobRow : e = rows[1]
    BY <1>1
  <2>. QED  BY <1>0, <2>1, InsertedRow
<1>. HIDE DEF first
<1>4. /\ Tail(rows) \in Seq(JobRow) /\ Len(Tail(rows)) = Len(ds) - 1
      /\ \A i \in 1 .. Len(ds) - 1 : Tail(rows)[i] = rows[i + 1]
  BY <1>1
<1>5. queue' \in Seq(JobRow)
  BY <1>2, <1>3, <1>4, ConcatProperties
<1>6. /\ Len(queue') = Len(queue) + Len(ds)
      /\ \A i \in 1 .. Len(queue) + 1 : queue'[i] = first[i]
      /\ \A i \in 1 .. Len(ds) - 1 : queue'[Len(queue) + 1 + i] = rows[i + 1]
  <2>1. PICK n \in Nat, k \in Nat : n = Len(queue) /\ k = Len(ds)
    BY <1>0
  <2>2. PICK front \in Seq(JobRow), rest \in Seq(JobRow) : front = first /\ rest = Tail(rows)
    BY <1>3, <1>4
  <2>3. Len(front) = n + 1 /\ Len(rest) = k - 1
    BY <1>3, <1>4, <2>1, <2>2
  <2>4. /\ Len(front \o rest) = n + k
        /\ \A i \in 1 .. n + 1 : (front \o rest)[i] = front[i]
        /\ \A i \in 1 .. k - 1 : (front \o rest)[n + 1 + i] = rest[i]
    BY <2>3, JoinedRows
  <2>5. queue' = front \o rest /\ \A i \in 1 .. k - 1 : rest[i] = rows[i + 1]
    BY <1>2, <1>4, <2>1, <2>2
  <2>. QED  BY <2>1, <2>2, <2>4, <2>5
<1>7. ASSUME NEW i \in 1 .. Len(queue) PROVE queue'[Moved(i, p)] = queue[i]
  <2>1. Moved(i, p) \in 1 .. Len(queue) + 1
    BY <1>0 DEF Moved
  <2>. QED  BY <1>3, <1>6, <2>1
<1>8. queue'[p] = Row(action, ds[1])
  BY <1>1, <1>3, <1>6
<1>9. ASSUME NEW k \in 2 .. Len(ds) PROVE queue'[Len(queue) + k] = Row(action, ds[k])
  <2>1. k - 1 \in 1 .. Len(ds) - 1 /\ (k - 1) + 1 = k /\ Len(queue) + 1 + (k - 1) = Len(queue) + k
    BY <1>0, <1>1
  <2>2. queue'[Len(queue) + 1 + (k - 1)] = rows[(k - 1) + 1]
    BY <1>6, <2>1
  <2>. QED  BY <1>1, <2>1, <2>2
<1>. QED  BY <1>5, <1>6, <1>7, <1>8, <1>9 DEF QueueOK

\* New rows enter somewhere in the queue.
LEMMA PositionsInQueue ==
    ASSUME QueueOK, NEW newer \in Nat
    PROVE  Positions(newer) \subseteq 1 .. Len(queue) + 1
<1>1. Len(queue) \in Nat /\ Min({newer, Len(queue)}) \in Nat /\ Min({newer, Len(queue)}) <= Len(queue)
  BY MinOfTwo DEF QueueOK
<1>. QED  BY <1>1 DEF Positions

\* The jobs of a domain before and after an insert: one more, if it is one of those.
LEMMA InsertedJobs ==
    ASSUME QueueOK, NEW action \in {Recompute, Check}, NEW ds \in Seq(Domains), ds # <<>>,
           NEW p \in 1 .. Len(queue) + 1, Insert(action, ds, p),
           \A i, j \in DOMAIN ds : ds[i] = ds[j] => i = j,
           NEW d, NEW a
    PROVE  /\ Cardinality(JobsOf(d, a)) \in Nat /\ Cardinality(JobsOf(d, a)') \in Nat
           /\ Cardinality(JobsOf(d, a)') <= Cardinality(JobsOf(d, a)) + 1
           /\ a # action \/ (\A i \in DOMAIN ds : ds[i] # d) =>
                 Cardinality(JobsOf(d, a)') <= Cardinality(JobsOf(d, a))
<1>. DEFINE old == {Moved(i, p) : i \in 1 .. Len(queue)}
            new == JobsOf(d, a)' \ old
            f == [i \in JobsOf(d, a)' |-> IF i < p THEN i ELSE i - 1]
<1>1. /\ QueueOK /\ QueueOK' /\ Len(queue') = Len(queue) + Len(ds)
      /\ \A i \in 1 .. Len(queue) : queue'[Moved(i, p)] = queue[i]
      /\ queue'[p] = Row(action, ds[1])
      /\ \A k \in 2 .. Len(ds) : queue'[Len(queue) + k] = Row(action, ds[k])
  BY InsertedRows
<1>0. /\ Len(queue) \in Nat /\ Len(ds) \in Nat /\ Len(ds) > 0
      /\ DOMAIN queue = 1 .. Len(queue) /\ DOMAIN queue' = 1 .. Len(queue')
      /\ DOMAIN ds = 1 .. Len(ds)
  BY <1>1 DEF QueueOK
<1>2. /\ JobsOf(d, a) \subseteq 1 .. Len(queue) /\ IsFiniteSet(JobsOf(d, a))
      /\ JobsOf(d, a)' \subseteq 1 .. Len(queue')
  <2>1. JobsOf(d, a) \subseteq 1 .. Len(queue) /\ JobsOf(d, a)' \subseteq 1 .. Len(queue')
    BY <1>0 DEF JobsOf
  <2>2. IsFiniteSet(1 .. Len(queue))
    BY <1>0, FS_Interval
  <2>. QED  BY <2>1, <2>2, FS_Subset
<1>3. ASSUME NEW i \in JobsOf(d, a)' \ new
      PROVE  f[i] \in JobsOf(d, a) /\ i = Moved(f[i], p)
  <2>1. PICK j \in 1 .. Len(queue) : i = Moved(j, p)
    OBVIOUS
  <2>2. f[i] = j
    BY <2>1, <1>2 DEF Moved
  <2>3. queue'[i] = queue[j]
    BY <1>1, <2>1
  <2>. QED  BY <1>0, <2>1, <2>2, <2>3 DEF JobsOf
<1>4. ASSUME NEW i \in 1 .. Len(queue'), i \notin old
      PROVE  i = p \/ \E k \in 2 .. Len(ds) : i = Len(queue) + k
  <2>1. CASE i < p
    <3>1. i \in 1 .. Len(queue) /\ Moved(i, p) = i
      BY <1>0, <2>1 DEF Moved
    <3>. QED  BY <1>4, <3>1
  <2>2. CASE i > p /\ i <= Len(queue) + 1
    <3>1. i - 1 \in 1 .. Len(queue) /\ ~(i - 1 < p) /\ (i - 1) + 1 = i
      BY <1>0, <2>2
    <3>2. Moved(i - 1, p) = i
      BY <3>1 DEF Moved
    <3>. QED  BY <1>4, <3>1, <3>2
  <2>3. CASE i > Len(queue) + 1
    <3>1. i \in 1 .. Len(queue) + Len(ds)
      BY <1>1
    <3>2. i - Len(queue) \in 2 .. Len(ds) /\ i = Len(queue) + (i - Len(queue))
      BY <1>0, <2>3, <3>1
    <3>. QED  BY <3>2
  <2>. QED  BY <1>0, <2>1, <2>2, <2>3
<1>5. ASSUME NEW i \in new
      PROVE  \E k \in DOMAIN ds : /\ ds[k] = d /\ a = action
                                  /\ i = IF k = 1 THEN p ELSE Len(queue) + k
  <2>1. i \in 1 .. Len(queue') /\ i \notin old /\ queue'[i].domain = d /\ queue'[i].action = a
    BY <1>2 DEF JobsOf
  <2>2. CASE i = p
    <3>1. ds[1] = d /\ a = action /\ 1 \in DOMAIN ds
      BY <1>0, <1>1, <2>1, <2>2 DEF Row
    <3>. QED  BY <2>2, <3>1
  <2>3. CASE \E k \in 2 .. Len(ds) : i = Len(queue) + k
    <3>1. PICK k \in 2 .. Len(ds) : i = Len(queue) + k
      BY <2>3
    <3>2. queue'[i] = Row(action, ds[k])
      BY <1>1, <3>1
    <3>3. ds[k] = d /\ a = action /\ k \in DOMAIN ds /\ k # 1
      BY <1>0, <2>1, <3>2 DEF Row
    <3>. QED  BY <3>1, <3>3
  <2>. HIDE DEF new, old
  <2>. QED  BY <1>4, <2>1, <2>2, <2>3
<1>6. IsFiniteSet(new) /\ Cardinality(new) \in {0, 1}
      /\ (a # action \/ (\A i \in DOMAIN ds : ds[i] # d) => Cardinality(new) = 0)
  <2>1. CASE new = {}
    BY <2>1, FS_EmptySet
  <2>2. CASE new # {}
    <3>1. PICK i \in new : TRUE
      BY <2>2
    <3>. HIDE DEF new
    <3>2. PICK k \in DOMAIN ds : /\ ds[k] = d /\ a = action
                                 /\ i = IF k = 1 THEN p ELSE Len(queue) + k
      BY <1>5
    <3>3. ASSUME NEW j \in new PROVE j = i
      <4>1. PICK l \in DOMAIN ds : /\ ds[l] = d /\ a = action
                                   /\ j = IF l = 1 THEN p ELSE Len(queue) + l
        BY <1>5
      <4>2. l = k
        BY <3>2, <4>1
      <4>. QED  BY <3>2, <4>1, <4>2
    <3>4. new = {i}
      BY <3>1, <3>3
    <3>5. IsFiniteSet({i}) /\ Cardinality({i}) = 1
      BY FS_Singleton
    <3>. QED  BY <3>2, <3>4, <3>5
  <2>. QED  BY <2>1, <2>2
<1>. HIDE DEF new, f, old
<1>7. /\ Cardinality(JobsOf(d, a)') \in Nat /\ Cardinality(JobsOf(d, a)) \in Nat
      /\ Cardinality(JobsOf(d, a)') <= Cardinality(JobsOf(d, a)) + Cardinality(new)
  <2>1. /\ \A i \in JobsOf(d, a)' \ new : f[i] \in JobsOf(d, a)
        /\ \A i, j \in JobsOf(d, a)' \ new : f[i] = f[j] => i = j
    BY <1>3
  <2>. QED  BY <1>2, <1>6, <2>1, MappedSet
<1>. QED  BY <1>6, <1>7

-----------------------------------------------------------------------------
(* Types.                                                                  *)

\* The limits are numbers.
LEMMA Limits == MinTrigger \in Nat /\ MaxInterval \in Nat /\ MaxFaults \in Nat
BY MaintenanceAssumption

\* The runner's row before a step is its row after it.
SameJob ==
    /\ runner.job = 0 => runner'.job = 0
    /\ runner.job # 0 => /\ runner'.job \in DOMAIN queue' /\ runner'.job # 0
                         /\ queue'[runner'.job] = queue[runner.job]

\* An insert pushes the runner's row back, if it enters before it.
LEMMA InsertKeepsJob ==
    ASSUME QueueOK, JobOK, NEW action \in {Recompute, Check}, NEW ds \in Seq(Domains),
           ds # <<>>, NEW p \in 1 .. Len(queue) + 1, Insert(action, ds, p),
           runner'.job = IF runner.job >= p THEN runner.job + 1 ELSE runner.job
    PROVE  SameJob /\ JobOK'
<1>1. /\ QueueOK' /\ Len(queue') = Len(queue) + Len(ds)
      /\ \A i \in 1 .. Len(queue) : queue'[Moved(i, p)] = queue[i]
  BY InsertedRows
<1>0. /\ Len(queue) \in Nat /\ Len(ds) \in Nat /\ Len(ds) > 0
      /\ DOMAIN queue = 1 .. Len(queue) /\ DOMAIN queue' = 1 .. Len(queue')
  BY <1>1 DEF QueueOK
<1>2. CASE runner.job = 0
  <2>1. runner'.job = 0
    BY <1>0, <1>2
  <2>. QED  BY <1>2, <2>1 DEF SameJob, JobOK
<1>3. CASE runner.job # 0
  <2>1. PICK i \in 1 .. Len(queue) : i = runner.job /\ queue[i].state = "processing"
    BY <1>0, <1>3 DEF JobOK
  <2>2. runner'.job = Moved(i, p)
    BY <1>0, <2>1 DEF Moved
  <2>3. Moved(i, p) \in 1 .. Len(queue') /\ Moved(i, p) # 0
    BY <1>0, <1>1 DEF Moved
  <2>. QED  BY <1>0, <1>1, <1>3, <2>1, <2>2, <2>3 DEF SameJob, JobOK
<1>. QED  BY <1>2, <1>3

\* The initial states are typed.
LEMMA TypesInit == Init => TypesInv
<1>. SUFFICES ASSUME Init PROVE TypesInv
  OBVIOUS
<1>1. TablesOK
  <2>1. ASSUME NEW d \in Domains PROVE domains[d] \in DomainRow
    <3>1. domains[d] \in [status : {"active"}, aligned : {FALSE}, enabled : {FALSE},
                          next_check : {Null}, last_triggered : {MinTrigger},
                          failure_active : {FALSE}, selectors : SelectorSets]
      BY DEF Init
    <3>2. MinTrigger \in 0 .. MinTrigger
      BY Limits
    <3>. HIDE DEF Init
    <3>. QED  BY <3>1, <3>2 DEF DomainRow
  <2>2. domains \in [Domains -> DomainRow]
    BY <2>1 DEF Init
  <2>. QED  BY <2>2 DEF Init, TablesOK
<1>2. QueueOK /\ CallsOK
  BY DEF Init, QueueOK, CallsOK, CallState, Idle
<1>3. TurnOK /\ JobOK
  BY DEF Init, TurnOK, JobOK, TurnState, Asleep, Working, Recomputing, Checking
<1>4. faults \in 0 .. MaxFaults
  BY Limits DEF Init
<1>. QED  BY <1>1, <1>2, <1>3, <1>4 DEF TypesInv

\* A call goes on to its next step, or returns.
LEMMA GotoTypes ==
    ASSUME CallsOK, NEW h \in Handlers, ~At(h, "idle"), NEW op, Goto(h, op),
           op \in {"idle", "recompute_insert", "check_in_flight", "check_touch", "check_insert"}
    PROVE  CallsOK'
<1>1. Idle \in CallState
  BY DEF Idle, CallState
<1>2. op # "idle" => [handler[h] EXCEPT !.op = op] \in CallState
  BY DEF CallsOK, CallState
<1>3. handler' \in [Handlers -> CallState]
  BY <1>1, <1>2 DEF Goto, CallsOK
<1>4. ASSUME NEW g \in Handlers, handler'[g].op # "idle" PROVE handler'[g].domain \in Domains
  <2>1. CASE g # h
    BY <1>4, <2>1 DEF Goto, CallsOK
  <2>2. CASE g = h
    <3>1. op # "idle" /\ handler'[h] = [handler[h] EXCEPT !.op = op]
      BY <1>4, <2>2 DEF Goto, CallsOK, Idle
    <3>2. handler'[h].domain = handler[h].domain
      BY <3>1 DEF CallsOK, CallState
    <3>. QED  BY <2>2, <3>2 DEF At, CallsOK
  <2>. QED  BY <2>1, <2>2
<1>. QED  BY <1>3, <1>4 DEF CallsOK

\* An insert leaves its call idle and the other calls at their steps.
LEMMA OvertakeTypes ==
    ASSUME CallsOK, QueueOK, NEW except, NEW n \in Nat, handler' = Overtake(except, n)
    PROVE  /\ CallsOK'
           /\ \A h \in Handlers : handler'[h] = Idle \/ /\ h # except
                                                        /\ handler'[h].op = handler[h].op
                                                        /\ handler'[h].domain = handler[h].domain
<1>0. Len(queue) \in Nat
  BY DEF QueueOK
<1>1. ASSUME NEW h \in Handlers
      PROVE  /\ handler'[h] \in CallState
             /\ handler'[h] = Idle \/ /\ h # except
                                      /\ handler'[h].op = handler[h].op
                                      /\ handler'[h].domain = handler[h].domain
  <2>1. CASE h = except
    BY <2>1 DEF Overtake, Idle, CallState
  <2>2. CASE h # except /\ handler[h].op \in {"recompute_insert", "check_insert"}
    <3>1. handler'[h] = [handler[h] EXCEPT !.newer = Newer(handler[h], n)]
      BY <2>2 DEF Overtake
    <3>2. handler[h] \in CallState /\ handler[h].newer + n \in Nat /\ Len(queue) + n \in Nat
      BY <1>0 DEF CallsOK, CallState
    <3>3. Newer(handler[h], n) \in Nat
      BY <3>2, MinOfTwo DEF Newer
    <3>. QED  BY <2>2, <3>1, <3>2, <3>3 DEF CallState
  <2>3. CASE h # except /\ handler[h].op \notin {"recompute_insert", "check_insert"}
    BY <2>3 DEF Overtake, CallsOK
  <2>. QED  BY <2>1, <2>2, <2>3
<1>2. handler' = [h \in Handlers |-> handler'[h]]
  BY DEF Overtake
<1>3. handler' \in [Handlers -> CallState]
  BY <1>1, <1>2
<1>. QED  BY <1>1, <1>3 DEF CallsOK, Idle


\* A row for a call: the tables keep their types and the runner its job.
LEMMA InsertByCallTypes ==
    ASSUME TypesInv, NEW h \in Handlers, NEW action \in {Recompute, Check}, ~At(h, "idle"),
           InsertByCall(h, action)
    PROVE  /\ QueueOK' /\ CallsOK' /\ TurnOK' /\ JobOK' /\ SameJob
           /\ \E p \in 1 .. Len(queue) + 1 : Insert(action, <<handler[h].domain>>, p)
           /\ \E j \in Nat, n \in Nat : runner' = [runner EXCEPT !.job = j, !.newer = n]
<1>0. QueueOK /\ CallsOK /\ TurnOK /\ JobOK /\ Len(queue) \in Nat
  BY DEF TypesInv, QueueOK
<1>1. handler[h].domain \in Domains /\ handler[h].newer \in Nat
  BY <1>0 DEF CallsOK, CallState, At
<1>2. PICK p \in Positions(handler[h].newer) :
         /\ Insert(action, <<handler[h].domain>>, p)
         /\ runner' = [runner EXCEPT
                !.job = IF @ >= p THEN @ + 1 ELSE @,
                !.newer = IF runner.pc = "schedule_insert" THEN Newer(runner, 1) ELSE @]
  BY DEF InsertByCall
<1>3. p \in 1 .. Len(queue) + 1
  BY <1>0, <1>1, PositionsInQueue
<1>4. PICK d \in Domains : d = handler[h].domain
  BY <1>1
<1>5. /\ Insert(action, <<d>>, p) /\ <<d>> \in Seq(Domains) /\ <<d>> # <<>>
  BY <1>2, <1>4
<1>6. QueueOK'
  BY <1>0, <1>3, <1>5, InsertedRows
<1>7. runner.job \in Nat /\ runner.newer \in Nat
  BY <1>0 DEF TurnOK, TurnState
<1>8. PICK j \in Nat : j = IF runner.job >= p THEN runner.job + 1 ELSE runner.job
  BY <1>3, <1>7
<1>9. PICK n \in Nat : n = IF runner.pc = "schedule_insert" THEN Newer(runner, 1) ELSE runner.newer
  <2>1. runner.newer + 1 \in Nat /\ Len(queue) + 1 \in Nat
    BY <1>0, <1>7
  <2>2. Newer(runner, 1) \in Nat
    BY <2>1, MinOfTwo DEF Newer
  <2>. QED  BY <1>7, <2>2
<1>10. runner' = [runner EXCEPT !.job = j, !.newer = n]
  BY <1>2, <1>8, <1>9
<1>11. runner'.job = j /\ TurnOK'
  BY <1>0, <1>10 DEF TurnOK, TurnState
<1>12. SameJob /\ JobOK'
  BY <1>0, <1>3, <1>5, <1>8, <1>11, InsertKeepsJob
<1>13. CallsOK'
  <2>1. handler' = Overtake(h, 1)
    BY DEF InsertByCall
  <2>. QED  BY <1>0, <2>1, OvertakeTypes
<1>. QED  BY <1>2, <1>3, <1>6, <1>10, <1>11, <1>12, <1>13

\* Triggers are noted in rows that are there.
LEMMA TouchedTypes ==
    ASSUME TablesOK, NEW ds, domains' = Touched(domains, ds), UNCHANGED <<current, history>>
    PROVE  TablesOK'
<1>1. ASSUME NEW d \in Domains PROVE domains'[d] \in DomainRow
  <2>1. domains[d] \in DomainRow /\ 0 \in 0 .. MinTrigger
    BY Limits DEF TablesOK
  <2>2. [domains[d] EXCEPT !.last_triggered = 0] \in DomainRow
    BY <2>1 DEF DomainRow
  <2>. QED  BY <2>1, <2>2 DEF Touched
<1>2. domains' = [d \in Domains |-> domains'[d]]
  BY DEF Touched
<1>3. domains' \in [Domains -> DomainRow]
  BY <1>1, <1>2
<1>. QED  BY <1>3 DEF TablesOK

\* A step leaves the runner and the queue alone.
LEMMA TurnUnchanged ==
    ASSUME TurnOK, JobOK, QueueOK, UNCHANGED <<queue, runner>>
    PROVE  TurnOK' /\ JobOK' /\ QueueOK'
BY DEF TurnOK, JobOK, QueueOK

\* The steps of the request threads.
LEMMA CallTypes ==
    ASSUME TypesInv, NEW h \in Handlers, Call(h)
    PROVE  TypesInv'
<1>0. TablesOK /\ QueueOK /\ CallsOK /\ TurnOK /\ JobOK /\ faults \in 0 .. MaxFaults
  BY DEF TypesInv
<1>1. ASSUME NEW d \in Domains, NEW op \in {"recompute", "check", "settings"}, Begin(h, op, d)
      PROVE  TypesInv'
  <2>1. [Idle EXCEPT !.op = op, !.domain = d] \in CallState
    BY DEF Idle, CallState
  <2>2. handler' = [handler EXCEPT ![h] = [Idle EXCEPT !.op = op, !.domain = d]]
    BY <1>1 DEF Begin
  <2>3. handler' \in [Handlers -> CallState]
    BY <1>0, <2>1, <2>2 DEF CallsOK
  <2>4. \A g \in Handlers : handler'[g].op # "idle" => handler'[g].domain \in Domains
    BY <1>0, <2>2 DEF CallsOK, Idle
  <2>5. CallsOK'
    BY <2>3, <2>4 DEF CallsOK
  <2>6. UNCHANGED <<queue, runner>> /\ UNCHANGED <<domains, current, history, faults>>
    BY <1>1 DEF Begin, database
  <2>. QED  BY <1>0, <2>5, <2>6, TurnUnchanged DEF TypesInv, TablesOK
<1>2. CASE RecomputeCheck(h) \/ CheckRecent(h) \/ CheckInFlight(h)
  <2>1. PICK op \in {"idle", "recompute_insert", "check_in_flight", "check_touch", "check_insert"} :
           Goto(h, op)
    BY <1>2 DEF RecomputeCheck, CheckRecent, CheckInFlight
  <2>2. ~At(h, "idle") /\ UNCHANGED <<queue, runner>>
        /\ UNCHANGED <<domains, current, history, faults>>
    BY <1>2 DEF RecomputeCheck, CheckRecent, CheckInFlight, At, database
  <2>3. CallsOK'
    BY <1>0, <2>1, <2>2, GotoTypes
  <2>. QED  BY <1>0, <2>2, <2>3, TurnUnchanged DEF TypesInv, TablesOK
<1>3. CASE RecomputeInsert(h)
  <2>1. ~At(h, "idle") /\ InsertByCall(h, Recompute) /\ UNCHANGED <<domains, current, history, faults>>
    BY <1>3 DEF RecomputeInsert, InsertByCall, At
  <2>2. QueueOK' /\ CallsOK' /\ TurnOK' /\ JobOK'
    BY <2>1, InsertByCallTypes
  <2>. QED  BY <1>0, <2>1, <2>2 DEF TypesInv, TablesOK
<1>4. CASE CheckTouch(h)
  <2>1. /\ ~At(h, "idle") /\ UNCHANGED <<queue, runner>> /\ UNCHANGED <<current, history>>
        /\ UNCHANGED faults /\ Goto(h, "idle")
        /\ domains' = Touched(domains, {handler[h].domain})
    BY <1>4 DEF CheckTouch, At
  <2>2. CallsOK'
    BY <1>0, <2>1, GotoTypes
  <2>3. PICK ds : ds = {handler[h].domain}
    OBVIOUS
  <2>4. TablesOK'
    BY <1>0, <2>1, <2>3, TouchedTypes
  <2>. QED  BY <1>0, <2>1, <2>2, <2>4, TurnUnchanged DEF TypesInv
<1>5. CASE CheckInsert(h)
  <2>1. ~At(h, "idle") /\ InsertByCall(h, Check) /\ UNCHANGED <<current, history>>
        /\ UNCHANGED faults /\ domains' = Touched(domains, {handler[h].domain})
    BY <1>5 DEF CheckInsert, InsertByCall, At
  <2>2. QueueOK' /\ CallsOK' /\ TurnOK' /\ JobOK'
    BY <2>1, InsertByCallTypes
  <2>3. PICK ds : ds = {handler[h].domain}
    OBVIOUS
  <2>4. TablesOK'
    BY <1>0, <2>1, <2>3, TouchedTypes
  <2>. QED  BY <1>0, <2>1, <2>2, <2>4 DEF TypesInv
<1>6. CASE Settings(h)
  <2>1. /\ ~At(h, "idle") /\ UNCHANGED <<queue, runner>> /\ UNCHANGED <<current, history>>
        /\ UNCHANGED faults /\ Goto(h, "idle")
    BY <1>6 DEF Settings, At
  <2>2. CallsOK'
    BY <1>0, <2>1, GotoTypes
  <2>3. PICK enabled \in BOOLEAN, selectors \in SelectorSets :
           domains' = [domains EXCEPT ![handler[h].domain] =
              IF Exists(handler[h].domain)
              THEN [@ EXCEPT !.enabled = enabled, !.selectors = selectors,
                             !.next_check = IF enabled THEN 0 ELSE Null]
              ELSE @]
    BY <1>6 DEF Settings
  <2>4. handler[h].domain \in Domains
    BY <1>0, <2>1 DEF CallsOK, At
  <2>5. domains[handler[h].domain] \in DomainRow
    BY <1>0, <2>4 DEF TablesOK
  <2>6. [domains[handler[h].domain] EXCEPT !.enabled = enabled, !.selectors = selectors,
            !.next_check = IF enabled THEN 0 ELSE Null] \in DomainRow
    <3>1. 0 \in 0 .. MaxInterval
      BY Limits
    <3>. QED  BY <2>5, <3>1 DEF DomainRow
  <2>7. domains' \in [Domains -> DomainRow]
    BY <1>0, <2>3, <2>5, <2>6 DEF TablesOK
  <2>. QED  BY <1>0, <2>1, <2>2, <2>7, TurnUnchanged DEF TypesInv, TablesOK
<1>. QED  BY <1>1, <1>2, <1>3, <1>4, <1>5, <1>6 DEF Call


\* The rows that the scheduler inserts are for different domains.
LEMMA ScheduledRows ==
    ASSUME NEW d \in Domains, NEW others \in SUBSET Domains, d \notin others,
           NEW ds, ds = <<d>> \o SetToSeq(others)
    PROVE  /\ ds \in Seq(Domains) /\ ds # <<>> /\ Len(ds) \in Nat
           /\ \A i \in DOMAIN ds : ds[i] \in {d} \union others
           /\ \A i, j \in DOMAIN ds : ds[i] = ds[j] => i = j
<1>1. IsFiniteSet(others)
  BY MaintenanceAssumption, FS_Subset
<1>2. PICK list \in Seq(others) : /\ list = SetToSeq(others)
                                  /\ \A i, j \in DOMAIN list : list[i] = list[j] => i = j
  BY <1>1, ListOfSet
<1>3. /\ <<d>> \in Seq(Domains) /\ Len(<<d>>) = 1 /\ <<d>>[1] = d /\ list \in Seq(Domains)
      /\ Len(list) \in Nat /\ \A i \in 1 .. Len(list) : list[i] \in others
  OBVIOUS
<1>4. /\ ds \in Seq(Domains) /\ Len(ds) = 1 + Len(list)
      /\ \A i \in 1 .. 1 + Len(list) : ds[i] = IF i <= 1 THEN <<d>>[i] ELSE list[i - 1]
  <2>1. /\ <<d>> \o list \in Seq(Domains) /\ Len(<<d>> \o list) = Len(<<d>>) + Len(list)
        /\ \A i \in 1 .. Len(<<d>>) + Len(list) :
              (<<d>> \o list)[i] = IF i <= Len(<<d>>) THEN <<d>>[i] ELSE list[i - Len(<<d>>)]
    BY <1>3, ConcatProperties
  <2>. QED  BY <1>2, <1>3, <2>1
<1>5. DOMAIN ds = 1 .. 1 + Len(list) /\ ds # <<>> /\ Len(ds) \in Nat
  BY <1>3, <1>4
<1>6. \A i \in DOMAIN ds : IF i = 1 THEN ds[i] = d
                           ELSE i - 1 \in DOMAIN list /\ ds[i] = list[i - 1] /\ ds[i] \in others
  BY <1>3, <1>4, <1>5
<1>7. ASSUME NEW i \in DOMAIN ds, NEW j \in DOMAIN ds, ds[i] = ds[j] PROVE i = j
  <2>1. CASE i = 1 \/ j = 1
    BY <1>6, <1>7, <2>1
  <2>2. CASE i # 1 /\ j # 1
    <3>1. i - 1 = j - 1
      BY <1>2, <1>6, <1>7, <2>2
    <3>. QED  BY <1>5, <3>1
  <2>. QED  BY <2>1, <2>2
<1>. QED  BY <1>4, <1>5, <1>6, <1>7

\* A purge moves up the rows that stay.
LEMMA PurgeKeepsRows ==
    ASSUME QueueOK, TurnOK, NEW d \in Domains, Purge(d)
    PROVE  /\ QueueOK'
           /\ \E rows \in [DOMAIN queue' -> DOMAIN queue] :
                 /\ \A i \in DOMAIN queue' : /\ queue'[i] = queue[rows[i]]
                                             /\ queue[rows[i]].domain # d
                 /\ \A i, j \in DOMAIN queue' : rows[i] = rows[j] => i = j
           /\ \E j \in Nat : runner' = [runner EXCEPT !.job = j]
           /\ IF Mine /\ runner.job \in DOMAIN queue /\ Job.domain # d
              THEN SameJob ELSE runner'.job = 0
<1>. DEFINE kept == {i \in DOMAIN queue : queue[i].domain # d}
            n == Cardinality(kept)
<1>1. PICK rows \in InOrder(kept), j \in 0 .. n :
         /\ queue' = [i \in DOMAIN rows |-> queue[rows[i]]]
         /\ IF runner.job \in kept THEN j # 0 /\ rows[j] = runner.job ELSE j = 0
         /\ runner' = [runner EXCEPT !.job = j]
  BY DEF Purge
<1>2. DOMAIN queue = 1 .. Len(queue) /\ Len(queue) \in Nat
  BY DEF QueueOK
<1>3. n \in Nat
  <2>1. IsFiniteSet(1 .. Len(queue)) /\ kept \subseteq 1 .. Len(queue)
    BY <1>2, FS_Interval
  <2>2. IsFiniteSet(kept)
    BY <2>1, FS_Subset
  <2>. QED  BY <2>2, FS_CardinalityType
<1>. HIDE DEF n
<1>4. /\ rows \in [1 .. n -> kept]
      /\ \A i, k \in 1 .. n : i < k => rows[i] < rows[k]
  BY DEF InOrder, n
<1>. HIDE DEF kept
<1>5. DOMAIN queue' = 1 .. n /\ \A i \in 1 .. n : queue'[i] = queue[rows[i]]
  BY <1>1, <1>4
<1>6. \A i \in kept : i \in DOMAIN queue /\ queue[i] \in JobRow /\ queue[i].domain # d
  BY <1>2 DEF kept, QueueOK
<1>7. queue' \in [1 .. n -> JobRow]
  BY <1>1, <1>4, <1>6
<1>8. QueueOK'
  BY <1>3, <1>7 DEF QueueOK
<1>9. \A i, k \in 1 .. n : rows[i] = rows[k] => i = k
  <2>1. \A i \in 1 .. n : rows[i] \in Int
    BY <1>2, <1>4, <1>6
  <2>2. SUFFICES ASSUME NEW i \in 1 .. n, NEW k \in 1 .. n, i < k PROVE rows[i] # rows[k]
    BY <1>3
  <2>. QED  BY <1>4, <2>1, <2>2
<1>10. rows \in [DOMAIN queue' -> DOMAIN queue]
  BY <1>4, <1>5, <1>6
<1>11. j \in Nat /\ runner' = [runner EXCEPT !.job = j] /\ runner'.job = j
  BY <1>1, <1>3 DEF TurnOK, TurnState
<1>12. /\ \A i \in DOMAIN queue' : queue'[i] = queue[rows[i]] /\ queue[rows[i]].domain # d
       /\ \A i, k \in DOMAIN queue' : rows[i] = rows[k] => i = k
  BY <1>4, <1>5, <1>6, <1>9
<1>13. IF Mine /\ runner.job \in DOMAIN queue /\ Job.domain # d
       THEN SameJob ELSE runner'.job = 0
  <2>1. CASE Mine /\ runner.job \in DOMAIN queue /\ Job.domain # d
    <3>1. runner.job \in kept
      BY <2>1 DEF kept, Job
    <3>2. j \in 1 .. n /\ rows[j] = runner.job
      BY <1>1, <1>3, <3>1
    <3>. QED  BY <1>5, <1>11, <2>1, <3>2 DEF SameJob, Mine
  <2>2. CASE ~(Mine /\ runner.job \in DOMAIN queue /\ Job.domain # d)
    <3>1. runner.job \notin kept
      BY <1>2, <2>2 DEF kept, Job, Mine
    <3>. QED  BY <1>1, <1>11, <2>2, <3>1
  <2>. QED  BY <2>1, <2>2
<1>. QED  BY <1>8, <1>10, <1>11, <1>12, <1>13

\* The calls that archive, restore and purge, and the clock
LEMMA DomainTypes ==
    ASSUME TypesInv, (\E d \in Domains : Archive(d) \/ Restore(d) \/ Purge(d)) \/ Tick
    PROVE  TypesInv'
<1>0. TablesOK /\ QueueOK /\ CallsOK /\ TurnOK /\ JobOK /\ faults \in 0 .. MaxFaults
  BY DEF TypesInv
<1>1. ASSUME NEW d \in Domains, Archive(d) \/ Restore(d)
      PROVE  TypesInv'
  <2>1. PICK status \in {"active", "archived"} : domains' = [domains EXCEPT ![d].status = status]
    BY <1>1 DEF Archive, Restore
  <2>2. domains[d] \in DomainRow
    BY <1>0 DEF TablesOK
  <2>3. [domains[d] EXCEPT !.status = status] \in DomainRow
    BY <2>2 DEF DomainRow
  <2>4. domains' \in [Domains -> DomainRow]
    BY <1>0, <2>1, <2>3 DEF TablesOK
  <2>5. UNCHANGED <<queue, runner>> /\ UNCHANGED <<current, history, handler, faults>>
    BY <1>1 DEF Archive, Restore
  <2>6. CallsOK'
    BY <1>0, <2>5 DEF CallsOK
  <2>. QED  BY <1>0, <2>4, <2>5, <2>6, TurnUnchanged DEF TypesInv, TablesOK
<1>2. ASSUME NEW d \in Domains, Purge(d)
      PROVE  TypesInv'
  <2>1. domains[d] \in DomainRow /\ MinTrigger \in 0 .. MinTrigger
    BY <1>0, Limits DEF TablesOK
  <2>2. [domains[d] EXCEPT !.status = "gone", !.aligned = FALSE,
          !.enabled = FALSE, !.next_check = Null, !.last_triggered = MinTrigger,
          !.failure_active = FALSE] \in DomainRow
    BY <2>1 DEF DomainRow
  <2>3. domains' \in [Domains -> DomainRow]
    BY <1>0, <1>2, <2>2 DEF Purge, TablesOK
  <2>4. /\ current' \in [Domains -> Snapshot \union {Null}]
        /\ history' \in [Domains -> Entry \union {Null}]
        /\ UNCHANGED <<handler, faults>>
    BY <1>0, <1>2 DEF Purge, TablesOK
  <2>5. CallsOK'
    BY <1>0, <2>4 DEF CallsOK
  <2>6. QueueOK'
    BY <1>0, <1>2, PurgeKeepsRows
  <2>7. PICK j \in Nat : runner' = [runner EXCEPT !.job = j]
    BY <1>0, <1>2, PurgeKeepsRows
  <2>8. TurnOK'
    BY <1>0, <2>7 DEF TurnOK, TurnState
  <2>9. JobOK'
    <3>1. IF Mine /\ runner.job \in DOMAIN queue /\ Job.domain # d
          THEN SameJob ELSE runner'.job = 0
      BY <1>0, <1>2, PurgeKeepsRows
    <3>. QED  BY <1>0, <3>1 DEF JobOK, SameJob, Mine
  <2>. QED  BY <1>0, <2>3, <2>4, <2>5, <2>6, <2>8, <2>9 DEF TypesInv, TablesOK
<1>3. CASE Tick
  <2>1. ASSUME NEW d \in Domains PROVE domains'[d] \in DomainRow
    <3>1. domains[d] \in DomainRow /\ domains[d].next_check \in 0 .. MaxInterval \union {Null}
          /\ domains[d].last_triggered \in 0 .. MinTrigger
      BY <1>0 DEF TablesOK, DomainRow
    <3>2. (IF domains[d].next_check \in {Null, 0} THEN domains[d].next_check
           ELSE domains[d].next_check - 1) \in 0 .. MaxInterval \union {Null}
      BY <3>1, Limits
    <3>3. (IF domains[d].last_triggered = MinTrigger THEN domains[d].last_triggered
           ELSE domains[d].last_triggered + 1) \in 0 .. MinTrigger
      BY <3>1, Limits
    <3>4. PICK next \in 0 .. MaxInterval \union {Null}, last \in 0 .. MinTrigger :
             domains'[d] = [domains[d] EXCEPT !.next_check = next, !.last_triggered = last]
      BY <1>3, <3>2, <3>3 DEF Tick
    <3>. QED  BY <3>1, <3>4 DEF DomainRow
  <2>2. domains' = [d \in Domains |-> domains'[d]]
    BY <1>3 DEF Tick
  <2>3. domains' \in [Domains -> DomainRow]
    BY <2>1, <2>2
  <2>4. UNCHANGED <<queue, runner>> /\ UNCHANGED <<current, history, handler, faults>>
    BY <1>3 DEF Tick
  <2>5. CallsOK'
    BY <1>0, <2>4 DEF CallsOK
  <2>. QED  BY <1>0, <2>3, <2>4, <2>5, TurnUnchanged DEF TypesInv, TablesOK
<1>. QED  BY <1>1, <1>2, <1>3


\* A turn that ends leaves the runner with nothing.
LEMMA AsleepTypes ==
    ASSUME NEW pc \in {"claim", "audit"}, Sleep \/ runner' = [Asleep EXCEPT !.pc = pc]
    PROVE  TurnOK' /\ JobOK' /\ runner'.job = 0 /\ runner'.pc \in {"schedule", pc}
<1>1. CASE Sleep
  BY <1>1 DEF Sleep, TurnOK, JobOK, TurnState, Asleep, Working, Recomputing, Checking
<1>2. CASE runner' = [Asleep EXCEPT !.pc = pc]
  BY <1>2 DEF TurnOK, JobOK, TurnState, Asleep, Working, Recomputing, Checking
<1>. QED  BY <1>1, <1>2

\* On to the next step with the job and the domain
LEMMA StepTypes ==
    ASSUME TurnOK, JobOK, NEW pc \in {"store_failure", "complete", "fail"}, Step(pc),
           UNCHANGED queue, runner.pc \in Working \/ pc = "fail"
    PROVE  /\ TurnOK' /\ JobOK' /\ runner'.job = runner.job /\ runner'.domain = runner.domain
           /\ runner'.pc = pc /\ ~runner'.scanned
<1>1. runner' = [Asleep EXCEPT !.pc = pc, !.job = runner.job, !.domain = runner.domain]
  BY DEF Step
<1>2. runner'.job = runner.job /\ runner'.domain = runner.domain /\ runner'.pc = pc
      /\ ~runner'.scanned
  BY <1>1 DEF Asleep
<1>3. runner' \in TurnState
  BY <1>1 DEF TurnOK, TurnState, Asleep
<1>4. runner'.pc \in Working => runner'.domain \in Domains
  BY <1>2 DEF TurnOK, Working, Recomputing, Checking
<1>5. TurnOK'
  BY <1>2, <1>3, <1>4 DEF TurnOK
<1>6. JobOK'
  BY <1>2 DEF JobOK
<1>. QED  BY <1>2, <1>5, <1>6

\* The end of a job, or the loss of its row
LEMMA EndTypes ==
    ASSUME QueueOK, JobOK, End
    PROVE  /\ QueueOK'
           /\ DOMAIN queue' = IF Mine THEN 1 .. Len(queue) - 1 ELSE DOMAIN queue
           /\ \A i \in DOMAIN queue' :
                 /\ (IF Mine THEN Moved(i, runner.job) ELSE i) \in DOMAIN queue
                 /\ queue'[i] = queue[IF Mine THEN Moved(i, runner.job) ELSE i]
<1>1. CASE ~Mine
  BY <1>1 DEF End, QueueOK
<1>2. CASE Mine
  <2>1. PICK p \in 1 .. Len(queue) : p = runner.job
    BY <1>2 DEF QueueOK, JobOK, Mine
  <2>2. queue' = RemoveAt(queue, p) /\ queue \in Seq(JobRow) /\ Len(queue) \in Nat
    BY <1>2, <2>1 DEF End, QueueOK
  <2>3. /\ queue' \in Seq(JobRow) /\ Len(queue') = Len(queue) - 1
        /\ \A i \in 1 .. Len(queue) - 1 : queue'[i] = queue[Moved(i, p)]
    BY <2>2, RemovedRow
  <2>4. DOMAIN queue' = 1 .. Len(queue) - 1 /\ DOMAIN queue = 1 .. Len(queue)
    BY <2>2, <2>3
  <2>5. \A i \in 1 .. Len(queue) - 1 : Moved(i, p) \in 1 .. Len(queue)
    BY <2>2 DEF Moved
  <2>. QED  BY <1>2, <2>1, <2>3, <2>4, <2>5 DEF QueueOK
<1>. QED  BY <1>1, <1>2

\* The runner claims a row.
LEMMA WorkTypes ==
    ASSUME QueueOK, TurnOK, queue # <<>>, Work(1, "processing")
    PROVE  /\ QueueOK' /\ TurnOK' /\ JobOK' /\ runner'.pc = "process"
           /\ DOMAIN queue' = DOMAIN queue
           /\ \A i \in DOMAIN queue : /\ queue'[i].domain = queue[i].domain
                                      /\ queue'[i].action = queue[i].action
<1>1. /\ queue' = [queue EXCEPT ![1].state = "processing"]
      /\ runner' = [runner EXCEPT !.pc = "process", !.job = 1]
  BY DEF Work
<1>2. 1 \in 1 .. Len(queue) /\ DOMAIN queue = 1 .. Len(queue) /\ queue \in Seq(JobRow)
      /\ queue \in [1 .. Len(queue) -> JobRow]
  BY DEF QueueOK
<1>3. [queue[1] EXCEPT !.state = "processing"] \in JobRow
  BY <1>2 DEF JobRow
<1>4. queue' \in [1 .. Len(queue) -> JobRow]
  BY <1>1, <1>2, <1>3
<1>5. queue' \in Seq(JobRow) /\ DOMAIN queue' = DOMAIN queue
  BY <1>2, <1>4
<1>6. \A i \in DOMAIN queue : /\ queue'[i].domain = queue[i].domain
                              /\ queue'[i].action = queue[i].action
  BY <1>1, <1>2 DEF JobRow
<1>7. queue'[1].state = "processing"
  BY <1>1, <1>2 DEF JobRow
<1>8. runner' \in TurnState /\ runner'.pc = "process" /\ runner'.job = 1
  BY <1>1 DEF TurnOK, TurnState
<1>9. TurnOK' /\ JobOK'
  BY <1>2, <1>5, <1>7, <1>8 DEF TurnOK, JobOK, Working, Recomputing, Checking
<1>. QED  BY <1>5, <1>6, <1>8, <1>9 DEF QueueOK


\* The scheduler's steps
LEMMA ScheduleTypes ==
    ASSUME TypesInv, SelectDue \/ ScheduleCheck \/ ScheduleInsert
    PROVE  TypesInv'
<1>0. TablesOK /\ QueueOK /\ CallsOK /\ TurnOK /\ JobOK /\ faults \in 0 .. MaxFaults
  BY DEF TypesInv
<1>1. CASE SelectDue
  <2>1. /\ runner.pc = "schedule" /\ UNCHANGED <<domains, current, history, queue, handler, faults>>
        /\ \E due \in SUBSET Domains :
              runner' = [runner EXCEPT !.pc = "schedule_check", !.due = due]
    BY <1>1 DEF SelectDue, In, database
  <2>2. TurnOK' /\ JobOK'
    BY <1>0, <2>1 DEF TurnOK, JobOK, TurnState, Working, Recomputing, Checking
  <2>. QED  BY <1>0, <2>1, <2>2 DEF TypesInv, TablesOK, QueueOK, CallsOK
<1>2. CASE ScheduleCheck
  <2>1. UNCHANGED <<domains, current, history, queue, handler, faults>>
    BY <1>2 DEF ScheduleCheck, database
  <2>2. CASE runner' = [Asleep EXCEPT !.pc = "claim"]
    <3>1. TurnOK' /\ JobOK'
      BY <2>2, AsleepTypes
    <3>. QED  BY <1>0, <2>1, <3>1 DEF TypesInv, TablesOK, QueueOK, CallsOK
  <2>3. ASSUME NEW d \in Domains, NEW due \in SUBSET Domains, d \notin due,
               runner' = [runner EXCEPT !.pc = "schedule_insert", !.domain = d, !.due = due]
        PROVE  TypesInv'
    <3>1. TurnOK' /\ JobOK'
      BY <1>0, <2>1, <2>3 DEF TurnOK, JobOK, TurnState, Working, Recomputing, Checking
    <3>. QED  BY <1>0, <2>1, <3>1 DEF TypesInv, TablesOK, QueueOK, CallsOK
  <2>4. runner.due \in SUBSET Domains
    BY <1>0 DEF TurnOK, TurnState
  <2>5. runner' = [Asleep EXCEPT !.pc = "claim"] \/
        \E d \in Domains, due \in SUBSET Domains :
           d \notin due
           /\ runner' = [runner EXCEPT !.pc = "schedule_insert", !.domain = d, !.due = due]
    <3>1. PICK waiting \in SUBSET Domains :
             IF waiting = {} THEN runner' = [Asleep EXCEPT !.pc = "claim"]
             ELSE \E d \in waiting :
                     runner' = [runner EXCEPT !.pc = "schedule_insert", !.domain = d,
                                              !.due = waiting \ {d}]
      BY <1>2, <2>4 DEF ScheduleCheck
    <3>2. ASSUME NEW d \in waiting
          PROVE  d \in Domains /\ waiting \ {d} \in SUBSET Domains /\ d \notin waiting \ {d}
      OBVIOUS
    <3>. QED  BY <3>1, <3>2
  <2>. QED  BY <2>2, <2>3, <2>5
<1>3. CASE ScheduleInsert
  <2>. DEFINE others == {d \in runner.due : JobsOf(d, Check) = {}}
  <2>1. /\ runner.domain \in Domains /\ runner.domain \notin runner.due
        /\ runner.due \in SUBSET Domains /\ runner.newer \in Nat
    BY <1>0, <1>3 DEF ScheduleInsert, In, TurnOK, TurnState
  <2>2. PICK d \in Domains, rest \in SUBSET Domains : d = runner.domain /\ rest = others
    BY <2>1
  <2>3. d \notin rest
    BY <2>1, <2>2
  <2>4. PICK ds : ds = <<d>> \o SetToSeq(rest)
    OBVIOUS
  <2>5. /\ \E position \in Positions(runner.newer) : Insert(Check, ds, position)
        /\ domains' = Touched(domains, {runner.domain} \union others)
        /\ handler' = Overtake(Null, Len(ds))
    BY <1>3, <2>2, <2>4 DEF ScheduleInsert
  <2>. HIDE DEF others
  <2>6. ds \in Seq(Domains) /\ ds # <<>> /\ Len(ds) \in Nat
    BY <2>3, <2>4, ScheduledRows
  <2>7. PICK p \in 1 .. Len(queue) + 1 : Insert(Check, ds, p)
    BY <1>0, <2>1, <2>5, PositionsInQueue
  <2>8. QueueOK'
    BY <1>0, <2>6, <2>7, InsertedRows
  <2>9. CallsOK'
    BY <1>0, <2>5, <2>6, OvertakeTypes
  <2>10. UNCHANGED <<current, history>> /\ UNCHANGED faults
         /\ runner' = [Asleep EXCEPT !.pc = "claim"]
    BY <1>3 DEF ScheduleInsert
  <2>11. TablesOK'
    <3>1. PICK touched : touched = {runner.domain} \union others
      OBVIOUS
    <3>. QED  BY <1>0, <2>5, <2>10, <3>1, TouchedTypes
  <2>12. TurnOK' /\ JobOK'
    BY <2>10, AsleepTypes
  <2>. QED  BY <1>0, <2>8, <2>9, <2>10, <2>11, <2>12 DEF TypesInv
<1>. QED  BY <1>1, <1>2, <1>3

\* A row of the domain's table whose next check is set
LEMMA RescheduleTypes ==
    ASSUME TablesOK, NEW interval \in CheckIntervals, NEW failing \in BOOLEAN,
           NEW d \in Domains,
           domains' = IF Exists(d) THEN [domains EXCEPT ![d].next_check = interval,
                                                        ![d].failure_active = failing]
                      ELSE domains
    PROVE  domains' \in [Domains -> DomainRow]
<1>1. domains[d] \in DomainRow /\ interval \in 0 .. MaxInterval
  BY MaintenanceAssumption, Limits DEF TablesOK
<1>2. [domains[d] EXCEPT !.next_check = interval, !.failure_active = failing] \in DomainRow
  BY <1>1 DEF DomainRow
<1>3. CASE Exists(d)
  <2>1. domains' = [domains EXCEPT ![d] =
                      [domains[d] EXCEPT !.next_check = interval, !.failure_active = failing]]
    BY <1>1, <1>3 DEF TablesOK, DomainRow
  <2>. QED  BY <1>2, <2>1 DEF TablesOK
<1>. QED  BY <1>3 DEF TablesOK

\* The steps that work on a job
LEMMA WorkStepTypes ==
    ASSUME TypesInv,
           \/ RecomputeReports \/ ReadCheck \/ Lookup \/ StoreFailure \/ Store
    PROVE  TypesInv' /\ runner'.job = runner.job /\ runner'.domain = runner.domain
<1>0. TablesOK /\ QueueOK /\ CallsOK /\ TurnOK /\ JobOK /\ faults \in 0 .. MaxFaults
      /\ runner \in TurnState
  BY DEF TypesInv, TurnOK
<1>1. CASE RecomputeReports
  <2>1. /\ runner.pc = "recompute" /\ UNCHANGED <<current, history, queue, handler, faults>>
        /\ runner' = [runner EXCEPT !.pc = "complete", !.scanned = TRUE]
        /\ domains' = [domains EXCEPT ![runner.domain].aligned = @ \/ Exists(runner.domain)]
    BY <1>1 DEF RecomputeReports, In
  <2>2. runner.domain \in Domains /\ domains[runner.domain] \in DomainRow
    BY <1>0, <2>1 DEF TurnOK, TablesOK, Working, Recomputing
  <2>3. PICK aligned \in BOOLEAN : aligned <=> (domains[runner.domain].aligned \/ Exists(runner.domain))
    OBVIOUS
  <2>4. [domains[runner.domain] EXCEPT !.aligned = @ \/ Exists(runner.domain)] \in DomainRow
    BY <2>2 DEF DomainRow
  <2>5. domains' \in [Domains -> DomainRow]
    BY <1>0, <2>1, <2>2, <2>4 DEF TablesOK
  <2>6. TurnOK' /\ JobOK' /\ runner'.job = runner.job /\ runner'.domain = runner.domain
    BY <1>0, <2>1, <2>2 DEF TurnOK, JobOK, TurnState, Working, Recomputing, Checking
  <2>. QED  BY <1>0, <2>1, <2>5, <2>6 DEF TypesInv, TablesOK, QueueOK, CallsOK
<1>2. CASE ReadCheck
  <2>1. /\ runner.pc = "check"
        /\ UNCHANGED <<domains, current, history, queue, handler, faults>>
    BY <1>2 DEF ReadCheck, In, database
  <2>2. runner.domain \in Domains
    BY <1>0, <2>1 DEF TurnOK, Working, Checking
  <2>3. /\ domains[runner.domain].selectors \in SelectorSets
        /\ current[runner.domain] \in Snapshot \union {Null}
    BY <1>0, <2>2 DEF TablesOK, DomainRow
  <2>4. PICK selectors \in SelectorSets, previous \in Snapshot \union {Null} :
           \/ runner' = [runner EXCEPT !.pc = "fail"]
           \/ runner' = [runner EXCEPT !.pc = "complete"]
           \/ runner' = [runner EXCEPT !.pc = "lookup", !.selectors = selectors,
                                       !.previous = previous]
    BY <1>2, <2>3, Zenon DEF ReadCheck
  <2>5. TurnOK' /\ JobOK' /\ runner'.job = runner.job /\ runner'.domain = runner.domain
    BY <1>0, <2>1, <2>2, <2>4 DEF TurnOK, JobOK, TurnState, Working, Recomputing, Checking
  <2>. QED  BY <1>0, <2>1, <2>5 DEF TypesInv, TablesOK, QueueOK, CallsOK
<1>3. CASE Lookup
  <2>1. /\ runner.pc = "lookup"
        /\ UNCHANGED <<domains, current, history, queue, handler, faults>>
    BY <1>3 DEF Lookup, In, database
  <2>2. runner.domain \in Domains /\ runner.selectors \in SelectorSets
    BY <1>0, <2>1 DEF TurnOK, Working, Checking
  <2>3. PICK found \in Snapshot : runner' = [runner EXCEPT !.pc = "store", !.found = found]
    BY <1>3, <2>2 DEF Lookup, Snapshot
  <2>4. TurnOK' /\ JobOK' /\ runner'.job = runner.job /\ runner'.domain = runner.domain
    BY <1>0, <2>1, <2>2, <2>3 DEF TurnOK, JobOK, TurnState, Working, Recomputing, Checking
  <2>. QED  BY <1>0, <2>1, <2>4 DEF TypesInv, TablesOK, QueueOK, CallsOK
<1>4. CASE StoreFailure
  <2>1. /\ runner.pc = "store_failure" /\ Step("complete")
        /\ UNCHANGED <<current, history, queue, handler, faults>>
    BY <1>4 DEF StoreFailure, In
  <2>2. runner.domain \in Domains /\ runner.pc \in Working
    BY <1>0, <2>1 DEF TurnOK, Working, Checking
  <2>3. domains' \in [Domains -> DomainRow]
    <3>1. PICK d \in Domains : d = runner.domain
      BY <2>2
    <3>. QED  BY <1>0, <1>4, <3>1, RescheduleTypes DEF StoreFailure
  <2>4. TurnOK' /\ JobOK' /\ runner'.job = runner.job /\ runner'.domain = runner.domain
    BY <1>0, <2>1, <2>2, StepTypes
  <2>. QED  BY <1>0, <2>1, <2>3, <2>4 DEF TypesInv, TablesOK, QueueOK, CallsOK
<1>5. CASE Store
  <2>1. runner.pc = "store" /\ UNCHANGED <<queue, handler, faults>>
    BY <1>5 DEF Store, In
  <2>2. /\ runner.domain \in Domains /\ runner.pc \in Working /\ runner.found \in Snapshot
        /\ runner.previous \in Snapshot \union {Null}
    BY <1>0, <2>1 DEF TurnOK, TurnState, Working, Checking
  <2>3. CASE Step("fail") /\ UNCHANGED <<domains, current, history>>
    <3>1. TurnOK' /\ JobOK' /\ runner'.job = runner.job /\ runner'.domain = runner.domain
      BY <1>0, <2>1, <2>2, <2>3, StepTypes
    <3>. QED  BY <1>0, <2>1, <2>3, <3>1 DEF TypesInv, TablesOK, QueueOK, CallsOK
  <2>4. CASE ~(Step("fail") /\ UNCHANGED <<domains, current, history>>)
    <3>1. /\ current' = [current EXCEPT ![runner.domain] = runner.found]
          /\ history' = IF Changed
               THEN [history EXCEPT ![runner.domain] =
                       [previous |-> runner.previous, current |-> runner.found]]
               ELSE history
          /\ \E interval \in CheckIntervals :
                domains' = IF Exists(runner.domain)
                           THEN [domains EXCEPT ![runner.domain].next_check = interval,
                                                ![runner.domain].failure_active = FALSE]
                           ELSE domains
          /\ runner' = [runner EXCEPT !.pc = "complete", !.scanned = TRUE,
                                      !.previous = Null, !.selectors = Null]
      BY <1>5, <2>4 DEF Store
    <3>2. domains' \in [Domains -> DomainRow]
      <4>1. PICK d \in Domains : d = runner.domain
        BY <2>2
      <4>. QED  BY <1>0, <3>1, <4>1, RescheduleTypes
    <3>3. [previous |-> runner.previous, current |-> runner.found] \in Entry
      BY <2>2 DEF Entry
    <3>4. /\ current' \in [Domains -> Snapshot \union {Null}]
          /\ history' \in [Domains -> Entry \union {Null}]
      BY <1>0, <2>2, <3>1, <3>3 DEF TablesOK
    <3>5. runner' \in TurnState /\ runner'.pc = "complete" /\ runner'.job = runner.job
          /\ runner'.domain = runner.domain
      BY <1>0, <3>1 DEF TurnState
    <3>6. TurnOK' /\ JobOK'
      BY <1>0, <2>1, <2>2, <3>5 DEF TurnOK, JobOK
    <3>. QED  BY <1>0, <2>1, <3>2, <3>4, <3>5, <3>6 DEF TypesInv, TablesOK, QueueOK, CallsOK
  <2>. QED  BY <2>3, <2>4
<1>. QED  BY <1>1, <1>2, <1>3, <1>4, <1>5


\* The steps that take up and end a job
LEMMA ClaimTypes ==
    ASSUME TypesInv, Claim \/ Process \/ Complete \/ Audit \/ Fail
    PROVE  TypesInv'
<1>0. TablesOK /\ QueueOK /\ CallsOK /\ TurnOK /\ JobOK /\ faults \in 0 .. MaxFaults
  BY DEF TypesInv
<1>1. UNCHANGED <<domains, current, history, handler, faults>>
  BY DEF Claim, Process, Complete, Audit, Fail, database
<1>2. TablesOK' /\ CallsOK' /\ faults' \in 0 .. MaxFaults
  BY <1>0, <1>1 DEF TablesOK, CallsOK
<1>3. ASSUME Sleep \/ runner' = [Asleep EXCEPT !.pc = "audit"], UNCHANGED queue \/ End
      PROVE  TypesInv'
  <2>1. TurnOK' /\ JobOK'
    BY <1>3, AsleepTypes
  <2>2. QueueOK'
    BY <1>0, <1>3, EndTypes DEF QueueOK
  <2>. QED  BY <1>2, <2>1, <2>2 DEF TypesInv
<1>4. CASE Claim
  <2>1. CASE queue = <<>>
    BY <1>3, <1>4, <2>1 DEF Claim
  <2>2. CASE queue # <<>>
    <3>1. QueueOK' /\ TurnOK' /\ JobOK'
      BY <1>0, <1>4, <2>2, WorkTypes DEF Claim
    <3>. QED  BY <1>2, <3>1 DEF TypesInv
  <2>. QED  BY <2>1, <2>2
<1>5. CASE Process
  <2>1. CASE Mine /\ Exists(Job.domain)
    <3>1. PICK i \in DOMAIN queue : i = runner.job
      BY <1>0, <2>1 DEF Mine, JobOK
    <3>2. queue[i] \in JobRow
      BY <1>0 DEF QueueOK
    <3>3. PICK d \in Domains, pc \in {"recompute", "check"} :
             runner' = [runner EXCEPT !.domain = d, !.pc = pc]
      BY <1>5, <2>1, <3>1, <3>2 DEF Process, Job, JobRow
    <3>4. UNCHANGED queue
      BY <1>5, <2>1 DEF Process
    <3>5. TurnOK' /\ JobOK'
      BY <1>0, <3>3, <3>4 DEF TurnOK, JobOK, TurnState
    <3>. QED  BY <1>0, <1>2, <3>4, <3>5 DEF TypesInv, QueueOK
  <2>2. CASE ~(Mine /\ Exists(Job.domain))
    <3>1. Sleep /\ End
      BY <1>5, <2>2 DEF Process
    <3>. QED  BY <1>3, <3>1
  <2>. QED  BY <2>1, <2>2
<1>6. CASE Complete
  BY <1>3, <1>6 DEF Complete
<1>7. CASE Audit
  BY <1>3, <1>7 DEF Audit, database
<1>8. CASE Fail
  BY <1>3, <1>8 DEF Fail
<1>. QED  BY <1>4, <1>5, <1>6, <1>7, <1>8

\* Faults
LEMMA FaultTypes ==
    ASSUME TypesInv, LookupFails \/ Raise \/ Interrupt \/ Restart
    PROVE  TypesInv'
<1>0. TablesOK /\ QueueOK /\ CallsOK /\ TurnOK /\ JobOK /\ faults \in 0 .. MaxFaults
  BY DEF TypesInv
<1>1. faults' \in 0 .. MaxFaults /\ UNCHANGED queue /\ UNCHANGED <<current, history>>
  <2>1. /\ faults < MaxFaults /\ faults' = faults + 1
        /\ UNCHANGED queue /\ UNCHANGED <<current, history>>
    BY DEF LookupFails, Raise, Interrupt, Restart, database
  <2>. QED  BY <1>0, <2>1, Limits
<1>2. QueueOK'
  BY <1>0, <1>1 DEF QueueOK
<1>3. CASE LookupFails \/ Raise
  <2>1. /\ UNCHANGED <<domains, handler>>
        /\ \E pc \in {"store_failure", "fail"} :
              Step(pc) /\ (runner.pc \in Working \/ pc = "fail")
    BY <1>3 DEF LookupFails, Raise, In, Working, Checking, database
  <2>2. TurnOK' /\ JobOK'
    BY <1>0, <1>1, <2>1, StepTypes
  <2>. QED  BY <1>0, <1>1, <1>2, <2>1, <2>2 DEF TypesInv, TablesOK, CallsOK
<1>4. Sleep => TurnOK' /\ JobOK'
  BY AsleepTypes
<1>5. CASE Interrupt
  <2>1. Sleep /\ UNCHANGED <<domains, handler>>
    BY <1>5 DEF Interrupt, database
  <2>. QED  BY <1>0, <1>1, <1>2, <1>4, <2>1 DEF TypesInv, TablesOK, CallsOK
<1>6. CASE Restart
  <2>1. Sleep /\ handler' = [h \in Handlers |-> Idle]
    BY <1>6 DEF Restart
  <2>2. CallsOK'
    BY <2>1 DEF CallsOK, CallState, Idle
  <2>3. PICK upgraded \in BOOLEAN :
           domains' = [d \in Domains |-> [domains[d] EXCEPT !.aligned = @ /\ ~upgraded]]
    BY <1>6 DEF Restart
  <2>4. ASSUME NEW d \in Domains
        PROVE  [domains[d] EXCEPT !.aligned = @ /\ ~upgraded] \in DomainRow
    <3>1. domains[d] \in DomainRow
      BY <1>0 DEF TablesOK
    <3>. QED  BY <3>1 DEF DomainRow
  <2>5. domains' \in [Domains -> DomainRow]
    BY <2>3, <2>4
  <2>. QED  BY <1>0, <1>1, <1>2, <1>4, <2>1, <2>2, <2>5 DEF TypesInv, TablesOK
<1>. QED  BY <1>3, <1>5, <1>6

\* Every step keeps the types and what the threads hold on to.
LEMMA TypesStep ==
    ASSUME TypesInv, [Next]_vars
    PROVE  TypesInv'
<1>1. CASE UNCHANGED vars
  BY <1>1 DEF vars, TypesInv, TablesOK, QueueOK, CallsOK, TurnOK, JobOK
<1>2. ASSUME NEW h \in Handlers, Call(h) PROVE TypesInv'
  BY <1>2, CallTypes
<1>3. CASE (\E d \in Domains : Archive(d) \/ Restore(d) \/ Purge(d)) \/ Tick
  BY <1>3, DomainTypes
<1>4. CASE Turn
  BY <1>4, ScheduleTypes, WorkStepTypes, ClaimTypes DEF Turn
<1>5. CASE LookupFails \/ Raise \/ Interrupt \/ Restart
  BY <1>5, FaultTypes
<1>. QED  BY <1>1, <1>2, <1>3, <1>4, <1>5 DEF Next

\* So they hold throughout.
LEMMA TypesAlways == Spec => []TypesInv
<1>1. TypesInv /\ [Next]_vars => TypesInv'
  BY TypesStep
<1>. QED  BY TypesInit, <1>1, PTL DEF Spec

\* The tables and threads keep their types: the runner's row is one in flight that it has
\* claimed, wherever inserts and purges have moved it.
THEOREM MaintenanceTypes == Spec => []TypeOK
<1>1. TypesInv => TypeOK
  BY DEF TypesInv, TypeOK, TablesOK, QueueOK, CallsOK, TurnOK, JobOK
<1>. QED  BY <1>1, TypesAlways, PTL


-----------------------------------------------------------------------------
(* The timeline and what completed jobs have done.                         *)

\* What the runner relies on in the tables stays.
DomainsKept ==
    \A d \in Domains : /\ Exists(d)' <=> Exists(d)
                       /\ domains[d].aligned => domains'[d].aligned
TurnKept ==
    /\ runner'.pc = runner.pc /\ runner'.domain = runner.domain
    /\ runner'.previous = runner.previous /\ runner'.found = runner.found
    /\ runner'.scanned <=> runner.scanned

\* Others take steps.
LEMMA WorkFrame ==
    ASSUME TypesInv, WorkInv, DomainsKept, TurnKept, SameJob, UNCHANGED <<current, history>>
    PROVE  WorkInv'
<1>1. TimelineComplete'
  BY DEF WorkInv, TimelineComplete, DomainsKept
<1>2. runner.pc \in Working => runner.domain \in Domains
  BY DEF TypesInv, TurnOK
<1>3. PreviousIsCurrent'
  BY <1>2 DEF WorkInv, PreviousIsCurrent, DomainsKept, TurnKept, Working, Checking
<1>4. Mine' => Mine /\ Job' = Job
  BY DEF SameJob, Mine, Job
<1>5. JobFits'
  <2>1. SUFFICES ASSUME runner'.pc \in Working, Mine'
                 PROVE  /\ Job'.domain = runner'.domain /\ Exists(runner.domain)'
                        /\ runner'.pc \in Recomputing => Job'.action = Recompute
                        /\ runner'.pc \in Checking => Job'.action = Check
    BY DEF JobFits
  <2>2. Exists(runner.domain)'
    <3>1. Exists(runner.domain) /\ runner.domain \in Domains
      BY <1>2, <1>4, <2>1 DEF WorkInv, JobFits, TurnKept
    <3>. QED  BY <3>1 DEF DomainsKept, TurnKept, Exists
  <2>. QED  BY <1>4, <2>1, <2>2 DEF WorkInv, JobFits, TurnKept
<1>6. CompletedIsDone'
  BY <1>2, <1>4 DEF WorkInv, CompletedIsDone, DomainsKept, TurnKept, In, Working
<1>7. ScannedLast'
  BY DEF WorkInv, ScannedLast, TurnKept, In
<1>. QED  BY <1>1, <1>3, <1>5, <1>6, <1>7 DEF WorkInv

\* The runner has no job yet, or no longer.
LEMMA WorkIdle ==
    ASSUME TypesInv, WorkInv, UNCHANGED <<current, history>>,
           \A d \in Domains : Exists(d)' <=> Exists(d),
           runner'.pc \notin Working, ~runner'.scanned
    PROVE  WorkInv'
<1>1. TimelineComplete'
  BY DEF WorkInv, TimelineComplete
<1>2. PreviousIsCurrent' /\ JobFits' /\ CompletedIsDone' /\ ScannedLast'
  BY DEF PreviousIsCurrent, JobFits, CompletedIsDone, ScannedLast, In, Working, Checking
<1>. QED  BY <1>1, <1>2 DEF WorkInv

\* Nothing is moved by a step that leaves the queue alone.
LEMMA SameJobUnchanged ==
    ASSUME QueueOK, JobOK, UNCHANGED queue, runner'.job = runner.job
    PROVE  SameJob
BY DEF QueueOK, JobOK, SameJob

\* A trigger that is noted leaves the rest of the row.
LEMMA TouchedKept ==
    ASSUME TablesOK, NEW ds, domains' = Touched(domains, ds)
    PROVE  DomainsKept
<1>. SUFFICES ASSUME NEW d \in Domains
              PROVE  /\ domains'[d].status = domains[d].status
                     /\ domains[d].aligned => domains'[d].aligned
  BY DEF DomainsKept, Exists
<1>1. domains[d] \in DomainRow
  BY DEF TablesOK
<1>2. \/ domains'[d] = domains[d]
      \/ domains'[d] = [domains[d] EXCEPT !.last_triggered = 0]
  BY DEF Touched
<1>. QED  BY <1>1, <1>2 DEF DomainRow

\* The request threads
LEMMA WorkByCall ==
    ASSUME TypesInv, WorkInv, NEW h \in Handlers, Call(h)
    PROVE  WorkInv'
<1>0. TablesOK /\ QueueOK /\ CallsOK /\ TurnOK /\ JobOK
  BY DEF TypesInv
<1>1. UNCHANGED <<current, history>>
  BY DEF Call, Begin, RecomputeCheck, RecomputeInsert, CheckRecent, CheckInFlight, CheckTouch,
         CheckInsert, InsertByCall, Settings, database
<1>2. UNCHANGED domains => DomainsKept
  BY DEF DomainsKept, Exists
<1>3. UNCHANGED <<queue, runner>> => TurnKept /\ SameJob
  BY <1>0, SameJobUnchanged DEF TurnKept
<1>4. CASE RecomputeInsert(h) \/ CheckInsert(h)
  <2>1. PICK action \in {Recompute, Check} : InsertByCall(h, action)
    BY <1>4 DEF RecomputeInsert, CheckInsert
  <2>2. ~At(h, "idle")
    BY <1>4 DEF RecomputeInsert, CheckInsert, At
  <2>3. SameJob /\ \E j \in Nat, n \in Nat : runner' = [runner EXCEPT !.job = j, !.newer = n]
    BY <2>1, <2>2, InsertByCallTypes
  <2>4. TurnKept
    BY <1>0, <2>3 DEF TurnKept, TurnOK, TurnState
  <2>5. DomainsKept
    <3>1. PICK ds : ds = {handler[h].domain}
      OBVIOUS
    <3>2. UNCHANGED domains \/ domains' = Touched(domains, ds)
      BY <1>4, <3>1 DEF RecomputeInsert, CheckInsert
    <3>. QED  BY <1>0, <1>2, <3>2, TouchedKept
  <2>. QED  BY <1>1, <2>3, <2>4, <2>5, WorkFrame
<1>5. CASE CheckTouch(h)
  <2>1. PICK ds : ds = {handler[h].domain}
    OBVIOUS
  <2>2. UNCHANGED <<queue, runner>> /\ domains' = Touched(domains, ds)
    BY <1>5, <2>1 DEF CheckTouch
  <2>. QED  BY <1>0, <1>1, <1>3, <2>2, TouchedKept, WorkFrame
<1>6. CASE Settings(h)
  <2>1. UNCHANGED <<queue, runner>>
    BY <1>6 DEF Settings
  <2>2. PICK enabled \in BOOLEAN, selectors \in SelectorSets :
           domains' = [domains EXCEPT ![handler[h].domain] =
              IF Exists(handler[h].domain)
              THEN [@ EXCEPT !.enabled = enabled, !.selectors = selectors,
                             !.next_check = IF enabled THEN 0 ELSE Null]
              ELSE @]
    BY <1>6 DEF Settings
  <2>3. ASSUME NEW d \in Domains
        PROVE  /\ domains'[d].status = domains[d].status
               /\ domains[d].aligned => domains'[d].aligned
    <3>1. domains[d] \in DomainRow
      BY <1>0 DEF TablesOK
    <3>2. \/ domains'[d] = domains[d]
          \/ domains'[d] = [domains[d] EXCEPT !.enabled = enabled, !.selectors = selectors,
                               !.next_check = IF enabled THEN 0 ELSE Null]
      BY <1>0, <2>2 DEF TablesOK
    <3>. QED  BY <3>1, <3>2 DEF DomainRow
  <2>4. DomainsKept
    BY <2>3 DEF DomainsKept, Exists
  <2>. QED  BY <1>1, <1>3, <2>1, <2>4, WorkFrame
<1>7. CASE RecomputeCheck(h) \/ CheckRecent(h) \/ CheckInFlight(h)
           \/ \E d \in Domains, op \in {"recompute", "check", "settings"} : Begin(h, op, d)
  <2>1. UNCHANGED <<queue, runner>> /\ UNCHANGED domains
    BY <1>7 DEF RecomputeCheck, CheckRecent, CheckInFlight, Begin, database
  <2>. QED  BY <1>1, <1>2, <1>3, <2>1, WorkFrame
<1>. QED  BY <1>4, <1>5, <1>6, <1>7 DEF Call


\* The other calls on domains, and the clock
LEMMA WorkByDomain ==
    ASSUME TypesInv, WorkInv, (\E d \in Domains : Archive(d) \/ Restore(d) \/ Purge(d)) \/ Tick
    PROVE  WorkInv'
<1>0. TablesOK /\ QueueOK /\ CallsOK /\ TurnOK /\ JobOK
  BY DEF TypesInv
<1>1. UNCHANGED <<queue, runner>> => TurnKept /\ SameJob
  BY <1>0, SameJobUnchanged DEF TurnKept
<1>2. ASSUME NEW d \in Domains, Archive(d) \/ Restore(d)
      PROVE  WorkInv'
  <2>1. UNCHANGED <<queue, runner>> /\ UNCHANGED <<current, history>>
    BY <1>2 DEF Archive, Restore
  <2>2. /\ domains[d].status \in {"active", "archived"}
        /\ \E status \in {"active", "archived"} :
              domains' = [domains EXCEPT ![d].status = status]
    BY <1>2 DEF Archive, Restore
  <2>3. ASSUME NEW e \in Domains
        PROVE  /\ Exists(e)' <=> Exists(e)
               /\ domains[e].aligned => domains'[e].aligned
    <3>1. domains[e] \in DomainRow
      BY <1>0 DEF TablesOK
    <3>. QED  BY <1>0, <2>2, <3>1 DEF TablesOK, DomainRow, Exists
  <2>4. DomainsKept
    BY <2>3 DEF DomainsKept
  <2>. QED  BY <1>1, <2>1, <2>4, WorkFrame
<1>3. CASE Tick
  <2>1. UNCHANGED <<queue, runner>> /\ UNCHANGED <<current, history>>
    BY <1>3 DEF Tick
  <2>2. ASSUME NEW d \in Domains
        PROVE  /\ domains'[d].status = domains[d].status
               /\ domains[d].aligned => domains'[d].aligned
    <3>1. domains[d] \in DomainRow
      BY <1>0 DEF TablesOK
    <3>2. PICK next, last :
             domains'[d] = [domains[d] EXCEPT !.next_check = next, !.last_triggered = last]
      BY <1>3 DEF Tick
    <3>. QED  BY <3>1, <3>2 DEF DomainRow
  <2>3. DomainsKept
    BY <2>2 DEF DomainsKept, Exists
  <2>. QED  BY <1>1, <2>1, <2>3, WorkFrame
<1>4. ASSUME NEW d \in Domains, Purge(d)
      PROVE  WorkInv'
  <2>1. \A e \in Domains : e # d => /\ domains'[e] = domains[e] /\ current'[e] = current[e]
                                    /\ history'[e] = history[e]
    BY <1>0, <1>4 DEF Purge, TablesOK
  <2>2. domains'[d].status = "gone"
    <3>1. domains[d] \in DomainRow
      BY <1>0 DEF TablesOK
    <3>. QED  BY <1>0, <1>4, <3>1 DEF Purge, TablesOK, DomainRow
  <2>3. \A e \in Domains : Exists(e)' => Exists(e) /\ e # d
    BY <2>1, <2>2 DEF Exists
  <2>4. \A e \in Domains : e # d /\ Exists(e) => Exists(e)'
    BY <2>1 DEF Exists
  <2>5. IF Mine /\ runner.job \in DOMAIN queue /\ Job.domain # d
        THEN SameJob ELSE runner'.job = 0
    BY <1>0, <1>4, PurgeKeepsRows
  <2>6. TurnKept
    <3>1. PICK j \in Nat : runner' = [runner EXCEPT !.job = j]
      BY <1>0, <1>4, PurgeKeepsRows
    <3>. QED  BY <1>0, <3>1 DEF TurnKept, TurnOK, TurnState
  <2>7. runner.pc \in Working => runner.domain \in Domains
    BY <1>0 DEF TurnOK
  <2>8. TimelineComplete'
    BY <2>1, <2>3 DEF WorkInv, TimelineComplete
  <2>9. PreviousIsCurrent'
    BY <2>1, <2>3, <2>6, <2>7
       DEF WorkInv, PreviousIsCurrent, TurnKept, Exists, Working, Checking
  <2>10. ASSUME runner'.pc \in Working, Mine'
         PROVE  Mine /\ Job' = Job /\ runner.domain # d /\ runner.domain \in Domains
    <3>1. Mine /\ SameJob /\ Job.domain # d
      BY <2>5, <2>10 DEF Mine
    <3>2. Job' = Job
      BY <3>1 DEF SameJob, Job, Mine
    <3>3. runner.pc \in Working
      BY <2>6, <2>10 DEF TurnKept
    <3>4. Job.domain = runner.domain
      BY <3>1, <3>3 DEF WorkInv, JobFits
    <3>. QED  BY <2>7, <3>1, <3>2, <3>3, <3>4
  <2>11. JobFits'
    <3>1. SUFFICES ASSUME runner'.pc \in Working, Mine'
                   PROVE  /\ Job'.domain = runner'.domain /\ Exists(runner.domain)'
                          /\ runner'.pc \in Recomputing => Job'.action = Recompute
                          /\ runner'.pc \in Checking => Job'.action = Check
      BY DEF JobFits
    <3>2. Mine /\ Job' = Job /\ runner.domain # d /\ runner.domain \in Domains
      BY <2>10, <3>1
    <3>3. /\ Job.domain = runner.domain /\ Exists(runner.domain)
          /\ runner.pc \in Recomputing => Job.action = Recompute
          /\ runner.pc \in Checking => Job.action = Check
      BY <2>6, <3>1, <3>2 DEF WorkInv, JobFits, TurnKept
    <3>4. Exists(runner.domain)'
      BY <2>1, <2>6, <3>2, <3>3 DEF Exists, TurnKept
    <3>. QED  BY <2>6, <3>2, <3>3, <3>4 DEF TurnKept
  <2>12. CompletedIsDone'
    <3>1. SUFFICES ASSUME In("complete")', Mine', runner'.scanned
                   PROVE  IF Job'.action = Recompute THEN domains'[runner'.domain].aligned
                          ELSE current'[runner'.domain] = runner'.found
      BY DEF CompletedIsDone
    <3>2. Mine /\ Job' = Job /\ runner.domain # d /\ runner.domain \in Domains
      BY <2>10, <3>1 DEF In, Working
    <3>3. IF Job.action = Recompute THEN domains[runner.domain].aligned
          ELSE current[runner.domain] = runner.found
      BY <2>6, <3>1, <3>2 DEF WorkInv, CompletedIsDone, TurnKept, In
    <3>. QED  BY <2>1, <2>6, <3>2, <3>3 DEF TurnKept
  <2>13. ScannedLast'
    BY <2>6 DEF WorkInv, ScannedLast, TurnKept, In
  <2>. QED  BY <2>8, <2>9, <2>11, <2>12, <2>13 DEF WorkInv
<1>. QED  BY <1>2, <1>3, <1>4


\* The steps before a job's work and after it
LEMMA WorkByTurn ==
    ASSUME TypesInv, WorkInv,
           \/ SelectDue \/ ScheduleCheck \/ ScheduleInsert \/ Claim \/ Complete \/ Audit \/ Fail
           \/ Raise \/ Interrupt \/ Restart
    PROVE  WorkInv'
<1>0. TablesOK /\ TurnOK /\ runner \in TurnState /\ (runner.scanned => runner.pc = "complete")
  BY DEF TypesInv, TurnOK, WorkInv, ScannedLast, In
<1>1. UNCHANGED <<current, history>>
  BY DEF SelectDue, ScheduleCheck, ScheduleInsert, Claim, Complete, Audit, Fail, Raise,
         Interrupt, Restart, database
<1>2. ASSUME NEW d \in Domains PROVE Exists(d)' <=> Exists(d)
  <2>1. CASE UNCHANGED domains
    BY <2>1 DEF Exists
  <2>2. CASE ScheduleInsert
    <3>1. PICK ds : domains' = Touched(domains, ds)
      BY <2>2 DEF ScheduleInsert
    <3>. QED  BY <1>0, <3>1, TouchedKept DEF DomainsKept
  <2>3. CASE Restart
    <3>1. domains[d] \in DomainRow
      BY <1>0 DEF TablesOK
    <3>2. PICK upgraded \in BOOLEAN :
             domains'[d] = [domains[d] EXCEPT !.aligned = @ /\ ~upgraded]
      BY <2>3 DEF Restart
    <3>3. domains'[d].status = domains[d].status
      BY <3>1, <3>2 DEF DomainRow
    <3>. QED  BY <3>3 DEF Exists
  <2>. QED  BY <2>1, <2>2, <2>3
            DEF SelectDue, ScheduleCheck, Claim, Complete, Audit, Fail, Raise, Interrupt, database
<1>3. runner'.pc \notin Working /\ ~runner'.scanned
  <2>1. CASE SelectDue
    BY <1>0, <2>1 DEF SelectDue, In, TurnState, Working, Recomputing, Checking
  <2>2. CASE runner' = Asleep \/ (\E pc \in {"claim", "audit"} : runner' = [Asleep EXCEPT !.pc = pc])
    BY <2>2 DEF Asleep, Working, Recomputing, Checking
  <2>3. CASE ScheduleCheck
    <3>1. CASE \E d, due : runner' = [runner EXCEPT !.pc = "schedule_insert", !.domain = d,
                                                   !.due = due]
      BY <1>0, <2>3, <3>1 DEF ScheduleCheck, In, TurnState, Working, Recomputing, Checking
    <3>. QED  BY <2>2, <2>3, <3>1 DEF ScheduleCheck
  <2>4. CASE Claim
    <3>1. CASE runner' = [runner EXCEPT !.pc = "process", !.job = 1]
      BY <1>0, <2>4, <3>1 DEF Claim, In, TurnState, Working, Recomputing, Checking
    <3>. QED  BY <2>2, <2>4, <3>1 DEF Claim, Work, Sleep
  <2>5. CASE Raise
    BY <2>5 DEF Raise, Step, Asleep, Working, Recomputing, Checking
  <2>. QED  BY <2>1, <2>2, <2>3, <2>4, <2>5
            DEF ScheduleInsert, Complete, Audit, Fail, Interrupt, Restart, Sleep
<1>. QED  BY <1>1, <1>2, <1>3, WorkIdle

\* The work on a job, its result aside
LEMMA WorkByJob ==
    ASSUME TypesInv, WorkInv,
           \/ Process \/ RecomputeReports \/ ReadCheck \/ Lookup \/ LookupFails \/ StoreFailure
    PROVE  WorkInv'
<1>0. TablesOK /\ QueueOK /\ TurnOK /\ JobOK /\ runner \in TurnState
      /\ (runner.scanned => runner.pc = "complete")
  BY DEF TypesInv, TurnOK, WorkInv, ScannedLast, In
<1>1. UNCHANGED <<current, history>>
  BY DEF Process, RecomputeReports, ReadCheck, Lookup, LookupFails, StoreFailure, database
<1>2. ASSUME NEW d \in Domains
      PROVE  /\ Exists(d)' <=> Exists(d)
             /\ domains[d].aligned => domains'[d].aligned
  <2>1. CASE UNCHANGED domains
    BY <2>1 DEF Exists
  <2>2. CASE RecomputeReports
    <3>1. domains[d] \in DomainRow /\ (runner.domain = d => domains[runner.domain] \in DomainRow)
      BY <1>0 DEF TablesOK
    <3>2. domains' = [domains EXCEPT ![runner.domain].aligned = @ \/ Exists(runner.domain)]
      BY <2>2 DEF RecomputeReports
    <3>3. domains'[d].status = domains[d].status /\ (domains[d].aligned => domains'[d].aligned)
      BY <1>0, <3>1, <3>2 DEF TablesOK, DomainRow
    <3>. QED  BY <3>3 DEF Exists
  <2>3. CASE StoreFailure
    <3>1. domains[d] \in DomainRow
      BY <1>0 DEF TablesOK
    <3>2. PICK interval \in CheckIntervals :
             domains' = IF Exists(runner.domain)
                        THEN [domains EXCEPT ![runner.domain].next_check = interval,
                                             ![runner.domain].failure_active = TRUE]
                        ELSE domains
      BY <2>3 DEF StoreFailure
    <3>3. domains'[d].status = domains[d].status /\ (domains[d].aligned => domains'[d].aligned)
      BY <1>0, <3>1, <3>2 DEF TablesOK, DomainRow
    <3>. QED  BY <3>3 DEF Exists
  <2>. QED  BY <2>1, <2>2, <2>3 DEF Process, ReadCheck, Lookup, LookupFails, database
<1>3. TimelineComplete'
  BY <1>1, <1>2 DEF WorkInv, TimelineComplete
<1>4. ASSUME ~runner'.scanned, runner'.pc \notin Working
      PROVE  WorkInv'
  BY <1>1, <1>2, <1>4, WorkIdle
<1>5. CASE Process
  <2>1. CASE Mine /\ Exists(Job.domain)
    <3>1. UNCHANGED queue /\ runner.pc = "process"
          /\ runner' = [runner EXCEPT !.domain = Job.domain,
                           !.pc = IF Job.action = Recompute THEN "recompute" ELSE "check"]
      BY <1>5, <2>1 DEF Process, In
    <3>2. runner.job \in DOMAIN queue /\ Job \in JobRow
      BY <1>0, <2>1 DEF Mine, Job, JobOK, QueueOK
    <3>3. /\ runner'.job = runner.job /\ runner'.domain = Job.domain /\ ~runner'.scanned
          /\ runner'.pc = IF Job.action = Recompute THEN "recompute" ELSE "check"
      BY <1>0, <3>1 DEF TurnState
    <3>4. Job' = Job /\ (Mine' <=> Mine) /\ Exists(Job.domain)'
      BY <1>2, <2>1, <3>1, <3>2, <3>3 DEF Job, Mine, JobRow
    <3>5. JobFits'
      BY <3>2, <3>3, <3>4 DEF JobFits, Job, JobRow, Recomputing, Checking
    <3>6. PreviousIsCurrent' /\ CompletedIsDone' /\ ScannedLast'
      BY <3>3 DEF PreviousIsCurrent, CompletedIsDone, ScannedLast, In
    <3>. QED  BY <1>3, <3>5, <3>6 DEF WorkInv
  <2>2. CASE ~(Mine /\ Exists(Job.domain))
    <3>1. runner' = Asleep
      BY <1>5, <2>2 DEF Process, Sleep
    <3>. QED  BY <1>4, <3>1 DEF Asleep, Working, Recomputing, Checking
  <2>. QED  BY <2>1, <2>2
<1>6. ASSUME UNCHANGED queue, runner'.job = runner.job, runner'.domain = runner.domain,
             runner.pc \in Working,
             runner'.pc \in Recomputing => runner.pc \in Recomputing,
             runner'.pc \in Checking => runner.pc \in Checking
      PROVE  JobFits' /\ Job' = Job /\ (Mine' <=> Mine)
  <2>1. Job' = Job /\ (Mine' <=> Mine)
    BY <1>6 DEF Job, Mine
  <2>2. Mine => Exists(runner.domain)'
    <3>1. Mine => Exists(runner.domain) /\ runner.domain \in Domains
      BY <1>0, <1>6 DEF WorkInv, JobFits, TurnOK
    <3>. QED  BY <1>2, <1>6, <3>1 DEF Exists
  <2>3. JobFits'
    BY <1>6, <2>1, <2>2 DEF WorkInv, JobFits
  <2>. QED  BY <2>1, <2>3
<1>7. CASE RecomputeReports
  <2>1. /\ runner.pc = "recompute" /\ UNCHANGED queue
        /\ runner' = [runner EXCEPT !.pc = "complete", !.scanned = TRUE]
        /\ domains' = [domains EXCEPT ![runner.domain].aligned = @ \/ Exists(runner.domain)]
    BY <1>7 DEF RecomputeReports, In
  <2>2. runner'.job = runner.job /\ runner'.domain = runner.domain /\ runner'.pc = "complete"
    BY <1>0, <2>1 DEF TurnState
  <2>3. JobFits' /\ Job' = Job /\ (Mine' <=> Mine)
    BY <1>6, <2>1, <2>2 DEF Working, Recomputing, Checking
  <2>4. Mine => Job.action = Recompute /\ Exists(runner.domain) /\ runner.domain \in Domains
    BY <1>0, <2>1 DEF WorkInv, JobFits, TurnOK, Working, Recomputing
  <2>5. CompletedIsDone'
    <3>1. Mine => domains[runner.domain] \in DomainRow
      BY <1>0, <2>4 DEF TablesOK
    <3>2. Mine => domains'[runner.domain].aligned
      BY <1>0, <2>1, <2>4, <3>1 DEF TablesOK, DomainRow
    <3>. QED  BY <2>2, <2>3, <2>4, <3>2 DEF CompletedIsDone
  <2>6. PreviousIsCurrent' /\ ScannedLast'
    BY <2>2 DEF PreviousIsCurrent, ScannedLast, In
  <2>. QED  BY <1>3, <2>3, <2>5, <2>6 DEF WorkInv
<1>8. CASE StoreFailure \/ LookupFails
  <2>1. PICK pc \in {"store_failure", "complete"} : Step(pc)
    BY <1>8 DEF StoreFailure, LookupFails
  <2>2. UNCHANGED queue /\ runner.pc \in Checking
    BY <1>8 DEF StoreFailure, LookupFails, In, Checking, database
  <2>3. /\ runner'.job = runner.job /\ runner'.domain = runner.domain
        /\ runner'.pc = pc /\ ~runner'.scanned
    BY <1>0, <2>1, <2>2, StepTypes DEF Working
  <2>4. JobFits'
    BY <1>6, <2>2, <2>3 DEF Working, Recomputing, Checking
  <2>5. PreviousIsCurrent' /\ CompletedIsDone' /\ ScannedLast'
    BY <2>3 DEF PreviousIsCurrent, CompletedIsDone, ScannedLast, In
  <2>. QED  BY <1>3, <2>4, <2>5 DEF WorkInv
<1>9. CASE ReadCheck
  <2>1. runner.pc = "check" /\ UNCHANGED queue /\ runner.domain \in Domains
    BY <1>0, <1>9 DEF ReadCheck, In, TurnOK, Working, Checking, database
  <2>2. \/ runner' = [runner EXCEPT !.pc = "fail"]
        \/ runner' = [runner EXCEPT !.pc = "complete"]
        \/ \E selectors : runner' = [runner EXCEPT !.pc = "lookup", !.selectors = selectors,
                                                   !.previous = current[runner.domain]]
    BY <1>9, Zenon DEF ReadCheck
  <2>3. /\ runner'.job = runner.job /\ runner'.domain = runner.domain /\ ~runner'.scanned
        /\ runner'.pc \in {"fail", "complete", "lookup"}
        /\ runner'.pc = "lookup" => runner'.previous = current[runner.domain]
    BY <1>0, <2>1, <2>2 DEF TurnState
  <2>4. JobFits'
    BY <1>6, <2>1, <2>3 DEF Working, Recomputing, Checking
  <2>5. PreviousIsCurrent' /\ CompletedIsDone' /\ ScannedLast'
    BY <1>1, <2>3 DEF PreviousIsCurrent, CompletedIsDone, ScannedLast, In
  <2>. QED  BY <1>3, <2>4, <2>5 DEF WorkInv
<1>10. CASE Lookup
  <2>1. /\ runner.pc = "lookup" /\ UNCHANGED queue /\ runner.domain \in Domains
        /\ \E found : runner' = [runner EXCEPT !.pc = "store", !.found = found]
    BY <1>0, <1>10 DEF Lookup, In, TurnOK, Working, Checking, database
  <2>2. /\ runner'.job = runner.job /\ runner'.domain = runner.domain /\ ~runner'.scanned
        /\ runner'.pc = "store" /\ runner'.previous = runner.previous
    BY <1>0, <2>1 DEF TurnState
  <2>3. JobFits'
    BY <1>6, <2>1, <2>2 DEF Working, Recomputing, Checking
  <2>4. PreviousIsCurrent'
    <3>1. Exists(runner.domain)' => Exists(runner.domain)
      BY <1>2, <2>1, <2>2 DEF Exists
    <3>. QED  BY <1>1, <2>1, <2>2, <3>1 DEF WorkInv, PreviousIsCurrent
  <2>5. CompletedIsDone' /\ ScannedLast'
    BY <2>2 DEF CompletedIsDone, ScannedLast, In
  <2>. QED  BY <1>3, <2>3, <2>4, <2>5 DEF WorkInv
<1>. QED  BY <1>5, <1>7, <1>8, <1>9, <1>10


\* The result of a check becomes the current state, and an entry if it differs.
LEMMA StoreEffect ==
    ASSUME TypesInv, Store, ~(Step("fail") /\ UNCHANGED <<domains, current, history>>)
    PROVE  /\ runner.pc = "store" /\ runner.domain \in Domains /\ runner.found \in Snapshot
           /\ current' = [current EXCEPT ![runner.domain] = runner.found]
           /\ history' = IF Changed
                THEN [history EXCEPT ![runner.domain] =
                        [previous |-> runner.previous, current |-> runner.found]]
                ELSE history
           /\ UNCHANGED queue /\ runner'.job = runner.job /\ runner'.domain = runner.domain
           /\ runner'.pc = "complete" /\ runner'.found = runner.found
           /\ \A d \in Domains : Exists(d)' <=> Exists(d)
<1>0. TablesOK /\ TurnOK /\ runner \in TurnState
  BY DEF TypesInv, TurnOK
<1>1. /\ runner.pc = "store"
      /\ current' = [current EXCEPT ![runner.domain] = runner.found]
      /\ history' = IF Changed
           THEN [history EXCEPT ![runner.domain] =
                   [previous |-> runner.previous, current |-> runner.found]]
           ELSE history
      /\ UNCHANGED queue
      /\ runner' = [runner EXCEPT !.pc = "complete", !.scanned = TRUE,
                                  !.previous = Null, !.selectors = Null]
  BY DEF Store, In
<1>2. runner.domain \in Domains /\ runner.found \in Snapshot
  BY <1>0, <1>1 DEF TurnOK, Working, Checking
<1>3. /\ runner'.job = runner.job /\ runner'.domain = runner.domain
      /\ runner'.pc = "complete" /\ runner'.found = runner.found
  BY <1>0, <1>1 DEF TurnState
<1>4. PICK interval \in CheckIntervals :
         domains' = IF Exists(runner.domain)
                    THEN [domains EXCEPT ![runner.domain].next_check = interval,
                                         ![runner.domain].failure_active = FALSE]
                    ELSE domains
  BY DEF Store
<1>5. ASSUME NEW d \in Domains PROVE Exists(d)' <=> Exists(d)
  <2>1. domains[d] \in DomainRow
    BY <1>0 DEF TablesOK
  <2>2. domains'[d].status = domains[d].status
    BY <1>0, <1>4, <2>1 DEF TablesOK, DomainRow
  <2>. QED  BY <2>2 DEF Exists
<1>6. \A d \in Domains : Exists(d)' <=> Exists(d)
  BY <1>5
<1>. QED  BY <1>1, <1>2, <1>3, <1>6

\* Storing a result: the current state and the entry that leads to it are written together.
LEMMA WorkByStore ==
    ASSUME TypesInv, WorkInv, Store
    PROVE  WorkInv'
<1>0. /\ TablesOK /\ TurnOK /\ runner \in TurnState /\ runner.pc = "store"
      /\ ~runner.scanned
  BY DEF TypesInv, TurnOK, WorkInv, ScannedLast, In, Store
<1>1. CASE Step("fail") /\ UNCHANGED <<domains, current, history>>
  <2>1. runner'.pc = "fail" /\ ~runner'.scanned
    BY <1>1 DEF Step, Asleep
  <2>2. \A d \in Domains : Exists(d)' <=> Exists(d)
    BY <1>1 DEF Exists
  <2>. QED  BY <1>1, <2>1, <2>2, WorkIdle DEF Working, Recomputing, Checking
<1>2. CASE ~(Step("fail") /\ UNCHANGED <<domains, current, history>>)
  <2>1. /\ runner.domain \in Domains /\ runner.found \in Snapshot
        /\ current' = [current EXCEPT ![runner.domain] = runner.found]
        /\ history' = IF Changed
             THEN [history EXCEPT ![runner.domain] =
                     [previous |-> runner.previous, current |-> runner.found]]
             ELSE history
        /\ UNCHANGED queue /\ runner'.job = runner.job /\ runner'.domain = runner.domain
        /\ runner'.pc = "complete" /\ runner'.found = runner.found
        /\ \A d \in Domains : Exists(d)' <=> Exists(d)
    BY <1>2, StoreEffect
  <2>2. ASSUME NEW d \in Domains, Exists(d)'
        PROVE  IF current'[d] = Null THEN history'[d] = Null
               ELSE history'[d] # Null /\ history'[d].current = current'[d]
    <3>1. /\ Exists(d)
          /\ IF current[d] = Null THEN history[d] = Null
             ELSE history[d] # Null /\ history[d].current = current[d]
      BY <2>1, <2>2 DEF WorkInv, TimelineComplete
    <3>2. CASE d # runner.domain
      BY <1>0, <2>1, <3>1, <3>2 DEF TablesOK
    <3>3. CASE d = runner.domain /\ Changed
      <4>1. current'[d] = runner.found /\ runner.found # Null
        BY <1>0, <2>1, <3>3, MaintenanceAssumption DEF TablesOK
      <4>2. history'[d] = [previous |-> runner.previous, current |-> runner.found]
        BY <1>0, <2>1, <3>3 DEF TablesOK
      <4>3. [previous |-> runner.previous, current |-> runner.found] \in Entry
        BY <1>0, <2>1 DEF TurnState, Entry
      <4>4. history'[d] # Null
        BY <4>2, <4>3, MaintenanceAssumption
      <4>. QED  BY <4>1, <4>2, <4>4
    <3>4. CASE d = runner.domain /\ ~Changed
      <4>1. current[d] = runner.found
        BY <1>0, <3>1, <3>4 DEF WorkInv, PreviousIsCurrent, Changed
      <4>2. current'[d] = current[d] /\ history' = history
        BY <1>0, <2>1, <3>4, <4>1 DEF TablesOK
      <4>. QED  BY <3>1, <4>2
    <3>. QED  BY <3>2, <3>3, <3>4
  <2>3. TimelineComplete'
    BY <2>2 DEF TimelineComplete
  <2>4. PreviousIsCurrent' /\ ScannedLast'
    BY <2>1 DEF PreviousIsCurrent, ScannedLast, In
  <2>5. Job' = Job /\ (Mine' <=> Mine)
    BY <2>1 DEF Job, Mine
  <2>6. Mine => /\ Job.domain = runner.domain /\ Exists(runner.domain) /\ Job.action = Check
    BY <1>0 DEF WorkInv, JobFits, Working, Checking
  <2>7. Mine => Exists(runner.domain)'
    BY <2>1, <2>6 DEF Exists
  <2>8. JobFits'
    BY <2>1, <2>5, <2>6, <2>7 DEF JobFits, Recomputing, Checking
  <2>9. current'[runner.domain] = runner.found
    BY <1>0, <2>1 DEF TablesOK
  <2>10. Check # Recompute
    BY DEF Check, Recompute
  <2>11. CompletedIsDone'
    BY <2>1, <2>5, <2>6, <2>9, <2>10 DEF CompletedIsDone
  <2>. QED  BY <2>3, <2>4, <2>8, <2>11 DEF WorkInv
<1>. QED  BY <1>1, <1>2

\* Nothing is under way at first.
LEMMA WorkInit == Init => WorkInv
BY DEF Init, WorkInv, TimelineComplete, PreviousIsCurrent, JobFits, CompletedIsDone, ScannedLast,
       In, Asleep, Working, Recomputing, Checking

\* Every step keeps what the runner relies on.
LEMMA WorkStep ==
    ASSUME TypesInv, WorkInv, [Next]_vars
    PROVE  WorkInv'
<1>1. CASE UNCHANGED vars
  BY <1>1 DEF vars, WorkInv, TimelineComplete, PreviousIsCurrent, JobFits, CompletedIsDone,
              ScannedLast, In, Mine, Job, Exists
<1>2. ASSUME NEW h \in Handlers, Call(h) PROVE WorkInv'
  BY <1>2, WorkByCall
<1>3. CASE (\E d \in Domains : Archive(d) \/ Restore(d) \/ Purge(d)) \/ Tick
  BY <1>3, WorkByDomain
<1>4. CASE Turn \/ LookupFails \/ Raise \/ Interrupt \/ Restart
  BY <1>4, WorkByTurn, WorkByJob, WorkByStore DEF Turn
<1>. QED  BY <1>1, <1>2, <1>3, <1>4 DEF Next

\* So it can rely on it throughout.
LEMMA WorkAlways == Spec => []WorkInv
<1>1. TypesInv /\ WorkInv /\ [Next]_vars => WorkInv'
  BY WorkStep
<1>. QED  BY TypesAlways, WorkInit, <1>1, PTL DEF Spec

\* However checks, failures, purges and restarts interleave, the newest entry of a domain's
\* timeline leads to its current state.
THEOREM TimelinesAreComplete == Spec => []TimelineComplete
<1>1. WorkInv => TimelineComplete
  BY DEF WorkInv
<1>. QED  BY <1>1, WorkAlways, PTL

\* A job about to be reported as completed has done its work, wherever inserts and purges
\* have moved its row and however often a crash made the runner claim it again.
THEOREM CompletedJobsAreDone == Spec => []CompletedIsDone
<1>1. WorkInv => CompletedIsDone
  BY DEF WorkInv
<1>. QED  BY <1>1, WorkAlways, PTL

\* A new entry starts where the domain's state was before: between the read that a check
\* starts from and its write, nothing else has changed that state.
THEOREM TimelinesAreConnected == Spec => TimelineConnected
<1>. DEFINE Connected ==
        \A d \in Domains : Exists(d) /\ history'[d] # history[d] /\ history'[d] # Null
                              => history'[d].previous = current[d]
<1>1. ASSUME TypesInv, WorkInv, Next PROVE Connected \/ UNCHANGED vars
  <2>1. CASE UNCHANGED history
    BY <2>1
  <2>2. ASSUME NEW e \in Domains, Purge(e) PROVE Connected
    BY <1>1, <2>2 DEF TypesInv, TablesOK, Purge
  <2>3. CASE Store
    <3>1. CASE Step("fail") /\ UNCHANGED <<domains, current, history>>
      BY <3>1
    <3>2. CASE ~(Step("fail") /\ UNCHANGED <<domains, current, history>>)
      <4>1. /\ runner.pc = "store" /\ runner.domain \in Domains
            /\ history' = IF Changed
                 THEN [history EXCEPT ![runner.domain] =
                         [previous |-> runner.previous, current |-> runner.found]]
                 ELSE history
        BY <1>1, <2>3, <3>2, StoreEffect
      <4>2. Exists(runner.domain) => runner.previous = current[runner.domain]
        BY <1>1, <4>1 DEF WorkInv, PreviousIsCurrent
      <4>. QED  BY <1>1, <4>1, <4>2 DEF TypesInv, TablesOK
    <3>. QED  BY <3>1, <3>2
  <2>4. UNCHANGED history \/ (\E e \in Domains : Purge(e)) \/ Store
    BY <1>1 DEF Next, Call, Begin, RecomputeCheck, RecomputeInsert, CheckRecent, CheckInFlight,
                CheckTouch, CheckInsert, InsertByCall, Settings, Archive, Restore, Turn,
                SelectDue, ScheduleCheck, ScheduleInsert, Claim, Process, RecomputeReports,
                ReadCheck, Lookup, LookupFails, StoreFailure, Complete, Audit, Fail, Raise,
                Interrupt, Restart, Tick, database
  <2>. QED  BY <2>1, <2>2, <2>3, <2>4
<1>2. TypesInv /\ WorkInv /\ [Next]_vars => [Connected]_vars
  BY <1>1
<1>. QED  BY <1>2, TypesAlways, WorkAlways, PTL DEF Spec, TimelineConnected


-----------------------------------------------------------------------------
(* Jobs in flight.                                                         *)

\* Jobs and threads can be counted.
LEMMA Counts ==
    ASSUME QueueOK, QueueOK', NEW d, NEW a, NEW op
    PROVE  /\ IsFiniteSet(JobsOf(d, a)) /\ IsFiniteSet(JobsOf(d, a)')
           /\ Cardinality(JobsOf(d, a)) \in Nat /\ Cardinality(JobsOf(d, a)') \in Nat
           /\ IsFiniteSet(Inserting(d, op)) /\ IsFiniteSet(Inserting(d, op)')
           /\ Cardinality(Inserting(d, op)) \in Nat /\ Cardinality(Inserting(d, op)') \in Nat
           /\ Cardinality(Inserting(d, op)) <= Cardinality(Handlers)
           /\ Cardinality(Inserting(d, op)') <= Cardinality(Handlers)
           /\ Cardinality(Handlers) \in Nat
<1>1. IsFiniteSet(1 .. Len(queue)) /\ IsFiniteSet(1 .. Len(queue'))
  <2>1. Len(queue) \in Nat /\ Len(queue') \in Nat
    BY DEF QueueOK
  <2>. QED  BY <2>1, FS_Interval
<1>2. JobsOf(d, a) \subseteq 1 .. Len(queue) /\ JobsOf(d, a)' \subseteq 1 .. Len(queue')
  BY DEF QueueOK, JobsOf
<1>3. IsFiniteSet(JobsOf(d, a)) /\ IsFiniteSet(JobsOf(d, a)')
  BY <1>1, <1>2, FS_Subset
<1>4. Inserting(d, op) \subseteq Handlers /\ Inserting(d, op)' \subseteq Handlers
  BY DEF Inserting
<1>5. IsFiniteSet(Handlers)
  BY MaintenanceAssumption
<1>6. /\ IsFiniteSet(Inserting(d, op)) /\ IsFiniteSet(Inserting(d, op)')
      /\ Cardinality(Inserting(d, op)) <= Cardinality(Handlers)
      /\ Cardinality(Inserting(d, op)') <= Cardinality(Handlers)
  BY <1>4, <1>5, FS_Subset
<1>. QED  BY <1>3, <1>5, <1>6, FS_CardinalityType

\* Rows that stay are no more jobs than before.
LEMMA FewerJobs ==
    ASSUME QueueOK, QueueOK', NEW g, NEW d, NEW a,
           \A i \in DOMAIN queue' : /\ g[i] \in DOMAIN queue
                                    /\ queue'[i].domain = queue[g[i]].domain
                                    /\ queue'[i].action = queue[g[i]].action,
           \A i, j \in DOMAIN queue' : g[i] = g[j] => i = j
    PROVE  Cardinality(JobsOf(d, a)') <= Cardinality(JobsOf(d, a))
<1>. DEFINE before == JobsOf(d, a)
            after == JobsOf(d, a)'
<1>1. IsFiniteSet(before) /\ IsFiniteSet({}) /\ Cardinality({}) = 0
  BY Counts, FS_EmptySet
<1>2. /\ \A i \in after \ {} : g[i] \in before
      /\ \A i, j \in after \ {} : g[i] = g[j] => i = j
  BY DEF JobsOf
<1>. HIDE DEF before, after
<1>3. /\ Cardinality(before) \in Nat
      /\ Cardinality(after) <= Cardinality(before) + Cardinality({})
  BY <1>1, <1>2, MappedSet
<1>4. Cardinality(after) <= Cardinality(before)
  <2>1. PICK m \in Nat : m = Cardinality(before)
    BY <1>3
  <2>. QED  BY <1>1, <1>3, <2>1
<1>. QED  BY <1>4 DEF before, after

\* Nothing has been added that counts.
LEMMA RecomputesKept ==
    ASSUME QueueOK, QueueOK', NEW d \in Domains, RecomputesBounded(d),
           Cardinality(JobsOf(d, Recompute)') <= Cardinality(JobsOf(d, Recompute)),
           Inserting(d, "recompute_insert")' \subseteq Inserting(d, "recompute_insert")
    PROVE  RecomputesBounded(d)'
<1>1. Cardinality(Inserting(d, "recompute_insert")')
         <= Cardinality(Inserting(d, "recompute_insert"))
  BY Counts, FS_Subset
<1>2. /\ Cardinality(JobsOf(d, Recompute)) \in Nat /\ Cardinality(JobsOf(d, Recompute)') \in Nat
      /\ Cardinality(Inserting(d, "recompute_insert")) \in Nat
      /\ Cardinality(Inserting(d, "recompute_insert")') \in Nat /\ Cardinality(Handlers) \in Nat
  BY Counts
<1>. QED  BY <1>1, <1>2 DEF RecomputesBounded

\* The same for checks, which the scheduler inserts too.
LEMMA ChecksKept ==
    ASSUME QueueOK, QueueOK', NEW d \in Domains, ChecksBounded(d),
           Cardinality(JobsOf(d, Check)') <= Cardinality(JobsOf(d, Check)),
           Inserting(d, "check_insert")' \subseteq Inserting(d, "check_insert"),
           Scheduling(d)' <= Scheduling(d)
    PROVE  ChecksBounded(d)'
<1>1. Cardinality(Inserting(d, "check_insert")') <= Cardinality(Inserting(d, "check_insert"))
  BY Counts, FS_Subset
<1>2. /\ Cardinality(JobsOf(d, Check)) \in Nat /\ Cardinality(JobsOf(d, Check)') \in Nat
      /\ Cardinality(Inserting(d, "check_insert")) \in Nat
      /\ Cardinality(Inserting(d, "check_insert")') \in Nat /\ Cardinality(Handlers) \in Nat
  BY Counts
<1>3. Scheduling(d) \in {0, 1} /\ Scheduling(d)' \in {0, 1}
  BY DEF Scheduling
<1>. QED  BY <1>1, <1>2, <1>3 DEF ChecksBounded

\* Steps that add neither jobs nor inserts under way keep all bounds.
LEMMA InsertsKept ==
    ASSUME QueueOK, QueueOK', InsertsBounded,
           \A d \in Domains, a \in {Recompute, Check} :
              Cardinality(JobsOf(d, a)') <= Cardinality(JobsOf(d, a)),
           \A d \in Domains, op \in {"recompute_insert", "check_insert"} :
              Inserting(d, op)' \subseteq Inserting(d, op),
           \A d \in Domains : Scheduling(d)' <= Scheduling(d)
    PROVE  InsertsBounded'
<1>1. ASSUME NEW d \in Domains PROVE RecomputesBounded(d)' /\ ChecksBounded(d)'
  BY RecomputesKept, ChecksKept DEF InsertsBounded
<1>. QED  BY <1>1 DEF InsertsBounded


\* A call that goes to another step, or acts on another domain, does not count.
LEMMA GotoInserts ==
    ASSUME CallsOK, NEW h \in Handlers, NEW op, Goto(h, op), NEW d,
           NEW kind \in {"recompute_insert", "check_insert"},
           kind # op \/ handler[h].domain # d
    PROVE  Inserting(d, kind)' \subseteq Inserting(d, kind)
<1>. SUFFICES ASSUME NEW g \in Handlers, handler'[g].op = kind, handler'[g].domain = d
              PROVE  handler[g].op = kind /\ handler[g].domain = d
  BY DEF Inserting
<1>1. CASE g # h
  BY <1>1 DEF Goto, CallsOK
<1>2. CASE g = h /\ op = "idle"
  BY <1>2 DEF Goto, CallsOK, Idle
<1>3. CASE g = h /\ op # "idle"
  <2>1. handler[h] \in CallState /\ handler' = [handler EXCEPT ![h] = [handler[h] EXCEPT !.op = op]]
    BY <1>3 DEF Goto, CallsOK
  <2>2. handler'[h].op = op /\ handler'[h].domain = handler[h].domain
    BY <2>1 DEF CallsOK, CallState
  <2>. QED  BY <1>3, <2>2
<1>. QED  BY <1>1, <1>2, <1>3

\* A step that leaves the queue alone
LEMMA SameJobs ==
    ASSUME QueueOK, UNCHANGED queue, NEW d, NEW a
    PROVE  JobsOf(d, a)' = JobsOf(d, a) /\ Cardinality(JobsOf(d, a)') <= Cardinality(JobsOf(d, a))
<1>1. QueueOK' /\ JobsOf(d, a)' = JobsOf(d, a)
  BY DEF QueueOK, JobsOf
<1>2. Cardinality(JobsOf(d, a)) \in Nat
  BY <1>1, Counts
<1>. QED  BY <1>1, <1>2

\* A call passes its check only when there is no job.
LEMMA InsertsByCheck ==
    ASSUME TypesInv, InsertsBounded, NEW h \in Handlers, RecomputeCheck(h) \/ CheckInFlight(h)
    PROVE  InsertsBounded'
<1>0. QueueOK /\ CallsOK /\ UNCHANGED <<queue, runner>> /\ QueueOK'
  BY DEF TypesInv, RecomputeCheck, CheckInFlight, database, QueueOK
<1>1. PICK d \in Domains : d = handler[h].domain
  BY <1>0 DEF CallsOK, RecomputeCheck, CheckInFlight, At
<1>2. \A e : Scheduling(e)' = Scheduling(e) /\ Scheduling(e) \in {0, 1}
  BY <1>0 DEF Scheduling, In
<1>3. ASSUME NEW e \in Domains PROVE RecomputesBounded(e)'
  <2>1. PICK op : Goto(h, op) /\ (op = "recompute_insert" => JobsOf(d, Recompute) = {})
    <3>1. CASE RecomputeCheck(h)
      BY <1>1, <3>1 DEF RecomputeCheck
    <3>2. CASE CheckInFlight(h)
      BY <1>1, <3>2 DEF CheckInFlight
    <3>. QED  BY <3>1, <3>2
  <2>2. CASE op # "recompute_insert" \/ e # d
    <3>1. Inserting(e, "recompute_insert")' \subseteq Inserting(e, "recompute_insert")
      BY <1>0, <1>1, <2>1, <2>2, GotoInserts
    <3>. QED  BY <1>0, <3>1, SameJobs, RecomputesKept DEF InsertsBounded
  <2>3. CASE op = "recompute_insert" /\ e = d
    <3>1. Cardinality(JobsOf(e, Recompute)') = 0
      BY <1>0, <2>1, <2>3, SameJobs, FS_EmptySet
    <3>2. /\ Cardinality(Inserting(e, "recompute_insert")') <= Cardinality(Handlers)
          /\ Cardinality(Inserting(e, "recompute_insert")') \in Nat
      BY <1>0, Counts
    <3>. QED  BY <3>1, <3>2 DEF RecomputesBounded
  <2>. QED  BY <2>2, <2>3
<1>4. ASSUME NEW e \in Domains PROVE ChecksBounded(e)'
  <2>1. PICK op : Goto(h, op) /\ (op = "check_insert" => JobsOf(d, Check) = {})
    <3>1. CASE RecomputeCheck(h)
      BY <1>1, <3>1 DEF RecomputeCheck
    <3>2. CASE CheckInFlight(h)
      BY <1>1, <3>2 DEF CheckInFlight
    <3>. QED  BY <3>1, <3>2
  <2>2. CASE op # "check_insert" \/ e # d
    <3>1. Inserting(e, "check_insert")' \subseteq Inserting(e, "check_insert")
      BY <1>0, <1>1, <2>1, <2>2, GotoInserts
    <3>2. Scheduling(e)' <= Scheduling(e)
      BY <1>2
    <3>. QED  BY <1>0, <3>1, <3>2, SameJobs, ChecksKept DEF InsertsBounded
  <2>3. CASE op = "check_insert" /\ e = d
    <3>1. Cardinality(JobsOf(e, Check)') = 0
      BY <1>0, <2>1, <2>3, SameJobs, FS_EmptySet
    <3>2. /\ Cardinality(Inserting(e, "check_insert")') <= Cardinality(Handlers)
          /\ Cardinality(Inserting(e, "check_insert")') \in Nat /\ Cardinality(Handlers) \in Nat
      BY <1>0, Counts
    <3>3. Scheduling(e)' \in {0, 1}
      BY <1>2
    <3>. QED  BY <3>1, <3>2, <3>3 DEF ChecksBounded
  <2>. QED  BY <2>2, <2>3
<1>. QED  BY <1>3, <1>4 DEF InsertsBounded

\* A call that inserts a job is one thread less that is about to.
LEMMA InsertsByCall ==
    ASSUME TypesInv, InsertsBounded, NEW h \in Handlers,
           RecomputeInsert(h) \/ CheckInsert(h)
    PROVE  InsertsBounded'
<1>0. QueueOK /\ CallsOK /\ TurnOK
  BY DEF TypesInv
<1>1. PICK d \in Domains : d = handler[h].domain
  BY <1>0 DEF CallsOK, RecomputeInsert, CheckInsert, At
<1>2. PICK action \in {Recompute, Check}, kind \in {"recompute_insert", "check_insert"} :
         /\ InsertByCall(h, action) /\ handler[h].op = kind
         /\ (action = Recompute <=> kind = "recompute_insert")
  <2>1. Recompute # Check
    BY DEF Recompute, Check
  <2>2. \/ InsertByCall(h, Recompute) /\ handler[h].op = "recompute_insert"
        \/ InsertByCall(h, Check) /\ handler[h].op = "check_insert"
    BY DEF RecomputeInsert, CheckInsert, At
  <2>. QED  BY <2>1, <2>2
<1>3. /\ QueueOK'
      /\ \E p \in 1 .. Len(queue) + 1 : Insert(action, <<d>>, p)
      /\ \E j \in Nat, n \in Nat : runner' = [runner EXCEPT !.job = j, !.newer = n]
  BY <1>1, <1>2, InsertByCallTypes DEF At
<1>4. ASSUME NEW e, NEW a
      PROVE  /\ Cardinality(JobsOf(e, a)') <= Cardinality(JobsOf(e, a)) + 1
             /\ a # action \/ e # d => Cardinality(JobsOf(e, a)') <= Cardinality(JobsOf(e, a))
  <2>1. /\ <<d>> \in Seq(Domains) /\ <<d>> # <<>> /\ DOMAIN <<d>> = {1} /\ <<d>>[1] = d
    OBVIOUS
  <2>2. PICK p \in 1 .. Len(queue) + 1 : Insert(action, <<d>>, p)
    BY <1>3
  <2>3. /\ \A i, j \in DOMAIN <<d>> : <<d>>[i] = <<d>>[j] => i = j
        /\ (e # d => \A i \in DOMAIN <<d>> : <<d>>[i] # e)
    BY <2>1
  <2>4. PICK ds \in Seq(Domains) : ds = <<d>>
    BY <2>1
  <2>. QED  BY <1>0, <2>1, <2>2, <2>3, <2>4, InsertedJobs
<1>5. ASSUME NEW e, NEW k
      PROVE  Inserting(e, k)' \subseteq Inserting(e, k) \ {h} \/ k = "idle"
  <2>1. handler' = Overtake(h, 1)
    BY <1>2 DEF InsertByCall
  <2>2. \A g \in Handlers : handler'[g] = Idle \/ /\ g # h
                                                  /\ handler'[g].op = handler[g].op
                                                  /\ handler'[g].domain = handler[g].domain
    BY <1>0, <2>1, OvertakeTypes
  <2>. QED  BY <2>2 DEF Inserting, Idle
<1>6. \A e : Scheduling(e)' = Scheduling(e) /\ Scheduling(e) \in {0, 1}
  BY <1>0, <1>3 DEF Scheduling, In, TurnOK, TurnState
<1>7. ASSUME NEW e, NEW k \in {"recompute_insert", "check_insert"}
      PROVE  /\ Inserting(e, k)' \subseteq Inserting(e, k)
             /\ k = kind /\ e = d =>
                   Cardinality(Inserting(e, k)') <= Cardinality(Inserting(e, k)) - 1
  <2>1. Inserting(e, k)' \subseteq Inserting(e, k) \ {h}
    BY <1>5
  <2>2. ASSUME k = kind, e = d
        PROVE  Cardinality(Inserting(e, k)') <= Cardinality(Inserting(e, k)) - 1
    <3>1. h \in Inserting(e, k) /\ IsFiniteSet(Inserting(e, k))
      <4>1. h \in Inserting(e, k)
        BY <1>1, <1>2, <2>2 DEF Inserting
      <4>2. IsFiniteSet(Inserting(e, k))
        BY <1>0, <1>3, Counts
      <4>. QED  BY <4>1, <4>2
    <3>2. /\ IsFiniteSet(Inserting(e, k) \ {h})
          /\ Cardinality(Inserting(e, k) \ {h}) = Cardinality(Inserting(e, k)) - 1
      BY <3>1, FS_RemoveElement
    <3>3. Cardinality(Inserting(e, k)') <= Cardinality(Inserting(e, k) \ {h})
      BY <2>1, <3>2, FS_Subset
    <3>. QED  BY <3>2, <3>3
  <2>. QED  BY <2>1, <2>2
<1>8. Recompute # Check
  BY DEF Recompute, Check
<1>9. ASSUME NEW e \in Domains PROVE RecomputesBounded(e)'
  <2>1. CASE action # Recompute \/ e # d
    BY <1>0, <1>3, <1>4, <1>7, <2>1, RecomputesKept DEF InsertsBounded
  <2>2. CASE action = Recompute /\ e = d
    <3>1. /\ Cardinality(JobsOf(e, Recompute)') <= Cardinality(JobsOf(e, Recompute)) + 1
          /\ Cardinality(Inserting(e, "recompute_insert")')
                <= Cardinality(Inserting(e, "recompute_insert")) - 1
      BY <1>2, <1>4, <1>7, <2>2
    <3>2. /\ Cardinality(JobsOf(e, Recompute)) \in Nat
          /\ Cardinality(JobsOf(e, Recompute)') \in Nat
          /\ Cardinality(Inserting(e, "recompute_insert")) \in Nat
          /\ Cardinality(Inserting(e, "recompute_insert")') \in Nat
          /\ Cardinality(Handlers) \in Nat
      BY <1>0, <1>3, Counts
    <3>. QED  BY <3>1, <3>2 DEF RecomputesBounded, InsertsBounded
  <2>. QED  BY <2>1, <2>2
<1>10. ASSUME NEW e \in Domains PROVE ChecksBounded(e)'
  <2>0. Scheduling(e)' <= Scheduling(e) /\ Scheduling(e)' = Scheduling(e) /\ Scheduling(e) \in {0, 1}
    BY <1>6
  <2>1. CASE action # Check \/ e # d
    BY <1>0, <1>3, <1>4, <1>7, <2>0, <2>1, ChecksKept DEF InsertsBounded
  <2>2. CASE action = Check /\ e = d
    <3>1. /\ Cardinality(JobsOf(e, Check)') <= Cardinality(JobsOf(e, Check)) + 1
          /\ Cardinality(Inserting(e, "check_insert")')
                <= Cardinality(Inserting(e, "check_insert")) - 1
      BY <1>2, <1>4, <1>7, <1>8, <2>2
    <3>2. /\ Cardinality(JobsOf(e, Check)) \in Nat
          /\ Cardinality(JobsOf(e, Check)') \in Nat
          /\ Cardinality(Inserting(e, "check_insert")) \in Nat
          /\ Cardinality(Inserting(e, "check_insert")') \in Nat
          /\ Cardinality(Handlers) \in Nat
      BY <1>0, <1>3, Counts
    <3>. QED  BY <2>0, <3>1, <3>2 DEF ChecksBounded, InsertsBounded
  <2>. QED  BY <2>1, <2>2
<1>. QED  BY <1>9, <1>10 DEF InsertsBounded


\* The scheduler: it inserts a check for each domain that has none in flight.
LEMMA InsertsByScheduler ==
    ASSUME TypesInv, InsertsBounded, ScheduleCheck \/ ScheduleInsert
    PROVE  InsertsBounded'
<1>0. QueueOK /\ CallsOK /\ TurnOK /\ QueueOK' /\ runner \in TurnState
  <2>1. TypesInv'
    BY ScheduleTypes
  <2>. QED  BY <2>1 DEF TypesInv, TurnOK
<1>1. CASE ScheduleCheck
  <2>1. UNCHANGED queue /\ UNCHANGED handler
    BY <1>1 DEF ScheduleCheck, database
  <2>2. \A e, k : Inserting(e, k)' = Inserting(e, k)
    BY <2>1 DEF Inserting
  <2>3. ASSUME NEW e \in Domains PROVE RecomputesBounded(e)'
    BY <1>0, <2>1, <2>2, SameJobs, RecomputesKept DEF InsertsBounded
  <2>4. ASSUME NEW e \in Domains PROVE ChecksBounded(e)'
    <3>1. CASE Scheduling(e)' = 0
      <4>1. Scheduling(e)' <= Scheduling(e)
        BY <3>1 DEF Scheduling
      <4>. QED  BY <1>0, <2>1, <2>2, <4>1, SameJobs, ChecksKept DEF InsertsBounded
    <3>2. CASE Scheduling(e)' # 0
      <4>1. runner'.pc = "schedule_insert" /\ runner'.domain = e /\ Scheduling(e)' = 1
        BY <3>2 DEF Scheduling, In
      <4>2. JobsOf(e, Check) = {}
        BY <1>0, <1>1, <4>1 DEF ScheduleCheck, Asleep, TurnState
      <4>3. Cardinality(JobsOf(e, Check)') = 0
        BY <1>0, <2>1, <4>2, SameJobs, FS_EmptySet
      <4>4. /\ Cardinality(Inserting(e, "check_insert")') <= Cardinality(Handlers)
            /\ Cardinality(Inserting(e, "check_insert")') \in Nat /\ Cardinality(Handlers) \in Nat
        BY <1>0, Counts
      <4>. QED  BY <4>1, <4>3, <4>4 DEF ChecksBounded
    <3>. QED  BY <3>1, <3>2
  <2>. QED  BY <2>3, <2>4 DEF InsertsBounded
<1>2. CASE ScheduleInsert
  <2>. DEFINE others == {d \in runner.due : JobsOf(d, Check) = {}}
  <2>1. /\ runner.domain \in Domains /\ runner.domain \notin runner.due
        /\ runner.due \in SUBSET Domains /\ runner.newer \in Nat
        /\ runner.pc = "schedule_insert"
    BY <1>0, <1>2 DEF ScheduleInsert, In, TurnOK, TurnState
  <2>2. PICK d \in Domains, rest \in SUBSET Domains : d = runner.domain /\ rest = others
    BY <2>1
  <2>3. d \notin rest /\ \A e \in rest : JobsOf(e, Check) = {}
    BY <2>1, <2>2
  <2>4. PICK ds : ds = <<d>> \o SetToSeq(rest)
    OBVIOUS
  <2>5. /\ \E position \in Positions(runner.newer) : Insert(Check, ds, position)
        /\ handler' = Overtake(Null, Len(ds))
        /\ runner' = [Asleep EXCEPT !.pc = "claim"]
    BY <1>2, <2>2, <2>4 DEF ScheduleInsert
  <2>. HIDE DEF others
  <2>6. /\ ds \in Seq(Domains) /\ ds # <<>> /\ Len(ds) \in Nat
        /\ \A i \in DOMAIN ds : ds[i] \in {d} \union rest
        /\ \A i, j \in DOMAIN ds : ds[i] = ds[j] => i = j
    BY <2>3, <2>4, ScheduledRows
  <2>7. PICK p \in 1 .. Len(queue) + 1 : Insert(Check, ds, p)
    BY <1>0, <2>1, <2>5, PositionsInQueue
  <2>8. ASSUME NEW e, NEW a
        PROVE  /\ Cardinality(JobsOf(e, a)') <= Cardinality(JobsOf(e, a)) + 1
               /\ a # Check \/ e \notin {d} \union rest =>
                     Cardinality(JobsOf(e, a)') <= Cardinality(JobsOf(e, a))
    <3>1. e \notin {d} \union rest => \A i \in DOMAIN ds : ds[i] # e
      BY <2>6
    <3>. QED  BY <1>0, <2>6, <2>7, <3>1, InsertedJobs
  <2>9. ASSUME NEW e, NEW k \in {"recompute_insert", "check_insert"}
        PROVE  Inserting(e, k)' \subseteq Inserting(e, k)
    <3>1. \A g \in Handlers : handler'[g] = Idle \/ /\ handler'[g].op = handler[g].op
                                                    /\ handler'[g].domain = handler[g].domain
      BY <1>0, <2>5, <2>6, OvertakeTypes
    <3>. QED  BY <3>1 DEF Inserting, Idle
  <2>10. \A e : Scheduling(e)' = 0
    BY <2>5 DEF Scheduling, In, Asleep
  <2>11. Recompute # Check
    BY DEF Recompute, Check
  <2>12. ASSUME NEW e \in Domains PROVE RecomputesBounded(e)'
    BY <1>0, <2>8, <2>9, <2>11, RecomputesKept DEF InsertsBounded
  <2>13. ASSUME NEW e \in Domains PROVE ChecksBounded(e)'
    <3>1. /\ Cardinality(JobsOf(e, Check)) \in Nat
          /\ Cardinality(JobsOf(e, Check)') \in Nat
          /\ Cardinality(Inserting(e, "check_insert")) \in Nat
          /\ Cardinality(Inserting(e, "check_insert")') \in Nat
          /\ Cardinality(Inserting(e, "check_insert")) <= Cardinality(Handlers)
          /\ Cardinality(Inserting(e, "check_insert")') <= Cardinality(Handlers)
          /\ Cardinality(Handlers) \in Nat
      BY <1>0, Counts
    <3>2. CASE e \notin {d} \union rest
      <4>1. Scheduling(e)' <= Scheduling(e)
        BY <2>10 DEF Scheduling
      <4>. QED  BY <1>0, <2>8, <2>9, <3>2, <4>1, ChecksKept DEF InsertsBounded
    <3>3. CASE e = d
      <4>1. Scheduling(e) = 1
        BY <2>1, <2>2, <3>3 DEF Scheduling, In
      <4>2. Cardinality(Inserting(e, "check_insert")') <= Cardinality(Inserting(e, "check_insert"))
        <5>1. IsFiniteSet(Inserting(e, "check_insert"))
          BY <1>0, Counts
        <5>. QED  BY <2>9, <5>1, FS_Subset
      <4>3. Cardinality(JobsOf(e, Check)') <= Cardinality(JobsOf(e, Check)) + 1
        BY <2>8
      <4>. QED  BY <2>10, <3>1, <4>1, <4>2, <4>3 DEF ChecksBounded, InsertsBounded
    <3>4. CASE e \in rest
      <4>1. Cardinality(JobsOf(e, Check)) = 0
        BY <2>3, <3>4, FS_EmptySet
      <4>2. Cardinality(JobsOf(e, Check)') <= 1
        BY <2>8, <4>1
      <4>. QED  BY <2>10, <3>1, <4>2 DEF ChecksBounded
    <3>. QED  BY <3>2, <3>3, <3>4
  <2>. QED  BY <2>12, <2>13 DEF InsertsBounded
<1>. QED  BY <1>1, <1>2


\* The other steps of the threads: no job comes, and no thread is about to insert one.
LEMMA InsertsByOthers ==
    ASSUME TypesInv, InsertsBounded, QueueOK', UNCHANGED queue,
           \A d \in Domains, op \in {"recompute_insert", "check_insert"} :
              Inserting(d, op)' \subseteq Inserting(d, op),
           UNCHANGED runner \/ runner'.pc # "schedule_insert"
    PROVE  InsertsBounded'
<1>0. QueueOK
  BY DEF TypesInv
<1>1. \A d \in Domains : Scheduling(d)' <= Scheduling(d)
  BY DEF Scheduling, In
<1>2. \A d \in Domains, a \in {Recompute, Check} :
         Cardinality(JobsOf(d, a)') <= Cardinality(JobsOf(d, a))
  BY <1>0, SameJobs
<1>. QED  BY <1>0, <1>1, <1>2, InsertsKept

\* The steps that remove rows, or change their state
LEMMA InsertsByRemoval ==
    ASSUME TypesInv, InsertsBounded,
           (\E d \in Domains : Purge(d)) \/ Claim \/ Process \/ Complete \/ Fail
    PROVE  InsertsBounded'
<1>0. QueueOK /\ TurnOK /\ JobOK /\ QueueOK'
  <2>1. TypesInv'
    BY DomainTypes, ClaimTypes
  <2>. QED  BY <2>1 DEF TypesInv
<1>1. \A d \in Domains, op \in {"recompute_insert", "check_insert"} :
         Inserting(d, op)' \subseteq Inserting(d, op)
  <2>1. UNCHANGED handler
    BY DEF Purge, Claim, Process, Complete, Fail
  <2>. QED  BY <2>1 DEF Inserting
<1>2. \A d \in Domains : Scheduling(d)' <= Scheduling(d)
  <2>1. ASSUME NEW d \in Domains, Purge(d)
        PROVE  runner'.pc = runner.pc /\ runner'.domain = runner.domain
    <3>1. PICK j \in Nat : runner' = [runner EXCEPT !.job = j]
      BY <1>0, <2>1, PurgeKeepsRows
    <3>. QED  BY <1>0, <3>1 DEF TurnOK, TurnState
  <2>2. CASE Claim \/ Process \/ Complete \/ Fail
    <3>1. Asleep.pc = "schedule" /\ [Asleep EXCEPT !.pc = "audit"].pc = "audit"
      BY DEF Asleep
    <3>2. CASE Claim
      <4>1. runner' = Asleep \/ runner' = [runner EXCEPT !.pc = "process", !.job = 1]
        BY <3>2 DEF Claim, Work, Sleep
      <4>2. runner'.pc \in {"schedule", "process"}
        BY <1>0, <3>1, <4>1 DEF TurnOK, TurnState
      <4>. QED  BY <4>2 DEF Scheduling, In
    <3>3. CASE Process
      <4>1. \/ runner' = Asleep
            \/ runner' = [runner EXCEPT !.domain = Job.domain,
                             !.pc = IF Job.action = Recompute THEN "recompute" ELSE "check"]
        BY <3>3, Zenon DEF Process, Sleep
      <4>2. runner'.pc \in {"schedule", "recompute", "check"}
        BY <1>0, <3>1, <4>1 DEF TurnOK, TurnState
      <4>. QED  BY <4>2 DEF Scheduling, In
    <3>4. CASE Complete \/ Fail
      <4>1. runner' = Asleep \/ runner' = [Asleep EXCEPT !.pc = "audit"]
        BY <3>4 DEF Complete, Fail, Sleep
      <4>2. runner'.pc \in {"schedule", "audit"}
        BY <3>1, <4>1
      <4>. QED  BY <4>2 DEF Scheduling, In
    <3>. QED  BY <2>2, <3>2, <3>3, <3>4
  <2>. QED  BY <2>1, <2>2 DEF Scheduling, In
<1>3. ASSUME NEW d \in Domains, NEW a \in {Recompute, Check}
      PROVE  Cardinality(JobsOf(d, a)') <= Cardinality(JobsOf(d, a))
  <2>1. CASE UNCHANGED queue
    BY <1>0, <2>1, SameJobs
  <2>2. ASSUME NEW e \in Domains, Purge(e)
        PROVE  Cardinality(JobsOf(d, a)') <= Cardinality(JobsOf(d, a))
    <3>1. PICK rows \in [DOMAIN queue' -> DOMAIN queue] :
             /\ \A i \in DOMAIN queue' : queue'[i] = queue[rows[i]]
             /\ \A i, j \in DOMAIN queue' : rows[i] = rows[j] => i = j
      BY <1>0, <2>2, PurgeKeepsRows
    <3>. QED  BY <1>0, <3>1, FewerJobs
  <2>3. CASE End
    <3>. DEFINE g == [i \in DOMAIN queue' |-> IF Mine THEN Moved(i, runner.job) ELSE i]
    <3>1. \A i \in DOMAIN queue' : g[i] \in DOMAIN queue /\ queue'[i] = queue[g[i]]
      BY <1>0, <2>3, EndTypes
    <3>2. runner.job \in Int /\ DOMAIN queue' \subseteq Int
      BY <1>0 DEF TurnOK, TurnState, QueueOK
    <3>3. \A i, j \in DOMAIN queue' : g[i] = g[j] => i = j
      BY <3>2 DEF Moved
    <3>. HIDE DEF g
    <3>. QED  BY <1>0, <3>1, <3>3, FewerJobs
  <2>4. CASE queue # <<>> /\ Work(1, "processing")
    <3>. DEFINE g == [i \in DOMAIN queue |-> i]
    <3>1. DOMAIN queue' = DOMAIN queue
          /\ \A i \in DOMAIN queue : /\ queue'[i].domain = queue[i].domain
                                     /\ queue'[i].action = queue[i].action
      BY <1>0, <2>4, WorkTypes
    <3>2. /\ \A i \in DOMAIN queue' : /\ g[i] \in DOMAIN queue
                                      /\ queue'[i].domain = queue[g[i]].domain
                                      /\ queue'[i].action = queue[g[i]].action
          /\ \A i, j \in DOMAIN queue' : g[i] = g[j] => i = j
      BY <3>1
    <3>. HIDE DEF g
    <3>. QED  BY <1>0, <3>2, FewerJobs
  <2>5. \/ UNCHANGED queue \/ End \/ (queue # <<>> /\ Work(1, "processing"))
        \/ \E e \in Domains : Purge(e)
    BY DEF Claim, Process, Complete, Fail
  <2>. QED  BY <2>1, <2>2, <2>3, <2>4, <2>5
<1>. QED  BY <1>0, <1>1, <1>2, <1>3, InsertsKept

\* No job is in flight at first.
LEMMA InsertsInit == Init => InsertsBounded
<1>. SUFFICES ASSUME Init, NEW d \in Domains PROVE RecomputesBounded(d) /\ ChecksBounded(d)
  BY DEF InsertsBounded
<1>1. JobsOf(d, Recompute) = {} /\ JobsOf(d, Check) = {}
  BY DEF Init, JobsOf
<1>2. Inserting(d, "recompute_insert") = {} /\ Inserting(d, "check_insert") = {}
  BY DEF Init, Inserting, Idle
<1>3. Scheduling(d) = 0
  BY DEF Init, Scheduling, In, Asleep
<1>4. Cardinality(Handlers) \in Nat
  BY MaintenanceAssumption, FS_CardinalityType
<1>5. /\ Cardinality(JobsOf(d, Recompute)) = 0 /\ Cardinality(JobsOf(d, Check)) = 0
      /\ Cardinality(Inserting(d, "recompute_insert")) = 0
      /\ Cardinality(Inserting(d, "check_insert")) = 0
  <2>1. Cardinality({}) = 0
    BY FS_EmptySet
  <2>. QED  BY <1>1, <1>2, <2>1, Zenon
<1>. HIDE DEF Init
<1>6. RecomputesBounded(d)
  BY <1>4, <1>5 DEF RecomputesBounded
<1>7. ChecksBounded(d)
  BY <1>3, <1>4, <1>5 DEF ChecksBounded
<1>. QED  BY <1>6, <1>7

\* Each insert under way becomes at most one job.
LEMMA InsertsStep ==
    ASSUME TypesInv, InsertsBounded, [Next]_vars
    PROVE  InsertsBounded'
<1>0. QueueOK /\ CallsOK /\ TurnOK /\ QueueOK'
  <2>1. TypesInv'
    BY TypesStep
  <2>. QED  BY <2>1 DEF TypesInv
<1>1. UNCHANGED handler =>
         \A d \in Domains, op \in {"recompute_insert", "check_insert"} :
            Inserting(d, op)' \subseteq Inserting(d, op)
  BY DEF Inserting
<1>2. CASE UNCHANGED vars
  <2>1. UNCHANGED handler /\ UNCHANGED <<queue, runner>>
    BY <1>2 DEF vars
  <2>. QED  BY <1>0, <1>1, <2>1, InsertsByOthers
<1>3. ASSUME NEW h \in Handlers, Call(h) PROVE InsertsBounded'
  <2>1. CASE RecomputeCheck(h) \/ CheckInFlight(h)
    BY <2>1, InsertsByCheck
  <2>2. CASE RecomputeInsert(h) \/ CheckInsert(h)
    BY <2>2, InsertsByCall
  <2>3. ASSUME NEW d \in Domains, NEW op \in {"recompute", "check", "settings"}, Begin(h, op, d)
        PROVE  InsertsBounded'
    <3>1. UNCHANGED <<queue, runner>>
          /\ handler' = [handler EXCEPT ![h] = [Idle EXCEPT !.op = op, !.domain = d]]
      BY <2>3 DEF Begin, database
    <3>2. \A e \in Domains, k \in {"recompute_insert", "check_insert"} :
             Inserting(e, k)' \subseteq Inserting(e, k)
      BY <1>0, <3>1 DEF Inserting, CallsOK, Idle
    <3>. QED  BY <1>0, <3>1, <3>2, InsertsByOthers
  <2>4. CASE CheckRecent(h) \/ CheckTouch(h) \/ Settings(h)
    <3>1. UNCHANGED <<queue, runner>>
          /\ \E op \in {"idle", "check_in_flight"} : Goto(h, op)
      BY <2>4 DEF CheckRecent, CheckTouch, Settings, database
    <3>2. \A e \in Domains, k \in {"recompute_insert", "check_insert"} :
             Inserting(e, k)' \subseteq Inserting(e, k)
      BY <1>0, <3>1, GotoInserts
    <3>. QED  BY <1>0, <3>1, <3>2, InsertsByOthers
  <2>. QED  BY <1>3, <2>1, <2>2, <2>3, <2>4 DEF Call
<1>4. CASE (\E d \in Domains : Archive(d) \/ Restore(d)) \/ Tick
  <2>1. UNCHANGED handler /\ UNCHANGED <<queue, runner>>
    BY <1>4 DEF Archive, Restore, Tick
  <2>. QED  BY <1>0, <1>1, <2>1, InsertsByOthers
<1>5. CASE (\E d \in Domains : Purge(d)) \/ Claim \/ Process \/ Complete \/ Fail
  BY <1>5, InsertsByRemoval
<1>6. CASE ScheduleCheck \/ ScheduleInsert
  BY <1>6, InsertsByScheduler
<1>7. CASE SelectDue \/ RecomputeReports \/ ReadCheck \/ Lookup \/ LookupFails \/ StoreFailure
           \/ Store \/ Audit \/ Raise \/ Interrupt
  <2>1. UNCHANGED handler /\ UNCHANGED queue
    BY <1>7 DEF SelectDue, RecomputeReports, ReadCheck, Lookup, LookupFails, StoreFailure, Store,
                Audit, Raise, Interrupt, database
  <2>2. CASE Audit \/ Interrupt \/ (\E pc \in {"store_failure", "complete", "fail"} : Step(pc))
    <3>1. runner'.pc # "schedule_insert"
      <4>1. Asleep.pc = "schedule"
        BY DEF Asleep
      <4>2. Step("store_failure") \/ Step("complete") \/ Step("fail") =>
               runner'.pc \in {"store_failure", "complete", "fail"}
        BY DEF Step, Asleep
      <4>. QED  BY <2>2, <4>1, <4>2 DEF Audit, Interrupt, Sleep
    <3>. QED  BY <1>0, <1>1, <2>1, <3>1, InsertsByOthers
  <2>3. CASE SelectDue \/ RecomputeReports \/ Lookup
    <3>1. runner'.pc # "schedule_insert"
      BY <1>0, <2>3 DEF SelectDue, RecomputeReports, Lookup, TurnOK, TurnState
    <3>. QED  BY <1>0, <1>1, <2>1, <3>1, InsertsByOthers
  <2>4. CASE ReadCheck
    <3>1. \/ runner' = [runner EXCEPT !.pc = "fail"]
          \/ runner' = [runner EXCEPT !.pc = "complete"]
          \/ \E selectors, previous : runner' = [runner EXCEPT !.pc = "lookup",
                                         !.selectors = selectors, !.previous = previous]
      BY <2>4, Zenon DEF ReadCheck
    <3>2. runner'.pc # "schedule_insert"
      BY <1>0, <3>1 DEF TurnOK, TurnState
    <3>. QED  BY <1>0, <1>1, <2>1, <3>2, InsertsByOthers
  <2>5. CASE Store /\ ~Step("fail")
    <3>1. runner' = [runner EXCEPT !.pc = "complete", !.scanned = TRUE,
                                   !.previous = Null, !.selectors = Null]
      BY <2>5 DEF Store
    <3>2. runner'.pc # "schedule_insert"
      BY <1>0, <3>1 DEF TurnOK, TurnState
    <3>. QED  BY <1>0, <1>1, <2>1, <3>2, InsertsByOthers
  <2>6. LookupFails \/ StoreFailure \/ Raise =>
           \E pc \in {"store_failure", "complete", "fail"} : Step(pc)
    BY DEF LookupFails, StoreFailure, Raise
  <2>. QED  BY <1>7, <2>2, <2>3, <2>4, <2>5, <2>6
<1>8. CASE Restart
  <2>1. UNCHANGED queue /\ runner' = Asleep /\ handler' = [h \in Handlers |-> Idle]
    BY <1>8 DEF Restart, Sleep
  <2>2. runner'.pc # "schedule_insert"
    BY <2>1 DEF Asleep
  <2>3. \A e \in Domains, k \in {"recompute_insert", "check_insert"} :
           Inserting(e, k)' \subseteq Inserting(e, k)
    BY <2>1 DEF Inserting, Idle
  <2>. QED  BY <1>0, <2>1, <2>2, <2>3, InsertsByOthers
<1>. QED  BY <1>2, <1>3, <1>4, <1>5, <1>6, <1>7, <1>8 DEF Next, Turn

\* Races leave at most one job of a domain in flight for each thread that can insert it: a
\* call that found none, and the scheduler, are counted with the jobs they may still insert.
THEOREM JobsInFlightAreBounded == Spec => []InFlightBounded
<1>1. TypesInv /\ InsertsBounded /\ [Next]_vars => InsertsBounded'
  BY InsertsStep
<1>2. ASSUME TypesInv, TypesInv', InsertsBounded PROVE InFlightBounded
  <2>1. QueueOK /\ QueueOK'
    BY <1>2 DEF TypesInv
  <2>. SUFFICES ASSUME NEW d \in Domains
                PROVE  /\ Cardinality(JobsOf(d, Recompute)) <= Cardinality(Handlers)
                       /\ Cardinality(JobsOf(d, Check)) <= Cardinality(Handlers) + 1
    BY DEF InFlightBounded
  <2>2. /\ Cardinality(JobsOf(d, Recompute)) \in Nat /\ Cardinality(JobsOf(d, Check)) \in Nat
        /\ Cardinality(Inserting(d, "recompute_insert")) \in Nat
        /\ Cardinality(Inserting(d, "check_insert")) \in Nat /\ Cardinality(Handlers) \in Nat
    BY <2>1, Counts
  <2>3. Scheduling(d) \in {0, 1}
    BY DEF Scheduling
  <2>. QED  BY <1>2, <2>2, <2>3 DEF InsertsBounded, RecomputesBounded, ChecksBounded
<1>3. TypesInv /\ TypesInv' /\ InsertsBounded => InFlightBounded
  BY <1>2
<1>. QED  BY TypesAlways, InsertsInit, <1>1, <1>3, PTL DEF Spec

=============================================================================
