--------------------------- MODULE IngestRunnerProofs ---------------------------
(***************************************************************************)
(* Proofs about the ingest queue, for any jobs, reports, submissions and   *)
(* any number of interruptions: what jobs say of their items is true, and  *)
(* jobs end in the order in which they arrived.                            *)
(***************************************************************************)
EXTENDS IngestRunner, TLAPS

-------------------------------------------------------------------------------
(* The invariant.                                                          *)

\* What the pass under way has found so far: an outcome for every item behind
\* it, whether one of them failed, and a stored report for every success.
PassInv ==
    runner.pc # "idle" =>
        LET job == jobs[runner.job] IN
        /\ \A i \in 1..(runner.item - 1) : job.status[i] \in Statuses
        /\ runner.failed <=>
              \E i \in 1..(runner.item - 1) : job.status[i] \in {"rejected", "invalid"}
        /\ \A k \in DOMAIN runner.results :
              /\ runner.results[k] = "accepted" =>
                    Files[k] \in Reports /\ stored[Files[k]] = <<runner.job, runner.item>>
              /\ runner.results[k] = "duplicate" =>
                    Files[k] \in Reports /\ stored[Files[k]] # Null

\* Timestamps grow, and a job is taken up only when those before it are over.
OrderInv ==
    \A j \in Jobs :
        /\ jobs[j].state # "none" => jobs[j].at < clock
        /\ \A k \in jobs[j].before : (Open(k) \/ Over(k)) /\ jobs[k].at < jobs[j].at
        /\ jobs[j].state = "processing" \/ Over(j) => \A k \in jobs[j].before : Over(k)

\* A stored report belongs to an item of a job that has been taken up; in the
\* first pass over that job it is credited to the item, or will be.
Credited(j, i) ==
    /\ i \in Positions(j)
    /\ jobs[j].state = "processing" \/ Over(j)
    /\ Over(j) /\ ~jobs[j].reclaimed => jobs[j].status[i] = "accepted"
    /\ runner.pc # "idle" /\ runner.job = j /\ ~jobs[j].reclaimed =>
          \/ i < runner.item /\ jobs[j].status[i] = "accepted"
          \/ i = runner.item /\ \E k \in DOMAIN runner.results :
                                   runner.results[k] = "accepted"
CreditInv ==
    \A r \in Reports : stored[r] # Null => Credited(stored[r][1], stored[r][2])

Content == Reports \cup {Unreadable, Raising}

-------------------------------------------------------------------------------
(* Types.                                                                  *)

\* The contents of a job and the place of the pass in it.
LEMMA ItemsTyped ==
  ASSUME TypeOK, NEW j \in Jobs
  PROVE  /\ jobs[j] \in Job
         /\ jobs[j].items \in Seq(Seq(Content))
         /\ jobs[j].status \in Seq(Statuses \cup {Null})
         /\ DOMAIN jobs[j].status = 1..Len(jobs[j].items)
         /\ Positions(j) = 1..Len(jobs[j].items)
         /\ Len(jobs[j].items) \in Nat
<1>1. jobs[j] \in Job
  BY DEF TypeOK
<1>2. jobs[j].items \in Seq(Seq(Content))
  <2>1. jobs[j].items \in Envelopes \cup {<<>>}
    BY <1>1 DEF Job
  <2>2. Envelopes \subseteq Seq(Seq(Content))
    BY ConstantsAssumption DEF Content
  <2>3. <<>> \in Seq(Seq(Content))
    OBVIOUS
  <2> QED
    BY <2>1, <2>2, <2>3
<1>3. jobs[j].status \in Seq(Statuses \cup {Null})
  BY <1>1 DEF Job
<1> QED
  BY <1>1, <1>2, <1>3 DEF TypeOK, Positions

LEMMA PassTyped ==
  ASSUME TypeOK, runner.pc # "idle"
  PROVE  /\ runner.job \in Jobs /\ jobs[runner.job].state = "processing"
         /\ runner.item \in 1..Len(Items) + 1
         /\ runner.results \in Seq(Statuses)
         /\ runner.item <= Len(Items) => /\ runner.item \in 1..Len(Items)
                                         /\ Files \in Seq(Content)
                                         /\ Len(runner.results) <= Len(Files)
         /\ runner.item > Len(Items) => runner.results = <<>>
<1>1. runner.job \in Jobs /\ runner.results \in Seq(Statuses)
  BY DEF TypeOK, Pass
<1>2. Items \in Seq(Seq(Content)) /\ Len(Items) \in Nat
  BY <1>1, ItemsTyped DEF Items
<1>3. runner.item \in 1..Len(Items) + 1
  BY DEF TypeOK
<1>4. Len(runner.results) <= IF runner.item <= Len(Items) THEN Len(Files) ELSE 0
  BY DEF TypeOK
<1>5. runner.item <= Len(Items) => runner.item \in 1..Len(Items) /\ Files \in Seq(Content)
  BY <1>2, <1>3 DEF Files
<1>6. runner.item > Len(Items) => runner.results = <<>>
  BY <1>1, <1>2, <1>3, <1>4
<1> QED
  BY <1>1, <1>3, <1>4, <1>5, <1>6 DEF TypeOK

\* The outcome of an item is one of its files' outcomes, the best of them.
LEMMA CombinedIsBest ==
  ASSUME NEW results \in Seq(Statuses)
  PROVE  /\ Combined(results) \in Statuses
         /\ Combined(results) = "accepted" <=>
               \E k \in DOMAIN results : results[k] = "accepted"
         /\ Combined(results) = "duplicate" =>
               \E k \in DOMAIN results : results[k] = "duplicate"
<1> DEFINE has(status) == \E k \in DOMAIN results : results[k] = status
           best(s) ==
             \/ s = "accepted" /\ has("accepted")
             \/ s = "duplicate" /\ has("duplicate") /\ ~has("accepted")
             \/ s = "rejected" /\ has("rejected") /\ ~has("accepted") /\ ~has("duplicate")
             \/ s = "invalid" /\ \A k \in DOMAIN results : results[k] = "invalid"
<1>1. \A k \in DOMAIN results : results[k] \in Statuses
  OBVIOUS
<1>2. \E s \in Statuses : best(s)
  BY <1>1 DEF Statuses
<1>3. Combined(results) = CHOOSE s \in Statuses : best(s)
  BY DEF Combined
<1>4. Combined(results) \in Statuses /\ best(Combined(results))
  <2> HIDE DEF best
  <2> QED BY <1>2, <1>3
<1> QED
  BY <1>4

\* A file's outcome is added to those of its item.
LEMMA OutcomeTyped ==
  ASSUME TypeOK, runner.pc # "idle", runner.item <= Len(Items),
         Len(runner.results) < Len(Files), NEW s \in Statuses, Outcome(s)
  PROVE  /\ runner' \in Pass /\ runner'.pc = "item" /\ runner'.job = runner.job
         /\ runner'.item = runner.item /\ runner'.failed = runner.failed
         /\ runner'.results \in Seq(Statuses)
         /\ Len(runner'.results) = Len(runner.results) + 1
         /\ Len(runner'.results) <= Len(Files)
         /\ DOMAIN runner'.results = DOMAIN runner.results \cup {Len(runner.results) + 1}
         /\ \A k \in DOMAIN runner.results : runner'.results[k] = runner.results[k]
         /\ runner'.results[Len(runner.results) + 1] = s
<1>1. runner \in Pass /\ runner.results \in Seq(Statuses)
  BY DEF TypeOK, Pass
<1>2. runner' = [runner EXCEPT !.pc = "item", !.results = Append(runner.results, s)]
  BY DEF Outcome
<1>3. /\ runner'.pc = "item" /\ runner'.job = runner.job /\ runner'.item = runner.item
      /\ runner'.failed = runner.failed /\ runner'.results = Append(runner.results, s)
      /\ runner' \in Pass
  <2>1. Append(runner.results, s) \in Seq(Statuses)
    BY <1>1
  <2> DEFINE outcomes == Append(runner.results, s)
  <2>2. outcomes \in Seq(Statuses) /\ runner' = [runner EXCEPT !.pc = "item", !.results = outcomes]
    BY <2>1, <1>2
  <2> HIDE DEF outcomes
  <2>3. /\ runner'.pc = "item" /\ runner'.job = runner.job /\ runner'.item = runner.item
        /\ runner'.failed = runner.failed /\ runner'.results = outcomes
        /\ runner' \in Pass
    BY <1>1, <2>2 DEF Pass
  <2> QED
    BY <2>3 DEF outcomes
<1>4. /\ Append(runner.results, s) \in Seq(Statuses)
      /\ Len(Append(runner.results, s)) = Len(runner.results) + 1
      /\ DOMAIN Append(runner.results, s) = 1..(Len(runner.results) + 1)
      /\ \A k \in 1..Len(runner.results) : Append(runner.results, s)[k] = runner.results[k]
      /\ Append(runner.results, s)[Len(runner.results) + 1] = s
  BY <1>1
<1>5. DOMAIN runner.results = 1..Len(runner.results) /\ Len(runner.results) \in Nat
  BY <1>1
<1>6. Files \in Seq(Content) /\ Len(Files) \in Nat
  BY PassTyped
<1>7. 1..(Len(runner.results) + 1) = 1..Len(runner.results) \cup {Len(runner.results) + 1}
  BY <1>5
<1> QED
  BY <1>3, <1>4, <1>5, <1>6, <1>7

-------------------------------------------------------------------------------
(* What the steps that write the tables of jobs leave there.               *)

NewJob(envelope) ==
    [NoJob EXCEPT !.state = "stamped", !.at = clock, !.items = envelope,
                  !.status = [i \in DOMAIN envelope |-> Null],
                  !.before = {k \in Jobs : Open(k) \/ Over(k)}]

LEMMA StampEffect ==
  ASSUME TypeOK, NEW j \in Jobs, NEW envelope \in Envelopes, Stamp(j, envelope)
  PROVE  /\ jobs[j].state = "none" /\ jobs' = [jobs EXCEPT ![j] = NewJob(envelope)]
         /\ NewJob(envelope) \in Job
         /\ NewJob(envelope).state = "stamped" /\ NewJob(envelope).at = clock
         /\ NewJob(envelope).before = {k \in Jobs : Open(k) \/ Over(k)}
         /\ NewJob(envelope).items = envelope
         /\ Len(NewJob(envelope).status) = Len(envelope)
         /\ \A i \in 1..Len(envelope) : NewJob(envelope).status[i] = Null
<1>1. envelope \in Seq(Seq(Content)) /\ DOMAIN envelope = 1..Len(envelope) /\ Len(envelope) \in Nat
  BY ConstantsAssumption DEF Content
<1> DEFINE blank == [i \in DOMAIN envelope |-> Null]
           earlier == {k \in Jobs : Open(k) \/ Over(k)}
<1>2. blank \in Seq(Statuses \cup {Null}) /\ Len(blank) = Len(envelope)
  BY <1>1
<1>3. \A i \in 1..Len(envelope) : blank[i] = Null
  BY <1>1
<1>4. earlier \in SUBSET Jobs
  OBVIOUS
<1>5. NewJob(envelope) = [NoJob EXCEPT !.state = "stamped", !.at = clock, !.items = envelope,
                                       !.status = blank, !.before = earlier]
  BY DEF NewJob
<1>6. jobs[j].state = "none" /\ jobs' = [jobs EXCEPT ![j] = NewJob(envelope)]
  BY DEF Stamp, NewJob
<1> HIDE DEF blank, earlier
<1>7. /\ NewJob(envelope).state = "stamped" /\ NewJob(envelope).at = clock
      /\ NewJob(envelope).before = earlier /\ NewJob(envelope).items = envelope
      /\ NewJob(envelope).status = blank /\ NewJob(envelope) \in Job
  BY <1>2, <1>4, <1>5 DEF NoJob, Job, TypeOK
<1> QED
  BY <1>2, <1>3, <1>6, <1>7 DEF earlier

\* Submitting, claiming and ending a job change no content and no outcome.
SameContent(j) ==
    /\ jobs'[j].items = jobs[j].items /\ jobs'[j].status = jobs[j].status
    /\ jobs'[j].at = jobs[j].at /\ jobs'[j].before = jobs[j].before

LEMMA InsertEffect ==
  ASSUME TypeOK, NEW j \in Jobs, Insert(j)
  PROVE  /\ jobs' \in [Jobs -> Job] /\ jobs[j].state = "stamped"
         /\ jobs'[j].state = "queued" /\ SameContent(j)
         /\ \A k \in Jobs \ {j} : jobs'[k] = jobs[k]
<1>1. jobs[j] \in Job /\ jobs \in [Jobs -> Job]
  BY DEF TypeOK
<1>2. jobs[j].state = "stamped" /\ jobs' = [jobs EXCEPT ![j] = [jobs[j] EXCEPT !.state = "queued"]]
  BY DEF Insert
<1>3. [jobs[j] EXCEPT !.state = "queued"] \in Job
  BY <1>1 DEF Job
<1> QED
  BY <1>1, <1>2, <1>3 DEF SameContent, Job

LEMMA ClaimEffect ==
  ASSUME TypeOK, NEW j \in Jobs, Claim(j)
  PROVE  /\ jobs' \in [Jobs -> Job] /\ Oldest(j)
         /\ jobs'[j].state = "processing" /\ SameContent(j)
         /\ jobs'[j].reclaimed = (jobs[j].state = "processing")
         /\ \A k \in Jobs \ {j} : jobs'[k] = jobs[k]
         /\ runner' \in Pass
         /\ runner'.pc = "item" /\ runner'.job = j /\ runner'.item = 1
         /\ runner'.results = <<>> /\ runner'.failed = FALSE
<1>1. jobs[j] \in Job /\ jobs \in [Jobs -> Job]
  BY DEF TypeOK
<1> DEFINE again == jobs[j].state = "processing"
           job == [jobs[j] EXCEPT !.state = "processing", !.reclaimed = again]
<1>2. Oldest(j) /\ jobs' = [jobs EXCEPT ![j] = job]
  BY <1>1 DEF Claim, TakeUp, Job
<1>3. again \in BOOLEAN
  OBVIOUS
<1>4. /\ job \in Job /\ job.state = "processing" /\ job.reclaimed = again
      /\ job.items = jobs[j].items /\ job.status = jobs[j].status
      /\ job.at = jobs[j].at /\ job.before = jobs[j].before
  <2> HIDE DEF again
  <2> QED BY <1>1, <1>3 DEF Job
<1>5. jobs'[j] = job /\ jobs' \in [Jobs -> Job] /\ \A k \in Jobs \ {j} : jobs'[k] = jobs[k]
  <2> HIDE DEF job
  <2> QED BY <1>1, <1>2, <1>4
<1>6. runner' = [Idle EXCEPT !.pc = "item", !.job = j, !.item = 1]
  BY DEF Claim, TakeUp
<1>7. /\ runner'.pc = "item" /\ runner'.job = j /\ runner'.item = 1
      /\ runner'.results = <<>> /\ runner'.failed = FALSE
      /\ runner' \in Pass
  <2>1. <<>> \in Seq(Statuses)
    OBVIOUS
  <2>2. runner' = [pc |-> "item", job |-> j, item |-> 1, results |-> <<>>, failed |-> FALSE]
    BY <1>6 DEF Idle
  <2> QED
    BY <2>1, <2>2 DEF Pass
<1> QED
  BY <1>2, <1>4, <1>5, <1>7 DEF SameContent

LEMMA EndJobEffect ==
  ASSUME TypeOK, EndJob
  PROVE  /\ jobs' \in [Jobs -> Job] /\ runner.job \in Jobs /\ runner.pc = "item"
         /\ runner.item = Len(Items) + 1
         /\ jobs[runner.job].state = "processing"
         /\ jobs'[runner.job].state =
               IF runner.failed THEN "completed_with_warnings" ELSE "completed"
         /\ SameContent(runner.job)
         /\ jobs'[runner.job].reclaimed = jobs[runner.job].reclaimed
         /\ \A k \in Jobs \ {runner.job} : jobs'[k] = jobs[k]
<1> DEFINE j == runner.job
           state == IF runner.failed THEN "completed_with_warnings" ELSE "completed"
<1>1. j \in Jobs /\ jobs[j] \in Job /\ jobs \in [Jobs -> Job] /\ jobs[j].state = "processing"
  BY PassTyped DEF TypeOK, EndJob
<1>2. runner.pc = "item" /\ runner.item = Len(Items) + 1
  <2>1. Len(Items) \in Nat
    BY <1>1, ItemsTyped DEF Items
  <2> QED
    BY <2>1, PassTyped DEF EndJob
<1>3. jobs' = [jobs EXCEPT ![j] = [jobs[j] EXCEPT !.state = state]]
  BY DEF EndJob
<1>4. state \in {"completed_with_warnings", "completed"}
  OBVIOUS
<1> HIDE DEF state, j
<1>5. [jobs[j] EXCEPT !.state = state] \in Job
  BY <1>1, <1>4 DEF Job
<1>6. jobs' \in [Jobs -> Job]
  BY <1>1, <1>3, <1>5
<1>7. /\ jobs'[j].state = state
      /\ jobs'[j].items = jobs[j].items /\ jobs'[j].status = jobs[j].status
      /\ jobs'[j].at = jobs[j].at /\ jobs'[j].before = jobs[j].before
      /\ jobs'[j].reclaimed = jobs[j].reclaimed
      /\ \A k \in Jobs \ {j} : jobs'[k] = jobs[k]
  BY <1>1, <1>3, <1>4 DEF Job
<1> QED
  BY <1>1, <1>2, <1>6, <1>7 DEF j, state, SameContent

LEMMA WriteStatusEffect ==
  ASSUME TypeOK, WriteStatus
  PROVE  LET j == runner.job
             i == runner.item
             status == Combined(runner.results)
         IN
         /\ jobs' \in [Jobs -> Job] /\ j \in Jobs /\ runner.pc = "item"
         /\ i \in 1..Len(jobs[j].items) /\ status \in Statuses
         /\ jobs[j].state = "processing" /\ jobs'[j].state = "processing"
         /\ jobs'[j].items = jobs[j].items
         /\ Len(jobs'[j].status) = Len(jobs[j].items)
         /\ jobs'[j].status[i] = status
         /\ \A n \in 1..Len(jobs[j].items) : n # i => jobs'[j].status[n] = jobs[j].status[n]
         /\ jobs'[j].at = jobs[j].at /\ jobs'[j].before = jobs[j].before
         /\ jobs'[j].reclaimed = jobs[j].reclaimed
         /\ \A k \in Jobs \ {j} : jobs'[k] = jobs[k]
         /\ runner' \in Pass
         /\ runner'.pc = "item" /\ runner'.job = j /\ runner'.item = i + 1
         /\ runner'.results = <<>>
         /\ runner'.failed = (runner.failed \/ status \in {"rejected", "invalid"})
<1> DEFINE j == runner.job
           i == runner.item
           status == Combined(runner.results)
           failed == runner.failed \/ status \in {"rejected", "invalid"}
           outcomes == [jobs[j].status EXCEPT ![i] = status]
<1>1. j \in Jobs /\ jobs[j] \in Job /\ jobs \in [Jobs -> Job] /\ jobs[j].state = "processing"
  BY PassTyped DEF TypeOK, WriteStatus
<1>2. runner.pc = "item" /\ i \in 1..Len(jobs[j].items) /\ runner.results \in Seq(Statuses)
  BY PassTyped DEF WriteStatus, Items
<1>3. status \in Statuses
  BY <1>2, CombinedIsBest
<1>4. /\ jobs' = [jobs EXCEPT ![j] = [jobs[j] EXCEPT !.status = outcomes]]
      /\ runner' = [runner EXCEPT !.item = i + 1, !.results = <<>>, !.failed = failed]
  BY DEF WriteStatus
<1>5. /\ jobs[j].status \in Seq(Statuses \cup {Null}) /\ Len(jobs[j].items) \in Nat
      /\ DOMAIN jobs[j].status = 1..Len(jobs[j].items)
      /\ Len(jobs[j].status) = Len(jobs[j].items)
  BY <1>1, ItemsTyped DEF TypeOK
<1> HIDE DEF status
<1>6. /\ outcomes \in Seq(Statuses \cup {Null}) /\ Len(outcomes) = Len(jobs[j].items)
      /\ outcomes[i] = status
      /\ \A n \in 1..Len(jobs[j].items) : n # i => outcomes[n] = jobs[j].status[n]
  BY <1>2, <1>3, <1>5
<1>7. runner \in Pass /\ <<>> \in Seq(Statuses) /\ failed \in BOOLEAN /\ i + 1 \in Nat
  BY <1>2, <1>5 DEF TypeOK, Pass
<1> HIDE DEF outcomes, failed, j, i
<1>8. [jobs[j] EXCEPT !.status = outcomes] \in Job
  BY <1>1, <1>6 DEF Job
<1>9. /\ jobs' \in [Jobs -> Job] /\ jobs'[j].state = jobs[j].state
      /\ jobs'[j].items = jobs[j].items /\ jobs'[j].status = outcomes
      /\ jobs'[j].at = jobs[j].at /\ jobs'[j].before = jobs[j].before
      /\ jobs'[j].reclaimed = jobs[j].reclaimed
      /\ \A k \in Jobs \ {j} : jobs'[k] = jobs[k]
  BY <1>1, <1>4, <1>8 DEF Job
<1>10. /\ runner' \in Pass
       /\ runner'.pc = runner.pc /\ runner'.job = runner.job /\ runner'.item = i + 1
       /\ runner'.results = <<>> /\ runner'.failed = failed
  BY <1>4, <1>7 DEF Pass
<1> QED
  BY <1>1, <1>2, <1>3, <1>5, <1>6, <1>9, <1>10 DEF j, i, status, failed

LEMMA RestartEffect ==
  ASSUME TypeOK, Restart
  PROVE  /\ jobs' \in [Jobs -> Job]
         /\ \A j \in Jobs : \/ jobs'[j] = jobs[j]
                            \/ jobs[j].state = "stamped" /\ jobs'[j] = NoJob
         /\ \A j \in Jobs : Open(j) \/ Over(j) => jobs'[j] = jobs[j]
<1>1. NoJob \in Job
  <2>1. <<>> \in Seq(Statuses \cup {Null})
    OBVIOUS
  <2> QED
    BY <2>1 DEF NoJob, Job
<1>2. jobs \in [Jobs -> Job]
  BY DEF TypeOK
<1>3. jobs' = [j \in Jobs |-> IF jobs[j].state = "stamped" THEN NoJob ELSE jobs[j]]
  BY DEF Restart
<1>4. jobs' \in [Jobs -> Job]
  BY <1>1, <1>2, <1>3
<1> QED
  BY <1>3, <1>4 DEF Open, Over

\* What the actions on one file have in common: an outcome, and a row in the
\* report tables exactly when it is "accepted".
LEMMA FileStep ==
  ASSUME TypeOK, Unparsed \/ CheckDomain \/ Duplicate \/ Persist \/ PersistFails
  PROVE  /\ UNCHANGED <<clock, jobs, allowed, interrupts>>
         /\ runner.pc # "idle" /\ runner.item <= Len(Items)
         /\ Len(runner.results) < Len(Files)
         /\ \/ /\ runner' = [runner EXCEPT !.pc = "store"]
               /\ File \in Reports /\ UNCHANGED stored
            \/ \E s \in Statuses :
                  /\ Outcome(s)
                  /\ s = "duplicate" => File \in Reports /\ stored[File] # Null
                  /\ s # "accepted" => UNCHANGED stored
                  /\ s = "accepted" =>
                        /\ File \in Reports /\ stored[File] = Null
                        /\ stored' = [stored EXCEPT ![File] = <<runner.job, runner.item>>]
<1>1. CASE Unparsed
  BY <1>1 DEF Unparsed, AtFile, Statuses
<1>2. CASE CheckDomain
  BY <1>2 DEF CheckDomain, AtFile, Statuses
<1>3. CASE Duplicate
  BY <1>3 DEF Duplicate, Statuses, TypeOK
<1>4. CASE Persist
  BY <1>4 DEF Persist, Statuses, TypeOK
<1>5. CASE PersistFails
  BY <1>5 DEF PersistFails, Statuses, TypeOK
<1> QED
  BY <1>1, <1>2, <1>3, <1>4, <1>5

-------------------------------------------------------------------------------
(* Type correctness.                                                       *)

TablesOK ==
    /\ clock \in Nat /\ interrupts \in 0..MaxInterrupts
    /\ jobs \in [Jobs -> Job]
    /\ \A j \in Jobs : Len(jobs[j].status) = Len(jobs[j].items)
    /\ stored \in [Reports -> {Null} \cup (Jobs \X (Nat \ {0}))]
    /\ allowed \subseteq Reports
    /\ runner \in Pass

PassFits ==
    /\ runner.pc # "idle" =>
          /\ runner.job \in Jobs /\ jobs[runner.job].state = "processing"
          /\ runner.item \in 1..Len(Items) + 1
          /\ Len(runner.results) <= IF runner.item <= Len(Items) THEN Len(Files) ELSE 0
    /\ runner.pc = "store" => /\ runner.item <= Len(Items)
                              /\ Len(runner.results) < Len(Files)
                              /\ File \in Reports

LEMMA TypeParts == TypeOK <=> TablesOK /\ PassFits
BY DEF TypeOK, TablesOK, PassFits

LEMMA PassFitsStays ==
  ASSUME PassFits, runner' = runner,
         \A j \in Jobs : jobs[j].state = "processing" =>
            jobs'[j].state = "processing" /\ jobs'[j].items = jobs[j].items
  PROVE  PassFits'
<1>1. runner.pc # "idle" => /\ runner.job \in Jobs /\ jobs'[runner.job].state = "processing"
                            /\ jobs'[runner.job].items = jobs[runner.job].items
  BY DEF PassFits
<1>2. runner.pc # "idle" => Items' = Items /\ Files' = Files /\ File' = File
  BY <1>1 DEF Items, Files, File
<1>3. runner.pc = "store" => runner.pc # "idle"
  OBVIOUS
<1> QED
  BY <1>1, <1>2, <1>3 DEF PassFits

LEMMA IdleFits ==
  ASSUME runner' = Idle
  PROVE  runner' \in Pass /\ PassFits'
<1>1. <<>> \in Seq(Statuses)
  OBVIOUS
<1> QED
  BY <1>1 DEF Idle, Pass, PassFits

LEMMA TypeStep ==
  ASSUME TypeOK, [Next]_vars
  PROVE  TypeOK'
<1>0. TablesOK /\ PassFits
  BY TypeParts
<1>1. ASSUME NEW j \in Jobs, NEW envelope \in Envelopes, Stamp(j, envelope) PROVE TypeOK'
  <2>1. /\ UNCHANGED <<stored, allowed, runner, interrupts>> /\ clock' = clock + 1
        /\ jobs[j].state = "none" /\ jobs' = [jobs EXCEPT ![j] = NewJob(envelope)]
    BY <1>1, StampEffect DEF Stamp
  <2>2. /\ NewJob(envelope) \in Job
        /\ Len(NewJob(envelope).status) = Len(NewJob(envelope).items)
    BY <1>1, StampEffect
  <2>3. jobs' \in [Jobs -> Job] /\ \A k \in Jobs : Len(jobs'[k].status) = Len(jobs'[k].items)
    BY <1>0, <2>1, <2>2 DEF TablesOK
  <2>4. PassFits'
    <3>1. \A k \in Jobs : k # j => jobs'[k] = jobs[k]
      BY <1>0, <2>1 DEF TablesOK
    <3> QED
      BY <1>0, <2>1, <3>1, PassFitsStays
  <2>5. TablesOK'
    BY <1>0, <2>1, <2>3 DEF TablesOK
  <2> QED
    BY <2>4, <2>5 DEF TypeOK, TablesOK, PassFits
<1>2. ASSUME NEW j \in Jobs, Insert(j) PROVE TypeOK'
  <2>1. UNCHANGED <<clock, stored, allowed, runner, interrupts>>
    BY <1>2 DEF Insert
  <2>2. /\ jobs' \in [Jobs -> Job] /\ jobs[j].state = "stamped" /\ SameContent(j)
        /\ \A k \in Jobs \ {j} : jobs'[k] = jobs[k]
    BY <1>2, InsertEffect
  <2>3. TablesOK'
    BY <1>0, <2>1, <2>2 DEF TablesOK, SameContent
  <2>4. PassFits'
    BY <1>0, <2>1, <2>2, PassFitsStays
  <2> QED
    BY <2>3, <2>4 DEF TypeOK, TablesOK, PassFits
<1>3. CASE ChangeAllowed
  <2>1. TablesOK'
    BY <1>0, <1>3 DEF ChangeAllowed, TablesOK
  <2>2. PassFits'
    BY <1>0, <1>3, PassFitsStays DEF ChangeAllowed
  <2> QED
    BY <2>1, <2>2 DEF TypeOK, TablesOK, PassFits
<1>4. ASSUME NEW j \in Jobs, Claim(j) PROVE TypeOK'
  <2>1. UNCHANGED <<clock, stored, allowed, interrupts>>
    BY <1>4 DEF Claim, TakeUp
  <2>2. /\ jobs' \in [Jobs -> Job] /\ jobs'[j].state = "processing" /\ SameContent(j)
        /\ \A k \in Jobs \ {j} : jobs'[k] = jobs[k]
        /\ runner' \in Pass /\ runner'.pc = "item" /\ runner'.job = j
        /\ runner'.item = 1 /\ runner'.results = <<>>
    BY <1>4, ClaimEffect
  <2>3. TablesOK'
    BY <1>0, <2>1, <2>2 DEF TablesOK, SameContent
  <2>4. Items' = jobs[j].items /\ Items' \in Seq(Seq(Content)) /\ Len(Items') \in Nat
    BY <2>2, ItemsTyped DEF Items, SameContent
  <2>5. 1 <= Len(Items') => Files' \in Seq(Content)
    BY <2>2, <2>4 DEF Files
  <2>6. PassFits'
    <3>1. 1 <= Len(Items') => Len(Files') \in Nat
      BY <2>5
    <3>2. Len(runner'.results) = 0
      BY <2>2
    <3> QED
      BY <2>2, <2>4, <3>1, <3>2 DEF PassFits
  <2> QED
    BY <2>3, <2>6 DEF TypeOK, TablesOK, PassFits
<1>5. CASE Unparsed \/ CheckDomain \/ Duplicate \/ Persist \/ PersistFails
  <2>1. /\ UNCHANGED <<clock, jobs, allowed, interrupts>>
        /\ runner.pc # "idle" /\ runner.item <= Len(Items)
        /\ Len(runner.results) < Len(Files)
    BY <1>5, FileStep
  <2>2. /\ runner.job \in Jobs /\ runner.item \in 1..Len(Items) + 1 /\ runner.item \in Nat \ {0}
        /\ jobs[runner.job].state = "processing" /\ Len(Items) \in Nat
    <3>1. runner.job \in Jobs
      BY <2>1, PassTyped
    <3>2. Len(Items) \in Nat
      BY <3>1, ItemsTyped DEF Items
    <3> QED
      BY <2>1, <3>2, PassTyped
  <2>3. CASE runner' = [runner EXCEPT !.pc = "store"] /\ File \in Reports /\ UNCHANGED stored
    <3>1. /\ runner' \in Pass /\ runner'.pc = "store" /\ runner'.job = runner.job
          /\ runner'.item = runner.item /\ runner'.results = runner.results
      BY <1>0, <2>3 DEF TablesOK, Pass
    <3>2. Items' = Items /\ Files' = Files /\ File' = File
      BY <2>1, <3>1 DEF Items, Files, File
    <3>3. TablesOK'
      BY <1>0, <2>1, <2>3, <3>1 DEF TablesOK
    <3>4. PassFits'
      BY <1>0, <2>1, <2>2, <2>3, <3>1, <3>2 DEF PassFits
    <3> QED
      BY <3>3, <3>4 DEF TypeOK, TablesOK, PassFits
  <2>4. ASSUME NEW s \in Statuses, Outcome(s),
               s # "accepted" => UNCHANGED stored,
               s = "accepted" =>
                  /\ File \in Reports
                  /\ stored' = [stored EXCEPT ![File] = <<runner.job, runner.item>>]
        PROVE  TypeOK'
    <3>1. /\ runner' \in Pass /\ runner'.pc = "item" /\ runner'.job = runner.job
          /\ runner'.item = runner.item /\ Len(runner'.results) <= Len(Files)
      BY <2>1, <2>4, OutcomeTyped
    <3>2. Items' = Items /\ Files' = Files
      BY <2>1, <3>1 DEF Items, Files
    <3>3. stored' \in [Reports -> {Null} \cup (Jobs \X (Nat \ {0}))]
      BY <1>0, <2>2, <2>4 DEF TablesOK
    <3>4. TablesOK'
      BY <1>0, <2>1, <3>1, <3>3 DEF TablesOK
    <3>5. PassFits'
      BY <2>1, <2>2, <3>1, <3>2 DEF PassFits
    <3> QED
      BY <3>4, <3>5 DEF TypeOK, TablesOK, PassFits
  <2> QED
    BY <1>5, <2>3, <2>4, FileStep
<1>6. CASE Raise \/ Interrupt
  <2>1. /\ runner' = Idle /\ UNCHANGED <<clock, jobs, stored, allowed>>
        /\ interrupts' \in 0..MaxInterrupts
    BY <1>0, <1>6, ConstantsAssumption DEF Raise, Interrupt, TablesOK
  <2> QED
    BY <1>0, <2>1, IdleFits DEF TypeOK, TablesOK, PassFits
<1>7. CASE WriteStatus
  <2> DEFINE j == runner.job
  <2>1. /\ UNCHANGED <<clock, stored, allowed, interrupts>>
        /\ jobs' \in [Jobs -> Job] /\ j \in Jobs /\ jobs'[j].items = jobs[j].items
        /\ jobs'[j].state = "processing"
        /\ Len(jobs'[j].status) = Len(jobs[j].items)
        /\ \A k \in Jobs \ {j} : jobs'[k] = jobs[k]
        /\ runner' \in Pass /\ runner'.pc = "item" /\ runner'.job = j
        /\ runner'.item = runner.item + 1 /\ runner'.results = <<>>
        /\ runner.item \in 1..Len(jobs[j].items)
    BY <1>7, WriteStatusEffect DEF WriteStatus
  <2>2. TablesOK'
    BY <1>0, <2>1 DEF TablesOK
  <2>3. Items' = jobs[j].items /\ Items' \in Seq(Seq(Content)) /\ Len(Items') \in Nat
    BY <2>1, ItemsTyped DEF Items
  <2>4. runner'.item <= Len(Items') => Len(Files') \in Nat
    <3>1. ASSUME runner'.item <= Len(Items') PROVE Files' \in Seq(Content)
      BY <2>1, <2>3, <3>1 DEF Files
    <3> QED
      BY <3>1
  <2>5. PassFits'
    BY <2>1, <2>3, <2>4 DEF PassFits
  <2> QED
    BY <2>2, <2>5 DEF TypeOK, TablesOK, PassFits
<1>8. CASE EndJob
  <2>1. /\ UNCHANGED <<clock, stored, allowed, interrupts>> /\ runner' = Idle
        /\ jobs' \in [Jobs -> Job] /\ SameContent(runner.job)
        /\ \A k \in Jobs \ {runner.job} : jobs'[k] = jobs[k]
    BY <1>8, EndJobEffect DEF EndJob
  <2> QED
    BY <1>0, <2>1, IdleFits DEF TypeOK, TablesOK, PassFits, SameContent
<1>9. CASE Restart
  <2>1. /\ UNCHANGED <<clock, stored, allowed>> /\ runner' = Idle
        /\ interrupts' \in 0..MaxInterrupts
    BY <1>0, <1>9, ConstantsAssumption DEF Restart, TablesOK
  <2>2. /\ jobs' \in [Jobs -> Job]
        /\ \A j \in Jobs : jobs'[j] = jobs[j] \/ jobs'[j] = NoJob
    BY <1>9, RestartEffect
  <2>3. TablesOK'
    BY <1>0, <2>1, <2>2, IdleFits DEF TablesOK, NoJob
  <2> QED
    BY <2>1, <2>3, IdleFits DEF TypeOK, TablesOK, PassFits
<1>10. CASE UNCHANGED vars
  <2>1. PassFits'
    BY <1>0, <1>10, PassFitsStays DEF vars
  <2>2. TablesOK'
    BY <1>0, <1>10 DEF TablesOK, vars
  <2> QED
    BY <2>1, <2>2 DEF TypeOK, TablesOK, PassFits
<1> QED
  BY <1>1, <1>2, <1>3, <1>4, <1>5, <1>6, <1>7, <1>8, <1>9, <1>10
     DEF Next, Submit, RunOneJob, ProcessItem

LEMMA TypeInit == Init => TypeOK
<1> SUFFICES ASSUME Init PROVE TypeOK
  OBVIOUS
<1>1. <<>> \in Seq(Statuses) /\ <<>> \in Seq(Statuses \cup {Null})
  OBVIOUS
<1>2. NoJob \in Job /\ Idle \in Pass
  BY <1>1 DEF NoJob, Job, Idle, Pass
<1>3. TablesOK
  BY <1>2, ConstantsAssumption DEF Init, TablesOK, NoJob
<1>4. PassFits
  BY DEF Init, Idle, PassFits
<1> QED
  BY <1>3, <1>4, TypeParts

-------------------------------------------------------------------------------
(* What a step can do to one job, and to one row of the report tables.     *)

Born(j) ==
    /\ jobs[j].state = "none" /\ clock' = clock + 1
    /\ jobs'[j].state = "stamped" /\ jobs'[j].at = clock
    /\ jobs'[j].before = {k \in Jobs : Open(k) \/ Over(k)}
    /\ \A i \in 1..Len(jobs'[j].items) : jobs'[j].status[i] = Null

LEMMA JobStep ==
  ASSUME TypeOK, [Next]_vars, NEW j \in Jobs
  PROVE  \/ jobs'[j] = jobs[j]
         \/ Born(j)
         \/ jobs[j].state = "stamped" /\ jobs'[j].state = "queued" /\ SameContent(j)
         \/ Claim(j) /\ jobs'[j].state = "processing" /\ SameContent(j)
         \/ WriteStatus /\ j = runner.job
         \/ EndJob /\ j = runner.job
         \/ jobs[j].state = "stamped" /\ jobs'[j] = NoJob
<1>1. ASSUME NEW k \in Jobs, NEW envelope \in Envelopes, Stamp(k, envelope)
      PROVE  jobs'[j] = jobs[j] \/ Born(j)
  <2>1. /\ jobs[k].state = "none" /\ jobs' = [jobs EXCEPT ![k] = NewJob(envelope)]
        /\ NewJob(envelope).state = "stamped" /\ NewJob(envelope).at = clock
        /\ NewJob(envelope).before = {l \in Jobs : Open(l) \/ Over(l)}
        /\ NewJob(envelope).items = envelope
        /\ \A i \in 1..Len(envelope) : NewJob(envelope).status[i] = Null
    BY <1>1, StampEffect
  <2>2. clock' = clock + 1 /\ jobs \in [Jobs -> Job]
    BY <1>1 DEF Stamp, TypeOK
  <2>3. CASE j = k
    <3>1. jobs'[j] = NewJob(envelope)
      BY <2>1, <2>2, <2>3
    <3> QED
      BY <2>1, <2>2, <2>3, <3>1 DEF Born
  <2>4. CASE j # k
    BY <2>1, <2>2, <2>4
  <2> QED
    BY <2>3, <2>4
<1>2. ASSUME NEW k \in Jobs, Insert(k)
      PROVE  \/ jobs'[j] = jobs[j]
             \/ jobs[j].state = "stamped" /\ jobs'[j].state = "queued" /\ SameContent(j)
  BY <1>2, InsertEffect
<1>3. ASSUME NEW k \in Jobs, Claim(k)
      PROVE  \/ jobs'[j] = jobs[j]
             \/ Claim(j) /\ jobs'[j].state = "processing" /\ SameContent(j)
  BY <1>3, ClaimEffect
<1>4. CASE Unparsed \/ CheckDomain \/ Duplicate \/ Persist \/ PersistFails
  BY <1>4, FileStep
<1>5. CASE WriteStatus
  BY <1>5, WriteStatusEffect
<1>6. CASE EndJob
  BY <1>6, EndJobEffect
<1>7. CASE Restart
  BY <1>7, RestartEffect
<1>8. CASE ChangeAllowed \/ Raise \/ Interrupt \/ UNCHANGED vars
  BY <1>8 DEF ChangeAllowed, Raise, Interrupt, vars
<1> QED
  BY <1>1, <1>2, <1>3, <1>4, <1>5, <1>6, <1>7, <1>8 DEF Next, Submit, RunOneJob, ProcessItem

\* Only the end of the pass over a job makes it over, and it stays over.
LEMMA OverStep ==
  ASSUME TypeOK, [Next]_vars, NEW j \in Jobs
  PROVE  /\ Over(j) => jobs'[j] = jobs[j] /\ Over(j)'
         /\ Over(j)' => Over(j) \/ (EndJob /\ j = runner.job)
<1>1. Over(j) => jobs'[j] = jobs[j]
  <2> SUFFICES ASSUME Over(j) PROVE jobs'[j] = jobs[j]
    OBVIOUS
  <2>1. ~Born(j) /\ jobs[j].state # "stamped"
    BY DEF Over, Born
  <2>2. ~Claim(j)
    BY DEF Over, Claim, Oldest, Open
  <2>3. ~(WriteStatus /\ j = runner.job)
    BY WriteStatusEffect DEF Over
  <2>4. ~(EndJob /\ j = runner.job)
    BY EndJobEffect DEF Over
  <2> QED
    BY <2>1, <2>2, <2>3, <2>4, JobStep
<1>2. Over(j)' => Over(j) \/ (EndJob /\ j = runner.job)
  <2> SUFFICES ASSUME Over(j)', ~Over(j) PROVE EndJob /\ j = runner.job
    OBVIOUS
  <2>1. WriteStatus /\ j = runner.job => jobs'[j].state = "processing"
    BY WriteStatusEffect
  <2> QED
    BY <2>1, JobStep DEF Over, Born, NoJob
<1> QED
  BY <1>1, <1>2 DEF Over

\* A job in the queue stays in the table, with its place in the order.
LEMMA KnownStep ==
  ASSUME TypeOK, [Next]_vars, NEW j \in Jobs, Open(j) \/ Over(j)
  PROVE  /\ Open(j)' \/ Over(j)'
         /\ jobs'[j].at = jobs[j].at /\ jobs'[j].before = jobs[j].before
         /\ jobs'[j].items = jobs[j].items
         /\ jobs[j].state = "processing" \/ Over(j) => jobs'[j].state = "processing" \/ Over(j)'
<1>1. ~Born(j) /\ jobs[j].state # "stamped"
  BY DEF Over, Open, Born
<1>2. CASE jobs'[j] = jobs[j]
  BY <1>2 DEF Open, Over
<1>3. CASE Claim(j) /\ jobs'[j].state = "processing" /\ SameContent(j)
  BY <1>3 DEF Open, SameContent
<1>4. CASE WriteStatus /\ j = runner.job
  BY <1>4, WriteStatusEffect DEF Open
<1>5. CASE EndJob /\ j = runner.job
  <2>1. /\ SameContent(j)
        /\ jobs'[j].state = IF runner.failed THEN "completed_with_warnings" ELSE "completed"
    BY <1>5, EndJobEffect
  <2> QED
    BY <2>1 DEF Over, SameContent
<1> QED
  BY <1>1, <1>2, <1>3, <1>4, <1>5, JobStep

LEMMA StoredStep ==
  ASSUME TypeOK, [Next]_vars, NEW r \in Reports
  PROVE  \/ stored'[r] = stored[r]
         \/ /\ stored[r] = Null /\ r = File /\ Outcome("accepted")
            /\ stored'[r] = <<runner.job, runner.item>>
            /\ runner.pc # "idle" /\ runner.item <= Len(Items)
            /\ Len(runner.results) < Len(Files) /\ UNCHANGED jobs
<1>1. CASE Unparsed \/ CheckDomain \/ Duplicate \/ Persist \/ PersistFails
  <2>1. stored \in [Reports -> {Null} \cup (Jobs \X (Nat \ {0}))]
    BY DEF TypeOK
  <2>2. ASSUME NEW s \in Statuses, Outcome(s),
               s # "accepted" => UNCHANGED stored,
               s = "accepted" =>
                  /\ File \in Reports /\ stored[File] = Null
                  /\ stored' = [stored EXCEPT ![File] = <<runner.job, runner.item>>]
        PROVE  \/ stored'[r] = stored[r]
               \/ /\ stored[r] = Null /\ r = File /\ Outcome("accepted")
                  /\ stored'[r] = <<runner.job, runner.item>>
    BY <2>1, <2>2
  <2> QED
    BY <1>1, <2>2, FileStep
<1>2. CASE Submit \/ ChangeAllowed \/ (\E j \in Jobs : Claim(j)) \/ Raise \/ WriteStatus
           \/ EndJob \/ Interrupt \/ Restart \/ UNCHANGED vars
  BY <1>2 DEF Submit, Stamp, Insert, ChangeAllowed, Claim, TakeUp, Raise, WriteStatus, EndJob,
              Interrupt, Restart, vars
<1> QED
  BY <1>1, <1>2 DEF Next, RunOneJob, ProcessItem

LEMMA StoredStays ==
  ASSUME TypeOK, [Next]_vars, NEW r \in Reports, stored[r] # Null
  PROVE  stored'[r] = stored[r]
BY StoredStep

-------------------------------------------------------------------------------
(* The invariant is kept.                                                  *)

LEMMA PassStep ==
  ASSUME TypeOK, PassInv, [Next]_vars
  PROVE  PassInv'
<1>1. ASSUME runner' = runner, UNCHANGED stored PROVE PassInv'
  <2> SUFFICES ASSUME runner.pc # "idle" PROVE PassInv'
    BY <1>1 DEF PassInv
  <2>1. runner.job \in Jobs /\ jobs[runner.job].state = "processing"
    BY PassTyped
  <2>2. jobs'[runner.job] = jobs[runner.job]
    <3>1. ~Claim(runner.job) /\ ~WriteStatus /\ ~EndJob
      <4>1. WriteStatus => runner'.item = runner.item + 1 /\ runner.item \in Nat
        BY WriteStatusEffect, PassTyped DEF TypeOK, Pass
      <4>2. EndJob => runner'.pc = "idle"
        BY DEF EndJob, Idle
      <4>3. ~Claim(runner.job)
        BY DEF Claim
      <4> QED
        BY <1>1, <4>1, <4>2, <4>3
    <3> QED
      BY <2>1, <3>1, JobStep DEF Born
  <2>3. Files' = Files
    BY <1>1, <2>2 DEF Files, Items
  <2> QED
    BY <1>1, <2>2, <2>3 DEF PassInv
<1>2. ASSUME NEW j \in Jobs, Claim(j) PROVE PassInv'
  <2>1. runner'.item = 1 /\ runner'.results = <<>> /\ runner'.failed = FALSE
    BY <1>2, ClaimEffect
  <2>2. 1..(runner'.item - 1) = {} /\ DOMAIN runner'.results = {}
    BY <2>1
  <2> QED
    BY <2>1, <2>2 DEF PassInv
<1>3. CASE Unparsed \/ CheckDomain \/ Duplicate \/ Persist \/ PersistFails
  <2>1. /\ UNCHANGED jobs /\ runner.pc # "idle" /\ runner.item <= Len(Items)
        /\ Len(runner.results) < Len(Files)
    BY <1>3, FileStep
  <2>2. ASSUME NEW r \in Reports, stored[r] # Null PROVE stored'[r] = stored[r]
    BY <2>2, StoredStays
  <2>3. CASE runner' = [runner EXCEPT !.pc = "store"] /\ UNCHANGED stored
    <3>1. /\ runner'.job = runner.job /\ runner'.item = runner.item
          /\ runner'.results = runner.results /\ runner'.failed = runner.failed
      BY <2>3 DEF TypeOK, Pass
    <3>2. Files' = Files /\ jobs'[runner'.job] = jobs[runner.job]
      BY <2>1, <3>1 DEF Files, Items
    <3>3. ASSUME NEW k \in DOMAIN runner'.results
          PROVE  /\ runner'.results[k] = "accepted" =>
                       /\ Files'[k] \in Reports
                       /\ stored'[Files'[k]] = <<runner'.job, runner'.item>>
                 /\ runner'.results[k] = "duplicate" =>
                       Files'[k] \in Reports /\ stored'[Files'[k]] # Null
      BY <2>1, <2>3, <3>1, <3>2 DEF PassInv
    <3>4. LET job == jobs[runner.job] IN
          /\ \A i \in 1..(runner.item - 1) : job.status[i] \in Statuses
          /\ runner.failed <=>
                \E i \in 1..(runner.item - 1) : job.status[i] \in {"rejected", "invalid"}
      BY <2>1 DEF PassInv
    <3> QED
      BY <3>1, <3>2, <3>3, <3>4 DEF PassInv
  <2>4. ASSUME NEW s \in Statuses, Outcome(s),
               s = "duplicate" => File \in Reports /\ stored[File] # Null,
               s # "accepted" => UNCHANGED stored,
               s = "accepted" =>
                  /\ File \in Reports /\ stored[File] = Null
                  /\ stored' = [stored EXCEPT ![File] = <<runner.job, runner.item>>]
        PROVE  PassInv'
    <3> DEFINE new == Len(runner.results) + 1
    <3>1. /\ runner'.job = runner.job /\ runner'.item = runner.item
          /\ runner'.failed = runner.failed
          /\ DOMAIN runner'.results = DOMAIN runner.results \cup {new}
          /\ \A k \in DOMAIN runner.results : runner'.results[k] = runner.results[k]
          /\ runner'.results[new] = s
      BY <2>1, <2>4, OutcomeTyped
    <3>2. Files' = Files /\ File = Files[new] /\ jobs'[runner'.job] = jobs[runner.job]
      BY <2>1, <3>1 DEF Files, Items, File
    <3>3. /\ s = "accepted" =>
                Files[new] \in Reports /\ stored'[Files[new]] = <<runner.job, runner.item>>
          /\ s = "duplicate" => Files[new] \in Reports /\ stored'[Files[new]] # Null
      BY <2>4, <3>2 DEF TypeOK
    <3>4. <<runner.job, runner.item>> # Null
      <4>1. runner.job \in Jobs /\ runner.item \in Nat \ {0}
        BY <2>1, PassTyped
      <4> QED
        BY <4>1, ConstantsAssumption
    <3>5. ASSUME NEW k \in DOMAIN runner'.results
          PROVE  /\ runner'.results[k] = "accepted" =>
                       /\ Files'[k] \in Reports
                       /\ stored'[Files'[k]] = <<runner'.job, runner'.item>>
                 /\ runner'.results[k] = "duplicate" =>
                       Files'[k] \in Reports /\ stored'[Files'[k]] # Null
      <4>1. CASE k = new
        BY <3>1, <3>2, <3>3, <4>1
      <4>2. CASE k \in DOMAIN runner.results
        BY <2>1, <2>2, <3>1, <3>2, <3>4, <4>2 DEF PassInv
      <4> QED
        BY <3>1, <4>1, <4>2
    <3> HIDE DEF new
    <3> QED
      BY <2>1, <3>1, <3>2, <3>5 DEF PassInv
  <2> QED
    BY <1>3, <2>3, <2>4, FileStep
<1>4. CASE Raise \/ Interrupt \/ Restart \/ EndJob
  <2>1. runner'.pc = "idle"
    BY <1>4 DEF Raise, Interrupt, Restart, EndJob, Idle
  <2> QED
    BY <2>1 DEF PassInv
<1>5. CASE WriteStatus
  <2> DEFINE j == runner.job
             i == runner.item
             status == Combined(runner.results)
  <2>1. /\ j \in Jobs /\ runner.pc = "item" /\ i \in 1..Len(jobs[j].items) /\ status \in Statuses
        /\ Len(jobs[j].items) \in Nat
        /\ jobs'[j].status[i] = status
        /\ \A n \in 1..Len(jobs[j].items) : n # i => jobs'[j].status[n] = jobs[j].status[n]
        /\ runner'.job = j /\ runner'.item = i + 1 /\ runner'.results = <<>>
        /\ runner'.failed = (runner.failed \/ status \in {"rejected", "invalid"})
    BY <1>5, WriteStatusEffect, ItemsTyped
  <2> HIDE DEF status
  <2>2. 1..(runner'.item - 1) = 1..(i - 1) \cup {i} /\ i \notin 1..(i - 1)
        /\ 1..(i - 1) \subseteq 1..Len(jobs[j].items)
    BY <2>1
  <2>3. /\ \A n \in 1..(i - 1) : jobs[j].status[n] \in Statuses
        /\ runner.failed <=> \E n \in 1..(i - 1) : jobs[j].status[n] \in {"rejected", "invalid"}
    BY <2>1 DEF PassInv
  <2>4. \A n \in 1..(runner'.item - 1) : jobs'[j].status[n] \in Statuses
    BY <2>1, <2>2, <2>3
  <2>5. runner'.failed <=>
          \E n \in 1..(runner'.item - 1) : jobs'[j].status[n] \in {"rejected", "invalid"}
    <3>1. \A n \in 1..(i - 1) : jobs'[j].status[n] = jobs[j].status[n]
      BY <2>1, <2>2
    <3>2. (\E n \in 1..(runner'.item - 1) : jobs'[j].status[n] \in {"rejected", "invalid"})
            <=> \/ \E n \in 1..(i - 1) : jobs'[j].status[n] \in {"rejected", "invalid"}
                \/ status \in {"rejected", "invalid"}
      BY <2>1, <2>2
    <3> QED
      BY <2>1, <2>3, <3>1, <3>2
  <2>6. DOMAIN runner'.results = {}
    BY <2>1
  <2> QED
    BY <2>1, <2>4, <2>5, <2>6 DEF PassInv
<1>6. CASE Submit \/ ChangeAllowed \/ UNCHANGED vars
  BY <1>1, <1>6 DEF Submit, Stamp, Insert, ChangeAllowed, vars
<1> QED
  BY <1>2, <1>3, <1>4, <1>5, <1>6 DEF Next, RunOneJob, ProcessItem

LEMMA OutcomeStep ==
  ASSUME TypeOK, PassInv, OutcomeConsistent, [Next]_vars
  PROVE  OutcomeConsistent'
<1> SUFFICES ASSUME NEW j \in Jobs, Over(j)'
             PROVE  /\ \A i \in Positions(j)' : jobs'[j].status[i] \in Statuses
                    /\ jobs'[j].state = "completed" <=>
                          \A i \in Positions(j)' : jobs'[j].status[i] \in {"accepted", "duplicate"}
  BY DEF OutcomeConsistent
<1>1. CASE Over(j)
  BY <1>1, OverStep DEF OutcomeConsistent, Positions
<1>2. CASE EndJob /\ j = runner.job
  <2>1. /\ runner.pc = "item" /\ runner.item = Len(jobs[j].items) + 1 /\ SameContent(j)
        /\ jobs'[j].state = IF runner.failed THEN "completed_with_warnings" ELSE "completed"
    BY <1>2, EndJobEffect DEF Items
  <2>2. /\ Positions(j) = 1..Len(jobs[j].items) /\ Len(jobs[j].items) \in Nat
    BY ItemsTyped
  <2>3. 1..(runner.item - 1) = Positions(j)
    BY <2>1, <2>2
  <2>4. /\ \A i \in Positions(j) : jobs[j].status[i] \in Statuses
        /\ runner.failed <=> \E i \in Positions(j) : jobs[j].status[i] \in {"rejected", "invalid"}
    BY <1>2, <2>1, <2>3 DEF PassInv
  <2>5. Positions(j)' = Positions(j) /\ jobs'[j].status = jobs[j].status
    BY <2>1 DEF SameContent, Positions
  <2>6. (~runner.failed) <=> \A i \in Positions(j) : jobs[j].status[i] \in {"accepted", "duplicate"}
    BY <2>4 DEF Statuses
  <2> QED
    BY <2>1, <2>4, <2>5, <2>6
<1> QED
  BY <1>1, <1>2, OverStep

LEMMA SuccessStep ==
  ASSUME TypeOK, PassInv, SuccessIsStored, [Next]_vars
  PROVE  SuccessIsStored'
<1> DEFINE reported(j, i) == FilesOf(j, i) \cap Reports
           good(j, i) ==
             /\ jobs[j].status[i] = "accepted" => \E r \in reported(j, i) : stored[r] = <<j, i>>
             /\ jobs[j].status[i] = "duplicate" => \E r \in reported(j, i) : stored[r] # Null
<1> SUFFICES ASSUME NEW j \in Jobs, NEW i \in Positions(j)' PROVE good(j, i)'
  BY DEF SuccessIsStored
<1>0. TypeOK'
  BY TypeStep
<1>1. Positions(j)' = 1..Len(jobs'[j].items)
  BY <1>0, ItemsTyped DEF TypeOK, Positions
<1>2. \A r \in Reports : stored[r] # Null => stored'[r] = stored[r]
  BY StoredStays
<1>3. CASE jobs'[j].items = jobs[j].items /\ jobs'[j].status[i] = jobs[j].status[i]
  <2>1. i \in Positions(j) /\ reported(j, i)' = reported(j, i)
    BY <1>3 DEF Positions, FilesOf
  <2>2. good(j, i)
    BY <2>1 DEF SuccessIsStored
  <2>3. i \in Nat \ {0}
    BY <2>1, ItemsTyped
  <2>4. <<j, i>> # Null
    BY <2>3, ConstantsAssumption
  <2> QED
    BY <1>2, <1>3, <2>1, <2>2, <2>4
<1>4. CASE jobs'[j].status[i] \notin {"accepted", "duplicate"}
  BY <1>4
<1>5. CASE WriteStatus /\ j = runner.job
  <2>1. /\ runner.item \in 1..Len(jobs[j].items) /\ jobs'[j].items = jobs[j].items
        /\ jobs'[j].status[runner.item] = Combined(runner.results)
        /\ \A n \in 1..Len(jobs[j].items) : n # runner.item => jobs'[j].status[n] = jobs[j].status[n]
        /\ runner.pc = "item"
    BY <1>5, WriteStatusEffect
  <2>2. CASE i # runner.item
    BY <1>1, <1>3, <2>1, <2>2
  <2>3. CASE i = runner.item
    <3>1. /\ UNCHANGED stored /\ Len(runner.results) = Len(Files) /\ Files = jobs[j].items[i]
      BY <1>5, <2>3 DEF WriteStatus, Files, Items
    <3>2. Files \in Seq(Content) /\ runner.results \in Seq(Statuses)
      BY <1>5, <2>1, PassTyped DEF Items
    <3>3. DOMAIN runner.results = DOMAIN Files
      BY <3>1, <3>2
    <3>4. \A k \in DOMAIN runner.results : Files[k] \in FilesOf(j, i)'
      BY <2>1, <3>1, <3>3 DEF FilesOf
    <3>5. \A k \in DOMAIN runner.results :
             /\ runner.results[k] = "accepted" => Files[k] \in Reports /\ stored[Files[k]] = <<j, i>>
             /\ runner.results[k] = "duplicate" => Files[k] \in Reports /\ stored[Files[k]] # Null
      BY <1>5, <2>1, <2>3 DEF PassInv
    <3>6. /\ Combined(runner.results) = "accepted" =>
                \E k \in DOMAIN runner.results : runner.results[k] = "accepted"
          /\ Combined(runner.results) = "duplicate" =>
                \E k \in DOMAIN runner.results : runner.results[k] = "duplicate"
      BY <3>2, CombinedIsBest
    <3> QED
      BY <2>1, <2>3, <3>1, <3>4, <3>5, <3>6
  <2> QED
    BY <2>2, <2>3
<1>6. CASE Born(j)
  BY <1>1, <1>4, <1>6, ConstantsAssumption DEF Born, Statuses
<1>7. CASE EndJob /\ j = runner.job
  BY <1>3, <1>7, EndJobEffect DEF SameContent
<1>8. CASE jobs'[j] = NoJob
  BY <1>1, <1>8 DEF NoJob
<1>9. CASE jobs'[j] = jobs[j] \/ SameContent(j)
  BY <1>3, <1>9 DEF SameContent
<1> QED
  BY <1>5, <1>6, <1>7, <1>8, <1>9, JobStep

LEMMA OrderStep ==
  ASSUME TypeOK, OrderInv, [Next]_vars
  PROVE  OrderInv'
<1> SUFFICES ASSUME NEW j \in Jobs
             PROVE  /\ jobs'[j].state # "none" => jobs'[j].at < clock'
                    /\ \A k \in jobs'[j].before :
                          (Open(k)' \/ Over(k)') /\ jobs'[k].at < jobs'[j].at
                    /\ jobs'[j].state = "processing" \/ Over(j)' =>
                          \A k \in jobs'[j].before : Over(k)'
  BY DEF OrderInv
<1>1. /\ clock \in Nat /\ jobs[j].before \subseteq Jobs /\ jobs[j].at \in Nat
      /\ \A k \in Jobs : jobs[k].at \in Nat
  BY DEF TypeOK, Job
<1>2. clock' = clock \/ clock' = clock + 1
  BY DEF Next, Submit, RunOneJob, ProcessItem, Stamp, Insert, ChangeAllowed, Claim, TakeUp,
         Unparsed, Raise, CheckDomain, Duplicate, Persist, PersistFails, WriteStatus, EndJob,
         Interrupt, Restart, vars
<1>3. /\ jobs[j].state # "none" => jobs[j].at < clock
      /\ \A k \in jobs[j].before : (Open(k) \/ Over(k)) /\ jobs[k].at < jobs[j].at
      /\ jobs[j].state = "processing" \/ Over(j) => \A k \in jobs[j].before : Over(k)
  BY DEF OrderInv
<1>4. \A k \in Jobs : Open(k) \/ Over(k) => (Open(k)' \/ Over(k)') /\ jobs'[k].at = jobs[k].at
  BY KnownStep
<1>5. \A k \in Jobs : Over(k) => Over(k)'
  BY OverStep
\* A job that was there keeps its place; those before it keep theirs.
<1>6. ASSUME jobs'[j].at = jobs[j].at, jobs'[j].before = jobs[j].before,
             jobs'[j].state # "none" => jobs[j].state # "none",
             jobs'[j].state = "processing" \/ Over(j)' =>
                \A k \in jobs[j].before : Over(k)
      PROVE  /\ jobs'[j].state # "none" => jobs'[j].at < clock'
             /\ \A k \in jobs'[j].before :
                   (Open(k)' \/ Over(k)') /\ jobs'[k].at < jobs'[j].at
             /\ jobs'[j].state = "processing" \/ Over(j)' =>
                   \A k \in jobs'[j].before : Over(k)'
  <2>1. jobs'[j].state # "none" => jobs'[j].at < clock'
    BY <1>1, <1>2, <1>3, <1>6
  <2>2. \A k \in jobs'[j].before : (Open(k)' \/ Over(k)') /\ jobs'[k].at < jobs'[j].at
    BY <1>1, <1>3, <1>4, <1>6
  <2> QED
    BY <1>1, <1>5, <1>6, <2>1, <2>2
<1>7. CASE jobs'[j] = jobs[j]
  BY <1>3, <1>6, <1>7 DEF Over
<1>8. CASE Born(j)
  <2>1. /\ jobs'[j].state = "stamped" /\ jobs'[j].at = clock /\ clock' = clock + 1
        /\ jobs'[j].before = {k \in Jobs : Open(k) \/ Over(k)}
    BY <1>8 DEF Born
  <2>2. \A k \in jobs'[j].before : jobs[k].at < clock
    BY <2>1 DEF OrderInv, Open, Over
  <2> QED
    BY <1>1, <1>4, <2>1, <2>2 DEF Over
<1>9. CASE jobs[j].state = "stamped" /\ jobs'[j].state = "queued" /\ SameContent(j)
  BY <1>6, <1>9 DEF SameContent, Over
<1>10. CASE Claim(j) /\ jobs'[j].state = "processing" /\ SameContent(j)
  <2>1. Open(j) /\ \A k \in Jobs : Open(k) => jobs[j].at <= jobs[k].at
    BY <1>10 DEF Claim, Oldest
  <2>2. \A k \in jobs[j].before : Over(k)
    BY <1>1, <1>3, <2>1
  <2> QED
    BY <1>6, <1>10, <2>1, <2>2 DEF SameContent, Open
<1>11. CASE WriteStatus /\ j = runner.job
  <2>1. /\ jobs[j].state = "processing" /\ jobs'[j].at = jobs[j].at
        /\ jobs'[j].before = jobs[j].before
    BY <1>11, WriteStatusEffect
  <2> QED
    BY <1>3, <1>6, <2>1
<1>12. CASE EndJob /\ j = runner.job
  <2>1. jobs[j].state = "processing" /\ SameContent(j)
    BY <1>12, EndJobEffect
  <2> QED
    BY <1>3, <1>6, <2>1 DEF SameContent
<1>13. CASE jobs'[j] = NoJob
  BY <1>13 DEF NoJob, Over
<1> QED
  BY <1>7, <1>8, <1>9, <1>10, <1>11, <1>12, <1>13, JobStep

LEMMA CreditStep ==
  ASSUME TypeOK, CreditInv, [Next]_vars
  PROVE  CreditInv'
<1> SUFFICES ASSUME NEW r \in Reports, stored'[r] # Null, NEW j, NEW i,
                    j = stored'[r][1], i = stored'[r][2]
             PROVE  Credited(j, i)'
  BY DEF CreditInv
<1>1. CASE stored'[r] = stored[r]
  <2>1. j \in Jobs /\ i \in Nat \ {0}
    BY <1>1 DEF TypeOK
  <2>2. Credited(j, i)
    BY <1>1 DEF CreditInv
  <2>3. jobs[j].state = "processing" \/ Over(j)
    BY <2>2 DEF Credited
  <2>4. /\ jobs'[j].items = jobs[j].items
        /\ jobs'[j].state = "processing" \/ Over(j)'
    BY <2>1, <2>3, KnownStep DEF Open
  <2>5. i \in Positions(j)'
    BY <2>2, <2>4 DEF Credited, Positions
  <2>6. ASSUME Over(j)', ~jobs'[j].reclaimed PROVE jobs'[j].status[i] = "accepted"
    <3>1. CASE Over(j)
      BY <2>1, <2>2, <2>6, <3>1, OverStep DEF Credited
    <3>2. CASE EndJob /\ j = runner.job
      <4>1. /\ runner.pc = "item" /\ runner.item = Len(Items) + 1
            /\ jobs'[j].reclaimed = jobs[j].reclaimed /\ SameContent(j)
        BY <3>2, EndJobEffect
      <4>2. i \in 1..Len(jobs[j].items) /\ Len(jobs[j].items) \in Nat
        BY <2>1, <2>2, ItemsTyped DEF Credited
      <4>3. i # runner.item
        BY <3>2, <4>1, <4>2 DEF Items
      <4> QED
        BY <2>2, <2>6, <3>2, <4>1, <4>3 DEF Credited, SameContent
    <3> QED
      BY <2>1, <2>6, <3>1, <3>2, OverStep
  <2>7. ASSUME runner'.pc # "idle", runner'.job = j, ~jobs'[j].reclaimed
        PROVE  \/ i < runner'.item /\ jobs'[j].status[i] = "accepted"
               \/ i = runner'.item /\ \E k \in DOMAIN runner'.results :
                                         runner'.results[k] = "accepted"
    <3>1. CASE Submit \/ ChangeAllowed \/ UNCHANGED vars
      <4>1. runner' = runner
        BY <3>1 DEF Submit, Stamp, Insert, ChangeAllowed, vars
      <4>2. ~Claim(j) /\ ~WriteStatus /\ ~EndJob
        <5>1. WriteStatus => runner'.item = runner.item + 1 /\ runner.item \in Nat
          BY WriteStatusEffect, PassTyped DEF TypeOK, Pass
        <5>2. EndJob => runner'.pc = "idle"
          BY DEF EndJob, Idle
        <5> QED
          BY <2>7, <4>1, <5>1, <5>2 DEF Claim
      <4>3. jobs'[j] = jobs[j]
        BY <2>1, <2>3, <4>2, JobStep DEF Born, Over
      <4> QED
        BY <2>2, <2>7, <4>1, <4>3 DEF Credited
    <3>2. ASSUME NEW c \in Jobs, Claim(c) PROVE FALSE
      <4>1. c = j
        BY <2>7, <3>2, ClaimEffect
      <4>2. jobs[j].state = "processing"
        BY <2>3, <3>2, <4>1 DEF Claim, Oldest, Open, Over
      <4>3. jobs'[j].reclaimed = TRUE
        BY <3>2, <4>1, <4>2, ClaimEffect
      <4> QED
        BY <2>7, <4>3
    <3>3. CASE Unparsed \/ CheckDomain \/ Duplicate \/ Persist \/ PersistFails
      <4>1. /\ UNCHANGED jobs /\ runner.pc # "idle" /\ runner.item <= Len(Items)
            /\ Len(runner.results) < Len(Files)
        BY <3>3, FileStep
      <4>2. /\ runner'.job = runner.job /\ runner'.item = runner.item
            /\ \A k \in DOMAIN runner.results :
                  k \in DOMAIN runner'.results /\ runner'.results[k] = runner.results[k]
        <5>1. CASE runner' = [runner EXCEPT !.pc = "store"]
          BY <5>1 DEF TypeOK, Pass
        <5>2. CASE \E s \in Statuses : Outcome(s)
          BY <4>1, <5>2, OutcomeTyped
        <5> QED
          BY <3>3, <5>1, <5>2, FileStep
      <4> QED
        BY <2>2, <2>7, <4>1, <4>2 DEF Credited
    <3>4. CASE WriteStatus
      <4>1. /\ runner.pc = "item" /\ runner.job = j /\ runner.item \in Nat
            /\ jobs'[j].reclaimed = jobs[j].reclaimed
            /\ jobs'[j].status[runner.item] = Combined(runner.results)
            /\ \A n \in 1..Len(jobs[j].items) :
                  n # runner.item => jobs'[j].status[n] = jobs[j].status[n]
            /\ runner'.item = runner.item + 1
        BY <2>7, <3>4, WriteStatusEffect DEF TypeOK, Pass
      <4>2. i \in 1..Len(jobs[j].items)
        BY <2>1, <2>2, ItemsTyped DEF Credited
      <4>3. (\E k \in DOMAIN runner.results : runner.results[k] = "accepted")
               => Combined(runner.results) = "accepted"
        BY <4>1, PassTyped, CombinedIsBest
      <4> QED
        BY <2>1, <2>2, <2>7, <4>1, <4>2, <4>3 DEF Credited
    <3>5. CASE Raise \/ Interrupt \/ Restart \/ EndJob
      BY <2>7, <3>5 DEF Raise, Interrupt, Restart, EndJob, Idle
    <3> QED
      BY <3>1, <3>2, <3>3, <3>4, <3>5 DEF Next, RunOneJob, ProcessItem
  <2> QED
    BY <2>4, <2>5, <2>6, <2>7 DEF Credited
<1>2. CASE /\ Outcome("accepted") /\ stored'[r] = <<runner.job, runner.item>>
           /\ runner.pc # "idle" /\ runner.item <= Len(Items)
           /\ Len(runner.results) < Len(Files) /\ UNCHANGED jobs
  <2>1. j = runner.job /\ i = runner.item
    BY <1>2
  <2>2. j \in Jobs /\ jobs[j].state = "processing" /\ i \in Positions(j)
    BY <1>2, <2>1, PassTyped, ItemsTyped DEF Items
  <2>3. /\ runner'.item = i
        /\ \E k \in DOMAIN runner'.results : runner'.results[k] = "accepted"
    <3>1. "accepted" \in Statuses
      BY DEF Statuses
    <3>2. Len(runner.results) + 1 \in DOMAIN runner'.results
      BY <1>2, <3>1, OutcomeTyped
    <3>3. runner'.item = runner.item /\ runner'.results[Len(runner.results) + 1] = "accepted"
      BY <1>2, <3>1, OutcomeTyped
    <3> QED
      BY <2>1, <3>2, <3>3
  <2>4. jobs'[j].state = "processing" /\ ~Over(j)' /\ i \in Positions(j)'
    BY <1>2, <2>2 DEF Over, Positions
  <2> QED
    BY <2>3, <2>4 DEF Credited
<1> QED
  BY <1>1, <1>2, StoredStep

-------------------------------------------------------------------------------
(* Theorems.                                                               *)

QueueInv ==
    /\ TypeOK
    /\ PassInv /\ OutcomeConsistent /\ SuccessIsStored
    /\ OrderInv
    /\ CreditInv

LEMMA QueueInvInit == Init => QueueInv
<1> SUFFICES ASSUME Init PROVE QueueInv
  OBVIOUS
<1>0. \A j \in Jobs : /\ jobs[j].state = "none" /\ jobs[j].before = {}
                       /\ jobs[j].items = <<>>
  BY DEF Init, NoJob
<1>1. \A j \in Jobs : ~Over(j) /\ Positions(j) = {}
  <2>1. DOMAIN <<>> = {}
    OBVIOUS
  <2> QED
    BY <1>0, <2>1 DEF Over, Positions
<1>2. runner.pc = "idle" /\ \A r \in Reports : stored[r] = Null
  BY DEF Init, Idle
<1>3. OrderInv
  BY <1>0, <1>1 DEF OrderInv
<1> QED
  BY <1>1, <1>2, <1>3, TypeInit
     DEF QueueInv, PassInv, OutcomeConsistent, SuccessIsStored, CreditInv

LEMMA QueueInvStep == QueueInv /\ [Next]_vars => QueueInv'
BY TypeStep, PassStep, OutcomeStep, SuccessStep, OrderStep, CreditStep DEF QueueInv

LEMMA QueueInvHolds == Spec => []QueueInv
BY QueueInvInit, QueueInvStep, PTL DEF Spec

\* The tables and the pass under way keep their types, whatever is submitted and
\* wherever a pass is interrupted.
THEOREM QueueTypeCorrect == Spec => []TypeOK
<1>1. QueueInv => TypeOK
  BY DEF QueueInv
<1> QED
  BY <1>1, QueueInvHolds, PTL

\* A job that is over has an outcome for every item and a state that tells of
\* failures, after any number of passes.
THEOREM OutcomesAlwaysConsistent == Spec => []OutcomeConsistent
<1>1. QueueInv => OutcomeConsistent
  BY DEF QueueInv
<1> QED
  BY <1>1, QueueInvHolds, PTL

\* An item reported as accepted or duplicate has its report in the tables.
THEOREM SuccessAlwaysStored == Spec => []SuccessIsStored
<1>1. QueueInv => SuccessIsStored
  BY DEF QueueInv
<1> QED
  BY <1>1, QueueInvHolds, PTL

\* A stored report is credited to its item when its job ends in its first pass.
THEOREM StoredAlwaysCredited == Spec => []StoredIsCredited
<1>1. QueueInv => StoredIsCredited
  BY DEF QueueInv, CreditInv, Credited, StoredIsCredited, Over
<1> QED
  BY <1>1, QueueInvHolds, PTL

\* Jobs end in the order in which they arrived in the queue.
THEOREM JobsAlwaysInOrder == Spec => []InOrder
<1>1. QueueInv => InOrder
  BY DEF QueueInv, OrderInv, InOrder
<1> QED
  BY <1>1, QueueInvHolds, PTL
===============================================================================
