------------------------------ MODULE IngestRunner ------------------------------
(***************************************************************************)
(* The ingest queue: the API server's threads create jobs                  *)
(* (create_ingest_job in backend/services/ingest_service.py) and the one   *)
(* runner thread claims the oldest, works through its items and the report *)
(* files packed in each (run_one_job in backend/jobs/runner.py).           *)
(*                                                                         *)
(* Nothing of a pass survives an exception or a restart but what it has    *)
(* committed: stored reports and item statuses.  The job stays             *)
(* "processing" and the next pass takes it up again from its first item.   *)
(***************************************************************************)
EXTENDS Naturals, Sequences

CONSTANTS
    Jobs,            \* the ids that submissions may draw
    Reports,         \* report keys: kind, report_id and domain
    Envelopes,       \* what a submission may carry: a sequence of items, each
                     \* the sequence of the files found in it
    MaxInterrupts,   \* bound on the passes that fail or are killed
    Null

\* What a file in an item can be, besides a report.
Unreadable == "unreadable"   \* no parser accepts it
Raising == "raising"         \* the code that reads it raises

\* The outcome of a file, and of an item.
Statuses == {"accepted", "duplicate", "rejected", "invalid"}

ASSUME ConstantsAssumption ==
    /\ Envelopes \subseteq Seq(Seq(Reports \cup {Unreadable, Raising}))
    /\ Unreadable \notin Reports /\ Raising \notin Reports
    /\ MaxInterrupts \in Nat
    /\ Null \notin Jobs /\ Null \notin Jobs \X (Nat \ {0}) /\ Null \notin Statuses

VARIABLES
    clock,       \* submission timestamps drawn so far
    jobs,        \* tables ingest_jobs and ingest_job_items
    stored,      \* tables of reports: the item each report was stored for
    allowed,     \* the reports whose domain can be ingested for at this moment
    runner,      \* the pass under way, in the runner thread's memory
    interrupts   \* passes that failed or were killed (bounded)

vars == <<clock, jobs, stored, allowed, runner, interrupts>>

\* before and reclaimed are history: the jobs that were already in the table when
\* this one drew its timestamp, and whether a pass took it up after another.
Job == [state : {"none", "stamped", "queued", "processing",
                 "completed", "completed_with_warnings"},
        at : Nat, items : Envelopes \cup {<<>>}, status : Seq(Statuses \cup {Null}),
        before : SUBSET Jobs, reclaimed : BOOLEAN]

NoJob == [state |-> "none", at |-> 0, items |-> <<>>, status |-> <<>>,
          before |-> {}, reclaimed |-> FALSE]

Pass == [pc : {"idle", "item", "store"}, job : Jobs \cup {Null}, item : Nat,
         results : Seq(Statuses), failed : BOOLEAN]

Idle == [pc |-> "idle", job |-> Null, item |-> 0, results |-> <<>>, failed |-> FALSE]

\* Faulty variant: a job that was interrupted is never taken up again.
OpenOnce(j) == jobs[j].state = "queued"
Open(j) == jobs[j].state \in {"queued", "processing"}
Over(j) == jobs[j].state \in {"completed", "completed_with_warnings"}

Init ==
    /\ clock = 0
    /\ jobs = [j \in Jobs |-> NoJob]
    /\ stored = [r \in Reports |-> Null]
    /\ allowed \in SUBSET Reports
    /\ runner = Idle
    /\ interrupts = 0

-------------------------------------------------------------------------------
(* create_ingest_job: the timestamp is drawn before the insert.            *)

Stamp(j, envelope) ==
    /\ jobs[j].state = "none"
    /\ jobs' = [jobs EXCEPT ![j] =
          [NoJob EXCEPT !.state = "stamped", !.at = clock, !.items = envelope,
                        !.status = [i \in DOMAIN envelope |-> Null],
                        !.before = {k \in Jobs : Open(k) \/ Over(k)}]]
    /\ clock' = clock + 1
    /\ UNCHANGED <<stored, allowed, runner, interrupts>>

Insert(j) ==
    /\ jobs[j].state = "stamped"
    /\ jobs' = [jobs EXCEPT ![j].state = "queued"]
    /\ UNCHANGED <<clock, stored, allowed, runner, interrupts>>

\* Archiving, restoring, assigning, binding: whatever can_ingest_for_domain
\* depends on changes at any time.
ChangeAllowed ==
    /\ allowed' \in SUBSET Reports \ {allowed}
    /\ UNCHANGED <<clock, jobs, stored, runner, interrupts>>

-------------------------------------------------------------------------------
(* One pass of the runner over one job.                                    *)

TakeUp(j, item) ==
    /\ jobs' = [jobs EXCEPT ![j].state = "processing",
                            ![j].reclaimed = (jobs[j].state = "processing")]
    /\ runner' = [Idle EXCEPT !.pc = "item", !.job = j, !.item = item]
    /\ UNCHANGED <<clock, stored, allowed, interrupts>>

Oldest(j) == Open(j) /\ \A k \in Jobs : Open(k) => jobs[j].at <= jobs[k].at

\* Faulty variant: takes any open job.
ClaimAny(j) == runner.pc = "idle" /\ Open(j) /\ TakeUp(j, 1)

\* Faulty variant: goes on with the first item that has no status.
ClaimResuming(j) ==
    /\ runner.pc = "idle" /\ Oldest(j)
    /\ \E n \in 1..Len(jobs[j].items) + 1 :
          /\ \A i \in 1..(n - 1) : jobs[j].status[i] # Null
          /\ n <= Len(jobs[j].items) => jobs[j].status[n] = Null
          /\ TakeUp(j, n)

\* The oldest job that is queued or was left processing, from its first item.
Claim(j) == runner.pc = "idle" /\ Oldest(j) /\ TakeUp(j, 1)

Items == jobs[runner.job].items
Files == Items[runner.item]
File == Files[Len(runner.results) + 1]
AtFile == /\ runner.pc = "item" /\ runner.item <= Len(Items)
          /\ Len(runner.results) < Len(Files)

\* The outcome of the current file; the next one is up.
Outcome(status) ==
    runner' = [runner EXCEPT !.pc = "item", !.results = Append(@, status)]

Unparsed ==
    /\ AtFile /\ File = Unreadable
    /\ Outcome("invalid")
    /\ UNCHANGED <<clock, jobs, stored, allowed, interrupts>>

\* run_loop logs the exception; the job keeps its state and its statuses.
Raise ==
    /\ AtFile /\ File = Raising
    /\ runner' = Idle
    /\ UNCHANGED <<clock, jobs, stored, allowed, interrupts>>

CheckDomain ==
    /\ AtFile /\ File \in Reports
    /\ IF File \in allowed THEN runner' = [runner EXCEPT !.pc = "store"]
                           ELSE Outcome("rejected")
    /\ UNCHANGED <<clock, jobs, stored, allowed, interrupts>>

Duplicate ==
    /\ runner.pc = "store" /\ stored[File] # Null
    /\ Outcome("duplicate")
    /\ UNCHANGED <<clock, jobs, stored, allowed, interrupts>>

Persist ==
    /\ runner.pc = "store" /\ stored[File] = Null
    /\ stored' = [stored EXCEPT ![File] = <<runner.job, runner.item>>]
    /\ Outcome("accepted")
    /\ UNCHANGED <<clock, jobs, allowed, interrupts>>

\* Faulty variant: the failure is logged and forgotten.
PersistFailsSilently ==
    /\ runner.pc = "store" /\ stored[File] = Null
    /\ Outcome("accepted")
    /\ UNCHANGED <<clock, jobs, stored, allowed, interrupts>>

\* The insert fails and is rolled back.
PersistFails ==
    /\ runner.pc = "store" /\ stored[File] = Null
    /\ Outcome("invalid")
    /\ UNCHANGED <<clock, jobs, stored, allowed, interrupts>>

\* Faulty variant: the outcome of the last file stands for the item.
CombinedLast(results) == IF results = <<>> THEN "invalid" ELSE results[Len(results)]

\* The best outcome of the files of an item stands for the item.
Combined(results) ==
    LET has(status) == \E k \in DOMAIN results : results[k] = status IN
    CHOOSE s \in Statuses :
        \/ s = "accepted" /\ has("accepted")
        \/ s = "duplicate" /\ has("duplicate") /\ ~has("accepted")
        \/ s = "rejected" /\ has("rejected") /\ ~has("accepted") /\ ~has("duplicate")
        \/ s = "invalid" /\ \A k \in DOMAIN results : results[k] = "invalid"

\* Faulty variant: the outcomes of this item's files count for the next too.
WriteStatusOnly ==
    LET status == Combined(runner.results) IN
    /\ runner.pc = "item" /\ runner.item <= Len(Items)
    /\ Len(runner.results) = Len(Files)
    /\ jobs' = [jobs EXCEPT ![runner.job].status[runner.item] = status]
    /\ runner' = [runner EXCEPT !.item = @ + 1,
                                !.failed = @ \/ status \in {"rejected", "invalid"}]
    /\ UNCHANGED <<clock, stored, allowed, interrupts>>

WriteStatus ==
    LET status == Combined(runner.results) IN
    /\ runner.pc = "item" /\ runner.item <= Len(Items)
    /\ Len(runner.results) = Len(Files)
    /\ jobs' = [jobs EXCEPT ![runner.job].status[runner.item] = status]
    /\ runner' = [runner EXCEPT !.item = @ + 1, !.results = <<>>,
                                !.failed = @ \/ status \in {"rejected", "invalid"}]
    /\ UNCHANGED <<clock, stored, allowed, interrupts>>

EndJob ==
    /\ runner.pc = "item" /\ runner.item > Len(Items)
    /\ jobs' = [jobs EXCEPT ![runner.job].state =
                   IF runner.failed THEN "completed_with_warnings" ELSE "completed"]
    /\ runner' = Idle
    /\ UNCHANGED <<clock, stored, allowed, interrupts>>

-------------------------------------------------------------------------------
(* What can stop a pass.                                                   *)

\* An exception outside the handlers of a pass: a locked database, say.
Interrupt ==
    /\ runner.pc # "idle" /\ interrupts < MaxInterrupts
    /\ runner' = Idle
    /\ interrupts' = interrupts + 1
    /\ UNCHANGED <<clock, jobs, stored, allowed>>

\* The process dies: submissions not yet inserted are lost with it.
Restart ==
    /\ interrupts < MaxInterrupts
    /\ interrupts' = interrupts + 1
    /\ runner' = Idle
    /\ jobs' = [j \in Jobs |-> IF jobs[j].state = "stamped" THEN NoJob ELSE jobs[j]]
    /\ UNCHANGED <<clock, stored, allowed>>

Submit == \E j \in Jobs : Insert(j) \/ \E envelope \in Envelopes : Stamp(j, envelope)

ProcessItem == Unparsed \/ Raise \/ CheckDomain \/ Duplicate \/ Persist \/ PersistFails
               \/ WriteStatus
RunOneJob == (\E j \in Jobs : Claim(j)) \/ ProcessItem \/ EndJob

Next == Submit \/ ChangeAllowed \/ RunOneJob \/ Interrupt \/ Restart

Spec == Init /\ [][Next]_vars

\* run_loop calls run_one_job for ever.
FairSpec == Spec /\ WF_vars(RunOneJob)

-------------------------------------------------------------------------------
(* Properties.                                                             *)

\* Well-typed tables, and a pass that fits the job it has claimed: its position
\* lies inside the job and it holds no more outcomes than the item has files.
TypeOK ==
    /\ clock \in Nat /\ interrupts \in 0..MaxInterrupts
    /\ jobs \in [Jobs -> Job]
    /\ \A j \in Jobs : Len(jobs[j].status) = Len(jobs[j].items)
    /\ stored \in [Reports -> {Null} \cup (Jobs \X (Nat \ {0}))]
    /\ allowed \subseteq Reports
    /\ runner \in Pass
    /\ runner.pc # "idle" =>
          /\ runner.job \in Jobs /\ jobs[runner.job].state = "processing"
          /\ runner.item \in 1..Len(Items) + 1
          /\ Len(runner.results) <= IF runner.item <= Len(Items) THEN Len(Files) ELSE 0
    /\ runner.pc = "store" => /\ runner.item <= Len(Items)
                              /\ Len(runner.results) < Len(Files)
                              /\ File \in Reports

Positions(j) == DOMAIN jobs[j].items
FilesOf(j, i) == {jobs[j].items[i][k] : k \in DOMAIN jobs[j].items[i]}

\* A job that is over has an outcome for every item, and its state tells
\* whether one of them failed, however often it was interrupted and begun again.
OutcomeConsistent ==
    \A j \in Jobs : Over(j) =>
        /\ \A i \in Positions(j) : jobs[j].status[i] \in Statuses
        /\ jobs[j].state = "completed" <=>
              \A i \in Positions(j) : jobs[j].status[i] \in {"accepted", "duplicate"}

\* A success that the submitter is told of (and on which the IMAP collector
\* drops its copy) rests on a stored report: an accepted item is the one a
\* report of it was stored for, a duplicate has a report that is stored.
SuccessIsStored ==
    \A j \in Jobs : \A i \in Positions(j) :
        LET reported == FilesOf(j, i) \cap Reports IN
        /\ jobs[j].status[i] = "accepted" => \E r \in reported : stored[r] = <<j, i>>
        /\ jobs[j].status[i] = "duplicate" => \E r \in reported : stored[r] # Null

\* A report stored for an item shows in the item's status as accepted once the
\* job is over, unless a pass over the job was interrupted (the next pass then
\* finds a duplicate, or a domain that is no longer active).
StoredIsCredited ==
    \A r \in Reports : stored[r] # Null =>
        LET job == jobs[stored[r][1]] IN
        job.state \in {"completed", "completed_with_warnings"} /\ ~job.reclaimed
            => job.status[stored[r][2]] = "accepted"

\* First come, first served: a job that is over had no unfinished job before it.
InOrder ==
    \A j \in Jobs : Over(j) => \A k \in jobs[j].before : Over(k)

Raises(j) == \E i \in Positions(j) : Raising \in FilesOf(j, i)

\* Every job in the queue ends, unless a job with a file that makes the code
\* raise comes to the head of the queue.
JobsEndUnlessBlocked ==
    \A j \in Jobs :
        jobs[j].state = "queued"
            ~> Over(j) \/ \E k \in Jobs : Raises(k) /\ jobs[k].state = "processing"

\* Outcomes are tracked per item: whatever a file in some job is, every other
\* job ends.
HealthyJobsEnd ==
    \A j \in Jobs : jobs[j].state = "queued" /\ ~Raises(j) ~> Over(j)
===============================================================================
