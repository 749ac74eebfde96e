------------------------- MODULE DomainMaintenance -------------------------
(***************************************************************************)
(* Maintenance jobs of domains (services/domain_maintenance_service.py)    *)
(* and DNS monitoring (services/domain_monitoring_service.py): request     *)
(* threads queue jobs and change settings, the runner thread queues due    *)
(* checks, claims the oldest job and works it off, step by step.           *)
(*                                                                         *)
(* A call is cut where it lets others in: before every first write of a    *)
(* connection (SQLite locks nothing until then), at every commit and       *)
(* during the DNS queries.  Of the job rows the model keeps those in       *)
(* flight, by submitted_at, which is drawn before the insert: a row may    *)
(* enter before rows that were there first.  Times are distances:          *)
(* next_check is what is left until the check, last_triggered the age of   *)
(* the last trigger, up to the point where more of it makes no difference. *)
(***************************************************************************)
EXTENDS Integers, Sequences, FiniteSets, SequencesExt, FiniteSetsExt

CONSTANTS
    Domains,         \* domain ids; a name is never registered twice here
    Handlers,        \* request threads
    Published,       \* what the DNS may publish for a domain
    Unreadable,      \* the part of it that cannot be compared (a pct that is no number)
    SelectorSets,    \* DKIM selectors the settings may name
    MinTrigger,      \* MIN_TRIGGER_INTERVAL_SECONDS
    CheckIntervals,  \* what _clamp_interval makes of the records' TTLs
    MaxInterval,     \* its upper limit
    MaxFaults,       \* bound on failed writes, failed lookups and crashes
    Null

\* What a check finds, and an entry of the timeline
Snapshot == [published : Published, selectors : SelectorSets]
Entry == [previous : Snapshot \union {Null}, current : Snapshot]

ASSUME MaintenanceAssumption ==
    /\ IsFiniteSet(Domains) /\ IsFiniteSet(Handlers)
    /\ Unreadable \subseteq Published
    /\ {MinTrigger, MaxInterval, MaxFaults} \subseteq Nat
    /\ CheckIntervals \subseteq 1 .. MaxInterval
    /\ Null \notin Domains \union Handlers \union Published
    /\ Null \notin Snapshot \union Entry

VARIABLES
    \* the database
    domains,     \* table domains: status and monitoring_* columns; alignment of its reports
    current,     \* domain_monitoring_current_state, Null without a row
    history,     \* newest row of domain_monitoring_history, Null without one
    queue,       \* rows of domain_maintenance_jobs in flight, by submitted_at
    \* the threads
    handler,     \* calls under way
    runner,      \* the runner thread
    faults       \* faults so far

database == <<domains, current, history, queue>>
vars == <<domains, current, history, queue, handler, runner, faults>>

Recompute == "recompute_aggregate_reports"
Check == "check_dns_monitoring"

DomainRow == [status : {"active", "archived", "gone"},
              aligned : BOOLEAN,
              enabled : BOOLEAN,
              next_check : 0 .. MaxInterval \union {Null},
              last_triggered : 0 .. MinTrigger,
              failure_active : BOOLEAN,
              selectors : SelectorSets]
JobRow == [action : {Recompute, Check}, domain : Domains, state : {"queued", "processing"}]

CallState == [op : {"idle", "recompute", "recompute_insert", "check", "check_in_flight",
                    "check_touch", "check_insert", "settings"},
              domain : Domains \union {Null}, newer : Nat]
TurnState == [pc : {"schedule", "schedule_check", "schedule_insert", "claim", "process",
                    "recompute", "check", "lookup", "store_failure", "store", "complete",
                    "audit", "fail"},
              due : SUBSET Domains, domain : Domains \union {Null}, newer : Nat, job : Nat,
              selectors : SelectorSets \union {Null}, previous : Snapshot \union {Null},
              found : Snapshot \union {Null}, scanned : BOOLEAN]

\* newer: the rows inserted since the call looked for one in flight; job: the position of
\* the row the runner works on, 0 without one
Idle == [op |-> "idle", domain |-> Null, newer |-> 0]
Asleep == [pc |-> "schedule", due |-> {}, domain |-> Null, newer |-> 0, job |-> 0,
           selectors |-> Null, previous |-> Null, found |-> Null, scanned |-> FALSE]

Exists(d) == domains[d].status # "gone"

\* _has_inflight_monitoring_job and the conflict query of enqueue_recompute_job
JobsOf(d, action) == {i \in DOMAIN queue : queue[i].domain = d /\ queue[i].action = action}

Init ==
    /\ domains \in [Domains -> [status : {"active"}, aligned : {FALSE},
                                enabled : {FALSE}, next_check : {Null},
                                last_triggered : {MinTrigger}, failure_active : {FALSE},
                                selectors : SelectorSets]]
    /\ current = [d \in Domains |-> Null] /\ history = [d \in Domains |-> Null]
    /\ queue = <<>>
    /\ handler = [h \in Handlers |-> Idle]
    /\ runner = Asleep
    /\ faults = 0

----------------------------------------------------------------------------
(* Request threads.                                                        *)

\* _get_domain_for_actor, get_visible_domain: who may act on a domain they are assigned to
Visible(d, role) == Exists(d) /\ (role = "super-admin" \/ domains[d].status = "active")

Begin(h, op, d) ==
    /\ handler[h] = Idle
    /\ \E role \in {"super-admin", "admin", "api_key"} :
          /\ role = "api_key" => op = "check"
          /\ Visible(d, role)
    /\ handler' = [handler EXCEPT ![h] = [Idle EXCEPT !.op = op, !.domain = d]]
    /\ UNCHANGED <<database, runner, faults>>

Goto(h, op) ==
    handler' = [handler EXCEPT ![h] = IF op = "idle" THEN Idle ELSE [@ EXCEPT !.op = op]]
At(h, op) == handler[h].op = op

\* A row for each domain: the first was stamped before the write lock was there and may
\* come before the newer rows, the others are stamped under it.
Insert(action, ds, position) ==
    LET rows == [i \in DOMAIN ds |-> [action |-> action, domain |-> ds[i], state |-> "queued"]]
    IN  queue' = InsertAt(queue, position, rows[1]) \o Tail(rows)
Positions(newer) == {Len(queue) + 1 - k : k \in 0 .. Min({newer, Len(queue)})}

\* Calls about to insert will do so with an older stamp, perhaps.
Newer(call, n) == Min({call.newer + n, Len(queue) + n})
Overtake(except, n) ==
    [h \in Handlers |->
        IF h = except THEN Idle
        ELSE IF handler[h].op \in {"recompute_insert", "check_insert"}
        THEN [handler[h] EXCEPT !.newer = Newer(handler[h], n)] ELSE handler[h]]

Touched(rows, ds) ==
    [d \in Domains |-> IF d \in ds /\ rows[d].status # "gone"
                       THEN [rows[d] EXCEPT !.last_triggered = 0] ELSE rows[d]]

\* enqueue_recompute_job: the job in flight, if any, makes it a conflict.
RecomputeCheck(h) ==
    /\ At(h, "recompute")
    /\ Goto(h, IF JobsOf(handler[h].domain, Recompute) # {} THEN "idle" ELSE "recompute_insert")
    /\ UNCHANGED <<database, runner, faults>>

InsertByCall(h, action) ==
    /\ \E position \in Positions(handler[h].newer) :
          /\ Insert(action, <<handler[h].domain>>, position)
          /\ runner' = [runner EXCEPT
                !.job = IF @ >= position THEN @ + 1 ELSE @,
                !.newer = IF runner.pc = "schedule_insert" THEN Newer(runner, 1) ELSE @]
    /\ handler' = Overtake(h, 1)
    /\ UNCHANGED <<current, history, faults>>

RecomputeInsert(h) ==
    /\ At(h, "recompute_insert")
    /\ InsertByCall(h, Recompute)
    /\ UNCHANGED domains

\* enqueue_monitoring_check: too recent a trigger is suppressed; with a check in flight
\* only the trigger is noted.
CheckRecent(h) ==
    /\ At(h, "check")
    /\ Goto(h, IF domains[handler[h].domain].last_triggered < MinTrigger
               THEN "idle" ELSE "check_in_flight")
    /\ UNCHANGED <<database, runner, faults>>

\* Faulty variant: only a check that is already being worked on counts as in flight.
CheckInFlightProcessing(h) ==
    /\ At(h, "check_in_flight")
    /\ Goto(h, IF \E i \in JobsOf(handler[h].domain, Check) : queue[i].state = "processing"
               THEN "check_touch" ELSE "check_insert")
    /\ UNCHANGED <<database, runner, faults>>

CheckInFlight(h) ==
    /\ At(h, "check_in_flight")
    /\ Goto(h, IF JobsOf(handler[h].domain, Check) # {} THEN "check_touch" ELSE "check_insert")
    /\ UNCHANGED <<database, runner, faults>>
CheckTouch(h) ==
    /\ At(h, "check_touch")
    /\ domains' = Touched(domains, {handler[h].domain})
    /\ Goto(h, "idle")
    /\ UNCHANGED <<current, history, queue, runner, faults>>
CheckInsert(h) ==
    /\ At(h, "check_insert")
    /\ InsertByCall(h, Check)
    /\ domains' = Touched(domains, {handler[h].domain})

\* update_monitoring_settings: switching on asks for a check at once.
Settings(h) ==
    /\ At(h, "settings")
    /\ \E enabled \in BOOLEAN, selectors \in SelectorSets :
          LET d == handler[h].domain
          IN  domains' = [domains EXCEPT ![d] =
                 IF Exists(d)
                 THEN [@ EXCEPT !.enabled = enabled, !.selectors = selectors,
                                !.next_check = IF enabled THEN 0 ELSE Null]
                 ELSE @]
    /\ Goto(h, "idle")
    /\ UNCHANGED <<current, history, queue, runner, faults>>

\* The other calls on domains, whole: their own steps are those of DomainLifecycle.
Archive(d) ==
    /\ domains[d].status = "active"
    /\ domains' = [domains EXCEPT ![d].status = "archived"]
    /\ UNCHANGED <<current, history, queue, handler, runner, faults>>
Restore(d) ==
    /\ domains[d].status = "archived"
    /\ domains' = [domains EXCEPT ![d].status = "active"]
    /\ UNCHANGED <<current, history, queue, handler, runner, faults>>

\* The positions of S from first to last
InOrder(S) == {rows \in [1 .. Cardinality(S) -> S] :
                  \A i, j \in DOMAIN rows : i < j => rows[i] < rows[j]}

\* _purge_domain_data: jobs, selectors, monitoring state and history go with the domain.
Purge(d) ==
    /\ domains[d].status = "archived"
    /\ domains' = [domains EXCEPT ![d] = [@ EXCEPT !.status = "gone", !.aligned = FALSE,
          !.enabled = FALSE, !.next_check = Null, !.last_triggered = MinTrigger,
          !.failure_active = FALSE]]
    /\ LET kept == {i \in DOMAIN queue : queue[i].domain # d}
       IN  \E rows \in InOrder(kept), job \in 0 .. Cardinality(kept) :
              /\ queue' = [i \in DOMAIN rows |-> queue[rows[i]]]
              /\ IF runner.job \in kept THEN job # 0 /\ rows[job] = runner.job ELSE job = 0
              /\ runner' = [runner EXCEPT !.job = job]
    /\ current' = [current EXCEPT ![d] = Null]
    /\ history' = [history EXCEPT ![d] = Null]
    /\ UNCHANGED <<handler, faults>>

Call(h) ==
    \/ \E d \in Domains, op \in {"recompute", "check", "settings"} : Begin(h, op, d)
    \/ RecomputeCheck(h) \/ RecomputeInsert(h)
    \/ CheckRecent(h) \/ CheckInFlight(h) \/ CheckTouch(h) \/ CheckInsert(h)
    \/ Settings(h)

----------------------------------------------------------------------------
(* The runner thread: one turn of run_loop is schedule, claim, process.    *)

In(pc) == runner.pc = pc
Sleep == runner' = Asleep

\* enqueue_due_monitoring_jobs: the due domains, read before the transaction ...
Due(d) ==
    /\ domains[d].status = "active" /\ domains[d].enabled
    /\ domains[d].next_check \in {Null, 0}

SelectDue ==
    /\ In("schedule")
    /\ runner' = [runner EXCEPT !.pc = "schedule_check", !.due = {d \in Domains : Due(d)}]
    /\ UNCHANGED <<database, handler, faults>>

\* ... which begins at the first of them without a check in flight.
ScheduleCheck ==
    /\ In("schedule_check")
    /\ LET waiting == {d \in runner.due : JobsOf(d, Check) = {}}
       IN  IF waiting = {} THEN runner' = [Asleep EXCEPT !.pc = "claim"]
           ELSE \E d \in waiting :
                   runner' = [runner EXCEPT !.pc = "schedule_insert", !.domain = d,
                                            !.due = waiting \ {d}]
    /\ UNCHANGED <<database, handler, faults>>
ScheduleInsert ==
    /\ In("schedule_insert")
    /\ LET others == {d \in runner.due : JobsOf(d, Check) = {}}
           ds == <<runner.domain>> \o SetToSeq(others)
       IN  /\ \E position \in Positions(runner.newer) : Insert(Check, ds, position)
           /\ domains' = Touched(domains, {runner.domain} \union others)
           /\ handler' = Overtake(Null, Len(ds))
    /\ runner' = [Asleep EXCEPT !.pc = "claim"]
    /\ UNCHANGED <<current, history, faults>>

\* Takes up the i-th row.
Work(i, state) ==
    /\ queue' = [queue EXCEPT ![i].state = state]
    /\ runner' = [runner EXCEPT !.pc = "process", !.job = i]

\* Faulty variant: a job that a crash left in processing is passed over.
ClaimQueued ==
    /\ In("claim")
    /\ IF queue = <<>> \/ Head(queue).state = "processing" THEN Sleep /\ UNCHANGED queue
       ELSE Work(1, "processing")
    /\ UNCHANGED <<domains, current, history, handler, faults>>

\* Faulty variant: the job gets a state the queries for jobs in flight do not know.
ClaimRunning ==
    /\ In("claim")
    /\ IF queue = <<>> THEN Sleep /\ UNCHANGED queue ELSE Work(1, "running")
    /\ UNCHANGED <<domains, current, history, handler, faults>>

\* claim_next_job: the oldest job in flight, also one a crash left in processing
Claim ==
    /\ In("claim")
    /\ IF queue = <<>> THEN Sleep /\ UNCHANGED queue ELSE Work(1, "processing")
    /\ UNCHANGED <<domains, current, history, handler, faults>>

\* The row may have been purged meanwhile; an UPDATE of its state, if it is there, takes it
\* out of the queue.
Mine == runner.job # 0
End == queue' = IF Mine THEN RemoveAt(queue, runner.job) ELSE queue
Job == queue[runner.job]

\* On to the next step, with nothing of what has been read.
Step(pc) ==
    runner' = [Asleep EXCEPT !.pc = pc, !.job = runner.job, !.domain = runner.domain]

\* process_job: nothing to do without the job's row, failed without the domain's.
Process ==
    /\ In("process")
    /\ IF Mine /\ Exists(Job.domain)
       THEN /\ runner' = [runner EXCEPT !.domain = Job.domain,
                    !.pc = IF Job.action = Recompute THEN "recompute" ELSE "check"]
            /\ UNCHANGED queue
       ELSE Sleep /\ End
    /\ UNCHANGED <<domains, current, history, handler, faults>>

\* Faulty variant: an archived domain's reports are scanned but left alone.
RecomputeReportsIfActive ==
    /\ In("recompute")
    /\ domains' = [domains EXCEPT ![runner.domain].aligned =
                      @ \/ domains[runner.domain].status = "active"]
    /\ runner' = [runner EXCEPT !.pc = "complete", !.scanned = TRUE]
    /\ UNCHANGED <<current, history, queue, handler, faults>>

\* _recompute_domain_aggregate_alignment: one transaction for all reports of the domain,
\* which is taken to have some that an older version judged
RecomputeReports ==
    /\ In("recompute")
    /\ domains' = [domains EXCEPT ![runner.domain].aligned = @ \/ Exists(runner.domain)]
    /\ runner' = [runner EXCEPT !.pc = "complete", !.scanned = TRUE]
    /\ UNCHANGED <<current, history, queue, handler, faults>>

\* Faulty variant: a domain whose last check failed is left alone.
ReadCheckUnlessFailing ==
    /\ In("check")
    /\ LET row == domains[runner.domain] IN
       runner' = CASE ~Mine -> [runner EXCEPT !.pc = "fail"]
                   [] Mine /\ ~(row.status = "active" /\ row.enabled /\ ~row.failure_active) ->
                         [runner EXCEPT !.pc = "complete"]
                   [] OTHER -> [runner EXCEPT !.pc = "lookup", !.selectors = row.selectors,
                                   !.previous = current[runner.domain]]
    /\ UNCHANGED <<database, handler, faults>>

\* Faulty variant: after a failure the check starts from nothing.
ReadCheckAfresh ==
    /\ In("check")
    /\ LET row == domains[runner.domain] IN
       runner' = CASE ~Mine -> [runner EXCEPT !.pc = "fail"]
                   [] Mine /\ ~(row.status = "active" /\ row.enabled) ->
                         [runner EXCEPT !.pc = "complete"]
                   [] OTHER -> [runner EXCEPT !.pc = "lookup", !.selectors = row.selectors,
                                   !.previous = IF row.failure_active THEN Null
                                                ELSE current[runner.domain]]
    /\ UNCHANGED <<database, handler, faults>>

\* run_monitoring_job: what the check starts from; a domain switched off is skipped.
ReadCheck ==
    /\ In("check")
    /\ LET row == domains[runner.domain] IN
       runner' = CASE ~Mine -> [runner EXCEPT !.pc = "fail"]
                   [] Mine /\ ~(row.status = "active" /\ row.enabled) ->
                         [runner EXCEPT !.pc = "complete"]
                   [] OTHER -> [runner EXCEPT !.pc = "lookup", !.selectors = row.selectors,
                                   !.previous = current[runner.domain]]
    /\ UNCHANGED <<database, handler, faults>>

\* _build_state_for_domain: the queries answer, or one of them fails.
Lookup ==
    /\ In("lookup")
    /\ \E p \in Published :
          runner' = [runner EXCEPT !.pc = "store",
                       !.found = [published |-> p, selectors |-> runner.selectors]]
    /\ UNCHANGED <<database, handler, faults>>
LookupFails ==
    /\ In("lookup") /\ faults < MaxFaults
    /\ faults' = faults + 1
    /\ Step("store_failure")
    /\ UNCHANGED <<database, handler>>

\* A failed lookup moves the next check and raises the flag, nothing else.
StoreFailure ==
    /\ In("store_failure")
    /\ \E interval \in CheckIntervals :
          domains' = IF Exists(runner.domain)
                     THEN [domains EXCEPT ![runner.domain].next_check = interval,
                                          ![runner.domain].failure_active = TRUE]
                     ELSE domains
    /\ Step("complete")
    /\ UNCHANGED <<current, history, queue, handler, faults>>

\* _history_summary compares the two states, and cannot with an unreadable one.
Comparable == runner.previous = Null
              \/ {runner.previous.published, runner.found.published} \intersect Unreadable = {}

\* Faulty variant: a change of the selectors alone is not compared.
ChangedPublished == runner.previous = Null
                    \/ runner.previous.published # runner.found.published

\* not _states_equal(previous_state, current_state)
Changed == runner.previous # runner.found

Store ==
    /\ In("store")
    /\ IF ~Comparable THEN Step("fail") /\ UNCHANGED <<domains, current, history>>
       ELSE /\ current' = [current EXCEPT ![runner.domain] = runner.found]
            /\ history' = IF Changed
                  THEN [history EXCEPT ![runner.domain] =
                          [previous |-> runner.previous, current |-> runner.found]]
                  ELSE history
            /\ \E interval \in CheckIntervals :
                  domains' = IF Exists(runner.domain)
                             THEN [domains EXCEPT ![runner.domain].next_check = interval,
                                                  ![runner.domain].failure_active = FALSE]
                             ELSE domains
            /\ runner' = [runner EXCEPT !.pc = "complete", !.scanned = TRUE,
                                        !.previous = Null, !.selectors = Null]
    /\ UNCHANGED <<queue, handler, faults>>

\* The outcome; then the audit record, before which nothing is undone.
Complete ==
    /\ In("complete") /\ End
    /\ runner' = [Asleep EXCEPT !.pc = "audit"]
    /\ UNCHANGED <<domains, current, history, handler, faults>>
Audit ==
    /\ In("audit") /\ Sleep
    /\ UNCHANGED <<database, handler, faults>>

\* An exception in the try block makes the job failed, a completed one too, which is out of
\* the queue already, and goes on to run_loop.
Raise ==
    /\ runner.pc \in {"recompute", "check", "lookup", "store_failure", "store",
                      "complete", "audit"}
    /\ faults < MaxFaults
    /\ faults' = faults + 1
    /\ Step("fail")
    /\ UNCHANGED <<database, handler>>
Fail ==
    /\ In("fail") /\ Sleep /\ End
    /\ UNCHANGED <<domains, current, history, handler, faults>>

\* An exception outside of it ends the turn, a restart also the calls; every job stays.
\* A new version of the software may judge the stored records differently.
Interrupt ==
    /\ runner # Asleep /\ faults < MaxFaults
    /\ runner.pc \in {"schedule_check", "schedule_insert", "claim", "process", "fail"}
    /\ faults' = faults + 1
    /\ Sleep
    /\ UNCHANGED <<database, handler>>
Restart ==
    /\ faults < MaxFaults
    /\ faults' = faults + 1
    /\ Sleep
    /\ handler' = [h \in Handlers |-> Idle]
    /\ \E upgraded \in BOOLEAN :
          domains' = [d \in Domains |->
                        [domains[d] EXCEPT !.aligned = @ /\ ~upgraded]]
    /\ UNCHANGED <<current, history, queue>>

Turn ==
    \/ SelectDue \/ ScheduleCheck \/ ScheduleInsert \/ Claim \/ Process
    \/ RecomputeReports \/ ReadCheck \/ Lookup \/ StoreFailure \/ Store
    \/ Complete \/ Audit \/ Fail

Tick ==
    /\ domains' = [d \in Domains |->
          [domains[d] EXCEPT !.next_check = IF @ \in {Null, 0} THEN @ ELSE @ - 1,
                             !.last_triggered = IF @ = MinTrigger THEN @ ELSE @ + 1]]
    /\ UNCHANGED <<current, history, queue, handler, runner, faults>>
Next ==
    \/ \E h \in Handlers : Call(h)
    \/ \E d \in Domains : Archive(d) \/ Restore(d) \/ Purge(d)
    \/ Turn \/ LookupFails \/ Raise \/ Interrupt \/ Restart \/ Tick

\* The runner never stops; nothing is asked of requests or of the clock.
Spec == Init /\ [][Next]_vars /\ WF_vars(Turn)

----------------------------------------------------------------------------
(* Properties.                                                             *)

\* The tables and the threads keep their types; the runner's row is one it has claimed.
TypeOK ==
    /\ domains \in [Domains -> DomainRow]
    /\ current \in [Domains -> Snapshot \union {Null}]
    /\ history \in [Domains -> Entry \union {Null}]
    /\ queue \in Seq(JobRow)
    /\ handler \in [Handlers -> CallState]
    /\ runner \in TurnState
    /\ runner.job \in {0} \union {i \in DOMAIN queue : queue[i].state = "processing"}
    /\ faults \in 0 .. MaxFaults

\* Duplicate jobs come from races only: however calls and the scheduler interleave, a
\* domain has at most one job of an action in flight for each thread that can insert it,
\* so pressing the button again and again does not fill the queue.
InFlightBounded ==
    \A d \in Domains :
        /\ Cardinality(JobsOf(d, Recompute)) <= Cardinality(Handlers)
        /\ Cardinality(JobsOf(d, Check)) <= Cardinality(Handlers) + 1

\* A job about to be reported as completed did its work, also after a crash and a second
\* claim: the reports are aligned, the state found is the domain's current one.
CompletedIsDone ==
    In("complete") /\ Mine /\ runner.scanned =>
        IF Job.action = Recompute THEN domains[runner.domain].aligned
        ELSE current[runner.domain] = runner.found

\* The timeline has no gap: the newest entry leads to the current state, and a new
\* entry starts where the state was before.
TimelineComplete ==
    \A d \in Domains : Exists(d) =>
        IF current[d] = Null THEN history[d] = Null
        ELSE history[d] # Null /\ history[d].current = current[d]
TimelineConnected ==
    [][\A d \in Domains :
         Exists(d) /\ history'[d] # history[d] /\ history'[d] # Null
            => history'[d].previous = current[d]]_vars

\* Every job ends, whatever fails on the way, however many jobs come and however late they
\* enter: as long as there are any, the oldest leaves the queue again and again.
EveryJobEnds == []<>(queue = <<>>) \/ []<><<queue # <<>> /\ queue' = Tail(queue)>>_vars

\* A domain due for a check is checked, or no longer due.  Excepted are domains with a
\* record that cannot be compared: their checks fail, and are queued again every turn.
Stuck(d) == \E state \in {current[d], runner.found} : state # Null /\ state.published \in Unreadable
DueIsChecked == \A d \in Domains : Due(d) ~> ~Due(d) \/ Stuck(d)

============================================================================
