# DMARCWatch: TLA+ models and proofs

DMARCWatch collects DMARC reports for monitored domains, stores them, and lets
users search and share them. This directory holds TLA+ models of its backend,
TLC configurations that check them on small instances, and TLAPS proofs of their
safety properties for instances of any size. Every definition is translated from
the Python code; comments in the modules name the functions, and `PROJECT.json`
gives the lines.

    tlc -workers 2 -config DL_concurrent.cfg MCDomainLifecycle
    tlc -workers 2 -config DM_faults.cfg MCDomainMaintenance
    tlapm DomainLifecycleProofs.tla

and so on for the runs of the table below and for the other six modules of
proofs, whose names end in `Proofs`.

## The system

One server process (`backend/main.py`): FastAPI handlers run as threads of a
pool, and **one** daemon thread runs `run_loop` (`backend/jobs/runner.py`). They
share nothing but one SQLite file and an optional directory of raw artifacts.
The IMAP collector and the command-line tools are separate processes that call
the HTTP API; the web frontend is another client.

The fact that shapes every module is how SQLite is used. Each service call opens
a connection of its own (`get_connection`, a plain `sqlite3.connect`). Python's
driver begins a transaction at the first *write*, so

- a SELECT that precedes the write sees a snapshot nobody keeps stable: every
  check-then-act pair is two atomic steps, and any other thread may commit
  between them;
- all writes up to `commit()` are one atomic step; a constraint violation or an
  exception undoes them all;
- no PRAGMA turns foreign keys on: no row is deleted or refused on their account,
  so what waits for an `ON DELETE CASCADE` stays.

### Inventory

| Component | State | Operations | What is hard | What makes it correct |
|---|---|---|---|---|
| **Domain lifecycle** `services/domain_service.py` | table `domains`: status, `archived_at`, `retention_*` columns | create, archive, restore, delete, set / pause / unpause retention; `run_retention_purge` by the runner | read and write are separate steps; columns left over from an earlier life; purge decides from an old list | columns of a row agree; one row per name; only archived rows go, with their reports and nobody else's (the rows below the reports stay, against the documentation); the countdown runs from archiving, stops while paused but for a fraction of a second, and ends in a purge |
| **Ingest queue, runner** `services/ingest_service.py`, `jobs/runner.py` | `ingest_jobs`, `ingest_job_items`, report tables | submit; claim oldest, per file parse / check domain / dedupe / store / archive, per item status, job state | interruption anywhere, then the whole job again; domain changes under a running job; files that raise | what is reported as accepted or duplicate is stored; finished jobs tell failures; first come, first served; every job ends |
| **Parsing, enrichment** `ingest/*`, `services/dmarc_alignment.py` | none (DNS and GeoIP are asked) | XML, MIME, gzip, zip, limits; DKIM/SPF alignment | limits, nesting, files the parsers do not expect | every file has an outcome; alignment as RFC 7489 says |
| **Artifact archive** `archive/filesystem.py` | files per domain name | store, list, retrieve | file names collide; lives apart from the tables | artifacts of existing domains only |
| **DNS monitoring** `services/domain_monitoring_service.py` | settings, selectors, current state, history | settings, check now, scheduler, `run_monitoring_job` | scheduler against requests, slow DNS between read and write | few jobs in flight per domain, minimum interval, history is what changed |
| **Maintenance jobs** `services/domain_maintenance_service.py` | `domain_maintenance_jobs` | enqueue, claim, process, complete, fail | duplicates, deletion meanwhile, failure after completion | each job ends once, in the state its work deserves |
| **Access**: `auth/*`, `services/auth_service.py`, `user_service.py`, `api_key_service.py`, `dashboard_service.py`, `policies/*` | users, sessions, throttle rows, assignments, keys and bindings, dashboards, scopes, shares | login, logout, password change and reset, role changes, delete user, assign, share, transfer, key create / update / delete | checks of two tables by two threads; revocation against use | an old password's sessions go with it; guesses are counted; a super-admin remains; dashboards have a living owner (of any role, viewers included, against the documentation); who has a domain has it from a super-admin, directly or from hand to hand |
| **IMAP collector** `cli/imap_watch.py`, `cli/ingest_api.py` | mailbox flags, a SQLite state file | poll, fetch, upload, wait, record, mark seen, delete when due | crash between any two; timeouts with the job still running; failed delete | a mail is deleted only when one of its reports is in and none is missing but such as the server turned down; what the server is bound to take is stored in the end unless its queue is blocked |
| Search `services/search_service.py` | none | read-only queries | size | - |
| Audit log, health, configuration, migrations, other CLI, frontend | log rows; none | append, read | - | - |

Interactions: the handlers call the services in their own thread; the runner
calls, in one turn of `run_loop`, `run_one_job`, the monitoring scheduler, the
maintenance runner and `run_retention_purge`, each in a `try` of its own. Ingest
reads `domains`, assignments and key bindings; the purge deletes from the tables
of nearly every other component. Nothing else is called back.

`PROJECT.json` lists the components with their status and, under `hazards`, the
places where this code is hard to test; the properties below were chosen from
that list.

## Modules

### DomainLifecycle (with MCDomainLifecycle, DomainLifecycleProofs)

| Variable | Code |
|---|---|
| `now` | the clock, in units of which `Second` make a second and `DayLength` a day |
| `domains[id]` | the row under that primary key; "unused" and "deleted" are the absence of a row before and after its life (uuid4 keys are drawn once) |
| `reports` | rows of `aggregate_reports` and `forensic_reports` by domain name, each with the row that admitted it (history: the code stores only the name) |
| `details` | the rows below them: records, policy overrides, authentication results, search index |
| `artifacts` | the names under which the file archive holds something |
| `handler[h]` | what worker thread `h` has read and is about to write |
| `runner` | where the runner thread is, and the list of `run_retention_purge` |

One action per read step and per write step of each call:
`ArchiveRead`/`ArchiveWrite` are the two halves of `archive_domain`, and so on;
`unpause_retention` has three steps (two SELECTs, one UPDATE), and
`set_retention` writes different columns depending on what it read
(`SetRetentionWrite`, `SetRemainingWrite`). A check that fails returns an error
and changes nothing, so only calls that pass appear. The runner alternates
between ingesting (`IngestCheck`, `IngestStore` or `IngestSkip`, `ArchiveStore`)
and purging (`SelectDue`, `PurgeNext` per domain); its thread does one thing at a
time. `PurgeAbort` is an exception in a purge, `Restart` the death of the process.

Abstractions: the caller is a super-admin (every other role is refused before the
first step); time is an integer, with a second of one or more units, as a pause cuts
what is left to whole seconds (`WholeSeconds`); the audit events handlers write and
the rows of other tables that refer to a domain by id (all deleted by the purge, none
read here) are left out; a stored report is represented by its domain's name. Without
a configured archive (`ArchiveConfigured`) nothing is stored in it.

### DomainStore

What the lifecycle keeps, three variables and four actions: a domain is created,
perhaps archived, receives reports with their details, and is removed at once with its
reports, after archiving. The details are not removed: `_purge_domain_data` deletes the
rows of the two report tables and leaves those below them to a cascade that is never
switched on, although docs/DOMAIN_LIFECYCLE.md:61-66 lists all normalized data.
`DomainLifecycle` implements it (`ImplementsStore`: `status` is the status column,
`data` and `details` the rows that have reports and records of reports) as long as
nobody deletes or restores by hand; the violation runs show why those two must be
excluded.

### IngestRunner (with MCIngestRunner, IngestRunnerProofs)

| Variable | Code |
|---|---|
| `clock` | `submitted_at` timestamps, assumed distinct |
| `jobs[j]` | the row of `ingest_jobs` and its items; "stamped" is a `create_ingest_job` between its timestamp and its commit |
| `stored[r]` | the row of a report table with key (kind, report_id, domain), and its `job_item_id` |
| `allowed` | for which reports `can_ingest_for_domain` would say yes now |
| `runner` | local variables of `run_one_job` and its helpers |

`Claim` takes the oldest job that is queued *or left processing*, from its first
item. Each file of an item gets an outcome (`Unparsed`, `CheckDomain`,
`Duplicate`, `Persist`, `PersistFails`) or raises (`Raise`); `WriteStatus` stores
the item's outcome, which for zip and MIME is the best one of its members
(`Combined`); `EndJob` closes the job. `Interrupt` is an exception elsewhere in
the pass (a locked database), `Restart` the death of the process.

A file is a report key, `Unreadable`, or `Raising`. `Raising` is real: for
instance `parse_aggregate` catches only `ET.ParseError`, while XML declaring an
unknown or a multi-byte encoding makes the parser raise `LookupError` or
`ValueError`. Nesting (a zip in a mail) is flattened; best-of is associative, so
nothing is lost. Left out: the payload's decoding, the role and key bindings read
once per pass (`allowed` may change at any moment, which allows more), the raw
artifact (in DomainLifecycle), deletion of domains with their reports (there too),
and the loop's other turns.

### ImapCollector (with MCImapCollector, ImapCollectorProofs)

| Variable | Code |
|---|---|
| `mail`, `validity`, `lastUid` | the mailbox: where each message is, its UID and flags; UIDVALIDITY |
| `record[v][u]` | the row of `imap_message_state` |
| `collector`, `restarting` | local variables of `run_cycle`; `_restart_pending` |
| `stored`, `backlog` | reports the server has; jobs it still works on that nobody waits for |
| `blocked` | whether a job that makes the server's runner raise is in its queue |
| `uploads` | history: how often a message reached the server |

One action per command that may fail: `Attempt` is `record_attempt` after the FETCH,
then `Submit`, `JobEnded`, `RecordSuccess`, `MarkSeen`, `HardDelete`,
`RecordDeleted`; `StartSweep` to `SweepRecord` are `_delete_due_messages`. Each has
its failures: `SubmitFails` (with or without a job behind it), `WaitFails`,
`CommandFails`, `Interrupt` (an exception that ends the cycle, or the death of the
process, after which `restart_on_start` applies again), `WaitTimesOut`. A mail
carries any set of reports (`Reports`); the server takes those it is bound to and
perhaps others (`Takings`), and its answer is the best of the outcomes (`Statuses`,
IngestRunner's `Combined`). A mail of `Raising` may block the server's queue for
good, as `IR_poison` shows: no job of it ends any more, and the collector goes on by
timeouts. EXPUNGE and CLOSE remove every message flagged as deleted, as IMAP says.
UIDs are given out anew when the mailbox is renumbered (`Renumber`), and the same UID
may then be another message.

### DmarcAlignment, MonitoringTimeline and ReportEvaluation (with MCReportEvaluation, ReportEvaluationProofs)

Two modules of operators. `DmarcAlignment` is `dmarc_alignment.py`: the alignment of
the identifiers of a record, and the verdict, with RFC 7489 as reference
(`ShouldPass`). `MonitoringTimeline` is `classify_timeline_change` with its
comparison of DMARC, SPF and DKIM snapshots. An SPF record keeps its mechanisms in
their order, of which the comparison sees the first `MaxSenders` (10 in the code).
`Weaker` says what weakening should mean; it has an order of its own (`WeakerPolicy`,
`WeakerQualifier`, `SubdomainPolicy`: an absent `sp` is as good as `p`) and none of
the code's ranks. `ReportEvaluation` gives them their inputs: authentication results
arrive one by one in any order, checks find any snapshot. The table of public
suffixes is a constant.

### DomainMaintenance (with MCDomainMaintenance, DomainMaintenanceProofs)

| Variable | Code |
|---|---|
| `domains` | status and `monitoring_*` columns; `aligned` tells whether the reports carry the present version's verdicts |
| `current`, `history` | `domain_monitoring_current_state`; newest row of `domain_monitoring_history` |
| `queue` | the rows of `domain_maintenance_jobs` in flight, ordered by `submitted_at` |
| `handler`, `runner` | calls under way; the runner thread's turn |

Maintenance and monitoring are one module as they share the table and the turn of
`run_loop`: `SelectDue`, `ScheduleCheck`, `ScheduleInsert` are
`enqueue_due_monitoring_jobs`, `Claim` is `claim_next_job`, `Process` to `Audit`
are `process_job` with `_recompute_domain_aggregate_alignment` and
`run_monitoring_job` (`ReadCheck`, `Lookup`, `Store`). Timestamps are drawn before
the write lock is there, so a row may enter the queue before newer ones, even the
one being worked on (`Positions`). `Raise` is an exception inside `process_job`'s
try block, `Interrupt` one outside of it, `Restart` also ends the calls and may
bring a version that judges reports differently. Times are kept as distances up to
the point where more makes no difference.

### Sessions (with MCSessions, SessionsProofs)

`users` (password and `disabled_at`), `sessions`, `throttle`
(`auth_login_throttle`: the count, the age of the first failure, what is left of
the block), `handler`. A login is `LoginCheck`, then `LoginExtend` when blocked,
or `LoginVerify` and then `FailedRead` with `FailedInsert` or `FailedUpdate`, or
`LoginClear` and `LoginCreate`; each is a connection of its own in the code.
`ChangeVerify`, `ChangeWrite`, `Invalidate` are `change_own_password`; `ResetBegin`,
`ResetWrite`, `Invalidate` are `reset_password` and the command line's
`reset_admin_password`. `Interrupt` ends a call before any of its commits: a
statement that raises, such as a write that finds the database locked, or the death
of the process. History: `guesses` counts the wrong passwords since the count of a
row began and `recent` those of each minute of the last window; `disturbed` are the
keys of which two attempts overlapped, or one was cut short, since then; `late` marks
a session whose password was replaced after it had been verified; `unrevoked` are the
users whose last change of password was cut short before it removed their sessions.

### Access (with MCAccess, AccessProofs)

`users`, `assigned`, `dashboards`, `scope`, `shares`, `keys`, `key_scopes`,
`key_domains`: the tables of those names. Every request is three steps: the
session's user is read (`Authenticate`), the service reads what the policy asks
about and decides (`...Check`), and it writes. The policies are operators with
their own names (`CanUpdateUser`, `CanTransfer`, ...); `Heir` is
`_find_new_dashboard_owner`. A change of a domain is one step here. History:
`granted`, which domains each user, dashboard and key has from a super-admin, or from
somebody who had them so when the service decided (`given`); a pair goes again when
the domain is withdrawn or gone. `overtaken`, `lapsed` and `strays`: which calls were
finished after another had changed their user.

## What is checked

| Run | Instance | Shows |
|---|---|---|
| `DL_concurrent` | 1 name, 2 keys, 2 worker threads, all requests, 1 retention period, clock 0-2 | `TypeOK`; `CallsMatchRows`: a pending write still fits the row it meets; `RetentionConsistent`: period, deadline, pause and remainder agree; `NamesUnique` |
| `DL_automatic` | 2 names, 2 keys, 1 worker, no delete, restore or change of retention, clock 0-2 of two units to a second, fairness | `CountdownFollowsArchive`; `ReportsHaveDomain`, `DeletionSparesOthers`: purges neither leave reports behind nor take another domain's; `CountdownKept`: a pause costs less than a second and nothing else takes time; `ImplementsStore`; `DueIsPurged` |
| `IR_queue` | 2 jobs, 2 reports, 4 kinds of submission (empty; two items repeating a report; a zip with an unreadable member; one with a raising file), 1 interruption or restart, fairness | `TypeOK`, `OutcomeConsistent`, `SuccessIsStored`, `StoredIsCredited`, `InOrder`, `JobsEndUnlessBlocked` |
| `IC_faults` | 2 mails: one with a report the server must take and one it may turn down, the other with the latter alone, which may make the server raise; deletion after a day, restart mode on, days that end within a cycle, 1 renumbering, 1 fault, fairness | `DeletedWasStored`: no mail is deleted of which a report is missing that the server was bound to take, or of which none is in; `SuccessWasStored`: a record of success means this of the message that has the UID now; `RepeatsAreCaused`: no upload twice without a fault, a renumbering or a day ending within a cycle; `ArrivedIsStored`: unless the queue is blocked; `RecordedIsDeleted` |
| `RE_inputs` | 4 domains, all pairs of up to 2 authentication results of 4 domains or none; snapshots with all tags of DMARC, or all of SPF (up to 3 senders, 2 of which are compared) and DKIM | `PassIsAligned`: exactly as RFC 7489 says; `FailureIsCertain`; `WeakeningShows`, `UndoingDegrades` |
| `DM_faults` | 1 domain, 1 worker, 2 possible DNS contents (one that cannot be compared), 2 selector sets, 1 fault, fairness | `InFlightBounded`: duplicate jobs only from races; `CompletedIsDone`; `TimelineComplete`, `TimelineConnected`: the history has no gap; `EveryJobEnds`; `DueIsChecked` |
| `SE_parallel` | 1 account, 1 address, 2 worker threads, threshold 3, window and block of 2 minutes | `GuessesBounded`: while attempts come one after the other and are recorded, every guess is counted and a window sees fewer than twice the threshold; `RevokedWithPassword`: only logins under way and a change cut short leave sessions of an older password |
| `AC_requests` | 3 user names, 2 teams to start with, 2 domains, 1 dashboard, 1 key, 2 worker threads, 3 requests | `SuperAdminRemains`; `OwnerRemains`; `GrantedBySuperAdmin`: every domain of a user, dashboard or key can be followed back to a super-admin |

Why the bounds are enough for the cases that matter. Lifecycle: two threads and the
runner interleave on one row in all orders, and a second key lets the same name be
taken again after a deletion (the case in which leftovers meet a new domain); two
names with a key each show one domain's purge against the other's data; a clock that
passes the longest period lets a deadline be ahead, reached and overdue, and be
paused in each of these. Ingest: two jobs suffice for an order, for a job stuck
before another, and for a report repeated within an item, across items and across
jobs; one interruption at any point gives the second pass over a half-done job.
Collector: two mails can change UIDs in a renumbering, one may be gone when its turn
comes, and one fault at any command gives each half-done message; a message is
stored, failed, marked unread and due in all orders. Maintenance: one domain's jobs
of both kinds interleave with a request, the scheduler and a purge, and the fault may
hit any of their steps; a second domain adds jobs in the queue that do not touch the
first one's rows, whose order `EveryJobEnds` already checks for two jobs. Sessions:
two threads are enough for counts to overwrite each other and for a login to pass a
change; a third attempt at once would only disturb the same key again. Evaluation:
with three senders of which two are compared, one is lost at the cut, and with either
of the others. Access: three requests are enough to promote, assign and hand over, or
to remove two users in parallel; two teams start with two super-admins and with one
of each rank.

The bounds are `MaxTime` (in `Tick`), `MaxInterrupts` and `MaxFaults` (in
`Interrupt`, `Restart` and the failures), `MaxValidity` (in `Renumber`),
`MaxResults`, `MaxPasswords`, `MaxCalls`, and the finite sets (`MaxSenders` is no
bound of the model: the code has it).
Deadlock is not checked where the system may stop: the collector's world, the
inputs of `RE_inputs`, and the requests of `SE_parallel` and `AC_requests`, which
are finitely many by their bounds.

What the statements leave out, because the code does not keep it:

- `CountdownKept` lets a pause take less than a second, which `int()` cuts off
  (`domain_service.py:228`), and holds with one worker thread; with two,
  `unpause_retention` (line 264) may read the remainder of one pause and the flag of
  another. `CountdownFollowsArchive` needs one worker too, besides nobody restoring: of
  two archivings at once, the one without a period may overtake the one with it.
- `DeletedWasStored` and `SuccessWasStored` speak of what the server was bound to take
  and of one report at least: of a mail with several attachments the item gets the best
  outcome (`runner.py:495-515`), which `is_successful_job` takes for success, so that a
  rejected or unreadable one is deleted with the mail.
- `ArrivedIsStored` ends where a mail that makes the server raise has come into its
  queue: from then on no upload is stored (`IR_poison`).
- `RecordedIsDeleted` ends when the record is overwritten: a refused STORE or
  EXPUNGE in `hard_delete` after `record_success` (`imap_watch.py:452`) makes it a
  failure while the message is already marked seen, so that it is neither uploaded
  again nor deleted, although the log line at 456 says it will be retried.
- `RepeatsAreCaused` grants one more upload for each day that may have ended in the
  middle of a cycle: a message that arrives between the two searches can be recorded as
  deleted while it is still there. It counts no mails the server may refuse as a whole
  and none behind a blocked queue, which are uploaded in every cycle.
- `WeakeningShows` excepts two weakenings the comparison misses: `sp=quarantine` where
  subdomains had inherited `reject`, which shows as improved, and senders added beyond
  the tenth (`domain_monitoring_service.py:1057`), which do not show. Neither it nor
  `UndoingDegrades` says anything of selectors that come and go with the settings: a
  selector taken out of them shows as restored (line 549).
- `DueIsChecked` excepts domains with a record that cannot be compared (a `pct`
  that is no number, line 384): every check of theirs raises, and another is queued
  on each turn.
- `CompletedIsDone` has no converse: a completed job becomes failed when its audit
  record cannot be written (`domain_maintenance_service.py:386`).
- `GuessesBounded` holds for attempts that do not overlap and are recorded. Parallel
  ones are let past the check together and overwrite each other's counts and blocks;
  one whose write finds the database locked is not counted (`login_throttle.py:54-102`).
  And it says less than twice the threshold, not the threshold: the window is fixed, so
  four failures at its end and five after it lie within 15 minutes.
- `RevokedWithPassword` excepts logins that had verified the old password and create
  their session after the others were removed (`auth_service.py:96-109`), and changes
  cut short after the commit of the new password: its sessions go on another connection
  (`auth_service.py:209-221`, `user_service.py:333-343`, `commands.py:111-117`), and
  nothing makes up for it but the next change.
- `SuperAdminRemains` excepts calls finished after the account of their actor or
  target had changed: two super-admins who delete each other at once leave none.
- `OwnerRemains` excepts dashboards whose owner was deleted while they were on their way
  to it, and says nothing of the owner's role.
- `GrantedBySuperAdmin` asks whether the giver had the domain when the service decided:
  what is withdrawn from a giver later stays with those it was passed on to.

Four runs end in a violation, of something the documentation says:

| Run | Documentation | Code |
|---|---|---|
| `DL_stale_deadline` | DOMAIN_LIFECYCLE.md:33, countdown begins from the archive state | restore, and archive without a period, leave the old deadline; archived again, the domain may be purged at once |
| `DL_purge_restored` | :59, only archived domains can be deleted | check and purge are separate; a restore between them is overrun |
| `DL_orphan_reports` | :61-63, deletion removes report data | the runner inserts under the name it checked earlier, after the deletion |
| `IR_poison` | SUBMITTING_REPORTS.md:12, outcomes are tracked per report item | a file that raises has no outcome, its job is first in the queue for ever, later jobs never run |

The documentation promises more than the code keeps in these places too; a property
says what does hold, so that a run passes:

| Documentation | Code | What holds |
|---|---|---|
| DOMAIN_LIFECYCLE.md:61-66, deletion removes normalized report data and archived artifacts | the rows below the reports and the files stay | `ImplementsStore` |
| SECURITY_AND_AUDIT.md:30, API_V1.md:57, the login after 5 failures in 15 minutes is blocked (`test_auth.py` tests it one after the other) | parallel attempts, failed writes and the fixed window let more pass | `GuessesBounded` |
| SECURITY_AND_AUDIT.md:14, API_V1.md:73, a password change ends all sessions | late logins, and changes cut short, leave some | `RevokedWithPassword` |
| SECURITY_AND_AUDIT.md:38, viewers cannot own dashboards | they create and inherit them, and owners are made viewers | `OwnerRemains` |
| `imap_watch.py:456`, a failed deletion will be retried | the record has become a failure, the mail is seen | `RecordedIsDeleted` |

For each property of the passing runs the modules hold a *faulty variant* (marked
so) of one definition, a bug of the kind that code could have; put in its place
it makes TLC find the property violated.

### Fairness

`DomainLifecycle`: the runner thread loops for ever. A report being stored
and archived gets done (weak fairness). `EndJob`, `SelectDue` and `Purge` are
strongly fair: a job holds finitely many items and the loop does one job
per turn, so every turn reaches the purge; and a purge is not aborted, nor the
process killed, every single time. No request is assumed to arrive.
`IngestRunner`: weak fairness of `RunOneJob`, the loop that calls
it again and again; interruptions are finitely many by their bound.
`ImapCollector`: weak fairness of the collector's cycle, which loops until it is
killed and is started again (`restart: unless-stopped`, compose.imap.yaml:4), and of
the server's ending each job as long as its queue is not blocked, which is what
`JobsEndUnlessBlocked` says of it.
Mail arrives, and faults happen, at will.
`DomainMaintenance`: weak fairness of the runner's turn; nothing is asked of
requests or of the clock.
The other modules state no liveness, as nothing in them happens without a request.

## What is proved

Every invariant and every action property of the passing runs is stated by a theorem
(`GuessesBounded` in its first part), for every value of the constants that satisfies
the module's assumption (its ASSUMEs, which say what the constants are and which TLC
evaluates in its runs) and the hypotheses named below. A theorem `Spec => []Inv`
follows from an invariant that is inductive; TLC checked each of these on the run's
instance before it was proved.

### The lifecycle

`DomainLifecycleProofs` proves, for every choice of the constants (any sets of
names, keys, threads, request kinds, periods, any clock bound):

| Theorem | Of `Spec` | Assuming |
|---|---|---|
| `TypeCorrect`, `CallsAlwaysMatchRows`, `RetentionAlwaysConsistent` | `[]TypeOK`, `[]CallsMatchRows`, `[]RetentionConsistent` | - |
| `NamesAlwaysUnique` | `[]NamesUnique` | - |
| `ReportsAlwaysHaveDomain`, `DeletionAlwaysSparesOthers` | `[]ReportsHaveDomain`, `DeletionSparesOthers` | nobody deletes by hand |
| `OnlyArchivedAreDeleted` | `OnlyArchivedDeleted` | nobody restores |
| `LifecycleImplementsStore` | `ImplementsStore` | nobody deletes, nobody restores |
| `DeadlinesFollowArchiving` | `[]CountdownFollowsArchive` | one request at a time, nobody restores |
| `PausesCostUnderASecond` | `CountdownKept` | one request at a time |

The hypotheses restrict `Requests`, or say `Alone`: there is one worker thread at
most. `DL_orphan_reports`, `DL_purge_restored` and `DL_stale_deadline` are the
counterexamples without the former; without `Alone` both of the last two theorems
are false, as two threads show (TLC finds it with the threads of `DL_concurrent`).

The argument. `RowInv` = `TypeOK` /\ `CallsMatchRows` /\ `RetentionConsistent` is
inductive, none of the three alone is: that a row stays consistent when
`PauseWrite` hits it rests on what the pending call still knows about the row
(a deadline, once set, never goes away while the row exists), and that in turn on
the columns agreeing, and on restore leaving all of them alone. `NamesUnique`
needs only the type and the UNIQUE check of `CreateInsert`. For the reports,
`ReportInv` adds what the runner remembers: the domain it has checked, or is
about to archive for, still exists under that name, because without deletion only
the runner itself removes rows, and it cannot be in both places. `PurgeInv` says
that what stands in the list of a purge is archived and, with nobody restoring,
stays so (`Doomed`); `Never(op)` that a request nobody sends is never in flight.
The refinement uses both, step by step against `DomainStore`.

For the countdown, `CallsAreCurrent` says that the call in flight still holds what
its row says, since with one thread only a purge can have come between its read
and its write, and a purged row is gone. `CountdownInv` then ties the deadline,
or what is left of it in a pause, to the moment of archiving; a pause that begins
with less than a second left needs the clock to have moved past that moment. For the action
property `RowTimeLeft` is compared before and after each write: a pause stores
what was left at its read but for a fraction of a second, an unpause restores it at its
own.

### The ingest queue

`IngestRunnerProofs` proves, for any jobs, reports and submissions (items of any
length, files of any kind) and any number of interruptions, without further
assumptions: `QueueTypeCorrect` (`[]TypeOK`), `OutcomesAlwaysConsistent`,
`SuccessAlwaysStored`, `StoredAlwaysCredited` and `JobsAlwaysInOrder`, which state
the run's five invariants.

`QueueInv` is the inductive invariant. What a finished job says can only be
justified by what the pass over it knew before it wrote: `PassInv` says that every
item behind the pass has an outcome, that `failed` remembers whether one of them
failed, and that each success among the outcomes gathered for the current item
has its report stored, an accepted one for this very item. The lemma
`CombinedIsBest` carries this over to the item's outcome. `CreditInv` is the
converse: a stored report's item is behind the pass and accepted, or is the
current one with an accepted outcome gathered, unless the job was taken up a
second time. `OrderInv` says that timestamps in the table grow and that whoever
has been taken up had only finished jobs before it: taking up the oldest open job
is what makes that true, and a job that arrives late with an early timestamp
cannot break it, as it is not among those that were in the table before.
`JobStep` and `StoredStep` list what a step can do to one job and to one report;
the preservation lemmas rest on them.

### The IMAP collector

`ImapCollectorProofs`, for any messages, deletion age, renumberings and faults:

| Theorem | Of `Spec` | Assuming |
|---|---|---|
| `ImapTypes` | `[]TypeOK` | - |
| `DeletedAreStored`, `SuccessesAreStored` | `[]DeletedWasStored`, `[]SuccessWasStored` | - |
| `RepeatsHaveCauses` | `[]RepeatsAreCaused` | no day ends within a cycle |

`TypesInv` adds to the types that UIDs are given out once under a validity
(`UidsGiven`), that nothing is listed or recorded for UIDs not given out yet, and
that the message in hand is in the mailbox. It makes a UID as good as the message
itself until the next renumbering, at which the collector drops all it holds.
`StoredInv` follows a message from the server's answer on: an answer that counts as
success is one about a mail of which all the server was bound to take, and one report
at least, is stored (`AnswerWasStored`), which carries over to the record, to the
list of the next sweep, and to the flag that any EXPUNGE acts on. `RepeatsInv` counts
uploads: of a message whose upload is not on record there has been at most one for
each fault and renumbering, unless the queue has been blocked meanwhile
(`UploadsCounted`). A restart in the mode that uploads all again clears the records,
and is paid for by the fault before it (`RestartCounted`). The hypothesis is what
keeps a message that arrives in the middle of a cycle from being due in it
(`LateNotDue`); with such days the property grants one more upload for each, which
the run checks.

### Maintenance and monitoring

`DomainMaintenanceProofs`, for any domains, threads, DNS contents and faults,
without further hypotheses: `MaintenanceTypes`, `TimelinesAreComplete`,
`TimelinesAreConnected`, `CompletedJobsAreDone` and `JobsInFlightAreBounded`, which
state `[]TypeOK`, `[]TimelineComplete`, `TimelineConnected`, `[]CompletedIsDone` and
`[]InFlightBounded`.

The runner remembers a position in the queue while rows are inserted before it and
purged anywhere, so the proofs start with lemmas about sequences: where an inserted
row puts the others, and where a purge leaves those it keeps. `TypesInv` then
includes that the runner's position is that of a row being processed. `WorkInv`
says what that row lets it rely on: the step fits the row's action (`JobFits`), a
check compares with what is still the current state (`PreviousIsCurrent`), and
nothing is marked as done before the last step (`ScannedLast`), so that a job
claimed a second time starts from the beginning. A purge takes a domain with its
state, its history and its jobs, and keeps all of this true of the others.
`InsertsBounded` counts, per domain, the jobs in flight together with the threads
that have found none and are about to insert one; each thread accounts for at most
one of them, and the scheduler for one more check.

### Sessions and the throttle

`SessionsProofs`, for any users, addresses, threads and settings (a threshold of at
least 2 and a block no shorter than the window, as `SessionsAssumption` says):

| Theorem | Of `Spec` | Assuming |
|---|---|---|
| `SessionsTypes`, `PasswordRevokes` | `[]TypeOK`, `[]RevokedWithPassword` | - |
| `GuessesAreCounted` | `[]CountsKept`, the first part of `GuessesBounded` | - |

`TypesInv` adds to the types what a call holds at each of its steps (`CallsHeld`).
`RevokedInv` says that a login past the check holds the current password or is marked
as late; a call cut short is remembered in `unrevoked` and takes nothing else with it.
`ThrottleInv` is exact for every key whose attempts have not been disturbed
(`KeyInv`), whatever the other threads do meanwhile: one attempt at most is past the
check, it holds what the row still says (`CallFollows`), the guesses are the row's
count and the one not heard of (`Unheard`), and a row whose count has reached the limit
stays blocked until its window is over (`BlocksInTime`: the block is no shorter than the
window).

### Access

`AccessProofs`, for any users, teams to start with, domains, dashboards, keys and
threads, without further hypotheses: `AccessTypes`, `DomainsFromSuperAdmins`,
`DashboardsKeepOwners` and `SuperAdminStays`, which state `[]TypeOK`,
`[]GrantedBySuperAdmin`, `[]OwnerRemains` and `[]SuperAdminRemains`.

The invariants say what remains true of a request between its three steps:
`ActorKnown` and `TargetKnown`, that the actor and the user to be changed are as
they were when they were read unless they have been changed since
(`overtaken`); `OwnersKnown`, that a deletion knows all the dashboards of its user
and an heir who can have them; `HandsOn`, that the domains about to be written
are among those its actor rightly had when the service decided (`given`). That
users, dashboards and keys do not share ids (`AccessAssumption`; they are rows of
three tables) keeps their domains apart in `granted`. `SuperAdminStays` then needs
only that whoever removes or demotes a super-admin is another one.

### Verdicts and timelines

`ReportEvaluationProofs` proves `PassesAreAligned`, `FailuresAreCertain`,
`WeakerIsDegraded` and `UndoingIsDegraded`, which state the four invariants of
`RE_inputs`, for records with any number of authentication results in any order, any
public suffix list, any limit on the senders compared, and any two snapshots.
`Passing` keeps the positions of the results and `Best` asks which classes occur
among them, so that no recursion over the list is needed and lists of any length are
within reach. Undoing is proved per part (`DmarcUndone`, `SpfUndone`,
`SelectorUndone`): a change that improves has a counterpart that degrades, and
`OverallDirection` shows that one degraded part decides.

### Left to model checking

Liveness under fairness, which is beyond the prover: `DueIsPurged`,
`JobsEndUnlessBlocked`, `ArrivedIsStored`, `RecordedIsDeleted`, `EveryJobEnds`,
`DueIsChecked`.

The second part of `GuessesBounded`, on the guesses of any one window: that it follows
from the counts takes sums over the minutes of the window, an induction.

`RepeatsAreCaused` with days that end in the middle of a cycle.

The four counterexamples, of course: a theorem says nothing of what is false.

## Plan

All modules exist, and every safety property has its theorem, `GuessesBounded` for its
first part. What is left:

1. `DomainLifecycle` with several threads: a weaker form of `CountdownKept`
   that holds for them, one that bounds the time a pause can cost by the time its
   call takes.
2. `IngestRunner`: that a second pass over an interrupted job repeats its outcomes,
   but for duplicates.
3. An abstract specification of the queue, as `DomainStore` is one of the lifecycle,
   and its refinement.

## Not modelled

- Search and reporting (`search_service.py`, `handlers/reports.py`): read-only SQL
  and its grouping; no state and nothing that interleaves. The other listings
  (domains, jobs, users, dashboards, keys) likewise.
- The audit log (append only) and health probes.
- Migrations and configuration: once, before anything runs concurrently.
- `e2e_seed.py` (fills a test database) and the argument parsing of the command line.
- Decoding of XML, MIME, gzip and zip, DNS and GeoIP: a file is a report, unreadable,
  or raises; a lookup answers or fails.
- Dashboards' YAML export (the import ends in `create_dashboard`), columns and
  chart settings; CSRF tokens and cookies; the wording of summaries.
- The archive's file names. That deleting a domain removes no file of the archive is in
  the table of what the documentation promises: no step of the code removes one, so
  there is nothing to check.
- The frontend, a client whose state the server does not depend on.

SQLite itself is taken at its word: statements and transactions are atomic; a write
that finds the database locked fails and is rolled back.
