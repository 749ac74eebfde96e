---------------------------- MODULE DomainLifecycle ----------------------------
(***************************************************************************)
(* The life of a monitored domain: create, archive, restore, retention,    *)
(* delete, automatic purge (backend/services/domain_service.py), as served *)
(* by the threads of the API server while the one background runner thread *)
(* ingests reports and purges expired domains (backend/jobs/runner.py).    *)
(*                                                                         *)
(* Every service call opens its own SQLite connection, and a connection    *)
(* takes no lock before its first write.  A call is therefore two steps    *)
(* (or more): it reads and checks, then it writes; between the two any     *)
(* other call may write.  A write up to its commit is one step.            *)
(*                                                                         *)
(* All requests here come from a super-admin; for any other role every one *)
(* of them returns "forbidden" and changes nothing.                        *)
(***************************************************************************)
EXTENDS Integers

CONSTANTS
    Names,           \* domain names requests and reports may carry
    Ids,             \* the primary keys that uuid4 may draw, each drawn once
    Handlers,        \* the API server's worker threads
    Requests,        \* the operations the super-admins use
    RetentionDays,   \* the retention_days a request may carry
    Second,          \* length of a second in clock units: the clock is finer
    DayLength,       \* length of a day in clock units (86400 s in the code)
    MaxTime,         \* bound on the clock
    ArchiveConfigured,  \* config.archive_storage_path is set
    Null             \* SQL NULL, Python None

Operations == {"create", "archive", "restore", "delete", "pause", "unpause",
               "set_retention"}

ASSUME ConstantsAssumption ==
    /\ RetentionDays \subseteq Nat \ {0}
    /\ Second \in Nat \ {0}
    /\ DayLength \in Nat /\ DayLength >= Second
    /\ MaxTime \in Nat
    /\ Requests \subseteq Operations
    /\ ArchiveConfigured \in BOOLEAN
    /\ Null \notin Nat /\ Null \notin Ids /\ Null \notin Names

VARIABLES
    now,        \* the server's clock
    domains,    \* table domains: what is stored under each primary key
    reports,    \* tables aggregate_reports and forensic_reports: <<name, id>>,
                \* the domain name stored and (history) the row that admitted it
    details,    \* the rows below a report, likewise: its records, their policy
                \* overrides and authentication results, their search index
    artifacts,  \* the file archive: the domain names that have raw artifacts
    handler,    \* what each worker thread has read and is about to write
    runner      \* the same for the background runner thread

tables == <<domains, reports, details, artifacts>>
vars == <<now, tables, handler, runner>>

-------------------------------------------------------------------------------
(* Values.                                                                 *)

\* "unused": the key has not been drawn yet; "deleted": the row is gone.
Statuses == {"unused", "active", "archived", "deleted"}

Row == [name : Names \cup {Null},
        status : Statuses,
        archived_at : Nat \cup {Null},
        retention_days : RetentionDays \cup {Null},
        retention_delete_at : Nat \cup {Null},
        retention_paused : BOOLEAN,
        retention_remaining_seconds : Nat \cup {Null}]

NewRow(name, status) ==
    [name |-> name, status |-> status, archived_at |-> Null,
     retention_days |-> Null, retention_delete_at |-> Null,
     retention_paused |-> FALSE, retention_remaining_seconds |-> Null]

\* time: the instant or the number of seconds that the call has read or computed.
Call == [op : Operations \cup {"idle", "unpause_check", "set_remaining"},
         id : Ids \cup {Null},
         name : Names \cup {Null}, days : RetentionDays \cup {Null},
         time : Nat \cup {Null}]

Idle == [op |-> "idle", id |-> Null, name |-> Null, days |-> Null, time |-> Null]

RunnerState ==
    [pc : {"ingest", "retention"}, name : {Null}, id : {Null}, due : {{}}]
    \cup [pc : {"checked", "stored"}, name : Names, id : Ids, due : {{}}]
    \cup [pc : {"purging"}, name : {Null}, id : {Null}, due : SUBSET (Ids \X Names)]

RunnerReady == [pc |-> "ingest", name |-> Null, id |-> Null, due |-> {}]

Exists(id) == domains[id].status \in {"active", "archived"}
Taken(name) == \E id \in Ids : Exists(id) /\ domains[id].name = name

Init ==
    /\ now = 0
    /\ domains = [id \in Ids |-> NewRow(Null, "unused")]
    /\ reports = {} /\ details = {} /\ artifacts = {}
    /\ handler = [h \in Handlers |-> Idle]
    /\ runner = RunnerReady

-------------------------------------------------------------------------------
(* The first step of a call: what it reads and checks.  A check that fails *)
(* ends the call without a trace, so only the calls that pass appear.      *)

Begin(h, request, call) ==
    /\ request \in Requests
    /\ handler[h] = Idle
    /\ handler' = [handler EXCEPT ![h] = call]
    /\ UNCHANGED <<now, tables, runner>>

CreateCheck(h, id, name) ==
    /\ ~Taken(name)
    /\ domains[id].status = "unused" /\ \A g \in Handlers : handler[g].id # id
    /\ Begin(h, "create", [Idle EXCEPT !.op = "create", !.id = id, !.name = name])

ArchiveRead(h, id, days) ==
    /\ domains[id].status = "active"
    /\ Begin(h, "archive", [Idle EXCEPT !.op = "archive", !.id = id,
                                        !.days = days, !.time = now])

RestoreRead(h, id) ==
    /\ domains[id].status = "archived"
    /\ Begin(h, "restore", [Idle EXCEPT !.op = "restore", !.id = id])

DeleteRead(h, id) ==
    /\ domains[id].status = "archived"
    /\ Begin(h, "delete", [Idle EXCEPT !.op = "delete", !.id = id,
                                       !.name = domains[id].name])

WholeSeconds(left) == left - (left % Second)

\* Faulty variant: an overdue deadline gives a negative remainder.
SecondsUntilUnclamped(instant) == WholeSeconds(instant - now)

\* max(0, int(...)): the fraction of a second is dropped.
SecondsUntil(instant) == IF instant > now THEN WholeSeconds(instant - now) ELSE 0

\* Faulty variant: the no_retention check is missing.
PauseReadWithoutDeadline(h, id) ==
    /\ domains[id].status = "archived"
    /\ ~domains[id].retention_paused
    /\ Begin(h, "pause", [Idle EXCEPT !.op = "pause", !.id = id, !.time = 0])

PauseRead(h, id) ==
    /\ domains[id].status = "archived"
    /\ domains[id].retention_delete_at # Null
    /\ ~domains[id].retention_paused
    /\ Begin(h, "pause", [Idle EXCEPT !.op = "pause", !.id = id,
                 !.time = SecondsUntil(domains[id].retention_delete_at)])

\* The first of the two SELECTs of unpause_retention: status and remaining.
UnpauseRead(h, id) ==
    /\ domains[id].status = "archived"
    /\ Begin(h, "unpause", [Idle EXCEPT !.op = "unpause_check", !.id = id,
                 !.time = domains[id].retention_remaining_seconds])

SetRetentionRead(h, id, days) ==
    /\ domains[id].status = "archived"
    /\ Begin(h, "set_retention",
             IF domains[id].retention_paused
             THEN [Idle EXCEPT !.op = "set_remaining", !.id = id, !.days = days]
             ELSE [Idle EXCEPT !.op = "set_retention", !.id = id, !.days = days,
                               !.time = now + days * DayLength])

-------------------------------------------------------------------------------
(* The second step: the write, which does not look at the row again.       *)

\* UPDATE domains ... WHERE id = ?: no row, no effect.
Update(id, row) ==
    domains' = IF Exists(id) THEN [domains EXCEPT ![id] = row] ELSE domains

Finish(h, op) ==
    /\ handler[h].op = op
    /\ handler' = [handler EXCEPT ![h] = Idle]
    /\ UNCHANGED <<now, runner>>

\* Faulty variant: no UNIQUE constraint.
CreateInsertUnchecked(h) ==
    LET c == handler[h] IN
    /\ Finish(h, "create")
    /\ domains' = [domains EXCEPT ![c.id] = NewRow(c.name, "active")]
    /\ UNCHANGED <<reports, details, artifacts>>

\* The UNIQUE constraint on domains.name turns a lost race into an error.
CreateInsert(h) ==
    LET c == handler[h] IN
    /\ Finish(h, "create")
    /\ domains' = IF Taken(c.name) THEN domains
                  ELSE [domains EXCEPT ![c.id] = NewRow(c.name, "active")]
    /\ UNCHANGED <<reports, details, artifacts>>

Archived(row, at, days) ==
    IF days = Null
    THEN [row EXCEPT !.status = "archived", !.archived_at = at]
    ELSE [row EXCEPT !.status = "archived", !.archived_at = at,
                     !.retention_days = days,
                     !.retention_delete_at = at + days * DayLength]

ArchiveWrite(h) ==
    LET c == handler[h] IN
    /\ Finish(h, "archive")
    /\ Update(c.id, Archived(domains[c.id], c.time, c.days))
    /\ UNCHANGED <<reports, details, artifacts>>

\* Faulty variant: restore drops the retention but not the pause.
RestoredHalfCleared(row) ==
    [row EXCEPT !.status = "active", !.archived_at = Null,
                !.retention_days = Null, !.retention_delete_at = Null]

Restored(row) == [row EXCEPT !.status = "active", !.archived_at = Null]

RestoreWrite(h) ==
    LET c == handler[h] IN
    /\ Finish(h, "restore")
    /\ Update(c.id, Restored(domains[c.id]))
    /\ UNCHANGED <<reports, details, artifacts>>

PauseWrite(h) ==
    LET c == handler[h] IN
    /\ Finish(h, "pause")
    /\ Update(c.id, [domains[c.id] EXCEPT !.retention_paused = TRUE,
                                          !.retention_remaining_seconds = c.time])
    /\ UNCHANGED <<reports, details, artifacts>>

\* Faulty variant: the new deadline is not counted from now.
UnpauseCheckFromZero(h) ==
    LET c == handler[h]
        remaining == IF c.time = Null THEN 0 ELSE c.time
    IN
    /\ c.op = "unpause_check"
    /\ handler' = [handler EXCEPT ![h] =
          IF Exists(c.id) /\ domains[c.id].retention_paused
          THEN [c EXCEPT !.op = "unpause", !.time = remaining]
          ELSE Idle]
    /\ UNCHANGED <<now, tables, runner>>

\* The second SELECT of unpause_retention; a missing remainder counts as 0.
UnpauseCheck(h) ==
    LET c == handler[h]
        remaining == IF c.time = Null THEN 0 ELSE c.time
    IN
    /\ c.op = "unpause_check"
    /\ handler' = [handler EXCEPT ![h] =
          IF Exists(c.id) /\ domains[c.id].retention_paused
          THEN [c EXCEPT !.op = "unpause", !.time = now + remaining]
          ELSE Idle]
    /\ UNCHANGED <<now, tables, runner>>

\* Faulty variant: the deadline from before the pause stays.
UnpauseWriteOldDeadline(h) ==
    LET c == handler[h] IN
    /\ Finish(h, "unpause")
    /\ Update(c.id, [domains[c.id] EXCEPT !.retention_paused = FALSE])
    /\ UNCHANGED <<reports, details, artifacts>>

UnpauseWrite(h) ==
    LET c == handler[h] IN
    /\ Finish(h, "unpause")
    /\ Update(c.id, [domains[c.id] EXCEPT !.retention_paused = FALSE,
                                          !.retention_delete_at = c.time])
    /\ UNCHANGED <<reports, details, artifacts>>

SetRetentionWrite(h) ==
    LET c == handler[h] IN
    /\ Finish(h, "set_retention")
    /\ Update(c.id, [domains[c.id] EXCEPT !.retention_days = c.days,
                                          !.retention_delete_at = c.time])
    /\ UNCHANGED <<reports, details, artifacts>>

\* Retention set while paused: the deadline stays, the remainder is replaced.
SetRemainingWrite(h) ==
    LET c == handler[h] IN
    /\ Finish(h, "set_remaining")
    /\ Update(c.id, [domains[c.id] EXCEPT
                        !.retention_days = c.days,
                        !.retention_remaining_seconds = c.days * DayLength])
    /\ UNCHANGED <<reports, details, artifacts>>

\* Faulty variants: the reports stay; every report goes.
PurgeDomainDataKeepsReports(id, name) ==
    /\ Update(id, NewRow(Null, "deleted"))
    /\ UNCHANGED <<reports, details, artifacts>>
PurgeDomainDataAllReports(id, name) ==
    /\ reports' = {}
    /\ Update(id, NewRow(Null, "deleted"))
    /\ UNCHANGED <<details, artifacts>>

\* One transaction: rows that refer to the id, reports by name, the row itself.
\* It does not look at the row's status, and touches no file of the archive.  The
\* rows below a report are declared ON DELETE CASCADE, but no connection switches
\* foreign keys on, so they stay.
PurgeDomainData(id, name) ==
    /\ reports' = {r \in reports : r[1] # name}
    /\ Update(id, NewRow(Null, "deleted"))
    /\ UNCHANGED <<details, artifacts>>

DeleteWrite(h) ==
    /\ Finish(h, "delete")
    /\ PurgeDomainData(handler[h].id, handler[h].name)

-------------------------------------------------------------------------------
(* The runner thread: one pass ingests a job's reports, then purges the    *)
(* expired domains; it never does both at once.                            *)

\* can_ingest_for_domain, by name, on a connection of its own.
IngestCheck(name, id) ==
    /\ runner.pc = "ingest"
    /\ domains[id].status = "active" /\ domains[id].name = name
    /\ runner' = [runner EXCEPT !.pc = "checked", !.name = name, !.id = id]
    /\ UNCHANGED <<now, tables, handler>>

\* The report is inserted under the name that was checked, in one transaction with
\* the rows below it (a forensic report and an empty aggregate report have none).
IngestStore ==
    /\ runner.pc = "checked"
    /\ reports' = reports \cup {<<runner.name, runner.id>>}
    /\ details' \in {details, details \cup {<<runner.name, runner.id>>}}
    /\ runner' = [runner EXCEPT !.pc = "stored"]
    /\ UNCHANGED <<now, domains, artifacts, handler>>

\* The report is a duplicate, or the insert fails and is rolled back.
IngestSkip ==
    /\ runner.pc = "checked"
    /\ runner' = RunnerReady
    /\ UNCHANGED <<now, tables, handler>>

\* The raw artifact follows, where an archive is configured and can be written.
ArchiveStore ==
    /\ runner.pc = "stored"
    /\ \/ artifacts' = artifacts
       \/ ArchiveConfigured /\ artifacts' = artifacts \cup {runner.name}
    /\ runner' = RunnerReady
    /\ UNCHANGED <<now, domains, reports, details, handler>>

EndJob ==
    /\ runner.pc = "ingest"
    /\ runner' = [RunnerReady EXCEPT !.pc = "retention"]
    /\ UNCHANGED <<now, tables, handler>>

\* Faulty variant: takes a remainder, which unpausing leaves behind, for a pause.
DueIfNeverPaused(id) ==
    /\ domains[id].status = "archived"
    /\ domains[id].retention_delete_at # Null
    /\ domains[id].retention_delete_at <= now
    /\ domains[id].retention_remaining_seconds = Null

Due(id) ==
    /\ domains[id].status = "archived"
    /\ domains[id].retention_delete_at # Null
    /\ domains[id].retention_delete_at <= now
    /\ ~domains[id].retention_paused

SelectDue ==
    LET due == {<<id, domains[id].name>> : id \in {i \in Ids : Due(i)}} IN
    /\ runner.pc = "retention"
    /\ runner' = IF due = {} THEN RunnerReady
                 ELSE [RunnerReady EXCEPT !.pc = "purging", !.due = due]
    /\ UNCHANGED <<now, tables, handler>>

PurgeNext(id, name) ==
    /\ runner.pc = "purging" /\ <<id, name>> \in runner.due
    /\ PurgeDomainData(id, name)
    /\ LET left == runner.due \ {<<id, name>>} IN
       runner' = IF left = {} THEN RunnerReady ELSE [runner EXCEPT !.due = left]
    /\ UNCHANGED <<now, handler>>

\* An exception in the purge ends this pass; the loop logs it and goes on.
PurgeAbort ==
    /\ runner.pc = "purging"
    /\ runner' = RunnerReady
    /\ UNCHANGED <<now, tables, handler>>

-------------------------------------------------------------------------------
(* The process dies and is started again: memory is lost, the tables stay. *)
Restart ==
    /\ handler' = [h \in Handlers |-> Idle]
    /\ runner' = RunnerReady
    /\ UNCHANGED <<now, tables>>

Tick ==
    /\ now < MaxTime
    /\ now' = now + 1
    /\ UNCHANGED <<tables, handler, runner>>

Read(h) ==
    \E id \in Ids :
        \/ \E name \in Names : CreateCheck(h, id, name)
        \/ \E days \in RetentionDays \cup {Null} : ArchiveRead(h, id, days)
        \/ RestoreRead(h, id)
        \/ DeleteRead(h, id)
        \/ PauseRead(h, id)
        \/ UnpauseRead(h, id)
        \/ \E days \in RetentionDays : SetRetentionRead(h, id, days)

Write(h) ==
    \/ CreateInsert(h)
    \/ ArchiveWrite(h)
    \/ RestoreWrite(h)
    \/ DeleteWrite(h)
    \/ PauseWrite(h)
    \/ UnpauseCheck(h)
    \/ UnpauseWrite(h)
    \/ SetRetentionWrite(h)
    \/ SetRemainingWrite(h)

Ingest ==
    \/ \E name \in Names, id \in Ids : IngestCheck(name, id)
    \/ IngestStore
    \/ IngestSkip
    \/ ArchiveStore
    \/ EndJob

Purge == \E id \in Ids, name \in Names : PurgeNext(id, name)

Next ==
    \/ \E h \in Handlers : Read(h) \/ Write(h)
    \/ Ingest
    \/ SelectDue
    \/ Purge
    \/ PurgeAbort
    \/ Restart
    \/ Tick

Spec == Init /\ [][Next]_vars

\* The runner keeps looping: it comes out of every ingest job (a job holds
\* finitely many items), a pass is not aborted or killed every time, and no
\* fairness is asked of the people who send requests.
Fairness ==
    /\ WF_vars(IngestStore \/ IngestSkip) /\ WF_vars(ArchiveStore)
    /\ SF_vars(EndJob) /\ SF_vars(SelectDue) /\ SF_vars(Purge)

FairSpec == Spec /\ Fairness

-------------------------------------------------------------------------------
(* Properties.                                                             *)

TypeOK ==
    /\ now \in Nat
    /\ domains \in [Ids -> Row]
    /\ \A id \in Ids : Exists(id) => domains[id].name \in Names
    /\ reports \subseteq Names \X Ids /\ details \subseteq Names \X Ids
    /\ artifacts \subseteq Names
    /\ handler \in [Handlers -> Call]
    /\ runner \in RunnerState

\* What a call in flight is about to write still fits the row: the key of a
\* create is its own and undrawn, every other call has a row that was created,
\* and a pause, an unpause or a retention set while paused meets a row that has
\* a deadline (or no row any more), whatever the other calls did meanwhile.
CallMatchesRow(c) ==
    /\ c.op = "create" => /\ c.id \in Ids /\ c.name \in Names
                         /\ domains[c.id].status = "unused"
    /\ c.op \notin {"idle", "create"} => /\ c.id \in Ids
                                        /\ domains[c.id].status # "unused"
    /\ c.op \in {"archive", "pause", "unpause", "set_retention"} => c.time \in Nat
    /\ c.op \in {"set_retention", "set_remaining"} => c.days \in RetentionDays
    /\ c.op \in {"pause", "unpause", "set_remaining"} /\ Exists(c.id)
         => domains[c.id].retention_delete_at # Null
    /\ c.op = "delete" => c.name \in Names
CallsMatchRows ==
    /\ \A h \in Handlers : CallMatchesRow(handler[h])
    /\ \A g, h \in Handlers :
          handler[h].op = "create" /\ handler[g].id = handler[h].id => g = h

\* Whatever calls race, a domain row has a deadline exactly when it has a
\* retention period, and a paused row still has both its deadline and the
\* remainder that unpause_retention will count from (it takes a missing
\* remainder for 0, which would have the domain purged at once).
RetentionConsistent ==
    \A id \in Ids : Exists(id) =>
        LET d == domains[id] IN
        /\ d.retention_days = Null <=> d.retention_delete_at = Null
        /\ d.retention_paused => /\ d.retention_delete_at # Null
                                 /\ d.retention_remaining_seconds # Null

\* Two create_domain calls that both saw the name free leave one row: every
\* by-name lookup (ingest check, purge of reports) has one row to find.
NamesUnique ==
    \A i, j \in Ids : Exists(i) /\ Exists(j) /\ domains[i].name = domains[j].name
                        => i = j

\* Every stored report belongs to the domain that admitted it, and that domain
\* still exists: no purge leaves reports behind for whoever next takes the name.
ReportsHaveDomain ==
    \A r \in reports : Exists(r[2]) /\ domains[r[2]].name = r[1]

GoneWasArchived ==
    \A id \in Ids : Exists(id) /\ ~Exists(id)' => domains[id].status = "archived"

\* A domain row that goes away was archived when it went.
OnlyArchivedDeleted == [][GoneWasArchived]_vars

LostWithDomain == \A r \in reports \ reports' : Exists(r[2]) => ~Exists(r[2])'

\* No report of an existing row disappears unless that row goes with it.
DeletionSparesOthers == [][LostWithDomain]_vars

\* The deadline of an archived domain lies after the moment it was archived.
CountdownFollowsArchive ==
    \A id \in Ids :
        domains[id].status = "archived" /\ domains[id].retention_delete_at # Null
            => domains[id].retention_delete_at > domains[id].archived_at

\* What an archived domain has left before it may be purged.  An unpause whose
\* deadline is computed but not yet written already counts as running.
Unpausing(id) == {h \in Handlers : handler[h].op = "unpause" /\ handler[h].id = id}
TimeLeft(id) ==
    IF Unpausing(id) # {} THEN handler[CHOOSE h \in Unpausing(id) : TRUE].time - now
    ELSE IF domains[id].retention_paused THEN domains[id].retention_remaining_seconds
    ELSE domains[id].retention_delete_at - now

Counting(id) ==
    domains[id].status = "archived" /\ domains[id].retention_delete_at # Null

Grant(h) == ArchiveWrite(h) \/ SetRetentionWrite(h) \/ SetRemainingWrite(h)
Pausing(id) == \E h \in Handlers : handler[h].id = id /\ PauseWrite(h)

\* Time paused does not count: while a domain stays archived, no step but the
\* clock, a new grant of retention and a pause leaves it less time than it had,
\* and a pause takes less than a second (it keeps whole seconds only).
CountdownKept ==
    [][\A id \in Ids :
          /\ Counting(id) /\ Counting(id)'
          /\ now' = now
          /\ ~\E h \in Handlers : Grant(h)
          => IF Pausing(id) THEN TimeLeft(id)' > TimeLeft(id) - Second
                            ELSE TimeLeft(id)' >= TimeLeft(id)]_vars

\* A domain past its deadline and not paused is purged, unless a request moves
\* its deadline, pauses or restores it first.
Expired(id) ==
    /\ Counting(id)
    /\ domains[id].retention_delete_at <= now
    /\ ~domains[id].retention_paused
DueIsPurged ==
    \A id \in Ids : Expired(id) ~> ~Expired(id)

\* Where nobody deletes or restores by hand, the rows and the reports behave as
\* DomainStore says: a domain and its reports go together and only after it was
\* archived, and what lies below the reports outlives them both.
StatusOf == [id \in Ids |-> domains[id].status]
OfDomains(rows) == {id \in Ids : \E name \in Names : <<name, id>> \in rows}
Store == INSTANCE DomainStore WITH
            status <- StatusOf, data <- OfDomains(reports), details <- OfDomains(details)
ImplementsStore == Store!Spec
===============================================================================
