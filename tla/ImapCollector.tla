--------------------------- MODULE ImapCollector ---------------------------
(***************************************************************************)
(* The IMAP collector (cli/imap_watch.py, with cli/ingest_api.py): one     *)
(* process that polls a mailbox, uploads every unread message to the API,  *)
(* waits for its ingest job, records the outcome in a SQLite state file,   *)
(* marks the message read and deletes it once it is old enough.            *)
(*                                                                         *)
(* The mailbox, the server and the state file live on when the collector   *)
(* dies.  A message is known by its UID under the mailbox's UIDVALIDITY;   *)
(* when the mailbox is renumbered a UID may come to mean another message.  *)
(***************************************************************************)
EXTENDS Integers, Sequences, FiniteSets

CONSTANTS
    Messages,      \* mails that may arrive
    Reports,       \* Reports[m]: the reports attached to mail m
    Refused,       \* the reports the server may turn down or fail to store
    Raising,       \* mails whose content may make the server's runner raise
    DeleteAfter,   \* delete_after_days: negative never, 0 at once
    RestartOnStart,\* restart_on_start
    SlowCycles,    \* may a day end in the middle of a cycle?
    MaxTime,       \* bound on the clock, in days
    MaxValidity,   \* bound on the renumberings of the mailbox
    MaxFaults      \* bound on failed commands, timeouts and deaths

ASSUME ImapAssumption ==
    /\ IsFiniteSet(Messages)
    /\ DOMAIN Reports = Messages
    /\ Raising \subseteq Messages
    /\ DeleteAfter \in Int
    /\ {RestartOnStart, SlowCycles} \subseteq BOOLEAN
    /\ {MaxTime, MaxValidity, MaxFaults} \subseteq Nat

VARIABLES
    now,        \* the clock
    validity,   \* UIDVALIDITY of the mailbox
    lastUid,    \* the largest UID given out under it
    mail,       \* mail[m]: where message m is and its flags
    record,     \* record[v][u]: the row of imap_message_state
    backlog,    \* messages in jobs the collector no longer waits for
    blocked,    \* a job that makes the runner raise is in the queue: it never ends,
                \* nor does any job behind it (IngestRunner, IR_poison)
    stored,     \* the reports the server has accepted
    uploads,    \* how often a message reached the server (history)
    collector,  \* the collector's control state and local variables
    restarting, \* _restart_pending
    faults      \* failures so far

server == <<backlog, blocked, stored, uploads>>
mailbox == <<validity, lastUid, mail>>
vars == <<now, mailbox, record, server, collector, restarting, faults>>

Uids == 1..Cardinality(Messages)
Outside == [at |-> "outside", uid |-> 0, seen |-> FALSE, flagged |-> FALSE, date |-> 0]
NoRecord == [outcome |-> "absent", deleted |-> FALSE, date |-> 0]
ItemStatuses == {"accepted", "duplicate", "rejected", "invalid"}
Locations == {"idle", "selected", "listed", "message", "attempted", "waiting", "answered",
              "recorded", "seen", "removed", "sweep", "swept"}
Idle == [at |-> "idle", all |-> {}, todo |-> <<>>, job |-> "none"]

Init ==
    /\ now = 0 /\ validity = 0 /\ lastUid = 0 /\ faults = 0
    /\ mail = [m \in Messages |-> Outside]
    /\ record = [v \in 0..MaxValidity |-> [u \in Uids |-> NoRecord]]
    /\ backlog = {} /\ stored = {} /\ blocked = FALSE
    /\ uploads = [m \in Messages |-> 0]
    /\ collector = Idle
    /\ restarting = RestartOnStart

----------------------------------------------------------------------------
(* Reading the mailbox and the state file.                                 *)

Inbox == {m \in Messages : mail[m].at = "inbox"}
UidsOf(S) == {mail[m].uid : m \in S}
Holds(u) == \E m \in Inbox : mail[m].uid = u
MessageAt(u) == CHOOSE m \in Inbox : mail[m].uid = u
RecordOf(u) == record[validity][u]
Uploaded(r) == r.outcome = "success" /\ ~r.deleted

\* _is_delete_due
IsDeleteDue(date) ==
    /\ DeleteAfter >= 0
    /\ DeleteAfter = 0 \/ now >= date + DeleteAfter

\* The UIDs of S from first to last
InOrder(S, Before(_, _)) ==
    {uids \in [1..Cardinality(S) -> S] :
        \A i, j \in DOMAIN uids : i < j => Before(uids[i], uids[j])}

\* list_successful_messages: the due ones among them, and their order
DueUids == {u \in Uids : Uploaded(RecordOf(u)) /\ IsDeleteDue(RecordOf(u).date)}
OlderThan(u, w) == \/ RecordOf(u).date < RecordOf(w).date
                   \/ RecordOf(u).date = RecordOf(w).date /\ u < w

\* Faulty variant: rows are written under the UID alone, whatever its validity.
SetRecordAnyValidity(u, outcome, date) ==
    record' = [v \in DOMAIN record |-> [record[v] EXCEPT ![u] =
                  [outcome |-> outcome, deleted |-> FALSE, date |-> date]]]

SetRecord(u, outcome, date) ==
    record' = [record EXCEPT ![validity][u] =
                  [outcome |-> outcome, deleted |-> FALSE, date |-> date]]

\* mark_deleted: an UPDATE, so a row that is not there stays absent
MarkDeleted(u) ==
    record' = [record EXCEPT ![validity][u].deleted =
                  RecordOf(u).outcome # "absent"]

----------------------------------------------------------------------------
(* Moves of the collector within a cycle.                                  *)

Uid == Head(collector.todo)
Goto(at) == collector' = [collector EXCEPT !.at = at]

\* Faulty variant: the job of the message before is not forgotten.
NextMessageKeepsJob == collector' = [collector EXCEPT !.at = "message", !.todo = Tail(@)]

NextMessage == collector' = [collector EXCEPT !.at = "message", !.todo = Tail(@), !.job = "none"]
Fault == faults < MaxFaults /\ faults' = faults + 1

\* Gives up on a message: record_failure, and on to the next one.
RecordFailure == SetRecord(Uid, "failed", mail[MessageAt(Uid)].date) /\ NextMessage

\* The mailbox is opened; after a start with restart_on_start the state is cleared first.
Open ==
    /\ collector.at = "idle"
    /\ Goto("selected")
    /\ IF restarting
       THEN record' = [v \in DOMAIN record |-> [u \in Uids |-> NoRecord]]
       ELSE UNCHANGED record
    /\ UNCHANGED <<now, mailbox, server, restarting, faults>>

\* search_all, after _handle_restart has made every message unread
SearchAll ==
    /\ collector.at = "selected"
    /\ collector' = [collector EXCEPT !.at = "listed", !.all = UidsOf(Inbox)]
    /\ restarting' = FALSE
    /\ mail' = [m \in Messages |-> IF restarting /\ m \in Inbox
                                   THEN [mail[m] EXCEPT !.seen = FALSE] ELSE mail[m]]
    /\ UNCHANGED <<now, validity, lastUid, record, server, faults>>

SearchUnseen ==
    /\ collector.at = "listed"
    /\ \E uids \in InOrder(UidsOf({m \in Inbox : ~mail[m].seen}), <) :
          collector' = [collector EXCEPT !.at = "message", !.todo = uids]
    /\ UNCHANGED <<now, mailbox, record, server, restarting, faults>>

\* Faulty variant: an attempt on record is taken for an upload.
SkipAttempted ==
    /\ collector.at = "message" /\ collector.todo # <<>>
    /\ Uploaded(RecordOf(Uid)) \/ RecordOf(Uid).outcome = "none"
    /\ mail' = [m \in Messages |-> IF m \in Inbox /\ mail[m].uid = Uid
                                   THEN [mail[m] EXCEPT !.seen = TRUE] ELSE mail[m]]
    /\ NextMessage
    /\ UNCHANGED <<now, validity, lastUid, record, server, restarting, faults>>

\* The message was uploaded in an earlier cycle: only the flag is set.
SkipUploaded ==
    /\ collector.at = "message" /\ collector.todo # <<>>
    /\ Uploaded(RecordOf(Uid))
    /\ IF Holds(Uid) THEN mail' = [mail EXCEPT ![MessageAt(Uid)].seen = TRUE]
                     ELSE UNCHANGED mail
    /\ NextMessage
    /\ UNCHANGED <<now, validity, lastUid, record, server, restarting, faults>>

\* fetch_message fails for a message that has gone: nothing is recorded
FetchGone ==
    /\ collector.at = "message" /\ collector.todo # <<>>
    /\ ~Uploaded(RecordOf(Uid)) /\ ~Holds(Uid)
    /\ NextMessage
    /\ UNCHANGED <<now, mailbox, record, server, restarting, faults>>

\* Faulty variant: the record of an earlier success is not looked at.
AttemptAlways ==
    /\ collector.at = "message" /\ collector.todo # <<>> /\ Holds(Uid)
    /\ SetRecord(Uid, "none", mail[MessageAt(Uid)].date)
    /\ Goto("attempted")
    /\ UNCHANGED <<now, mailbox, server, restarting, faults>>

\* fetch_message and record_attempt
Attempt ==
    /\ collector.at = "message" /\ collector.todo # <<>>
    /\ ~Uploaded(RecordOf(Uid)) /\ Holds(Uid)
    /\ SetRecord(Uid, "none", mail[MessageAt(Uid)].date)
    /\ Goto("attempted")
    /\ UNCHANGED <<now, mailbox, server, restarting, faults>>

\* A mail with nothing the server is bound to take may be uploaded in every cycle, and
\* behind a job that raises any mail is; these are not counted.
Count(m) == uploads' = IF blocked \/ Reports[m] \subseteq Refused THEN uploads
                       ELSE [uploads EXCEPT ![m] = @ + 1]

\* A job for message m enters the queue.
Enqueue(m) ==
    /\ blocked' \in {blocked} \union (IF m \in Raising THEN {TRUE} ELSE {})
    /\ Count(m)
    /\ UNCHANGED stored

\* The collector goes on without the job it waits for; the server will come to it.
Abandon == backlog' = IF collector.job = "open" /\ ~blocked
                      THEN backlog \union {MessageAt(Uid)} ELSE backlog

\* submit_report_bytes
Submit ==
    /\ collector.at = "attempted"
    /\ collector' = [collector EXCEPT !.at = "waiting", !.job = "open"]
    /\ Enqueue(MessageAt(Uid))
    /\ UNCHANGED <<now, mailbox, record, backlog, restarting, faults>>

\* The request fails, before or after the server has created the job.
SubmitFails ==
    /\ collector.at = "attempted" /\ Fault
    /\ \/ UNCHANGED server
       \/ /\ Enqueue(MessageAt(Uid))
          /\ backlog' = IF blocked' THEN backlog ELSE backlog \union {MessageAt(Uid)}
    /\ RecordFailure
    /\ UNCHANGED <<now, mailbox, restarting>>

\* wait_for_job_terminal sees the state the job has reached.
JobEnded ==
    /\ collector.at = "waiting" /\ collector.job # "open"
    /\ Goto("answered")
    /\ UNCHANGED <<now, mailbox, record, server, restarting, faults>>

\* Timeout or failed request while waiting: the job goes on without the collector.
WaitFails ==
    /\ collector.at = "waiting" /\ Fault
    /\ Abandon
    /\ RecordFailure
    /\ UNCHANGED <<now, mailbox, blocked, stored, uploads, restarting>>

\* The job is one of those that never end: the wait runs into its timeout.
WaitTimesOut ==
    /\ collector.at = "waiting" /\ collector.job = "open" /\ blocked
    /\ RecordFailure
    /\ UNCHANGED <<now, mailbox, server, restarting, faults>>

\* Faulty variant: any job that reached a terminal state will do.
SuccessfulIfTerminal(job) == job \in ItemStatuses

\* is_successful_job, for the one item of the job
Successful(job) == job \in {"accepted", "duplicate"}

RecordSuccess ==
    /\ collector.at = "answered" /\ Successful(collector.job)
    /\ SetRecord(Uid, "success", mail[MessageAt(Uid)].date)
    /\ Goto("recorded")
    /\ UNCHANGED <<now, mailbox, server, restarting, faults>>

RecordRefused ==
    /\ collector.at = "answered" /\ ~Successful(collector.job)
    /\ RecordFailure
    /\ UNCHANGED <<now, mailbox, server, restarting, faults>>

MarkSeen ==
    /\ collector.at = "recorded"
    /\ mail' = [mail EXCEPT ![MessageAt(Uid)].seen = TRUE]
    /\ IF IsDeleteDue(mail[MessageAt(Uid)].date) THEN Goto("seen") ELSE NextMessage
    /\ UNCHANGED <<now, validity, lastUid, record, server, restarting, faults>>

\* EXPUNGE and CLOSE remove every message that carries \Deleted; hard_delete sets it on
\* message u first.
Expunge(S) == [m \in Messages |-> IF m \in Inbox /\ (m \in S \/ mail[m].flagged)
                                  THEN [Outside EXCEPT !.at = "expunged"] ELSE mail[m]]
Expunged(u) == Expunge({m \in Inbox : mail[m].uid = u})
Flagged(u) == [m \in Messages |-> IF m \in Inbox /\ mail[m].uid = u
                                  THEN [mail[m] EXCEPT !.flagged = TRUE] ELSE mail[m]]

HardDelete ==
    /\ collector.at = "seen"
    /\ mail' = Expunged(Uid)
    /\ Goto("removed")
    /\ UNCHANGED <<now, validity, lastUid, record, server, restarting, faults>>

RecordDeleted ==
    /\ collector.at = "removed"
    /\ MarkDeleted(Uid)
    /\ NextMessage
    /\ UNCHANGED <<now, mailbox, server, restarting, faults>>

\* A command of the mailbox is refused (ImapCommandError) while one message is handled:
\* FETCH leaves no record, STORE and EXPUNGE turn the record into a failure.
CommandFails ==
    /\ Fault
    /\ \/ /\ collector.at = "message" /\ collector.todo # <<>>
          /\ ~Uploaded(RecordOf(Uid))
          /\ NextMessage
          /\ UNCHANGED <<mail, record>>
       \/ /\ collector.at \in {"recorded", "seen"}
          /\ RecordFailure
          /\ \/ UNCHANGED mail
             \/ /\ collector.at = "seen"
                /\ mail' = Flagged(Uid)
    /\ UNCHANGED <<now, validity, lastUid, server, restarting>>

\* _delete_due_messages: the list is read once and worked off.
StartSweep ==
    /\ collector.at = "message" /\ collector.todo = <<>>
    /\ \E uids \in InOrder(DueUids, OlderThan) :
          collector' = [collector EXCEPT !.at = "sweep", !.todo = uids]
    /\ UNCHANGED <<now, mailbox, record, server, restarting, faults>>

\* Faulty variant: a message that has gone ends the sweep.
SweepNextStops ==
    /\ collector.at = "sweep" /\ collector.todo # <<>>
    /\ IF Uid \in collector.all
       THEN mail' = Expunged(Uid) /\ Goto("swept")
       ELSE collector' = Idle /\ UNCHANGED mail
    /\ UNCHANGED <<now, validity, lastUid, record, server, restarting, faults>>

SweepNext ==
    /\ collector.at = "sweep" /\ collector.todo # <<>>
    /\ IF Uid \in collector.all
       THEN /\ mail' = Expunged(Uid)
            /\ Goto("swept")
            /\ UNCHANGED record
       ELSE /\ MarkDeleted(Uid)
            /\ collector' = [collector EXCEPT !.todo = Tail(@)]
            /\ UNCHANGED mail
    /\ UNCHANGED <<now, validity, lastUid, server, restarting, faults>>

SweepRecord ==
    /\ collector.at = "swept"
    /\ MarkDeleted(Uid)
    /\ collector' = [collector EXCEPT !.at = "sweep", !.todo = Tail(@)]
    /\ UNCHANGED <<now, mailbox, server, restarting, faults>>

\* The mailbox is closed (__exit__) until the next poll.
Sleep ==
    /\ collector.at = "sweep" /\ collector.todo = <<>>
    /\ collector' = Idle
    /\ mail' = Expunge({})
    /\ UNCHANGED <<now, validity, lastUid, record, server, restarting, faults>>

\* An exception that is not caught ends the cycle (run_forever logs it), with or without
\* a CLOSE; a refused deletion in the sweep is one.  So does the death of the process,
\* and then restart_on_start applies again.
Interrupt ==
    /\ collector.at # "idle" /\ Fault
    /\ collector' = Idle
    /\ mail' \in {mail, Expunge({})} \union
          (IF collector.at \in {"seen", "sweep"} /\ collector.todo # <<>>
           THEN {Flagged(Uid), Expunged(Uid)} ELSE {})
    /\ Abandon
    /\ restarting' \in {restarting, RestartOnStart}
    /\ UNCHANGED <<now, validity, lastUid, record, blocked, stored, uploads>>

----------------------------------------------------------------------------
(* The rest of the world.                                                  *)

\* What the server may take of a mail: each attachment is judged for itself.
Takings(m) == {taken \in SUBSET Reports[m] : Reports[m] \ Refused \subseteq taken}

\* _combine_nested_results: the one item of the job gets the best of its attachments'
\* results; a mail without attachments is invalid.
Statuses(m, taken) ==
    IF taken = {} THEN {"rejected", "invalid"}
    ELSE IF taken \subseteq stored THEN {"duplicate"} ELSE {"accepted"}

\* The server ends the job the collector waits for.
EndJob ==
    /\ collector.at = "waiting" /\ collector.job = "open" /\ ~blocked
    /\ \E taken \in Takings(MessageAt(Uid)) :
          /\ \E status \in Statuses(MessageAt(Uid), taken) :
                collector' = [collector EXCEPT !.job = status]
          /\ stored' = stored \union taken
    /\ UNCHANGED <<now, mailbox, record, backlog, blocked, uploads, restarting, faults>>

\* ... or one it no longer waits for.
EndOldJob(m) ==
    /\ m \in backlog
    /\ backlog' = backlog \ {m}
    /\ \E taken \in Takings(m) : stored' = stored \union taken
    /\ UNCHANGED <<now, mailbox, record, blocked, uploads, collector, restarting, faults>>

\* A mail arrives, or is moved here and keeps its date.
Arrive(m) ==
    /\ mail[m].at = "outside"
    /\ lastUid' = lastUid + 1
    /\ \E date \in 0..now :
          mail' = [mail EXCEPT ![m] = [Outside EXCEPT !.at = "inbox", !.uid = lastUid + 1,
                                                      !.date = date]]
    /\ UNCHANGED <<now, validity, record, server, collector, restarting, faults>>

\* Somebody marks a message unread.
MarkUnread(m) ==
    /\ m \in Inbox /\ mail[m].seen
    /\ mail' = [mail EXCEPT ![m].seen = FALSE]
    /\ UNCHANGED <<now, validity, lastUid, record, server, collector, restarting, faults>>

\* The server renumbers the mailbox, while nobody has it open.
Renumber ==
    /\ collector.at = "idle" /\ validity < MaxValidity
    /\ validity' = validity + 1
    /\ lastUid' = Cardinality(Inbox)
    /\ \E uid \in [Inbox -> 1..Cardinality(Inbox)] :
          /\ \A m, n \in Inbox : uid[m] = uid[n] => m = n
          /\ mail' = [m \in Messages |-> IF m \in Inbox THEN [mail[m] EXCEPT !.uid = uid[m]]
                                         ELSE mail[m]]
    /\ UNCHANGED <<now, record, server, collector, restarting, faults>>

Tick ==
    /\ now < MaxTime
    /\ SlowCycles \/ collector.at = "idle"
    /\ now' = now + 1
    /\ UNCHANGED <<mailbox, record, server, collector, restarting, faults>>

----------------------------------------------------------------------------
RunCycle ==
    \/ Open \/ SearchAll \/ SearchUnseen
    \/ SkipUploaded \/ FetchGone \/ Attempt \/ Submit \/ WaitTimesOut \/ JobEnded
    \/ RecordSuccess \/ RecordRefused \/ MarkSeen \/ HardDelete \/ RecordDeleted
    \/ StartSweep \/ SweepNext \/ SweepRecord \/ Sleep
Failure == SubmitFails \/ WaitFails \/ CommandFails \/ Interrupt
World ==
    \/ EndJob \/ Renumber \/ Tick
    \/ \E m \in Messages : EndOldJob(m) \/ Arrive(m) \/ MarkUnread(m)
Next == RunCycle \/ Failure \/ World

\* The collector loops for ever and the server works off its queue as far as a job that
\* raises (IngestRunner's JobsEndUnlessBlocked); nothing else is sure.
Fairness == WF_vars(RunCycle) /\ WF_vars(EndJob) /\ \A m \in Messages : WF_vars(EndOldJob(m))
Spec == Init /\ [][Next]_vars /\ Fairness

----------------------------------------------------------------------------
(* Properties.                                                             *)

\* Types: every table and the collector's variables hold what their code puts there.
TypeOK ==
    /\ now \in 0..MaxTime /\ validity \in 0..MaxValidity /\ faults \in 0..MaxFaults
    /\ lastUid \in 0..Cardinality(Messages)
    /\ mail \in [Messages -> [at : {"outside", "inbox", "expunged"}, uid : 0..lastUid,
                              seen : BOOLEAN, flagged : BOOLEAN, date : 0..now]]
    /\ record \in [0..MaxValidity -> [Uids ->
                     [outcome : {"absent", "none", "success", "failed"},
                      deleted : BOOLEAN, date : 0..now]]]
    /\ backlog \subseteq Messages /\ stored \subseteq UNION {Reports[m] : m \in Messages}
    /\ blocked \in BOOLEAN
    /\ uploads \in [Messages -> Nat]
    /\ collector \in [at : Locations, all : SUBSET Uids, todo : Seq(Uids),
                      job : {"none", "open"} \union ItemStatuses]
    /\ (collector.job # "none") = (collector.at \in {"waiting", "answered", "recorded",
                                                     "seen", "removed"})
    /\ restarting \in BOOLEAN

\* Every report of the mail that the server was bound to take is in its tables, and at
\* least one report is.
Delivered(m) == Reports[m] \ Refused \subseteq stored /\ Reports[m] \intersect stored # {}

\* A mail is removed from the mailbox only when at least one of its reports is stored and
\* none is missing but such as the server turned down, whatever fails, dies, raises or is
\* renumbered on the way: deletion is final (hard_delete).  A turned-down report does go
\* with its mail if another attachment was taken (_combine_nested_results).
DeletedWasStored == \A m \in Messages : mail[m].at = "expunged" => Delivered(m)

\* A record of success stands for the message that has this UID now, if any has.
SuccessWasStored == \A m \in Inbox : Uploaded(RecordOf(mail[m].uid)) => Delivered(m)

\* A report is uploaded again only on account of a failure, a renumbering, a blocked queue
\* or a day that ends within a cycle: then a message that came between the two searches and
\* became due is recorded as deleted though it is still there (_delete_due_messages).
\* Marking a message unread is not enough (_process_unseen_message, get_message).
RepeatsAreCaused ==
    \A m \in Messages :
        uploads[m] <= 1 + faults + validity + (IF SlowCycles THEN now ELSE 0)

\* What the server is bound to take is stored in the end, unless a job that raises comes
\* to lie in front of it (run_forever, run_one_job).
ArrivedIsStored ==
    \A m \in Messages \ Raising :
        mail[m].at = "inbox" ~> Reports[m] \ Refused \subseteq stored \/ blocked

\* A message whose success is on record leaves the mailbox once it is due, unless the
\* record is overwritten or the mailbox renumbered (_delete_due_messages).
RecordedIsDeleted ==
    \A m \in Messages :
        LET recorded == m \in Inbox /\ Uploaded(RecordOf(mail[m].uid))
        IN  recorded /\ IsDeleteDue(mail[m].date) ~> ~recorded

============================================================================
