------------------------ MODULE ImapCollectorProofs ------------------------
(***************************************************************************)
(* Theorems of module ImapCollector, for any mailbox: the tables keep      *)
(* their types; a message is deleted, and counts as uploaded, only once    *)
(* its reports are stored, the refused ones excepted; a report is uploaded *)
(* again only on account of a failure or a renumbering.                    *)
(*                                                                         *)
(* A message is known by a UID that is unique as long as the UIDVALIDITY   *)
(* lasts, so what the collector holds in its list and in the state file    *)
(* stays true of the message it was read from.  The inductive invariant    *)
(* follows a message from the server's answer to its deletion.             *)
(***************************************************************************)
EXTENDS ImapCollector, FiniteSetTheorems, TLAPS

\* The places between fetching a message and marking it read, and those in which the server
\* has been asked for it.
InHand == {"attempted", "waiting", "answered", "recorded", "seen"}
Working == InHand \union {"removed"}

\* UIDs: those in the mailbox have one each, numbered under the current validity.
Arrived == {m \in Messages : mail[m].at # "outside"}
UidsGiven ==
    /\ \A m \in Messages : IF m \in Inbox THEN mail[m].uid # 0
                                          ELSE mail[m].uid = 0 /\ ~mail[m].flagged
    /\ \A m, n \in Inbox : mail[m].uid = mail[n].uid => m = n
    /\ lastUid <= Cardinality(Arrived)

\* Nothing is listed or on record for UIDs that have not been given out.
ListKnown == \A i \in DOMAIN collector.todo : collector.todo[i] <= lastUid
RecordsKnown ==
    /\ \A v \in 0..MaxValidity : v > validity => record[v] = [u \in Uids |-> NoRecord]
    /\ \A u \in Uids : RecordOf(u).outcome # "absent" => u <= lastUid

\* Between polls nothing is kept; the message in hand is in the mailbox.
PlaceKnown ==
    /\ collector.at = "idle" => collector = Idle
    /\ collector.at \in Working \union {"swept"} => collector.todo # <<>>
    /\ collector.at \in InHand => Holds(Uid)
    /\ collector.job = "open" => collector.at = "waiting"

TypesInv == TypeOK /\ UidsGiven /\ ListKnown /\ RecordsKnown /\ PlaceKnown

\* The same, variable by variable
Message == [at : {"outside", "inbox", "expunged"}, uid : 0..lastUid, seen : BOOLEAN,
            flagged : BOOLEAN, date : 0..now]
Row == [outcome : {"absent", "none", "success", "failed"}, deleted : BOOLEAN, date : 0..now]
MailOK == /\ lastUid \in 0..Cardinality(Messages) /\ mail \in [Messages -> Message]
          /\ UidsGiven
RecordOK == record \in [0..MaxValidity -> [Uids -> Row]] /\ RecordsKnown
CollectorOK ==
    /\ collector \in [at : Locations, all : SUBSET Uids, todo : Seq(Uids),
                      job : {"none", "open"} \union ItemStatuses]
    /\ (collector.job # "none") = (collector.at \in {"waiting", "answered", "recorded",
                                                     "seen", "removed"})
    /\ ListKnown /\ PlaceKnown
Attachments == UNION {Reports[m] : m \in Messages}
RestOK == /\ now \in 0..MaxTime /\ validity \in 0..MaxValidity /\ faults \in 0..MaxFaults
          /\ backlog \subseteq Messages /\ blocked \in BOOLEAN
          /\ stored \subseteq Attachments
          /\ uploads \in [Messages -> Nat] /\ restarting \in BOOLEAN

\* The messages that may be deleted
Safe == {m \in Messages : Delivered(m)}

\* A message is flagged as deleted after its upload, the list of the sweep is one of uploads,
\* and the answer "accepted" or "duplicate" is given for what is stored.
FlaggedWasStored == \A m \in Messages : mail[m].flagged => m \in Safe
AnswerWasStored ==
    /\ collector.at \in {"recorded", "seen", "removed"} => Successful(collector.job)
    /\ collector.at \in InHand /\ Successful(collector.job) =>
          \A m \in Inbox : mail[m].uid = Uid => m \in Safe
SweptWasStored ==
    collector.at \in {"sweep", "swept"} =>
        \A m \in Inbox, i \in DOMAIN collector.todo :
            mail[m].uid = collector.todo[i] => m \in Safe

StoredInv == /\ FlaggedWasStored /\ AnswerWasStored /\ SweptWasStored
             /\ DeletedWasStored /\ SuccessWasStored

\* How often m may have been uploaded when its upload is not on record: once less, unless
\* the queue is blocked and nothing is counted any more.
Budget == faults + validity
Within(m) == blocked \/ uploads[m] <= Budget
Uncounted == {m \in Messages : Reports[m] \subseteq Refused}
Bounded == \A m \in Messages : uploads[m] <= 1 + Budget
BeingUploaded(m) == collector.at \in {"waiting", "answered"} /\ mail[m].uid = Uid
UploadsCounted ==
    /\ \A m \in Messages : mail[m].at = "outside" \/ m \in Uncounted => uploads[m] = 0
    /\ \A m \in Inbox : Uploaded(RecordOf(mail[m].uid)) \/ BeingUploaded(m) \/ Within(m)
    /\ collector.at \in {"attempted", "waiting", "answered"} => ~Uploaded(RecordOf(Uid))
    /\ collector.at \in InHand /\ collector.job \in {"rejected", "invalid"} =>
          \A m \in Inbox : mail[m].uid = Uid => m \in Uncounted

\* A restart clears the records; that has been paid for by the failure before it.
RestartCounted ==
    restarting => /\ collector.at \in {"idle", "selected"}
                  /\ \A m \in Messages : Within(m)

\* Messages that came after the mailbox was listed are not due in the same cycle, unless one
\* is in hand: the record of a message that is still there is not marked deleted.
LateNotDue ==
    collector.at \notin {"idle", "selected"} =>
        \A m \in Inbox :
            LET row == RecordOf(mail[m].uid)
            IN  \/ mail[m].uid \in collector.all
                \/ ~Uploaded(row) \/ ~IsDeleteDue(row.date)
                \/ collector.at \in {"recorded", "seen"} /\ mail[m].uid = Uid
DateRecorded ==
    collector.at \in {"recorded", "seen"} =>
        \A m \in Inbox : mail[m].uid = Uid => RecordOf(Uid).date = mail[m].date
SweptAreListed ==
    /\ collector.at \in {"sweep", "swept"} =>
          \A m \in Inbox, i \in DOMAIN collector.todo :
              mail[m].uid = collector.todo[i] => mail[m].uid \in collector.all
    /\ collector.at \in {"removed", "swept"} => ~Holds(Uid)

RepeatsInv == /\ UploadsCounted /\ RestartCounted /\ Bounded
              /\ LateNotDue /\ DateRecorded /\ SweptAreListed

-----------------------------------------------------------------------------
(* Operators.                                                              *)

\* The invariant is the sum of what holds of each variable.
LEMMA TypesParts ==
    /\ TypesInv <=> MailOK /\ RecordOK /\ CollectorOK /\ RestOK
    /\ TypesInv' <=> MailOK' /\ RecordOK' /\ CollectorOK' /\ RestOK'
BY DEF TypesInv, TypeOK, MailOK, RecordOK, CollectorOK, RestOK, Message, Row, Attachments

\* There are finitely many UIDs.
LEMMA UidsFinite == /\ Cardinality(Messages) \in Nat
                    /\ \A S \in SUBSET Uids : IsFiniteSet(S) /\ Cardinality(S) \in Nat
<1>1. Cardinality(Messages) \in Nat
  BY ImapAssumption, FS_CardinalityType
<1>2. IsFiniteSet(Uids)
  BY <1>1, FS_Interval DEF Uids
<1>. QED  BY <1>1, <1>2, FS_Subset, FS_CardinalityType

\* The UID of a message is one of those given out.
LEMMA UidKnown ==
    ASSUME MailOK, NEW m \in Inbox
    PROVE  mail[m].uid \in Uids /\ mail[m].uid <= lastUid
BY UidsFinite DEF MailOK, UidsGiven, Message, Inbox, Uids

\* The message that is held by a UID has it.
LEMMA HeldMessage ==
    ASSUME NEW u, Holds(u)
    PROVE  MessageAt(u) \in Inbox /\ mail[MessageAt(u)].uid = u
BY DEF Holds, MessageAt

\* No other message has it.
LEMMA OnlyMessage ==
    ASSUME MailOK, NEW m \in Inbox
    PROVE  Holds(mail[m].uid) /\ MessageAt(mail[m].uid) = m
BY DEF Holds, MessageAt, MailOK, UidsGiven

\* A list of UIDs holds these UIDs.
LEMMA ListOfUids ==
    ASSUME NEW S \in SUBSET Uids, NEW uids \in [1..Cardinality(S) -> S]
    PROVE  uids \in Seq(Uids) /\ DOMAIN uids = 1..Len(uids) /\ \A i \in DOMAIN uids : uids[i] \in S
<1>1. Cardinality(S) \in Nat
  BY UidsFinite
<1>. QED  BY <1>1

\* The collector's list has a first UID when a message is worked on.
LEMMA FirstOfList ==
    ASSUME CollectorOK, collector.todo # <<>>
    PROVE  /\ Uid \in Uids /\ Uid <= lastUid /\ 1 \in DOMAIN collector.todo
           /\ Uid = collector.todo[1]
BY DEF CollectorOK, ListKnown, Uid

\* What remains of a list was in it.
LEMMA RestOfList ==
    ASSUME CollectorOK, collector.todo # <<>>
    PROVE  /\ Tail(collector.todo) \in Seq(Uids)
           /\ \A i \in DOMAIN Tail(collector.todo) :
                 /\ i + 1 \in DOMAIN collector.todo
                 /\ Tail(collector.todo)[i] = collector.todo[i + 1]
BY DEF CollectorOK

-----------------------------------------------------------------------------
(* What the collector does to the mailbox: messages in gone are expunged,  *)
(* those in marked flagged as deleted, others at most read or unread.      *)

Handled(gone, marked) ==
    /\ gone \subseteq Inbox /\ marked \subseteq Inbox
    /\ UNCHANGED <<now, validity, lastUid>>
    /\ mail' \in [Messages -> Message]
    /\ \A m \in gone : mail'[m] = [Outside EXCEPT !.at = "expunged"]
    /\ \A m \in Messages \ gone :
          /\ mail'[m].at = mail[m].at /\ mail'[m].uid = mail[m].uid
          /\ mail'[m].date = mail[m].date
          /\ mail'[m].flagged = (mail[m].flagged \/ m \in marked)

\* This leaves the UIDs as they are.
LEMMA HandledMail ==
    ASSUME MailOK, NEW gone, NEW marked, Handled(gone, marked)
    PROVE  /\ MailOK'
           /\ Inbox' = Inbox \ gone
           /\ \A u : Holds(u)' => Holds(u)
           /\ gone = {} => \A u : Holds(u) => Holds(u)'
<1>1. Inbox' = Inbox \ gone
  BY DEF Handled, Inbox, Outside
<1>2. Arrived' = Arrived
  BY DEF Handled, Arrived, Inbox, Outside
<1>3. Message' = Message
  BY DEF Handled, Message
<1>4. UidsGiven'
  <2>1. ASSUME NEW m \in Messages
        PROVE  IF m \in Inbox' THEN mail'[m].uid # 0 ELSE mail'[m].uid = 0 /\ ~mail'[m].flagged
    <3>1. CASE m \in gone
      BY <1>1, <3>1 DEF Handled, Outside
    <3>2. CASE m \notin gone
      BY <1>1, <3>2 DEF Handled, MailOK, UidsGiven
    <3>. QED  BY <3>1, <3>2
  <2>2. ASSUME NEW m \in Inbox', NEW n \in Inbox', mail'[m].uid = mail'[n].uid
        PROVE  m = n
    BY <1>1, <2>2 DEF Handled, MailOK, UidsGiven, Inbox
  <2>. QED  BY <1>2, <2>1, <2>2 DEF UidsGiven, Handled, MailOK
<1>5. MailOK'
  BY <1>3, <1>4 DEF MailOK, Handled
<1>. QED  BY <1>1, <1>5 DEF Handled, Holds, Inbox

\* What an expunge of message u removes
Removed(u) == {m \in Inbox : mail[m].uid = u \/ mail[m].flagged}

\* The actions on the mailbox, in these terms
LEMMA ExpungeHandles ==
    ASSUME MailOK, RestOK, NEW u, UNCHANGED <<now, validity, lastUid>>
    PROVE  /\ mail' = Expunged(u) => Handled(Removed(u), {})
           /\ mail' = Expunge({}) => Handled({m \in Inbox : mail[m].flagged}, {})
           /\ mail' = Flagged(u) => Handled({}, {m \in Inbox : mail[m].uid = u})
<1>1. /\ [Outside EXCEPT !.at = "expunged"] \in Message
      /\ \A m \in Inbox : [mail[m] EXCEPT !.flagged = TRUE] \in Message
  <2>1. lastUid \in Nat /\ now \in Nat
    BY UidsFinite, ImapAssumption DEF MailOK, RestOK
  <2>2. [Outside EXCEPT !.at = "expunged"] \in Message
    <3>1. Outside \in Message
      BY <2>1 DEF Outside, Message
    <3>. QED  BY <3>1 DEF Message
  <2>3. \A m \in Inbox : mail[m] \in Message
    BY DEF MailOK, Inbox
  <2>4. \A m \in Inbox : [mail[m] EXCEPT !.flagged = TRUE] \in Message
    BY <2>3 DEF Message
  <2>. QED  BY <2>2, <2>4
<1>0. ASSUME NEW gone \in SUBSET Inbox,
             mail' = [m \in Messages |-> IF m \in gone
                                         THEN [Outside EXCEPT !.at = "expunged"] ELSE mail[m]]
      PROVE  Handled(gone, {})
  <2>1. gone \subseteq Messages /\ mail \in [Messages -> Message]
    BY DEF Inbox, MailOK
  <2>2. mail' \in [Messages -> Message]
    <3>. DEFINE e == [Outside EXCEPT !.at = "expunged"]
    <3>1. e \in Message
      BY <1>1
    <3>. HIDE DEF e
    <3>. QED  BY <1>0, <2>1, <3>1 DEF e
  <2>3. \A m \in Messages \ gone : mail'[m] = mail[m] /\ mail[m].flagged \in BOOLEAN
    BY <1>0, <2>1 DEF Message
  <2>. QED  BY <1>0, <2>1, <2>2, <2>3 DEF Handled
<1>2. ASSUME mail' = Expunged(u) PROVE Handled(Removed(u), {})
  <2>1. mail' = [m \in Messages |-> IF m \in Removed(u)
                                    THEN [Outside EXCEPT !.at = "expunged"] ELSE mail[m]]
    BY <1>2 DEF Expunged, Expunge, Removed
  <2>. QED  BY <1>0, <2>1 DEF Removed
<1>3. ASSUME mail' = Expunge({}) PROVE Handled({m \in Inbox : mail[m].flagged}, {})
  <2>. DEFINE gone == {m \in Inbox : mail[m].flagged}
  <2>1. mail' = [m \in Messages |-> IF m \in gone
                                    THEN [Outside EXCEPT !.at = "expunged"] ELSE mail[m]]
    BY <1>3 DEF Expunge
  <2>. QED  BY <1>0, <2>1
<1>4. ASSUME mail' = Flagged(u) PROVE Handled({}, {m \in Inbox : mail[m].uid = u})
  <2>1. \A m \in Messages : mail[m] \in Message /\ mail[m].flagged \in BOOLEAN
    BY DEF MailOK, Message
  <2>2. mail' \in [Messages -> Message]
    BY <1>1, <1>4, <2>1 DEF Flagged
  <2>3. ASSUME NEW m \in Messages
        PROVE  /\ mail'[m].at = mail[m].at /\ mail'[m].uid = mail[m].uid
               /\ mail'[m].date = mail[m].date
               /\ mail'[m].flagged = (mail[m].flagged \/ m \in {n \in Inbox : mail[n].uid = u})
    <3>1. CASE m \in Inbox /\ mail[m].uid = u
      <4>1. mail'[m] = [mail[m] EXCEPT !.flagged = TRUE] /\ mail[m] \in Message
        BY <1>4, <2>1, <3>1 DEF Flagged
      <4>. QED  BY <3>1, <4>1 DEF Message
    <3>2. CASE ~(m \in Inbox /\ mail[m].uid = u)
      BY <1>4, <2>1, <3>2 DEF Flagged
    <3>. QED  BY <3>1, <3>2
  <2>. QED  BY <2>2, <2>3 DEF Handled
<1>. QED  BY <1>2, <1>3, <1>4

\* Nor does marking messages read or unread.
LEMMA SeenHandles ==
    ASSUME MailOK, UNCHANGED <<now, validity, lastUid>>,
           \/ UNCHANGED mail
           \/ \E n \in Inbox, seen \in BOOLEAN : mail' = [mail EXCEPT ![n].seen = seen]
           \/ mail' = [m \in Messages |-> IF restarting /\ m \in Inbox
                                          THEN [mail[m] EXCEPT !.seen = FALSE] ELSE mail[m]]
    PROVE  Handled({}, {})
<1>1. mail \in [Messages -> Message] /\ \A m \in Messages : mail[m].flagged \in BOOLEAN
  BY DEF MailOK, Message
<1>2. CASE UNCHANGED mail
  BY <1>1, <1>2 DEF Handled
<1>3. ASSUME NEW n \in Inbox, NEW seen \in BOOLEAN, mail' = [mail EXCEPT ![n].seen = seen]
      PROVE  Handled({}, {})
  <2>1. n \in Messages /\ mail[n] \in Message /\ mail'[n] = [mail[n] EXCEPT !.seen = seen]
    BY <1>1, <1>3 DEF Inbox
  <2>2. /\ mail'[n] \in Message /\ mail'[n].at = mail[n].at /\ mail'[n].uid = mail[n].uid
        /\ mail'[n].date = mail[n].date /\ mail'[n].flagged = mail[n].flagged
    BY <2>1 DEF Message
  <2>3. \A m \in Messages \ {n} : mail'[m] = mail[m]
    BY <1>1, <1>3
  <2>4. mail' \in [Messages -> Message]
    BY <1>1, <1>3, <2>1, <2>2, <2>3
  <2>. QED  BY <1>1, <2>2, <2>3, <2>4 DEF Handled
<1>4. CASE mail' = [m \in Messages |-> IF restarting /\ m \in Inbox
                                       THEN [mail[m] EXCEPT !.seen = FALSE] ELSE mail[m]]
  <2>1. ASSUME NEW m \in Messages
        PROVE  /\ mail'[m] \in Message /\ mail'[m].at = mail[m].at
               /\ mail'[m].uid = mail[m].uid /\ mail'[m].date = mail[m].date
               /\ mail'[m].flagged = mail[m].flagged
    <3>1. mail[m] \in Message
      BY <1>1
    <3>2. mail'[m] = mail[m] \/ mail'[m] = [mail[m] EXCEPT !.seen = FALSE]
      BY <1>4
    <3>. QED  BY <3>1, <3>2 DEF Message
  <2>2. mail' \in [Messages -> Message]
    BY <1>4, <2>1
  <2>. QED  BY <1>1, <2>1, <2>2 DEF Handled
<1>. QED  BY <1>2, <1>3, <1>4

-----------------------------------------------------------------------------
(* What it does to the state file.                                         *)

\* Rows are written for UIDs that have been given out, and no other row changes.
LEMMA SetRecordRows ==
    ASSUME RecordOK, RestOK, UNCHANGED <<now, validity, lastUid>>,
           NEW u \in Uids, u <= lastUid, NEW date \in 0..now,
           NEW outcome \in {"none", "success", "failed"}, SetRecord(u, outcome, date)
    PROVE  /\ RecordOK'
           /\ RecordOf(u)' = [outcome |-> outcome, deleted |-> FALSE, date |-> date]
           /\ \A w \in Uids \ {u} : RecordOf(w)' = RecordOf(w)
<1>1. /\ record[validity] \in [Uids -> Row]
      /\ record'[validity] = [record[validity] EXCEPT ![u] =
                                 [outcome |-> outcome, deleted |-> FALSE, date |-> date]]
      /\ \A v \in (0..MaxValidity) \ {validity} : record'[v] = record[v]
      /\ record' \in [0..MaxValidity -> [Uids -> Row]]
  BY DEF RecordOK, RestOK, SetRecord, Row
<1>2. Row' = Row
  BY DEF Row
<1>3. \A w \in Uids : RecordOf(w)' = IF w = u
                         THEN [outcome |-> outcome, deleted |-> FALSE, date |-> date]
                         ELSE RecordOf(w)
  BY <1>1 DEF RecordOf
<1>4. RecordsKnown'
  <2>1. ASSUME NEW v \in 0..MaxValidity, v > validity
        PROVE  record'[v] = [w \in Uids |-> NoRecord]
    BY <1>1, <2>1 DEF RecordOK, RecordsKnown, RestOK
  <2>2. ASSUME NEW w \in Uids, RecordOf(w)'.outcome # "absent"
        PROVE  w <= lastUid
    BY <1>3, <2>2 DEF RecordOK, RecordsKnown
  <2>. QED  BY <2>1, <2>2 DEF RecordsKnown, RecordOf
<1>. QED  BY <1>1, <1>2, <1>3, <1>4 DEF RecordOK

\* A row may come to be marked deleted, nothing else.
LEMMA MarkDeletedRows ==
    ASSUME RecordOK, RestOK, UNCHANGED <<now, validity, lastUid>>, NEW u \in Uids, MarkDeleted(u)
    PROVE  /\ RecordOK'
           /\ ~Uploaded(RecordOf(u)')
           /\ \A w \in Uids \ {u} : RecordOf(w)' = RecordOf(w)
<1>. DEFINE deleted == RecordOf(u).outcome # "absent"
<1>1. /\ validity \in 0..MaxValidity /\ record[validity] \in [Uids -> Row]
      /\ record[validity][u] \in Row
      /\ record' = [record EXCEPT ![validity][u].deleted = deleted]
  BY DEF RecordOK, RestOK, MarkDeleted
<1>2. [record[validity][u] EXCEPT !.deleted = deleted] \in Row
  BY <1>1 DEF Row
<1>3. /\ record'[validity] = [record[validity] EXCEPT ![u] =
                                 [record[validity][u] EXCEPT !.deleted = deleted]]
      /\ \A v \in (0..MaxValidity) \ {validity} : record'[v] = record[v]
      /\ record' \in [0..MaxValidity -> [Uids -> Row]]
  <2>. HIDE DEF deleted
  <2>. QED  BY <1>1, <1>2 DEF RecordOK, RestOK
<1>4. /\ RecordOf(u)' = [RecordOf(u) EXCEPT !.deleted = deleted]
      /\ \A w \in Uids \ {u} : RecordOf(w)' = RecordOf(w)
  BY <1>1, <1>3 DEF RecordOf
<1>5. RecordsKnown'
  <2>1. ASSUME NEW v \in 0..MaxValidity, v > validity
        PROVE  record'[v] = [w \in Uids |-> NoRecord]
    BY <1>3, <2>1 DEF RecordOK, RecordsKnown, RestOK
  <2>2. \A w \in Uids : RecordOf(w)'.outcome = RecordOf(w).outcome
    BY <1>1, <1>4 DEF RecordOf, Row
  <2>3. \A w \in Uids : RecordOf(w)'.outcome # "absent" => w <= lastUid
    BY <2>2 DEF RecordOK, RecordsKnown
  <2>. QED  BY <2>1, <2>3 DEF RecordsKnown, RecordOf
<1>6. Row' = Row
  BY DEF Row
<1>7. ~Uploaded(RecordOf(u)')
  <2>1. /\ RecordOf(u)'.outcome = RecordOf(u).outcome
        /\ RecordOf(u)'.deleted <=> RecordOf(u).outcome # "absent"
    <3>1. RecordOf(u) \in Row /\ RecordOf(u)' = [RecordOf(u) EXCEPT !.deleted = deleted]
      BY <1>1, <1>4 DEF RecordOf
    <3>2. /\ RecordOf(u)'.outcome = RecordOf(u).outcome
          /\ RecordOf(u)'.deleted = deleted
      <4>. HIDE DEF deleted
      <4>. QED  BY <3>1 DEF Row
    <3>. QED  BY <3>2
  <2>. QED  BY <2>1 DEF Uploaded
<1>. QED  BY <1>3, <1>4, <1>5, <1>6, <1>7 DEF RecordOK

-----------------------------------------------------------------------------
(* Types.                                                                  *)

\* What a step leaves alone stays as it was.
LEMMA Untouched ==
    ASSUME MailOK, RecordOK, UNCHANGED now
    PROVE  /\ UNCHANGED mailbox => MailOK' /\ (\A u : Holds(u)' = Holds(u)) /\ Inbox' = Inbox
           /\ UNCHANGED <<validity, lastUid, record>> => RecordOK'
<1>1. (lastUid' = lastUid => Message' = Message) /\ Row' = Row
  BY DEF Message, Row
<1>2. ASSUME UNCHANGED mailbox
      PROVE  MailOK' /\ (\A u : Holds(u)' = Holds(u)) /\ Inbox' = Inbox
  <2>1. /\ mail' = mail /\ lastUid' = lastUid
    BY <1>2 DEF mailbox
  <2>2. Inbox' = Inbox /\ Arrived' = Arrived
    BY <2>1 DEF Inbox, Arrived
  <2>3. MailOK'
    BY <1>1, <2>1, <2>2 DEF MailOK, UidsGiven
  <2>4. \A u : Holds(u)' = Holds(u)
    BY <2>1, <2>2 DEF Holds
  <2>. QED  BY <2>2, <2>3, <2>4
<1>3. ASSUME UNCHANGED <<validity, lastUid, record>> PROVE RecordOK'
  BY <1>1, <1>3 DEF RecordOK, RecordsKnown, RecordOf
<1>. QED  BY <1>2, <1>3

\* The collector goes on to the next message, or to another place with the same one.
LEMMA NextMessageTypes ==
    ASSUME CollectorOK, collector.todo # <<>>, NextMessage, UNCHANGED lastUid
    PROVE  CollectorOK'
<1>1. /\ collector'.at = "message" /\ collector'.all = collector.all
      /\ collector'.todo = Tail(collector.todo) /\ collector'.job = "none"
      /\ collector' \in [at : Locations, all : SUBSET Uids, todo : Seq(Uids),
                         job : {"none", "open"} \union ItemStatuses]
  BY RestOfList DEF NextMessage, CollectorOK, Locations
<1>2. ListKnown'
  BY <1>1, RestOfList DEF ListKnown, CollectorOK
<1>. QED  BY <1>1, <1>2 DEF CollectorOK, PlaceKnown, Working, InHand

\* Moving on with the message at hand keeps it at hand.
LEMMA GotoTypes ==
    ASSUME CollectorOK, NEW at \in Locations \ {"idle"}, UNCHANGED lastUid,
           collector' = [collector EXCEPT !.at = at],
           collector.job # "none" <=> at \in {"waiting", "answered", "recorded", "seen",
                                              "removed"},
           collector.job # "open", at \in Working \union {"swept"} => collector.todo # <<>>,
           at \in InHand => Holds(Uid)'
    PROVE  CollectorOK'
<1>1. /\ collector'.at = at /\ collector'.all = collector.all
      /\ collector'.todo = collector.todo /\ collector'.job = collector.job
      /\ collector' \in [at : Locations, all : SUBSET Uids, todo : Seq(Uids),
                         job : {"none", "open"} \union ItemStatuses]
  BY DEF CollectorOK
<1>2. ListKnown'
  BY <1>1 DEF ListKnown, CollectorOK
<1>. QED  BY <1>1, <1>2 DEF CollectorOK, PlaceKnown

\* A collector that does nothing keeps what it has.
LEMMA CollectorKept ==
    ASSUME CollectorOK, UNCHANGED collector, lastUid' >= lastUid, lastUid \in Nat, lastUid' \in Nat,
           \A u : Holds(u) => Holds(u)'
    PROVE  CollectorOK'
<1>1. ListKnown'
  <2>1. \A i \in DOMAIN collector.todo : collector.todo[i] \in Nat
    BY UidsFinite DEF CollectorOK, Uids
  <2>. QED  BY <2>1 DEF CollectorOK, ListKnown
<1>2. Uid' = Uid
  BY DEF Uid
<1>3. PlaceKnown'
  BY <1>2 DEF CollectorOK, PlaceKnown
<1>. QED  BY <1>1, <1>3 DEF CollectorOK

\* Between polls it has nothing.
LEMMA IdleTypes == collector' = Idle => CollectorOK'
BY DEF CollectorOK, Idle, Locations, ListKnown, PlaceKnown, Working, InHand

\* The messages in hand are in the mailbox, under their date.
LEMMA InHandTypes ==
    ASSUME TypesInv, collector.at \in InHand
    PROVE  /\ collector.todo # <<>> /\ Holds(Uid) /\ Uid \in Uids /\ Uid <= lastUid
           /\ MessageAt(Uid) \in Inbox /\ MessageAt(Uid) \in Messages
           /\ mail[MessageAt(Uid)].uid = Uid
           /\ mail[MessageAt(Uid)].date \in 0..now
<1>1. CollectorOK /\ MailOK
  BY TypesParts
<1>2. collector.todo # <<>> /\ Holds(Uid)
  BY <1>1 DEF CollectorOK, PlaceKnown, Working
<1>3. MessageAt(Uid) \in Inbox /\ mail[MessageAt(Uid)].uid = Uid
  BY <1>2, HeldMessage
<1>4. MessageAt(Uid) \in Messages
  BY <1>3 DEF Inbox
<1>5. mail[MessageAt(Uid)] \in Message
  BY <1>1, <1>4 DEF MailOK
<1>. QED  BY <1>1, <1>2, <1>3, <1>4, <1>5, FirstOfList DEF Message

\* Giving up on a message keeps the types, for all but what is handled elsewhere.
LEMMA FailureTypes ==
    ASSUME TypesInv, collector.at \in InHand, RecordFailure, UNCHANGED <<now, validity, lastUid>>
    PROVE  /\ RecordOK' /\ CollectorOK'
           /\ \A u \in Uids : IF u = Uid THEN ~Uploaded(RecordOf(u)')
                                         ELSE RecordOf(u)' = RecordOf(u)
<1>1. /\ Uid \in Uids /\ Uid <= lastUid /\ mail[MessageAt(Uid)].date \in 0..now
      /\ collector.todo # <<>>
  BY InHandTypes
<1>2. RecordOK /\ RestOK /\ CollectorOK
  BY TypesParts
<1>3. SetRecord(Uid, "failed", mail[MessageAt(Uid)].date) /\ NextMessage
  BY DEF RecordFailure
<1>4. CollectorOK'
  BY <1>1, <1>2, <1>3, NextMessageTypes
<1>. DEFINE date == mail[MessageAt(Uid)].date
<1>5. PICK w \in Uids : w = Uid
  BY <1>1
<1>6. /\ RecordOK' /\ \A x \in Uids \ {w} : RecordOf(x)' = RecordOf(x)
      /\ RecordOf(w)' = [outcome |-> "failed", deleted |-> FALSE, date |-> date]
  <2>1. w <= lastUid /\ date \in 0..now /\ SetRecord(w, "failed", date)
    BY <1>1, <1>3, <1>5
  <2>. HIDE DEF date
  <2>. QED  BY <1>2, <2>1, SetRecordRows
<1>7. ~Uploaded(RecordOf(w)')
  BY <1>6 DEF Uploaded
<1>. QED  BY <1>4, <1>5, <1>6, <1>7

\* A job that enters the queue is counted, and may block it for good.
LEMMA EnqueueTypes ==
    ASSUME RestOK, NEW m \in Messages, Enqueue(m)
    PROVE  /\ uploads' \in [Messages -> Nat] /\ blocked' \in BOOLEAN
           /\ stored' = stored /\ (blocked => blocked')
<1>1. uploads \in [Messages -> Nat] /\ blocked \in BOOLEAN
  BY DEF RestOK
<1>2. Count(m) /\ stored' = stored
  BY DEF Enqueue
<1>3. uploads' \in [Messages -> Nat]
  <2>1. CASE UNCHANGED uploads
    BY <1>1, <2>1
  <2>2. CASE uploads' = [uploads EXCEPT ![m] = @ + 1]
    BY <1>1, <2>2
  <2>. QED  BY <1>2, <2>1, <2>2 DEF Count
<1>4. blocked' = blocked \/ blocked' = TRUE
  BY DEF Enqueue
<1>. QED  BY <1>1, <1>2, <1>3, <1>4

\* The steps of a cycle up to the message at hand ...
LEMMA OpenTypes ==
    ASSUME TypesInv, Open \/ SearchAll \/ SearchUnseen
    PROVE  TypesInv'
<1>0. MailOK /\ RecordOK /\ CollectorOK /\ RestOK
  BY TypesParts
<1>1. CASE Open
  <2>1. MailOK' /\ RestOK' /\ UNCHANGED <<lastUid, validity, now>>
    BY <1>0, <1>1, Untouched DEF Open, RestOK, server, mailbox
  <2>2. RecordOK'
    <3>1. CASE UNCHANGED record
      BY <1>0, <2>1, <3>1, Untouched DEF Open
    <3>2. CASE record' = [v \in DOMAIN record |-> [u \in Uids |-> NoRecord]]
      <4>1. NoRecord \in Row /\ Row' = Row
        BY <1>0, <2>1, ImapAssumption DEF Row, NoRecord, RestOK
      <4>. QED  BY <1>0, <2>1, <3>2, <4>1 DEF RecordOK, RecordsKnown, RecordOf, RestOK, NoRecord
    <3>. QED  BY <1>1, <3>1, <3>2 DEF Open
  <2>3. CollectorOK'
    <3>1. collector.job = "none" /\ collector' = [collector EXCEPT !.at = "selected"]
      BY <1>0, <1>1 DEF Open, Goto, CollectorOK
    <3>. QED  BY <1>0, <2>1, <3>1, GotoTypes DEF Locations, Working, InHand
  <2>. QED  BY <2>1, <2>2, <2>3, TypesParts
<1>2. CASE SearchAll
  <2>1. MailOK' /\ UNCHANGED <<lastUid, validity, now>>
    BY <1>0, <1>2, SeenHandles, HandledMail DEF SearchAll
  <2>2. RecordOK' /\ RestOK'
    BY <1>0, <1>2, <2>1, Untouched DEF SearchAll, RestOK, server
  <2>3. CollectorOK'
    <3>1. UidsOf(Inbox) \subseteq Uids
      BY <1>0, UidKnown DEF UidsOf
    <3>2. /\ collector'.at = "listed" /\ collector'.todo = collector.todo
          /\ collector'.job = "none"
          /\ collector' \in [at : Locations, all : SUBSET Uids, todo : Seq(Uids),
                             job : {"none", "open"} \union ItemStatuses]
      BY <1>0, <1>2, <3>1 DEF SearchAll, CollectorOK, Locations
    <3>3. ListKnown'
      BY <1>0, <2>1, <3>2 DEF ListKnown, CollectorOK
    <3>. QED  BY <3>2, <3>3 DEF CollectorOK, PlaceKnown, Working, InHand
  <2>. QED  BY <2>1, <2>2, <2>3, TypesParts
<1>3. CASE SearchUnseen
  <2>1. MailOK' /\ RecordOK' /\ RestOK' /\ UNCHANGED lastUid
    BY <1>0, <1>3, Untouched DEF SearchUnseen, RestOK, server, mailbox
  <2>2. CollectorOK'
    <3>. DEFINE S == UidsOf({m \in Inbox : ~mail[m].seen})
    <3>1. S \subseteq Uids /\ \A u \in S : u <= lastUid
      BY <1>0, UidKnown DEF UidsOf
    <3>2. PICK uids \in [1..Cardinality(S) -> S] :
             collector' = [collector EXCEPT !.at = "message", !.todo = uids]
      BY <1>3 DEF SearchUnseen, InOrder
    <3>3. uids \in Seq(Uids) /\ DOMAIN uids = 1..Len(uids) /\ \A i \in DOMAIN uids : uids[i] \in S
      <4>. HIDE DEF S
      <4>. QED  BY <3>1, ListOfUids
    <3>4. /\ collector'.at = "message" /\ collector'.todo = uids /\ collector'.job = "none"
          /\ collector' \in [at : Locations, all : SUBSET Uids, todo : Seq(Uids),
                             job : {"none", "open"} \union ItemStatuses]
      <4>. HIDE DEF S
      <4>. QED  BY <1>0, <1>3, <3>2, <3>3 DEF SearchUnseen, CollectorOK, Locations
    <3>5. ListKnown'
      BY <2>1, <3>1, <3>3, <3>4 DEF ListKnown
    <3>. HIDE DEF S
    <3>. QED  BY <3>4, <3>5 DEF CollectorOK, PlaceKnown, Working, InHand
  <2>. QED  BY <2>1, <2>2, TypesParts
<1>. QED  BY <1>1, <1>2, <1>3

\* ... with it ...
LEMMA MessageTypes ==
    ASSUME TypesInv, SkipUploaded \/ FetchGone \/ Attempt \/ Submit \/ WaitTimesOut \/ JobEnded
    PROVE  TypesInv'
<1>0. MailOK /\ RecordOK /\ CollectorOK /\ RestOK
  BY TypesParts
<1>1. CASE SkipUploaded
  <2>1. MailOK' /\ UNCHANGED <<lastUid, validity, now>>
    <3>1. Handled({}, {})
      <4>1. CASE UNCHANGED mail
        BY <1>0, <1>1, <4>1, SeenHandles DEF SkipUploaded
      <4>2. CASE Holds(Uid)
        BY <1>0, <1>1, <4>2, SeenHandles, HeldMessage DEF SkipUploaded
      <4>. QED  BY <1>1, <4>1, <4>2 DEF SkipUploaded
    <3>. QED  BY <1>0, <1>1, <3>1, HandledMail DEF SkipUploaded
  <2>2. RecordOK' /\ RestOK' /\ CollectorOK'
    BY <1>0, <1>1, <2>1, Untouched, NextMessageTypes DEF SkipUploaded, RestOK, server
  <2>. QED  BY <2>1, <2>2, TypesParts
<1>2. CASE FetchGone
  <2>1. MailOK' /\ RecordOK' /\ RestOK' /\ UNCHANGED lastUid
    BY <1>0, <1>2, Untouched DEF FetchGone, RestOK, server, mailbox
  <2>2. CollectorOK'
    BY <1>0, <1>2, <2>1, NextMessageTypes DEF FetchGone
  <2>. QED  BY <2>1, <2>2, TypesParts
<1>3. CASE Attempt
  <2>1. /\ MailOK' /\ RestOK' /\ UNCHANGED <<lastUid, validity, now>>
        /\ \A u : Holds(u)' = Holds(u)
    BY <1>0, <1>3, Untouched DEF Attempt, RestOK, server, mailbox
  <2>2. /\ collector.todo # <<>> /\ Holds(Uid) /\ Uid \in Uids /\ Uid <= lastUid
        /\ mail[MessageAt(Uid)].date \in 0..now
    <3>1. MessageAt(Uid) \in Inbox
      BY <1>3, HeldMessage DEF Attempt
    <3>2. mail[MessageAt(Uid)] \in Message
      BY <1>0, <3>1 DEF MailOK, Inbox
    <3>. QED  BY <1>0, <1>3, <3>2, FirstOfList DEF Attempt, Message
  <2>3. RecordOK'
    <3>1. PICK u \in Uids, date \in 0..now : u = Uid /\ date = mail[MessageAt(Uid)].date
      BY <2>2
    <3>2. SetRecord(u, "none", date) /\ u <= lastUid
      BY <1>3, <2>2, <3>1 DEF Attempt
    <3>. QED  BY <1>0, <2>1, <3>2, SetRecordRows
  <2>4. CollectorOK'
    <3>1. /\ Holds(Uid)' /\ collector.job = "none"
          /\ collector' = [collector EXCEPT !.at = "attempted"]
      BY <1>0, <1>3, <2>1, <2>2 DEF Attempt, Goto, CollectorOK, Uid
    <3>. QED  BY <1>0, <2>1, <2>2, <3>1, GotoTypes DEF Locations
  <2>. QED  BY <2>1, <2>3, <2>4, TypesParts
<1>4. CASE Submit
  <2>1. /\ MailOK' /\ RecordOK' /\ UNCHANGED lastUid
        /\ \A u : Holds(u)' = Holds(u)
    BY <1>0, <1>4, Untouched DEF Submit, mailbox
  <2>2. collector.todo # <<>> /\ Holds(Uid)
    BY <1>4, InHandTypes DEF Submit, InHand
  <2>3. RestOK'
    <3>1. uploads' \in [Messages -> Nat] /\ blocked' \in BOOLEAN /\ stored' = stored
      <4>1. PICK m \in Messages : m = MessageAt(Uid)
        BY <1>4, InHandTypes DEF Submit, InHand
      <4>. QED  BY <1>0, <1>4, <4>1, EnqueueTypes DEF Submit
    <3>. QED  BY <1>0, <1>4, <3>1 DEF Submit, RestOK, mailbox
  <2>4. CollectorOK'
    <3>1. /\ collector'.at = "waiting" /\ collector'.todo = collector.todo
          /\ collector'.job = "open"
          /\ collector' \in [at : Locations, all : SUBSET Uids, todo : Seq(Uids),
                             job : {"none", "open"} \union ItemStatuses]
      BY <1>0, <1>4 DEF Submit, CollectorOK, Locations
    <3>2. Holds(Uid)'
      BY <2>1, <2>2, <3>1 DEF Uid
    <3>3. ListKnown'
      BY <1>0, <2>1, <3>1 DEF ListKnown, CollectorOK
    <3>. QED  BY <2>2, <3>1, <3>2, <3>3 DEF CollectorOK, PlaceKnown
  <2>. QED  BY <2>1, <2>3, <2>4, TypesParts
<1>5. CASE JobEnded
  <2>1. /\ MailOK' /\ RecordOK' /\ RestOK' /\ UNCHANGED lastUid
        /\ \A u : Holds(u)' = Holds(u)
    BY <1>0, <1>5, Untouched DEF JobEnded, RestOK, server, mailbox
  <2>2. collector.todo # <<>> /\ Holds(Uid)
    BY <1>5, InHandTypes DEF JobEnded, InHand
  <2>3. /\ Holds(Uid)' /\ collector.job # "none" /\ collector.job # "open"
        /\ collector' = [collector EXCEPT !.at = "answered"]
    BY <1>0, <1>5, <2>1, <2>2 DEF JobEnded, Goto, CollectorOK, Uid
  <2>4. CollectorOK'
    BY <1>0, <2>1, <2>2, <2>3, GotoTypes DEF Locations
  <2>. QED  BY <2>1, <2>4, TypesParts
<1>6. CASE WaitTimesOut
  <2>1. MailOK' /\ RestOK' /\ UNCHANGED <<now, validity, lastUid>>
    BY <1>0, <1>6, Untouched DEF WaitTimesOut, RestOK, server, mailbox
  <2>2. RecordOK' /\ CollectorOK'
    BY <1>6, <2>1, FailureTypes DEF WaitTimesOut, InHand
  <2>. QED  BY <2>1, <2>2, TypesParts
<1>. QED  BY <1>1, <1>2, <1>3, <1>4, <1>5, <1>6

\* ... and after the server's answer ...
LEMMA AnswerTypes ==
    ASSUME TypesInv,
           RecordSuccess \/ RecordRefused \/ MarkSeen \/ HardDelete \/ RecordDeleted
    PROVE  TypesInv'
<1>0. MailOK /\ RecordOK /\ CollectorOK /\ RestOK
  BY TypesParts
<1>1. CASE RecordSuccess
  <2>1. /\ MailOK' /\ RestOK' /\ UNCHANGED <<lastUid, validity, now>>
        /\ \A u : Holds(u)' = Holds(u)
    BY <1>0, <1>1, Untouched DEF RecordSuccess, RestOK, server, mailbox
  <2>2. /\ collector.todo # <<>> /\ Holds(Uid) /\ Uid \in Uids /\ Uid <= lastUid
        /\ mail[MessageAt(Uid)].date \in 0..now
    BY <1>1, InHandTypes DEF RecordSuccess, InHand
  <2>3. RecordOK'
    <3>1. PICK u \in Uids, date \in 0..now : u = Uid /\ date = mail[MessageAt(Uid)].date
      BY <2>2
    <3>2. SetRecord(u, "success", date) /\ u <= lastUid
      BY <1>1, <2>2, <3>1 DEF RecordSuccess
    <3>. QED  BY <1>0, <2>1, <3>2, SetRecordRows
  <2>4. CollectorOK'
    <3>1. /\ Holds(Uid)' /\ collector.job # "none" /\ collector.job # "open"
          /\ collector' = [collector EXCEPT !.at = "recorded"]
      BY <1>0, <1>1, <2>1, <2>2 DEF RecordSuccess, Goto, CollectorOK, Uid, PlaceKnown
    <3>. QED  BY <1>0, <2>1, <2>2, <3>1, GotoTypes DEF Locations
  <2>. QED  BY <2>1, <2>3, <2>4, TypesParts
<1>2. CASE RecordRefused
  <2>1. MailOK' /\ RestOK' /\ UNCHANGED <<lastUid, validity, now>>
    BY <1>0, <1>2, Untouched DEF RecordRefused, RestOK, server, mailbox
  <2>2. RecordOK' /\ CollectorOK'
    BY <1>2, <2>1, FailureTypes DEF RecordRefused, InHand
  <2>. QED  BY <2>1, <2>2, TypesParts
<1>3. CASE MarkSeen
  <2>1. /\ collector.todo # <<>> /\ Holds(Uid) /\ MessageAt(Uid) \in Inbox
    BY <1>3, InHandTypes DEF MarkSeen, InHand
  <2>2. Handled({}, {})
    BY <1>0, <1>3, <2>1, SeenHandles DEF MarkSeen
  <2>3. MailOK' /\ UNCHANGED <<lastUid, validity, now>> /\ (\A u : Holds(u) => Holds(u)')
    BY <1>0, <1>3, <2>2, HandledMail DEF MarkSeen
  <2>4. RecordOK' /\ RestOK'
    BY <1>0, <1>3, <2>3, Untouched DEF MarkSeen, RestOK, server
  <2>5. CollectorOK'
    <3>1. CASE NextMessage
      BY <1>0, <2>1, <2>3, <3>1, NextMessageTypes
    <3>2. CASE Goto("seen")
      <4>1. /\ Holds(Uid)' /\ collector.job # "none" /\ collector.job # "open"
            /\ collector' = [collector EXCEPT !.at = "seen"]
        BY <1>0, <1>3, <2>1, <2>3, <3>2 DEF MarkSeen, Goto, CollectorOK, Uid, PlaceKnown
      <4>. QED  BY <1>0, <2>1, <2>3, <4>1, GotoTypes DEF Locations
    <3>. QED  BY <1>3, <3>1, <3>2 DEF MarkSeen
  <2>. QED  BY <2>3, <2>4, <2>5, TypesParts
<1>4. CASE HardDelete
  <2>1. Handled(Removed(Uid), {})
    BY <1>0, <1>4, ExpungeHandles DEF HardDelete
  <2>2. MailOK' /\ UNCHANGED <<lastUid, validity, now>>
    BY <1>0, <1>4, <2>1, HandledMail DEF HardDelete
  <2>3. RecordOK' /\ RestOK'
    BY <1>0, <1>4, <2>2, Untouched DEF HardDelete, RestOK, server
  <2>4. CollectorOK'
    <3>1. /\ collector.job # "none" /\ collector.job # "open" /\ collector.todo # <<>>
          /\ collector' = [collector EXCEPT !.at = "removed"]
      BY <1>0, <1>4, InHandTypes DEF HardDelete, Goto, CollectorOK, InHand, PlaceKnown
    <3>. QED  BY <1>0, <2>2, <3>1, GotoTypes DEF Locations, InHand
  <2>. QED  BY <2>2, <2>3, <2>4, TypesParts
<1>5. CASE RecordDeleted
  <2>1. MailOK' /\ RestOK' /\ UNCHANGED <<lastUid, validity, now>>
    BY <1>0, <1>5, Untouched DEF RecordDeleted, RestOK, server, mailbox
  <2>2. collector.todo # <<>>
    BY <1>0, <1>5 DEF RecordDeleted, CollectorOK, PlaceKnown, Working
  <2>3. RecordOK'
    <3>1. PICK u \in Uids : u = Uid
      BY <1>0, <2>2, FirstOfList
    <3>. QED  BY <1>0, <1>5, <2>1, <3>1, MarkDeletedRows DEF RecordDeleted
  <2>4. CollectorOK'
    BY <1>0, <1>5, <2>1, <2>2, NextMessageTypes DEF RecordDeleted
  <2>. QED  BY <2>1, <2>3, <2>4, TypesParts
<1>. QED  BY <1>1, <1>2, <1>3, <1>4, <1>5

\* The list of the sweep gets shorter by one.
LEMMA SweepListTypes ==
    ASSUME CollectorOK, collector.at \in {"sweep", "swept"}, collector.todo # <<>>,
           UNCHANGED lastUid,
           collector' = [collector EXCEPT !.at = "sweep", !.todo = Tail(@)]
    PROVE  CollectorOK'
<1>1. /\ collector'.at = "sweep" /\ collector'.all = collector.all
      /\ collector'.todo = Tail(collector.todo) /\ collector'.job = "none"
      /\ collector' \in [at : Locations, all : SUBSET Uids, todo : Seq(Uids),
                         job : {"none", "open"} \union ItemStatuses]
  BY RestOfList DEF CollectorOK, Locations
<1>2. ListKnown'
  BY <1>1, RestOfList DEF ListKnown, CollectorOK
<1>. QED  BY <1>1, <1>2 DEF CollectorOK, PlaceKnown, Working, InHand

\* ... and the sweep.
LEMMA SweepTypes ==
    ASSUME TypesInv, StartSweep \/ SweepNext \/ SweepRecord \/ Sleep
    PROVE  TypesInv'
<1>0. MailOK /\ RecordOK /\ CollectorOK /\ RestOK
  BY TypesParts
<1>1. CASE StartSweep
  <2>1. MailOK' /\ RecordOK' /\ RestOK' /\ UNCHANGED lastUid
    BY <1>0, <1>1, Untouched DEF StartSweep, RestOK, server, mailbox
  <2>2. DueUids \subseteq Uids /\ \A u \in DueUids : u <= lastUid
    BY <1>0 DEF DueUids, Uploaded, RecordOK, RecordsKnown
  <2>3. PICK uids \in [1..Cardinality(DueUids) -> DueUids] :
           collector' = [collector EXCEPT !.at = "sweep", !.todo = uids]
    BY <1>1 DEF StartSweep, InOrder
  <2>4. /\ uids \in Seq(Uids) /\ DOMAIN uids = 1..Len(uids)
        /\ \A i \in DOMAIN uids : uids[i] \in DueUids
    BY <2>2, ListOfUids
  <2>5. /\ collector'.at = "sweep" /\ collector'.todo = uids /\ collector'.job = "none"
        /\ collector' \in [at : Locations, all : SUBSET Uids, todo : Seq(Uids),
                           job : {"none", "open"} \union ItemStatuses]
    BY <1>0, <1>1, <2>3, <2>4 DEF StartSweep, CollectorOK, Locations
  <2>6. ListKnown'
    BY <2>1, <2>2, <2>4, <2>5 DEF ListKnown
  <2>7. CollectorOK'
    BY <2>5, <2>6 DEF CollectorOK, PlaceKnown, Working, InHand
  <2>. QED  BY <2>1, <2>7, TypesParts
<1>2. CASE SweepNext
  <2>1. CASE Uid \in collector.all
    <3>1. Handled(Removed(Uid), {})
      BY <1>0, <1>2, <2>1, ExpungeHandles DEF SweepNext
    <3>2. MailOK' /\ UNCHANGED <<lastUid, validity, now>>
      BY <1>0, <1>2, <3>1, HandledMail DEF SweepNext
    <3>3. RecordOK' /\ RestOK'
      BY <1>0, <1>2, <2>1, <3>2, Untouched DEF SweepNext, RestOK, server
    <3>4. CollectorOK'
      <4>1. /\ collector.job = "none" /\ collector.todo # <<>>
            /\ collector' = [collector EXCEPT !.at = "swept"]
        BY <1>0, <1>2, <2>1 DEF SweepNext, Goto, CollectorOK
      <4>. QED  BY <1>0, <3>2, <4>1, GotoTypes DEF Locations, InHand
    <3>. QED  BY <3>2, <3>3, <3>4, TypesParts
  <2>2. CASE Uid \notin collector.all
    <3>1. MailOK' /\ RestOK' /\ UNCHANGED <<lastUid, validity, now>>
      BY <1>0, <1>2, <2>2, Untouched DEF SweepNext, RestOK, server, mailbox
    <3>2. RecordOK'
      <4>1. PICK u \in Uids : u = Uid
        BY <1>0, <1>2, FirstOfList DEF SweepNext
      <4>. QED  BY <1>0, <1>2, <2>2, <3>1, <4>1, MarkDeletedRows DEF SweepNext
    <3>3. CollectorOK'
      <4>1. collector' = [collector EXCEPT !.at = "sweep", !.todo = Tail(@)]
        BY <1>0, <1>2, <2>2 DEF SweepNext, CollectorOK
      <4>. QED  BY <1>0, <1>2, <3>1, <4>1, SweepListTypes DEF SweepNext
    <3>. QED  BY <3>1, <3>2, <3>3, TypesParts
  <2>. QED  BY <2>1, <2>2
<1>3. CASE SweepRecord
  <2>1. MailOK' /\ RestOK' /\ UNCHANGED <<lastUid, validity, now>>
    BY <1>0, <1>3, Untouched DEF SweepRecord, RestOK, server, mailbox
  <2>2. collector.todo # <<>>
    BY <1>0, <1>3 DEF SweepRecord, CollectorOK, PlaceKnown
  <2>3. RecordOK'
    <3>1. PICK u \in Uids : u = Uid
      BY <1>0, <2>2, FirstOfList
    <3>. QED  BY <1>0, <1>3, <2>1, <3>1, MarkDeletedRows DEF SweepRecord
  <2>4. CollectorOK'
    BY <1>0, <1>3, <2>1, <2>2, SweepListTypes DEF SweepRecord
  <2>. QED  BY <2>1, <2>3, <2>4, TypesParts
<1>4. CASE Sleep
  <2>1. Handled({m \in Inbox : mail[m].flagged}, {})
    BY <1>0, <1>4, ExpungeHandles DEF Sleep
  <2>2. MailOK' /\ UNCHANGED <<lastUid, validity, now>>
    BY <1>0, <1>4, <2>1, HandledMail DEF Sleep
  <2>3. RecordOK' /\ RestOK'
    BY <1>0, <1>4, <2>2, Untouched DEF Sleep, RestOK, server
  <2>4. CollectorOK'
    BY <1>4, IdleTypes DEF Sleep
  <2>. QED  BY <2>2, <2>3, <2>4, TypesParts
<1>. QED  BY <1>1, <1>2, <1>3, <1>4

\* Failures: the message at hand goes to the backlog, if the server has its job.
LEMMA FaultTypes ==
    ASSUME TypesInv, SubmitFails \/ WaitFails \/ CommandFails \/ Interrupt
    PROVE  TypesInv'
<1>0. MailOK /\ RecordOK /\ CollectorOK /\ RestOK
  BY TypesParts
<1>1. ASSUME Fault PROVE faults' \in 0..MaxFaults
  BY <1>0, <1>1, ImapAssumption DEF Fault, RestOK
<1>2. CASE SubmitFails
  <2>1. MailOK' /\ UNCHANGED <<now, validity, lastUid>>
    BY <1>0, <1>2, Untouched DEF SubmitFails, mailbox
  <2>2. RecordOK' /\ CollectorOK'
    BY <1>2, <2>1, FailureTypes DEF SubmitFails, InHand
  <2>3. RestOK'
    <3>1. PICK m \in Messages : m = MessageAt(Uid)
      BY <1>2, InHandTypes DEF SubmitFails, InHand
    <3>2. /\ uploads' \in [Messages -> Nat] /\ backlog' \subseteq Messages
          /\ stored' = stored /\ blocked' \in BOOLEAN
      <4>1. CASE UNCHANGED server
        BY <1>0, <4>1 DEF RestOK, server
      <4>2. CASE /\ Enqueue(m)
                 /\ backlog' = IF blocked' THEN backlog ELSE backlog \union {m}
        BY <1>0, <4>2, EnqueueTypes DEF RestOK
      <4>. QED  BY <1>2, <3>1, <4>1, <4>2 DEF SubmitFails
    <3>. QED  BY <1>0, <1>1, <1>2, <2>1, <3>2 DEF SubmitFails, RestOK
  <2>. QED  BY <2>1, <2>2, <2>3, TypesParts
<1>3. CASE WaitFails
  <2>1. MailOK' /\ UNCHANGED <<now, validity, lastUid>>
    BY <1>0, <1>3, Untouched DEF WaitFails, mailbox
  <2>2. RecordOK' /\ CollectorOK'
    BY <1>3, <2>1, FailureTypes DEF WaitFails, InHand
  <2>3. RestOK'
    <3>1. MessageAt(Uid) \in Messages
      BY <1>3, InHandTypes DEF WaitFails, InHand
    <3>2. backlog' \subseteq Messages
      BY <1>0, <1>3, <3>1 DEF WaitFails, Abandon, RestOK
    <3>. QED  BY <1>0, <1>1, <1>3, <2>1, <3>2 DEF WaitFails, RestOK
  <2>. QED  BY <2>1, <2>2, <2>3, TypesParts
<1>4. CASE CommandFails
  <2>1. UNCHANGED <<now, validity, lastUid>> /\ RestOK'
    BY <1>0, <1>1, <1>4 DEF CommandFails, RestOK, server
  <2>2. CASE collector.at = "message" /\ collector.todo # <<>> /\ NextMessage
                /\ UNCHANGED <<mail, record>>
    <3>1. MailOK' /\ RecordOK'
      BY <1>0, <2>1, <2>2, Untouched DEF mailbox
    <3>2. CollectorOK'
      BY <1>0, <2>1, <2>2, NextMessageTypes
    <3>. QED  BY <2>1, <3>1, <3>2, TypesParts
  <2>3. CASE collector.at \in {"recorded", "seen"} /\ RecordFailure
                /\ mail' \in {mail, Flagged(Uid)}
    <3>1. MailOK'
      <4>1. CASE mail' = mail
        BY <1>0, <2>1, <4>1, Untouched DEF mailbox
      <4>2. CASE mail' = Flagged(Uid)
        BY <1>0, <2>1, <4>2, ExpungeHandles, HandledMail
      <4>. QED  BY <2>3, <4>1, <4>2
    <3>2. RecordOK' /\ CollectorOK'
      BY <2>1, <2>3, FailureTypes DEF InHand
    <3>. QED  BY <2>1, <3>1, <3>2, TypesParts
  <2>. QED  BY <1>4, <2>2, <2>3 DEF CommandFails
<1>5. CASE Interrupt
  <2>1. UNCHANGED <<now, validity, lastUid, record>>
    BY <1>5 DEF Interrupt
  <2>2. MailOK'
    <3>1. CASE mail' = mail
      BY <1>0, <2>1, <3>1, Untouched DEF mailbox
    <3>2. CASE mail' \in {Expunge({}), Flagged(Uid), Expunged(Uid)}
      BY <1>0, <2>1, <3>2, ExpungeHandles, HandledMail
    <3>. QED  BY <1>5, <3>1, <3>2 DEF Interrupt
  <2>3. RecordOK' /\ CollectorOK'
    BY <1>0, <1>5, <2>1, Untouched, IdleTypes DEF Interrupt
  <2>4. RestOK'
    <3>1. backlog' \subseteq Messages
      <4>1. CASE collector.job = "open"
        <5>1. MessageAt(Uid) \in Messages
          BY <1>0, <4>1, InHandTypes DEF CollectorOK, PlaceKnown, InHand
        <5>. QED  BY <1>0, <1>5, <4>1, <5>1 DEF Interrupt, Abandon, RestOK
      <4>2. CASE collector.job # "open"
        BY <1>0, <1>5, <4>2 DEF Interrupt, Abandon, RestOK
      <4>. QED  BY <4>1, <4>2
    <3>2. restarting' \in BOOLEAN
      BY <1>0, <1>5, ImapAssumption DEF Interrupt, RestOK
    <3>. QED  BY <1>0, <1>1, <1>5, <3>1, <3>2 DEF Interrupt, RestOK
  <2>. QED  BY <2>2, <2>3, <2>4, TypesParts
<1>. QED  BY <1>2, <1>3, <1>4, <1>5

\* The server ends jobs.
LEMMA EndJobTypes ==
    ASSUME TypesInv, EndJob \/ \E m \in Messages : EndOldJob(m)
    PROVE  TypesInv'
<1>0. MailOK /\ RecordOK /\ CollectorOK /\ RestOK
  BY TypesParts
<1>1. CASE EndJob
  <2>1. /\ MailOK' /\ RecordOK' /\ UNCHANGED lastUid
        /\ \A u : Holds(u)' = Holds(u)
    BY <1>0, <1>1, Untouched DEF EndJob, mailbox
  <2>2. /\ collector.todo # <<>> /\ Holds(Uid) /\ MessageAt(Uid) \in Messages
    BY <1>1, InHandTypes DEF EndJob, InHand
  <2>3. PICK status \in ItemStatuses, taken \in Takings(MessageAt(Uid)) :
           /\ collector' = [collector EXCEPT !.job = status]
           /\ stored' = stored \union taken
    BY <1>1 DEF EndJob, Statuses, ItemStatuses
  <2>4. RestOK'
    BY <1>0, <1>1, <2>2, <2>3 DEF EndJob, Takings, RestOK, Attachments, mailbox
  <2>5. CollectorOK'
    <3>1. /\ collector'.at = "waiting" /\ collector'.todo = collector.todo
          /\ collector'.job = status
          /\ collector' \in [at : Locations, all : SUBSET Uids, todo : Seq(Uids),
                             job : {"none", "open"} \union ItemStatuses]
      BY <1>0, <1>1, <2>3 DEF EndJob, CollectorOK, Locations
    <3>2. Holds(Uid)'
      BY <2>1, <2>2, <3>1 DEF Uid
    <3>3. ListKnown'
      BY <1>0, <2>1, <3>1 DEF ListKnown, CollectorOK
    <3>. QED  BY <2>2, <3>1, <3>2, <3>3 DEF CollectorOK, PlaceKnown, ItemStatuses
  <2>. QED  BY <2>1, <2>4, <2>5, TypesParts
<1>2. ASSUME NEW m \in Messages, EndOldJob(m)
      PROVE  TypesInv'
  <2>1. /\ MailOK' /\ RecordOK' /\ UNCHANGED lastUid
        /\ \A u : Holds(u)' = Holds(u)
    BY <1>0, <1>2, Untouched DEF EndOldJob, mailbox
  <2>2. RestOK'
    BY <1>0, <1>2 DEF EndOldJob, Takings, RestOK, Attachments, mailbox
  <2>3. CollectorOK'
    BY <1>0, <1>2, <2>1, UidsFinite, CollectorKept DEF EndOldJob, MailOK
  <2>. QED  BY <2>1, <2>2, <2>3, TypesParts
<1>. QED  BY <1>1, <1>2

\* A message that arrives gets a UID of its own.
LEMMA ArriveTypes ==
    ASSUME TypesInv, NEW m \in Messages, Arrive(m)
    PROVE  /\ TypesInv'
           /\ Inbox' = Inbox \union {m} /\ m \notin Inbox
           /\ mail'[m].uid = lastUid + 1 /\ ~mail'[m].flagged
           /\ \A n \in Messages \ {m} : mail'[n] = mail[n]
<1>0. MailOK /\ RecordOK /\ CollectorOK /\ RestOK
  BY TypesParts
<1>1. PICK date \in 0..now :
         mail' = [mail EXCEPT ![m] = [Outside EXCEPT !.at = "inbox", !.uid = lastUid + 1,
                                                     !.date = date]]
  BY DEF Arrive
<1>2. /\ mail'[m].at = "inbox" /\ mail'[m].uid = lastUid + 1 /\ mail'[m].flagged = FALSE
      /\ mail'[m].seen = FALSE /\ mail'[m].date = date
      /\ mail'[m] = [Outside EXCEPT !.at = "inbox", !.uid = lastUid + 1, !.date = date]
      /\ \A n \in Messages \ {m} : mail'[n] = mail[n]
      /\ mail' = [n \in Messages |-> mail'[n]]
  BY <1>0, <1>1 DEF MailOK, Outside
<1>3. Inbox' = Inbox \union {m} /\ m \notin Inbox
  BY <1>2 DEF Inbox, Arrive
<1>4. lastUid' = lastUid + 1 /\ lastUid \in Nat /\ UNCHANGED <<now, validity>>
  BY <1>0, UidsFinite DEF Arrive, MailOK
<1>5. lastUid' <= Cardinality(Arrived') /\ lastUid' \in 0..Cardinality(Messages)
  <2>1. Arrived' = Arrived \union {m} /\ m \notin Arrived /\ Arrived' \subseteq Messages
    BY <1>2 DEF Arrived, Arrive
  <2>2. IsFiniteSet(Messages) /\ IsFiniteSet(Arrived)
    BY ImapAssumption, FS_Subset DEF Arrived
  <2>3. Cardinality(Arrived') = Cardinality(Arrived) + 1
    BY <2>1, <2>2, FS_AddElement
  <2>4. Cardinality(Arrived') <= Cardinality(Messages)
    BY <2>1, <2>2, FS_Subset
  <2>5. Cardinality(Arrived) \in Nat
    BY <2>2, FS_CardinalityType
  <2>. QED  BY <1>0, <1>4, <2>3, <2>4, <2>5, UidsFinite DEF MailOK, UidsGiven
<1>6. MailOK'
  <2>1. \A n \in Messages : mail'[n] \in Message'
    <3>1. ASSUME NEW n \in Messages \ {m} PROVE mail'[n] \in Message'
      <4>1. mail[n] \in Message
        BY <1>0 DEF MailOK
      <4>2. Message \subseteq Message'
        BY <1>4 DEF Message
      <4>. QED  BY <1>2, <4>1, <4>2
    <3>2. mail'[m] \in Message'
      <4>1. Outside \in Message'
        <5>1. 0 \in 0..lastUid' /\ 0 \in 0..now'
          BY <1>0, <1>4, ImapAssumption DEF RestOK
        <5>. QED  BY <5>1 DEF Message, Outside
      <4>2. lastUid + 1 \in 0..lastUid' /\ date \in 0..now'
        BY <1>4
      <4>. QED  BY <1>2, <4>1, <4>2 DEF Message
    <3>. QED  BY <3>1, <3>2
  <2>2. UidsGiven'
    <3>1. ASSUME NEW n \in Messages
          PROVE  IF n \in Inbox' THEN mail'[n].uid # 0
                 ELSE mail'[n].uid = 0 /\ ~mail'[n].flagged
      <4>1. CASE n = m
        <5>1. m \in Inbox' /\ mail'[m].uid # 0
          BY <1>2, <1>3, <1>4
        <5>. QED  BY <4>1, <5>1
      <4>2. CASE n # m
        BY <1>0, <1>2, <1>3, <4>2 DEF MailOK, UidsGiven
      <4>. QED  BY <4>1, <4>2
    <3>2. \A n \in Inbox : n # m /\ mail'[n].uid = mail[n].uid /\ mail[n].uid <= lastUid
                           /\ mail[n].uid \in Nat
      BY <1>0, <1>2, <1>3, UidKnown, UidsFinite DEF Inbox, Uids
    <3>3. ASSUME NEW n \in Inbox', NEW o \in Inbox', mail'[n].uid = mail'[o].uid
          PROVE  n = o
      <4>1. CASE n = m \/ o = m
        <5>1. \A x \in Inbox : mail'[x].uid # lastUid + 1
          BY <1>4, <3>2
        <5>. QED  BY <1>2, <1>3, <3>3, <4>1, <5>1
      <4>2. CASE n # m /\ o # m
        BY <1>0, <1>3, <3>2, <3>3, <4>2 DEF MailOK, UidsGiven
      <4>. QED  BY <4>1, <4>2
    <3>. QED  BY <1>5, <3>1, <3>3 DEF UidsGiven
  <2>. QED  BY <1>2, <1>5, <2>1, <2>2 DEF MailOK
<1>7. RecordOK'
  <2>1. record' = record /\ Row' = Row
    BY <1>4 DEF Arrive, Row
  <2>2. \A u \in Uids : u \in Nat
    BY UidsFinite DEF Uids
  <2>. QED  BY <1>0, <1>4, <2>1, <2>2 DEF RecordOK, RecordsKnown, RecordOf
<1>8. CollectorOK'
  <2>1. \A u : Holds(u) => Holds(u)'
    BY <1>2, <1>3 DEF Holds, Inbox
  <2>. QED  BY <1>0, <1>4, <2>1, CollectorKept DEF Arrive
<1>9. RestOK'
  BY <1>0 DEF Arrive, RestOK, server
<1>. QED  BY <1>2, <1>3, <1>6, <1>7, <1>8, <1>9, TypesParts

\* A renumbering gives every message in the mailbox a new UID, all of them unused.
LEMMA RenumberTypes ==
    ASSUME TypesInv, Renumber
    PROVE  /\ TypesInv'
           /\ Inbox' = Inbox
           /\ \A m \in Messages : mail'[m].at = mail[m].at /\ mail'[m].flagged = mail[m].flagged
           /\ \A u \in Uids : RecordOf(u)' = NoRecord
<1>0. MailOK /\ RecordOK /\ CollectorOK /\ RestOK
  BY TypesParts
<1>1. PICK uid \in [Inbox -> 1..Cardinality(Inbox)] :
         /\ \A m, n \in Inbox : uid[m] = uid[n] => m = n
         /\ mail' = [m \in Messages |-> IF m \in Inbox THEN [mail[m] EXCEPT !.uid = uid[m]]
                                        ELSE mail[m]]
  BY DEF Renumber
<1>2. /\ lastUid' = Cardinality(Inbox) /\ Cardinality(Inbox) \in Nat
      /\ Cardinality(Inbox) <= Cardinality(Arrived)
      /\ Cardinality(Inbox) <= Cardinality(Messages)
  <2>1. IsFiniteSet(Messages) /\ Inbox \subseteq Messages /\ Arrived \subseteq Messages
    BY ImapAssumption DEF Inbox, Arrived
  <2>2. IsFiniteSet(Arrived) /\ Inbox \subseteq Arrived
    BY <2>1, FS_Subset DEF Inbox, Arrived
  <2>. QED  BY <2>1, <2>2, FS_Subset, FS_CardinalityType DEF Renumber
<1>3. UNCHANGED now /\ validity' = validity + 1 /\ validity' \in 0..MaxValidity
  BY <1>0, ImapAssumption DEF Renumber, RestOK
<1>4. /\ \A m \in Inbox : mail'[m] = [mail[m] EXCEPT !.uid = uid[m]] /\ mail'[m] \in Message'
                          /\ mail'[m].uid = uid[m] /\ mail'[m].at = "inbox"
                          /\ mail'[m].flagged = mail[m].flagged
      /\ \A m \in Messages \ Inbox : mail'[m] = mail[m] /\ mail'[m] \in Message'
  <2>1. ASSUME NEW m \in Inbox
        PROVE  /\ mail'[m] = [mail[m] EXCEPT !.uid = uid[m]] /\ mail'[m] \in Message'
               /\ mail'[m].uid = uid[m] /\ mail'[m].at = "inbox"
               /\ mail'[m].flagged = mail[m].flagged
    <3>1. m \in Messages /\ mail[m] \in Message /\ mail[m].at = "inbox"
      BY <1>0 DEF MailOK, Inbox
    <3>2. mail'[m] = [mail[m] EXCEPT !.uid = uid[m]]
      BY <1>1, <3>1
    <3>3. uid[m] \in 0..lastUid'
      BY <1>1, <1>2
    <3>. QED  BY <1>3, <3>1, <3>2, <3>3 DEF Message
  <2>2. ASSUME NEW m \in Messages \ Inbox
        PROVE  mail'[m] = mail[m] /\ mail'[m] \in Message'
    <3>1. mail'[m] = mail[m] /\ mail[m] \in Message /\ mail[m].uid = 0
      BY <1>0, <1>1 DEF MailOK, UidsGiven
    <3>2. 0 \in 0..lastUid'
      BY <1>2
    <3>. QED  BY <1>3, <3>1, <3>2 DEF Message
  <2>. QED  BY <2>1, <2>2
<1>5. Inbox' = Inbox
  BY <1>4 DEF Inbox
<1>6. Arrived' = Arrived
  BY <1>4 DEF Arrived, Inbox
<1>7. MailOK'
  <2>1. mail' \in [Messages -> Message']
    BY <1>1, <1>4
  <2>2. UidsGiven'
    <3>1. ASSUME NEW m \in Messages
          PROVE  IF m \in Inbox' THEN mail'[m].uid # 0
                 ELSE mail'[m].uid = 0 /\ ~mail'[m].flagged
      <4>1. CASE m \in Inbox
        <5>1. mail'[m].uid = uid[m]
          BY <1>4, <4>1
        <5>2. uid[m] # 0
          BY <1>1, <1>2, <4>1
        <5>. QED  BY <1>5, <4>1, <5>1, <5>2
      <4>2. CASE m \notin Inbox
        BY <1>0, <1>4, <1>5, <4>2 DEF MailOK, UidsGiven
      <4>. QED  BY <4>1, <4>2
    <3>2. \A m, n \in Inbox' : mail'[m].uid = mail'[n].uid => m = n
      <4>1. \A m \in Inbox : mail'[m].uid = uid[m]
        BY <1>4
      <4>. QED  BY <1>1, <1>5, <4>1
    <3>3. lastUid' <= Cardinality(Arrived')
      BY <1>2, <1>6
    <3>. QED  BY <3>1, <3>2, <3>3 DEF UidsGiven
  <2>3. lastUid' \in 0..Cardinality(Messages)
    BY <1>2, UidsFinite
  <2>. QED  BY <2>1, <2>2, <2>3 DEF MailOK
<1>8. /\ record' = record /\ record'[validity'] = [u \in Uids |-> NoRecord]
  <2>1. validity' > validity
    BY <1>0, <1>3, ImapAssumption DEF RestOK
  <2>. QED  BY <1>0, <1>3, <2>1 DEF Renumber, RecordOK, RecordsKnown
<1>9. RecordOK'
  <2>1. Row' = Row
    BY <1>3 DEF Row
  <2>2. RecordsKnown'
    BY <1>0, <1>3, <1>8 DEF RecordOK, RecordsKnown, RecordOf, NoRecord, RestOK
  <2>. QED  BY <1>0, <1>8, <2>1, <2>2 DEF RecordOK
<1>10. CollectorOK'
  BY <1>0, IdleTypes DEF Renumber, CollectorOK, PlaceKnown
<1>11. RestOK'
  BY <1>0, <1>3 DEF Renumber, RestOK, server
<1>12. \A u \in Uids : RecordOf(u)' = NoRecord
  BY <1>8 DEF RecordOf
<1>. QED  BY <1>4, <1>5, <1>7, <1>9, <1>10, <1>11, <1>12, TypesParts DEF Inbox

\* As the clock goes on, every date stays one of the past.
LEMMA ClockTypes ==
    ASSUME TypesInv, Tick
    PROVE  TypesInv'
<1>0. MailOK /\ RecordOK /\ CollectorOK /\ RestOK
  BY TypesParts
<1>1. now' = now + 1 /\ now \in Nat /\ now' \in 0..MaxTime
  BY <1>0, ImapAssumption DEF Tick, RestOK
<1>2. UNCHANGED <<validity, lastUid, mail, record, collector>> /\ RestOK'
  BY <1>0, <1>1 DEF Tick, mailbox, RestOK, server
<1>3. Message \subseteq Message' /\ Row \subseteq Row'
  BY <1>1, <1>2 DEF Message, Row
<1>4. MailOK'
  <2>1. mail' \in [Messages -> Message']
    BY <1>0, <1>2, <1>3 DEF MailOK
  <2>2. Arrived' = Arrived /\ Inbox' = Inbox
    BY <1>2 DEF Arrived, Inbox
  <2>. QED  BY <1>0, <1>2, <2>1, <2>2 DEF MailOK, UidsGiven
<1>5. RecordOK'
  <2>1. record' \in [0..MaxValidity -> [Uids -> Row']]
    BY <1>0, <1>2, <1>3 DEF RecordOK
  <2>. QED  BY <1>0, <1>2, <2>1 DEF RecordOK, RecordsKnown, RecordOf
<1>6. CollectorOK'
  <2>1. \A u : Holds(u) => Holds(u)'
    BY <1>2 DEF Holds, Inbox
  <2>. QED  BY <1>0, <1>2, <2>1, UidsFinite, CollectorKept DEF MailOK
<1>. QED  BY <1>2, <1>4, <1>5, <1>6, TypesParts

\* Marking a message unread moves nothing.
LEMMA UnreadTypes ==
    ASSUME TypesInv, NEW m \in Messages, MarkUnread(m)
    PROVE  TypesInv' /\ Handled({}, {})
<1>0. MailOK /\ RecordOK /\ CollectorOK /\ RestOK
  BY TypesParts
<1>1. Handled({}, {})
  BY <1>0, SeenHandles DEF MarkUnread
<1>2. MailOK' /\ UNCHANGED <<lastUid, validity, now>> /\ (\A u : Holds(u) => Holds(u)')
  BY <1>0, <1>1, HandledMail DEF MarkUnread
<1>3. RecordOK' /\ RestOK'
  BY <1>0, <1>2, Untouched DEF MarkUnread, RestOK, server
<1>4. CollectorOK'
  BY <1>0, <1>2, UidsFinite, CollectorKept DEF MarkUnread, MailOK
<1>. QED  BY <1>1, <1>2, <1>3, <1>4, TypesParts

\* So the invariant holds at first ...
LEMMA TypesInit == Init => TypesInv
<1>. SUFFICES ASSUME Init PROVE TypesInv
  OBVIOUS
<1>1. MailOK
  <2>1. Outside \in Message /\ lastUid = 0 /\ mail = [m \in Messages |-> Outside]
    BY DEF Init, Outside, Message
  <2>2. Inbox = {} /\ Arrived = {}
    BY <2>1 DEF Inbox, Arrived, Outside
  <2>3. Cardinality(Arrived) = 0
    BY <2>2, FS_EmptySet
  <2>. QED  BY <2>1, <2>2, <2>3, UidsFinite DEF MailOK, UidsGiven, Outside
<1>2. RecordOK
  <2>1. NoRecord \in Row
    BY DEF Init, NoRecord, Row
  <2>. QED  BY <2>1, ImapAssumption DEF Init, RecordOK, RecordsKnown, RecordOf, NoRecord
<1>3. CollectorOK
  BY DEF Init, CollectorOK, Idle, Locations, ListKnown, PlaceKnown, Working, InHand
<1>4. RestOK
  <2>1. stored = {} => stored \subseteq Attachments
    OBVIOUS
  <2>2. stored \subseteq Attachments /\ backlog \subseteq Messages
    BY <2>1 DEF Init
  <2>3. now \in 0..MaxTime /\ validity \in 0..MaxValidity /\ faults \in 0..MaxFaults
    BY ImapAssumption DEF Init
  <2>4. blocked \in BOOLEAN /\ restarting \in BOOLEAN
    BY ImapAssumption DEF Init
  <2>5. uploads \in [Messages -> Nat]
    BY DEF Init
  <2>. QED  BY <2>2, <2>3, <2>4, <2>5 DEF RestOK
<1>. QED  BY <1>1, <1>2, <1>3, <1>4, TypesParts

\* ... and after every step.
LEMMA TypesStep == TypesInv /\ [Next]_vars => TypesInv'
<1>. SUFFICES ASSUME TypesInv, [Next]_vars PROVE TypesInv'
  OBVIOUS
<1>1. CASE RunCycle
  BY <1>1, OpenTypes, MessageTypes, AnswerTypes, SweepTypes DEF RunCycle
<1>2. CASE Failure
  BY <1>2, FaultTypes DEF Failure
<1>3. CASE World
  BY <1>3, EndJobTypes, ArriveTypes, UnreadTypes, RenumberTypes, ClockTypes DEF World
<1>4. CASE UNCHANGED vars
  <2>1. MailOK /\ RecordOK /\ CollectorOK /\ RestOK
    BY TypesParts
  <2>2. MailOK' /\ RecordOK' /\ RestOK' /\ UNCHANGED lastUid /\ \A u : Holds(u)' = Holds(u)
    BY <1>4, <2>1, Untouched DEF vars, mailbox, server, RestOK
  <2>3. CollectorOK'
    BY <1>4, <2>1, <2>2, UidsFinite, CollectorKept DEF vars, MailOK
  <2>. QED  BY <2>2, <2>3, TypesParts
<1>. QED  BY <1>1, <1>2, <1>3, <1>4 DEF Next

\* The mailbox, the state file, the server and the collector keep their types, for any number
\* of messages, failures and renumberings.
THEOREM ImapTypes == Spec => []TypeOK
<1>1. TypesInv => TypeOK
  BY DEF TypesInv
<1>. QED  BY <1>1, TypesInit, TypesStep, PTL DEF Spec

-----------------------------------------------------------------------------
(* What is deleted, and what counts as uploaded, is stored.                *)

\* All steps but arrivals, renumberings and the clock's.
CollectorStep ==
    \/ RunCycle \/ Failure \/ EndJob
    \/ \E m \in Messages : EndOldJob(m) \/ MarkUnread(m)

\* The message at hand is stored where a deletion may be asked for.
LEMMA HeadStored ==
    ASSUME TypesInv, StoredInv,
           collector.at = "seen" \/ (collector.at = "sweep" /\ collector.todo # <<>>)
    PROVE  Removed(Uid) \subseteq Safe /\ \A m \in Inbox : mail[m].uid = Uid => m \in Safe
<1>1. \A m \in Inbox : mail[m].uid = Uid => m \in Safe
  <2>1. CASE collector.at = "seen"
    BY <2>1 DEF StoredInv, AnswerWasStored, InHand
  <2>2. CASE collector.at = "sweep" /\ collector.todo # <<>>
    <3>1. 1 \in DOMAIN collector.todo /\ Uid = collector.todo[1]
      BY <2>2, TypesParts, FirstOfList
    <3>. QED  BY <2>2, <3>1 DEF StoredInv, SweptWasStored
  <2>. QED  BY <2>1, <2>2
<1>2. \A m \in Inbox : mail[m].flagged => m \in Safe
  BY DEF StoredInv, FlaggedWasStored, Inbox
<1>. QED  BY <1>1, <1>2 DEF Removed

\* The collector expunges and flags only what is stored.
LEMMA MailSteps ==
    ASSUME TypesInv, StoredInv, CollectorStep
    PROVE  /\ Safe \subseteq Safe'
           /\ \E gone, marked \in SUBSET Safe : Handled(gone, marked)
<1>. DEFINE Goal == /\ Safe \subseteq Safe'
                    /\ \E gone, marked \in SUBSET Safe : Handled(gone, marked)
<1>0. MailOK /\ RecordOK /\ CollectorOK /\ RestOK
  BY TypesParts
<1>14. stored \subseteq stored' => Safe \subseteq Safe'
  BY DEF Safe, Delivered
<1>1. ASSUME UNCHANGED <<now, validity, lastUid, mail>>, stored \subseteq stored'
      PROVE  Goal
  BY <1>0, <1>1, <1>14, SeenHandles
<1>2. CASE Open \/ SearchUnseen \/ FetchGone \/ Attempt \/ Submit \/ JobEnded \/ StartSweep
  BY <1>1, <1>2 DEF Open, SearchUnseen, FetchGone, Attempt, Submit, Enqueue, JobEnded,
                    StartSweep, mailbox, server
<1>3. CASE RecordSuccess \/ RecordRefused \/ WaitTimesOut \/ RecordDeleted \/ SweepRecord
  BY <1>1, <1>3 DEF RecordSuccess, RecordRefused, WaitTimesOut, RecordDeleted, SweepRecord,
                    mailbox, server
<1>4. CASE SubmitFails \/ WaitFails \/ EndJob \/ \E m \in Messages : EndOldJob(m)
  BY <1>1, <1>4 DEF SubmitFails, Enqueue, WaitFails, EndJob, EndOldJob, mailbox, server
<1>5. CASE SearchAll \/ \E m \in Messages : MarkUnread(m)
  BY <1>0, <1>14, <1>5, SeenHandles DEF SearchAll, MarkUnread, server
<1>6. CASE SkipUploaded
  <2>1. CASE ~Holds(Uid)
    BY <1>1, <1>6, <2>1 DEF SkipUploaded, server
  <2>2. CASE Holds(Uid)
    BY <1>0, <1>14, <1>6, <2>2, SeenHandles, HeldMessage DEF SkipUploaded, server
  <2>. QED  BY <2>1, <2>2
<1>7. CASE MarkSeen
  <2>1. MessageAt(Uid) \in Inbox
    BY <1>7, InHandTypes DEF MarkSeen, InHand
  <2>. QED  BY <1>0, <1>14, <1>7, <2>1, SeenHandles DEF MarkSeen, server
<1>8. CASE HardDelete
  BY <1>0, <1>14, <1>8, HeadStored, ExpungeHandles DEF HardDelete, server
<1>9. CASE SweepNext
  <2>1. CASE Uid \in collector.all
    BY <1>0, <1>14, <1>9, <2>1, HeadStored, ExpungeHandles DEF SweepNext, server
  <2>2. CASE Uid \notin collector.all
    BY <1>1, <1>9, <2>2 DEF SweepNext, server
  <2>. QED  BY <2>1, <2>2
<1>10. {m \in Inbox : mail[m].flagged} \in SUBSET Safe
  BY DEF StoredInv, FlaggedWasStored, Inbox
<1>11. CASE Sleep
  BY <1>0, <1>14, <1>10, <1>11, ExpungeHandles DEF Sleep, server
<1>12. CASE CommandFails
  <2>1. UNCHANGED <<now, validity, lastUid>> /\ stored' = stored /\ Safe' = Safe
    BY <1>12 DEF CommandFails, server, Safe, Delivered
  <2>2. CASE UNCHANGED mail
    BY <1>1, <2>1, <2>2
  <2>3. CASE collector.at = "seen" /\ mail' = Flagged(Uid)
    <3>1. Handled({}, {m \in Inbox : mail[m].uid = Uid})
      BY <1>0, <2>1, <2>3, ExpungeHandles
    <3>2. {m \in Inbox : mail[m].uid = Uid} \in SUBSET Safe
      BY <2>3, HeadStored
    <3>. QED  BY <2>1, <3>1, <3>2
  <2>. QED  BY <1>12, <2>2, <2>3 DEF CommandFails
<1>13. CASE Interrupt
  <2>1. UNCHANGED <<now, validity, lastUid>> /\ stored' = stored /\ Safe' = Safe
    BY <1>13 DEF Interrupt, Safe, Delivered
  <2>2. CASE UNCHANGED mail
    BY <1>1, <2>1, <2>2
  <2>3. CASE mail' = Expunge({})
    BY <1>0, <1>10, <2>1, <2>3, ExpungeHandles
  <2>4. CASE collector.at \in {"seen", "sweep"} /\ collector.todo # <<>>
                /\ mail' \in {Flagged(Uid), Expunged(Uid)}
    <3>1. Handled({}, {m \in Inbox : mail[m].uid = Uid}) \/ Handled(Removed(Uid), {})
      BY <1>0, <2>1, <2>4, ExpungeHandles
    <3>2. {m \in Inbox : mail[m].uid = Uid} \in SUBSET Safe /\ Removed(Uid) \in SUBSET Safe
      BY <2>4, HeadStored
    <3>. QED  BY <2>1, <3>1, <3>2
  <2>. QED  BY <1>13, <2>2, <2>3, <2>4 DEF Interrupt
<1>. QED
  BY <1>2, <1>3, <1>4, <1>5, <1>6, <1>7, <1>8, <1>9, <1>11, <1>12, <1>13
     DEF CollectorStep, RunCycle, Failure

\* Messages stay where they are, under their UID and date, or leave.
LEMMA InboxSteps ==
    ASSUME TypesInv, StoredInv, CollectorStep
    PROVE  /\ Safe \subseteq Safe' /\ UNCHANGED <<now, validity, lastUid>>
           /\ \A m \in Inbox' : m \in Inbox /\ mail'[m].uid = mail[m].uid
                                            /\ mail'[m].date = mail[m].date
           /\ \A m \in Messages : mail'[m].at = "outside" => mail[m].at = "outside"
<1>1. Safe \subseteq Safe' /\ \E gone, marked \in SUBSET Safe : Handled(gone, marked)
  BY MailSteps
<1>2. PICK gone, marked \in SUBSET Safe : Handled(gone, marked)
  BY <1>1
<1>3. Inbox' = Inbox \ gone
  BY <1>2, TypesParts, HandledMail
<1>4. \A m \in gone : mail'[m].at = "expunged"
  BY <1>2 DEF Handled, Outside
<1>. QED  BY <1>1, <1>2, <1>3, <1>4 DEF Handled, Inbox

\* The rows of the mailbox as it is numbered: all kept, or all but the one at hand, which
\* does not count as uploaded afterwards.
RowsKept == \A u \in Uids : RecordOf(u)' = RecordOf(u)
RowTaken == \A u \in Uids : IF u = Uid THEN ~Uploaded(RecordOf(u)')
                                       ELSE RecordOf(u)' = RecordOf(u)
Sweeping == SweepNext /\ Uid \notin collector.all

\* The state file changes by a restart, a success, or the row at hand.
LEMMA RecordSteps ==
    ASSUME TypesInv, CollectorStep
    PROVE  \/ RowsKept
           \/ Open /\ restarting /\ \A u \in Uids : RecordOf(u)' = NoRecord
           \/ /\ RecordSuccess
              /\ \A u \in Uids : RecordOf(u)' =
                    IF u = Uid THEN [outcome |-> "success", deleted |-> FALSE,
                                     date |-> mail[MessageAt(Uid)].date]
                    ELSE RecordOf(u)
           \/ /\ RowTaken
              /\ \/ Attempt \/ RecordDeleted \/ Sweeping \/ SweepRecord \/ Failure
                 \/ collector.at = "answered" /\ RecordRefused
                 \/ WaitTimesOut
<1>0. MailOK /\ RecordOK /\ CollectorOK /\ RestOK
  BY TypesParts
<1>1. UNCHANGED <<record, validity>> => RowsKept
  BY DEF RowsKept, RecordOf
<1>2. CASE SearchAll \/ SearchUnseen \/ SkipUploaded \/ FetchGone \/ Submit \/ JobEnded
  BY <1>1, <1>2 DEF SearchAll, SearchUnseen, SkipUploaded, FetchGone, Submit, JobEnded, mailbox
<1>3. CASE MarkSeen \/ HardDelete \/ StartSweep \/ Sleep \/ Interrupt
  BY <1>1, <1>3 DEF MarkSeen, HardDelete, StartSweep, Sleep, Interrupt, mailbox
<1>4. CASE EndJob \/ \E m \in Messages : EndOldJob(m) \/ MarkUnread(m)
  BY <1>1, <1>4 DEF EndJob, EndOldJob, MarkUnread, mailbox
<1>5. CASE Open
  <2>1. CASE restarting
    <3>1. /\ record' = [v \in DOMAIN record |-> [u \in Uids |-> NoRecord]]
          /\ validity' = validity /\ validity \in DOMAIN record
      BY <1>0, <1>5, <2>1 DEF Open, mailbox, RecordOK, RestOK
    <3>2. \A u \in Uids : RecordOf(u)' = NoRecord
      BY <3>1 DEF RecordOf
    <3>. QED  BY <1>5, <2>1, <3>2
  <2>2. CASE ~restarting
    BY <1>1, <1>5, <2>2 DEF Open, mailbox
  <2>. QED  BY <2>1, <2>2
<1>6. CASE RecordSuccess
  <2>1. /\ Uid \in Uids /\ Uid <= lastUid /\ mail[MessageAt(Uid)].date \in 0..now
        /\ UNCHANGED <<now, validity, lastUid>>
    BY <1>6, InHandTypes DEF RecordSuccess, InHand, mailbox
  <2>2. PICK u \in Uids, date \in 0..now : u = Uid /\ date = mail[MessageAt(Uid)].date
    BY <2>1
  <2>3. SetRecord(u, "success", date) /\ u <= lastUid
    BY <1>6, <2>1, <2>2 DEF RecordSuccess
  <2>4. /\ RecordOf(u)' = [outcome |-> "success", deleted |-> FALSE, date |-> date]
        /\ \A w \in Uids \ {u} : RecordOf(w)' = RecordOf(w)
    BY <1>0, <2>1, <2>3, SetRecordRows
  <2>. QED  BY <1>6, <2>2, <2>4
<1>7. CASE Attempt
  <2>1. Uid \in Uids /\ Uid <= lastUid /\ UNCHANGED <<now, validity, lastUid>>
    BY <1>0, <1>7, FirstOfList DEF Attempt, mailbox
  <2>2. mail[MessageAt(Uid)].date \in 0..now
    <3>1. mail[MessageAt(Uid)] \in Message
      BY <1>0, <1>7, HeldMessage DEF Attempt, MailOK, Inbox
    <3>. QED  BY <3>1 DEF Message
  <2>3. PICK u \in Uids, date \in 0..now : u = Uid /\ date = mail[MessageAt(Uid)].date
    BY <2>1, <2>2
  <2>4. SetRecord(u, "none", date) /\ u <= lastUid
    BY <1>7, <2>1, <2>3 DEF Attempt
  <2>5. /\ RecordOf(u)' = [outcome |-> "none", deleted |-> FALSE, date |-> date]
        /\ \A w \in Uids \ {u} : RecordOf(w)' = RecordOf(w)
    BY <1>0, <2>1, <2>4, SetRecordRows
  <2>6. ~Uploaded(RecordOf(u)')
    BY <2>5 DEF Uploaded
  <2>. QED  BY <1>7, <2>3, <2>5, <2>6 DEF RowTaken
<1>8. ASSUME collector.todo # <<>>, MarkDeleted(Uid), UNCHANGED <<now, validity, lastUid>>
      PROVE  RowTaken
  <2>1. PICK u \in Uids : u = Uid
    BY <1>0, <1>8, FirstOfList
  <2>2. ~Uploaded(RecordOf(u)') /\ \A w \in Uids \ {u} : RecordOf(w)' = RecordOf(w)
    BY <1>0, <1>8, <2>1, MarkDeletedRows
  <2>. QED  BY <2>1, <2>2 DEF RowTaken
<1>9. CASE RecordDeleted \/ SweepRecord
  <2>1. collector.todo # <<>>
    BY <1>0, <1>9 DEF RecordDeleted, SweepRecord, CollectorOK, PlaceKnown, Working
  <2>. QED  BY <1>8, <1>9, <2>1 DEF RecordDeleted, SweepRecord, mailbox
<1>10. CASE SweepNext
  BY <1>1, <1>8, <1>10 DEF SweepNext, Sweeping
<1>11. ASSUME collector.at \in InHand, RecordFailure, UNCHANGED <<now, validity, lastUid>>
       PROVE  RowTaken
  BY <1>11, FailureTypes DEF RowTaken
<1>12. CASE RecordRefused \/ WaitTimesOut \/ SubmitFails \/ WaitFails
  BY <1>11, <1>12 DEF RecordRefused, WaitTimesOut, SubmitFails, WaitFails, InHand, mailbox,
                      Failure
<1>13. CASE CommandFails
  BY <1>1, <1>11, <1>13 DEF CommandFails, InHand, Failure
<1>. QED
  BY <1>2, <1>3, <1>4, <1>5, <1>6, <1>7, <1>9, <1>10, <1>12, <1>13
     DEF CollectorStep, RunCycle, Failure

\* Where the collector may be after a step, and with which message and answer.
LEMMA PlaceSteps ==
    ASSUME TypesInv, CollectorStep
    PROVE  \/ collector' = collector
           \/ /\ collector'.at \in {"idle", "selected", "listed", "message"}
              /\ collector'.job = "none"
           \/ Attempt /\ collector'.at = "attempted" /\ collector'.job = "none"
           \/ Submit /\ collector'.at = "waiting" /\ collector'.job = "open"
           \/ EndJob /\ collector'.at = "waiting"
           \/ /\ \/ JobEnded /\ collector.at = "waiting" /\ collector'.at = "answered"
                 \/ RecordSuccess /\ collector.at = "answered" /\ collector'.at = "recorded"
                 \/ MarkSeen /\ collector.at = "recorded" /\ collector'.at = "seen"
                 \/ HardDelete /\ collector.at = "seen" /\ collector'.at = "removed"
              /\ collector' = [collector EXCEPT !.at = collector'.at]
              /\ collector'.todo = collector.todo /\ collector'.job = collector.job
           \/ /\ collector'.at \in {"sweep", "swept"} /\ collector'.job = "none"
              /\ StartSweep \/ SweepNext \/ SweepRecord
<1>0. MailOK /\ RecordOK /\ CollectorOK /\ RestOK
  BY TypesParts
<1>1. CASE Open \/ SearchAll \/ SearchUnseen \/ SkipUploaded \/ FetchGone
  BY <1>0, <1>1 DEF Open, SearchAll, SearchUnseen, SkipUploaded, FetchGone, Goto, NextMessage,
                    CollectorOK, InOrder
<1>2. CASE RecordRefused \/ WaitTimesOut \/ SubmitFails \/ WaitFails \/ CommandFails
  BY <1>0, <1>2 DEF RecordRefused, WaitTimesOut, SubmitFails, WaitFails, CommandFails,
                    RecordFailure, NextMessage, CollectorOK
<1>3. CASE RecordDeleted \/ Sleep \/ Interrupt
  <2>1. collector' = Idle => /\ collector'.at \in {"idle", "selected", "listed", "message"}
                             /\ collector'.job = "none"
    BY DEF Idle
  <2>. QED  BY <1>0, <1>3, <2>1 DEF RecordDeleted, Sleep, Interrupt, NextMessage, CollectorOK
<1>4. CASE Attempt \/ Submit
  BY <1>0, <1>4 DEF Attempt, Submit, Goto, CollectorOK
<1>5. CASE EndJob
  BY <1>0, <1>5 DEF EndJob, CollectorOK
<1>6. CASE JobEnded \/ RecordSuccess \/ HardDelete
  BY <1>0, <1>6 DEF JobEnded, RecordSuccess, HardDelete, Goto, CollectorOK
<1>7. CASE MarkSeen
  BY <1>0, <1>7 DEF MarkSeen, Goto, NextMessage, CollectorOK
<1>8. CASE StartSweep \/ SweepNext \/ SweepRecord
  BY <1>0, <1>8 DEF StartSweep, SweepNext, SweepRecord, Goto, CollectorOK, InOrder
<1>9. CASE \E m \in Messages : EndOldJob(m) \/ MarkUnread(m)
  BY <1>9 DEF EndOldJob, MarkUnread
<1>. QED
  BY <1>1, <1>2, <1>3, <1>4, <1>5, <1>6, <1>7, <1>8, <1>9 DEF CollectorStep, RunCycle, Failure

\* An answer of success is given for what is stored then, and stays.
LEMMA AnswerSteps ==
    ASSUME TypesInv, StoredInv, CollectorStep
    PROVE  AnswerWasStored'
<1>0. MailOK /\ RecordOK /\ CollectorOK /\ RestOK
  BY TypesParts
<1>1. /\ Safe \subseteq Safe'
      /\ \A m \in Inbox' : m \in Inbox /\ mail'[m].uid = mail[m].uid
  BY InboxSteps
<1>2. ASSUME collector'.todo = collector.todo, collector'.job = collector.job,
             collector'.at \in InHand => collector.at \in InHand,
             collector'.at \in {"recorded", "seen", "removed"} => Successful(collector.job)
      PROVE  AnswerWasStored'
  BY <1>1, <1>2 DEF StoredInv, AnswerWasStored, Uid, Successful
<1>3. CASE collector' = collector
  BY <1>2, <1>3 DEF StoredInv, AnswerWasStored
<1>4. CASE collector'.job \in {"none", "open"}
            /\ collector'.at \notin {"recorded", "seen", "removed"}
  BY <1>4 DEF AnswerWasStored, Successful
<1>5. CASE EndJob
  <2>1. /\ MessageAt(Uid) \in Inbox /\ mail[MessageAt(Uid)].uid = Uid
        /\ collector.at = "waiting"
    BY <1>5, InHandTypes DEF EndJob, InHand
  <2>2. PICK taken \in Takings(MessageAt(Uid)) :
           /\ \E status \in Statuses(MessageAt(Uid), taken) :
                 collector' = [collector EXCEPT !.job = status]
           /\ stored' = stored \union taken
    BY <1>5 DEF EndJob
  <2>6. PICK status \in Statuses(MessageAt(Uid), taken) :
           collector' = [collector EXCEPT !.job = status]
    BY <2>2
  <2>3. Successful(status) => MessageAt(Uid) \in Safe'
    BY <2>1, <2>2, <2>6 DEF Statuses, Successful, Takings, Safe, Delivered, Inbox
  <2>4. /\ collector'.job = status /\ collector'.at = "waiting"
        /\ collector'.todo = collector.todo
    BY <1>0, <2>1, <2>6 DEF CollectorOK
  <2>5. \A m \in Inbox : mail[m].uid = Uid => m = MessageAt(Uid)
    BY <1>0, <2>1 DEF MailOK, UidsGiven
  <2>. QED  BY <1>1, <2>3, <2>4, <2>5 DEF AnswerWasStored, Uid, Successful
<1>6. CASE collector'.todo = collector.todo /\ collector'.job = collector.job
            /\ \/ JobEnded /\ collector.at = "waiting" /\ collector'.at = "answered"
               \/ RecordSuccess /\ collector.at = "answered" /\ collector'.at = "recorded"
               \/ MarkSeen /\ collector.at = "recorded" /\ collector'.at = "seen"
               \/ HardDelete /\ collector.at = "seen" /\ collector'.at = "removed"
  <2>1. collector'.at \in {"recorded", "seen", "removed"} => Successful(collector.job)
    BY <1>6 DEF RecordSuccess, StoredInv, AnswerWasStored
  <2>. QED  BY <1>2, <1>6, <2>1 DEF InHand
<1>. QED  BY <1>3, <1>4, <1>5, <1>6, PlaceSteps

\* The list of the sweep is one of messages that were uploaded.
LEMMA SweptSteps ==
    ASSUME TypesInv, StoredInv, CollectorStep
    PROVE  SweptWasStored'
<1>0. MailOK /\ RecordOK /\ CollectorOK /\ RestOK
  BY TypesParts
<1>1. /\ Safe \subseteq Safe'
      /\ \A m \in Inbox' : m \in Inbox /\ mail'[m].uid = mail[m].uid
  BY InboxSteps
<1>2. ASSUME collector.at \in {"sweep", "swept"},
             \A i \in DOMAIN collector'.todo :
                 \E j \in DOMAIN collector.todo : collector'.todo[i] = collector.todo[j]
      PROVE  SweptWasStored'
  BY <1>1, <1>2 DEF StoredInv, SweptWasStored
<1>3. CASE collector'.at \notin {"sweep", "swept"}
  BY <1>3 DEF SweptWasStored
<1>4. CASE collector' = collector /\ collector'.at \in {"sweep", "swept"}
  BY <1>2, <1>4
<1>5. CASE SweepNext \/ SweepRecord
  <2>1. collector.at \in {"sweep", "swept"} /\ collector.todo # <<>>
    BY <1>0, <1>5 DEF SweepNext, SweepRecord, CollectorOK, PlaceKnown
  <2>2. collector'.todo = collector.todo \/ collector'.todo = Tail(collector.todo)
    BY <1>0, <1>5 DEF SweepNext, SweepRecord, Goto, CollectorOK
  <2>. QED  BY <1>0, <1>2, <2>1, <2>2, RestOfList
<1>6. CASE StartSweep
  <2>1. PICK uids \in [1..Cardinality(DueUids) -> DueUids] :
           collector' = [collector EXCEPT !.at = "sweep", !.todo = uids]
    BY <1>6 DEF StartSweep, InOrder
  <2>2. DueUids \subseteq Uids /\ \A u \in DueUids : Uploaded(RecordOf(u))
    BY DEF DueUids
  <2>3. \A i \in DOMAIN uids : uids[i] \in DueUids
    BY <2>1, <2>2, ListOfUids
  <2>4. collector'.todo = uids
    BY <1>0, <2>1 DEF CollectorOK
  <2>. QED  BY <1>1, <2>2, <2>3, <2>4 DEF StoredInv, SuccessWasStored, SweptWasStored, Safe, Inbox
<1>. QED  BY <1>3, <1>4, <1>5, <1>6, PlaceSteps DEF InHand

\* So the invariant holds after every step.
LEMMA StoredSteps ==
    ASSUME TypesInv, StoredInv, CollectorStep
    PROVE  StoredInv'
<1>0. MailOK /\ RecordOK /\ CollectorOK /\ RestOK
  BY TypesParts
<1>1. Safe \subseteq Safe' /\ \E gone, marked \in SUBSET Safe : Handled(gone, marked)
  BY MailSteps
<1>2. PICK gone, marked \in SUBSET Safe : Handled(gone, marked)
  BY <1>1
<1>3. Inbox' = Inbox \ gone
  BY <1>0, <1>2, HandledMail
<1>4. \A m \in gone : mail'[m].flagged = FALSE
  BY <1>2 DEF Handled, Outside
<1>7. /\ DeletedWasStored <=> \A m \in Messages : mail[m].at = "expunged" => m \in Safe
      /\ DeletedWasStored' <=> \A m \in Messages : mail'[m].at = "expunged" => m \in Safe'
  BY DEF DeletedWasStored, Safe
<1>5. FlaggedWasStored' /\ DeletedWasStored'
  BY <1>1, <1>2, <1>4, <1>7 DEF Handled, StoredInv, FlaggedWasStored
<1>6. SuccessWasStored'
  <2>. SUFFICES ASSUME NEW m \in Inbox', Uploaded(RecordOf(mail[m].uid))'
                PROVE  m \in Safe'
    BY DEF SuccessWasStored, Safe
  <2>1. m \in Inbox /\ mail'[m].uid = mail[m].uid /\ mail[m].uid \in Uids
    BY <1>0, <1>2, <1>3, UidKnown DEF Handled, Inbox
  <2>2. PICK u \in Uids : u = mail[m].uid
    BY <2>1
  <2>3. Uploaded(RecordOf(u)')
    BY <2>1, <2>2 DEF RecordOf
  <2>4. Uploaded(RecordOf(u)) => m \in Safe
    BY <2>1, <2>2 DEF StoredInv, SuccessWasStored, Safe, Inbox
  <2>5. CASE RowsKept
    BY <1>1, <2>3, <2>4, <2>5 DEF RowsKept
  <2>6. CASE \A w \in Uids : RecordOf(w)' = NoRecord
    BY <2>3, <2>6 DEF NoRecord, Uploaded
  <2>7. CASE RowTaken
    BY <1>1, <2>3, <2>4, <2>7 DEF RowTaken
  <2>8. CASE RecordSuccess /\ \A w \in Uids : w # Uid => RecordOf(w)' = RecordOf(w)
    <3>1. \A n \in Inbox : mail[n].uid = Uid => n \in Safe
      BY <2>8 DEF RecordSuccess, StoredInv, AnswerWasStored, InHand
    <3>. QED  BY <1>1, <2>1, <2>2, <2>3, <2>4, <2>8, <3>1
  <2>. QED  BY <2>5, <2>6, <2>7, <2>8, RecordSteps
<1>. QED  BY <1>5, <1>6, AnswerSteps, SweptSteps DEF StoredInv

\* The rest of the world adds messages that have no record, or takes every record away.
LEMMA StoredStep == TypesInv /\ StoredInv /\ [Next]_vars => StoredInv'
<1>. SUFFICES ASSUME TypesInv, StoredInv, [Next]_vars PROVE StoredInv'
  OBVIOUS
<1>0. MailOK /\ RecordOK /\ CollectorOK /\ RestOK
  BY TypesParts
<1>1. CASE CollectorStep
  BY <1>1, StoredSteps
<1>2. ASSUME NEW m \in Messages, Arrive(m)
      PROVE  StoredInv'
  <2>1. /\ Inbox' = Inbox \union {m} /\ m \notin Inbox
        /\ mail'[m].uid = lastUid + 1 /\ ~mail'[m].flagged
        /\ \A n \in Messages \ {m} : mail'[n] = mail[n]
    BY <1>2, ArriveTypes
  <2>2. /\ UNCHANGED <<validity, record, stored, collector>>
        /\ lastUid \in Nat /\ mail'[m].at = "inbox" /\ Safe' = Safe
    BY <1>0, <1>2, <2>1, UidsFinite DEF Arrive, server, MailOK, Inbox, Safe, Delivered
  <2>3. FlaggedWasStored' /\ DeletedWasStored'
    BY <2>1, <2>2 DEF StoredInv, FlaggedWasStored, DeletedWasStored, Delivered
  <2>4. SuccessWasStored'
    <3>1. CASE lastUid + 1 \in Uids
      <4>1. RecordOf(lastUid + 1).outcome = "absent"
        BY <1>0, <2>2, <3>1 DEF RecordOK, RecordsKnown
      <4>2. ~Uploaded(record'[validity'][mail'[m].uid])
        BY <2>1, <2>2, <4>1 DEF Uploaded, RecordOf
      <4>. QED  BY <2>1, <2>2, <4>2 DEF StoredInv, SuccessWasStored, RecordOf, Inbox, Delivered
    <3>2. lastUid + 1 \in Uids
      <4>1. MailOK'
        BY <1>2, ArriveTypes, TypesParts
      <4>. QED  BY <1>2, <2>2, <4>1, UidsFinite DEF Arrive, MailOK, Uids
    <3>. QED  BY <3>1, <3>2
  <2>5. AnswerWasStored'
    <3>1. ASSUME collector.at \in InHand
          PROVE  mail'[m].uid # Uid
      <4>1. Uid <= lastUid /\ Uid \in Uids
        BY <3>1, InHandTypes
      <4>. QED  BY <2>1, <2>2, <4>1, UidsFinite DEF Uids
    <3>. QED  BY <2>1, <2>2, <3>1 DEF StoredInv, AnswerWasStored, Uid, Inbox
  <2>6. SweptWasStored'
    <3>1. \A i \in DOMAIN collector.todo : collector.todo[i] # lastUid + 1
      <4>1. \A i \in DOMAIN collector.todo :
               collector.todo[i] <= lastUid /\ collector.todo[i] \in Nat
        BY <1>0, UidsFinite DEF CollectorOK, ListKnown, Uids
      <4>. QED  BY <2>2, <4>1
    <3>. QED  BY <2>1, <2>2, <3>1 DEF StoredInv, SweptWasStored, Inbox
  <2>. QED  BY <2>3, <2>4, <2>5, <2>6 DEF StoredInv
<1>3. CASE Renumber
  <2>1. /\ Inbox' = Inbox
        /\ \A m \in Messages : mail'[m].at = mail[m].at /\ mail'[m].flagged = mail[m].flagged
        /\ \A u \in Uids : RecordOf(u)' = NoRecord
    BY <1>3, RenumberTypes
  <2>2. collector'.at = "idle" /\ stored' = stored /\ Safe' = Safe
    BY <1>3 DEF Renumber, server, Safe, Delivered
  <2>3. FlaggedWasStored' /\ DeletedWasStored'
    BY <2>1, <2>2 DEF StoredInv, FlaggedWasStored, DeletedWasStored, Delivered
  <2>4. SuccessWasStored'
    <3>. SUFFICES ASSUME NEW m \in Inbox' PROVE ~Uploaded(RecordOf(mail[m].uid))'
      BY DEF SuccessWasStored
    <3>1. MailOK'
      BY <1>3, RenumberTypes, TypesParts
    <3>2. mail'[m].uid \in Uids
      BY <3>1, UidsFinite DEF MailOK, UidsGiven, Message, Inbox, Uids
    <3>. QED  BY <2>1, <3>2 DEF RecordOf, NoRecord, Uploaded
  <2>. QED  BY <2>2, <2>3, <2>4 DEF StoredInv, AnswerWasStored, SweptWasStored, InHand
<1>4. ASSUME UNCHANGED <<mail, validity, record, stored, collector>>
      PROVE  StoredInv'
  BY <1>4 DEF StoredInv, FlaggedWasStored, DeletedWasStored, SuccessWasStored, AnswerWasStored,
              SweptWasStored, Inbox, RecordOf, Uid, Safe, Delivered
<1>5. CASE Tick
  BY <1>4, <1>5 DEF Tick, mailbox, server
<1>6. CASE UNCHANGED vars
  BY <1>4, <1>6 DEF vars, mailbox, server
<1>. QED  BY <1>1, <1>2, <1>3, <1>5, <1>6 DEF Next, World, CollectorStep

\* At first the mailbox is empty.
LEMMA StoredInit == Init => StoredInv
<1>1. Init => Inbox = {} /\ \A m \in Messages : mail[m].at = "outside" /\ ~mail[m].flagged
  BY DEF Init, Inbox, Outside
<1>. QED
  BY <1>1 DEF Init, StoredInv, FlaggedWasStored, DeletedWasStored, SuccessWasStored,
              AnswerWasStored, SweptWasStored, Idle, InHand

\* Only messages of whose reports the server has at least one, and all but such as it turned
\* down, are deleted, whatever fails, dies, raises or is renumbered on the way.
THEOREM DeletedAreStored == Spec => []DeletedWasStored
<1>1. StoredInv => DeletedWasStored
  BY DEF StoredInv
<1>. QED  BY <1>1, TypesInit, TypesStep, StoredInit, StoredStep, PTL DEF Spec

\* A success on record is one of the message that has this UID now.
THEOREM SuccessesAreStored == Spec => []SuccessWasStored
<1>1. StoredInv => SuccessWasStored
  BY DEF StoredInv
<1>. QED  BY <1>1, TypesInit, TypesStep, StoredInit, StoredStep, PTL DEF Spec

-----------------------------------------------------------------------------
(* Repeats are caused.                                                     *)

\* UIDs in hand stand for one message.
LEMMA OnlyInHand ==
    ASSUME TypesInv, collector.at \in InHand, NEW m \in Inbox, mail[m].uid = Uid
    PROVE  m = MessageAt(Uid)
BY InHandTypes, TypesParts DEF MailOK, UidsGiven

\* The mailbox is listed once in a cycle.
LEMMA ListedSteps ==
    ASSUME TypesInv, CollectorStep, collector'.at \notin {"idle", "selected"}
    PROVE  \/ SearchAll /\ collector'.all = UidsOf(Inbox)
           \/ collector.at \notin {"idle", "selected"} /\ collector'.all = collector.all
<1>0. CollectorOK
  BY TypesParts
<1>1. CASE Open \/ SearchAll \/ SearchUnseen \/ SkipUploaded \/ FetchGone
  BY <1>0, <1>1 DEF Open, SearchAll, SearchUnseen, SkipUploaded, FetchGone, Goto, NextMessage,
                    CollectorOK, InOrder
<1>2. CASE \/ RecordRefused \/ WaitTimesOut \/ SubmitFails \/ WaitFails \/ CommandFails
           \/ RecordDeleted
  BY <1>0, <1>2 DEF RecordRefused, WaitTimesOut, SubmitFails, WaitFails, CommandFails,
                    RecordFailure, RecordDeleted, NextMessage, CollectorOK
<1>3. CASE Sleep \/ Interrupt
  <2>1. collector' = Idle => collector'.at = "idle"
    BY DEF Idle
  <2>. QED  BY <1>3, <2>1 DEF Sleep, Interrupt
<1>4. CASE Attempt \/ Submit \/ EndJob \/ JobEnded
  BY <1>0, <1>4 DEF Attempt, Submit, EndJob, JobEnded, Goto, CollectorOK
<1>5. CASE RecordSuccess \/ HardDelete \/ MarkSeen
  BY <1>0, <1>5 DEF RecordSuccess, HardDelete, MarkSeen, Goto, NextMessage, CollectorOK
<1>6. CASE StartSweep \/ SweepNext \/ SweepRecord
  BY <1>0, <1>6 DEF StartSweep, SweepNext, SweepRecord, Goto, CollectorOK, InOrder
<1>7. CASE \E m \in Messages : EndOldJob(m) \/ MarkUnread(m)
  BY <1>7 DEF EndOldJob, MarkUnread
<1>. QED
  BY <1>1, <1>2, <1>3, <1>4, <1>5, <1>6, <1>7 DEF CollectorStep, RunCycle, Failure

\* Uploads are counted when a message is submitted, failures when they happen.
LEMMA CountSteps ==
    ASSUME TypesInv, StoredInv, RepeatsInv, CollectorStep
    PROVE  /\ \A m \in Messages : uploads'[m] # uploads[m] => m \in Inbox \ Uncounted
           /\ \/ Failure /\ \A m \in Messages : uploads'[m] <= Budget'
              \/ /\ ~Failure /\ Budget' = Budget
                 /\ \/ Submit /\ \A m \in Messages : uploads'[m] <= 1 + Budget
                    \/ UNCHANGED uploads
           /\ Submit => \A m \in Messages : uploads'[m] = uploads[m] \/ m = MessageAt(Uid)
           /\ blocked => blocked'
<1>0. RestOK /\ Budget \in Nat /\ validity' = validity
  BY InboxSteps, TypesParts, ImapAssumption DEF RestOK, Budget
<1>1. \A m \in Messages : uploads[m] \in Nat /\ uploads[m] <= 1 + Budget
  BY <1>0 DEF RepeatsInv, Bounded, Budget, RestOK
<1>2. ASSUME collector.at = "attempted", Count(MessageAt(Uid))
      PROVE  \A m \in Messages : /\ uploads'[m] # uploads[m] => m \in Inbox \ Uncounted
                                 /\ uploads'[m] # uploads[m] => m = MessageAt(Uid)
                                 /\ uploads'[m] <= 1 + Budget
  <2>1. PICK n \in Inbox : n = MessageAt(Uid) /\ n \in Messages /\ mail[n].uid = Uid
    BY <1>2, InHandTypes DEF InHand
  <2>2. Within(n)
    BY <1>2, <2>1 DEF RepeatsInv, UploadsCounted, BeingUploaded
  <2>. QED  BY <1>0, <1>1, <1>2, <2>1, <2>2 DEF Count, RestOK, Within, Uncounted
<1>5. blocked => blocked'
  BY <1>0 DEF CollectorStep, RunCycle, Failure, Open, SearchAll, SearchUnseen, SkipUploaded,
         FetchGone, Attempt, Submit, Enqueue, WaitTimesOut, JobEnded, RecordSuccess,
         RecordRefused, MarkSeen, HardDelete, RecordDeleted, StartSweep, SweepNext,
         SweepRecord, Sleep, EndJob, EndOldJob, MarkUnread, SubmitFails, WaitFails,
         CommandFails, Interrupt, server, RestOK
<1>3. CASE Failure
  <2>1. faults' = faults + 1
    BY <1>3 DEF Failure, SubmitFails, WaitFails, CommandFails, Interrupt, Fault
  <2>2. Budget' = Budget + 1
    BY <1>0, <2>1 DEF Budget, RestOK
  <2>3. \/ UNCHANGED uploads
        \/ collector.at = "attempted" /\ Count(MessageAt(Uid))
    BY <1>3 DEF Failure, SubmitFails, Enqueue, WaitFails, CommandFails, Interrupt, server
  <2>4. ~Submit
    BY <1>3, <2>1, <1>0 DEF Submit, RestOK
  <2>. QED  BY <1>0, <1>1, <1>2, <1>3, <1>5, <2>2, <2>3, <2>4
<1>4. CASE ~Failure
  <2>1. UNCHANGED faults
    BY <1>4 DEF CollectorStep, RunCycle, Open, SearchAll, SearchUnseen, SkipUploaded, FetchGone,
                Attempt, Submit, WaitTimesOut, JobEnded, RecordSuccess, RecordRefused, MarkSeen,
                HardDelete, RecordDeleted, StartSweep, SweepNext, SweepRecord, Sleep, EndJob, EndOldJob,
                MarkUnread
  <2>2. Budget' = Budget
    BY <1>0, <2>1 DEF Budget
  <2>3. CASE Submit
    <3>1. collector.at = "attempted" /\ Count(MessageAt(Uid))
      BY <2>3 DEF Submit, Enqueue
    <3>. QED  BY <1>2, <1>4, <1>5, <2>2, <2>3, <3>1
  <2>4. CASE ~Submit
    <3>1. UNCHANGED uploads
      BY <1>4, <2>4 DEF CollectorStep, RunCycle, Open, SearchAll, SearchUnseen, SkipUploaded,
                  FetchGone, Attempt, WaitTimesOut, JobEnded, RecordSuccess, RecordRefused, MarkSeen,
                  HardDelete, RecordDeleted, StartSweep, SweepNext, SweepRecord, Sleep, EndJob,
                  EndOldJob, MarkUnread, server
    <3>. QED  BY <1>4, <1>5, <2>2, <2>4, <3>1
  <2>. QED  BY <2>3, <2>4
<1>. QED  BY <1>3, <1>4

\* Where the record of the message at hand is overwritten, the message is not in the mailbox
\* any more, or it has not been uploaded.
LEMMA TakenSteps ==
    ASSUME TypesInv, StoredInv, RepeatsInv, NEW m \in Inbox, mail[m].uid = Uid,
           \/ Attempt \/ RecordDeleted \/ Sweeping \/ SweepRecord \/ RecordRefused
    PROVE  Within(m)
<1>0. MailOK /\ RecordOK /\ CollectorOK /\ RestOK
  BY TypesParts
<1>1. CASE Attempt
  BY <1>0, <1>1 DEF Attempt, RepeatsInv, UploadsCounted, BeingUploaded
<1>2. CASE RecordDeleted \/ SweepRecord
  <2>1. ~Holds(Uid)
    BY <1>2 DEF RecordDeleted, SweepRecord, RepeatsInv, SweptAreListed
  <2>. QED  BY <2>1 DEF Holds
<1>3. CASE Sweeping
  <2>1. 1 \in DOMAIN collector.todo /\ Uid = collector.todo[1]
    BY <1>0, <1>3, FirstOfList DEF Sweeping, SweepNext
  <2>2. mail[m].uid \in collector.all
    BY <1>3, <2>1 DEF Sweeping, SweepNext, RepeatsInv, SweptAreListed
  <2>. QED  BY <1>3, <2>2 DEF Sweeping
<1>4. CASE RecordRefused
  <2>1. collector.at = "answered" /\ collector.job \in {"rejected", "invalid"}
    BY <1>0, <1>4 DEF RecordRefused, Successful, CollectorOK, PlaceKnown, ItemStatuses
  <2>2. uploads[m] = 0
    BY <2>1 DEF RepeatsInv, UploadsCounted, InHand, Inbox
  <2>. QED  BY <1>0, <2>2, ImapAssumption DEF Budget, RestOK, Within
<1>. QED  BY <1>1, <1>2, <1>3, <1>4

\* Once submitted, a message is under way until it is on record or has been refused.
LEMMA WaitingSteps ==
    ASSUME TypesInv, CollectorStep, ~Failure, collector.at \in {"waiting", "answered"}
    PROVE  \/ RecordSuccess \/ RecordRefused \/ WaitTimesOut
           \/ collector'.at \in {"waiting", "answered"} /\ Uid' = Uid
<1>0. CollectorOK
  BY TypesParts
<1>1. CASE JobEnded \/ EndJob
  BY <1>0, <1>1 DEF JobEnded, EndJob, Goto, CollectorOK, Uid
<1>2. CASE \E m \in Messages : EndOldJob(m) \/ MarkUnread(m)
  BY <1>2 DEF EndOldJob, MarkUnread, Uid
<1>3. ~ \/ Open \/ SearchAll \/ SearchUnseen \/ SkipUploaded \/ FetchGone \/ Attempt \/ Submit
        \/ MarkSeen \/ HardDelete \/ RecordDeleted \/ StartSweep \/ SweepNext \/ SweepRecord
        \/ Sleep
  BY DEF Open, SearchAll, SearchUnseen, SkipUploaded, FetchGone, Attempt, Submit, MarkSeen,
         HardDelete, RecordDeleted, StartSweep, SweepNext, SweepRecord, Sleep
<1>. QED  BY <1>1, <1>2, <1>3 DEF CollectorStep, RunCycle

\* What has been uploaded once more than there were causes for is on record or under way.
LEMMA UploadsSteps ==
    ASSUME TypesInv, StoredInv, RepeatsInv, CollectorStep
    PROVE  \A m \in Inbox' : \/ Uploaded(RecordOf(mail[m].uid))' \/ BeingUploaded(m)'
                             \/ Within(m)'
<1>. SUFFICES ASSUME NEW m \in Inbox'
              PROVE  \/ Uploaded(RecordOf(mail[m].uid))' \/ BeingUploaded(m)'
                     \/ Within(m)'
  OBVIOUS
<1>0. MailOK /\ RecordOK /\ CollectorOK /\ RestOK
  BY TypesParts
<1>1. m \in Inbox /\ mail'[m].uid = mail[m].uid /\ mail[m].uid \in Uids /\ m \in Messages
  BY <1>0, InboxSteps, UidKnown DEF Inbox
<1>2. PICK u \in Uids : u = mail[m].uid
  BY <1>1
<1>3. RecordOf(mail[m].uid)' = RecordOf(u)'
  BY <1>1, <1>2 DEF RecordOf
<1>10. CASE Failure \/ blocked
  BY <1>1, <1>10, CountSteps DEF Within
<1>. SUFFICES ASSUME ~Failure, ~blocked
              PROVE  \/ Uploaded(RecordOf(mail[m].uid))' \/ BeingUploaded(m)'
                     \/ uploads'[m] <= Budget'
  BY <1>10 DEF Within
<1>4. Budget' = Budget /\ ~WaitTimesOut /\ (Within(m) <=> uploads[m] <= Budget)
  BY CountSteps DEF WaitTimesOut, Within
<1>5. CASE uploads'[m] # uploads[m]
  <2>1. Submit /\ m = MessageAt(Uid)
    BY <1>1, <1>5, CountSteps
  <2>2. mail[m].uid = Uid
    BY <2>1, InHandTypes DEF Submit, InHand
  <2>3. collector'.at = "waiting" /\ Uid' = Uid
    BY <1>0, <2>1 DEF Submit, CollectorOK, Uid
  <2>. QED  BY <1>1, <2>2, <2>3 DEF BeingUploaded
<1>6. CASE uploads'[m] = uploads[m] /\ uploads[m] <= Budget
  BY <1>4, <1>6
<1>7. CASE uploads'[m] = uploads[m] /\ BeingUploaded(m)
  <2>1. CASE RecordRefused
    BY <1>1, <1>4, <1>7, <2>1, TakenSteps DEF BeingUploaded
  <2>2. CASE RecordSuccess
    <3>1. u = Uid
      BY <1>2, <1>7 DEF BeingUploaded
    <3>2. SetRecord(u, "success", mail[MessageAt(Uid)].date) /\ UNCHANGED <<now, mailbox>>
      BY <2>2, <3>1 DEF RecordSuccess
    <3>3. RecordOf(u)'.outcome = "success" /\ RecordOf(u)'.deleted = FALSE
      <4>1. u <= lastUid /\ mail[MessageAt(Uid)].date \in 0..now
        BY <2>2, <3>1, InHandTypes DEF RecordSuccess, InHand
      <4>2. PICK date \in 0..now : date = mail[MessageAt(Uid)].date
        BY <4>1
      <4>3. RecordOf(u)' = [outcome |-> "success", deleted |-> FALSE, date |-> date]
        BY <1>0, <3>2, <4>1, <4>2, SetRecordRows DEF mailbox
      <4>. QED  BY <4>3
    <3>. QED  BY <1>3, <3>3 DEF Uploaded
  <2>3. CASE collector'.at \in {"waiting", "answered"} /\ Uid' = Uid
    BY <1>1, <1>7, <2>3 DEF BeingUploaded
  <2>. QED  BY <1>4, <1>7, <2>1, <2>2, <2>3, WaitingSteps DEF BeingUploaded
<1>8. CASE uploads'[m] = uploads[m] /\ Uploaded(RecordOf(u))
  <2>1. CASE RowsKept
    BY <1>3, <1>8, <2>1 DEF RowsKept
  <2>2. CASE Open /\ restarting
    BY <1>1, <1>4, <1>8, <2>2 DEF RepeatsInv, RestartCounted
  <2>3. CASE RecordSuccess /\ \A w \in Uids \ {Uid} : RecordOf(w)' = RecordOf(w)
    <3>1. u # Uid
      BY <1>8, <2>3 DEF RecordSuccess, RepeatsInv, UploadsCounted
    <3>. QED  BY <1>3, <1>8, <2>3, <3>1
  <2>4. CASE RowTaken /\ (Attempt \/ RecordDeleted \/ Sweeping \/ SweepRecord \/ RecordRefused)
    <3>1. CASE u # Uid
      BY <1>3, <1>8, <2>4, <3>1 DEF RowTaken
    <3>2. CASE u = Uid
      BY <1>1, <1>2, <1>4, <1>8, <2>4, <3>2, TakenSteps
    <3>. QED  BY <3>1, <3>2
  <2>. QED  BY <1>4, <2>1, <2>2, <2>3, <2>4, RecordSteps
<1>9. Uploaded(RecordOf(u)) \/ BeingUploaded(m) \/ uploads[m] <= Budget
  BY <1>1, <1>2, <1>4 DEF RepeatsInv, UploadsCounted
<1>. QED  BY <1>5, <1>6, <1>7, <1>8, <1>9

\* A row comes to count as an upload only by a success.
LEMMA OnlySuccess ==
    ASSUME TypesInv, CollectorStep, ~RecordSuccess, NEW u \in Uids, ~Uploaded(RecordOf(u))
    PROVE  ~Uploaded(RecordOf(u)')
<1>1. CASE RowsKept
  BY <1>1 DEF RowsKept
<1>2. CASE \A w \in Uids : RecordOf(w)' = NoRecord
  BY <1>2 DEF NoRecord, Uploaded
<1>3. CASE RowTaken
  BY <1>3 DEF RowTaken
<1>. QED  BY <1>1, <1>2, <1>3, RecordSteps

\* What has been submitted is not on record, and what is turned down may be.
LEMMA CountedSteps ==
    ASSUME TypesInv, StoredInv, RepeatsInv, CollectorStep
    PROVE  UploadsCounted'
<1>0. MailOK /\ RecordOK /\ CollectorOK /\ RestOK
  BY TypesParts
<1>1. ASSUME NEW m \in Messages, mail'[m].at = "outside" \/ m \in Uncounted
      PROVE  uploads'[m] = 0
  BY <1>1, InboxSteps, CountSteps DEF RepeatsInv, UploadsCounted, Inbox
<1>2. ASSUME collector'.at \in {"attempted", "waiting", "answered"}
      PROVE  ~Uploaded(RecordOf(Uid))'
  <2>1. \/ collector.at \in {"attempted", "waiting", "answered"}
        \/ Attempt
    BY <1>2, PlaceSteps DEF Submit, EndJob
  <2>2. Uid' = Uid
    <3>1. collector'.todo = collector.todo
      <4>1. CASE Attempt \/ Submit \/ EndJob
        BY <1>0, <4>1 DEF Attempt, Submit, EndJob, Goto, CollectorOK
      <4>2. CASE collector' = collector
        BY <4>2
      <4>. QED  BY <1>2, <4>1, <4>2, PlaceSteps
    <3>. QED  BY <3>1 DEF Uid
  <2>3. Uid \in Uids /\ ~Uploaded(RecordOf(Uid))
    <3>1. CASE Attempt
      BY <1>0, <3>1, FirstOfList DEF Attempt
    <3>2. CASE collector.at \in {"attempted", "waiting", "answered"}
      BY <3>2, InHandTypes DEF InHand, RepeatsInv, UploadsCounted
    <3>. QED  BY <2>1, <3>1, <3>2
  <2>4. ~RecordSuccess
    BY <1>0, <1>2 DEF RecordSuccess, Goto, CollectorOK
  <2>5. PICK u \in Uids : u = Uid
    BY <2>3
  <2>6. ~Uploaded(RecordOf(u)')
    BY <2>3, <2>4, <2>5, OnlySuccess
  <2>7. RecordOf(Uid)' = RecordOf(u)'
    BY <2>2, <2>5 DEF RecordOf
  <2>. QED  BY <2>6, <2>7
<1>3. ASSUME collector'.at \in InHand, collector'.job \in {"rejected", "invalid"},
             NEW m \in Inbox', mail'[m].uid = Uid'
      PROVE  m \in Uncounted
  <2>1. m \in Inbox /\ mail'[m].uid = mail[m].uid
    BY InboxSteps
  <2>2. CASE EndJob
    <3>1. collector.at = "waiting" /\ collector'.todo = collector.todo
          /\ \E taken \in Takings(MessageAt(Uid)) :
                collector'.job \in Statuses(MessageAt(Uid), taken)
      BY <1>0, <2>2 DEF EndJob, CollectorOK
    <3>2. m = MessageAt(Uid)
      BY <1>3, <2>1, <3>1, OnlyInHand DEF InHand, Uid
    <3>. QED  BY <1>3, <2>1, <3>1, <3>2 DEF Statuses, Takings, Uncounted, Inbox
  <2>3. CASE ~EndJob
    <3>1. collector.at \in InHand /\ collector'.todo = collector.todo
          /\ collector'.job = collector.job
      BY <1>3, <2>3, PlaceSteps DEF InHand
    <3>. QED  BY <1>3, <2>1, <3>1 DEF RepeatsInv, UploadsCounted, Uid
  <2>. QED  BY <2>2, <2>3
<1>. QED  BY <1>1, <1>2, <1>3, UploadsSteps DEF UploadsCounted

\* A restart is owed to a failure.
LEMMA RestartSteps ==
    ASSUME TypesInv, StoredInv, RepeatsInv, CollectorStep
    PROVE  RestartCounted' /\ Bounded'
<1>0. RestOK /\ CollectorOK /\ Budget \in Nat /\ validity' = validity
  BY InboxSteps, TypesParts, ImapAssumption DEF RestOK, Budget
<1>1. Bounded'
  <2>1. /\ \A m \in Messages : uploads[m] \in Nat /\ uploads[m] <= 1 + Budget
        /\ faults' \in Nat /\ validity' \in Nat /\ uploads' \in [Messages -> Nat]
    <3>1. RestOK'
      BY TypesStep, TypesParts DEF CollectorStep, Next, World
    <3>. QED  BY <1>0, <3>1, ImapAssumption DEF RepeatsInv, Bounded, Budget, RestOK
  <2>2. Budget' = faults' + validity'
    BY DEF Budget
  <2>3. ASSUME NEW m \in Messages PROVE uploads'[m] <= 1 + Budget'
    <3>1. CASE uploads'[m] <= Budget'
      BY <2>1, <2>2, <3>1
    <3>2. CASE Budget' = Budget /\ uploads'[m] <= 1 + Budget
      BY <3>2
    <3>. QED  BY <2>1, <3>1, <3>2, CountSteps
  <2>. QED  BY <2>1, <2>2, <2>3 DEF Bounded
<1>2. ASSUME restarting'
      PROVE  collector'.at \in {"idle", "selected"} /\ \A m \in Messages : Within(m)'
  <2>1. CASE Interrupt
    <3>1. collector'.at = "idle" /\ Failure
      BY <2>1 DEF Interrupt, Idle, Failure
    <3>. QED  BY <3>1, CountSteps DEF Within
  <2>2. CASE ~Interrupt
    <3>1. restarting
      BY <1>2, <2>2 DEF CollectorStep, RunCycle, Failure, Open, SearchAll, SearchUnseen,
              SkipUploaded, FetchGone, Attempt, Submit, WaitTimesOut, JobEnded, RecordSuccess,
              RecordRefused, MarkSeen, HardDelete, RecordDeleted, StartSweep, SweepNext, SweepRecord, Sleep,
              SubmitFails, WaitFails, CommandFails, EndJob, EndOldJob, MarkUnread
    <3>2. collector.at \in {"idle", "selected"} /\ \A m \in Messages : Within(m)
      BY <3>1 DEF RepeatsInv, RestartCounted
    <3>3. \/ Open \/ SearchAll
          \/ UNCHANGED <<collector, uploads, faults, blocked>>
      <4>1. ~ \/ SearchUnseen \/ SkipUploaded \/ FetchGone \/ Attempt \/ Submit \/ JobEnded
              \/ WaitTimesOut \/ RecordSuccess \/ RecordRefused \/ MarkSeen \/ HardDelete
              \/ RecordDeleted \/ StartSweep \/ SweepNext \/ SweepRecord \/ Sleep \/ EndJob
        BY <3>2 DEF SearchUnseen, SkipUploaded, FetchGone, Attempt, Submit, JobEnded,
              WaitTimesOut, RecordSuccess, RecordRefused, MarkSeen, HardDelete, RecordDeleted, StartSweep,
              SweepNext, SweepRecord, Sleep, EndJob
      <4>2. ~(SubmitFails \/ WaitFails \/ CommandFails)
        BY <3>2 DEF SubmitFails, WaitFails, CommandFails
      <4>3. \A m \in Messages : EndOldJob(m) \/ MarkUnread(m) =>
                                   UNCHANGED <<collector, uploads, faults, blocked>>
        BY DEF EndOldJob, MarkUnread, server
      <4>. QED  BY <2>2, <4>1, <4>2, <4>3 DEF CollectorStep, RunCycle, Failure
    <3>4. UNCHANGED <<uploads, faults, blocked>> /\ collector'.at \in {"idle", "selected"}
      BY <1>0, <1>2, <3>2, <3>3 DEF Open, SearchAll, Goto, server, CollectorOK
    <3>. QED  BY <1>0, <3>2, <3>4 DEF Budget, Within
  <2>. QED  BY <2>1, <2>2
<1>. QED  BY <1>1, <1>2 DEF RestartCounted

\* With a success on record, the message is marked read and deleted, or there is a failure.
LEMMA DoneSteps ==
    ASSUME CollectorStep, collector.at \in {"recorded", "seen"}
    PROVE  \/ MarkSeen \/ HardDelete \/ CommandFails \/ Interrupt
           \/ UNCHANGED <<collector, record, validity>>
<1>1. ~ \/ Open \/ SearchAll \/ SearchUnseen \/ SkipUploaded \/ FetchGone \/ Attempt \/ Submit
        \/ WaitTimesOut \/ JobEnded \/ RecordSuccess \/ RecordRefused \/ RecordDeleted \/ StartSweep
        \/ SweepNext \/ SweepRecord \/ Sleep \/ EndJob \/ SubmitFails \/ WaitFails
  BY DEF Open, SearchAll, SearchUnseen, SkipUploaded, FetchGone, Attempt, Submit, WaitTimesOut,
         JobEnded, RecordSuccess, RecordRefused, RecordDeleted, StartSweep, SweepNext, SweepRecord,
         Sleep, EndJob, SubmitFails, WaitFails
<1>2. \A m \in Messages : EndOldJob(m) \/ MarkUnread(m) =>
                             UNCHANGED <<collector, record, validity>>
  BY DEF EndOldJob, MarkUnread, mailbox
<1>. QED  BY <1>1, <1>2 DEF CollectorStep, RunCycle, Failure

\* The message at hand leaves the mailbox when it is deleted.
LEMMA GoneSteps ==
    ASSUME TypesInv, HardDelete \/ (SweepNext /\ Uid \in collector.all)
    PROVE  \A m \in Inbox' : mail[m].uid # Uid
<1>1. mail' = Expunged(Uid)
  BY DEF HardDelete, SweepNext
<1>2. \A m \in Inbox : mail[m].uid = Uid => mail'[m].at = "expunged"
  BY <1>1 DEF Expunged, Expunge, Inbox, Outside
<1>3. Inbox' \subseteq Inbox
  BY <1>1 DEF Expunged, Expunge, Inbox, Outside
<1>. QED  BY <1>2, <1>3 DEF Inbox

\* The date on record is that of the message at hand.
LEMMA DateSteps ==
    ASSUME TypesInv, StoredInv, RepeatsInv, CollectorStep
    PROVE  DateRecorded'
<1>0. MailOK /\ RecordOK /\ CollectorOK /\ RestOK
  BY TypesParts
<1>. SUFFICES ASSUME collector'.at \in {"recorded", "seen"}, NEW m \in Inbox',
                     mail'[m].uid = Uid'
              PROVE  RecordOf(Uid)'.date = mail'[m].date
  BY DEF DateRecorded
<1>1. m \in Inbox /\ mail'[m].uid = mail[m].uid /\ mail'[m].date = mail[m].date
  BY InboxSteps
<1>2. CASE RecordSuccess
  <2>1. Uid' = Uid /\ collector.at \in InHand
    BY <1>0, <1>2 DEF RecordSuccess, Goto, CollectorOK, Uid, InHand
  <2>2. m = MessageAt(Uid) /\ Uid \in Uids /\ Uid <= lastUid
    BY <1>1, <2>1, OnlyInHand, InHandTypes
  <2>3. PICK u \in Uids : u = Uid
    BY <2>2
  <2>4. PICK date \in 0..now : date = mail[MessageAt(Uid)].date
    BY <2>1, InHandTypes
  <2>5. RecordOf(u)' = [outcome |-> "success", deleted |-> FALSE, date |-> date]
    BY <1>0, <1>2, <2>2, <2>3, <2>4, SetRecordRows DEF RecordSuccess, mailbox
  <2>6. RecordOf(u)'.date = date
    BY <2>5
  <2>7. RecordOf(Uid)' = RecordOf(u)'
    BY <2>1, <2>3 DEF RecordOf
  <2>. QED  BY <1>1, <2>2, <2>4, <2>6, <2>7
<1>3. ASSUME collector.at \in {"recorded", "seen"}, collector'.todo = collector.todo,
             UNCHANGED <<record, validity>>
      PROVE  RecordOf(Uid)'.date = mail'[m].date
  BY <1>1, <1>3 DEF RepeatsInv, DateRecorded, RecordOf, Uid
<1>4. CASE MarkSeen
  BY <1>0, <1>3, <1>4 DEF MarkSeen, Goto, NextMessage, CollectorOK
<1>5. CASE UNCHANGED <<collector, record, validity>>
  BY <1>3, <1>5
<1>6. CASE HardDelete \/ CommandFails \/ Interrupt
  <2>1. Interrupt => collector'.at = "idle"
    BY DEF Interrupt, Idle
  <2>2. HardDelete => collector'.at = "removed"
    BY <1>0 DEF HardDelete, Goto, CollectorOK
  <2>3. CommandFails => collector'.at = "message"
    BY <1>0 DEF CommandFails, RecordFailure, NextMessage, CollectorOK
  <2>. QED  BY <1>6, <2>1, <2>2, <2>3
<1>7. collector.at \in {"recorded", "seen"} \/ RecordSuccess
  BY PlaceSteps DEF Attempt, Submit, EndJob, JobEnded, HardDelete
<1>. QED  BY <1>2, <1>4, <1>5, <1>6, <1>7, DoneSteps

\* What comes while the mailbox is worked on is not due before it is listed.
LEMMA LateSteps ==
    ASSUME TypesInv, StoredInv, RepeatsInv, CollectorStep
    PROVE  LateNotDue'
<1>0. MailOK /\ RecordOK /\ CollectorOK /\ RestOK
  BY TypesParts
<1>. SUFFICES ASSUME collector'.at \notin {"idle", "selected"}, NEW m \in Inbox'
              PROVE  LET row == RecordOf(mail[m].uid)'
                     IN  \/ mail'[m].uid \in collector'.all
                         \/ ~Uploaded(row) \/ ~IsDeleteDue(row.date)
                         \/ collector'.at \in {"recorded", "seen"} /\ mail'[m].uid = Uid'
  <2>1. now' = now
    BY InboxSteps
  <2>. QED  BY <2>1 DEF LateNotDue, IsDeleteDue, Uploaded
<1>1. m \in Inbox /\ mail'[m].uid = mail[m].uid /\ mail[m].uid \in Uids
  BY <1>0, InboxSteps, UidKnown
<1>2. PICK u \in Uids : u = mail[m].uid
  BY <1>1
<1>3. RecordOf(mail[m].uid)' = RecordOf(u)'
  BY <1>1, <1>2 DEF RecordOf
<1>. SUFFICES ASSUME mail'[m].uid \notin collector'.all,
                     Uploaded(RecordOf(u)'), IsDeleteDue(RecordOf(u)'.date)
              PROVE  collector'.at \in {"recorded", "seen"} /\ u = Uid'
  BY <1>1, <1>2, <1>3
<1>4. collector.at \notin {"idle", "selected"} /\ u \notin collector.all
  <2>1. SearchAll => u \in UidsOf(Inbox)
    BY <1>1, <1>2 DEF UidsOf
  <2>. QED  BY <1>1, <1>2, <2>1, ListedSteps
<1>5. CASE RecordSuccess
  <2>1. Uid' = Uid /\ collector'.at = "recorded" /\ collector.at = "answered"
    BY <1>0, <1>5 DEF RecordSuccess, Goto, CollectorOK, Uid
  <2>2. CASE u # Uid
    <3>1. RecordOf(u)' = RecordOf(u)
      <4>1. Uid \in Uids /\ Uid <= lastUid
        BY <2>1, InHandTypes DEF InHand
      <4>2. PICK w \in Uids, date \in 0..now : w = Uid /\ date = mail[MessageAt(Uid)].date
        BY <2>1, <4>1, InHandTypes DEF InHand
      <4>. QED  BY <1>0, <1>5, <2>2, <4>1, <4>2, SetRecordRows DEF RecordSuccess, mailbox
    <3>. QED  BY <1>1, <1>2, <1>4, <2>1, <3>1 DEF RepeatsInv, LateNotDue
  <2>. QED  BY <2>1, <2>2
<1>6. CASE ~RecordSuccess
  <2>1. RecordOf(u)' = RecordOf(u)
    BY <1>6, RecordSteps DEF RowsKept, RowTaken, NoRecord, Uploaded
  <2>2. collector.at \in {"recorded", "seen"} /\ u = Uid
    BY <1>1, <1>2, <1>4, <2>1 DEF RepeatsInv, LateNotDue
  <2>3. m = MessageAt(Uid) /\ RecordOf(u).date = mail[m].date
    BY <1>1, <1>2, <2>2, OnlyInHand DEF InHand, RepeatsInv, DateRecorded
  <2>4. CASE MarkSeen
    <3>1. IsDeleteDue(mail[m].date)
      BY <2>1, <2>3
    <3>. QED  BY <1>0, <2>2, <2>3, <2>4, <3>1 DEF MarkSeen, Goto, CollectorOK, Uid
  <2>5. CASE HardDelete
    BY <1>2, <2>2, <2>5, GoneSteps
  <2>6. CASE CommandFails
    <3>1. RecordFailure /\ UNCHANGED <<now, validity, lastUid>>
      BY <2>2, <2>6 DEF CommandFails
    <3>2. ~Uploaded(RecordOf(u)')
      BY <2>2, <3>1, FailureTypes DEF InHand
    <3>. QED  BY <3>2
  <2>7. CASE Interrupt
    BY <2>7 DEF Interrupt, Idle
  <2>8. CASE UNCHANGED <<collector, record, validity>>
    BY <2>2, <2>8 DEF Uid
  <2>. QED  BY <2>2, <2>4, <2>5, <2>6, <2>7, <2>8, DoneSteps
<1>. QED  BY <1>5, <1>6

\* So what the sweep finds due has been listed.
LEMMA SweepSteps ==
    ASSUME TypesInv, StoredInv, RepeatsInv, CollectorStep
    PROVE  SweptAreListed'
<1>0. MailOK /\ RecordOK /\ CollectorOK /\ RestOK
  BY TypesParts
<1>1. \A m \in Inbox' : m \in Inbox /\ mail'[m].uid = mail[m].uid
  BY InboxSteps
<1>2. ASSUME NEW m \in Inbox', NEW i \in DOMAIN collector'.todo,
             collector'.at \in {"sweep", "swept"}, mail'[m].uid = collector'.todo[i]
      PROVE  mail'[m].uid \in collector'.all
  <2>1. collector.at \notin {"idle", "selected"} /\ collector'.all = collector.all
    BY <1>0, <1>2, ListedSteps DEF SearchAll, CollectorOK
  <2>2. ASSUME collector.at \in {"sweep", "swept"},
               \E j \in DOMAIN collector.todo : collector'.todo[i] = collector.todo[j]
        PROVE  mail'[m].uid \in collector'.all
    BY <1>1, <1>2, <2>1, <2>2 DEF RepeatsInv, SweptAreListed
  <2>3. CASE SweepNext \/ SweepRecord
    <3>1. collector.at \in {"sweep", "swept"} /\ collector.todo # <<>>
      BY <1>0, <2>3 DEF SweepNext, SweepRecord, CollectorOK, PlaceKnown
    <3>2. collector'.todo = collector.todo \/ collector'.todo = Tail(collector.todo)
      BY <1>0, <2>3 DEF SweepNext, SweepRecord, Goto, CollectorOK
    <3>. QED  BY <1>0, <1>2, <2>2, <3>1, <3>2, RestOfList
  <2>4. CASE StartSweep
    <3>1. PICK uids \in [1..Cardinality(DueUids) -> DueUids] :
             collector' = [collector EXCEPT !.at = "sweep", !.todo = uids]
      BY <2>4 DEF StartSweep, InOrder
    <3>2. DueUids \subseteq Uids /\ \A u \in DueUids : Uploaded(RecordOf(u))
                                                       /\ IsDeleteDue(RecordOf(u).date)
      BY DEF DueUids
    <3>3. collector'.todo = uids
      BY <1>0, <3>1 DEF CollectorOK
    <3>4. mail[m].uid \in DueUids
      BY <1>1, <1>2, <3>1, <3>2, <3>3, ListOfUids
    <3>5. collector.at = "message"
      BY <2>4 DEF StartSweep
    <3>. QED  BY <1>1, <2>1, <3>2, <3>4, <3>5 DEF RepeatsInv, LateNotDue
  <2>5. CASE collector' = collector
    BY <1>2, <2>2, <2>5
  <2>. QED  BY <1>2, <2>3, <2>4, <2>5, PlaceSteps
<1>3. ASSUME collector'.at \in {"removed", "swept"}
      PROVE  \A m \in Inbox' : mail'[m].uid # Uid'
  <2>1. CASE HardDelete \/ (SweepNext /\ Uid \in collector.all)
    <3>1. collector'.todo = collector.todo
      BY <1>0, <2>1 DEF HardDelete, SweepNext, Goto, CollectorOK
    <3>. QED  BY <1>1, <2>1, <3>1, GoneSteps DEF Uid
  <2>2. CASE collector' = collector
    BY <1>1, <1>3, <2>2 DEF RepeatsInv, SweptAreListed, Holds, Uid
  <2>3. ~(StartSweep \/ SweepRecord) /\ ~(SweepNext /\ Uid \notin collector.all)
    BY <1>0, <1>3 DEF StartSweep, SweepRecord, SweepNext, CollectorOK
  <2>. QED  BY <1>3, <2>1, <2>2, <2>3, PlaceSteps
<1>4. SweptAreListed' <=>
         /\ collector'.at \in {"sweep", "swept"} =>
               \A m \in Inbox', i \in DOMAIN collector'.todo :
                   mail'[m].uid = collector'.todo[i] => mail'[m].uid \in collector'.all
         /\ collector'.at \in {"removed", "swept"} => \A m \in Inbox' : mail'[m].uid # Uid'
  BY DEF SweptAreListed, Holds
<1>. QED  BY <1>2, <1>3, <1>4

\* Put together: the invariant holds after every step of the collector and the server.
LEMMA RepeatsSteps ==
    ASSUME TypesInv, StoredInv, RepeatsInv, CollectorStep
    PROVE  RepeatsInv'
BY CountedSteps, RestartSteps, DateSteps, LateSteps, SweepSteps DEF RepeatsInv

\* A message that arrives has not been uploaded and its UID is not in use.
LEMMA ArriveRepeats ==
    ASSUME TypesInv, RepeatsInv, NEW m \in Messages, Arrive(m)
    PROVE  RepeatsInv'
<1>0. MailOK /\ RecordOK /\ CollectorOK /\ RestOK /\ Budget \in Nat
  BY TypesParts, ImapAssumption DEF RestOK, Budget
<1>1. /\ Inbox' = Inbox \union {m} /\ m \notin Inbox
      /\ mail'[m].uid = lastUid + 1
      /\ \A n \in Messages \ {m} : mail'[n] = mail[n]
  BY ArriveTypes
<1>2. /\ UNCHANGED <<now, validity, record, uploads, blocked, collector, restarting, faults>>
      /\ lastUid \in Nat /\ mail'[m].at = "inbox" /\ mail[m].at = "outside"
  BY <1>0, <1>1, UidsFinite DEF Arrive, server, MailOK, Inbox
<1>3. uploads[m] = 0 /\ Budget' = Budget
  BY <1>2 DEF RepeatsInv, UploadsCounted, Budget
<1>4. lastUid + 1 \in Uids
  <2>1. MailOK'
    BY TypesParts, ArriveTypes
  <2>. QED  BY <1>2, <2>1, UidsFinite DEF Arrive, MailOK, Uids
<1>5. ~Uploaded(RecordOf(lastUid + 1)) /\ \A u \in Uids : RecordOf(u)' = RecordOf(u)
  BY <1>0, <1>2, <1>4 DEF RecordOK, RecordsKnown, Uploaded, RecordOf
<1>6. ASSUME collector.at \in Working \union {"swept"}
      PROVE  Uid \in Uids /\ Uid # lastUid + 1
  <2>1. collector.todo # <<>>
    BY <1>0, <1>6 DEF CollectorOK, PlaceKnown
  <2>2. Uid \in Uids /\ Uid <= lastUid
    BY <1>0, <2>1, FirstOfList
  <2>. QED  BY <1>2, <2>2 DEF Uids
<1>7. \A n \in Inbox : mail[n].uid \in Uids /\ mail'[n] = mail[n]
  BY <1>0, <1>1, UidKnown DEF Inbox
<1>8. UploadsCounted'
  <2>1. \A n \in Messages : mail'[n].at = "outside" \/ n \in Uncounted => uploads'[n] = 0
    BY <1>1, <1>2 DEF RepeatsInv, UploadsCounted
  <2>2. ASSUME NEW n \in Inbox'
        PROVE  \/ Uploaded(RecordOf(mail[n].uid))' \/ BeingUploaded(n)'
               \/ Within(n)'
    <3>1. CASE n = m
      BY <1>0, <1>2, <1>3, <3>1 DEF Within
    <3>2. CASE n \in Inbox
      BY <1>2, <1>3, <1>7, <3>2 DEF RepeatsInv, UploadsCounted, BeingUploaded, RecordOf, Uid,
                                    Within
    <3>. QED  BY <1>1, <3>1, <3>2
  <2>3. collector'.at \in {"attempted", "waiting", "answered"} => ~Uploaded(RecordOf(Uid))'
    BY <1>2 DEF RepeatsInv, UploadsCounted, RecordOf, Uid
  <2>4. ASSUME collector'.at \in InHand, collector'.job \in {"rejected", "invalid"},
               NEW n \in Inbox', mail'[n].uid = Uid'
        PROVE  n \in Uncounted
    BY <1>1, <1>2, <1>6, <1>7, <2>4 DEF RepeatsInv, UploadsCounted, Uid, Working
  <2>. QED  BY <2>1, <2>2, <2>3, <2>4 DEF UploadsCounted
<1>9. RestartCounted' /\ Bounded'
  BY <1>2, <1>3 DEF RepeatsInv, RestartCounted, Bounded, Within
<1>10. LateNotDue'
  <2>1. ASSUME collector.at \notin {"idle", "selected"}, NEW n \in Inbox'
        PROVE  LET row == RecordOf(mail[n].uid)'
               IN  \/ mail'[n].uid \in collector.all
                   \/ ~Uploaded(row) \/ ~IsDeleteDue(row.date)
                   \/ collector.at \in {"recorded", "seen"} /\ mail'[n].uid = Uid
    <3>1. CASE n = m
      BY <1>1, <1>2, <1>5, <3>1 DEF RecordOf
    <3>2. CASE n \in Inbox
      BY <1>2, <1>7, <2>1, <3>2 DEF RepeatsInv, LateNotDue, RecordOf
    <3>. QED  BY <1>1, <3>1, <3>2
  <2>. QED  BY <1>2, <2>1 DEF LateNotDue, IsDeleteDue, Uploaded, Uid
<1>11. DateRecorded'
  BY <1>1, <1>2, <1>6, <1>7 DEF RepeatsInv, DateRecorded, RecordOf, Uid, Working, InHand
<1>12. SweptAreListed'
  <2>1. \A i \in DOMAIN collector.todo : collector.todo[i] # lastUid + 1
    <3>1. \A i \in DOMAIN collector.todo :
             collector.todo[i] <= lastUid /\ collector.todo[i] \in Nat
      BY <1>0, UidsFinite DEF CollectorOK, ListKnown, Uids
    <3>. QED  BY <1>2, <3>1
  <2>. QED  BY <1>1, <1>2, <1>6, <1>7, <2>1 DEF RepeatsInv, SweptAreListed, Holds, Uid, Working
<1>. QED  BY <1>8, <1>9, <1>10, <1>11, <1>12 DEF RepeatsInv

\* A renumbering forgets every record, and is counted.
LEMMA RenumberRepeats ==
    ASSUME TypesInv, RepeatsInv, Renumber
    PROVE  RepeatsInv'
<1>0. RestOK /\ Budget \in Nat
  BY TypesParts, ImapAssumption DEF RestOK, Budget
<1>1. /\ Inbox' = Inbox
      /\ \A m \in Messages : mail'[m].at = mail[m].at
  BY RenumberTypes
<1>2. /\ collector'.at = "idle" /\ Budget' = Budget + 1
      /\ UNCHANGED <<uploads, restarting, faults>> /\ validity' = validity + 1
  BY <1>0 DEF Renumber, server, Budget, RestOK
<1>3. \A m \in Messages : uploads[m] \in Nat /\ uploads[m] <= 1 + Budget
  BY <1>0 DEF RestOK, RepeatsInv, Bounded, Budget
<1>4. \A m \in Messages : uploads'[m] <= Budget'
  BY <1>0, <1>2, <1>3
<1>5. UploadsCounted'
  BY <1>1, <1>2, <1>4 DEF UploadsCounted, RepeatsInv, InHand, Inbox, Within
<1>6. RestartCounted'
  BY <1>2, <1>4 DEF RestartCounted, Within
<1>7. Bounded'
  BY <1>0, <1>2, <1>3 DEF Bounded, Budget, RestOK
<1>8. LateNotDue' /\ DateRecorded' /\ SweptAreListed'
  BY <1>2 DEF LateNotDue, DateRecorded, SweptAreListed
<1>. QED  BY <1>5, <1>6, <1>7, <1>8 DEF RepeatsInv

\* With cycles shorter than a day, nothing falls due while the mailbox is worked on.
LEMMA RepeatsStep ==
    ASSUME ~SlowCycles
    PROVE  TypesInv /\ StoredInv /\ RepeatsInv /\ [Next]_vars => RepeatsInv'
<1>. SUFFICES ASSUME TypesInv, StoredInv, RepeatsInv, [Next]_vars PROVE RepeatsInv'
  OBVIOUS
<1>1. CASE CollectorStep
  BY <1>1, RepeatsSteps
<1>2. ASSUME UNCHANGED <<mailbox, record, server, collector, restarting, faults>>,
             now' = now \/ collector.at = "idle"
      PROVE  RepeatsInv'
  <2>1. UploadsCounted' /\ RestartCounted' /\ Bounded'
    BY <1>2 DEF RepeatsInv, UploadsCounted, RestartCounted, Bounded, mailbox, server,
                Inbox, RecordOf, BeingUploaded, Uid, Budget, Within
  <2>2. LateNotDue' /\ DateRecorded' /\ SweptAreListed'
    BY <1>2 DEF RepeatsInv, LateNotDue, DateRecorded, SweptAreListed, mailbox, Inbox, RecordOf,
                IsDeleteDue, Uid, Holds
  <2>. QED  BY <2>1, <2>2 DEF RepeatsInv
<1>3. CASE Tick
  BY <1>2, <1>3 DEF Tick
<1>4. CASE UNCHANGED vars
  BY <1>2, <1>4 DEF vars
<1>. QED
  BY <1>1, <1>3, <1>4, ArriveRepeats, RenumberRepeats DEF Next, World, CollectorStep

\* At first nothing has been uploaded.
LEMMA RepeatsInit == Init => RepeatsInv
<1>1. Init => /\ Inbox = {} /\ \A m \in Messages : uploads[m] = 0
              /\ Budget = 0 /\ collector.at = "idle" /\ ~Holds(Uid)
  BY DEF Init, Inbox, Outside, Budget, Idle, Holds
<1>. QED
  BY <1>1 DEF Init, RepeatsInv, UploadsCounted, RestartCounted, Bounded, LateNotDue,
              DateRecorded, SweptAreListed, InHand, Within

\* A report is uploaded again only on account of a failure, a renumbering or a blocked
\* queue, as long as no day ends within a cycle.
THEOREM RepeatsHaveCauses == ASSUME ~SlowCycles PROVE Spec => []RepeatsAreCaused
<1>1. TypesInv /\ RepeatsInv => RepeatsAreCaused
  BY TypesParts, ImapAssumption DEF RepeatsInv, Bounded, Budget, RepeatsAreCaused, RestOK
<1>. QED
  BY <1>1, TypesInit, TypesStep, StoredInit, StoredStep, RepeatsInit, RepeatsStep, PTL DEF Spec

=============================================================================
