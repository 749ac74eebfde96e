------------------------- MODULE DomainLifecycleProofs -------------------------
(***************************************************************************)
(* Proofs about DomainLifecycle for any number of domains, names, worker   *)
(* threads and retention periods.                                          *)
(***************************************************************************)
EXTENDS DomainLifecycle, TLAPS

\* The three invariants of the rows and of the calls in flight; together they
\* are inductive.
RowInv == TypeOK /\ CallsMatchRows /\ RetentionConsistent

LEMMA SecondsOfDays ==
  ASSUME NEW days \in RetentionDays
  PROVE  days * DayLength \in Nat
<1>1. \A a, b \in Nat : a * b \in Nat
  OBVIOUS
<1> QED BY <1>1, ConstantsAssumption

LEMMA DayNotShorter ==
  ASSUME NEW days \in RetentionDays
  PROVE  days * DayLength >= Second
<1>1. days \in Nat /\ days >= 1
  BY ConstantsAssumption
<1>2. \A a, b \in Nat : a >= 1 => a * b >= b
  OBVIOUS
<1>3. days * DayLength >= DayLength /\ days * DayLength \in Nat
  BY <1>1, <1>2, SecondsOfDays, ConstantsAssumption
<1> QED BY <1>3, ConstantsAssumption

\* What int() leaves of a time: less than a second is lost, and no whole second.
LEMMA WholeSecondsFact ==
  ASSUME NEW left \in Nat
  PROVE  /\ WholeSeconds(left) \in Nat
         /\ WholeSeconds(left) > left - Second
         /\ left >= Second => WholeSeconds(left) >= Second
<1>1. Second \in Nat /\ Second > 0
  BY ConstantsAssumption
<1>2. \A a, b \in Nat : b > 0 => /\ a % b \in 0..(b - 1) /\ a \div b \in Nat
                               /\ a = b * (a \div b) + (a % b)
  OBVIOUS
<1>3. PICK q \in Nat, m \in 0..(Second - 1) : left = Second * q + m /\ m = left % Second
  BY <1>1, <1>2
<1>4. \A a, b \in Nat : a * b \in Nat /\ (b >= 1 => a * b >= a) /\ (b = 0 => a * b = 0)
  OBVIOUS
<1>5. Second * q \in Nat /\ WholeSeconds(left) = Second * q
  BY <1>1, <1>3, <1>4 DEF WholeSeconds
<1>6. left >= Second => q >= 1
  BY <1>1, <1>3, <1>4
<1> QED BY <1>1, <1>3, <1>4, <1>5, <1>6

LEMMA SecondsUntilFact ==
  ASSUME now \in Nat, NEW instant \in Nat
  PROVE  /\ SecondsUntil(instant) \in Nat
         /\ SecondsUntil(instant) > (instant - now) - Second
         /\ instant >= now + Second => SecondsUntil(instant) >= Second
<1>1. Second \in Nat /\ Second > 0
  BY ConstantsAssumption
<1>2. CASE instant > now
  <2>1. instant - now \in Nat
    BY <1>2
  <2> QED BY <1>1, <1>2, <2>1, WholeSecondsFact DEF SecondsUntil
<1>3. CASE ~(instant > now)
  BY <1>1, <1>3 DEF SecondsUntil
<1> QED BY <1>2, <1>3

LEMMA InitRowInv == Init => RowInv
BY ConstantsAssumption
   DEF Init, RowInv, TypeOK, CallsMatchRows, CallMatchesRow, RetentionConsistent,
       Row, NewRow, Statuses, Call, Idle, RunnerState, RunnerReady, Exists

\* Starting a call: only handler changes, and only in h.
LEMMA BeginRowInv ==
  ASSUME RowInv, NEW h \in Handlers, NEW request, NEW call \in Call,
         Begin(h, request, call), CallMatchesRow(call),
         call.op = "create" => \A g \in Handlers : handler[g].id # call.id,
         call.op # "create" => domains[call.id].status # "unused"
  PROVE  RowInv'
<1> USE DEF RowInv, Begin, tables
<1>1. TypeOK'
  BY DEF TypeOK, Exists
<1>2. CallsMatchRows'
  BY DEF CallsMatchRows, CallMatchesRow, TypeOK, Call, Exists
<1>3. RetentionConsistent'
  BY DEF RetentionConsistent, Exists
<1> QED BY <1>1, <1>2, <1>3

LEMMA ReadRowInv ==
  ASSUME RowInv, NEW h \in Handlers, Read(h)
  PROVE  RowInv'
<1>1. PICK id \in Ids :
         \/ \E name \in Names : CreateCheck(h, id, name)
         \/ \E days \in RetentionDays \cup {Null} : ArchiveRead(h, id, days)
         \/ RestoreRead(h, id)
         \/ DeleteRead(h, id)
         \/ PauseRead(h, id)
         \/ UnpauseRead(h, id)
         \/ \E days \in RetentionDays : SetRetentionRead(h, id, days)
  BY DEF Read
<1> USE DEF Call, Operations, Idle, CallMatchesRow
<1>2. ASSUME NEW name \in Names, CreateCheck(h, id, name) PROVE RowInv'
  BY <1>2, BeginRowInv DEF CreateCheck
<1>3. ASSUME NEW days \in RetentionDays \cup {Null}, ArchiveRead(h, id, days)
      PROVE  RowInv'
  BY <1>3, BeginRowInv DEF ArchiveRead, RowInv, TypeOK, Exists
<1>4. CASE RestoreRead(h, id)
  BY <1>4, BeginRowInv DEF RestoreRead
<1>5. CASE DeleteRead(h, id)
  <2>1. domains[id].name \in Names
    BY <1>5 DEF DeleteRead, RowInv, TypeOK, Exists
  <2> QED BY <1>5, <2>1, BeginRowInv DEF DeleteRead
<1>6. CASE PauseRead(h, id)
  <2>1. SecondsUntil(domains[id].retention_delete_at) \in Nat
    BY <1>6, SecondsUntilFact DEF PauseRead, RowInv, TypeOK, Row
  <2> QED BY <1>6, <2>1, BeginRowInv DEF PauseRead
<1>7. CASE UnpauseRead(h, id)
  <2>1. domains[id].retention_remaining_seconds \in Nat \cup {Null}
    BY DEF RowInv, TypeOK, Row
  <2> QED BY <1>7, <2>1, BeginRowInv DEF UnpauseRead
<1>8. ASSUME NEW days \in RetentionDays, SetRetentionRead(h, id, days)
      PROVE  RowInv'
  <2>1. now + days * DayLength \in Nat
    BY SecondsOfDays DEF RowInv, TypeOK
  <2>2. CASE domains[id].retention_paused
    <3>1. domains[id].retention_delete_at # Null
      BY <1>8, <2>2 DEF SetRetentionRead, RowInv, RetentionConsistent, Exists
    <3> QED BY <1>8, <2>2, <3>1, BeginRowInv DEF SetRetentionRead
  <2>3. CASE ~domains[id].retention_paused
    BY <1>8, <2>1, <2>3, BeginRowInv DEF SetRetentionRead
  <2> QED BY <2>2, <2>3
<1> QED BY <1>1, <1>2, <1>3, <1>4, <1>5, <1>6, <1>7, <1>8

\* Writing a row that keeps its name and its deadline, or goes away, while calls
\* at most end.
LEMMA UpdateRowInv ==
  ASSUME RowInv, NEW id \in Ids, NEW row \in Row, Update(id, row),
         now' = now, runner' \in RunnerState,
         handler' \in [Handlers -> Call],
         \A h \in Handlers : handler'[h] = handler[h] \/ handler'[h] = Idle,
         reports' \subseteq Names \X Ids, details' \subseteq Names \X Ids,
         artifacts' \subseteq Names,
         Exists(id) => \/ row.status = "deleted"
                       \/ /\ row.status \in {"active", "archived"}
                          /\ row.name = domains[id].name
                          /\ row.retention_days = Null <=> row.retention_delete_at = Null
                          /\ row.retention_paused =>
                                /\ row.retention_delete_at # Null
                                /\ row.retention_remaining_seconds # Null
                          /\ domains[id].retention_delete_at # Null
                                => row.retention_delete_at # Null
  PROVE  RowInv'
<1> USE DEF RowInv, Update
<1>1. TypeOK'
  BY DEF TypeOK, Exists
<1>2. CallsMatchRows'
  <2>1. ASSUME NEW h \in Handlers PROVE CallMatchesRow(handler[h])'
    <3>1. CASE handler'[h] = Idle
      BY <3>1 DEF CallMatchesRow, Idle
    <3>2. CASE handler'[h] = handler[h]
      BY <3>2 DEF CallsMatchRows, CallMatchesRow, TypeOK, Exists
    <3> QED BY <3>1, <3>2
  <2>2. ASSUME NEW g \in Handlers, NEW h \in Handlers,
               handler'[h].op = "create", handler'[g].id = handler'[h].id
        PROVE  g = h
    <3>1. handler'[h] = handler[h]
      BY <2>2 DEF Idle
    <3>2. handler[h].id \in Ids
      BY <2>2, <3>1 DEF CallsMatchRows, CallMatchesRow
    <3>3. handler'[g] = handler[g]
      BY <2>2, <3>1, <3>2, ConstantsAssumption DEF Idle
    <3> QED BY <2>2, <3>1, <3>3 DEF CallsMatchRows
  <2> QED BY <2>1, <2>2 DEF CallsMatchRows
<1>3. RetentionConsistent'
  BY DEF RetentionConsistent, TypeOK, Exists
<1> QED BY <1>1, <1>2, <1>3

\* The write of a call, once its row and the freed handler are well-formed.
LEMMA FinishHandler ==
  ASSUME RowInv, NEW h \in Handlers, NEW op, Finish(h, op)
  PROVE  /\ now' = now /\ runner' \in RunnerState
         /\ handler' \in [Handlers -> Call]
         /\ \A g \in Handlers : handler'[g] = handler[g] \/ handler'[g] = Idle
         /\ op \notin {"idle", "create"} => handler[h].id \in Ids
BY DEF RowInv, TypeOK, Finish, Idle, Call, CallsMatchRows, CallMatchesRow

LEMMA NewRowType ==
  ASSUME NEW name \in Names \cup {Null}, NEW status \in Statuses
  PROVE  NewRow(name, status) \in Row
BY DEF NewRow, Row

LEMMA PurgeRowInv ==
  ASSUME RowInv, NEW id \in Ids, NEW name, PurgeDomainData(id, name),
         now' = now, runner' \in RunnerState, handler' \in [Handlers -> Call],
         \A h \in Handlers : handler'[h] = handler[h] \/ handler'[h] = Idle
  PROVE  RowInv'
<1>1. NewRow(Null, "deleted") \in Row /\ NewRow(Null, "deleted").status = "deleted"
  BY NewRowType DEF Statuses, NewRow
<1>2. /\ reports' \subseteq Names \X Ids /\ details' \subseteq Names \X Ids
      /\ artifacts' \subseteq Names
  BY DEF PurgeDomainData, RowInv, TypeOK
<1> QED BY <1>1, <1>2, UpdateRowInv DEF PurgeDomainData

LEMMA CreateInsertRowInv ==
  ASSUME RowInv, NEW h \in Handlers, CreateInsert(h)
  PROVE  RowInv'
<1> DEFINE c == handler[h]
<1>1. /\ c.id \in Ids /\ c.name \in Names /\ domains[c.id].status = "unused"
      /\ \A g \in Handlers : handler[g].id = c.id => g = h
  BY DEF CreateInsert, Finish, RowInv, CallsMatchRows, CallMatchesRow
<1>2. NewRow(c.name, "active") \in Row
  BY <1>1, NewRowType DEF Statuses
<1>3. TypeOK'
  BY <1>1, <1>2 DEF CreateInsert, Finish, RowInv, TypeOK, Exists, NewRow, Call, Idle
<1>4. CallsMatchRows'
  <2>1. ASSUME NEW g \in Handlers PROVE CallMatchesRow(handler[g])'
    <3>1. CASE g = h
      BY <3>1 DEF CreateInsert, Finish, RowInv, TypeOK, CallMatchesRow, Idle
    <3>2. CASE g # h
      <4>1. handler'[g] = handler[g] /\ handler[g].id # c.id
        BY <1>1, <3>2 DEF CreateInsert, Finish, RowInv, TypeOK
      <4> QED
        BY <1>1, <4>1 DEF CreateInsert, RowInv, TypeOK, CallsMatchRows, CallMatchesRow, Exists
    <3> QED BY <3>1, <3>2
  <2>2. ASSUME NEW g \in Handlers, NEW k \in Handlers,
               handler'[k].op = "create", handler'[g].id = handler'[k].id
        PROVE  g = k
    BY <1>1, <2>2, ConstantsAssumption
       DEF CreateInsert, Finish, RowInv, TypeOK, CallsMatchRows, CallMatchesRow, Idle
  <2> QED BY <2>1, <2>2 DEF CallsMatchRows
<1>5. RetentionConsistent'
  BY <1>1 DEF CreateInsert, RowInv, TypeOK, RetentionConsistent, Exists, NewRow
<1> QED BY <1>3, <1>4, <1>5 DEF RowInv

LEMMA WriteRowInv ==
  ASSUME RowInv, NEW h \in Handlers, Write(h)
  PROVE  RowInv'
<1> DEFINE c == handler[h]
           d == domains[c.id]
<1>0. /\ reports \subseteq Names \X Ids /\ details \subseteq Names \X Ids
      /\ artifacts \subseteq Names
      /\ CallMatchesRow(c) /\ (c.id \in Ids => d \in Row)
      /\ c \in Call
  BY DEF RowInv, TypeOK, CallsMatchRows
<1>1. CASE CreateInsert(h)
  BY <1>1, CreateInsertRowInv
<1>2. CASE ArchiveWrite(h)
  <2>1. c.id \in Ids /\ c.time \in Nat /\ c.days \in RetentionDays \cup {Null}
    BY <1>0, <1>2 DEF ArchiveWrite, Finish, CallMatchesRow, Call
  <2>2. c.days # Null => c.time + c.days * DayLength \in Nat
    BY <2>1, SecondsOfDays
  <2>3. Archived(d, c.time, c.days) \in Row
    BY <1>0, <2>1, <2>2 DEF Archived, Row, Statuses
  <2>4. Exists(c.id) =>
          LET r == Archived(d, c.time, c.days) IN
          /\ r.status = "archived" /\ r.name = d.name
          /\ r.retention_days = Null <=> r.retention_delete_at = Null
          /\ r.retention_paused => r.retention_delete_at # Null
                                   /\ r.retention_remaining_seconds # Null
          /\ d.retention_delete_at # Null => r.retention_delete_at # Null
    BY <1>0, <2>1, <2>2, ConstantsAssumption
       DEF Archived, Row, RowInv, RetentionConsistent
  <2> QED BY <1>0, <1>2, <2>1, <2>3, <2>4, FinishHandler, UpdateRowInv DEF ArchiveWrite
<1>3. CASE RestoreWrite(h)
  <2>1. c.id \in Ids
    BY <1>0, <1>3 DEF RestoreWrite, Finish, CallMatchesRow
  <2>2. Restored(d) \in Row
    BY <1>0, <2>1 DEF Restored, Row, Statuses
  <2>3. Exists(c.id) =>
          LET r == Restored(d) IN
          /\ r.status = "active" /\ r.name = d.name
          /\ r.retention_days = Null <=> r.retention_delete_at = Null
          /\ r.retention_paused => r.retention_delete_at # Null
                                   /\ r.retention_remaining_seconds # Null
          /\ d.retention_delete_at # Null => r.retention_delete_at # Null
    BY <1>0, <2>1 DEF Restored, Row, RowInv, RetentionConsistent
  <2> QED BY <1>0, <1>3, <2>1, <2>2, <2>3, FinishHandler, UpdateRowInv DEF RestoreWrite
<1>4. CASE DeleteWrite(h)
  BY <1>4, FinishHandler, PurgeRowInv DEF DeleteWrite
<1>5. CASE PauseWrite(h)
  <2> DEFINE r == [d EXCEPT !.retention_paused = TRUE,
                            !.retention_remaining_seconds = c.time]
  <2>1. c.id \in Ids /\ c.time \in Nat /\ (Exists(c.id) => d.retention_delete_at # Null)
    BY <1>0, <1>5 DEF PauseWrite, Finish, CallMatchesRow
  <2>2. r \in Row
    BY <1>0, <2>1 DEF Row
  <2>3. Exists(c.id) =>
          /\ r.status \in {"active", "archived"} /\ r.name = d.name
          /\ r.retention_days = Null <=> r.retention_delete_at = Null
          /\ r.retention_delete_at # Null /\ r.retention_remaining_seconds # Null
    BY <1>0, <2>1, ConstantsAssumption DEF Row, RowInv, RetentionConsistent, Exists
  <2> QED BY <1>0, <1>5, <2>1, <2>2, <2>3, FinishHandler, UpdateRowInv DEF PauseWrite
<1>6. CASE UnpauseCheck(h)
  <2>1. c.id \in Ids /\ d.status # "unused" /\ d \in Row
    BY <1>0, <1>6 DEF UnpauseCheck, CallMatchesRow
  <2> DEFINE remaining == IF c.time = Null THEN 0 ELSE c.time
             u == [c EXCEPT !.op = "unpause", !.time = now + remaining]
  <2>2. now + remaining \in Nat
    BY <1>0 DEF Call, RowInv, TypeOK
  <2>5. domains' = domains
    BY <1>6 DEF UnpauseCheck, tables
  <2>3. CASE Exists(c.id) /\ d.retention_paused
    <3>1. handler' = [handler EXCEPT ![h] = u]
      BY <1>6, <2>3 DEF UnpauseCheck
    <3>2. u \in Call /\ u.op = "unpause" /\ u.id = c.id /\ u.time \in Nat
      BY <1>0, <2>2 DEF Call, Operations
    <3>3. d.retention_delete_at # Null
      BY <2>1, <2>3 DEF RowInv, RetentionConsistent
    <3>4. CallsMatchRows'
      <4>1. /\ handler'[h] = u
            /\ \A g \in Handlers \ {h} : handler'[g] = handler[g]
        BY <3>1 DEF RowInv, TypeOK
      <4>2. ASSUME NEW g \in Handlers PROVE CallMatchesRow(handler[g])'
        BY <2>1, <2>5, <3>2, <3>3, <4>1
           DEF RowInv, CallsMatchRows, CallMatchesRow, Exists
      <4>3. ASSUME NEW g \in Handlers, NEW k \in Handlers,
                   handler'[k].op = "create", handler'[g].id = handler'[k].id
            PROVE  g = k
        <5>1. k # h /\ handler'[k] = handler[k] /\ handler'[g].id = handler[g].id
          BY <3>2, <4>1, <4>3
        <5> QED BY <4>3, <5>1 DEF RowInv, CallsMatchRows
      <4> QED BY <4>2, <4>3 DEF CallsMatchRows
    <3>5. TypeOK' /\ RetentionConsistent'
      BY <1>6, <3>1, <3>2
         DEF UnpauseCheck, tables, RowInv, TypeOK, RetentionConsistent, Exists
    <3> QED BY <3>4, <3>5 DEF RowInv
  <2>4. CASE ~(Exists(c.id) /\ d.retention_paused)
    <3>1. handler' = [handler EXCEPT ![h] = Idle]
      BY <1>6, <2>4 DEF UnpauseCheck
    <3>2. CallsMatchRows'
      <4>1. /\ handler'[h] = Idle
            /\ \A g \in Handlers \ {h} : handler'[g] = handler[g]
        BY <3>1 DEF RowInv, TypeOK
      <4>2. ASSUME NEW g \in Handlers PROVE CallMatchesRow(handler[g])'
        BY <2>5, <4>1 DEF RowInv, CallsMatchRows, CallMatchesRow, Exists, Idle
      <4>3. ASSUME NEW g \in Handlers, NEW k \in Handlers,
                   handler'[k].op = "create", handler'[g].id = handler'[k].id
            PROVE  g = k
        BY <4>1, <4>3, ConstantsAssumption
           DEF RowInv, CallsMatchRows, CallMatchesRow, Idle
      <4> QED BY <4>2, <4>3 DEF CallsMatchRows
    <3>3. TypeOK' /\ RetentionConsistent'
      BY <1>6, <3>1
         DEF UnpauseCheck, tables, RowInv, TypeOK, RetentionConsistent, Exists, Idle, Call
    <3> QED BY <3>2, <3>3 DEF RowInv
  <2> QED BY <2>3, <2>4
<1>7. CASE UnpauseWrite(h)
  <2> DEFINE r == [d EXCEPT !.retention_paused = FALSE, !.retention_delete_at = c.time]
  <2>1. c.id \in Ids /\ c.time \in Nat /\ (Exists(c.id) => d.retention_delete_at # Null)
    BY <1>0, <1>7 DEF UnpauseWrite, Finish, CallMatchesRow
  <2>2. r \in Row
    BY <1>0, <2>1 DEF Row
  <2>3. Exists(c.id) =>
          /\ r.status \in {"active", "archived"} /\ r.name = d.name
          /\ r.retention_days = Null <=> r.retention_delete_at = Null
          /\ ~r.retention_paused /\ r.retention_delete_at # Null
    BY <1>0, <2>1, ConstantsAssumption DEF Row, RowInv, RetentionConsistent, Exists
  <2> QED BY <1>0, <1>7, <2>1, <2>2, <2>3, FinishHandler, UpdateRowInv DEF UnpauseWrite
<1>8. CASE SetRetentionWrite(h)
  <2> DEFINE r == [d EXCEPT !.retention_days = c.days, !.retention_delete_at = c.time]
  <2>1. c.id \in Ids /\ c.time \in Nat /\ c.days \in RetentionDays
    BY <1>0, <1>8 DEF SetRetentionWrite, Finish, CallMatchesRow
  <2>2. r \in Row
    BY <1>0, <2>1 DEF Row
  <2>3. Exists(c.id) =>
          /\ r.status \in {"active", "archived"} /\ r.name = d.name
          /\ r.retention_days # Null /\ r.retention_delete_at # Null
          /\ r.retention_paused => r.retention_remaining_seconds # Null
    BY <1>0, <2>1, ConstantsAssumption DEF Row, RowInv, RetentionConsistent, Exists
  <2> QED BY <1>0, <1>8, <2>1, <2>2, <2>3, FinishHandler, UpdateRowInv DEF SetRetentionWrite
<1>9. CASE SetRemainingWrite(h)
  <2> DEFINE r == [d EXCEPT !.retention_days = c.days,
                            !.retention_remaining_seconds = c.days * DayLength]
  <2>1. /\ c.id \in Ids /\ c.days \in RetentionDays
        /\ Exists(c.id) => d.retention_delete_at # Null
    BY <1>0, <1>9 DEF SetRemainingWrite, Finish, CallMatchesRow
  <2>2. c.days * DayLength \in Nat
    BY <2>1, SecondsOfDays
  <2>3. r \in Row
    BY <1>0, <2>1, <2>2 DEF Row
  <2>4. Exists(c.id) =>
          /\ r.status \in {"active", "archived"} /\ r.name = d.name
          /\ r.retention_days # Null /\ r.retention_delete_at # Null
          /\ r.retention_remaining_seconds # Null
    BY <1>0, <2>1, <2>2, ConstantsAssumption DEF Row, RowInv, RetentionConsistent, Exists
  <2> QED BY <1>0, <1>9, <2>1, <2>3, <2>4, FinishHandler, UpdateRowInv DEF SetRemainingWrite
<1> QED BY <1>1, <1>2, <1>3, <1>4, <1>5, <1>6, <1>7, <1>8, <1>9 DEF Write

\* Steps of the runner and of the environment that leave rows and calls alone.
LEMMA RowsUntouched ==
  ASSUME RowInv, domains' = domains, handler' = handler, now' \in Nat,
         runner' \in RunnerState, reports' \subseteq Names \X Ids,
         details' \subseteq Names \X Ids, artifacts' \subseteq Names
  PROVE  RowInv'
BY DEF RowInv, TypeOK, CallsMatchRows, CallMatchesRow, RetentionConsistent, Exists

LEMMA RunnerReadyType == RunnerReady \in RunnerState
BY DEF RunnerReady, RunnerState

LEMMA IngestRowInv ==
  ASSUME RowInv, Ingest
  PROVE  RowInv'
<1> USE DEF RowInv, TypeOK, RunnerState, tables
<1>1. ASSUME NEW name \in Names, NEW id \in Ids, IngestCheck(name, id) PROVE RowInv'
  BY <1>1, RowsUntouched DEF IngestCheck
<1>2. CASE IngestStore
  <2>1. runner.name \in Names /\ runner.id \in Ids /\ runner' \in RunnerState
    BY <1>2 DEF IngestStore
  <2> QED BY <1>2, <2>1, RowsUntouched DEF IngestStore
<1>3. CASE ArchiveStore
  BY <1>3, RowsUntouched, RunnerReadyType DEF ArchiveStore
<1>4. CASE IngestSkip \/ EndJob
  BY <1>4, RowsUntouched DEF IngestSkip, EndJob, RunnerReady
<1> QED BY <1>1, <1>2, <1>3, <1>4 DEF Ingest

LEMMA PurgePassRowInv ==
  ASSUME RowInv, SelectDue \/ Purge \/ PurgeAbort
  PROVE  RowInv'
<1>1. CASE SelectDue
  <2> DEFINE due == {<<id, domains[id].name>> : id \in {i \in Ids : Due(i)}}
  <2>1. due \subseteq Ids \X Names
    BY DEF Due, RowInv, TypeOK, Exists
  <2>2. runner' \in RunnerState
    BY <1>1, <2>1, RunnerReadyType DEF SelectDue, RunnerReady, RunnerState
  <2> QED BY <1>1, <2>2, RowsUntouched DEF SelectDue, RowInv, TypeOK, tables
<1>2. ASSUME NEW id \in Ids, NEW name \in Names, PurgeNext(id, name) PROVE RowInv'
  <2>1. runner' \in RunnerState
    BY <1>2, RunnerReadyType DEF PurgeNext, RowInv, TypeOK, RunnerState
  <2> QED BY <1>2, <2>1, PurgeRowInv DEF PurgeNext, RowInv, TypeOK
<1>3. CASE PurgeAbort
  BY <1>3, RowsUntouched, RunnerReadyType DEF PurgeAbort, RowInv, TypeOK, tables
<1> QED BY <1>1, <1>2, <1>3 DEF Purge

LEMMA RestartRowInv ==
  ASSUME RowInv, Restart
  PROVE  RowInv'
BY RunnerReadyType, ConstantsAssumption
   DEF Restart, tables, RowInv, TypeOK, CallsMatchRows, CallMatchesRow,
       RetentionConsistent, Exists, Idle, Call

LEMMA TickRowInv ==
  ASSUME RowInv, Tick
  PROVE  RowInv'
BY RowsUntouched DEF Tick, tables, RowInv, TypeOK

LEMMA NextRowInv == RowInv /\ [Next]_vars => RowInv'
<1> SUFFICES ASSUME RowInv, [Next]_vars PROVE RowInv'
  OBVIOUS
<1>1. ASSUME NEW h \in Handlers, Read(h) \/ Write(h) PROVE RowInv'
  BY <1>1, ReadRowInv, WriteRowInv
<1>2. CASE UNCHANGED vars
  BY <1>2, RowsUntouched DEF vars, tables, RowInv, TypeOK
<1> QED
  BY <1>1, <1>2, IngestRowInv, PurgePassRowInv, RestartRowInv, TickRowInv DEF Next

LEMMA RowInvariant == Spec => []RowInv
BY InitRowInv, NextRowInv, PTL DEF Spec

\* Every reachable state is well typed: in particular no stored deadline or
\* remainder is ever negative, and existing rows carry real names.
THEOREM TypeCorrect == Spec => []TypeOK
BY RowInvariant, PTL DEF RowInv

\* What any call in flight is about to write fits the row it will meet, for any
\* number of worker threads.
THEOREM CallsAlwaysMatchRows == Spec => []CallsMatchRows
BY RowInvariant, PTL DEF RowInv

\* However the calls race, a paused domain keeps its deadline and the remainder
\* unpause_retention counts from, and deadline and period come together.
THEOREM RetentionAlwaysConsistent == Spec => []RetentionConsistent
BY RowInvariant, PTL DEF RowInv

-------------------------------------------------------------------------------
(* How rows come, change and go.                                           *)

\* The row of id keeps its name and stays where it is, except that an existing
\* one may be archived, or restored by a RestoreWrite.
Kept(id) ==
    /\ domains'[id].name = domains[id].name
    /\ \/ domains'[id].status = domains[id].status
       \/ Exists(id) /\ domains'[id].status = "archived"
       \/ /\ \E h \in Handlers : RestoreWrite(h)
          /\ Exists(id) /\ domains'[id].status = "active"

LEMMA UpdateKeeps ==
  ASSUME RowInv, NEW id \in Ids, NEW row, Update(id, row),
         Exists(id) => /\ row.name = domains[id].name
                       /\ \/ row.status \in {domains[id].status, "archived"}
                          \/ row.status = "active" /\ \E h \in Handlers : RestoreWrite(h),
         NEW i \in Ids
  PROVE  Kept(i)
BY DEF Kept, Update, RowInv, TypeOK

\* Only an insert, a delete and a purge make or remove a row.
LEMMA RowEvolution ==
  ASSUME RowInv, [Next]_vars, NEW i \in Ids,
         ~\E h \in Handlers : CreateInsert(h) \/ DeleteWrite(h), ~Purge
  PROVE  Kept(i)
<1>1. ASSUME NEW h \in Handlers, Write(h) PROVE Kept(i)
  <2> DEFINE c == handler[h]
             d == domains[c.id]
  <2>0. CallMatchesRow(c) /\ (c.id \in Ids => d \in Row)
    BY DEF RowInv, TypeOK, CallsMatchRows
  <2>1. CASE ArchiveWrite(h)
    <3>1. /\ c.id \in Ids
          /\ Archived(d, c.time, c.days).name = d.name
          /\ Archived(d, c.time, c.days).status = "archived"
      BY <2>0, <2>1 DEF ArchiveWrite, Finish, CallMatchesRow, Archived, Row
    <3> QED BY <2>1, <3>1, UpdateKeeps DEF ArchiveWrite
  <2>2. CASE RestoreWrite(h)
    <3>1. c.id \in Ids /\ Restored(d).name = d.name /\ Restored(d).status = "active"
      BY <2>0, <2>2 DEF RestoreWrite, Finish, CallMatchesRow, Restored, Row
    <3> QED BY <2>2, <3>1, UpdateKeeps DEF RestoreWrite
  <2>3. CASE PauseWrite(h)
    <3> DEFINE r == [d EXCEPT !.retention_paused = TRUE,
                              !.retention_remaining_seconds = c.time]
    <3>1. c.id \in Ids /\ r.name = d.name /\ r.status = d.status
      BY <2>0, <2>3 DEF PauseWrite, Finish, CallMatchesRow, Row
    <3> QED BY <2>3, <3>1, UpdateKeeps DEF PauseWrite, Exists
  <2>4. CASE UnpauseWrite(h)
    <3> DEFINE r == [d EXCEPT !.retention_paused = FALSE, !.retention_delete_at = c.time]
    <3>1. c.id \in Ids /\ r.name = d.name /\ r.status = d.status
      BY <2>0, <2>4 DEF UnpauseWrite, Finish, CallMatchesRow, Row
    <3> QED BY <2>4, <3>1, UpdateKeeps DEF UnpauseWrite, Exists
  <2>5. CASE SetRetentionWrite(h)
    <3> DEFINE r == [d EXCEPT !.retention_days = c.days, !.retention_delete_at = c.time]
    <3>1. c.id \in Ids /\ r.name = d.name /\ r.status = d.status
      BY <2>0, <2>5 DEF SetRetentionWrite, Finish, CallMatchesRow, Row
    <3> QED BY <2>5, <3>1, UpdateKeeps DEF SetRetentionWrite, Exists
  <2>6. CASE SetRemainingWrite(h)
    <3> DEFINE r == [d EXCEPT !.retention_days = c.days,
                              !.retention_remaining_seconds = c.days * DayLength]
    <3>1. c.id \in Ids /\ r.name = d.name /\ r.status = d.status
      BY <2>0, <2>6 DEF SetRemainingWrite, Finish, CallMatchesRow, Row
    <3> QED BY <2>6, <3>1, UpdateKeeps DEF SetRemainingWrite, Exists
  <2>7. CASE UnpauseCheck(h)
    BY <2>7 DEF UnpauseCheck, tables, Kept
  <2> QED BY <1>1, <2>1, <2>2, <2>3, <2>4, <2>5, <2>6, <2>7 DEF Write
<1>2. ASSUME NEW h \in Handlers, Read(h) PROVE domains' = domains
  BY <1>2 DEF Read, CreateCheck, ArchiveRead, RestoreRead, DeleteRead, PauseRead,
              UnpauseRead, SetRetentionRead, Begin, tables
<1>3. CASE Ingest \/ SelectDue \/ PurgeAbort \/ Restart \/ Tick \/ UNCHANGED vars
  BY <1>3 DEF Ingest, IngestCheck, IngestStore, ArchiveStore, IngestSkip, EndJob, SelectDue,
              PurgeAbort, Restart, Tick, tables, vars, Kept
<1> QED BY <1>1, <1>2, <1>3 DEF Next, Kept

LEMMA PurgeRemoves ==
  ASSUME RowInv, NEW id \in Ids, NEW name, PurgeDomainData(id, name), NEW i \in Ids
  PROVE  /\ i # id => domains'[i] = domains[i]
         /\ ~Exists(id)'
         /\ Exists(id) => domains'[id].status = "deleted"
         /\ ~Exists(id) => domains' = domains
BY DEF PurgeDomainData, Update, NewRow, Exists, RowInv, TypeOK

LEMMA DeleteWriteIds ==
  ASSUME RowInv, NEW h \in Handlers, DeleteWrite(h)
  PROVE  handler[h].id \in Ids /\ PurgeDomainData(handler[h].id, handler[h].name)
BY DEF DeleteWrite, Finish, RowInv, CallsMatchRows, CallMatchesRow

LEMMA CreateInsertEffect ==
  ASSUME RowInv, NEW h \in Handlers, CreateInsert(h)
  PROVE  /\ handler[h].id \in Ids /\ ~Exists(handler[h].id)
         /\ \/ domains' = domains
            \/ /\ ~Taken(handler[h].name)
               /\ domains' = [domains EXCEPT
                                 ![handler[h].id] = NewRow(handler[h].name, "active")]
BY DEF CreateInsert, Finish, RowInv, CallsMatchRows, CallMatchesRow, Exists

LEMMA CreateInsertUndrawn ==
  ASSUME RowInv, NEW h \in Handlers, CreateInsert(h)
  PROVE  domains[handler[h].id].status = "unused"
BY DEF CreateInsert, Finish, RowInv, CallsMatchRows, CallMatchesRow

\* Of the creates that race for a name at most one leaves a row, for any number
\* of them.
THEOREM NamesAlwaysUnique == Spec => []NamesUnique
<1>1. Init => NamesUnique
  BY DEF Init, NamesUnique, Exists, NewRow
<1>2. RowInv /\ NamesUnique /\ [Next]_vars => NamesUnique'
  <2> SUFFICES ASSUME RowInv, NamesUnique, [Next]_vars,
                      NEW i \in Ids, NEW j \in Ids,
                      Exists(i)', Exists(j)', domains'[i].name = domains'[j].name
               PROVE  i = j
    BY DEF NamesUnique
  <2>1. ASSUME NEW h \in Handlers, CreateInsert(h) PROVE i = j
    <3> DEFINE c == handler[h]
    <3>1. CASE domains' = domains
      BY <3>1 DEF NamesUnique, Exists
    <3>2. CASE /\ ~Taken(c.name)
               /\ domains' = [domains EXCEPT ![c.id] = NewRow(c.name, "active")]
      BY <3>2 DEF NamesUnique, Exists, Taken, NewRow, RowInv, TypeOK
    <3> QED BY <2>1, <3>1, <3>2, CreateInsertEffect
  <2>2. ASSUME NEW h \in Handlers, DeleteWrite(h) PROVE i = j
    BY <2>2, DeleteWriteIds, PurgeRemoves DEF NamesUnique, Exists
  <2>3. ASSUME NEW id \in Ids, NEW name \in Names, PurgeNext(id, name) PROVE i = j
    BY <2>3, PurgeRemoves DEF PurgeNext, NamesUnique, Exists
  <2>4. CASE /\ ~\E h \in Handlers : CreateInsert(h) \/ DeleteWrite(h)
             /\ ~Purge
    BY <2>4, RowEvolution DEF Kept, NamesUnique, Exists
  <2> QED BY <2>1, <2>2, <2>3, <2>4 DEF Purge
<1> QED BY <1>1, <1>2, RowInvariant, PTL DEF Spec

-------------------------------------------------------------------------------
(* Reports and rows, where no super-admin deletes by hand.  The runner does *)
(* its own purges between its ingest jobs, never between the domain check  *)
(* and the insert of a report.                                             *)

Never(op) == \A h \in Handlers : handler[h].op # op

LEMMA NeverStep ==
  ASSUME NEW op \in {"delete", "restore"}, op \notin Requests,
         RowInv, Never(op), [Next]_vars
  PROVE  Never(op)'
<1> SUFFICES ASSUME NEW h \in Handlers PROVE handler'[h].op # op
  BY DEF Never
<1>0. handler[h].op # op /\ op # "idle" /\ op # "unpause" /\ handler \in [Handlers -> Call]
  BY DEF Never, RowInv, TypeOK
<1>1. ASSUME NEW g \in Handlers, Read(g) PROVE handler'[h].op # op
  <2>1. PICK id \in Ids :
           \/ \E name \in Names : CreateCheck(g, id, name)
           \/ \E days \in RetentionDays \cup {Null} : ArchiveRead(g, id, days)
           \/ RestoreRead(g, id)
           \/ DeleteRead(g, id)
           \/ PauseRead(g, id)
           \/ UnpauseRead(g, id)
           \/ \E days \in RetentionDays : SetRetentionRead(g, id, days)
    BY <1>1 DEF Read
  <2>2. ASSUME NEW name \in Names, CreateCheck(g, id, name) PROVE handler'[h].op # op
    BY <1>0, <2>2 DEF CreateCheck, Begin, Idle
  <2>3. ASSUME NEW days \in RetentionDays \cup {Null}, ArchiveRead(g, id, days)
        PROVE  handler'[h].op # op
    BY <1>0, <2>3 DEF ArchiveRead, Begin, Idle
  <2>4. CASE RestoreRead(g, id)
    BY <1>0, <2>4 DEF RestoreRead, Begin, Idle
  <2>5. CASE DeleteRead(g, id)
    BY <1>0, <2>5 DEF DeleteRead, Begin, Idle
  <2>6. CASE PauseRead(g, id)
    BY <1>0, <2>6 DEF PauseRead, Begin, Idle
  <2>7. CASE UnpauseRead(g, id)
    BY <1>0, <2>7 DEF UnpauseRead, Begin, Idle
  <2>8. ASSUME NEW days \in RetentionDays, SetRetentionRead(g, id, days)
        PROVE  handler'[h].op # op
    BY <1>0, <2>8 DEF SetRetentionRead, Begin, Idle
  <2> QED BY <2>1, <2>2, <2>3, <2>4, <2>5, <2>6, <2>7, <2>8
<1>2. ASSUME NEW g \in Handlers, Write(g) PROVE handler'[h].op # op
  <2>1. ASSUME NEW o, Finish(g, o) PROVE handler'[h].op # op
    BY <1>0, <2>1 DEF Finish, Idle
  <2>2. CASE UnpauseCheck(g)
    <3>1. handler'[h] = handler[h] \/ handler'[h] = Idle \/ handler'[h].op = "unpause"
      BY <1>0, <2>2 DEF UnpauseCheck, Call
    <3> QED BY <1>0, <3>1 DEF Idle
  <2> QED
    BY <1>2, <2>1, <2>2
       DEF Write, CreateInsert, ArchiveWrite, RestoreWrite, DeleteWrite, PauseWrite,
           UnpauseWrite, SetRetentionWrite, SetRemainingWrite
<1>3. CASE Restart
  BY <1>0, <1>3 DEF Restart, Idle
<1>4. CASE Ingest \/ SelectDue \/ Purge \/ PurgeAbort \/ Tick \/ UNCHANGED vars
  <2>1. handler' = handler
    BY <1>4 DEF Ingest, IngestCheck, IngestStore, ArchiveStore, IngestSkip, EndJob,
                SelectDue, Purge, PurgeNext, PurgeAbort, Tick, vars
  <2> QED BY <1>0, <2>1
<1> QED BY <1>1, <1>2, <1>3, <1>4 DEF Next

LEMMA NeverInit == \A op \in {"delete", "restore"} : Init => Never(op)
BY DEF Init, Never, Idle

LEMMA NeverDelete ==
  ASSUME "delete" \notin Requests
  PROVE  Spec => []Never("delete")
<1>1. Init => Never("delete")
  BY NeverInit
<1>2. RowInv /\ Never("delete") /\ [Next]_vars => Never("delete")'
  BY NeverStep
<1> QED BY <1>1, <1>2, RowInvariant, PTL DEF Spec

LEMMA NeverRestore ==
  ASSUME "restore" \notin Requests
  PROVE  Spec => []Never("restore")
<1>1. Init => Never("restore")
  BY NeverInit
<1>2. RowInv /\ Never("restore") /\ [Next]_vars => Never("restore")'
  BY NeverStep
<1> QED BY <1>1, <1>2, RowInvariant, PTL DEF Spec

\* ReportsHaveDomain with what the runner holds: a checked domain is still there,
\* and so is a row waiting to be purged, under the name it was selected with.
ReportInv ==
    /\ ReportsHaveDomain
    /\ runner.pc = "checked" => /\ Exists(runner.id)
                                /\ domains[runner.id].name = runner.name
    /\ \A i \in Ids, n \in Names : <<i, n>> \in runner.due =>
          Exists(i) /\ domains[i].name = n

LEMMA ReportStep ==
  ASSUME RowInv, ReportInv, [Next]_vars, Never("delete")
  PROVE  ReportInv'
<1>0. ASSUME NEW h \in Handlers PROVE ~DeleteWrite(h)
  BY DEF DeleteWrite, Finish, Never
<1>1. ASSUME NEW id \in Ids, NEW name \in Names, PurgeNext(id, name) PROVE ReportInv'
  <2>1. PurgeDomainData(id, name) /\ <<id, name>> \in runner.due /\ runner.pc = "purging"
    BY <1>1 DEF PurgeNext
  <2>2. ReportsHaveDomain'
    <3> SUFFICES ASSUME NEW r \in reports' PROVE Exists(r[2])' /\ domains'[r[2]].name = r[1]
      BY DEF ReportsHaveDomain
    <3>1. r \in reports /\ r[1] # name /\ r[2] \in Ids
      BY <2>1 DEF PurgeDomainData, RowInv, TypeOK
    <3>2. Exists(r[2]) /\ domains[r[2]].name = r[1]
      BY <3>1 DEF ReportInv, ReportsHaveDomain
    <3>3. r[2] # id
      BY <2>1, <3>1, <3>2 DEF ReportInv
    <3> QED BY <2>1, <3>1, <3>2, <3>3, PurgeRemoves DEF Exists
  <2>3. runner'.pc # "checked" /\ runner'.due \subseteq runner.due
    BY <1>1, <2>1 DEF PurgeNext, RunnerReady, RowInv, TypeOK, RunnerState
  <2>4. ASSUME NEW i \in Ids, NEW n \in Names, <<i, n>> \in runner'.due
        PROVE  Exists(i)' /\ domains'[i].name = n
    <3>1. <<i, n>> \in runner.due /\ <<i, n>> # <<id, name>>
      BY <1>1, <2>4 DEF PurgeNext, RunnerReady
    <3>2. Exists(i) /\ domains[i].name = n /\ i # id
      BY <2>1, <3>1 DEF ReportInv
    <3> QED BY <2>1, <3>2, PurgeRemoves DEF Exists
  <2> QED BY <2>2, <2>3, <2>4 DEF ReportInv
<1>2. ASSUME NEW h \in Handlers, CreateInsert(h) PROVE ReportInv'
  <2>1. reports' = reports /\ runner' = runner
    BY <1>2 DEF CreateInsert, Finish
  <2>2. ASSUME NEW i \in Ids, Exists(i)
        PROVE  domains'[i] = domains[i]
    BY <1>2, <2>2, CreateInsertEffect DEF RowInv, TypeOK
  <2>3. ReportsHaveDomain'
    BY <2>1, <2>2 DEF ReportInv, ReportsHaveDomain, Exists, RowInv, TypeOK
  <2>4. runner.pc = "checked" => runner.id \in Ids
    BY DEF RowInv, TypeOK, RunnerState
  <2>5. ASSUME NEW i \in Ids, NEW n \in Names, <<i, n>> \in runner.due
        PROVE  domains'[i] = domains[i]
    BY <2>2, <2>5 DEF ReportInv
  <2>6. runner.pc = "checked" => /\ Exists(runner.id)'
                                 /\ domains'[runner.id].name = runner.name
    BY <2>1, <2>2, <2>4 DEF ReportInv, Exists
  <2>7. \A i \in Ids, n \in Names : <<i, n>> \in runner.due =>
          Exists(i)' /\ domains'[i].name = n
    BY <2>5 DEF ReportInv, Exists
  <2> QED BY <2>1, <2>3, <2>6, <2>7 DEF ReportInv
<1>3. CASE /\ ~\E h \in Handlers : CreateInsert(h) \/ DeleteWrite(h)
           /\ ~Purge
  <2>1. ASSUME NEW i \in Ids
        PROVE  domains'[i].name = domains[i].name /\ (Exists(i)' <=> Exists(i))
    BY <1>3, RowEvolution DEF Kept, Exists
  <2>2. CASE /\ reports' = reports
             /\ runner'.pc = "checked" => /\ runner'.id \in Ids /\ Exists(runner'.id)
                                          /\ domains[runner'.id].name = runner'.name
             /\ \A i \in Ids, n \in Names : <<i, n>> \in runner'.due =>
                   Exists(i) /\ domains[i].name = n
    BY <2>1, <2>2 DEF ReportInv, ReportsHaveDomain, RowInv, TypeOK
  <2>3. CASE IngestStore
    <3>1. /\ runner.pc = "checked" /\ runner.id \in Ids
          /\ runner'.pc = "stored" /\ runner'.due = {}
          /\ reports' = reports \cup {<<runner.name, runner.id>>}
      BY <2>3 DEF IngestStore, RowInv, TypeOK, RunnerState
    <3>2. ReportsHaveDomain'
      BY <2>1, <3>1 DEF ReportInv, ReportsHaveDomain, RowInv, TypeOK
    <3> QED BY <3>1, <3>2 DEF ReportInv
  <2>4. CASE reports' = reports /\ runner' = runner
    <3>1. runner.pc = "checked" => runner.id \in Ids
      BY DEF RowInv, TypeOK, RunnerState
    <3> QED BY <2>2, <2>4, <3>1 DEF ReportInv
  <2>5. CASE reports' = reports /\ runner'.pc # "checked" /\ runner'.due = {}
    BY <2>2, <2>5
  <2>6. ASSUME NEW name \in Names, NEW id \in Ids, IngestCheck(name, id) PROVE ReportInv'
    <3>1. /\ reports' = reports /\ runner'.due = {}
          /\ runner'.id = id /\ runner'.name = name
          /\ Exists(id) /\ domains[id].name = name
      BY <2>6 DEF IngestCheck, tables, Exists, RowInv, TypeOK, RunnerState
    <3> QED BY <2>2, <3>1
  <2>7. CASE SelectDue
    <3> DEFINE due == {<<id, domains[id].name>> : id \in {i \in Ids : Due(i)}}
    <3>1. reports' = reports /\ runner'.pc # "checked" /\ runner'.due \in {{}, due}
      BY <2>7 DEF SelectDue, RunnerReady, tables
    <3>2. \A i \in Ids, n \in Names : <<i, n>> \in due =>
            domains[i].status = "archived" /\ domains[i].name = n
      BY DEF Due
    <3> QED BY <2>2, <3>1, <3>2 DEF Exists
  <2>8. CASE ArchiveStore \/ IngestSkip \/ EndJob \/ PurgeAbort \/ Restart
    BY <2>5, <2>8 DEF ArchiveStore, IngestSkip, EndJob, PurgeAbort, Restart, RunnerReady, tables
  <2>9. CASE Tick \/ UNCHANGED vars
    BY <2>4, <2>9 DEF Tick, vars, tables
  <2>10. ASSUME NEW h \in Handlers, Read(h) \/ Write(h)
         PROVE  reports' = reports /\ runner' = runner
    BY <1>0, <2>10
       DEF Read, CreateCheck, ArchiveRead, RestoreRead, DeleteRead, PauseRead, UnpauseRead,
           SetRetentionRead, Begin, tables, Write, CreateInsert, ArchiveWrite,
           RestoreWrite, PauseWrite, UnpauseCheck, UnpauseWrite, SetRetentionWrite,
           SetRemainingWrite, Finish
  <2> QED
    BY <1>3, <2>3, <2>4, <2>6, <2>7, <2>8, <2>9, <2>10 DEF Next, Ingest
<1> QED BY <1>0, <1>1, <1>2, <1>3 DEF Purge

LEMMA ReportInvariant ==
  ASSUME "delete" \notin Requests
  PROVE  Spec => []ReportInv
<1>1. Init => ReportInv
  BY DEF Init, ReportInv, ReportsHaveDomain, RunnerReady
<1>2. RowInv /\ ReportInv /\ Never("delete") /\ [Next]_vars => ReportInv'
  BY ReportStep
<1> QED BY <1>1, <1>2, NeverDelete, RowInvariant, PTL DEF Spec

\* If no super-admin deletes by hand, retention purges alone never leave reports
\* of a removed domain behind, for any number of threads: there is one runner
\* thread, and it never purges between the check and the insert of a report.
THEOREM ReportsAlwaysHaveDomain ==
  ASSUME "delete" \notin Requests
  PROVE  Spec => []ReportsHaveDomain
<1>1. ReportInv => ReportsHaveDomain
  BY DEF ReportInv
<1> QED BY <1>1, ReportInvariant, PTL

-------------------------------------------------------------------------------
(* Only archived domains go, where no super-admin restores.                *)

Doomed(id) == domains[id].status \in {"archived", "deleted"}

\* Whatever a deletion or a purge holds was archived when it was read, and
\* nothing but a restore takes it out of the archive alive.
PurgeInv ==
    /\ \A h \in Handlers : handler[h].op = "delete" => Doomed(handler[h].id)
    /\ \A i \in Ids, n \in Names : <<i, n>> \in runner.due => Doomed(i)

LEMMA DoomedStays ==
  ASSUME RowInv, [Next]_vars, Never("restore"), NEW i \in Ids, Doomed(i)
  PROVE  Doomed(i)'
<1>1. ASSUME NEW h \in Handlers PROVE ~RestoreWrite(h)
  BY DEF RestoreWrite, Finish, Never
<1>2. ASSUME NEW h \in Handlers, CreateInsert(h) PROVE Doomed(i)'
  BY <1>2, CreateInsertUndrawn, CreateInsertEffect DEF Doomed, RowInv, TypeOK
<1>3. ASSUME NEW id \in Ids, NEW name, PurgeDomainData(id, name) PROVE Doomed(i)'
  BY <1>3, PurgeRemoves DEF Doomed, Exists
<1>4. ASSUME NEW h \in Handlers, DeleteWrite(h) PROVE Doomed(i)'
  BY <1>3, <1>4, DeleteWriteIds
<1>5. CASE Purge
  BY <1>3, <1>5 DEF Purge, PurgeNext
<1>6. CASE (~\E h \in Handlers : CreateInsert(h) \/ DeleteWrite(h)) /\ ~Purge
  BY <1>1, <1>6, RowEvolution DEF Kept, Doomed, Exists
<1> QED BY <1>2, <1>4, <1>5, <1>6

LEMMA PurgeStep ==
  ASSUME RowInv, PurgeInv, [Next]_vars, Never("restore")
  PROVE  PurgeInv'
<1>0. /\ handler \in [Handlers -> Call]
      /\ \A h \in Handlers : handler[h].op = "delete" => handler[h].id \in Ids
  BY DEF RowInv, TypeOK, CallsMatchRows, CallMatchesRow
<1>1. ASSUME NEW h \in Handlers, handler'[h].op = "delete"
      PROVE  handler'[h].id \in Ids /\ Doomed(handler'[h].id)
  <2>1. CASE handler'[h] = handler[h]
    BY <1>0, <1>1, <2>1 DEF PurgeInv
  <2>2. ASSUME NEW g \in Handlers, Read(g), handler'[h] # handler[h]
        PROVE  handler'[h].id \in Ids /\ Doomed(handler'[h].id)
    <3>1. PICK id \in Ids :
             \/ \E name \in Names : CreateCheck(g, id, name)
             \/ \E days \in RetentionDays \cup {Null} : ArchiveRead(g, id, days)
             \/ RestoreRead(g, id)
             \/ DeleteRead(g, id)
             \/ PauseRead(g, id)
             \/ UnpauseRead(g, id)
             \/ \E days \in RetentionDays : SetRetentionRead(g, id, days)
      BY <2>2 DEF Read
    <3>2. CASE DeleteRead(g, id)
      BY <1>0, <2>2, <3>2 DEF DeleteRead, Begin, Idle, Doomed
    <3>3. CASE \E name \in Names : CreateCheck(g, id, name)
      BY <1>0, <1>1, <2>2, <3>3 DEF CreateCheck, Begin, Idle
    <3>4. CASE \E days \in RetentionDays \cup {Null} : ArchiveRead(g, id, days)
      BY <1>0, <1>1, <2>2, <3>4 DEF ArchiveRead, Begin, Idle
    <3>5. CASE RestoreRead(g, id) \/ PauseRead(g, id) \/ UnpauseRead(g, id)
      BY <1>0, <1>1, <2>2, <3>5
         DEF RestoreRead, PauseRead, UnpauseRead, Begin, Idle
    <3>6. CASE \E days \in RetentionDays : SetRetentionRead(g, id, days)
      BY <1>0, <1>1, <2>2, <3>6 DEF SetRetentionRead, Begin, Idle
    <3> QED BY <3>1, <3>2, <3>3, <3>4, <3>5, <3>6
  <2>3. ASSUME NEW g \in Handlers, Write(g) PROVE handler'[h] = handler[h]
    <3>1. ASSUME NEW o, Finish(g, o) PROVE handler'[h] = handler[h]
      BY <1>0, <1>1, <3>1 DEF Finish, Idle
    <3>2. CASE UnpauseCheck(g)
      <4>1. \/ handler'[h] = handler[h] \/ handler'[h] = Idle
            \/ handler'[h].op = "unpause"
        BY <1>0, <3>2 DEF UnpauseCheck, Call
      <4> QED BY <1>1, <4>1 DEF Idle
    <3> QED
      BY <2>3, <3>1, <3>2
         DEF Write, CreateInsert, ArchiveWrite, RestoreWrite, DeleteWrite, PauseWrite,
             UnpauseWrite, SetRetentionWrite, SetRemainingWrite
  <2>4. CASE Restart
    BY <1>1, <2>4 DEF Restart, Idle
  <2>5. CASE Ingest \/ SelectDue \/ Purge \/ PurgeAbort \/ Tick \/ UNCHANGED vars
    BY <2>1, <2>5
       DEF Ingest, IngestCheck, IngestStore, ArchiveStore, IngestSkip, EndJob, SelectDue, Purge,
           PurgeNext, PurgeAbort, Tick, vars
  <2> QED BY <2>1, <2>2, <2>3, <2>4, <2>5 DEF Next
<1>2. ASSUME NEW i \in Ids, NEW n \in Names, <<i, n>> \in runner'.due PROVE Doomed(i)
  <2>1. CASE <<i, n>> \in runner.due
    BY <2>1 DEF PurgeInv
  <2>2. CASE SelectDue
    <3> DEFINE due == {<<id, domains[id].name>> : id \in {j \in Ids : Due(j)}}
    <3>1. runner'.due \in {{}, due}
      BY <2>2 DEF SelectDue, RunnerReady
    <3> QED BY <1>2, <3>1 DEF Due, Doomed
  <2>3. ASSUME NEW id \in Ids, NEW name \in Names, PurgeNext(id, name)
        PROVE  runner'.due \subseteq runner.due
    BY <2>3 DEF PurgeNext, RunnerReady, RowInv, TypeOK, RunnerState
  <2>4. ASSUME NEW name \in Names, NEW id \in Ids, IngestCheck(name, id)
        PROVE  runner'.due = {}
    BY <2>4 DEF IngestCheck, RowInv, TypeOK, RunnerState
  <2>5. CASE IngestStore
    BY <1>2, <2>5 DEF IngestStore, RowInv, TypeOK, RunnerState
  <2>6. CASE ArchiveStore \/ IngestSkip \/ EndJob \/ PurgeAbort \/ Restart
    BY <1>2, <2>6 DEF ArchiveStore, IngestSkip, EndJob, PurgeAbort, Restart, RunnerReady
  <2>7. CASE Tick \/ UNCHANGED vars
    BY <1>2, <2>1, <2>7 DEF Tick, vars
  <2>8. ASSUME NEW h \in Handlers, Read(h) \/ Write(h) PROVE runner' = runner
    BY <2>8
       DEF Read, CreateCheck, ArchiveRead, RestoreRead, DeleteRead, PauseRead, UnpauseRead,
           SetRetentionRead, Begin, Write, CreateInsert, ArchiveWrite,
           RestoreWrite, DeleteWrite, PauseWrite, UnpauseCheck, UnpauseWrite,
           SetRetentionWrite, SetRemainingWrite, Finish
  <2> QED
    BY <1>2, <2>1, <2>2, <2>3, <2>4, <2>5, <2>6, <2>7, <2>8 DEF Next, Ingest, Purge
<1> QED BY <1>1, <1>2, DoomedStays DEF PurgeInv, Doomed

LEMMA PurgeInvariant ==
  ASSUME "restore" \notin Requests
  PROVE  Spec => []PurgeInv
<1>1. Init => PurgeInv
  BY DEF Init, PurgeInv, Idle, RunnerReady
<1>2. RowInv /\ PurgeInv /\ Never("restore") /\ [Next]_vars => PurgeInv'
  BY PurgeStep
<1> QED BY <1>1, <1>2, NeverRestore, RowInvariant, PTL DEF Spec

\* Deletions and purges that act on a check made earlier still remove archived
\* domains only, as long as nobody restores; DL_purge_restored shows that the
\* assumption is needed.
THEOREM OnlyArchivedAreDeleted ==
  ASSUME "restore" \notin Requests
  PROVE  Spec => OnlyArchivedDeleted
<1>1. RowInv /\ PurgeInv /\ [Next]_vars => GoneWasArchived
  <2> SUFFICES ASSUME RowInv, PurgeInv, [Next]_vars,
                      NEW i \in Ids, Exists(i), ~Exists(i)'
               PROVE  domains[i].status = "archived"
    BY DEF GoneWasArchived
  <2>1. ASSUME NEW h \in Handlers, CreateInsert(h) PROVE FALSE
    BY <2>1, CreateInsertEffect DEF Exists, NewRow, RowInv, TypeOK
  <2>2. ASSUME NEW h \in Handlers, DeleteWrite(h) PROVE domains[i].status = "archived"
    <3>1. Doomed(handler[h].id)
      BY <2>2 DEF PurgeInv, DeleteWrite, Finish
    <3> QED BY <2>2, <3>1, DeleteWriteIds, PurgeRemoves DEF Doomed, Exists
  <2>3. ASSUME NEW id \in Ids, NEW name \in Names, PurgeNext(id, name)
        PROVE  domains[i].status = "archived"
    <3>1. Doomed(id) /\ PurgeDomainData(id, name)
      BY <2>3 DEF PurgeInv, PurgeNext
    <3> QED BY <3>1, PurgeRemoves DEF Doomed, Exists
  <2>4. CASE (~\E h \in Handlers : CreateInsert(h) \/ DeleteWrite(h)) /\ ~Purge
    BY <2>4, RowEvolution DEF Kept, Exists
  <2> QED BY <2>1, <2>2, <2>3, <2>4 DEF Purge
<1> QED BY <1>1, RowInvariant, PurgeInvariant, PTL DEF Spec, OnlyArchivedDeleted

-------------------------------------------------------------------------------
(* What a purge takes, and the abstract store.                             *)

\* The reports a purge takes are those of the row it removes: it deletes by
\* name, but no other row that has reports has that name.
LEMMA PurgeTakesOwn ==
  ASSUME RowInv, ReportInv, NamesUnique,
         NEW id \in Ids, NEW name \in Names, PurgeNext(id, name),
         NEW r \in reports
  PROVE  r \in reports' <=> r[2] # id
<1>1. /\ Exists(id) /\ domains[id].name = name
      /\ reports' = {q \in reports : q[1] # name}
  BY DEF PurgeNext, PurgeDomainData, ReportInv
<1>2. r[2] \in Ids /\ Exists(r[2]) /\ domains[r[2]].name = r[1]
  BY DEF ReportInv, ReportsHaveDomain, RowInv, TypeOK
<1> QED BY <1>1, <1>2 DEF NamesUnique

LEMMA OnlyPurgeLoses ==
  ASSUME RowInv, ReportInv, [Next]_vars, Never("delete"), ~Purge
  PROVE  reports' = reports
         \/ /\ IngestStore
            /\ runner.id \in Ids /\ runner.name \in Names /\ Exists(runner.id)
            /\ reports' = reports \cup {<<runner.name, runner.id>>}
<1>0. ASSUME NEW h \in Handlers PROVE ~DeleteWrite(h)
  BY DEF DeleteWrite, Finish, Never
<1>1. ASSUME NEW h \in Handlers, Read(h) \/ Write(h) PROVE reports' = reports
  BY <1>0, <1>1
     DEF Read, CreateCheck, ArchiveRead, RestoreRead, DeleteRead, PauseRead, UnpauseRead,
         SetRetentionRead, Begin, tables, Write, CreateInsert, ArchiveWrite,
         RestoreWrite, PauseWrite, UnpauseCheck, UnpauseWrite, SetRetentionWrite,
         SetRemainingWrite
<1>2. CASE IngestStore
  BY <1>2 DEF IngestStore, ReportInv, RowInv, TypeOK, RunnerState
<1>3. CASE \/ \E name \in Names, id \in Ids : IngestCheck(name, id)
           \/ ArchiveStore \/ IngestSkip \/ EndJob \/ SelectDue \/ PurgeAbort \/ Restart \/ Tick
           \/ UNCHANGED vars
  BY <1>3 DEF IngestCheck, ArchiveStore, IngestSkip, EndJob, SelectDue, PurgeAbort,
              Restart, Tick, tables, vars
<1> QED BY <1>1, <1>2, <1>3 DEF Next, Ingest

\* Retention purges never take a report of a domain that stays, whatever names
\* are reused meanwhile, as long as nobody deletes by hand.
THEOREM DeletionAlwaysSparesOthers ==
  ASSUME "delete" \notin Requests
  PROVE  Spec => DeletionSparesOthers
<1>1. RowInv /\ ReportInv /\ NamesUnique /\ Never("delete") /\ [Next]_vars => LostWithDomain
  <2> SUFFICES ASSUME RowInv, ReportInv, NamesUnique, Never("delete"), [Next]_vars,
                      NEW r \in reports, r \notin reports'
               PROVE  ~Exists(r[2])'
    BY DEF LostWithDomain
  <2>1. Purge
    BY OnlyPurgeLoses
  <2>2. PICK id \in Ids, name \in Names : PurgeNext(id, name)
    BY <2>1 DEF Purge
  <2>3. r[2] = id
    BY <2>2, PurgeTakesOwn
  <2> QED BY <2>2, <2>3, PurgeRemoves DEF PurgeNext
<1> QED
  BY <1>1, RowInvariant, ReportInvariant, NamesAlwaysUnique, NeverDelete, PTL
     DEF Spec, DeletionSparesOthers

LEMMA UpdateStatus ==
  ASSUME RowInv, NEW id \in Ids, NEW row, Update(id, row)
  PROVE  StatusOf' = IF Exists(id) THEN [StatusOf EXCEPT ![id] = row.status] ELSE StatusOf
BY DEF StatusOf, Update, RowInv, TypeOK

LEMMA StatusSteady ==
  ASSUME RowInv, NEW h \in Handlers,
         \/ PauseWrite(h) \/ UnpauseWrite(h) \/ SetRetentionWrite(h) \/ SetRemainingWrite(h)
         \/ UnpauseCheck(h)
  PROVE  StatusOf' = StatusOf
<1> DEFINE c == handler[h]
           d == domains[c.id]
<1>1. ASSUME NEW row, c.id \in Ids, Update(c.id, row), row.status = d.status
      PROVE  StatusOf' = StatusOf
  BY <1>1, UpdateStatus DEF StatusOf
<1>2. CallMatchesRow(c) /\ (c.id \in Ids => d \in Row)
  BY DEF RowInv, TypeOK, CallsMatchRows
<1>3. CASE PauseWrite(h)
  <2> DEFINE r == [d EXCEPT !.retention_paused = TRUE,
                            !.retention_remaining_seconds = c.time]
  <2>1. c.id \in Ids /\ r.status = d.status
    BY <1>2, <1>3 DEF PauseWrite, Finish, CallMatchesRow, Row
  <2> QED BY <1>1, <1>3, <2>1 DEF PauseWrite
<1>4. CASE UnpauseWrite(h)
  <2> DEFINE r == [d EXCEPT !.retention_paused = FALSE, !.retention_delete_at = c.time]
  <2>1. c.id \in Ids /\ r.status = d.status
    BY <1>2, <1>4 DEF UnpauseWrite, Finish, CallMatchesRow, Row
  <2> QED BY <1>1, <1>4, <2>1 DEF UnpauseWrite
<1>5. CASE SetRetentionWrite(h)
  <2> DEFINE r == [d EXCEPT !.retention_days = c.days, !.retention_delete_at = c.time]
  <2>1. c.id \in Ids /\ r.status = d.status
    BY <1>2, <1>5 DEF SetRetentionWrite, Finish, CallMatchesRow, Row
  <2> QED BY <1>1, <1>5, <2>1 DEF SetRetentionWrite
<1>6. CASE SetRemainingWrite(h)
  <2> DEFINE r == [d EXCEPT !.retention_days = c.days,
                            !.retention_remaining_seconds = c.days * DayLength]
  <2>1. c.id \in Ids /\ r.status = d.status
    BY <1>2, <1>6 DEF SetRemainingWrite, Finish, CallMatchesRow, Row
  <2> QED BY <1>1, <1>6, <2>1 DEF SetRemainingWrite
<1>7. CASE UnpauseCheck(h)
  BY <1>7 DEF UnpauseCheck, tables, StatusOf
<1> QED BY <1>3, <1>4, <1>5, <1>6, <1>7

\* Only the runner writes what lies below a report, and nobody deletes it.
LEMMA DetailsSteady ==
  ASSUME [Next]_vars, ~IngestStore
  PROVE  details' = details
<1>1. ASSUME NEW h \in Handlers, Read(h) \/ Write(h) PROVE details' = details
  BY <1>1
     DEF Read, CreateCheck, ArchiveRead, RestoreRead, DeleteRead, PauseRead, UnpauseRead,
         SetRetentionRead, Begin, tables, Write, CreateInsert, ArchiveWrite,
         RestoreWrite, DeleteWrite, PurgeDomainData, PauseWrite, UnpauseCheck, UnpauseWrite,
         SetRetentionWrite, SetRemainingWrite
<1>2. CASE \/ \E name \in Names, id \in Ids : IngestCheck(name, id)
           \/ ArchiveStore \/ IngestSkip \/ EndJob \/ SelectDue \/ PurgeAbort \/ Restart \/ Tick
           \/ Purge \/ UNCHANGED vars
  BY <1>2 DEF IngestCheck, ArchiveStore, IngestSkip, EndJob, SelectDue, PurgeAbort,
              Restart, Tick, tables, vars, Purge, PurgeNext, PurgeDomainData
<1> QED BY <1>1, <1>2 DEF Next, Ingest

LEMMA StoreStep ==
  ASSUME RowInv, ReportInv, PurgeInv, NamesUnique, [Next]_vars,
         Never("delete"), Never("restore")
  PROVE  [Store!Next]_(Store!vars)
<1> USE DEF Store!vars
<1>0. ASSUME NEW h \in Handlers PROVE ~DeleteWrite(h) /\ ~RestoreWrite(h)
  BY DEF DeleteWrite, RestoreWrite, Finish, Never
<1>1. \A i \in Ids : StatusOf[i] = domains[i].status
  BY DEF StatusOf
<1>2. /\ reports' = reports => OfDomains(reports)' = OfDomains(reports)
      /\ details' = details => OfDomains(details)' = OfDomains(details)
  BY DEF OfDomains
<1>3. ASSUME NEW h \in Handlers, CreateInsert(h) PROVE [Store!Next]_(Store!vars)
  <2> DEFINE c == handler[h]
  <2>1. OfDomains(reports)' = OfDomains(reports) /\ OfDomains(details)' = OfDomains(details)
    BY <1>2, <1>3 DEF CreateInsert
  <2>2. CASE domains' = domains
    BY <2>1, <2>2 DEF StatusOf
  <2>3. CASE domains' = [domains EXCEPT ![c.id] = NewRow(c.name, "active")]
    <3>1. c.id \in Ids /\ StatusOf[c.id] = "unused"
      BY <1>1, <1>3, CreateInsertEffect, CreateInsertUndrawn
    <3>2. StatusOf' = [StatusOf EXCEPT ![c.id] = "active"]
      BY <2>3 DEF StatusOf, NewRow, RowInv, TypeOK
    <3>3. Store!Create(c.id)
      BY <2>1, <3>1, <3>2 DEF Store!Create
    <3> QED BY <3>1, <3>3 DEF Store!Next
  <2> QED BY <1>3, <2>2, <2>3, CreateInsertEffect
<1>4. ASSUME NEW h \in Handlers, ArchiveWrite(h) PROVE [Store!Next]_(Store!vars)
  <2> DEFINE c == handler[h]
             d == domains[c.id]
  <2>0. CallMatchesRow(c) /\ (c.id \in Ids => d \in Row)
    BY DEF RowInv, TypeOK, CallsMatchRows
  <2>1. c.id \in Ids /\ Archived(d, c.time, c.days).status = "archived"
    BY <2>0, <1>4 DEF ArchiveWrite, Finish, CallMatchesRow, Archived, Row
  <2>2. OfDomains(reports)' = OfDomains(reports) /\ OfDomains(details)' = OfDomains(details)
    BY <1>2, <1>4 DEF ArchiveWrite
  <2>3. StatusOf' = IF Exists(c.id) THEN [StatusOf EXCEPT ![c.id] = "archived"] ELSE StatusOf
    BY <1>4, <2>1, UpdateStatus DEF ArchiveWrite
  <2>4. CASE d.status = "active"
    <3>1. Store!Archive(c.id)
      BY <1>1, <2>1, <2>2, <2>3, <2>4 DEF Store!Archive, Exists
    <3> QED BY <2>1, <3>1 DEF Store!Next
  <2>5. CASE d.status # "active"
    <3>1. StatusOf' = StatusOf
      BY <2>1, <2>3, <2>5 DEF Exists, StatusOf
    <3> QED BY <2>2, <3>1
  <2> QED BY <2>4, <2>5
<1>5. ASSUME NEW id \in Ids, NEW name \in Names, PurgeNext(id, name)
      PROVE  [Store!Next]_(Store!vars)
  <2>1. Exists(id) /\ domains[id].status = "archived"
    BY <1>5 DEF PurgeNext, ReportInv, PurgeInv, Doomed, Exists
  <2>2. StatusOf' = [StatusOf EXCEPT ![id] = "deleted"]
    BY <1>5, <2>1, UpdateStatus DEF PurgeNext, PurgeDomainData, NewRow
  <2>3. OfDomains(reports)' = OfDomains(reports) \ {id}
    <3>1. reports' \subseteq reports
      BY <1>5 DEF PurgeNext, PurgeDomainData
    <3>2. \A n \in Names, i \in Ids :
             <<n, i>> \in reports' <=> <<n, i>> \in reports /\ i # id
      BY <1>5, <3>1, PurgeTakesOwn
    <3>3. ASSUME NEW i \in Ids
          PROVE  i \in OfDomains(reports)' <=> i \in OfDomains(reports) /\ i # id
      BY <3>2 DEF OfDomains
    <3> QED BY <3>3 DEF OfDomains
  <2>5. OfDomains(details)' = OfDomains(details)
    BY <1>2, <1>5 DEF PurgeNext, PurgeDomainData
  <2>4. Store!Remove(id)
    BY <1>1, <2>1, <2>2, <2>3, <2>5 DEF Store!Remove
  <2> QED BY <2>4 DEF Store!Next
<1>6. CASE IngestStore /\ ~Purge
  <2>1. /\ runner.id \in Ids /\ runner.name \in Names /\ Exists(runner.id)
        /\ reports' = reports \cup {<<runner.name, runner.id>>}
        /\ details' \in {details, details \cup {<<runner.name, runner.id>>}}
        /\ domains' = domains
    BY <1>6 DEF IngestStore, ReportInv, RowInv, TypeOK, RunnerState
  <2>2. /\ StatusOf' = StatusOf
        /\ OfDomains(reports)' = OfDomains(reports) \cup {runner.id}
    BY <2>1 DEF StatusOf, OfDomains
  <2>4. OfDomains(details)' \in {OfDomains(details), OfDomains(details) \cup {runner.id}}
    <3>1. CASE details' = details
      BY <1>2, <3>1
    <3>2. CASE details' = details \cup {<<runner.name, runner.id>>}
      BY <2>1, <3>2 DEF OfDomains
    <3> QED BY <2>1, <3>1, <3>2
  <2>3. Store!Receive(runner.id)
    BY <1>1, <2>1, <2>2, <2>4 DEF Store!Receive, Exists
  <2> QED BY <2>1, <2>3 DEF Store!Next
<1>7. CASE /\ ~IngestStore /\ ~Purge
           /\ ~\E h \in Handlers : CreateInsert(h) \/ ArchiveWrite(h)
  <2>1. OfDomains(reports)' = OfDomains(reports) /\ OfDomains(details)' = OfDomains(details)
    BY <1>2, <1>7, OnlyPurgeLoses, DetailsSteady
  <2>2. ASSUME NEW h \in Handlers, Write(h) PROVE StatusOf' = StatusOf
    BY <1>0, <1>7, <2>2, StatusSteady DEF Write
  <2>3. ASSUME NEW h \in Handlers, Read(h) PROVE StatusOf' = StatusOf
    BY <2>3 DEF Read, CreateCheck, ArchiveRead, RestoreRead, DeleteRead, PauseRead,
                UnpauseRead, SetRetentionRead, Begin, tables, StatusOf
  <2>4. CASE \/ \E name \in Names, id \in Ids : IngestCheck(name, id)
             \/ ArchiveStore \/ IngestSkip \/ EndJob \/ SelectDue \/ PurgeAbort
             \/ Restart \/ Tick \/ UNCHANGED vars
    <3>1. domains' = domains
      BY <2>4 DEF IngestCheck, ArchiveStore, IngestSkip, EndJob, SelectDue, PurgeAbort,
                  Restart, Tick, tables, vars
    <3> QED BY <2>1, <3>1 DEF StatusOf
  <2> QED BY <1>7, <2>1, <2>2, <2>3, <2>4 DEF Next, Ingest
<1> QED BY <1>3, <1>4, <1>5, <1>6, <1>7 DEF Purge

\* With nobody deleting or restoring by hand the whole service, any number of
\* API threads and the runner together, implements DomainStore: a domain is
\* removed only from the archive, in one step with all its reports and with
\* nothing of what lies below them.
THEOREM LifecycleImplementsStore ==
  ASSUME "delete" \notin Requests, "restore" \notin Requests
  PROVE  Spec => ImplementsStore
<1>1. Init => Store!Init
  BY DEF Init, Store!Init, StatusOf, OfDomains, NewRow
<1>2. (/\ RowInv /\ ReportInv /\ PurgeInv /\ NamesUnique
       /\ Never("delete") /\ Never("restore") /\ [Next]_vars)
      => [Store!Next]_(Store!vars)
  BY StoreStep
<1> QED
  BY <1>1, <1>2, RowInvariant, ReportInvariant, PurgeInvariant, NamesAlwaysUnique,
     NeverDelete, NeverRestore, PTL
     DEF Spec, ImplementsStore, Store!Spec

-------------------------------------------------------------------------------
(* One request at a time: what the countdown of an archived domain then    *)
(* keeps, while the runner purges and the server may restart in between.   *)

Alone == \A g, h \in Handlers : g = h

\* What the one call in flight holds is still what its row says; only a purge
\* can have come in between.
CallIsCurrent(c) ==
    c.id \in Ids /\ Exists(c.id) =>
        /\ c.op = "archive" => domains[c.id].status = "active"
        /\ c.op \in {"pause", "unpause_check", "unpause", "set_retention"} =>
              domains[c.id].status = "archived"
        /\ c.op = "pause" => /\ ~domains[c.id].retention_paused
                             /\ c.time > (domains[c.id].retention_delete_at - now) - Second
        /\ c.op = "unpause_check" => c.time = domains[c.id].retention_remaining_seconds
        /\ c.op = "unpause" =>
              /\ domains[c.id].retention_paused
              /\ c.time <= now + domains[c.id].retention_remaining_seconds
CallsAreCurrent == \A h \in Handlers : CallIsCurrent(handler[h])

\* The deadline of an archived row lies after its archiving, and by a second at
\* least at the moment of archiving itself; a remainder of less than a second was
\* left later than that; and no other row has a deadline.
Ahead(instant, archived) ==
    instant > archived /\ (now > archived \/ instant >= archived + Second)
RowCountsDown(row) ==
    /\ row.status = "active" => row.retention_delete_at = Null
    /\ row.status = "archived" =>
          /\ row.archived_at \in Nat /\ row.archived_at <= now
          /\ row.retention_delete_at # Null => Ahead(row.retention_delete_at, row.archived_at)
          /\ row.retention_paused => \/ row.retention_remaining_seconds >= Second
                                     \/ now > row.archived_at

\* So does what a call in flight will write into such a row.
CallCountsDown(c) ==
    c.id \in Ids /\ Exists(c.id) =>
        /\ c.op = "archive" => c.time <= now
        /\ c.op = "pause" => c.time >= Second \/ now > domains[c.id].archived_at
        /\ c.op \in {"unpause", "set_retention"} => Ahead(c.time, domains[c.id].archived_at)
CountdownInv ==
    /\ \A id \in Ids : RowCountsDown(domains[id])
    /\ \A h \in Handlers : CallCountsDown(handler[h])


\* All threads hold what the one that took a step holds now.
LEMMA OneCall ==
  ASSUME RowInv, Alone, NEW h \in Handlers, NEW call,
         handler' = [handler EXCEPT ![h] = call], NEW g \in Handlers
  PROVE  handler'[g] = call
BY DEF Alone, RowInv, TypeOK

\* After a write of the only thread no call is in flight, but for an unpause.
LEMMA OneWrite ==
  ASSUME RowInv, Alone, NEW h \in Handlers, Write(h), ~UnpauseCheck(h), NEW g \in Handlers
  PROVE  handler'[g] = Idle
BY OneCall DEF Write, CreateInsert, ArchiveWrite, RestoreWrite, DeleteWrite, PauseWrite,
               UnpauseWrite, SetRetentionWrite, SetRemainingWrite, Finish

\* The steps that touch neither a row nor the clock leave the calls or drop them.
LEMMA Elsewhere ==
  ASSUME [Next]_vars, ~\E h \in Handlers : Read(h) \/ Write(h), ~Purge, ~Tick
  PROVE  /\ domains' = domains /\ now' = now
         /\ handler' = handler \/ handler' = [h \in Handlers |-> Idle]
<1>1. CASE Restart
  BY <1>1 DEF Restart, tables
<1>2. CASE Ingest \/ SelectDue \/ PurgeAbort
  <2>1. ASSUME NEW name \in Names, NEW id \in Ids, IngestCheck(name, id)
        PROVE  domains' = domains /\ now' = now /\ handler' = handler
    BY <2>1 DEF IngestCheck, tables
  <2>2. CASE IngestStore \/ ArchiveStore
    BY <2>2 DEF IngestStore, ArchiveStore
  <2>3. CASE IngestSkip \/ EndJob \/ SelectDue \/ PurgeAbort
    BY <2>3 DEF IngestSkip, EndJob, SelectDue, PurgeAbort, tables
  <2> QED BY <1>2, <2>1, <2>2, <2>3 DEF Ingest
<1>3. CASE UNCHANGED vars
  BY <1>3 DEF vars, tables
<1> QED BY <1>1, <1>2, <1>3 DEF Next

\* An unpause that is checked has what the row has left.
LEMMA UnpauseCheckEffect ==
  ASSUME RowInv, Alone, CallsAreCurrent, NEW h \in Handlers, UnpauseCheck(h)
  PROVE  /\ domains' = domains /\ now' = now
         /\ \/ \A g \in Handlers : handler'[g] = Idle
            \/ \E call :
                  /\ call.op = "unpause" /\ call.id \in Ids /\ Exists(call.id)
                  /\ domains[call.id].status = "archived"
                  /\ domains[call.id].retention_paused
                  /\ domains[call.id].retention_remaining_seconds \in Nat
                  /\ call.time = now + domains[call.id].retention_remaining_seconds
                  /\ \A g \in Handlers : handler'[g] = call
<1> DEFINE c == handler[h]
           r == IF c.time = Null THEN 0 ELSE c.time
           call == [c EXCEPT !.op = "unpause", !.time = now + r]
<1>1. /\ domains' = domains /\ now' = now /\ c.op = "unpause_check"
      /\ handler' = [handler EXCEPT ![h] =
                        IF Exists(c.id) /\ domains[c.id].retention_paused THEN call ELSE Idle]
  BY DEF UnpauseCheck, tables
<1>2. c.id \in Ids /\ CallIsCurrent(c)
  BY <1>1 DEF RowInv, CallsMatchRows, CallMatchesRow, CallsAreCurrent
<1>3. CASE ~(Exists(c.id) /\ domains[c.id].retention_paused)
  BY <1>1, <1>2, <1>3, OneCall
<1>4. CASE Exists(c.id) /\ domains[c.id].retention_paused
  <2>1. c.time = domains[c.id].retention_remaining_seconds /\ domains[c.id].status = "archived"
    BY <1>1, <1>2, <1>4 DEF CallIsCurrent
  <2>2. /\ domains[c.id].retention_remaining_seconds # Null
        /\ domains[c.id].retention_remaining_seconds \in Nat \cup {Null}
    BY <1>2, <1>4 DEF RowInv, RetentionConsistent, TypeOK, Row
  <2>3. c \in Call
    BY DEF RowInv, TypeOK
  <2>4. /\ call.op = "unpause" /\ call.id = c.id
        /\ call.time = now + domains[c.id].retention_remaining_seconds
    BY <2>1, <2>2, <2>3 DEF Call
  <2>5. \A g \in Handlers : handler'[g] = call
    BY <1>1, <1>4, OneCall
  <2> HIDE DEF call, c
  <2> QED BY <1>1, <1>2, <1>4, <2>1, <2>2, <2>4, <2>5
<1> QED BY <1>3, <1>4


\* The calls stay current: no two of them overlap, and a purge removes the row.
LEMMA ReadCurrent ==
  ASSUME RowInv, Alone, NEW h \in Handlers, Read(h)
  PROVE  CallsAreCurrent'
<1>1. PICK id \in Ids :
         \/ \E name \in Names : CreateCheck(h, id, name)
         \/ \E days \in RetentionDays \cup {Null} : ArchiveRead(h, id, days)
         \/ RestoreRead(h, id)
         \/ DeleteRead(h, id)
         \/ PauseRead(h, id)
         \/ UnpauseRead(h, id)
         \/ \E days \in RetentionDays : SetRetentionRead(h, id, days)
  BY DEF Read
<1>2. ASSUME NEW request, NEW call, Begin(h, request, call), CallIsCurrent(call)
      PROVE  CallsAreCurrent'
  <2>1. domains' = domains /\ now' = now /\ \A g \in Handlers : handler'[g] = call
    BY <1>2, OneCall DEF Begin, tables
  <2> QED BY <1>2, <2>1 DEF CallsAreCurrent, CallIsCurrent, Exists
<1>3. now \in Nat /\ domains[id] \in Row
  BY DEF RowInv, TypeOK
<1> USE DEF Idle, CallIsCurrent
<1>4. ASSUME NEW name \in Names, CreateCheck(h, id, name) PROVE CallsAreCurrent'
  BY <1>2, <1>4 DEF CreateCheck
<1>5. ASSUME NEW days \in RetentionDays \cup {Null}, ArchiveRead(h, id, days)
      PROVE  CallsAreCurrent'
  BY <1>2, <1>5 DEF ArchiveRead
<1>6. CASE RestoreRead(h, id) \/ DeleteRead(h, id)
  BY <1>2, <1>6 DEF RestoreRead, DeleteRead
<1>7. CASE PauseRead(h, id)
  <2>1. /\ domains[id].retention_delete_at \in Nat
        /\ SecondsUntil(domains[id].retention_delete_at)
             > (domains[id].retention_delete_at - now) - Second
    BY <1>3, <1>7, SecondsUntilFact DEF PauseRead, Row
  <2> QED BY <1>2, <1>7, <2>1 DEF PauseRead
<1>8. CASE UnpauseRead(h, id)
  BY <1>2, <1>8 DEF UnpauseRead
<1>9. ASSUME NEW days \in RetentionDays, SetRetentionRead(h, id, days) PROVE CallsAreCurrent'
  BY <1>2, <1>9 DEF SetRetentionRead
<1> QED BY <1>1, <1>4, <1>5, <1>6, <1>7, <1>8, <1>9

\* Whatever step is taken, the call in flight stays current.
LEMMA CurrentStep ==
  ASSUME RowInv, Alone, CallsAreCurrent, [Next]_vars
  PROVE  CallsAreCurrent'
<1>1. ASSUME \A g \in Handlers : handler'[g] = Idle PROVE CallsAreCurrent'
  BY <1>1, ConstantsAssumption DEF CallsAreCurrent, CallIsCurrent, Idle
<1>2. ASSUME NEW h \in Handlers, Read(h) PROVE CallsAreCurrent'
  BY <1>2, ReadCurrent
<1>3. ASSUME NEW h \in Handlers, Write(h) PROVE CallsAreCurrent'
  <2>1. CASE ~UnpauseCheck(h)
    BY <1>1, <1>3, <2>1, OneWrite
  <2>2. CASE UnpauseCheck(h)
    <3>1. CASE \A g \in Handlers : handler'[g] = Idle
      BY <1>1, <3>1
    <3>2. ASSUME NEW call, call.op = "unpause", call.id \in Ids, Exists(call.id),
                 domains[call.id].status = "archived", domains[call.id].retention_paused,
                 domains[call.id].retention_remaining_seconds \in Nat,
                 call.time = now + domains[call.id].retention_remaining_seconds,
                 \A g \in Handlers : handler'[g] = call
          PROVE  CallsAreCurrent'
      <4>1. now \in Nat /\ domains' = domains /\ now' = now
        BY <2>2, UnpauseCheckEffect DEF RowInv, TypeOK
      <4>2. call.time <= now + domains[call.id].retention_remaining_seconds
        BY <3>2, <4>1
      <4>3. CallIsCurrent(call)
        BY <3>2, <4>2 DEF CallIsCurrent
      <4> QED BY <3>2, <4>1, <4>3 DEF CallsAreCurrent, CallIsCurrent, Exists
    <3> QED BY <2>2, <3>1, <3>2, UnpauseCheckEffect
  <2> QED BY <2>1, <2>2
<1>4. CASE Purge
  <2>1. PICK id \in Ids, name \in Names : PurgeNext(id, name)
    BY <1>4 DEF Purge
  <2>2. now' = now /\ handler' = handler
    BY <2>1 DEF PurgeNext
  <2>3. ASSUME NEW i \in Ids, Exists(i)' PROVE domains'[i] = domains[i] /\ Exists(i)
    BY <2>1, <2>3, PurgeRemoves DEF PurgeNext, Exists
  <2> QED BY <2>2, <2>3 DEF CallsAreCurrent, CallIsCurrent
<1>5. CASE Tick
  <2>1. domains' = domains /\ handler' = handler /\ now' = now + 1 /\ now \in Nat
    BY <1>5 DEF Tick, tables, RowInv, TypeOK
  <2> SUFFICES ASSUME NEW g \in Handlers PROVE CallIsCurrent(handler[g])'
    BY DEF CallsAreCurrent
  <2>2. PICK c : c = handler[g] /\ c \in Call /\ CallIsCurrent(c) /\ CallMatchesRow(c)
    BY DEF CallsAreCurrent, RowInv, TypeOK, CallsMatchRows
  <2> SUFFICES ASSUME c.id \in Ids, Exists(c.id) PROVE CallIsCurrent(c)'
    BY <2>1, <2>2 DEF CallIsCurrent, Exists
  <2>3. PICK d : d = domains[c.id] /\ d \in Row
    BY DEF RowInv, TypeOK
  <2>4. c.op = "pause" => /\ c.time \in Nat /\ d.retention_delete_at \in Nat
                          /\ c.time > (d.retention_delete_at - (now + 1)) - Second
    BY <2>1, ConstantsAssumption, <2>2, <2>3 DEF CallIsCurrent, CallMatchesRow, Row
  <2>5. c.op = "unpause" => /\ c.time \in Nat /\ d.retention_remaining_seconds \in Nat
                            /\ c.time <= now + 1 + d.retention_remaining_seconds
    <3>1. d.retention_paused => d.retention_remaining_seconds # Null
      BY <2>3 DEF RowInv, RetentionConsistent
    <3> QED BY <2>1, <2>2, <2>3, <3>1 DEF CallIsCurrent, CallMatchesRow, Row
  <2> QED BY <2>1, <2>2, <2>3, <2>4, <2>5 DEF CallIsCurrent
<1>6. CASE ~(\E h \in Handlers : Read(h) \/ Write(h)) /\ ~Purge /\ ~Tick
  <2>1. /\ domains' = domains /\ now' = now
        /\ handler' = handler \/ handler' = [h \in Handlers |-> Idle]
    BY <1>6, Elsewhere
  <2>2. CASE handler' = handler
    BY <2>1, <2>2 DEF CallsAreCurrent, CallIsCurrent, Exists
  <2> QED BY <1>1, <2>1, <2>2
<1> QED BY <1>2, <1>3, <1>4, <1>5, <1>6

\* So it is current throughout.
LEMMA CurrentAlways == ASSUME Alone PROVE Spec => []CallsAreCurrent
<1>1. Init => CallsAreCurrent
  BY ConstantsAssumption DEF Init, CallsAreCurrent, CallIsCurrent, Idle
<1>2. RowInv /\ CallsAreCurrent /\ [Next]_vars => CallsAreCurrent'
  BY CurrentStep
<1> QED BY <1>1, <1>2, RowInvariant, PTL DEF Spec


\* A write keeps the countdown if the row it leaves does.
LEMMA UpdateCountsDown ==
  ASSUME RowInv, Alone, CountdownInv, NEW h \in Handlers, Write(h), ~UnpauseCheck(h), now' = now,
         NEW id \in Ids, NEW row, Update(id, row), Exists(id) => RowCountsDown(row)
  PROVE  CountdownInv'
<1>1. \A g \in Handlers : handler'[g] = Idle
  BY OneWrite
<1>2. \A i \in Ids : RowCountsDown(domains'[i])
  BY DEF Update, CountdownInv, RowInv, TypeOK
<1>3. \A i \in Ids : RowCountsDown(domains[i])'
  BY <1>2 DEF RowCountsDown, Ahead
<1>4. \A g \in Handlers : CallCountsDown(handler[g])'
  BY <1>1, ConstantsAssumption DEF CallCountsDown, Idle
<1> QED BY <1>3, <1>4 DEF CountdownInv

\* No write but a restore's disturbs the countdown.
LEMMA WriteCountsDown ==
  ASSUME RowInv, Alone, CallsAreCurrent, CountdownInv, NEW h \in Handlers, Write(h),
         ~UnpauseCheck(h), ~RestoreWrite(h)
  PROVE  CountdownInv'
<1>0. now' = now
  BY DEF Write, CreateInsert, ArchiveWrite, RestoreWrite, DeleteWrite, PauseWrite, UnpauseWrite,
         SetRetentionWrite, SetRemainingWrite, Finish
<1>1. PICK c : c = handler[h] /\ c \in Call /\ CallMatchesRow(c) /\ CallIsCurrent(c)
                  /\ CallCountsDown(c)
  BY DEF RowInv, TypeOK, CallsMatchRows, CallsAreCurrent, CountdownInv
<1>2. PICK d : d = domains[c.id] /\ (c.id \in Ids => d \in Row /\ RowCountsDown(d))
  BY DEF RowInv, TypeOK, CountdownInv
<1>3. ASSUME NEW row, c.id \in Ids, Update(c.id, row), Exists(c.id) => RowCountsDown(row)
      PROVE  CountdownInv'
  BY <1>0, <1>3, UpdateCountsDown
<1>4. now \in Nat
  BY DEF RowInv, TypeOK
<1>5. CASE CreateInsert(h)
  <2>1. \A g \in Handlers : handler'[g] = Idle
    BY OneWrite
  <2>2. \A g \in Handlers : CallCountsDown(handler[g])'
    BY <2>1, ConstantsAssumption DEF CallCountsDown, Idle
  <2>3. ASSUME NEW i \in Ids PROVE RowCountsDown(domains[i])'
    <3>1. \/ domains'[i] = domains[i]
          \/ domains'[i] = NewRow(handler[h].name, "active")
      BY <1>5, CreateInsertEffect DEF RowInv, TypeOK
    <3> QED BY <1>0, <3>1 DEF RowCountsDown, Ahead, CountdownInv, NewRow
  <2> QED BY <2>2, <2>3 DEF CountdownInv
<1>6. CASE ArchiveWrite(h)
  <2>1. c.op = "archive" /\ c.id \in Ids /\ Update(c.id, Archived(d, c.time, c.days))
        /\ c.time \in Nat
    BY <1>1, <1>2, <1>6 DEF ArchiveWrite, Finish, CallMatchesRow
  <2>2. ASSUME Exists(c.id) PROVE RowCountsDown(Archived(d, c.time, c.days))
    <3>1. /\ d.status = "active" /\ d.retention_delete_at = Null /\ c.time <= now
      BY <1>1, <1>2, <2>1, <2>2 DEF CallIsCurrent, CallCountsDown, RowCountsDown
    <3>2. ~d.retention_paused
      BY <1>2, <2>1, <2>2, <3>1 DEF RowInv, RetentionConsistent
    <3>3. CASE c.days = Null
      BY <1>2, <2>1, <3>1, <3>2, <3>3 DEF Archived, Row, RowCountsDown
    <3>4. CASE c.days # Null
      <4>1. c.days \in RetentionDays
        BY <1>1, <3>4 DEF Call
      <4>2. c.days * DayLength >= Second /\ c.days * DayLength \in Nat
        BY <4>1, SecondsOfDays, DayNotShorter
      <4>3. Ahead(c.time + c.days * DayLength, c.time)
        BY <2>1, <4>2, ConstantsAssumption DEF Ahead
      <4> QED BY <1>2, <2>1, <3>1, <3>2, <3>4, <4>3 DEF Archived, Row, RowCountsDown
    <3> QED BY <3>3, <3>4
  <2> QED BY <1>3, <2>1, <2>2
<1>7. CASE DeleteWrite(h)
  <2>1. c.id \in Ids /\ Update(c.id, NewRow(Null, "deleted"))
    BY <1>1, <1>7, DeleteWriteIds DEF PurgeDomainData
  <2> QED BY <1>3, <2>1 DEF RowCountsDown, NewRow
<1>8. CASE PauseWrite(h)
  <2> DEFINE r == [d EXCEPT !.retention_paused = TRUE, !.retention_remaining_seconds = c.time]
  <2>1. c.op = "pause" /\ c.id \in Ids /\ Update(c.id, r)
    BY <1>1, <1>2, <1>8 DEF PauseWrite, Finish, CallMatchesRow
  <2>2. Exists(c.id) => c.time >= Second \/ now > d.archived_at
    BY <1>1, <1>2, <2>1 DEF CallCountsDown
  <2>3. Exists(c.id) => RowCountsDown(r)
    BY <1>2, <2>1, <2>2 DEF RowCountsDown, Row
  <2> QED BY <1>3, <2>1, <2>3
<1>9. CASE UnpauseWrite(h)
  <2> DEFINE r == [d EXCEPT !.retention_paused = FALSE, !.retention_delete_at = c.time]
  <2>1. c.op = "unpause" /\ c.id \in Ids /\ Update(c.id, r)
    BY <1>1, <1>2, <1>9 DEF UnpauseWrite, Finish, CallMatchesRow
  <2>2. Exists(c.id) => d.status = "archived" /\ Ahead(c.time, d.archived_at)
    BY <1>1, <1>2, <2>1 DEF CallCountsDown, CallIsCurrent
  <2>3. Exists(c.id) => RowCountsDown(r)
    BY <1>2, <2>1, <2>2 DEF RowCountsDown, Row
  <2> QED BY <1>3, <2>1, <2>3
<1>10. CASE SetRetentionWrite(h)
  <2> DEFINE r == [d EXCEPT !.retention_days = c.days, !.retention_delete_at = c.time]
  <2>1. c.op = "set_retention" /\ c.id \in Ids /\ Update(c.id, r)
    BY <1>1, <1>2, <1>10 DEF SetRetentionWrite, Finish, CallMatchesRow
  <2>2. Exists(c.id) => d.status = "archived" /\ Ahead(c.time, d.archived_at)
    BY <1>1, <1>2, <2>1 DEF CallCountsDown, CallIsCurrent
  <2>3. Exists(c.id) => RowCountsDown(r)
    BY <1>2, <2>1, <2>2 DEF RowCountsDown, Row
  <2> QED BY <1>3, <2>1, <2>3
<1>11. CASE SetRemainingWrite(h)
  <2> DEFINE r == [d EXCEPT !.retention_days = c.days,
                            !.retention_remaining_seconds = c.days * DayLength]
  <2>1. c.op = "set_remaining" /\ c.id \in Ids /\ Update(c.id, r) /\ c.days \in RetentionDays
    BY <1>1, <1>2, <1>11 DEF SetRemainingWrite, Finish, CallMatchesRow
  <2>2. c.days * DayLength >= Second
    BY <2>1, DayNotShorter
  <2>3. Exists(c.id) => RowCountsDown(r)
    BY <1>2, <2>1, <2>2 DEF RowCountsDown, Row
  <2> QED BY <1>3, <2>1, <2>3
<1> QED BY <1>5, <1>6, <1>7, <1>8, <1>9, <1>10, <1>11 DEF Write


\* Reading changes no row and leaves nothing amiss in the call.
LEMMA ReadCountsDown ==
  ASSUME RowInv, Alone, CountdownInv, NEW h \in Handlers, Read(h)
  PROVE  CountdownInv'
<1>1. PICK id \in Ids :
         \/ \E name \in Names : CreateCheck(h, id, name)
         \/ \E days \in RetentionDays \cup {Null} : ArchiveRead(h, id, days)
         \/ RestoreRead(h, id)
         \/ DeleteRead(h, id)
         \/ PauseRead(h, id)
         \/ UnpauseRead(h, id)
         \/ \E days \in RetentionDays : SetRetentionRead(h, id, days)
  BY DEF Read
<1>2. ASSUME NEW request, NEW call, Begin(h, request, call), CallCountsDown(call)
      PROVE  CountdownInv'
  <2>1. domains' = domains /\ now' = now /\ \A g \in Handlers : handler'[g] = call
    BY <1>2, OneCall DEF Begin, tables
  <2> QED BY <1>2, <2>1 DEF CountdownInv, CallCountsDown, RowCountsDown, Ahead, Exists
<1>3. now \in Nat /\ domains[id] \in Row /\ RowCountsDown(domains[id])
  BY DEF RowInv, TypeOK, CountdownInv
<1> USE DEF Idle, CallCountsDown
<1>4. ASSUME NEW name \in Names, CreateCheck(h, id, name) PROVE CountdownInv'
  BY <1>2, <1>4 DEF CreateCheck
<1>5. ASSUME NEW days \in RetentionDays \cup {Null}, ArchiveRead(h, id, days)
      PROVE  CountdownInv'
  <2> DEFINE call == [Idle EXCEPT !.op = "archive", !.id = id, !.days = days, !.time = now]
  <2>1. call.op = "archive" /\ call.time <= now
    BY <1>3
  <2>2. CallCountsDown(call) /\ Begin(h, "archive", call)
    BY <1>5, <2>1 DEF ArchiveRead
  <2> HIDE DEF call
  <2> QED BY <1>2, <2>2
<1>6. CASE RestoreRead(h, id) \/ DeleteRead(h, id)
  BY <1>2, <1>6 DEF RestoreRead, DeleteRead
<1>7. CASE PauseRead(h, id)
  <2>1. /\ domains[id].retention_delete_at \in Nat
        /\ \/ SecondsUntil(domains[id].retention_delete_at) >= Second
           \/ ~(domains[id].retention_delete_at >= now + Second)
    BY <1>3, <1>7, SecondsUntilFact DEF PauseRead, Row
  <2>2. \/ SecondsUntil(domains[id].retention_delete_at) >= Second
        \/ now > domains[id].archived_at
    BY <1>3, <1>7, <2>1, ConstantsAssumption DEF PauseRead, RowCountsDown, Ahead
  <2> QED BY <1>2, <1>7, <2>2 DEF PauseRead
<1>8. CASE UnpauseRead(h, id)
  BY <1>2, <1>8 DEF UnpauseRead
<1>9. ASSUME NEW days \in RetentionDays, SetRetentionRead(h, id, days) PROVE CountdownInv'
  <2>1. days * DayLength >= Second /\ days * DayLength \in Nat
    BY SecondsOfDays, DayNotShorter
  <2>2. Ahead(now + days * DayLength, domains[id].archived_at)
    BY <1>3, <1>9, <2>1, ConstantsAssumption DEF SetRetentionRead, RowCountsDown, Ahead
  <2> QED BY <1>2, <1>9, <2>2 DEF SetRetentionRead
<1> QED BY <1>1, <1>4, <1>5, <1>6, <1>7, <1>8, <1>9

\* Nor does any other step, with nobody restoring.
LEMMA CountdownStep ==
  ASSUME RowInv, Alone, CallsAreCurrent, CountdownInv, Never("restore"), [Next]_vars
  PROVE  CountdownInv'
<1>1. ASSUME NEW h \in Handlers, Write(h) PROVE CountdownInv'
  <2>1. CASE ~UnpauseCheck(h)
    <3>1. ~RestoreWrite(h)
      BY DEF RestoreWrite, Finish, Never
    <3> QED BY <1>1, <2>1, <3>1, WriteCountsDown
  <2>2. CASE UnpauseCheck(h)
    <3>1. domains' = domains /\ now' = now /\ \A id \in Ids : RowCountsDown(domains[id])'
      BY <2>2, UnpauseCheckEffect DEF CountdownInv, RowCountsDown, Ahead
    <3>2. CASE \A g \in Handlers : handler'[g] = Idle
      BY <3>1, <3>2, ConstantsAssumption DEF CountdownInv, CallCountsDown, Idle
    <3>3. ASSUME NEW call, call.op = "unpause", call.id \in Ids, Exists(call.id),
                 domains[call.id].status = "archived", domains[call.id].retention_paused,
                 domains[call.id].retention_remaining_seconds \in Nat,
                 call.time = now + domains[call.id].retention_remaining_seconds,
                 \A g \in Handlers : handler'[g] = call
          PROVE  CountdownInv'
      <4>1. now \in Nat /\ RowCountsDown(domains[call.id])
        BY <3>3 DEF RowInv, TypeOK, CountdownInv
      <4>2. Ahead(call.time, domains[call.id].archived_at)
        BY <3>3, <4>1, ConstantsAssumption DEF RowCountsDown, Ahead
      <4>3. CallCountsDown(call)
        BY <3>3, <4>2 DEF CallCountsDown
      <4> QED BY <3>1, <3>3, <4>3 DEF CountdownInv, CallCountsDown, Ahead, Exists
    <3> QED BY <2>2, <3>2, <3>3, UnpauseCheckEffect
  <2> QED BY <2>1, <2>2
<1>2. CASE Purge
  <2>1. PICK id \in Ids, name \in Names : PurgeNext(id, name)
    BY <1>2 DEF Purge
  <2>2. now' = now /\ handler' = handler
    BY <2>1 DEF PurgeNext
  <2>3. ASSUME NEW i \in Ids
        PROVE  \/ domains'[i] = domains[i]
               \/ ~Exists(i)' /\ domains'[i].status = "deleted"
    BY <2>1, PurgeRemoves DEF PurgeNext, Exists
  <2>4. ASSUME NEW i \in Ids PROVE RowCountsDown(domains[i])'
    BY <2>2, <2>3 DEF CountdownInv, RowCountsDown, Ahead
  <2>5. ASSUME NEW g \in Handlers PROVE CallCountsDown(handler[g])'
    <3>1. PICK c : c = handler[g] /\ CallCountsDown(c)
      BY DEF CountdownInv
    <3>2. c.id \in Ids /\ Exists(c.id)' => domains'[c.id] = domains[c.id]
      BY <2>3
    <3> QED BY <2>2, <3>1, <3>2 DEF CallCountsDown, Ahead, Exists
  <2> QED BY <2>4, <2>5 DEF CountdownInv
<1>3. CASE Tick
  <2>1. domains' = domains /\ handler' = handler /\ now' = now + 1 /\ now \in Nat
    BY <1>3 DEF Tick, tables, RowInv, TypeOK
  <2>2. ASSUME NEW i \in Ids PROVE RowCountsDown(domains[i])'
    BY <2>1 DEF CountdownInv, RowCountsDown, Ahead
  <2>3. ASSUME NEW g \in Handlers PROVE CallCountsDown(handler[g])'
    <3>1. PICK c : c = handler[g] /\ CallCountsDown(c) /\ CallMatchesRow(c) /\ CallIsCurrent(c)
      BY DEF CountdownInv, RowInv, CallsMatchRows, CallsAreCurrent
    <3> SUFFICES ASSUME c.id \in Ids, Exists(c.id) PROVE CallCountsDown(c)'
      BY <2>1, <3>1 DEF CallCountsDown, Exists
    <3>2. c.op = "archive" => c.time <= now + 1
      BY <2>1, <3>1 DEF CallCountsDown, CallMatchesRow
    <3>3. c.op = "pause" => c.time >= Second \/ now + 1 > domains[c.id].archived_at
      BY <2>1, <3>1 DEF CallCountsDown, CallIsCurrent, CountdownInv, RowCountsDown
    <3>4. c.op \in {"unpause", "set_retention"} =>
             /\ c.time > domains[c.id].archived_at
             /\ \/ now + 1 > domains[c.id].archived_at
                \/ c.time >= domains[c.id].archived_at + Second
      BY <2>1, <3>1 DEF CallCountsDown, CallIsCurrent, CountdownInv, RowCountsDown, Ahead
    <3> QED BY <2>1, <3>1, <3>2, <3>3, <3>4 DEF CallCountsDown, Ahead
  <2> QED BY <2>2, <2>3 DEF CountdownInv
<1>4. CASE ~(\E h \in Handlers : Read(h) \/ Write(h)) /\ ~Purge /\ ~Tick
  <2>1. /\ domains' = domains /\ now' = now
        /\ handler' = handler \/ handler' = [h \in Handlers |-> Idle]
    BY <1>4, Elsewhere
  <2>2. CASE handler' = handler
    BY <2>1, <2>2 DEF CountdownInv, CallCountsDown, RowCountsDown, Ahead, Exists
  <2>3. CASE handler' = [h \in Handlers |-> Idle]
    BY <2>1, <2>3, ConstantsAssumption
       DEF CountdownInv, CallCountsDown, RowCountsDown, Ahead, Exists, Idle
  <2> QED BY <2>1, <2>2, <2>3
<1> QED BY <1>1, <1>2, <1>3, <1>4, ReadCountsDown

\* Served one at a time, and with no restore among them, requests never leave an
\* archived domain with a deadline that was due when it was archived.  Two threads
\* can (an archive without a period after one with it), and so can a restore
\* (DL_stale_deadline).
THEOREM DeadlinesFollowArchiving ==
  ASSUME Alone, "restore" \notin Requests
  PROVE  Spec => []CountdownFollowsArchive
<1>1. Init => CountdownInv
  BY ConstantsAssumption DEF Init, CountdownInv, RowCountsDown, CallCountsDown, NewRow, Idle
<1>2. RowInv /\ CallsAreCurrent /\ CountdownInv /\ Never("restore") /\ [Next]_vars
        => CountdownInv'
  BY CountdownStep
<1>3. CountdownInv => CountdownFollowsArchive
  BY DEF CountdownInv, RowCountsDown, CountdownFollowsArchive, Ahead
<1> QED BY <1>1, <1>2, <1>3, RowInvariant, CurrentAlways, NeverRestore, PTL DEF Spec


\* What is left is read off the one unpause under way, or else off the row.
NoUnpause(id) == \A h \in Handlers : handler[h].op = "unpause" => handler[h].id # id
RowTimeLeft(d) == IF d.retention_paused THEN d.retention_remaining_seconds
                                        ELSE d.retention_delete_at - now

LEMMA TimeLeftNow ==
  ASSUME RowInv, Alone, NEW id \in Ids, Counting(id)
  PROVE  /\ NoUnpause(id) => TimeLeft(id) = RowTimeLeft(domains[id])
         /\ \A h \in Handlers : handler[h].op = "unpause" /\ handler[h].id = id
                                  => TimeLeft(id) = handler[h].time - now
         /\ TimeLeft(id) \in Int /\ RowTimeLeft(domains[id]) \in Int
<1>1. RowTimeLeft(domains[id]) \in Int
  BY DEF RowTimeLeft, Counting, RowInv, TypeOK, RetentionConsistent, Row, Exists
<1>2. NoUnpause(id) => TimeLeft(id) = RowTimeLeft(domains[id])
  BY DEF TimeLeft, Unpausing, NoUnpause, RowTimeLeft
<1>3. ASSUME NEW h \in Handlers, handler[h].op = "unpause", handler[h].id = id
      PROVE  TimeLeft(id) = handler[h].time - now /\ TimeLeft(id) \in Int
  <2>1. Unpausing(id) = {h}
    BY <1>3 DEF Unpausing, Alone
  <2>2. (CHOOSE g \in Unpausing(id) : TRUE) = h
    BY <2>1
  <2>3. handler[h].time \in Nat /\ now \in Nat
    BY <1>3 DEF RowInv, TypeOK, CallsMatchRows, CallMatchesRow
  <2> QED BY <2>1, <2>2, <2>3 DEF TimeLeft
<1> QED BY <1>1, <1>2, <1>3 DEF NoUnpause

\* What a row has left after a step, with or without an unpause in flight.
LEMMA TimeLeftNext ==
  ASSUME RowInv', Alone, NEW id \in Ids, Counting(id)'
  PROVE  /\ NoUnpause(id)' => TimeLeft(id)' = RowTimeLeft(domains[id])'
         /\ \A h \in Handlers : handler'[h].op = "unpause" /\ handler'[h].id = id
                                  => TimeLeft(id)' = handler'[h].time - now'
         /\ TimeLeft(id)' \in Int
<1>3. RowTimeLeft(domains[id])' \in Int
  BY DEF RowTimeLeft, Counting, RowInv, TypeOK, RetentionConsistent, Row, Exists
<1>1. NoUnpause(id)' => TimeLeft(id)' = RowTimeLeft(domains[id])'
  BY DEF TimeLeft, Unpausing, NoUnpause, RowTimeLeft
<1>2. ASSUME NEW h \in Handlers, handler'[h].op = "unpause", handler'[h].id = id
      PROVE  TimeLeft(id)' = handler'[h].time - now' /\ TimeLeft(id)' \in Int
  <2>1. Unpausing(id)' = {h}
    BY <1>2 DEF Unpausing, Alone
  <2>2. (CHOOSE g \in Unpausing(id)' : TRUE) = h
    BY <2>1
  <2>3. handler'[h].time \in Nat /\ now' \in Nat
    BY <1>2 DEF RowInv, TypeOK, CallsMatchRows, CallMatchesRow
  <2> QED BY <2>1, <2>2, <2>3 DEF TimeLeft
<1> QED BY <1>1, <1>2, <1>3 DEF NoUnpause

\* What a step may take from a row that goes on counting.
Spared(id) == IF Pausing(id) THEN TimeLeft(id)' > TimeLeft(id) - Second
                             ELSE TimeLeft(id)' >= TimeLeft(id)

LEMMA SparedWhenNotLess ==
  ASSUME RowInv, RowInv', Alone, NEW id \in Ids, Counting(id), Counting(id)',
         TimeLeft(id)' >= TimeLeft(id)
  PROVE  Spared(id)
<1>1. TimeLeft(id) \in Int /\ TimeLeft(id)' \in Int
  BY TimeLeftNow, TimeLeftNext
<1> QED BY <1>1, ConstantsAssumption DEF Spared

\* A step that leaves the row and either keeps the calls or has to do with no
\* unpause of the domain takes no time.
LEMMA SameTimeLeft ==
  ASSUME RowInv, RowInv', Alone, NEW id \in Ids, Counting(id), Counting(id)',
         domains'[id] = domains[id], now' = now,
         handler' = handler \/ (NoUnpause(id) /\ NoUnpause(id)')
  PROVE  Spared(id)
<1>1. RowTimeLeft(domains[id])' = RowTimeLeft(domains[id])
  BY DEF RowTimeLeft
<1>2. TimeLeft(id) \in Int
  BY TimeLeftNow
<1>3. TimeLeft(id)' = TimeLeft(id)
  <2>1. CASE NoUnpause(id) /\ NoUnpause(id)'
    BY <1>1, <2>1, TimeLeftNow, TimeLeftNext
  <2>2. CASE handler' = handler /\ ~NoUnpause(id)
    <3>1. PICK h \in Handlers : handler[h].op = "unpause" /\ handler[h].id = id
      BY <2>2 DEF NoUnpause
    <3> QED BY <2>2, <3>1, TimeLeftNow, TimeLeftNext
  <2>3. CASE handler' = handler /\ NoUnpause(id)
    <3>1. NoUnpause(id)'
      BY <2>3 DEF NoUnpause
    <3> QED BY <2>1, <2>3, <3>1
  <2> QED BY <2>1, <2>2, <2>3
<1>4. TimeLeft(id)' >= TimeLeft(id)
  BY <1>2, <1>3
<1> QED BY <1>4, SparedWhenNotLess


\* The writes that are no grant: what is left stays what the call has computed,
\* for a pause up to less than a second.
LEMMA WriteTimeLeft ==
  ASSUME RowInv, RowInv', Alone, CallsAreCurrent, NEW h \in Handlers, Write(h), ~Grant(h),
         ~UnpauseCheck(h), NEW id \in Ids, Counting(id), Counting(id)', now' = now
  PROVE  Spared(id)
<1>1. \A g \in Handlers : handler'[g] = Idle
  BY OneWrite
<1>2. NoUnpause(id)'
  BY <1>1 DEF NoUnpause, Idle
<1>3. PICK c : c = handler[h] /\ CallMatchesRow(c) /\ CallIsCurrent(c)
  BY DEF RowInv, CallsMatchRows, CallsAreCurrent
<1>4. PICK d : d = domains[id] /\ d \in Row
  BY DEF RowInv, TypeOK
<1>5. Exists(id) /\ Exists(id)'
  BY DEF Counting, Exists
<1>6. ASSUME c.op # "unpause" \/ c.id # id PROVE NoUnpause(id)
  BY <1>3, <1>6 DEF NoUnpause, Alone
<1>7. ASSUME c.op # "unpause" \/ c.id # id, domains'[id] = domains[id]
      PROVE  Spared(id)
  BY <1>2, <1>6, <1>7, SameTimeLeft
<1>8. CASE CreateInsert(h)
  <2>1. c.op = "create" /\ domains'[id] = domains[id]
    BY <1>3, <1>5, <1>8, CreateInsertEffect DEF CreateInsert, Finish, RowInv, TypeOK
  <2> QED BY <1>7, <2>1
<1>9. CASE DeleteWrite(h)
  <2>1. c.op = "delete" /\ domains'[id] = domains[id]
    BY <1>3, <1>5, <1>9, DeleteWriteIds, PurgeRemoves DEF DeleteWrite, Finish
  <2> QED BY <1>7, <2>1
<1>10. CASE RestoreWrite(h)
  <2>1. c.op = "restore" /\ c.id \in Ids /\ Update(c.id, Restored(domains[c.id]))
    BY <1>3, <1>10 DEF RestoreWrite, Finish, CallMatchesRow
  <2>2. c.id # id
    <3>1. ASSUME c.id = id PROVE FALSE
      <4>1. domains'[id].status = "active"
        BY <1>4, <1>5, <2>1, <3>1 DEF Update, Restored, Row, RowInv, TypeOK
      <4> QED BY <4>1 DEF Counting
    <3> QED BY <3>1
  <2>3. domains'[id] = domains[id]
    BY <2>1, <2>2 DEF Update, RowInv, TypeOK
  <2> QED BY <1>7, <2>2, <2>3
<1>11. CASE PauseWrite(h)
  <2>1. /\ c.op = "pause" /\ c.id \in Ids /\ c.time \in Nat
        /\ Update(c.id, [domains[c.id] EXCEPT !.retention_paused = TRUE,
                                              !.retention_remaining_seconds = c.time])
    BY <1>3, <1>11 DEF PauseWrite, Finish, CallMatchesRow
  <2>2. CASE c.id # id
    <3>1. domains'[id] = domains[id]
      BY <2>1, <2>2 DEF Update, RowInv, TypeOK
    <3> QED BY <1>7, <2>1, <3>1
  <2>3. CASE c.id = id
    <3>1. ~d.retention_paused /\ c.time > (d.retention_delete_at - now) - Second
      BY <1>3, <1>4, <1>5, <2>1, <2>3 DEF CallIsCurrent
    <3>2. TimeLeft(id) = d.retention_delete_at - now
      BY <1>4, <1>6, <2>1, <3>1, TimeLeftNow DEF RowTimeLeft
    <3>3. domains'[id].retention_paused /\ domains'[id].retention_remaining_seconds = c.time
      BY <1>4, <1>5, <2>1, <2>3 DEF Update, Row, RowInv, TypeOK
    <3>4. TimeLeft(id)' = c.time
      BY <1>2, <3>3, TimeLeftNext DEF RowTimeLeft
    <3>5. Pausing(id)
      BY <1>3, <1>11, <2>3 DEF Pausing
    <3> QED BY <3>1, <3>2, <3>4, <3>5 DEF Spared
  <2> QED BY <2>2, <2>3
<1>12. CASE UnpauseWrite(h)
  <2>1. /\ c.op = "unpause" /\ c.id \in Ids /\ c.time \in Nat
        /\ Update(c.id, [domains[c.id] EXCEPT !.retention_paused = FALSE,
                                              !.retention_delete_at = c.time])
    BY <1>3, <1>12 DEF UnpauseWrite, Finish, CallMatchesRow
  <2>2. CASE c.id # id
    <3>1. domains'[id] = domains[id]
      BY <2>1, <2>2 DEF Update, RowInv, TypeOK
    <3> QED BY <1>7, <2>2, <3>1
  <2>3. CASE c.id = id
    <3>1. TimeLeft(id) = c.time - now /\ now \in Nat
      BY <1>3, <2>1, <2>3, TimeLeftNow DEF RowInv, TypeOK
    <3>2. ~domains'[id].retention_paused /\ domains'[id].retention_delete_at = c.time
      BY <1>4, <1>5, <2>1, <2>3 DEF Update, Row, RowInv, TypeOK
    <3>3. TimeLeft(id)' = c.time - now
      BY <1>2, <3>2, TimeLeftNext DEF RowTimeLeft
    <3> QED BY <2>1, <3>1, <3>3, SparedWhenNotLess
  <2> QED BY <2>2, <2>3
<1> QED BY <1>8, <1>9, <1>10, <1>11, <1>12 DEF Write, Grant

\* A call that begins is not yet an unpause that has its deadline.
ReadOther(h) == \E request, call : Begin(h, request, call) /\ call.op # "unpause"

LEMMA ReadBegins ==
  ASSUME NEW h \in Handlers, Read(h)
  PROVE  ReadOther(h)
<1>1. PICK id \in Ids :
         \/ \E name \in Names : CreateCheck(h, id, name)
         \/ \E days \in RetentionDays \cup {Null} : ArchiveRead(h, id, days)
         \/ RestoreRead(h, id)
         \/ DeleteRead(h, id)
         \/ PauseRead(h, id)
         \/ UnpauseRead(h, id)
         \/ \E days \in RetentionDays : SetRetentionRead(h, id, days)
  BY DEF Read
<1>0. ASSUME NEW request, NEW call, Begin(h, request, call), call.op # "unpause"
      PROVE  ReadOther(h)
  BY <1>0 DEF ReadOther
<1> USE DEF Idle
<1>2. ASSUME NEW name \in Names, CreateCheck(h, id, name)
      PROVE  ReadOther(h)
  BY <1>0, <1>2 DEF CreateCheck
<1>3. ASSUME NEW days \in RetentionDays \cup {Null}, ArchiveRead(h, id, days)
      PROVE  ReadOther(h)
  BY <1>0, <1>3 DEF ArchiveRead
<1>4. CASE RestoreRead(h, id)
  BY <1>0, <1>4 DEF RestoreRead
<1>5. CASE DeleteRead(h, id)
  BY <1>0, <1>5 DEF DeleteRead
<1>6. CASE PauseRead(h, id)
  BY <1>0, <1>6 DEF PauseRead
<1>7. CASE UnpauseRead(h, id)
  BY <1>0, <1>7 DEF UnpauseRead
<1>8. ASSUME NEW days \in RetentionDays, SetRetentionRead(h, id, days)
      PROVE  ReadOther(h)
  BY <1>0, <1>8 DEF SetRetentionRead
<1> QED BY <1>1, <1>2, <1>3, <1>4, <1>5, <1>6, <1>7, <1>8

\* No step but the clock's takes time from a row that stays archived.
LEMMA TimeLeftStep ==
  ASSUME RowInv, RowInv', Alone, CallsAreCurrent, [Next]_vars,
         NEW id \in Ids, Counting(id), Counting(id)', now' = now,
         ~\E h \in Handlers : Grant(h)
  PROVE  Spared(id)
<1>1. ASSUME NEW h \in Handlers, Read(h) PROVE Spared(id)
  <2>1. /\ domains' = domains /\ handler[h] = Idle
        /\ \E call : handler' = [handler EXCEPT ![h] = call] /\ call.op # "unpause"
    BY <1>1, ReadBegins DEF ReadOther, Begin, tables
  <2>2. NoUnpause(id) /\ NoUnpause(id)'
    BY <2>1, OneCall DEF NoUnpause, Alone, Idle
  <2> QED BY <2>1, <2>2, SameTimeLeft
<1>2. ASSUME NEW h \in Handlers, Write(h) PROVE Spared(id)
  <2>1. CASE ~UnpauseCheck(h)
    BY <1>2, <2>1, WriteTimeLeft
  <2>2. CASE UnpauseCheck(h)
    <3>1. domains' = domains /\ NoUnpause(id)
      <4>1. domains' = domains /\ handler[h].op = "unpause_check"
        BY <2>2 DEF UnpauseCheck, tables
      <4>2. \A g \in Handlers : g = h
        BY DEF Alone
      <4> QED BY <4>1, <4>2 DEF NoUnpause
    <3>2. CASE \A g \in Handlers : handler'[g] = Idle
      BY <3>1, <3>2, SameTimeLeft DEF NoUnpause, Idle
    <3>3. ASSUME NEW call, call.op = "unpause", call.id \in Ids,
                 domains[call.id].retention_paused,
                 domains[call.id].retention_remaining_seconds \in Nat,
                 call.time = now + domains[call.id].retention_remaining_seconds,
                 \A g \in Handlers : handler'[g] = call
          PROVE  Spared(id)
      <4>1. CASE call.id # id
        BY <3>1, <3>3, <4>1, SameTimeLeft DEF NoUnpause
      <4>2. CASE call.id = id
        <5>1. TimeLeft(id) = domains[id].retention_remaining_seconds
          BY <3>1, <3>3, <4>2, TimeLeftNow DEF RowTimeLeft
        <5>2. TimeLeft(id)' = call.time - now
          BY <3>3, <4>2, TimeLeftNext
        <5>3. now \in Nat
          BY DEF RowInv, TypeOK
        <5>4. TimeLeft(id)' >= TimeLeft(id)
          BY <3>3, <4>2, <5>1, <5>2, <5>3
        <5> QED BY <5>4, SparedWhenNotLess
      <4> QED BY <4>1, <4>2
    <3> QED BY <2>2, <3>2, <3>3, UnpauseCheckEffect
  <2> QED BY <2>1, <2>2
<1>3. CASE Purge
  <2>1. PICK i \in Ids, name \in Names : PurgeNext(i, name)
    BY <1>3 DEF Purge
  <2>2. domains'[id] = domains[id] /\ handler' = handler
    BY <2>1, PurgeRemoves DEF PurgeNext, Exists, Counting
  <2> QED BY <2>2, SameTimeLeft
<1>4. ~Tick
  BY DEF Tick, RowInv, TypeOK
<1>5. CASE ~(\E h \in Handlers : Read(h) \/ Write(h)) /\ ~Purge
  <2>1. domains' = domains /\ (handler' = handler \/ handler' = [h \in Handlers |-> Idle])
    BY <1>4, <1>5, Elsewhere
  <2>2. CASE handler' = handler \/ NoUnpause(id)
    BY <2>1, <2>2, SameTimeLeft DEF NoUnpause, Idle
  <2>3. CASE handler' = [h \in Handlers |-> Idle] /\ ~NoUnpause(id)
    <3>1. PICK h \in Handlers : handler[h].op = "unpause" /\ handler[h].id = id
      BY <2>3 DEF NoUnpause
    <3>2. PICK c : c = handler[h] /\ CallIsCurrent(c) /\ CallMatchesRow(c)
      BY DEF CallsAreCurrent, RowInv, CallsMatchRows
    <3>3. /\ domains[id].retention_paused /\ c.time \in Nat
          /\ c.time <= now + domains[id].retention_remaining_seconds
      BY <3>1, <3>2 DEF CallIsCurrent, CallMatchesRow, Counting, Exists
    <3>4. TimeLeft(id) = c.time - now /\ RowTimeLeft(domains[id]) \in Int
      BY <3>1, <3>2, TimeLeftNow
    <3>5. NoUnpause(id)' /\ RowTimeLeft(domains[id])' = RowTimeLeft(domains[id])
      BY <2>1, <2>3 DEF NoUnpause, RowTimeLeft, Idle
    <3>6. TimeLeft(id)' = domains[id].retention_remaining_seconds
      BY <2>1, <3>3, <3>5, TimeLeftNext DEF RowTimeLeft
    <3>7. now \in Nat /\ domains[id].retention_remaining_seconds \in Int
      BY <3>3, <3>4 DEF RowTimeLeft, RowInv, TypeOK
    <3>8. TimeLeft(id)' >= TimeLeft(id)
      BY <3>3, <3>4, <3>6, <3>7
    <3> QED BY <3>8, SparedWhenNotLess
  <2> QED BY <2>1, <2>2, <2>3
<1> QED BY <1>1, <1>2, <1>3, <1>4, <1>5

\* Served one at a time, pauses and unpauses cost an archived domain no time but
\* the fraction of a second that each pause drops, even if the server stops between
\* the two halves of one; restores and deletions included.
THEOREM PausesCostUnderASecond == ASSUME Alone PROVE Spec => CountdownKept
<1>1. RowInv /\ RowInv' /\ CallsAreCurrent /\ [Next]_vars =>
        \A id \in Ids :
           /\ Counting(id) /\ Counting(id)'
           /\ now' = now
           /\ ~\E h \in Handlers : Grant(h)
           => Spared(id)
  BY TimeLeftStep
<1>2. RowInv /\ RowInv' /\ CallsAreCurrent /\ [Next]_vars =>
        \A id \in Ids :
           /\ Counting(id) /\ Counting(id)'
           /\ now' = now
           /\ ~\E h \in Handlers : Grant(h)
           => IF Pausing(id) THEN TimeLeft(id)' > TimeLeft(id) - Second
                             ELSE TimeLeft(id)' >= TimeLeft(id)
  BY <1>1 DEF Spared
<1> QED BY <1>2, RowInvariant, CurrentAlways, PTL DEF Spec, CountdownKept

=============================================================================
