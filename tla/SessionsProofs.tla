--------------------------- MODULE SessionsProofs ---------------------------
(***************************************************************************)
(* Proofs about module Sessions: its types, that a change or reset of a    *)
(* password that is not cut short revokes what was opened with the old     *)
(* one, and that the throttle counts every guess for a name and address    *)
(* whose attempts come one after the other, for any users, addresses,      *)
(* request threads and settings of the throttle.                           *)
(*                                                                         *)
(* The inductive invariant says what each place of a call implies: whose   *)
(* call it is, that a login past the check holds the current password or   *)
(* is marked late, and, for a key that is not disturbed, that one attempt  *)
(* at most is past the check and what it is about to write follows the row.*)
(***************************************************************************)
EXTENDS Sessions, TLAPS

\* Beyond the check of the password, and on the way into the throttle's table
Verified(h) == handler[h].op \in {"login_clear", "login_create"}
Failing(h) == handler[h].op \in {"failed_read", "failed_insert", "failed_update"}

\* What a call holds on to at each of its places.
CallsHeld ==
    \A h \in Handlers :
        /\ handler[h].op # "idle" => handler[h].key \in Keys
        /\ Verified(h) => handler[h].password \in Passwords
        /\ At(h, "failed_insert") \/ At(h, "failed_update") => handler[h].row \in ThrottleRow

\* A login beyond the check has the password its user has now, or is known to be late.
VerifiedOrLate ==
    \A h \in Handlers :
        Verified(h) => handler[h].late \/ handler[h].password = users[User(h)].password

TypesInv == TypeOK /\ CallsHeld
RevokedInv == VerifiedOrLate /\ RevokedWithPassword

-----------------------------------------------------------------------------
(* Operators.                                                              *)

\* A row of the throttle stays one as it ages.
LEMMA OlderType ==
    ASSUME NEW row \in ThrottleRow \union {Null}
    PROVE  /\ Older(row) \in ThrottleRow \union {Null}
           /\ row \in ThrottleRow => Older(row) \in ThrottleRow
<1>1. CASE row = Null
  BY <1>1 DEF Older
<1>2. CASE row # Null
  <2>1. row \in ThrottleRow
    BY <1>2
  <2>2. Older(row) = [count |-> row.count,
                      age |-> IF row.age <= Window THEN row.age + 1 ELSE row.age,
                      left |-> IF row.left > 0 THEN row.left - 1 ELSE 0]
    BY <1>2, <2>1 DEF Older, ThrottleRow
  <2>3. /\ row.count \in Nat \ {0} /\ row.age \in 0 .. Window + 1 /\ row.left \in 0 .. Block
        /\ Window \in Nat /\ Block \in Nat
    BY <2>1, SessionsAssumption DEF ThrottleRow
  <2>4. /\ (IF row.age <= Window THEN row.age + 1 ELSE row.age) \in 0 .. Window + 1
        /\ (IF row.left > 0 THEN row.left - 1 ELSE 0) \in 0 .. Block
    BY <2>3
  <2>. QED  BY <2>2, <2>3, <2>4 DEF ThrottleRow
<1>. QED  BY <1>1, <1>2

\* What record_failed_login computes is a row, however old the one it has read.
LEMMA RecordedType ==
    ASSUME NEW row \in ThrottleRow
    PROVE  Recorded(row) \in ThrottleRow
BY SessionsAssumption DEF Recorded, ThrottleRow

\* So is a first failure.
LEMMA FirstType == FirstFailure \in ThrottleRow
BY SessionsAssumption DEF FirstFailure, ThrottleRow

\* The history of the guesses has its types.
CountingOK == /\ guesses \in [Keys -> Nat] /\ recent \in [Keys -> [0 .. Window -> Nat]]
              /\ disturbed \subseteq Keys

\* Whatever is done to the history of a key keeps them.
LEMMA CountingType ==
    ASSUME CountingOK, NEW h \in Handlers, NEW k \in Keys,
           \/ UNCHANGED counting \/ Disturb(k) \/ Guess(k)
           \/ handler[h].key = k /\ (BeginCount(h, 0) \/ BeginCount(h, 1))
    PROVE  CountingOK'
<1>0. NoGuesses \in [0 .. Window -> Nat] /\ 0 \in 0 .. Window
  BY SessionsAssumption DEF NoGuesses
<1>1. CASE UNCHANGED counting
  BY <1>1 DEF counting, CountingOK
<1>2. CASE Disturb(k)
  BY <1>0, <1>2 DEF Disturb, CountingOK
<1>3. CASE Guess(k)
  <2>1. recent[k] \in [0 .. Window -> Nat]
    BY DEF CountingOK
  <2>2. recent' \in [Keys -> [0 .. Window -> Nat]]
    <3>1. CASE k \in disturbed
      BY <1>3, <3>1 DEF Guess, CountingOK
    <3>2. CASE k \notin disturbed
      <4>1. recent' = [recent EXCEPT ![k] = [recent[k] EXCEPT ![0] = recent[k][0] + 1]]
        BY <1>3, <3>2, <2>1 DEF Guess, CountingOK
      <4>2. \A f \in [0 .. Window -> Nat] : [f EXCEPT ![0] = f[0] + 1] \in [0 .. Window -> Nat]
        BY <1>0
      <4>3. [recent[k] EXCEPT ![0] = recent[k][0] + 1] \in [0 .. Window -> Nat]
        BY <2>1, <4>2
      <4>. QED  BY <4>1, <4>3 DEF CountingOK
    <3>. QED  BY <3>1, <3>2
  <2>3. guesses' \in [Keys -> Nat]
    BY <1>3 DEF Guess, CountingOK
  <2>. QED  BY <1>3, <2>2, <2>3 DEF Guess, CountingOK
<1>4. ASSUME NEW first \in {0, 1}, handler[h].key = k, BeginCount(h, first)
      PROVE  CountingOK'
  <2>. DEFINE fresh == [age \in 0 .. Window |-> IF age = handler[h].row.age THEN 1 ELSE 0]
  <2>1. fresh \in [0 .. Window -> Nat] /\ recent[k] \in [0 .. Window -> Nat]
    BY DEF CountingOK
  <2>2. CASE Overlap(h, k)
    BY <1>4, <2>2 DEF BeginCount, counting, CountingOK
  <2>3. CASE ~Overlap(h, k)
    <3>1. recent' = [recent EXCEPT ![k] = IF first = 0 THEN NoGuesses
                                          ELSE IF k \notin disturbed THEN recent[k] ELSE fresh]
      BY <1>4, <2>3 DEF BeginCount, CountingOK
    <3>2. recent' \in [Keys -> [0 .. Window -> Nat]]
      <4>. HIDE DEF fresh
      <4>. QED  BY <1>0, <2>1, <3>1 DEF CountingOK
    <3>. QED  BY <1>4, <2>3, <3>2 DEF BeginCount, CountingOK
  <2>. QED  BY <2>2, <2>3
<1>. QED  BY <1>1, <1>2, <1>3, <1>4

-----------------------------------------------------------------------------
(* Types.                                                                  *)

\* The initial state has its types.
LEMMA TypesInit == Init => TypesInv
<1>. SUFFICES ASSUME Init PROVE TypesInv
  OBVIOUS
<1>1. TypeOK
  BY SessionsAssumption DEF Init, TypeOK, Call, Idle, Passwords, NoGuesses
<1>2. CallsHeld
  BY DEF Init, CallsHeld, Idle, Verified, At
<1>. QED  BY <1>1, <1>2 DEF TypesInv

\* Taking up a call keeps the types and what calls hold on to.
LEMMA EnterTypes ==
    ASSUME TypesInv, NEW h \in Handlers, NEW k \in Keys, NEW op, NEW p,
           op \in {"login_extend", "login_verify", "change_verify", "reset_write"},
           p \in Passwords \union {Null}, Enter(h, op, k, p)
    PROVE  handler' \in [Handlers -> Call] /\ CallsHeld'
<1>1. [Idle EXCEPT !.op = op, !.key = k, !.password = p] \in Call
  BY DEF Idle, Call
<1>2. handler' \in [Handlers -> Call]
  BY <1>1 DEF Enter, TypesInv, TypeOK
<1>3. CallsHeld'
  BY <1>1 DEF Enter, TypesInv, TypeOK, CallsHeld, Verified, At, Idle
<1>. QED  BY <1>2, <1>3

\* A step of a call keeps the types.
LEMMA StepTypes ==
    ASSUME TypesInv, NEW h \in Handlers, Step(h)
    PROVE  TypeOK' /\ CallsHeld'
<1>. USE DEF TypesInv
<1>k. handler[h].op # "idle" /\ handler[h].key \in Keys /\ handler[h] \in Call
  BY DEF Step, CallsHeld, At, TypeOK, LoginExtend, LoginVerify, LoginClear, LoginCreate,
         FailedRead, FailedInsert, FailedUpdate, ChangeVerify, ChangeWrite, ResetWrite,
         Invalidate
<1>u. User(h) \in Users
  BY <1>k DEF Keys, User
<1>c. CountingOK'
  <2>1. CountingOK
    BY DEF TypeOK, CountingOK
  <2>2. \/ UNCHANGED counting \/ Guess(handler[h].key) \/ BeginCount(h, 0) \/ BeginCount(h, 1)
    BY DEF Step, LoginExtend, LoginVerify, LoginClear, LoginCreate, FailedRead, FailedInsert,
           FailedUpdate, ChangeVerify, ChangeWrite, ResetWrite, Invalidate, Replace
  <2>. QED  BY <1>k, <2>1, <2>2, CountingType
<1>v. unrevoked' \subseteq Users
  BY DEF Step, LoginExtend, LoginVerify, LoginClear, LoginCreate, FailedRead, FailedInsert,
         FailedUpdate, ChangeVerify, ChangeWrite, ResetWrite, Invalidate, Replace, TypeOK
<1>1. CASE LoginExtend(h)
  <2>1. handler' \in [Handlers -> Call] /\ CallsHeld'
    BY <1>1, <1>k DEF LoginExtend, Goto, TypeOK, Call, Idle, CallsHeld, Verified, At
  <2>2. throttle' \in [Keys -> ThrottleRow \union {Null}]
    <3>1. \A row \in ThrottleRow : [row EXCEPT !.left = Block] \in ThrottleRow
      BY SessionsAssumption DEF ThrottleRow
    <3>. QED  BY <1>1, <1>k, <3>1 DEF LoginExtend, TypeOK
  <2>. QED  BY <1>1, <1>c, <1>v, <2>1, <2>2 DEF LoginExtend, TypeOK, CountingOK
<1>2. CASE LoginVerify(h)
  <2>1. handler' \in [Handlers -> Call] /\ CallsHeld'
    <3>1. CASE users[User(h)].enabled /\ handler[h].password = users[User(h)].password
      <4>1. handler' = [handler EXCEPT ![h] = [@ EXCEPT !.op = "login_clear"]]
        BY <1>2, <3>1 DEF LoginVerify, Goto
      <4>2. handler[h].password \in Passwords
        BY <3>1, <1>u DEF TypeOK
      <4>. QED  BY <4>1, <4>2, <1>k DEF TypeOK, Call, CallsHeld, Verified, At
    <3>2. CASE ~ (users[User(h)].enabled /\ handler[h].password = users[User(h)].password)
      <4>1. handler' = [handler EXCEPT ![h] = [@ EXCEPT !.op = "failed_read"]]
        BY <1>2, <3>2 DEF LoginVerify, Goto
      <4>. QED  BY <4>1, <1>k DEF TypeOK, Call, CallsHeld, Verified, At
    <3>. QED  BY <3>1, <3>2
  <2>. QED  BY <1>2, <1>c, <1>v, <2>1 DEF LoginVerify, TypeOK, CountingOK
<1>3. CASE LoginClear(h)
  <2>1. handler' \in [Handlers -> Call] /\ CallsHeld'
    BY <1>3, <1>k DEF LoginClear, Goto, TypeOK, Call, Idle, CallsHeld, Verified, At
  <2>2. throttle' \in [Keys -> ThrottleRow \union {Null}]
    BY <1>3, <1>k DEF LoginClear, TypeOK
  <2>. QED  BY <1>3, <1>c, <1>v, <2>1, <2>2 DEF LoginClear, TypeOK, CountingOK
<1>4. CASE LoginCreate(h)
  <2>1. handler' \in [Handlers -> Call] /\ CallsHeld'
    BY <1>4, <1>k DEF LoginCreate, Goto, TypeOK, Call, Idle, CallsHeld, Verified, At
  <2>2. [user |-> User(h), password |-> handler[h].password, late |-> handler[h].late]
          \in Session
    BY <1>4, <1>k, <1>u DEF LoginCreate, CallsHeld, Verified, At, Session, Call
  <2>. QED  BY <1>4, <1>c, <1>v, <2>1, <2>2 DEF LoginCreate, TypeOK, CountingOK
<1>5. CASE FailedRead(h)
  <2>. DEFINE row == throttle[handler[h].key]
              new == IF row = Null THEN FirstFailure ELSE Recorded(row)
  <2>1. new \in ThrottleRow
    <3>1. row \in ThrottleRow \union {Null}
      BY <1>k DEF TypeOK
    <3>. QED  BY <3>1, RecordedType, FirstType
  <2>0. handler' = [handler EXCEPT ![h].op = IF row = Null THEN "failed_insert"
                                             ELSE "failed_update",
                                   ![h].row = new]
    BY <1>5 DEF FailedRead
  <2>. HIDE DEF row, new
  <2>2. handler' \in [Handlers -> Call]
    BY <1>k, <2>0, <2>1 DEF TypeOK, Call
  <2>3. CallsHeld'
    BY <1>k, <2>0, <2>1 DEF TypeOK, Call, CallsHeld, Verified, At
  <2>. QED  BY <1>5, <1>c, <1>v, <2>2, <2>3 DEF FailedRead, TypeOK, CountingOK
<1>6. CASE FailedInsert(h)
  <2>1. handler' \in [Handlers -> Call] /\ CallsHeld'
    BY <1>6, <1>k DEF FailedInsert, Goto, TypeOK, Call, Idle, CallsHeld, Verified, At
  <2>2. handler[h].row \in ThrottleRow
    BY <1>6 DEF FailedInsert, CallsHeld
  <2>3. throttle' \in [Keys -> ThrottleRow \union {Null}]
    BY <1>6, <1>k, <2>2 DEF FailedInsert, TypeOK
  <2>. QED  BY <1>6, <1>c, <1>v, <2>1, <2>3 DEF FailedInsert, TypeOK, CountingOK
<1>7. CASE FailedUpdate(h)
  <2>1. handler' \in [Handlers -> Call] /\ CallsHeld'
    BY <1>7, <1>k DEF FailedUpdate, Goto, TypeOK, Call, Idle, CallsHeld, Verified, At
  <2>2. throttle' \in [Keys -> ThrottleRow \union {Null}]
    BY <1>7, <1>k DEF FailedUpdate, TypeOK, CallsHeld, At
  <2>. QED  BY <1>7, <1>c, <1>v, <2>1, <2>2 DEF FailedUpdate, TypeOK, CountingOK
<1>8. CASE ChangeVerify(h)
  <2>1. handler' \in [Handlers -> Call] /\ CallsHeld'
    BY <1>8, <1>k DEF ChangeVerify, Goto, TypeOK, Call, Idle, CallsHeld, Verified, At
  <2>. QED  BY <1>8, <1>c, <1>v, <2>1 DEF ChangeVerify, TypeOK, CountingOK
<1>9. ASSUME NEW rows \in [Users -> [password : Passwords, enabled : BOOLEAN]],
             Replace(h, rows)
      PROVE  TypeOK' /\ CallsHeld'
  <2>1. handler' \in [Handlers -> Call] /\ CallsHeld'
    BY <1>9, <1>k DEF Replace, TypeOK, Call, CallsHeld, Verified, At
  <2>. QED  BY <1>9, <1>c, <1>v, <2>1 DEF Replace, TypeOK, CountingOK
<1>10. users[User(h)].password < MaxPasswords =>
          NewPassword(User(h)) \in [Users -> [password : Passwords, enabled : BOOLEAN]]
  BY <1>u, SessionsAssumption DEF NewPassword, TypeOK, Passwords
<1>11. CASE ChangeWrite(h)
  BY <1>9, <1>10, <1>11 DEF ChangeWrite, TypeOK
<1>12. CASE ResetWrite(h)
  BY <1>9, <1>10, <1>12 DEF ResetWrite
<1>13. CASE Invalidate(h)
  <2>1. handler' \in [Handlers -> Call] /\ CallsHeld'
    BY <1>13, <1>k DEF Invalidate, Goto, TypeOK, Call, Idle, CallsHeld, Verified, At
  <2>. QED  BY <1>13, <1>c, <1>v, <2>1 DEF Invalidate, TypeOK, CountingOK
<1>. QED  BY <1>1, <1>2, <1>3, <1>4, <1>5, <1>6, <1>7, <1>8, <1>11, <1>12, <1>13
     DEF Step

\* A call that is cut short leaves nothing ill-typed behind.
LEMMA InterruptTypes ==
    ASSUME TypesInv, NEW h \in Handlers, Interrupt(h)
    PROVE  TypeOK' /\ CallsHeld'
<1>. USE DEF TypesInv
<1>1. handler[h].key \in Keys /\ User(h) \in Users
  BY DEF Interrupt, CallsHeld, User, Keys
<1>2. CountingOK'
  <2>1. CountingOK /\ (UNCHANGED counting \/ Disturb(handler[h].key))
    BY DEF Interrupt, TypeOK, CountingOK
  <2>. QED  BY <1>1, <2>1, CountingType
<1>3. handler' = [handler EXCEPT ![h] = Idle]
  BY DEF Interrupt, Goto
<1>4. handler' \in [Handlers -> Call] /\ CallsHeld'
  BY <1>3 DEF TypeOK, Call, Idle, CallsHeld, Verified, At
<1>5. unrevoked' \subseteq Users
  BY <1>1 DEF Interrupt, TypeOK
<1>. QED  BY <1>2, <1>4, <1>5 DEF Interrupt, TypeOK, CountingOK

\* Minutes pass, and accounts and sessions come to an end, without touching what calls hold.
LEMMA OutsideTypes ==
    ASSUME TypesInv, Tick \/ (\E s \in sessions : Logout(s)) \/ \E u \in Users : Disable(u)
    PROVE  TypeOK' /\ CallsHeld'
<1>. USE DEF TypesInv
<1>1. CASE Tick
  <2>1. throttle' \in [Keys -> ThrottleRow \union {Null}]
    BY <1>1, OlderType DEF Tick, TypeOK
  <2>2. \A h \in Handlers : /\ handler[h].row \in ThrottleRow \union {Null}
                            /\ handler[h] \in Call
    BY DEF TypeOK, Call
  <2>3. \A h \in Handlers : handler'[h] = [handler[h] EXCEPT !.row = Older(@)]
    BY <1>1 DEF Tick
  <2>4. handler' \in [Handlers -> Call]
    <3>1. \A h \in Handlers : [handler[h] EXCEPT !.row = Older(@)] \in Call
      BY <2>2, OlderType DEF Call
    <3>. QED  BY <1>1, <3>1 DEF Tick
  <2>5. CallsHeld'
    <3>. SUFFICES ASSUME NEW h \in Handlers
                  PROVE  /\ handler'[h].op # "idle" => handler'[h].key \in Keys
                         /\ handler'[h].op \in {"login_clear", "login_create"} =>
                               handler'[h].password \in Passwords
                         /\ handler'[h].op \in {"failed_insert", "failed_update"} =>
                               handler'[h].row \in ThrottleRow
      BY DEF CallsHeld, Verified, At
    <3>1. /\ handler'[h].op = handler[h].op /\ handler'[h].key = handler[h].key
          /\ handler'[h].password = handler[h].password
          /\ handler'[h].row = Older(handler[h].row)
      BY <2>2, <2>3 DEF Call
    <3>. QED  BY <2>2, <3>1, OlderType DEF CallsHeld, Verified, At
  <2>6. recent' \in [Keys -> [0 .. Window -> Nat]]
    <3>1. \A k \in Keys : recent[k] \in [0 .. Window -> Nat]
      BY DEF TypeOK
    <3>2. \A k \in Keys, age \in 0 .. Window :
             (IF age = 0 THEN 0 ELSE recent[k][age - 1]) \in Nat
      BY <3>1, SessionsAssumption
    <3>. QED  BY <1>1, <3>2 DEF Tick
  <2>. QED  BY <1>1, <2>1, <2>4, <2>5, <2>6 DEF Tick, TypeOK
<1>2. ASSUME NEW s \in sessions, Logout(s)
      PROVE  TypeOK' /\ CallsHeld'
  BY <1>2 DEF Logout, counting, TypeOK, CallsHeld, Verified, At
<1>3. ASSUME NEW u \in Users, Disable(u)
      PROVE  TypeOK' /\ CallsHeld'
  <2>1. users' \in [Users -> [password : Passwords, enabled : BOOLEAN]]
    BY <1>3 DEF Disable, TypeOK
  <2>. QED  BY <1>3, <2>1 DEF Disable, counting, TypeOK, CallsHeld, Verified, At
<1>. QED  BY <1>1, <1>2, <1>3

\* The invariant of the types is kept by every step.
LEMMA TypesStep == TypesInv /\ [Next]_vars => TypesInv'
<1>. SUFFICES ASSUME TypesInv, [Next]_vars PROVE TypeOK' /\ CallsHeld'
  BY DEF TypesInv
<1>1. ASSUME NEW h \in Handlers, NEW k \in Keys,
             LoginCheck(h, k) \/ ChangeBegin(h, k) \/ ResetBegin(h, k)
      PROVE  TypeOK' /\ CallsHeld'
  <2>1. PICK op \in {"login_extend", "login_verify", "change_verify", "reset_write"},
             p \in {users[k[1]].password, Null} : Enter(h, op, k, p)
    BY <1>1 DEF LoginCheck, ChangeBegin, ResetBegin
  <2>2. p \in Passwords \union {Null}
    BY DEF TypesInv, TypeOK, Keys
  <2>3. handler' \in [Handlers -> Call] /\ CallsHeld'
    BY <2>1, <2>2, EnterTypes
  <2>4. CountingOK'
    <3>1. CountingOK /\ (UNCHANGED counting \/ Disturb(k))
      BY <1>1 DEF LoginCheck, ChangeBegin, ResetBegin, TypesInv, TypeOK, CountingOK
    <3>. QED  BY <3>1, CountingType
  <2>5. UNCHANGED <<users, sessions, throttle, unrevoked>>
    BY <1>1 DEF LoginCheck, ChangeBegin, ResetBegin
  <2>. QED  BY <2>3, <2>4, <2>5 DEF TypesInv, TypeOK, CountingOK
<1>2. CASE UNCHANGED vars
  BY <1>2 DEF vars, counting, TypesInv, TypeOK, CallsHeld, Verified, At
<1>. QED  BY <1>1, <1>2, StepTypes, InterruptTypes, OutsideTypes DEF Next

\* The types of the specification: in particular no block outlasts THROTTLE_BLOCK_MINUTES and
\* a password always exists, whatever the interleaving of logins, changes and resets.
THEOREM SessionsTypes == Spec => []TypeOK
<1>1. TypesInv => TypeOK
  BY DEF TypesInv
<1>. QED  BY TypesInit, TypesStep, <1>1, PTL DEF Spec

-----------------------------------------------------------------------------
(* Revocation.                                                             *)

\* A new password marks the logins that have verified the old one, and its sessions are those
\* the call under way is about to remove.
LEMMA ReplaceRevoked ==
    ASSUME TypesInv, RevokedInv, NEW h \in Handlers, handler[h].key \in Keys,
           ~ Verified(h), handler[h].op # "invalidate",
           NEW rows, rows = users \/ rows = NewPassword(User(h)), Replace(h, rows)
    PROVE  RevokedInv'
<1>. USE DEF TypesInv, RevokedInv
<1>1. \A g \in Handlers : /\ handler'[g].key = handler[g].key
                          /\ handler'[g].password = handler[g].password
                          /\ handler[g].late => handler'[g].late
                          /\ g # h => handler'[g].op = handler[g].op
                          /\ Verified(g) /\ rows # users /\ User(g) = User(h) =>
                                handler'[g].late
  BY DEF Replace, TypeOK, Call, Verified
<1>2. handler'[h].op = "invalidate" /\ User(h)' = User(h)
  BY <1>1 DEF Replace, User, TypeOK, Call
<1>3. \A u \in Users : rows = users \/ u # User(h) => users'[u].password = users[u].password
  BY DEF Replace, NewPassword, TypeOK
<1>4. VerifiedOrLate'
  <2>. SUFFICES ASSUME NEW g \in Handlers, Verified(g)'
                PROVE  handler'[g].late \/ handler'[g].password = users'[User(g)'].password
    BY DEF VerifiedOrLate
  <2>1. g # h /\ Verified(g) /\ User(g)' = User(g)
    BY <1>1, <1>2 DEF Verified, User
  <2>2. User(g) \in Users
    BY <2>1 DEF CallsHeld, Verified, User, Keys
  <2>3. handler[g].late \/ handler[g].password = users[User(g)].password
    BY <2>1 DEF VerifiedOrLate
  <2>. QED  BY <1>1, <1>3, <2>1, <2>2, <2>3
<1>5. RevokedWithPassword'
  <2>. SUFFICES ASSUME NEW s \in sessions, s.password # users'[s.user].password
                PROVE  \/ s.late \/ s.user \in unrevoked
                       \/ \E g \in Handlers : At(g, "invalidate")' /\ User(g)' = s.user
    BY DEF Replace, RevokedWithPassword
  <2>1. CASE s.user = User(h)
    BY <1>2, <2>1 DEF At
  <2>2. CASE s.user # User(h)
    <3>1. s.user \in Users
      BY DEF TypeOK, Session
    <3>2. \/ s.late \/ s.user \in unrevoked
          \/ \E g \in Handlers : At(g, "invalidate") /\ User(g) = s.user
      BY <1>3, <2>2, <3>1 DEF RevokedWithPassword
    <3>. QED  BY <1>1, <2>2, <3>2 DEF At, User
  <2>. QED  BY <2>1, <2>2
<1>. QED  BY <1>4, <1>5

\* A step keeps the invariant when it opens no session, changes no password, leaves calls that
\* invalidate where they are or remembers that they were cut short, and lets into the places
\* beyond the check only the password of the moment.
LEMMA QuietRevoked ==
    ASSUME TypesInv, RevokedInv, sessions' \subseteq sessions,
           \A u \in Users : users'[u].password = users[u].password,
           unrevoked \subseteq unrevoked',
           \A g \in Handlers : At(g, "invalidate") =>
               \/ At(g, "invalidate")' /\ User(g)' = User(g)
               \/ User(g) \in unrevoked',
           \A g \in Handlers : Verified(g)' =>
               /\ User(g)' = User(g) /\ User(g) \in Users
               /\ handler'[g].password = handler[g].password
               /\ \/ Verified(g) /\ handler'[g].late = handler[g].late
                  \/ handler[g].password = users[User(g)].password
    PROVE  RevokedInv'
<1>. USE DEF TypesInv, RevokedInv
<1>1. VerifiedOrLate'
  <2>. SUFFICES ASSUME NEW g \in Handlers, Verified(g)'
                PROVE  handler'[g].late \/ handler'[g].password = users'[User(g)'].password
    BY DEF VerifiedOrLate
  <2>1. /\ User(g)' = User(g) /\ users'[User(g)].password = users[User(g)].password
        /\ handler'[g].password = handler[g].password
        /\ \/ Verified(g) /\ handler'[g].late = handler[g].late
           \/ handler[g].password = users[User(g)].password
    OBVIOUS
  <2>. QED  BY <2>1 DEF VerifiedOrLate
<1>2. RevokedWithPassword'
  <2>. SUFFICES ASSUME NEW s \in sessions', s.password # users'[s.user].password
                PROVE  \/ s.late \/ s.user \in unrevoked'
                       \/ \E g \in Handlers : At(g, "invalidate")' /\ User(g)' = s.user
    BY DEF RevokedWithPassword
  <2>1. s \in sessions /\ s.user \in Users
    BY DEF TypeOK, Session
  <2>2. \/ s.late \/ s.user \in unrevoked
        \/ \E g \in Handlers : At(g, "invalidate") /\ User(g) = s.user
    BY <2>1 DEF RevokedWithPassword
  <2>. QED  BY <2>2
<1>. QED  BY <1>1, <1>2

\* Every step of a call keeps the sessions revoked.
LEMMA StepRevoked ==
    ASSUME TypesInv, RevokedInv, NEW h \in Handlers, Step(h)
    PROVE  RevokedInv'
<1>. USE DEF TypesInv
<1>k. handler[h].op # "idle" /\ handler[h].key \in Keys /\ handler[h] \in Call
  BY DEF Step, CallsHeld, At, TypeOK, LoginExtend, LoginVerify, LoginClear, LoginCreate,
         FailedRead, FailedInsert, FailedUpdate, ChangeVerify, ChangeWrite, ResetWrite,
         Invalidate
<1>u. \A g \in Handlers : Verified(g) => User(g) \in Users
  BY DEF CallsHeld, Verified, User, Keys
<1>1. CASE LoginExtend(h) \/ FailedRead(h) \/ FailedInsert(h) \/ FailedUpdate(h)
           \/ ChangeVerify(h)
  <2>1. UNCHANGED <<users, sessions, unrevoked>>
    BY <1>1 DEF LoginExtend, FailedRead, FailedInsert, FailedUpdate, ChangeVerify
  <2>2. \A g \in Handlers : g # h => handler'[g] = handler[g]
    BY <1>1 DEF LoginExtend, FailedRead, FailedInsert, FailedUpdate, ChangeVerify, Goto, TypeOK
  <2>3. ~ At(h, "invalidate") /\ ~ Verified(h)'
    BY <1>1, <1>k DEF LoginExtend, FailedRead, FailedInsert, FailedUpdate, ChangeVerify, Goto,
                      At, Verified, TypeOK, Call, Idle
  <2>. QED  BY <2>1, <2>2, <2>3, <1>u, QuietRevoked DEF At, User, Verified
<1>2. CASE LoginVerify(h)
  <2>1. UNCHANGED <<users, sessions, unrevoked>> /\ ~ At(h, "invalidate")
    BY <1>2 DEF LoginVerify, At
  <2>2. \E op : Goto(h, op) /\ op # "idle"
                /\ (op # "failed_read" => handler[h].password = users[User(h)].password)
                /\ (op = "failed_read" \/ op = "login_clear")
    BY <1>2 DEF LoginVerify
  <2>3. PICK op : Goto(h, op) /\ op # "idle"
                /\ (op # "failed_read" => handler[h].password = users[User(h)].password)
                /\ (op = "failed_read" \/ op = "login_clear")
    BY <2>2
  <2>4. \A g \in Handlers : g # h => handler'[g] = handler[g]
    BY <2>3 DEF Goto, TypeOK
  <2>5. handler'[h].op = op /\ User(h)' = User(h) /\ handler'[h].password = handler[h].password
    BY <2>3, <1>k DEF Goto, TypeOK, Call, User
  <2>6. User(h) \in Users
    BY <1>k DEF User, Keys
  <2>. QED  BY <2>1, <2>3, <2>4, <2>5, <2>6, <1>u, QuietRevoked DEF At, User, Verified
<1>3. CASE LoginClear(h)
  <2>1. UNCHANGED <<users, sessions, unrevoked>> /\ Goto(h, "login_create") /\ Verified(h)
        /\ ~ At(h, "invalidate")
    BY <1>3 DEF LoginClear, At, Verified
  <2>2. \A g \in Handlers : /\ g # h => handler'[g] = handler[g]
                            /\ handler'[h] = [handler[h] EXCEPT !.op = "login_create"]
    BY <2>1 DEF Goto, TypeOK
  <2>3. /\ User(h)' = User(h) /\ handler'[h].password = handler[h].password
        /\ handler'[h].late = handler[h].late
    BY <2>2, <1>k DEF Call, User
  <2>. QED  BY <2>1, <2>2, <2>3, <1>u, QuietRevoked DEF At, User, Verified
<1>4. CASE LoginCreate(h)
  <2>. DEFINE new == [user |-> User(h), password |-> handler[h].password,
                      late |-> handler[h].late]
  <2>1. /\ UNCHANGED <<users, unrevoked>> /\ sessions' = sessions \union {new} /\ Verified(h)
        /\ handler' = [handler EXCEPT ![h] = Idle] /\ ~ At(h, "invalidate")
    BY <1>4 DEF LoginCreate, At, Verified, Goto
  <2>2. \A g \in Handlers : (g # h => handler'[g] = handler[g]) /\ handler'[h].op = "idle"
    BY <2>1 DEF Idle, TypeOK
  <2>3. VerifiedOrLate'
    BY <2>1, <2>2 DEF RevokedInv, VerifiedOrLate, Verified, User
  <2>4. new.password # users[new.user].password => new.late
    BY <2>1 DEF RevokedInv, VerifiedOrLate
  <2>5. \A g \in Handlers : At(g, "invalidate") => At(g, "invalidate")' /\ User(g)' = User(g)
    BY <2>1, <2>2 DEF At, User
  <2>6. RevokedWithPassword'
    BY <2>1, <2>4, <2>5 DEF RevokedInv, RevokedWithPassword
  <2>. QED  BY <2>3, <2>6 DEF RevokedInv
<1>5. CASE ChangeWrite(h) \/ ResetWrite(h)
  <2>1. PICK rows : (rows = users \/ rows = NewPassword(User(h))) /\ Replace(h, rows)
    BY <1>5 DEF ChangeWrite, ResetWrite
  <2>2. ~ Verified(h) /\ handler[h].op # "invalidate"
    BY <1>5 DEF ChangeWrite, ResetWrite, At, Verified
  <2>. QED  BY <2>1, <2>2, <1>k, ReplaceRevoked
<1>6. CASE Invalidate(h)
  <2>1. /\ UNCHANGED users /\ sessions' = {s \in sessions : s.user # User(h)}
        /\ handler' = [handler EXCEPT ![h] = Idle] /\ unrevoked' = unrevoked \ {User(h)}
    BY <1>6 DEF Invalidate, Goto
  <2>2. \A g \in Handlers : (g # h => handler'[g] = handler[g]) /\ handler'[h].op = "idle"
    BY <2>1 DEF Idle, TypeOK
  <2>3. VerifiedOrLate'
    BY <2>1, <2>2 DEF RevokedInv, VerifiedOrLate, Verified, User
  <2>4. \A g \in Handlers : /\ At(g, "invalidate") /\ User(g) # User(h) =>
                                At(g, "invalidate")' /\ User(g)' = User(g)
    BY <2>2 DEF At, User
  <2>5. RevokedWithPassword'
    <3>. SUFFICES ASSUME NEW s \in sessions, s.user # User(h),
                         s.password # users[s.user].password
                  PROVE  \/ s.late \/ s.user \in unrevoked'
                         \/ \E g \in Handlers : At(g, "invalidate")' /\ User(g)' = s.user
      BY <2>1 DEF RevokedWithPassword
    <3>1. \/ s.late \/ s.user \in unrevoked
          \/ \E g \in Handlers : At(g, "invalidate") /\ User(g) = s.user
      BY DEF RevokedInv, RevokedWithPassword
    <3>. QED  BY <2>1, <2>4, <3>1
  <2>. QED  BY <2>3, <2>5 DEF RevokedInv
<1>. QED  BY <1>1, <1>2, <1>3, <1>4, <1>5, <1>6 DEF Step

\* So does every other step.
LEMMA RevokedStep == TypesInv /\ RevokedInv /\ [Next]_vars => RevokedInv'
<1>. SUFFICES ASSUME TypesInv, RevokedInv, [Next]_vars PROVE RevokedInv'
  OBVIOUS
<1>. USE DEF TypesInv
<1>u. \A g \in Handlers : Verified(g) => User(g) \in Users
  BY DEF CallsHeld, Verified, User, Keys
<1>1. ASSUME NEW h \in Handlers, NEW k \in Keys,
             LoginCheck(h, k) \/ ChangeBegin(h, k) \/ ResetBegin(h, k)
      PROVE  RevokedInv'
  <2>1. PICK op \in {"login_extend", "login_verify", "change_verify", "reset_write"} :
                \E p : Enter(h, op, k, p)
    BY <1>1 DEF LoginCheck, ChangeBegin, ResetBegin
  <2>2. UNCHANGED <<users, sessions, unrevoked>>
    BY <1>1 DEF LoginCheck, ChangeBegin, ResetBegin
  <2>3. \A g \in Handlers : g # h => handler'[g] = handler[g]
    BY <2>1 DEF Enter, TypeOK
  <2>4. handler'[h].op = op /\ ~ At(h, "invalidate")
    BY <2>1 DEF Enter, TypeOK, Idle, At
  <2>. QED  BY <2>2, <2>3, <2>4, <1>u, QuietRevoked DEF At, User, Verified
<1>2. CASE Tick
  <2>1. UNCHANGED <<users, sessions, unrevoked>>
    BY <1>2 DEF Tick
  <2>2. \A g \in Handlers : /\ handler'[g].op = handler[g].op
                            /\ handler'[g].key = handler[g].key
                            /\ handler'[g].password = handler[g].password
                            /\ handler'[g].late = handler[g].late
    BY <1>2 DEF Tick, TypeOK, Call
  <2>. QED  BY <2>1, <2>2, <1>u, QuietRevoked DEF At, User, Verified
<1>3. ASSUME NEW s \in sessions, Logout(s)
      PROVE  RevokedInv'
  BY <1>3, <1>u, QuietRevoked DEF Logout, At, User, Verified
<1>4. ASSUME NEW u \in Users, Disable(u)
      PROVE  RevokedInv'
  <2>1. \A v \in Users : users'[v].password = users[v].password
    BY <1>4 DEF Disable, TypeOK
  <2>. QED  BY <1>4, <2>1, <1>u, QuietRevoked DEF Disable, At, User, Verified
<1>5. CASE UNCHANGED vars
  BY <1>5, <1>u, QuietRevoked DEF vars, At, User, Verified
<1>6. ASSUME NEW h \in Handlers, Interrupt(h)
      PROVE  RevokedInv'
  <2>1. /\ UNCHANGED <<users, sessions>> /\ handler' = [handler EXCEPT ![h] = Idle]
        /\ unrevoked' = IF At(h, "invalidate") THEN unrevoked \union {User(h)} ELSE unrevoked
    BY <1>6 DEF Interrupt, Goto
  <2>2. \A g \in Handlers : (g # h => handler'[g] = handler[g]) /\ handler'[h].op = "idle"
    BY <2>1 DEF Idle, TypeOK
  <2>3. \A g \in Handlers : At(g, "invalidate") =>
               \/ At(g, "invalidate")' /\ User(g)' = User(g)
               \/ User(g) \in unrevoked'
    BY <2>1, <2>2 DEF At, User
  <2>4. \A g \in Handlers : Verified(g)' =>
               /\ g # h /\ handler'[g] = handler[g] /\ Verified(g) /\ User(g)' = User(g)
    BY <2>2 DEF Verified, User
  <2>. QED  BY <1>u, <2>1, <2>3, <2>4, QuietRevoked
<1>. QED  BY <1>1, <1>2, <1>3, <1>4, <1>5, <1>6, StepRevoked DEF Next

\* When a change or reset of a password has run to its end, no session opened with an older
\* one is left, except those of logins that had verified it before: for any number of threads
\* and users.  One that was cut short between its two commits leaves them until the next.
THEOREM PasswordRevokes == Spec => []RevokedWithPassword
<1>1. Init => RevokedInv
  BY DEF Init, RevokedInv, VerifiedOrLate, RevokedWithPassword, Idle, Verified
<1>2. RevokedInv => RevokedWithPassword
  BY DEF RevokedInv
<1>. QED  BY <1>1, <1>2, TypesInit, TypesStep, RevokedStep, PTL DEF Spec

-----------------------------------------------------------------------------
(* Guesses for a key whose attempts come one after the other.              *)

\* A row that lets an attempt in: at the limit its window is at its end, past it it is over.
Ready(row) ==
    /\ row.count >= Threshold => row.age >= Window
    /\ row.count > Threshold => row.age > Window

\* An attempt past the check has met a row that let it in; what it is about to write follows
\* the row as it is now.
Guessing(h) == handler[h].op \in {"login_verify", "failed_read", "failed_insert", "failed_update"}
CallFollows(h, k) ==
    LET row == throttle[k] IN
    /\ Guessing(h) /\ row # Null => Ready(row)
    /\ At(h, "failed_insert") => row = Null
    /\ At(h, "failed_update") => /\ row # Null
                                 /\ BlocksInTime(handler[h].row)
                                 /\ handler[h].row.count \in {1, row.count + 1}

\* Every guess is in the row's count, but for the one the throttle has not heard of.
Unheard(k) == \E h \in Handlers : Attempting(h, k) /\ Failing(h)
KeyInv(k) ==
    /\ \A g, h \in Handlers : Attempting(g, k) /\ Attempting(h, k) => g = h
    /\ throttle[k] # Null => BlocksInTime(throttle[k])
    /\ \A h \in Handlers : Attempting(h, k) => CallFollows(h, k)
    /\ guesses[k] = Counted(k) + (IF Unheard(k) THEN 1 ELSE 0)

\* What a first failure is about to insert, whatever other threads have done since.
FirstIsOne == \A h \in Handlers : At(h, "failed_insert") => handler[h].row.count = 1

ThrottleInv == FirstIsOne /\ \A k \in Keys \ disturbed : KeyInv(k)

\* Time passing keeps the balance of age and block.
LEMMA OlderBlocks ==
    ASSUME NEW row \in ThrottleRow \union {Null}
    PROVE  /\ Older(row) = Null <=> row = Null
           /\ row # Null => /\ Older(row).count = row.count
                            /\ Ready(row) => Ready(Older(row))
                            /\ BlocksInTime(row) => BlocksInTime(Older(row))
<1>1. CASE row = Null
  BY <1>1 DEF Older
<1>2. CASE row # Null
  <2>1. row \in ThrottleRow /\ Null \notin ThrottleRow
    BY <1>2, NullAssumption
  <2>2. Older(row) = [count |-> row.count,
                      age |-> IF row.age <= Window THEN row.age + 1 ELSE row.age,
                      left |-> IF row.left > 0 THEN row.left - 1 ELSE 0]
    BY <1>2, <2>1 DEF Older, ThrottleRow
  <2>3. Older(row) \in ThrottleRow
    BY <2>1, OlderType
  <2>4. /\ row.count \in Nat /\ row.age \in 0 .. Window + 1 /\ row.left \in 0 .. Block
        /\ Window \in Nat /\ Block \in Nat /\ Threshold \in Nat
    BY <2>1, SessionsAssumption DEF ThrottleRow
  <2>5. BlocksInTime(row) => BlocksInTime(Older(row))
    BY <2>2, <2>4 DEF BlocksInTime
  <2>6. Ready(row) => Ready(Older(row))
    BY <2>2, <2>4 DEF Ready
  <2>. QED  BY <1>2, <2>1, <2>2, <2>3, <2>5, <2>6
<1>. QED  BY <1>1, <1>2

\* A failure recorded on a row that let its attempt in begins a new window, or is within the
\* limit and one more, and blocks in time.
LEMMA RecordedBlocks ==
    ASSUME NEW row \in ThrottleRow, Ready(row), BlocksInTime(row)
    PROVE  BlocksInTime(Recorded(row)) /\ Recorded(row).count \in {1, row.count + 1}
<1>1. /\ row.count \in Nat \ {0} /\ row.age \in 0 .. Window + 1
      /\ Window \in Nat \ {0} /\ Block \in Nat \ {0} /\ Threshold \in Nat \ {0, 1}
      /\ Block >= Window
  BY SessionsAssumption DEF ThrottleRow
<1>. QED  BY <1>1 DEF Recorded, BlocksInTime, Ready

\* A row of a key moves, and attempts for it end, without a guess being made or written: time
\* passes, the block is extended, a right password is verified, or other calls go on.
RowMoves(k) ==
    /\ throttle'[k] = Null <=> throttle[k] = Null
    /\ throttle[k] # Null =>
          /\ throttle'[k].count = throttle[k].count
          /\ Ready(throttle[k]) => Ready(throttle'[k])
          /\ BlocksInTime(throttle[k]) => BlocksInTime(throttle'[k])
    /\ guesses'[k] = guesses[k]
    /\ \A h \in Handlers :
          /\ Attempting(h, k)' => Attempting(h, k) /\ handler'[h].op = handler[h].op
          /\ Attempting(h, k) /\ Failing(h) => Attempting(h, k)'
          /\ At(h, "failed_update") /\ Attempting(h, k)' =>
                /\ handler'[h].row.count = handler[h].row.count
                /\ BlocksInTime(handler[h].row) => BlocksInTime(handler'[h].row)

\* The key keeps its invariant.
LEMMA RowMoved ==
    ASSUME NEW k \in Keys, KeyInv(k), RowMoves(k)
    PROVE  KeyInv(k)'
<1>1. \A g, h \in Handlers : Attempting(g, k)' /\ Attempting(h, k)' => g = h
  BY DEF KeyInv, RowMoves
<1>2. throttle'[k] # Null => BlocksInTime(throttle'[k])
  BY DEF KeyInv, RowMoves
<1>3. ASSUME NEW h \in Handlers, Attempting(h, k)'
      PROVE  CallFollows(h, k)'
  <2>1. /\ Attempting(h, k) /\ handler'[h].op = handler[h].op /\ CallFollows(h, k)
        /\ At(h, "failed_update") =>
              /\ handler'[h].row.count = handler[h].row.count
              /\ BlocksInTime(handler[h].row) => BlocksInTime(handler'[h].row)
    BY <1>3 DEF KeyInv, RowMoves
  <2>2. /\ throttle'[k] = Null <=> throttle[k] = Null
        /\ throttle[k] # Null => /\ throttle'[k].count = throttle[k].count
                                 /\ Ready(throttle[k]) => Ready(throttle'[k])
    BY DEF RowMoves
  <2>. QED  BY <2>1, <2>2 DEF CallFollows, Guessing, At
<1>4. Unheard(k)' <=> Unheard(k)
  BY DEF Unheard, RowMoves, Failing
<1>5. Counted(k)' = Counted(k) /\ guesses'[k] = guesses[k]
  BY DEF Counted, RowMoves
<1>. QED  BY <1>1, <1>2, <1>3, <1>4, <1>5 DEF KeyInv

\* The only attempt for its key takes a step, which leaves the row within its limits and the
\* guesses counted.
LEMMA OnlyAttempt ==
    ASSUME NEW h \in Handlers, NEW k \in Keys,
           \A g \in Handlers \ {h} : ~Attempting(g, k)',
           throttle'[k] # Null => BlocksInTime(throttle'[k]),
           Attempting(h, k)' => CallFollows(h, k)',
           guesses'[k] = Counted(k)' + (IF Attempting(h, k)' /\ Failing(h)' THEN 1 ELSE 0)
    PROVE  KeyInv(k)'
<1>1. Unheard(k)' <=> Attempting(h, k)' /\ Failing(h)'
  BY DEF Unheard
<1>2. \A g \in Handlers : Attempting(g, k)' => g = h
  OBVIOUS
<1>. QED  BY <1>1, <1>2 DEF KeyInv

\* What a step of a call leaves alone: the other threads' places, and the other keys.
Local(h) ==
    /\ \A g \in Handlers \ {h} : /\ handler'[g].op = handler[g].op
                                 /\ handler'[g].key = handler[g].key
                                 /\ handler'[g].row = handler[g].row
    /\ handler'[h].op = "idle" \/ handler'[h].key = handler[h].key
    /\ \A j \in Keys \ {handler[h].key} : /\ throttle'[j] = throttle[j]
                                          /\ guesses'[j] = guesses[j]
                                          /\ j \notin disturbed' => j \notin disturbed

\* Every step of a call is of this kind.
LEMMA StepLocal ==
    ASSUME TypesInv, NEW h \in Handlers, Step(h) \/ Interrupt(h)
    PROVE  Local(h)
<1>. DEFINE k == handler[h].key
<1>1. /\ throttle \in [Keys -> ThrottleRow \union {Null}] /\ handler \in [Handlers -> Call]
      /\ guesses \in [Keys -> Nat]
  BY DEF TypesInv, TypeOK
<1>2. \A j \in Keys \ {k} : /\ guesses'[j] = guesses[j]
                            /\ j \notin disturbed' => j \notin disturbed
  <2>1. \/ UNCHANGED counting \/ Disturb(k) \/ Guess(k) \/ BeginCount(h, 0) \/ BeginCount(h, 1)
    BY DEF Step, LoginExtend, LoginVerify, LoginClear, LoginCreate, FailedRead, FailedInsert,
           FailedUpdate, ChangeVerify, ChangeWrite, ResetWrite, Invalidate, Replace, Interrupt
  <2>. QED  BY <1>1, <2>1 DEF counting, Disturb, Guess, BeginCount
<1>3. \A j \in Keys \ {k} : throttle'[j] = throttle[j]
  <2>1. \/ UNCHANGED throttle \/ LoginExtend(h) \/ LoginClear(h) \/ FailedInsert(h)
        \/ FailedUpdate(h)
    BY DEF Step, LoginVerify, LoginCreate, FailedRead, ChangeVerify, ChangeWrite, ResetWrite,
           Invalidate, Replace, Interrupt
  <2>. QED  BY <1>1, <2>1 DEF LoginExtend, LoginClear, FailedInsert, FailedUpdate
<1>4. CASE ChangeWrite(h) \/ ResetWrite(h)
  <2>1. PICK rows : Replace(h, rows)
    BY <1>4 DEF ChangeWrite, ResetWrite
  <2>2. \A g \in Handlers : /\ handler'[g].key = handler[g].key /\ handler'[g].row = handler[g].row
                            /\ g # h => handler'[g].op = handler[g].op
    BY <1>1, <2>1 DEF Replace, Call
  <2>. QED  BY <1>2, <1>3, <2>2 DEF Local
<1>5. CASE FailedRead(h)
  BY <1>1, <1>2, <1>3, <1>5 DEF FailedRead, Local, Call
<1>6. ASSUME NEW op, Goto(h, op)
      PROVE  Local(h)
  BY <1>1, <1>2, <1>3, <1>6 DEF Goto, Local, Call, Idle
<1>7. \/ ChangeWrite(h) \/ ResetWrite(h) \/ FailedRead(h) \/ \E op : Goto(h, op)
  BY DEF Step, LoginExtend, LoginVerify, LoginClear, LoginCreate, FailedInsert, FailedUpdate,
         ChangeVerify, Invalidate, Interrupt
<1>. QED  BY <1>4, <1>5, <1>6, <1>7

\* The other keys keep their invariant, and so does its own when the step neither touches the
\* row and the count nor is one of an attempt that goes on.
LEMMA Elsewhere ==
    ASSUME TypesInv, NEW h \in Handlers, Local(h), NEW j \in Keys, KeyInv(j),
           \/ j # handler[h].key
           \/ /\ throttle'[j] = throttle[j] /\ guesses'[j] = guesses[j]
              /\ ~Failing(h) /\ ~Attempting(h, j)'
    PROVE  KeyInv(j)'
<1>1. throttle'[j] = throttle[j] /\ guesses'[j] = guesses[j]
  BY DEF Local
<1>2. \A g \in Handlers \ {h} : /\ Attempting(g, j)' <=> Attempting(g, j)
                                /\ handler'[g].op = handler[g].op
                                /\ handler'[g].row = handler[g].row
  BY DEF Local, Attempting
<1>3. ~Attempting(h, j)' /\ ~(Attempting(h, j) /\ Failing(h))
  BY DEF Local, Attempting, Failing
<1>4. RowMoves(j)
  <2>1. ASSUME NEW g \in Handlers
        PROVE  /\ Attempting(g, j)' => Attempting(g, j) /\ handler'[g].op = handler[g].op
               /\ Attempting(g, j) /\ Failing(g) => Attempting(g, j)'
               /\ Attempting(g, j)' => handler'[g].row = handler[g].row
    <3>1. CASE g = h
      BY <1>3, <3>1
    <3>2. CASE g # h
      BY <1>2, <3>2
    <3>. QED  BY <3>1, <3>2
  <2>. QED  BY <1>1, <2>1 DEF RowMoves
<1>. QED  BY <1>4, RowMoved

\* While a key is not disturbed no other attempt is under way beside h's; and one that begins
\* a count of an undisturbed key has been alone as well.
LEMMA AloneOrDisturbed ==
    ASSUME TypesInv, ThrottleInv, NEW h \in Handlers, Local(h), NEW k \in Keys,
           (k \notin disturbed /\ Attempting(h, k)) \/ ~Overlap(h, k)
    PROVE  \A g \in Handlers \ {h} : ~Attempting(g, k)'
<1>1. \A g \in Handlers \ {h} : ~Attempting(g, k)
  BY DEF ThrottleInv, KeyInv, Overlap
<1>. QED  BY <1>1 DEF Local, Attempting

\* A step of a call keeps the invariant of its own key.
LEMMA OwnKey ==
    ASSUME TypesInv, ThrottleInv, NEW h \in Handlers, Step(h),
           NEW k \in Keys, handler[h].key = k, k \notin disturbed'
    PROVE  KeyInv(k)'
<1>1. /\ Local(h) /\ handler \in [Handlers -> Call] /\ handler[h] \in Call
      /\ throttle \in [Keys -> ThrottleRow \union {Null}] /\ guesses \in [Keys -> Nat]
  BY StepLocal DEF TypesInv, TypeOK
<1>2. throttle[k] \in ThrottleRow \union {Null} /\ guesses[k] \in Nat
  BY <1>1
<1>3. k \notin disturbed => /\ KeyInv(k)
                            /\ throttle[k] # Null => BlocksInTime(throttle[k])
                            /\ Attempting(h, k) => CallFollows(h, k)
                            /\ Attempting(h, k) => guesses[k] = Counted(k)
                                                     + (IF Failing(h) THEN 1 ELSE 0)
  <2>1. ASSUME k \notin disturbed, Attempting(h, k)
        PROVE  Unheard(k) <=> Failing(h)
    BY <2>1 DEF ThrottleInv, KeyInv, Unheard
  <2>. QED  BY <2>1 DEF ThrottleInv, KeyInv
<1>4. CASE LoginExtend(h)
  <2>1. /\ throttle'[k] = IF throttle[k] = Null THEN Null ELSE [throttle[k] EXCEPT !.left = Block]
        /\ UNCHANGED <<guesses, disturbed>> /\ handler' = [handler EXCEPT ![h] = Idle]
        /\ At(h, "login_extend")
    BY <1>1, <1>4 DEF LoginExtend, Goto, counting
  <2>2. /\ throttle'[k] = Null <=> throttle[k] = Null
        /\ throttle[k] # Null =>
              /\ throttle'[k].count = throttle[k].count
              /\ Ready(throttle[k]) => Ready(throttle'[k])
              /\ BlocksInTime(throttle[k]) => BlocksInTime(throttle'[k])
    <3>1. ASSUME NEW row \in ThrottleRow, NEW new, new = [row EXCEPT !.left = Block]
          PROVE  /\ new \in ThrottleRow /\ new.count = row.count /\ (Ready(row) => Ready(new))
                 /\ BlocksInTime(row) => BlocksInTime(new)
      BY <3>1, SessionsAssumption DEF ThrottleRow, Ready, BlocksInTime
    <3>. QED  BY <1>2, <2>1, <3>1, NullAssumption
  <2>3. \A g \in Handlers : /\ Attempting(g, k)' => Attempting(g, k) /\ handler'[g] = handler[g]
                            /\ Attempting(g, k) /\ Failing(g) => Attempting(g, k)'
    BY <1>1, <2>1 DEF At, Attempting, Failing, Idle
  <2>4. RowMoves(k)
    BY <2>1, <2>2, <2>3 DEF RowMoves
  <2>. QED  BY <1>3, <2>1, <2>4, RowMoved
<1>5. CASE LoginVerify(h) /\ UNCHANGED counting
  <2>1. /\ UNCHANGED <<throttle, guesses, disturbed>> /\ At(h, "login_verify")
        /\ \E op \in {"login_clear", "failed_read"} : Goto(h, op)
    BY <1>5 DEF LoginVerify, counting
  <2>2. Goto(h, "login_clear")
    <3>1. CASE Goto(h, "failed_read") /\ ~Goto(h, "login_clear")
      <4>1. Guess(k)
        BY <1>5, <3>1 DEF LoginVerify
      <4>. QED  BY <1>1, <1>2, <2>1, <4>1 DEF Guess
    <3>. QED  BY <2>1, <3>1
  <2>3. handler'[h].op = "login_clear" /\ handler'[h].key = k
    BY <1>1, <2>2 DEF Goto, Call
  <2>4. Attempting(h, k) /\ ~Failing(h)
    BY <2>1 DEF At, Attempting, Failing
  <2>5. \A g \in Handlers \ {h} : ~Attempting(g, k)'
    BY <1>1, <2>1, <2>4, AloneOrDisturbed
  <2>6. CallFollows(h, k)' /\ ~Failing(h)'
    BY <2>3 DEF CallFollows, Guessing, At, Failing
  <2>7. Counted(k)' = Counted(k) /\ guesses'[k] = Counted(k) + 0
    BY <1>3, <2>1, <2>4 DEF Counted
  <2>. QED  BY <1>3, <2>1, <2>5, <2>6, <2>7, OnlyAttempt
<1>6. CASE LoginVerify(h) /\ ~UNCHANGED counting
  <2>1. /\ UNCHANGED throttle /\ At(h, "login_verify") /\ Guess(k) /\ Goto(h, "failed_read")
    BY <1>6 DEF LoginVerify
  <2>2. k \notin disturbed /\ guesses'[k] = guesses[k] + 1
    BY <1>1, <2>1 DEF Guess
  <2>3. handler'[h].op = "failed_read" /\ handler'[h].key = k
    BY <1>1, <2>1 DEF Goto, Call
  <2>4. Attempting(h, k) /\ ~Failing(h) /\ Attempting(h, k)' /\ Failing(h)'
    BY <2>1, <2>3 DEF At, Attempting, Failing
  <2>5. \A g \in Handlers \ {h} : ~Attempting(g, k)'
    BY <1>1, <2>2, <2>4, AloneOrDisturbed
  <2>6. CallFollows(h, k)'
    BY <1>3, <2>1, <2>2, <2>3, <2>4 DEF CallFollows, Guessing, At
  <2>7. Counted(k)' = Counted(k) /\ guesses[k] = Counted(k) + 0 /\ Counted(k) \in Nat
    BY <1>2, <1>3, <2>1, <2>2, <2>4 DEF Counted, ThrottleRow
  <2>. QED  BY <1>3, <2>1, <2>2, <2>4, <2>5, <2>6, <2>7, OnlyAttempt
<1>7. CASE FailedRead(h)
  <2>. DEFINE row == throttle[k]
              new == IF row = Null THEN FirstFailure ELSE Recorded(row)
  <2>1. /\ UNCHANGED <<throttle, guesses, disturbed>> /\ At(h, "failed_read")
        /\ handler' = [handler EXCEPT ![h].op = IF row = Null THEN "failed_insert"
                                                ELSE "failed_update", ![h].row = new]
    BY <1>7 DEF FailedRead, counting
  <2>2. Attempting(h, k) /\ Failing(h)
    BY <2>1 DEF At, Attempting, Failing
  <2>3. row # Null => Ready(row) /\ BlocksInTime(row) /\ row \in ThrottleRow
    BY <1>2, <1>3, <2>1, <2>2 DEF CallFollows, Guessing, At
  <2>4. row # Null => BlocksInTime(new) /\ new.count \in {1, row.count + 1}
    BY <2>3, RecordedBlocks
  <2>5. /\ handler'[h].key = k /\ handler'[h].row = new
        /\ handler'[h].op = IF row = Null THEN "failed_insert" ELSE "failed_update"
    <3>. HIDE DEF new, row
    <3>. QED  BY <1>1, <2>1 DEF Call
  <2>. HIDE DEF new
  <2>6. CallFollows(h, k)'
    BY <2>1, <2>3, <2>4, <2>5 DEF CallFollows, Guessing, At
  <2>7. Attempting(h, k)' /\ Failing(h)'
    BY <2>5 DEF Attempting, Failing
  <2>8. \A g \in Handlers \ {h} : ~Attempting(g, k)'
    BY <1>1, <2>1, <2>2, AloneOrDisturbed
  <2>9. Counted(k)' = Counted(k) /\ guesses'[k] = Counted(k) + 1
    BY <1>3, <2>1, <2>2 DEF Counted
  <2>. QED  BY <1>3, <2>1, <2>6, <2>7, <2>8, <2>9, OnlyAttempt
<1>8. ASSUME NEW first \in {0, 1}, BeginCount(h, first), Attempting(h, k)
      PROVE  guesses'[k] = first /\ \A g \in Handlers \ {h} : ~Attempting(g, k)'
  <2>1. ~Overlap(h, k)
    <3>1. CASE k \in disturbed
      BY <1>8, <3>1 DEF BeginCount, counting
    <3>2. CASE k \notin disturbed
      BY <1>8, <3>2 DEF ThrottleInv, KeyInv, Overlap
    <3>. QED  BY <3>1, <3>2
  <2>2. guesses'[k] = first
    BY <1>1, <1>8, <2>1 DEF BeginCount
  <2>. QED  BY <1>1, <2>1, <2>2, AloneOrDisturbed
<1>9. CASE LoginClear(h)
  <2>1. /\ throttle'[k] = Null /\ BeginCount(h, 0) /\ Goto(h, "login_create") /\ At(h, "login_clear")
    BY <1>1, <1>9 DEF LoginClear
  <2>2. handler'[h].op = "login_create"
    BY <1>1, <2>1 DEF Goto, Call
  <2>3. Attempting(h, k) /\ ~Attempting(h, k)'
    BY <2>1, <2>2 DEF At, Attempting
  <2>4. guesses'[k] = 0 /\ \A g \in Handlers \ {h} : ~Attempting(g, k)'
    BY <1>8, <2>1, <2>3
  <2>. QED  BY <2>1, <2>3, <2>4, OnlyAttempt DEF Counted
<1>10. CASE FailedInsert(h)
  <2>1. /\ throttle' = [throttle EXCEPT ![k] = IF throttle[k] # Null THEN throttle[k]
                                               ELSE handler[h].row]
        /\ IF throttle[k] = Null THEN BeginCount(h, 1) ELSE UNCHANGED counting
        /\ handler' = [handler EXCEPT ![h] = Idle] /\ At(h, "failed_insert")
    BY <1>10 DEF FailedInsert, Goto
  <2>2. Attempting(h, k) /\ ~Attempting(h, k)'
    BY <1>1, <2>1 DEF At, Attempting, Idle
  <2>3. throttle[k] = Null
    BY <1>3, <2>1, <2>2 DEF CallFollows, counting
  <2>4. handler[h].row \in ThrottleRow /\ handler[h].row.count = 1 /\ handler[h].row # Null
    BY <2>1, NullAssumption DEF ThrottleInv, FirstIsOne, TypesInv, CallsHeld
  <2>5. guesses'[k] = 1 /\ \A g \in Handlers \ {h} : ~Attempting(g, k)'
    BY <1>8, <2>1, <2>2, <2>3
  <2>6. throttle'[k] = handler[h].row
    BY <1>1, <2>1, <2>3
  <2>7. BlocksInTime(throttle'[k])
    BY <2>4, <2>6, SessionsAssumption DEF BlocksInTime
  <2>8. Counted(k)' = 1
    BY <2>4, <2>6 DEF Counted
  <2>. QED  BY <2>2, <2>5, <2>7, <2>8, OnlyAttempt
<1>11. CASE FailedUpdate(h)
  <2>. DEFINE new == handler[h].row
  <2>1. /\ throttle' = [throttle EXCEPT ![k] = IF throttle[k] = Null THEN Null ELSE new]
        /\ IF throttle[k] # Null /\ new.count = 1 THEN BeginCount(h, 1) ELSE UNCHANGED counting
        /\ handler' = [handler EXCEPT ![h] = Idle] /\ At(h, "failed_update")
    BY <1>11 DEF FailedUpdate, Goto
  <2>2. Attempting(h, k) /\ ~Attempting(h, k)' /\ Failing(h)
    BY <1>1, <2>1 DEF At, Attempting, Idle, Failing
  <2>3. new \in ThrottleRow /\ new # Null /\ new.count \in Nat
    BY <2>1, NullAssumption DEF TypesInv, CallsHeld, ThrottleRow
  <2>4. throttle[k] # Null
    BY <1>3, <2>1, <2>2 DEF CallFollows, counting
  <2>5. throttle'[k] = new
    BY <1>1, <2>1, <2>4
  <2>6. Counted(k)' = new.count
    BY <2>3, <2>5 DEF Counted
  <2>7. CASE new.count = 1
    <3>1. guesses'[k] = 1 /\ \A g \in Handlers \ {h} : ~Attempting(g, k)'
      BY <1>8, <2>1, <2>2, <2>4, <2>7
    <3>2. BlocksInTime(throttle'[k])
      BY <2>3, <2>5, <2>7, SessionsAssumption DEF BlocksInTime
    <3>. QED  BY <2>2, <2>6, <2>7, <3>1, <3>2, OnlyAttempt
  <2>8. CASE new.count # 1
    <3>1. k \notin disturbed /\ guesses'[k] = guesses[k]
      BY <2>1, <2>8 DEF counting
    <3>2. BlocksInTime(new) /\ new.count = throttle[k].count + 1
      BY <1>3, <2>1, <2>2, <2>8, <3>1 DEF CallFollows
    <3>3. guesses'[k] = throttle[k].count + 1
      BY <1>3, <2>2, <2>4, <3>1 DEF Counted
    <3>4. \A g \in Handlers \ {h} : ~Attempting(g, k)'
      BY <1>1, <2>2, <3>1, AloneOrDisturbed
    <3>5. guesses'[k] = Counted(k)' + 0
      BY <2>3, <2>6, <3>2, <3>3
    <3>. QED  BY <2>2, <2>5, <3>2, <3>4, <3>5, OnlyAttempt
  <2>. QED  BY <2>7, <2>8
<1>12. CASE \/ LoginCreate(h) \/ ChangeVerify(h) \/ Invalidate(h)
            \/ ChangeWrite(h) \/ ResetWrite(h)
  <2>1. UNCHANGED <<throttle, guesses, disturbed>>
    BY <1>12 DEF LoginCreate, ChangeVerify, Invalidate, ChangeWrite, ResetWrite, Replace, counting
  <2>2. ~Failing(h)
    BY <1>12 DEF LoginCreate, ChangeVerify, Invalidate, ChangeWrite, ResetWrite, At, Failing
  <2>3. handler'[h].op \in {"idle", "change_write", "invalidate"}
    <3>1. CASE LoginCreate(h) \/ ChangeVerify(h) \/ Invalidate(h)
      <4>1. PICK op \in {"idle", "change_write"} : Goto(h, op)
        BY <3>1 DEF LoginCreate, ChangeVerify, Invalidate
      <4>. QED  BY <1>1, <4>1 DEF Goto, Idle, Call
    <3>2. CASE ChangeWrite(h) \/ ResetWrite(h)
      <4>1. PICK rows : Replace(h, rows)
        BY <3>2 DEF ChangeWrite, ResetWrite
      <4>. QED  BY <1>1, <4>1 DEF Replace, Call
    <3>. QED  BY <1>12, <3>1, <3>2
  <2>4. ~Attempting(h, k)'
    BY <2>3 DEF Attempting
  <2>. QED  BY <1>1, <1>3, <2>1, <2>2, <2>4, Elsewhere
<1>. QED  BY <1>4, <1>5, <1>6, <1>7, <1>9, <1>10, <1>11, <1>12 DEF Step

\* A step of a call keeps the invariant of all keys.
LEMMA StepThrottle ==
    ASSUME TypesInv, ThrottleInv, NEW h \in Handlers, Step(h)
    PROVE  ThrottleInv'
<1>1. Local(h) /\ handler \in [Handlers -> Call]
  BY StepLocal DEF TypesInv, TypeOK
<1>2. ASSUME NEW k \in Keys, k \notin disturbed'
      PROVE  KeyInv(k)'
  <2>1. CASE handler[h].key = k
    BY <1>2, <2>1, OwnKey
  <2>2. CASE handler[h].key # k
    <3>1. k \notin disturbed
      BY <1>1, <1>2, <2>2 DEF Local
    <3>2. KeyInv(k)
      BY <3>1 DEF ThrottleInv
    <3>. QED  BY <1>1, <2>2, <3>2, Elsewhere
  <2>. QED  BY <2>1, <2>2
<1>3. At(h, "failed_insert")' => handler'[h].row.count = 1
  <2>1. CASE FailedRead(h)
    <3>. DEFINE row == throttle[handler[h].key]
    <3>1. /\ handler'[h].op = IF row = Null THEN "failed_insert" ELSE "failed_update"
          /\ handler'[h].row = IF row = Null THEN FirstFailure ELSE Recorded(row)
      <4>. HIDE DEF row
      <4>1. handler' = [handler EXCEPT ![h].op = IF row = Null THEN "failed_insert"
                                                 ELSE "failed_update",
                                       ![h].row = IF row = Null THEN FirstFailure
                                                  ELSE Recorded(row)]
        BY <2>1 DEF FailedRead, row
      <4>. QED  BY <1>1, <4>1 DEF Call
    <3>2. At(h, "failed_insert")' => handler'[h].row = FirstFailure
      BY <3>1 DEF At
    <3>. QED  BY <3>2 DEF FirstFailure
  <2>2. ASSUME NEW rows, Replace(h, rows)
        PROVE  ~At(h, "failed_insert")'
    BY <1>1, <2>2 DEF Replace, At, Call
  <2>3. ASSUME NEW op \in {"idle", "login_clear", "failed_read", "login_create", "change_write"},
               Goto(h, op)
        PROVE  ~At(h, "failed_insert")'
    BY <1>1, <2>3 DEF Goto, Idle, At, Call
  <2>4. \/ FailedRead(h) \/ \E rows : Replace(h, rows)
        \/ \E op \in {"idle", "login_clear", "failed_read", "login_create", "change_write"} :
              Goto(h, op)
    BY DEF Step, LoginExtend, LoginVerify, LoginClear, LoginCreate, FailedInsert, FailedUpdate,
           ChangeVerify, ChangeWrite, ResetWrite, Invalidate
  <2>. QED  BY <2>1, <2>2, <2>3, <2>4
<1>4. FirstIsOne'
  BY <1>1, <1>3 DEF ThrottleInv, FirstIsOne, Local, At
<1>. QED  BY <1>2, <1>4 DEF ThrottleInv

\* So does a call that is taken up: an attempt let in beside another one disturbs the key.
LEMMA EnterThrottle ==
    ASSUME TypesInv, ThrottleInv, NEW h \in Handlers, NEW k \in Keys,
           LoginCheck(h, k) \/ ChangeBegin(h, k) \/ ResetBegin(h, k)
    PROVE  ThrottleInv'
<1>1. /\ handler \in [Handlers -> Call] /\ throttle \in [Keys -> ThrottleRow \union {Null}]
      /\ guesses \in [Keys -> Nat]
  BY DEF TypesInv, TypeOK
<1>2. PICK op \in {"login_extend", "login_verify", "change_verify", "reset_write"},
           p \in {users[k[1]].password, Null} :
          /\ Enter(h, op, k, p)
          /\ op = "login_verify" => LoginCheck(h, k) /\ ~Blocked(k)
  BY DEF LoginCheck, ChangeBegin, ResetBegin
<1>3. /\ handler[h] = Idle /\ handler'[h].op = op /\ handler'[h].key = k
      /\ \A g \in Handlers \ {h} : handler'[g] = handler[g]
  BY <1>1, <1>2 DEF Enter, Idle
<1>4. UNCHANGED throttle /\ (UNCHANGED counting \/ Disturb(k))
  BY DEF LoginCheck, ChangeBegin, ResetBegin
<1>5. FirstIsOne'
  BY <1>3 DEF ThrottleInv, FirstIsOne, At
<1>6. ASSUME NEW j \in Keys, j \notin disturbed', op # "login_verify" \/ j # k
      PROVE  KeyInv(j)'
  <2>1. guesses'[j] = guesses[j] /\ KeyInv(j)
    BY <1>1, <1>4, <1>6 DEF counting, Disturb, ThrottleInv
  <2>2. \A g \in Handlers : /\ Attempting(g, j)' => Attempting(g, j) /\ handler'[g] = handler[g]
                            /\ Attempting(g, j) => Attempting(g, j)'
    BY <1>3, <1>6 DEF Attempting, Idle
  <2>3. RowMoves(j)
    BY <1>4, <2>1, <2>2 DEF RowMoves
  <2>. QED  BY <2>1, <2>3, RowMoved
<1>7. ASSUME k \notin disturbed', op = "login_verify"
      PROVE  KeyInv(k)'
  <2>1. LoginCheck(h, k) /\ ~Blocked(k)
    BY <1>2, <1>7
  <2>2. ~Overlap(h, k) /\ UNCHANGED counting
    BY <1>7, <2>1 DEF LoginCheck, Disturb
  <2>3. KeyInv(k) /\ guesses'[k] = guesses[k]
    BY <1>7, <2>2 DEF counting, ThrottleInv
  <2>4. \A g \in Handlers : ~Attempting(g, k)
    BY <1>3, <2>2 DEF Overlap, Attempting, Idle
  <2>5. \A g \in Handlers \ {h} : ~Attempting(g, k)'
    BY <1>3, <2>4 DEF Attempting
  <2>6. throttle[k] # Null => Ready(throttle[k])
    <3>1. throttle[k] # Null => /\ throttle[k].left \in 0 .. Block /\ ~(throttle[k].left > 0)
                                /\ throttle[k].age \in 0 .. Window + 1
                                /\ BlocksInTime(throttle[k])
      BY <1>1, <2>1, <2>3 DEF Blocked, ThrottleRow, KeyInv
    <3>. QED  BY <3>1, SessionsAssumption DEF BlocksInTime, Ready
  <2>7. CallFollows(h, k)' /\ ~Failing(h)'
    BY <1>3, <1>4, <1>7, <2>6 DEF CallFollows, Guessing, At, Failing
  <2>8. guesses'[k] = Counted(k)' + 0
    BY <1>4, <2>3, <2>4 DEF KeyInv, Unheard, Counted
  <2>9. throttle'[k] # Null => BlocksInTime(throttle'[k])
    BY <1>4, <2>3 DEF KeyInv
  <2>. QED  BY <2>5, <2>7, <2>8, <2>9, OnlyAttempt
<1>. QED  BY <1>5, <1>6, <1>7 DEF ThrottleInv

\* So do time, calls cut short, and what comes from outside.
LEMMA ThrottleStep == TypesInv /\ ThrottleInv /\ [Next]_vars => ThrottleInv'
<1>. SUFFICES ASSUME TypesInv, ThrottleInv, [Next]_vars PROVE ThrottleInv'
  OBVIOUS
<1>t. /\ handler \in [Handlers -> Call] /\ throttle \in [Keys -> ThrottleRow \union {Null}]
      /\ guesses \in [Keys -> Nat]
  BY DEF TypesInv, TypeOK
<1>1. ASSUME NEW h \in Handlers, Interrupt(h)
      PROVE  ThrottleInv'
  <2>1. /\ handler' = [handler EXCEPT ![h] = Idle] /\ UNCHANGED throttle
        /\ IF Failing(h) THEN Disturb(handler[h].key) ELSE UNCHANGED counting
        /\ handler[h].key \in Keys /\ handler'[h].op = "idle"
    BY <1>1, <1>t DEF Interrupt, Goto, Failing, Idle, TypesInv, CallsHeld
  <2>2. Local(h)
    BY <1>1, StepLocal
  <2>3. ASSUME NEW k \in Keys, k \notin disturbed'
        PROVE  KeyInv(k)'
    <3>1. k \notin disturbed /\ guesses'[k] = guesses[k]
          /\ (k # handler[h].key \/ ~Failing(h))
      BY <1>t, <2>1, <2>3 DEF Disturb, counting
    <3>2. KeyInv(k) /\ ~Attempting(h, k)' /\ throttle'[k] = throttle[k]
      BY <2>1, <3>1 DEF ThrottleInv, Attempting
    <3>. QED  BY <2>2, <3>1, <3>2, Elsewhere
  <2>4. FirstIsOne'
    BY <2>1, <2>2 DEF ThrottleInv, FirstIsOne, Local, At
  <2>. QED  BY <2>3, <2>4 DEF ThrottleInv
<1>2. CASE Tick
  <2>1. /\ \A k \in Keys : throttle'[k] = Older(throttle[k])
        /\ \A h \in Handlers : /\ handler'[h].op = handler[h].op
                               /\ handler'[h].key = handler[h].key
                               /\ handler'[h].row = Older(handler[h].row)
        /\ UNCHANGED <<guesses, disturbed>>
    BY <1>2, <1>t DEF Tick, Call
  <2>2. \A h \in Handlers : At(h, "failed_insert") \/ At(h, "failed_update") =>
           /\ handler'[h].row.count = handler[h].row.count
           /\ BlocksInTime(handler[h].row) => BlocksInTime(handler'[h].row)
    <3>1. \A h \in Handlers : At(h, "failed_insert") \/ At(h, "failed_update") =>
             handler[h].row \in ThrottleRow /\ handler[h].row # Null
      BY NullAssumption DEF TypesInv, CallsHeld
    <3>. QED  BY <2>1, <3>1, OlderBlocks
  <2>3. ASSUME NEW k \in Keys, k \notin disturbed'
        PROVE  KeyInv(k)'
    <3>1. KeyInv(k)
      BY <2>1, <2>3 DEF ThrottleInv
    <3>2. /\ throttle'[k] = Null <=> throttle[k] = Null
          /\ throttle[k] # Null => /\ throttle'[k].count = throttle[k].count
                                   /\ Ready(throttle[k]) => Ready(throttle'[k])
                                   /\ BlocksInTime(throttle[k]) => BlocksInTime(throttle'[k])
      BY <1>t, <2>1, OlderBlocks
    <3>3. \A h \in Handlers : Attempting(h, k)' <=> Attempting(h, k)
      BY <2>1 DEF Attempting
    <3>4. RowMoves(k)
      BY <2>1, <2>2, <3>2, <3>3 DEF RowMoves, Failing
    <3>. QED  BY <3>1, <3>4, RowMoved
  <2>4. FirstIsOne'
    BY <2>1, <2>2 DEF ThrottleInv, FirstIsOne, At
  <2>. QED  BY <2>3, <2>4 DEF ThrottleInv
<1>3. ASSUME UNCHANGED <<throttle, handler, counting>>
      PROVE  ThrottleInv'
  BY <1>3 DEF ThrottleInv, FirstIsOne, KeyInv, CallFollows, Guessing, At, Counted, Unheard,
              Failing, Attempting, counting
<1>4. CASE \/ (\E s \in sessions : Logout(s)) \/ \E u \in Users : Disable(u)
           \/ UNCHANGED vars
  BY <1>3, <1>4 DEF Logout, Disable, vars
<1>. QED  BY <1>1, <1>2, <1>4, StepThrottle, EnterThrottle DEF Next

\* The throttle counts every guess for a name and address whose attempts come one after the
\* other and are each recorded, and its row blocks them in time: whatever the other threads
\* do, for any number of them and any settings of threshold, window and block.
THEOREM GuessesAreCounted == Spec => []CountsKept
<1>1. Init => ThrottleInv
  <2>1. Init => \A h \in Handlers : handler[h].op = "idle"
    BY DEF Init, Idle
  <2>2. Init => \A k \in Keys : throttle[k] = Null /\ guesses[k] = 0
    BY DEF Init
  <2>3. ASSUME Init, NEW k \in Keys PROVE KeyInv(k)
    <3>1. \A h \in Handlers : ~Attempting(h, k)
      BY <2>1, <2>3 DEF Attempting
    <3>2. throttle[k] = Null /\ guesses[k] = 0 /\ Counted(k) = 0
      BY <2>2, <2>3 DEF Counted
    <3>. QED  BY <3>1, <3>2 DEF KeyInv, Unheard
  <2>. QED  BY <2>1, <2>3 DEF ThrottleInv, FirstIsOne, At
<1>2. TypesInv /\ ThrottleInv => CountsKept
  <2>. SUFFICES ASSUME TypesInv, ThrottleInv, NEW k \in Keys \ disturbed,
                       \A h \in Handlers : ~Attempting(h, k)
                PROVE  guesses[k] = Counted(k) /\ (throttle[k] # Null => BlocksInTime(throttle[k]))
    BY DEF CountsKept
  <2>1. KeyInv(k) /\ ~Unheard(k)
    BY DEF ThrottleInv, Unheard
  <2>2. Counted(k) \in Nat
    BY DEF TypesInv, TypeOK, Counted, ThrottleRow
  <2>. QED  BY <2>1, <2>2 DEF KeyInv
<1>. QED  BY <1>1, <1>2, TypesInit, TypesStep, ThrottleStep, PTL DEF Spec

=============================================================================
