------------------------------ MODULE Sessions ------------------------------
(***************************************************************************)
(* Logins, the login throttle, sessions and password changes               *)
(* (services/auth_service.py, auth/session.py, auth/login_throttle.py,     *)
(* reset_password of services/user_service.py and of the command line).    *)
(*                                                                         *)
(* Every helper of a call opens a connection of its own, so a login is     *)
(* five transactions and a change of password two; record_failed_login     *)
(* also reads the row before it writes it.  Each of these is a step, and   *)
(* request threads interleave between them.  A call may end before any of  *)
(* them, with the database locked past its timeout or the process stopped. *)
(* Passwords are numbered in the order they are set; Null is any wrong     *)
(* one.  Times are distances from now: the age of the first failure and    *)
(* what is left of a block.                                                *)
(***************************************************************************)
EXTENDS Integers
LOCAL INSTANCE Functions

CONSTANTS
    Users,
    Addresses,     \* source addresses, the second half of the throttle's key
    Handlers,      \* request threads
    Threshold,     \* THROTTLE_THRESHOLD
    Window,        \* THROTTLE_WINDOW_MINUTES
    Block,         \* THROTTLE_BLOCK_MINUTES
    MaxPasswords,  \* bound on the passwords set
    Null

ASSUME SessionsAssumption ==
    /\ {Threshold, Window, Block} \subseteq Nat \ {0}
    /\ Threshold > 1 /\ Block >= Window
    /\ MaxPasswords \in Nat
    /\ Null \notin 0 .. MaxPasswords

Keys == Users \X Addresses

VARIABLES
    users,     \* table users: password_hash and disabled_at
    sessions,  \* rows of sessions that have not expired
    throttle,  \* auth_login_throttle, Null without a row
    handler,   \* calls under way
    \* History.
    guesses,   \* wrong passwords tried since the row's count began
    recent,    \* wrong passwords tried so many minutes ago
    disturbed, \* keys whose count began before two attempts overlapped, or one was cut short
    unrevoked  \* users whose last new password was cut short before their sessions went

counting == <<guesses, recent, disturbed>>
vars == <<users, sessions, throttle, handler, counting, unrevoked>>

Passwords == 0 .. MaxPasswords
ThrottleRow == [count : Nat \ {0}, age : 0 .. Window + 1, left : 0 .. Block]
ASSUME NullAssumption == Null \notin ThrottleRow
\* late: the password was replaced after it had been verified (history)
Session == [user : Users, password : Passwords, late : BOOLEAN]

Call == [op : {"idle", "login_extend", "login_verify", "login_clear", "login_create",
               "failed_read", "failed_insert", "failed_update", "change_verify",
               "change_write", "reset_write", "invalidate"},
         key : Keys \union {Null}, password : Passwords \union {Null},
         row : ThrottleRow \union {Null}, late : BOOLEAN]

Idle == [op |-> "idle", key |-> Null, password |-> Null, row |-> Null, late |-> FALSE]
At(h, op) == handler[h].op = op
Goto(h, op) == handler' = [handler EXCEPT ![h] = IF op = "idle" THEN Idle ELSE [@ EXCEPT !.op = op]]
User(h) == handler[h].key[1]
NoGuesses == [age \in 0 .. Window |-> 0]

Init ==
    /\ users = [u \in Users |-> [password |-> 0, enabled |-> TRUE]]
    /\ sessions = {}
    /\ throttle = [k \in Keys |-> Null]
    /\ handler = [h \in Handlers |-> Idle]
    /\ guesses = [k \in Keys |-> 0]
    /\ recent = [k \in Keys |-> NoGuesses]
    /\ disturbed = {}
    /\ unrevoked = {}

Enter(h, op, key, password) ==
    /\ handler[h] = Idle
    /\ handler' = [handler EXCEPT ![h] = [Idle EXCEPT !.op = op, !.key = key,
                                                      !.password = password]]

----------------------------------------------------------------------------
(* The history of the guesses for a key, kept while its attempts come one  *)
(* after the other.                                                        *)

\* An attempt that was let past the check and has not met the throttle again.
Attempting(h, k) ==
    /\ handler[h].key = k
    /\ handler[h].op \in {"login_verify", "login_clear", "failed_read", "failed_insert",
                          "failed_update"}
Overlap(h, k) == \E g \in Handlers \ {h} : Attempting(g, k)

Disturb(k) ==
    /\ disturbed' = disturbed \union {k}
    /\ guesses' = [guesses EXCEPT ![k] = 0]
    /\ recent' = [recent EXCEPT ![k] = NoGuesses]

\* A wrong password
Guess(k) ==
    /\ IF k \in disturbed THEN UNCHANGED <<guesses, recent>>
       ELSE /\ guesses' = [guesses EXCEPT ![k] = @ + 1]
            /\ recent' = [recent EXCEPT ![k][0] = @ + 1]
    /\ UNCHANGED disturbed

\* The count of h's key begins anew: without a guess, or with the one being recorded.
BeginCount(h, first) ==
    LET k == handler[h].key IN
    IF Overlap(h, k) THEN UNCHANGED counting
    ELSE /\ disturbed' = disturbed \ {k}
         /\ guesses' = [guesses EXCEPT ![k] = first]
         /\ recent' = [recent EXCEPT ![k] =
                          IF first = 0 THEN NoGuesses ELSE IF k \notin disturbed THEN @
                          ELSE [age \in 0 .. Window |-> IF age = handler[h].row.age THEN 1 ELSE 0]]

----------------------------------------------------------------------------
(* login                                                                   *)

\* get_login_retry_after_seconds
Blocked(k) == throttle[k] # Null /\ throttle[k].left > 0

LoginCheck(h, k) ==
    /\ \E p \in {users[k[1]].password, Null} :
          Enter(h, IF Blocked(k) THEN "login_extend" ELSE "login_verify", k, p)
    /\ IF ~Blocked(k) /\ Overlap(h, k) THEN Disturb(k) ELSE UNCHANGED counting
    /\ UNCHANGED <<users, sessions, throttle, unrevoked>>

\* Faulty variant: the time is added to what is left.
LoginExtendAdds(h) ==
    LET k == handler[h].key IN
    /\ At(h, "login_extend")
    /\ throttle' = [throttle EXCEPT ![k] = IF @ = Null THEN Null
                                           ELSE [@ EXCEPT !.left = @ + Block]]
    /\ Goto(h, "idle")
    /\ UNCHANGED <<users, sessions, counting, unrevoked>>

\* extend_login_block: a blocked attempt moves the end of the block.
LoginExtend(h) ==
    LET k == handler[h].key IN
    /\ At(h, "login_extend")
    /\ throttle' = [throttle EXCEPT ![k] = IF @ = Null THEN Null ELSE [@ EXCEPT !.left = Block]]
    /\ Goto(h, "idle")
    /\ UNCHANGED <<users, sessions, counting, unrevoked>>

\* get_user_by_username and verify_password
LoginVerify(h) ==
    LET k == handler[h].key
        u == users[User(h)]
    IN
    /\ At(h, "login_verify")
    /\ IF u.enabled /\ handler[h].password = u.password
       THEN Goto(h, "login_clear") /\ UNCHANGED counting
       ELSE Goto(h, "failed_read") /\ Guess(k)
    /\ UNCHANGED <<users, sessions, throttle, unrevoked>>

\* Faulty variant: the limit is to be exceeded before it counts.
RecordedPastLimit(row) ==
    LET expired == row.age > Window
        count == IF expired THEN 1 ELSE row.count + 1
    IN  [count |-> count,
         age |-> IF expired THEN 0 ELSE row.age,
         left |-> IF count > Threshold THEN Block ELSE 0]

\* record_failed_login: the row as it will be written, from what is read now
FirstFailure == [count |-> 1, age |-> 0, left |-> 0]
Recorded(row) ==
    LET expired == row.age > Window
        count == IF expired THEN 1 ELSE row.count + 1
    IN  [count |-> count,
         age |-> IF expired THEN 0 ELSE row.age,
         left |-> IF count >= Threshold THEN Block ELSE 0]

FailedRead(h) ==
    LET row == throttle[handler[h].key] IN
    /\ At(h, "failed_read")
    /\ handler' = [handler EXCEPT
                     ![h].op = IF row = Null THEN "failed_insert" ELSE "failed_update",
                     ![h].row = IF row = Null THEN FirstFailure ELSE Recorded(row)]
    /\ UNCHANGED <<users, sessions, throttle, counting, unrevoked>>

\* The primary key makes the second of two first failures raise, uncounted.
FailedInsert(h) ==
    LET k == handler[h].key IN
    /\ At(h, "failed_insert")
    /\ throttle' = [throttle EXCEPT ![k] = IF @ # Null THEN @ ELSE handler[h].row]
    /\ IF throttle[k] = Null THEN BeginCount(h, 1) ELSE UNCHANGED counting
    /\ Goto(h, "idle")
    /\ UNCHANGED <<users, sessions, unrevoked>>

\* The values computed at the read are written, whatever the row has become.
FailedUpdate(h) ==
    LET k == handler[h].key
        row == handler[h].row
    IN
    /\ At(h, "failed_update")
    /\ throttle' = [throttle EXCEPT ![k] = IF @ = Null THEN Null ELSE row]
    /\ IF throttle[k] # Null /\ row.count = 1 THEN BeginCount(h, 1) ELSE UNCHANGED counting
    /\ Goto(h, "idle")
    /\ UNCHANGED <<users, sessions, unrevoked>>

\* clear_login_failures
LoginClear(h) ==
    LET k == handler[h].key IN
    /\ At(h, "login_clear")
    /\ throttle' = [throttle EXCEPT ![k] = Null]
    /\ BeginCount(h, 0)
    /\ Goto(h, "login_create")
    /\ UNCHANGED <<users, sessions, unrevoked>>

\* create_session
LoginCreate(h) ==
    /\ At(h, "login_create")
    /\ sessions' = sessions \union {[user |-> User(h), password |-> handler[h].password,
                                     late |-> handler[h].late]}
    /\ Goto(h, "idle")
    /\ UNCHANGED <<users, throttle, counting, unrevoked>>

----------------------------------------------------------------------------
(* Sessions and passwords.                                                 *)

\* logout, and expires_at passing
Logout(s) ==
    /\ sessions' = sessions \ {s}
    /\ UNCHANGED <<users, throttle, handler, counting, unrevoked>>

\* get_current_user: the session is valid and its user enabled.
Authenticated(u) == users[u].enabled /\ \E s \in sessions : s.user = u

\* change_own_password: authenticated, then the current password is verified once more
ChangeBegin(h, k) ==
    /\ Authenticated(k[1])
    /\ Enter(h, "change_verify", k, users[k[1]].password)
    /\ UNCHANGED <<users, sessions, throttle, counting, unrevoked>>

ChangeVerify(h) ==
    LET u == users[User(h)] IN
    /\ At(h, "change_verify")
    /\ Goto(h, IF u.enabled /\ handler[h].password = u.password THEN "change_write" ELSE "idle")
    /\ UNCHANGED <<users, sessions, throttle, counting, unrevoked>>

\* reset_password of an administrator or of the command line
ResetBegin(h, k) ==
    /\ users[k[1]].enabled
    /\ Enter(h, "reset_write", k, Null)
    /\ UNCHANGED <<users, sessions, throttle, counting, unrevoked>>

\* The new password is committed; logins that have verified the old one go on.
Replace(h, rows) ==
    LET u == User(h) IN
    /\ users' = rows
    /\ handler' = [g \in Handlers |->
         IF g = h THEN [handler[g] EXCEPT !.op = "invalidate"]
         ELSE IF rows # users /\ handler[g].op \in {"login_clear", "login_create"}
                 /\ User(g) = u
              THEN [handler[g] EXCEPT !.late = TRUE] ELSE handler[g]]
    /\ UNCHANGED <<sessions, throttle, counting, unrevoked>>

NewPassword(u) == [users EXCEPT ![u].password = @ + 1]

ChangeWrite(h) ==
    LET u == User(h) IN
    /\ At(h, "change_write")
    /\ users[u].password < MaxPasswords
    /\ Replace(h, IF users[u].enabled THEN NewPassword(u) ELSE users)

\* Unlike a change of one's own, a reset also writes to a user deleted meanwhile.
ResetWrite(h) ==
    /\ At(h, "reset_write")
    /\ users[User(h)].password < MaxPasswords
    /\ Replace(h, NewPassword(User(h)))

\* Faulty variant: only the sessions opened with the password just replaced are removed.
InvalidateReplaced(h) ==
    /\ At(h, "invalidate")
    /\ sessions' = {s \in sessions : s.user # User(h) \/ s.password # handler[h].password}
    /\ unrevoked' = unrevoked \ {User(h)}
    /\ Goto(h, "idle")
    /\ UNCHANGED <<users, throttle, counting>>

\* invalidate_user_sessions
Invalidate(h) ==
    /\ At(h, "invalidate")
    /\ sessions' = {s \in sessions : s.user # User(h)}
    /\ unrevoked' = unrevoked \ {User(h)}
    /\ Goto(h, "idle")
    /\ UNCHANGED <<users, throttle, counting>>

\* delete_user: its rows in sessions stay.
Disable(u) ==
    /\ users[u].enabled
    /\ users' = [users EXCEPT ![u].enabled = FALSE]
    /\ UNCHANGED <<sessions, throttle, handler, counting, unrevoked>>

\* The call raises at its next statement, or the process stops: what it has committed stays,
\* a failure is not recorded, sessions are not removed.
Interrupt(h) ==
    /\ handler[h].op # "idle"
    /\ IF handler[h].op \in {"failed_read", "failed_insert", "failed_update"}
       THEN Disturb(handler[h].key) ELSE UNCHANGED counting
    /\ unrevoked' = IF At(h, "invalidate") THEN unrevoked \union {User(h)} ELSE unrevoked
    /\ Goto(h, "idle")
    /\ UNCHANGED <<users, sessions, throttle>>

----------------------------------------------------------------------------

Older(row) ==
    IF row = Null THEN Null
    ELSE [row EXCEPT !.age = IF @ <= Window THEN @ + 1 ELSE @,
                     !.left = IF @ > 0 THEN @ - 1 ELSE 0]

\* A minute passes; a call under way holds on to the times it has computed.
Tick ==
    /\ throttle' = [k \in Keys |-> Older(throttle[k])]
    /\ handler' = [h \in Handlers |-> [handler[h] EXCEPT !.row = Older(@)]]
    /\ recent' = [k \in Keys |-> [age \in 0 .. Window |-> IF age = 0 THEN 0
                                                         ELSE recent[k][age - 1]]]
    /\ UNCHANGED <<users, sessions, guesses, disturbed, unrevoked>>

Step(h) ==
    \/ LoginExtend(h) \/ LoginVerify(h) \/ LoginClear(h) \/ LoginCreate(h)
    \/ FailedRead(h) \/ FailedInsert(h) \/ FailedUpdate(h)
    \/ ChangeVerify(h) \/ ChangeWrite(h) \/ ResetWrite(h) \/ Invalidate(h)

Next ==
    \/ \E h \in Handlers :
          \/ Step(h) \/ Interrupt(h)
          \/ \E k \in Keys : LoginCheck(h, k) \/ ChangeBegin(h, k) \/ ResetBegin(h, k)
    \/ \E s \in sessions : Logout(s)
    \/ \E u \in Users : Disable(u)
    \/ Tick

Spec == Init /\ [][Next]_vars

----------------------------------------------------------------------------
(* Properties.                                                             *)

\* The variables keep their types: no block is longer than THROTTLE_BLOCK_MINUTES.
TypeOK ==
    /\ users \in [Users -> [password : Passwords, enabled : BOOLEAN]]
    /\ sessions \subseteq Session
    /\ throttle \in [Keys -> ThrottleRow \union {Null}]
    /\ handler \in [Handlers -> Call]
    /\ guesses \in [Keys -> Nat] /\ recent \in [Keys -> [0 .. Window -> Nat]]
    /\ disturbed \subseteq Keys /\ unrevoked \subseteq Users

\* Failures at the limit keep the key blocked until their window is over; one more attempt
\* may come at the very end of it.
BlocksInTime(row) ==
    /\ row.count <= Threshold + 1
    /\ row.count >= Threshold => row.left + row.age >= Window
    /\ row.count > Threshold => row.age >= Window /\ row.left + row.age > Window

\* Between attempts the row has counted every guess, and blocks once there are too many.
Counted(k) == IF throttle[k] = Null THEN 0 ELSE throttle[k].count
CountsKept ==
    \A k \in Keys \ disturbed :
        (\A h \in Handlers : ~Attempting(h, k)) =>
            guesses[k] = Counted(k) /\ (throttle[k] # Null => BlocksInTime(throttle[k]))

\* As long as the attempts for a name and address come one after the other and each is
\* recorded, whatever the other threads do, the throttle counts them all, and no span of
\* THROTTLE_WINDOW_MINUTES sees twice the threshold of them: the window is fixed, so that
\* the last guesses of one count and the first of the next come together
\* (login_throttle.py:54-102).  Attempts that overlap, or whose write fails, go past it.
GuessesBounded ==
    /\ CountsKept
    /\ \A k \in Keys \ disturbed : SumFunction(recent[k]) < 2 * Threshold

\* Sessions opened with an older password than the one of their user are left only while a
\* change or reset is about to remove them, by a login that had verified the password before
\* it was replaced, or if the last change was cut short between its two commits
\* (auth_service.py:209-221, user_service.py:333-343); the next change removes them then.
RevokedWithPassword ==
    \A s \in sessions :
        s.password # users[s.user].password =>
            \/ s.late \/ s.user \in unrevoked
            \/ \E h \in Handlers : At(h, "invalidate") /\ User(h) = s.user

=============================================================================
