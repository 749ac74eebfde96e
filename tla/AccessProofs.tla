---------------------------- MODULE AccessProofs ----------------------------
(***************************************************************************)
(* Proofs about module Access: its types, that domains can be followed     *)
(* back to super-admins, that dashboards keep living owners and that a super-admin *)
(* remains, for any users, domains, dashboards, keys and request threads.  *)
(*                                                                         *)
(* The inductive invariants say what is still true of a request that has   *)
(* been let in, or decided, when it comes to write: true of the tables it  *)
(* has read unless they are known to have changed since (overtaken), and   *)
(* what a request hands on is something its actor rightly had.             *)
(***************************************************************************)
EXTENDS Access, WellFoundedInduction, TLAPS

\* The actor of a request is a user, and is the one that was let in unless changed since.
ActorKnown(a) ==
    /\ users[a.actor] # Null
    /\ a.actor \notin a.overtaken => users[a.actor] = [role |-> a.role, enabled |-> TRUE]

\* Whoever is to be changed is someone else, and outranked unless changed since.
TargetKnown(a) ==
    a.op \in {"update_user", "delete_user"} =>
        /\ a.call.user # a.actor /\ users[a.call.user] # Null
        /\ a.call.user \notin a.overtaken => Outranks(a, a.call.user)

RequestsKnown ==
    \A h \in Handlers : handler[h] # Idle => ActorKnown(handler[h]) /\ TargetKnown(handler[h])

\* A deletion knows of every dashboard of its user, and of an heir, unless changed since; the
\* new owner of a transfer is there, unless changed since.
OwnersKnown(a) ==
    /\ a.op = "delete_user" =>
          /\ \A x \in Dashboards : dashboards[x] = a.call.user =>
                                       x \in a.call.owned \union a.overtaken
          /\ a.call.owned # {} => /\ a.call.heir \in Users \ {a.call.user}
                                  /\ a.call.heir \in a.overtaken \/ Enabled(a.call.heir)
    /\ a.op = "transfer" => a.call.user \in a.overtaken \/ Enabled(a.call.user)

RequestsOwnersKnown == \A h \in Handlers : handler[h] # Idle => OwnersKnown(handler[h])

\* The domains a request is about to write were its actor's to give when it was decided.
HandsOn(a) ==
    a.op \in {"assign_domain", "create_dashboard", "update_dashboard", "create_key"} =>
        a.call.domains \subseteq a.given

RequestsHandOn == \A h \in Handlers : handler[h] # Idle => HandsOn(handler[h])

GrantedInv == GrantedBySuperAdmin /\ RequestsHandOn
OwnerInv == OwnerRemains /\ RequestsOwnersKnown

-----------------------------------------------------------------------------
(* Operators.                                                              *)

\* Names are ordered, so there is a first one among any.
LEMMA LeastExists ==
    ASSUME NEW S \in SUBSET Nat, S # {}
    PROVE  \E n \in S : \A m \in S : n <= m
<1>1. IsWellFoundedOn(OpToRel(<, Nat), Nat)
  BY NatLessThanWellFounded
<1>2. PICK n \in S : \A m \in S : <<m, n>> \notin OpToRel(<, Nat)
  BY <1>1, WFMin
<1>3. \A m \in S : ~ (m < n)
  BY <1>2 DEF OpToRel
<1>. QED  BY <1>3

\* The first by name is one of those it is chosen from.
LEMMA FirstByNameType ==
    ASSUME NEW us \in SUBSET Users
    PROVE  FirstByName(us) \in us \/ (us = {} /\ FirstByName(us) = Null)
<1>1. CASE us = {}
  BY <1>1 DEF FirstByName
<1>2. CASE us # {}
  <2>1. \E u \in us : \A v \in us : u <= v
    BY <1>2, LeastExists, AccessAssumption
  <2>2. FirstByName(us) = CHOOSE u \in us : \A v \in us : u <= v
    BY <1>2 DEF FirstByName
  <2>3. (CHOOSE u \in us : \A v \in us : u <= v) \in us
    BY <2>1
  <2>. QED  BY <2>2, <2>3
<1>. QED  BY <1>1, <1>2

\* An heir is an enabled user other than the one deleted.
LEMMA HeirType ==
    ASSUME NEW x, NEW u
    PROVE  Heir(x, u) = Null \/ (Heir(x, u) \in Users \ {u} /\ Enabled(Heir(x, u)))
<1>. DEFINE able == {v \in Users \ {u} : Enabled(v) /\ ScopeOf(x) \subseteq AssignedTo(v)}
            managers == {v \in able : shares[<<x, v>>] = "manager"}
            admins == {v \in able : users[v].role = "admin"}
            super_admins == {v \in Users \ {u} : Enabled(v) /\ users[v].role = "super-admin"}
            us == IF managers # {} THEN managers
                  ELSE IF admins # {} THEN admins ELSE super_admins
<1>1. us \subseteq {v \in Users \ {u} : Enabled(v)}
  OBVIOUS
<1>2. Heir(x, u) = FirstByName(us)
  BY DEF Heir
<1>. HIDE DEF us
<1>3. FirstByName(us) \in us \/ FirstByName(us) = Null
  BY <1>1, FirstByNameType
<1>. QED  BY <1>1, <1>2, <1>3

\* A decided request keeps its actor and waits with its call; the others do not notice.
LEMMA DecideStep ==
    ASSUME TypeOK, NEW h \in Handlers, NEW op, NEW call, Decide(h, op, call), call \in Calls(op)
    PROVE  /\ handler[h] # Idle /\ handler[h].op = "authenticated"
           /\ \A g \in Handlers \ {h} : handler'[g] = handler[g]
           /\ handler'[h] = [handler[h] EXCEPT !.op = op, !.call = call, !.given = Given(handler[h])]
           /\ handler[h] \in Request("authenticated") /\ handler'[h] \in Request(op)
           /\ DOMAIN handler' = Handlers
<1>1. handler[h] # Idle /\ handler[h].op = "authenticated"
  BY DEF Decide, Idle
<1>2. handler[h] \in Request("authenticated")
  BY <1>1 DEF TypeOK
<1>3. /\ \A g \in Handlers \ {h} : handler'[g] = handler[g]
      /\ handler'[h] = [handler[h] EXCEPT !.op = op, !.call = call, !.given = Given(handler[h])]
      /\ DOMAIN handler' = Handlers
  BY DEF Decide, TypeOK
<1>4. handler'[h] \in Request(op)
  <2>1. Given(handler[h]) \in SUBSET Domains
    BY DEF Given
  <2>. QED  BY <1>2, <1>3, <2>1 DEF Request
<1>. QED  BY <1>1, <1>2, <1>3, <1>4

\* A finished request is gone; the others are told what has changed, and nothing else.
LEMMA FinishStep ==
    ASSUME TypeOK, NEW h \in Handlers, NEW changed \in SUBSET (Users \union Dashboards),
           Finish(h, changed)
    PROVE  /\ DOMAIN handler' = Handlers /\ handler'[h] = Idle
           /\ \A g \in Handlers :
                \/ handler'[g] = Idle
                \/ /\ g # h /\ handler[g] # Idle
                   /\ handler[g] \in Request(handler[g].op)
                   /\ handler'[g] \in Request(handler[g].op)
                   /\ handler'[g] = [handler[g] EXCEPT !.overtaken = @ \union changed]
<1>1. ASSUME NEW g \in Handlers, handler'[g] # Idle
      PROVE  /\ g # h /\ handler[g] # Idle
             /\ handler[g] \in Request(handler[g].op)
             /\ handler'[g] \in Request(handler[g].op)
             /\ handler'[g] = [handler[g] EXCEPT !.overtaken = @ \union changed]
  <2>1. g # h /\ handler[g] # Idle
        /\ handler'[g] = [handler[g] EXCEPT !.overtaken = @ \union changed]
    BY <1>1 DEF Finish
  <2>2. handler[g] \in Request(handler[g].op)
    BY <2>1 DEF TypeOK
  <2>3. handler'[g] \in Request(handler[g].op)
    BY <2>1, <2>2 DEF Request
  <2>. QED  BY <2>1, <2>2, <2>3
<1>2. DOMAIN handler' = Handlers /\ handler'[h] = Idle
  BY DEF Finish
<1>. QED  BY <1>1, <1>2

-----------------------------------------------------------------------------
(* Types.                                                                  *)

\* The checks, each of which ends in Decide
UserCheck(h) ==
    /\ IsAdmin(handler[h])
    /\ \/ CreateUserCheck(h) \/ UpdateUserCheck(h)
       \/ AssignDomainCheck(h) \/ RemoveDomainCheck(h) \/ DeleteUserCheck(h)

DashboardCheck(h) ==
    \/ CreateDashboardCheck(h) \/ UpdateDashboardCheck(h) \/ DeleteDashboardCheck(h)
    \/ TransferCheck(h) \/ ShareCheck(h) \/ UnshareCheck(h)

KeyCheck(h) == CreateKeyCheck(h) \/ UpdateKeyCheck(h) \/ DeleteKeyCheck(h)

\* What is decided about a deletion: the heir of the first dashboard, if there is one, is an
\* enabled user other than the one deleted.
LEMMA DeleteUserDecided ==
    ASSUME TypeOK, NEW h \in Handlers, DeleteUserCheck(h)
    PROVE  \E u \in Users, x \in Dashboards \union {Null}, v \in Users \union {Null} :
             LET owned == {y \in Dashboards : dashboards[y] = u}
                 call == [user |-> u, owned |-> owned, first |-> x, heir |-> v]
             IN  /\ Decide(h, "delete_user", call) /\ call \in Calls("delete_user")
                 /\ Enabled(u) /\ CanDeleteUser(handler[h], u)
                 /\ owned # {} => v \in Users \ {u} /\ Enabled(v)
<1>1. PICK u \in Users :
        LET owned == {x \in Dashboards : dashboards[x] = u}
            first == IF owned = {} THEN Null ELSE CHOOSE x \in owned : TRUE
            heir == IF owned = {} THEN Null ELSE Heir(first, u)
        IN  /\ Enabled(u) /\ CanDeleteUser(handler[h], u)
            /\ owned # {} => heir # Null
            /\ Decide(h, "delete_user", [user |-> u, owned |-> owned, first |-> first,
                                         heir |-> heir])
  BY DEF DeleteUserCheck
<1>. DEFINE owned == {x \in Dashboards : dashboards[x] = u}
            first == IF owned = {} THEN Null ELSE CHOOSE x \in owned : TRUE
            heir == IF owned = {} THEN Null ELSE Heir(first, u)
            call == [user |-> u, owned |-> owned, first |-> first, heir |-> heir]
<1>2. /\ Enabled(u) /\ CanDeleteUser(handler[h], u)
      /\ owned # {} => heir # Null
      /\ Decide(h, "delete_user", call)
  BY <1>1
<1>3. first \in Dashboards \union {Null}
  OBVIOUS
<1>4. heir = Null \/ (heir \in Users \ {u} /\ Enabled(heir))
  BY HeirType
<1>. HIDE DEF first, heir
<1>5. call \in Calls("delete_user")
  BY <1>3, <1>4 DEF Calls
<1>. QED  BY <1>2, <1>3, <1>4, <1>5

\* Decisions about users: the one to be changed is somebody else, who is outranked; a deletion
\* knows of all the user's dashboards; admins hand on only what they have themselves.
UserDecision(h, op, call) ==
    /\ Decide(h, op, call) /\ call \in Calls(op)
    /\ op \in {"create_user", "update_user", "assign_domain", "remove_domain", "delete_user"}
    /\ op \in {"update_user", "delete_user"} =>
          /\ call.user # handler[h].actor /\ Enabled(call.user)
          /\ Outranks(handler[h], call.user)
    /\ op = "delete_user" =>
          /\ \A x \in Dashboards : dashboards[x] = call.user => x \in call.owned
          /\ call.owned # {} => call.heir \in Users \ {call.user} /\ Enabled(call.heir)
    /\ op = "assign_domain" =>
          handler[h].role = "super-admin" \/ call.domains \subseteq AssignedTo(handler[h].actor)

\* A check about users ends in such a decision.
LEMMA UserDecided ==
    ASSUME TypeOK, NEW h \in Handlers, UserCheck(h)
    PROVE  \E op, call : UserDecision(h, op, call)
<1>1. CASE CreateUserCheck(h)
  <2>1. PICK u \in Users, r \in Roles : Decide(h, "create_user", [user |-> u, role |-> r])
    BY <1>1 DEF CreateUserCheck
  <2>2. [user |-> u, role |-> r] \in Calls("create_user")
    BY DEF Calls
  <2>. QED  BY <2>1, <2>2 DEF UserDecision
<1>2. CASE UpdateUserCheck(h)
  <2>1. PICK u \in Users, r \in Roles :
                /\ Decide(h, "update_user", [user |-> u, role |-> r])
                /\ Enabled(u) /\ CanUpdateUser(handler[h], u, r)
    BY <1>2 DEF UpdateUserCheck
  <2>2. [user |-> u, role |-> r] \in Calls("update_user")
    BY DEF Calls
  <2>. QED  BY <2>1, <2>2 DEF UserDecision, CanUpdateUser
<1>3. CASE AssignDomainCheck(h)
  <2>1. PICK u \in Users, d \in Domains :
                /\ Decide(h, "assign_domain", [user |-> u, domains |-> {d}])
                /\ CanAssignDomain(handler[h], u, d)
    BY <1>3 DEF AssignDomainCheck
  <2>2. [user |-> u, domains |-> {d}] \in Calls("assign_domain")
    BY DEF Calls
  <2>3. handler[h].role = "super-admin" \/ d \in AssignedTo(handler[h].actor)
    BY <2>1 DEF CanAssignDomain, Outranks
  <2>. QED  BY <2>1, <2>2, <2>3 DEF UserDecision
<1>4. CASE RemoveDomainCheck(h)
  <2>1. PICK u \in Users, d \in Domains :
                Decide(h, "remove_domain", [user |-> u, domains |-> {d}])
    BY <1>4 DEF RemoveDomainCheck
  <2>2. [user |-> u, domains |-> {d}] \in Calls("remove_domain")
    BY DEF Calls
  <2>. QED  BY <2>1, <2>2 DEF UserDecision
<1>5. CASE DeleteUserCheck(h)
  <2>1. PICK u \in Users, x \in Dashboards \union {Null}, v \in Users \union {Null} :
             LET owned == {y \in Dashboards : dashboards[y] = u}
                 call == [user |-> u, owned |-> owned, first |-> x, heir |-> v]
             IN  /\ Decide(h, "delete_user", call) /\ call \in Calls("delete_user")
                 /\ Enabled(u) /\ CanDeleteUser(handler[h], u)
                 /\ owned # {} => v \in Users \ {u} /\ Enabled(v)
    BY <1>5, DeleteUserDecided
  <2>. DEFINE owned == {y \in Dashboards : dashboards[y] = u}
              call == [user |-> u, owned |-> owned, first |-> x, heir |-> v]
  <2>2. call.user = u /\ call.owned = owned /\ call.heir = v
    OBVIOUS
  <2>3. \A y \in Dashboards : dashboards[y] = u => y \in owned
    OBVIOUS
  <2>. HIDE DEF call, owned
  <2>4. /\ Decide(h, "delete_user", call) /\ call \in Calls("delete_user")
        /\ Enabled(u) /\ CanDeleteUser(handler[h], u)
        /\ owned # {} => v \in Users \ {u} /\ Enabled(v)
    BY <2>1 DEF call, owned
  <2>5. UserDecision(h, "delete_user", call)
    BY <2>2, <2>3, <2>4 DEF UserDecision, CanDeleteUser
  <2>. QED  BY <2>5
<1>. QED  BY <1>1, <1>2, <1>3, <1>4, <1>5 DEF UserCheck

\* What is allowed to a request is among the domains.
LEMMA AllowedType == \A a : Allowed(a) \subseteq Domains
BY DEF Allowed

\* Decisions about dashboards: the domains are the actor's, and a new owner is there.
DashboardDecision(h, op, call) ==
    /\ Decide(h, op, call) /\ call \in Calls(op)
    /\ op \in {"create_dashboard", "update_dashboard", "delete_dashboard", "transfer", "share"}
    /\ op \in {"create_dashboard", "update_dashboard"} =>
          call.domains \subseteq Allowed(handler[h])
    /\ op = "transfer" => Enabled(call.user)

\* A check about dashboards ends in such a decision.
LEMMA DashboardDecided ==
    ASSUME TypeOK, NEW h \in Handlers, DashboardCheck(h)
    PROVE  \E op, call : DashboardDecision(h, op, call)
<1>1. CASE CreateDashboardCheck(h) \/ UpdateDashboardCheck(h)
  <2>1. PICK x \in Dashboards, ds \in SUBSET Allowed(handler[h]),
             op \in {"create_dashboard", "update_dashboard"} :
                Decide(h, op, [dashboard |-> x, domains |-> ds])
    BY <1>1 DEF CreateDashboardCheck, UpdateDashboardCheck
  <2>2. [dashboard |-> x, domains |-> ds] \in Calls(op)
    BY AllowedType DEF Calls
  <2>. QED  BY <2>1, <2>2 DEF DashboardDecision
<1>2. CASE DeleteDashboardCheck(h)
  <2>1. PICK x \in Dashboards : Decide(h, "delete_dashboard", [dashboard |-> x])
    BY <1>2 DEF DeleteDashboardCheck
  <2>2. [dashboard |-> x] \in Calls("delete_dashboard")
    BY DEF Calls
  <2>. QED  BY <2>1, <2>2 DEF DashboardDecision
<1>3. CASE TransferCheck(h)
  <2>1. PICK x \in Dashboards, u \in Users :
                Decide(h, "transfer", [dashboard |-> x, user |-> u]) /\ Enabled(u)
    BY <1>3 DEF TransferCheck
  <2>2. [dashboard |-> x, user |-> u] \in Calls("transfer")
    BY DEF Calls
  <2>. QED  BY <2>1, <2>2 DEF DashboardDecision
<1>4. CASE ShareCheck(h) \/ UnshareCheck(h)
  <2>1. PICK x \in Dashboards, u \in Users, level \in {"viewer", "manager", Null} :
                Decide(h, "share", [share |-> <<x, u>>, level |-> level])
    BY <1>4 DEF ShareCheck, UnshareCheck
  <2>2. [share |-> <<x, u>>, level |-> level] \in Calls("share")
    BY DEF Calls
  <2>. QED  BY <2>1, <2>2 DEF DashboardDecision
<1>. QED  BY <1>1, <1>2, <1>3, <1>4 DEF DashboardCheck

\* Decisions about API keys: the domains are the actor's.
KeyDecision(h, op, call) ==
    /\ Decide(h, op, call) /\ call \in Calls(op)
    /\ op \in {"create_key", "update_key", "delete_key"}
    /\ op = "create_key" => call.domains \subseteq Allowed(handler[h])

\* A check about API keys ends in such a decision.
LEMMA KeyDecided ==
    ASSUME TypeOK, NEW h \in Handlers, KeyCheck(h)
    PROVE  \E op, call : KeyDecision(h, op, call)
<1>1. CASE CreateKeyCheck(h)
  <2>1. PICK k \in Keys, ds \in SUBSET Allowed(handler[h]), ss \in SUBSET Scopes :
                Decide(h, "create_key", [key |-> k, domains |-> ds, scopes |-> ss])
    BY <1>1 DEF CreateKeyCheck
  <2>2. [key |-> k, domains |-> ds, scopes |-> ss] \in Calls("create_key")
    BY AllowedType DEF Calls
  <2>. QED  BY <2>1, <2>2 DEF KeyDecision
<1>2. CASE UpdateKeyCheck(h)
  <2>1. PICK k \in Keys, ss \in SUBSET Scopes :
                Decide(h, "update_key", [key |-> k, scopes |-> ss])
    BY <1>2 DEF UpdateKeyCheck
  <2>2. [key |-> k, scopes |-> ss] \in Calls("update_key")
    BY DEF Calls
  <2>. QED  BY <2>1, <2>2 DEF KeyDecision
<1>3. CASE DeleteKeyCheck(h)
  <2>1. PICK k \in Keys : Decide(h, "delete_key", [key |-> k])
    BY <1>3 DEF DeleteKeyCheck
  <2>2. [key |-> k] \in Calls("delete_key")
    BY DEF Calls
  <2>. QED  BY <2>1, <2>2 DEF KeyDecision
<1>. QED  BY <1>1, <1>2, <1>3 DEF KeyCheck

\* A request is typed by its operation.
LEMMA RequestTyped ==
    ASSUME TypeOK, NEW h \in Handlers, handler[h].op # "idle"
    PROVE  /\ handler[h] # Idle /\ handler[h] \in Request(handler[h].op)
           /\ handler[h].call \in Calls(handler[h].op)
           /\ handler[h].actor \in Users /\ handler[h].role \in Roles
           /\ handler[h].overtaken \subseteq Users \union Dashboards
           /\ handler[h].given \subseteq Domains
<1>1. handler[h] # Idle
  BY DEF Idle
<1>2. handler[h] \in Request(handler[h].op)
  BY <1>1 DEF TypeOK
<1>. QED  BY <1>1, <1>2 DEF Request

\* Requests stay typed when one of them is decided or finished.
LEMMA DecideTypes ==
    ASSUME TypeOK, NEW h \in Handlers, NEW op, NEW call, Decide(h, op, call), call \in Calls(op)
    PROVE  TypeOK'
<1>1. /\ DOMAIN handler' = Handlers
      /\ \A g \in Handlers : handler'[g] = Idle \/ handler'[g] \in Request(handler'[g].op)
  <2>1. /\ \A g \in Handlers \ {h} : handler'[g] = handler[g]
        /\ handler'[h] \in Request(op)
        /\ DOMAIN handler' = Handlers
    BY DecideStep
  <2>2. handler'[h].op = op
    BY <2>1 DEF Request
  <2>. QED  BY <2>1, <2>2 DEF TypeOK
<1>2. calls' \in 0 .. MaxCalls
  BY AccessAssumption DEF Decide, TypeOK
<1>. QED  BY <1>1, <1>2 DEF Decide, TypeOK, userTables, dashboardTables, keyTables

\* And when one of them is finished.
LEMMA FinishTypes ==
    ASSUME TypeOK, NEW h \in Handlers, NEW changed \in SUBSET (Users \union Dashboards),
           Finish(h, changed)
    PROVE  /\ DOMAIN handler' = Handlers
           /\ \A g \in Handlers : handler'[g] = Idle \/ handler'[g] \in Request(handler'[g].op)
           /\ calls' \in 0 .. MaxCalls
<1>1. ASSUME NEW g \in Handlers, handler'[g] # Idle
      PROVE  handler'[g] \in Request(handler'[g].op)
  <2>1. handler[g] \in Request(handler[g].op)
        /\ handler'[g] = [handler[g] EXCEPT !.overtaken = @ \union changed]
        /\ handler'[g] \in Request(handler[g].op)
    BY <1>1, FinishStep
  <2>2. handler'[g].op = handler[g].op
    BY <2>1 DEF Request
  <2>. QED  BY <2>1, <2>2
<1>2. calls' \in 0 .. MaxCalls
  BY DEF Finish, TypeOK
<1>. QED  BY <1>1, <1>2, FinishStep

\* What is granted and withdrawn are rows with domains.
Grants == SUBSET ((Users \union Dashboards \union Keys) \X Domains)

LEMMA GrantTypes ==
    ASSUME TypeOK, NEW h, NEW x \in Users \union Dashboards \union Keys,
           NEW ds \in SUBSET Domains, Grant(h, {x} \X ds)
    PROVE  granted' \in Grants
BY DEF Grant, Grants, TypeOK

\* Fewer of them still are.
LEMMA WithdrawTypes ==
    ASSUME TypeOK, NEW rows, Withdraw(rows)
    PROVE  granted' \in Grants
BY DEF Withdraw, Grants, TypeOK

\* The writes to the tables of users keep the types.
LEMMA UserTypes ==
    ASSUME TypeOK, RequestsKnown, NEW h \in Handlers,
           CreateUser(h) \/ UpdateUser(h) \/ AssignDomain(h) \/ RemoveDomain(h) \/ DeleteUser(h)
    PROVE  TypeOK'
<1>. DEFINE c == handler[h].call
<1>1. CASE CreateUser(h)
  <2>1. c \in [user : Users, role : Roles]
    BY <1>1, RequestTyped DEF CreateUser, Calls
  <2>2. users' \in [Users -> [role : Roles, enabled : BOOLEAN] \union {Null}]
    BY <1>1, <2>1 DEF CreateUser, TypeOK
  <2>3. Finish(h, {})
    BY <1>1 DEF CreateUser
  <2>. QED  BY <1>1, <2>2, <2>3, FinishTypes
            DEF CreateUser, TypeOK, userTables, dashboardTables, keyTables
<1>2. CASE UpdateUser(h)
  <2>1. c \in [user : Users, role : Roles] /\ handler[h] # Idle
    BY <1>2, RequestTyped DEF UpdateUser, Calls
  <2>2. users[c.user] # Null
    BY <1>2, <2>1 DEF RequestsKnown, TargetKnown, UpdateUser
  <2>3. users' \in [Users -> [role : Roles, enabled : BOOLEAN] \union {Null}]
    BY <1>2, <2>1, <2>2 DEF UpdateUser, TypeOK
  <2>4. Finish(h, {c.user}) /\ {c.user} \in SUBSET (Users \union Dashboards)
    BY <1>2, <2>1 DEF UpdateUser
  <2>5. lapsed' \in BOOLEAN
    BY <1>2 DEF UpdateUser, TypeOK
  <2>. QED  BY <1>2, <2>3, <2>4, <2>5, FinishTypes
            DEF UpdateUser, TypeOK, userTables, dashboardTables, keyTables
<1>3. CASE AssignDomain(h)
  <2>1. c \in [user : Users, domains : SUBSET Domains]
    BY <1>3, RequestTyped DEF AssignDomain, Calls
  <2>2. Finish(h, {}) /\ Grant(h, {c.user} \X c.domains)
    BY <1>3 DEF AssignDomain
  <2>3. assigned' \subseteq Users \X Domains
    BY <1>3, <2>1 DEF AssignDomain, TypeOK
  <2>4. granted' \in Grants
    BY <2>1, <2>2, GrantTypes
  <2>. QED  BY <1>3, <2>2, <2>3, <2>4, FinishTypes
            DEF AssignDomain, Grants, TypeOK, userTables, dashboardTables, keyTables
<1>4. CASE RemoveDomain(h)
  <2>1. Finish(h, {}) /\ assigned' \subseteq assigned /\ Withdraw({c.user} \X c.domains)
    BY <1>4 DEF RemoveDomain
  <2>2. granted' \in Grants
    BY <2>1, WithdrawTypes
  <2>. QED  BY <1>4, <2>1, <2>2, FinishTypes
            DEF RemoveDomain, Grants, TypeOK, userTables, dashboardTables, keyTables
<1>5. CASE DeleteUser(h)
  <2>1. c \in [user : Users, owned : SUBSET Dashboards,
               first : Dashboards \union {Null}, heir : Users \union {Null}]
        /\ handler[h] # Idle /\ handler[h].overtaken \subseteq Users \union Dashboards
    BY <1>5, RequestTyped DEF DeleteUser, Calls
  <2>2. users[c.user] # Null
    BY <1>5, <2>1 DEF RequestsKnown, TargetKnown, DeleteUser
  <2>. DEFINE heirs == [x \in c.owned |-> IF x = c.first THEN c.heir ELSE Heir(x, c.user)]
              given == {x \in c.owned : Exists(x)}
              late == handler[h].overtaken
  <2>3. CASE \E x \in c.owned : heirs[x] = Null
    <3>1. Finish(h, {}) /\ UNCHANGED <<userTables, dashboardTables, lapsed, strays>>
      BY <1>5, <2>3 DEF DeleteUser
    <3>. QED  BY <1>5, <3>1, FinishTypes
              DEF DeleteUser, TypeOK, userTables, dashboardTables, keyTables
  <2>4. CASE ~ \E x \in c.owned : heirs[x] = Null
    <3>1. /\ dashboards' = [x \in Dashboards |-> IF x \in given THEN heirs[x] ELSE dashboards[x]]
          /\ shares' = [s \in Dashboards \X Users |-> IF s[2] = c.user THEN Null ELSE shares[s]]
          /\ users' = [users EXCEPT ![c.user].enabled = FALSE]
          /\ strays' = (strays \ given)
                          \union {x \in given : heirs[x] \in late /\ ~Enabled(heirs[x])}
                          \union {x \in late : x \in Dashboards \ given
                                               /\ dashboards[x] = c.user}
          /\ lapsed' = (lapsed \/ {handler[h].actor, c.user} \intersect late # {})
          /\ Finish(h, {c.user} \union given)
          /\ UNCHANGED <<assigned, scope, domains, keyTables, granted>>
      BY <1>5, <2>4 DEF DeleteUser
    <3>2. \A x \in c.owned : heirs[x] \in Users
      BY <2>1, <2>4, HeirType
    <3>3. dashboards' \in [Dashboards -> Users \union {Null, Deleted}]
      <4>. HIDE DEF heirs
      <4>. QED  BY <3>1, <3>2 DEF TypeOK
    <3>4. shares' \in [Dashboards \X Users -> {"viewer", "manager", Null}]
      BY <3>1 DEF TypeOK
    <3>5. users' \in [Users -> [role : Roles, enabled : BOOLEAN] \union {Null}]
      <4>1. users' = [users EXCEPT ![c.user].enabled = FALSE] /\ c.user \in Users
        BY <2>1, <3>1
      <4>. HIDE DEF c
      <4>. QED  BY <2>2, <4>1 DEF TypeOK
    <3>6. {c.user} \union given \in SUBSET (Users \union Dashboards)
      BY <2>1
    <3>7. strays' \subseteq Dashboards /\ lapsed' \in BOOLEAN
      BY <2>1, <3>1 DEF TypeOK
    <3>. QED  BY <3>1, <3>3, <3>4, <3>5, <3>6, <3>7, FinishTypes DEF TypeOK, keyTables
  <2>. QED  BY <2>3, <2>4
<1>. QED  BY <1>1, <1>2, <1>3, <1>4, <1>5

\* So do the writes to the tables of dashboards.
LEMMA DashboardTypes ==
    ASSUME TypeOK, NEW h \in Handlers,
           CreateDashboard(h) \/ UpdateDashboard(h) \/ DeleteDashboard(h) \/ Transfer(h) \/ Share(h)
    PROVE  TypeOK'
<1>. DEFINE c == handler[h].call
<1>1. CASE CreateDashboard(h)
  <2>1. c \in [dashboard : Dashboards, domains : SUBSET Domains] /\ handler[h].actor \in Users
    BY <1>1, RequestTyped DEF CreateDashboard, Calls
  <2>2. Finish(h, {c.dashboard}) /\ Grant(h, {c.dashboard} \X c.domains)
    BY <1>1 DEF CreateDashboard
  <2>3. /\ dashboards' \in [Dashboards -> Users \union {Null, Deleted}]
        /\ scope' \subseteq Dashboards \X Domains /\ strays' \subseteq Dashboards
    BY <1>1, <2>1 DEF CreateDashboard, TypeOK
  <2>4. granted' \in Grants
    BY <2>1, <2>2, GrantTypes
  <2>. QED  BY <1>1, <2>1, <2>2, <2>3, <2>4, FinishTypes
            DEF CreateDashboard, Grants, TypeOK, userTables, keyTables
<1>2. CASE UpdateDashboard(h)
  <2>1. c \in [dashboard : Dashboards, domains : SUBSET Domains]
    BY <1>2, RequestTyped DEF UpdateDashboard, Calls
  <2>2. Finish(h, {})
    BY <1>2 DEF UpdateDashboard
  <2>3. scope' \subseteq Dashboards \X Domains
    BY <1>2, <2>1 DEF UpdateDashboard, TypeOK
  <2>4. granted' \in Grants
    BY <1>2, <2>1 DEF UpdateDashboard, Grants, TypeOK
  <2>. QED  BY <1>2, <2>2, <2>3, <2>4, FinishTypes
            DEF UpdateDashboard, Grants, TypeOK, userTables, keyTables
<1>3. CASE DeleteDashboard(h)
  <2>1. c \in [dashboard : Dashboards]
    BY <1>3, RequestTyped DEF DeleteDashboard, Calls
  <2>2. /\ dashboards' \in [Dashboards -> Users \union {Null, Deleted}]
        /\ scope' \subseteq scope /\ Finish(h, {})
    BY <1>3, <2>1 DEF DeleteDashboard, TypeOK
  <2>3. granted' \in Grants
    BY <1>3, WithdrawTypes DEF DeleteDashboard
  <2>. QED  BY <1>3, <2>2, <2>3, FinishTypes
            DEF DeleteDashboard, Grants, TypeOK, userTables, keyTables
<1>4. CASE Transfer(h)
  <2>1. c \in [dashboard : Dashboards, user : Users]
    BY <1>4, RequestTyped DEF Transfer, Calls
  <2>2. /\ dashboards' \in [Dashboards -> Users \union {Null, Deleted}]
        /\ strays' \subseteq Dashboards /\ Finish(h, {c.dashboard})
    BY <1>4, <2>1 DEF Transfer, TypeOK
  <2>. QED  BY <1>4, <2>1, <2>2, FinishTypes DEF Transfer, TypeOK, userTables, keyTables
<1>5. CASE Share(h)
  <2>1. c \in [share : Dashboards \X Users, level : {"viewer", "manager", Null}]
    BY <1>5, RequestTyped DEF Share, Calls
  <2>2. shares' \in [Dashboards \X Users -> {"viewer", "manager", Null}] /\ Finish(h, {})
    BY <1>5, <2>1 DEF Share, TypeOK
  <2>. QED  BY <1>5, <2>2, FinishTypes DEF Share, TypeOK, userTables, keyTables
<1>. QED  BY <1>1, <1>2, <1>3, <1>4, <1>5

\* And the writes to the tables of API keys.
LEMMA KeyTypes ==
    ASSUME TypeOK, NEW h \in Handlers, CreateKey(h) \/ UpdateKey(h) \/ DeleteKey(h)
    PROVE  TypeOK'
<1>. DEFINE c == handler[h].call
<1>1. CASE CreateKey(h)
  <2>1. c \in [key : Keys, domains : SUBSET Domains, scopes : SUBSET Scopes]
        /\ handler[h].actor \in Users
    BY <1>1, RequestTyped DEF CreateKey, Calls
  <2>2. Finish(h, {}) /\ Grant(h, {c.key} \X c.domains)
    BY <1>1 DEF CreateKey
  <2>3. keys' \in [Keys -> Users \union {Null, Deleted}]
    BY <1>1, <2>1 DEF CreateKey, TypeOK
  <2>4. key_scopes' \subseteq Keys \X Scopes /\ key_domains' \subseteq Keys \X Domains
    BY <1>1, <2>1 DEF CreateKey, TypeOK
  <2>5. granted' \in Grants
    BY <2>1, <2>2, GrantTypes
  <2>. QED  BY <1>1, <2>2, <2>3, <2>4, <2>5, FinishTypes
            DEF CreateKey, Grants, TypeOK, userTables, dashboardTables
<1>2. CASE UpdateKey(h)
  <2>1. c \in [key : Keys, scopes : SUBSET Scopes]
    BY <1>2, RequestTyped DEF UpdateKey, Calls
  <2>2. key_scopes' \subseteq Keys \X Scopes /\ Finish(h, {})
    BY <1>2, <2>1 DEF UpdateKey, TypeOK
  <2>. QED  BY <1>2, <2>2, FinishTypes DEF UpdateKey, TypeOK, userTables, dashboardTables
<1>3. CASE DeleteKey(h)
  <2>1. c \in [key : Keys]
    BY <1>3, RequestTyped DEF DeleteKey, Calls
  <2>2. /\ keys' \in [Keys -> Users \union {Null, Deleted}]
        /\ key_scopes' \subseteq key_scopes /\ key_domains' \subseteq key_domains
        /\ Finish(h, {})
    BY <1>3, <2>1 DEF DeleteKey, TypeOK
  <2>3. granted' \in Grants
    BY <1>3, WithdrawTypes DEF DeleteKey
  <2>. QED  BY <1>3, <2>2, <2>3, FinishTypes
            DEF DeleteKey, Grants, TypeOK, userTables, dashboardTables
<1>. QED  BY <1>1, <1>2, <1>3

\* Letting a user in, and changes of a domain, keep the types.
LEMMA OtherTypes ==
    ASSUME TypeOK, \/ \E h \in Handlers, u \in Users : Authenticate(h, u)
                   \/ \E d \in Domains : ArchiveOrRestore(d) \/ Purge(d)
    PROVE  TypeOK'
<1>1. ASSUME NEW h \in Handlers, NEW u \in Users, Authenticate(h, u)
      PROVE  TypeOK'
  <2>1. users[u].role \in Roles
    BY <1>1 DEF Authenticate, Enabled, TypeOK
  <2>2. [Idle EXCEPT !.op = "authenticated", !.actor = u, !.role = users[u].role]
           \in Request("authenticated")
    BY <2>1 DEF Idle, Request, Calls
  <2>3. /\ DOMAIN handler' = Handlers
        /\ \A g \in Handlers : handler'[g] = Idle \/ handler'[g] \in Request(handler'[g].op)
    BY <1>1, <2>2 DEF Authenticate, TypeOK, Idle
  <2>. QED  BY <1>1, <2>3 DEF Authenticate, TypeOK, userTables, dashboardTables, keyTables
<1>2. ASSUME NEW d \in Domains, ArchiveOrRestore(d)
      PROVE  TypeOK'
  <2>1. calls' \in 0 .. MaxCalls
    BY <1>2, AccessAssumption DEF ArchiveOrRestore, TypeOK
  <2>2. domains' \in [Domains -> {"active", "archived", "gone"}]
    BY <1>2 DEF ArchiveOrRestore, TypeOK
  <2>. QED  BY <1>2, <2>1, <2>2
            DEF ArchiveOrRestore, TypeOK, userTables, dashboardTables, keyTables
<1>3. ASSUME NEW d \in Domains, Purge(d)
      PROVE  TypeOK'
  <2>1. granted' \in Grants
    BY <1>3, WithdrawTypes DEF Purge
  <2>. QED  BY <1>3, <2>1 DEF Purge, Grants, TypeOK
<1>. QED  BY <1>1, <1>2, <1>3

-----------------------------------------------------------------------------
(* What requests know of the users.                                        *)

\* The writes, each of which ends in Finish
UserWrite(h) ==
    CreateUser(h) \/ UpdateUser(h) \/ AssignDomain(h) \/ RemoveDomain(h) \/ DeleteUser(h)
DashboardWrite(h) ==
    CreateDashboard(h) \/ UpdateDashboard(h) \/ DeleteDashboard(h) \/ Transfer(h) \/ Share(h)
KeyWrite(h) == CreateKey(h) \/ UpdateKey(h) \/ DeleteKey(h)

\* Users stay, and are as they were unless they are among those changed.
UsersKept(changed) ==
    \A u \in Users : users[u] # Null =>
        users'[u] # Null /\ (u \notin changed => users'[u] = users[u])

\* Only the dashboards among those changed come to a new owner.
OwnersTold(changed) ==
    \A x \in Dashboards : dashboards'[x] \in Users /\ dashboards'[x] # dashboards[x] =>
        x \in changed

\* The steps of the specification are the ones the lemmas are about.
LEMMA NextCases ==
    ASSUME Next
    PROVE  \/ \E h \in Handlers : \/ \E u \in Users : Authenticate(h, u)
                                  \/ UserCheck(h) \/ DashboardCheck(h) \/ KeyCheck(h)
                                  \/ UserWrite(h) \/ DashboardWrite(h) \/ KeyWrite(h)
           \/ \E d \in Domains : ArchiveOrRestore(d) \/ Purge(d)
<1>1. ASSUME NEW h \in Handlers, UserCall(h)
      PROVE  UserCheck(h) \/ UserWrite(h)
  BY <1>1 DEF UserCall, UserCheck, UserWrite
<1>2. ASSUME NEW h \in Handlers, DashboardCall(h)
      PROVE  DashboardCheck(h) \/ DashboardWrite(h)
  BY <1>2 DEF DashboardCall, DashboardCheck, DashboardWrite
<1>3. ASSUME NEW h \in Handlers, KeyCall(h)
      PROVE  KeyCheck(h) \/ KeyWrite(h)
  BY <1>3 DEF KeyCall, KeyCheck, KeyWrite
<1>. QED  BY <1>1, <1>2, <1>3 DEF Next

\* A deletion, if it is not rolled back, gives each dashboard to an heir.
RolledBack(h) ==
    /\ Finish(h, {})
    /\ UNCHANGED <<userTables, dashboardTables, keyTables, domains, granted, lapsed, strays>>

GivesAway(h, heirs, given) ==
    LET c == handler[h].call
        late == handler[h].overtaken
    IN
    /\ given = {x \in c.owned : Exists(x)}
    /\ \A x \in given : heirs[x] = c.heir \/ (heirs[x] # c.user /\ Enabled(heirs[x]))
    /\ dashboards' = [x \in Dashboards |-> IF x \in given THEN heirs[x] ELSE dashboards[x]]
    /\ users' = [users EXCEPT ![c.user].enabled = FALSE]
    /\ strays' = (strays \ given) \union {x \in given : heirs[x] \in late /\ ~Enabled(heirs[x])}
                    \union {x \in late : x \in Dashboards \ given /\ dashboards[x] = c.user}
    /\ lapsed' = (lapsed \/ {handler[h].actor, c.user} \intersect late # {})
    /\ Finish(h, {c.user} \union given)
    /\ UNCHANGED <<assigned, scope, domains, keyTables, granted>>

\* These are the two ways a deletion ends.
LEMMA DeleteUserStep ==
    ASSUME TypeOK, NEW h \in Handlers, DeleteUser(h)
    PROVE  /\ handler[h].call.user \in Users /\ handler[h].call.owned \subseteq Dashboards
           /\ RolledBack(h) \/ \E heirs \in [handler[h].call.owned -> Users],
                                  given \in SUBSET handler[h].call.owned :
                                     GivesAway(h, heirs, given)
<1>. DEFINE c == handler[h].call
            heirs == [x \in c.owned |-> IF x = c.first THEN c.heir ELSE Heir(x, c.user)]
            given == {x \in c.owned : Exists(x)}
<1>1. c \in [user : Users, owned : SUBSET Dashboards,
             first : Dashboards \union {Null}, heir : Users \union {Null}]
  BY RequestTyped DEF DeleteUser, Calls
<1>2. CASE \E x \in c.owned : heirs[x] = Null
  BY <1>1, <1>2 DEF DeleteUser, RolledBack
<1>3. CASE ~ \E x \in c.owned : heirs[x] = Null
  <2>1. heirs \in [c.owned -> Users]
    BY <1>1, <1>3, HeirType
  <2>2. \A x \in given : heirs[x] = c.heir \/ (heirs[x] # c.user /\ Enabled(heirs[x]))
    BY <1>3, HeirType
  <2>3. GivesAway(h, heirs, given)
    BY <1>3, <2>2 DEF DeleteUser, GivesAway
  <2>4. given \in SUBSET c.owned
    OBVIOUS
  <2>. HIDE DEF heirs, given
  <2>. QED  BY <1>1, <2>1, <2>3, <2>4
<1>. QED  BY <1>2, <1>3

\* Every write tells the other requests which users it has changed, and which
\* dashboards it has given an owner.
LEMMA WriteKeeps ==
    ASSUME TypeOK, RequestsKnown, NEW h \in Handlers,
           UserWrite(h) \/ DashboardWrite(h) \/ KeyWrite(h)
    PROVE  \E changed \in SUBSET (Users \union Dashboards) :
              Finish(h, changed) /\ UsersKept(changed) /\ OwnersTold(changed)
<1>. DEFINE c == handler[h].call
<1>0. ASSUME UNCHANGED dashboards
      PROVE  \A changed : OwnersTold(changed)
  BY <1>0 DEF OwnersTold
<1>1. CASE CreateUser(h)
  <2>1. Finish(h, {}) /\ c.user \in Users
    BY <1>1, RequestTyped DEF CreateUser, Calls
  <2>2. UsersKept({})
    BY <1>1, <2>1 DEF CreateUser, UsersKept, TypeOK
  <2>. QED  BY <1>0, <1>1, <2>1, <2>2 DEF CreateUser, dashboardTables
<1>2. CASE UpdateUser(h)
  <2>1. /\ Finish(h, {c.user}) /\ c.user \in Users
        /\ users' = [users EXCEPT ![c.user].role = c.role]
    BY <1>2, RequestTyped DEF UpdateUser, Calls
  <2>2. users[c.user] # Null
    BY <1>2, RequestTyped DEF RequestsKnown, TargetKnown, UpdateUser
  <2>3. UsersKept({c.user})
    <3>1. \A u \in Users \ {c.user} : users'[u] = users[u]
      BY <2>1 DEF TypeOK
    <3>2. users'[c.user] \in [role : Roles, enabled : BOOLEAN]
      <4>1. users[c.user] \in [role : Roles, enabled : BOOLEAN] /\ c.role \in Roles
        BY <1>2, <2>1, <2>2, RequestTyped DEF UpdateUser, TypeOK, Calls
      <4>2. users'[c.user] = [users[c.user] EXCEPT !.role = c.role]
        BY <2>1 DEF TypeOK
      <4>. QED  BY <4>1, <4>2
    <3>. QED  BY <3>1, <3>2, AccessAssumption DEF UsersKept
  <2>. QED  BY <1>0, <1>2, <2>1, <2>3 DEF UpdateUser, dashboardTables
<1>3. CASE DeleteUser(h)
  <2>1. CASE RolledBack(h)
    BY <1>0, <2>1 DEF UsersKept, RolledBack, userTables, dashboardTables
  <2>2. ASSUME NEW heirs \in [c.owned -> Users], NEW given \in SUBSET c.owned,
               GivesAway(h, heirs, given)
        PROVE  \E changed \in SUBSET (Users \union Dashboards) :
                  Finish(h, changed) /\ UsersKept(changed) /\ OwnersTold(changed)
    <3>1. /\ users' = [users EXCEPT ![c.user].enabled = FALSE]
          /\ dashboards' = [x \in Dashboards |-> IF x \in given THEN heirs[x] ELSE dashboards[x]]
          /\ Finish(h, {c.user} \union given)
      BY <2>2 DEF GivesAway
    <3>2. c.user \in Users /\ c.owned \subseteq Dashboards
      BY <1>3, DeleteUserStep
    <3>3. users[c.user] # Null
      BY <1>3, RequestTyped DEF RequestsKnown, TargetKnown, DeleteUser
    <3>4. \A u \in Users \ {c.user} : users'[u] = users[u]
      BY <3>1 DEF TypeOK
    <3>5. users[c.user] \in [role : Roles, enabled : BOOLEAN]
      BY <3>2, <3>3 DEF TypeOK
    <3>6. users'[c.user] = [users[c.user] EXCEPT !.enabled = FALSE]
      BY <3>1, <3>2 DEF TypeOK
    <3>7. users'[c.user] \in [role : Roles, enabled : BOOLEAN]
      BY <3>5, <3>6
    <3>8. UsersKept({c.user} \union given)
      BY <3>4, <3>7, AccessAssumption DEF UsersKept
    <3>9. OwnersTold({c.user} \union given)
      BY <3>1 DEF OwnersTold
    <3>. QED  BY <3>1, <3>2, <3>8, <3>9
  <2>. QED  BY <1>3, <2>1, <2>2, DeleteUserStep
<1>4. CASE UNCHANGED users
  <2>1. \A changed : UsersKept(changed)
    BY <1>4 DEF UsersKept
  <2>2. CASE CreateDashboard(h)
    <3>1. Finish(h, {c.dashboard}) /\ c.dashboard \in Dashboards
      BY <2>2, RequestTyped DEF CreateDashboard, Calls
    <3>2. OwnersTold({c.dashboard})
      BY <2>2 DEF CreateDashboard, OwnersTold, TypeOK
    <3>. QED  BY <2>1, <3>1, <3>2
  <2>3. CASE Transfer(h)
    <3>1. Finish(h, {c.dashboard}) /\ c.dashboard \in Dashboards
      BY <2>3, RequestTyped DEF Transfer, Calls
    <3>2. OwnersTold({c.dashboard})
      BY <2>3 DEF Transfer, OwnersTold, TypeOK
    <3>. QED  BY <2>1, <3>1, <3>2
  <2>4. CASE DeleteDashboard(h)
    <3>1. dashboards' = [dashboards EXCEPT ![c.dashboard] = Deleted] /\ Finish(h, {})
      BY <2>4 DEF DeleteDashboard
    <3>2. OwnersTold({})
      BY <3>1, AccessAssumption DEF OwnersTold, TypeOK
    <3>. QED  BY <2>1, <3>1, <3>2
  <2>5. CASE AssignDomain(h) \/ RemoveDomain(h) \/ UpdateDashboard(h) \/ Share(h) \/ KeyWrite(h)
    <3>1. UNCHANGED dashboards /\ Finish(h, {})
      BY <2>5 DEF AssignDomain, RemoveDomain, UpdateDashboard, Share, KeyWrite, CreateKey,
                  UpdateKey, DeleteKey, dashboardTables
    <3>. QED  BY <1>0, <2>1, <3>1
  <2>. QED  BY <1>1, <1>2, <1>3, <2>2, <2>3, <2>4, <2>5 DEF UserWrite, DashboardWrite
<1>. QED  BY <1>1, <1>2, <1>3, <1>4 DEF UserWrite, DashboardWrite, KeyWrite, AssignDomain,
             RemoveDomain, CreateDashboard, UpdateDashboard, DeleteDashboard, Transfer, Share,
             CreateKey, UpdateKey, DeleteKey, userTables

\* A decision keeps what requests know: the one decided has just read it.
LEMMA DecideKnown ==
    ASSUME TypeOK, RequestsKnown, NEW h \in Handlers,
           UserCheck(h) \/ DashboardCheck(h) \/ KeyCheck(h)
    PROVE  TypeOK' /\ RequestsKnown'
<1>1. PICK op, call :
         /\ Decide(h, op, call) /\ call \in Calls(op)
         /\ op \in {"update_user", "delete_user"} =>
               /\ call.user # handler[h].actor /\ Enabled(call.user)
               /\ Outranks(handler[h], call.user)
  BY UserDecided, DashboardDecided, KeyDecided DEF UserDecision, DashboardDecision, KeyDecision
<1>2. TypeOK'
  BY <1>1, DecideTypes
<1>3. /\ handler[h] # Idle /\ handler[h] \in Request("authenticated")
      /\ \A g \in Handlers \ {h} : handler'[g] = handler[g]
      /\ handler'[h] = [handler[h] EXCEPT !.op = op, !.call = call, !.given = Given(handler[h])]
  <2>1. Decide(h, op, call) /\ call \in Calls(op)
    BY <1>1
  <2>2. handler[h] # Idle /\ handler[h] \in Request("authenticated")
    BY <2>1, DecideStep
  <2>3. \A g \in Handlers \ {h} : handler'[g] = handler[g]
    BY <2>1, DecideStep
  <2>4. handler'[h] = [handler[h] EXCEPT !.op = op, !.call = call, !.given = Given(handler[h])]
    BY <2>1 DEF Decide, TypeOK
  <2>. QED  BY <2>2, <2>3, <2>4
<1>4. users' = users
  BY <1>1 DEF Decide, userTables
<1>5. ASSUME NEW g \in Handlers, handler'[g] # Idle
      PROVE  ActorKnown(handler[g])' /\ TargetKnown(handler[g])'
  <2>1. CASE g # h
    <3>1. ActorKnown(handler[g]) /\ TargetKnown(handler[g]) /\ handler'[g] = handler[g]
      BY <1>3, <1>5, <2>1 DEF RequestsKnown
    <3>. QED  BY <3>1, <1>4 DEF ActorKnown, TargetKnown, Outranks
  <2>2. CASE g = h
    <3>1. ActorKnown(handler[h])
      BY <1>3 DEF RequestsKnown
    <3>2. /\ handler'[h].actor = handler[h].actor /\ handler'[h].role = handler[h].role
          /\ handler'[h].overtaken = handler[h].overtaken
          /\ handler'[h].op = op /\ handler'[h].call = call
      BY <1>3 DEF Request
    <3>3. ActorKnown(handler[h])'
      BY <1>4, <3>1, <3>2 DEF ActorKnown
    <3>4. TargetKnown(handler[h])'
      BY <1>1, <1>4, <3>2 DEF TargetKnown, Outranks, Enabled
    <3>. QED  BY <2>2, <3>3, <3>4
  <2>. QED  BY <2>1, <2>2
<1>. QED  BY <1>2, <1>5 DEF RequestsKnown

\* A write keeps what requests know: those it has overtaken are told.
LEMMA WriteKnown ==
    ASSUME TypeOK, RequestsKnown, NEW h \in Handlers,
           UserWrite(h) \/ DashboardWrite(h) \/ KeyWrite(h)
    PROVE  TypeOK' /\ RequestsKnown'
<1>1. TypeOK'
  BY UserTypes, DashboardTypes, KeyTypes DEF UserWrite, DashboardWrite, KeyWrite
<1>2. PICK changed \in SUBSET (Users \union Dashboards) : Finish(h, changed) /\ UsersKept(changed)
  BY WriteKeeps
<1>3. ASSUME NEW g \in Handlers, handler'[g] # Idle
      PROVE  ActorKnown(handler[g])' /\ TargetKnown(handler[g])'
  <2>1. /\ handler[g] # Idle /\ handler[g] \in Request(handler[g].op)
        /\ handler'[g] = [handler[g] EXCEPT !.overtaken = @ \union changed]
    BY <1>2, <1>3, FinishStep
  <2>2. /\ handler'[g].op = handler[g].op /\ handler'[g].actor = handler[g].actor
        /\ handler'[g].role = handler[g].role /\ handler'[g].call = handler[g].call
        /\ handler'[g].overtaken = handler[g].overtaken \union changed
    BY <2>1 DEF Request
  <2>3. handler[g].actor \in Users
        /\ (handler[g].op \in {"update_user", "delete_user"} => handler[g].call.user \in Users)
    BY <2>1 DEF Request, Calls
  <2>4. ActorKnown(handler[g]) /\ TargetKnown(handler[g])
    BY <2>1 DEF RequestsKnown
  <2>5. ActorKnown(handler[g])'
    BY <1>2, <2>2, <2>3, <2>4 DEF ActorKnown, UsersKept
  <2>6. TargetKnown(handler[g])'
    BY <1>2, <2>2, <2>3, <2>4 DEF TargetKnown, UsersKept, Outranks
  <2>. QED  BY <2>5, <2>6
<1>. QED  BY <1>1, <1>3 DEF RequestsKnown

\* The types and what requests know hold at the start and are kept by every step.
LEMMA TypesInit == Init => TypeOK /\ RequestsKnown
<1>. SUFFICES ASSUME Init PROVE TypeOK /\ RequestsKnown
  OBVIOUS
<1>1. users \in [Users -> [role : Roles, enabled : BOOLEAN] \union {Null}]
  <2>1. PICK a \in Accounts :
          users = [u \in Users |-> IF u \in DOMAIN a
                                   THEN [role |-> a[u], enabled |-> TRUE] ELSE Null]
    BY DEF Init
  <2>2. \A u \in DOMAIN a : a[u] \in Roles
    BY AccessAssumption
  <2>. QED  BY <2>1, <2>2
<1>2. calls \in 0 .. MaxCalls
  BY AccessAssumption DEF Init
<1>3. RequestsKnown
  BY DEF Init, RequestsKnown
<1>. QED  BY <1>1, <1>2, <1>3 DEF Init, TypeOK

\* Every step keeps both.
LEMMA TypesStep == TypeOK /\ RequestsKnown /\ [Next]_vars => TypeOK' /\ RequestsKnown'
<1>. SUFFICES ASSUME TypeOK, RequestsKnown, [Next]_vars PROVE TypeOK' /\ RequestsKnown'
  OBVIOUS
<1>1. ASSUME NEW h \in Handlers, NEW u \in Users, Authenticate(h, u)
      PROVE  TypeOK' /\ RequestsKnown'
  <2>1. TypeOK'
    BY <1>1, OtherTypes
  <2>2. users[u] \in [role : Roles, enabled : BOOLEAN] /\ users[u].enabled = TRUE
    BY <1>1 DEF Authenticate, Enabled, TypeOK
  <2>3. /\ users' = users /\ handler'[h].actor = u /\ handler'[h].role = users[u].role
        /\ handler'[h].op = "authenticated"
        /\ \A g \in Handlers \ {h} : handler'[g] = handler[g]
    BY <1>1 DEF Authenticate, userTables, TypeOK, Idle
  <2>4. ActorKnown(handler[h])'
    BY <1>1, <2>2, <2>3 DEF ActorKnown, Authenticate, Enabled
  <2>5. TargetKnown(handler[h])'
    BY <2>3 DEF TargetKnown
  <2>6. \A g \in Handlers \ {h} : handler[g] # Idle =>
            ActorKnown(handler[g])' /\ TargetKnown(handler[g])'
    BY <2>3 DEF RequestsKnown, ActorKnown, TargetKnown, Outranks
  <2>. QED  BY <2>1, <2>3, <2>4, <2>5, <2>6 DEF RequestsKnown
<1>2. ASSUME NEW d \in Domains, ArchiveOrRestore(d) \/ Purge(d)
      PROVE  TypeOK' /\ RequestsKnown'
  <2>1. UNCHANGED <<users, handler>>
    BY <1>2 DEF ArchiveOrRestore, Purge, userTables
  <2>. QED  BY <1>2, <2>1, OtherTypes DEF RequestsKnown, ActorKnown, TargetKnown, Outranks
<1>3. CASE UNCHANGED vars
  <2>1. UNCHANGED <<users, handler>>
    BY <1>3 DEF vars, userTables
  <2>2. RequestsKnown'
    BY <2>1 DEF RequestsKnown, ActorKnown, TargetKnown, Outranks
  <2>3. TypeOK'
    BY <1>3 DEF vars, userTables, dashboardTables, keyTables, TypeOK
  <2>. QED  BY <2>2, <2>3
<1>. QED  BY <1>1, <1>2, <1>3, NextCases, DecideKnown, WriteKnown

\* The types of the specification: whatever requests overlap, the tables stay typed, and an
\* update only ever meets rows that are there.
THEOREM AccessTypes == Spec => []TypeOK
BY TypesInit, TypesStep, PTL DEF Spec

-----------------------------------------------------------------------------
(* Domains can be followed back to super-admins.                           *)

\* What a user has been assigned, and so what is allowed to a request that is no
\* super-admin's, is rightly its own.
LEMMA AllowedGiven ==
    ASSUME TypeOK, GrantedBySuperAdmin, NEW a, a.actor \in Users
    PROVE  AssignedTo(a.actor) \subseteq Given(a) /\ Allowed(a) \subseteq Given(a)
BY DEF GrantedBySuperAdmin, AssignedTo, Allowed, Given

\* A write that hands on what its request has keeps the property, and so does one that
\* takes rows away.
LEMMA WriteGranted ==
    ASSUME TypeOK, GrantedInv, NEW h \in Handlers,
           UserWrite(h) \/ DashboardWrite(h) \/ KeyWrite(h)
    PROVE  GrantedBySuperAdmin'
<1>. DEFINE a == handler[h]
            c == a.call
<1>h. ASSUME a.op \in {"assign_domain", "create_dashboard", "update_dashboard", "create_key"}
      PROVE  c.domains \subseteq a.given
  BY <1>h, RequestTyped DEF GrantedInv, RequestsHandOn, HandsOn
<1>t. /\ assigned \subseteq Users \X Domains /\ scope \subseteq Dashboards \X Domains
      /\ key_domains \subseteq Keys \X Domains
      /\ assigned \union scope \union key_domains \subseteq granted
  BY DEF TypeOK, GrantedInv, GrantedBySuperAdmin
<1>1. CASE AssignDomain(h)
  <2>1. c \in [user : Users, domains : SUBSET Domains] /\ c.domains \subseteq a.given
    BY <1>1, <1>h, RequestTyped DEF AssignDomain, Calls
  <2>2. /\ granted' = granted \union {r \in {c.user} \X c.domains : r[2] \in a.given}
        /\ assigned' = assigned \union ({c.user} \X c.domains)
        /\ scope' = scope /\ key_domains' = key_domains
    BY <1>1 DEF AssignDomain, Grant, dashboardTables, keyTables
  <2>3. {c.user} \X c.domains \subseteq granted'
    BY <2>1, <2>2
  <2>. QED  BY <1>t, <2>2, <2>3 DEF GrantedBySuperAdmin
<1>2. CASE CreateDashboard(h)
  <2>1. c \in [dashboard : Dashboards, domains : SUBSET Domains] /\ c.domains \subseteq a.given
    BY <1>2, <1>h, RequestTyped DEF CreateDashboard, Calls
  <2>2. /\ granted' = granted \union {r \in {c.dashboard} \X c.domains : r[2] \in a.given}
        /\ scope' = scope \union ({c.dashboard} \X c.domains)
        /\ assigned' = assigned /\ key_domains' = key_domains
    BY <1>2 DEF CreateDashboard, Grant, userTables, keyTables
  <2>3. {c.dashboard} \X c.domains \subseteq granted'
    BY <2>1, <2>2
  <2>. QED  BY <1>t, <2>2, <2>3 DEF GrantedBySuperAdmin
<1>3. CASE CreateKey(h)
  <2>1. c \in [key : Keys, domains : SUBSET Domains, scopes : SUBSET Scopes]
        /\ c.domains \subseteq a.given
    BY <1>3, <1>h, RequestTyped DEF CreateKey, Calls
  <2>2. /\ granted' = granted \union {r \in {c.key} \X c.domains : r[2] \in a.given}
        /\ key_domains' = key_domains \union ({c.key} \X c.domains)
        /\ assigned' = assigned /\ scope' = scope
    BY <1>3 DEF CreateKey, Grant, userTables, dashboardTables
  <2>3. {c.key} \X c.domains \subseteq granted'
    BY <2>1, <2>2
  <2>. QED  BY <1>t, <2>2, <2>3 DEF GrantedBySuperAdmin
<1>4. CASE UpdateDashboard(h)
  <2>1. c \in [dashboard : Dashboards, domains : SUBSET Domains] /\ c.domains \subseteq a.given
    BY <1>4, <1>h, RequestTyped DEF UpdateDashboard, Calls
  <2>2. /\ granted' = {r \in granted : r[1] # c.dashboard}
                         \union ({c.dashboard} \X (c.domains \intersect a.given))
        /\ scope' = {r \in scope : r[1] # c.dashboard} \union ({c.dashboard} \X c.domains)
        /\ assigned' = assigned /\ key_domains' = key_domains
    BY <1>4 DEF UpdateDashboard, userTables, keyTables
  <2>3. c.domains \intersect a.given = c.domains
    BY <2>1
  <2>4. \A r \in assigned \union key_domains : r[1] # c.dashboard
    BY <1>t, <2>1, AccessAssumption
  <2>. QED  BY <1>t, <2>2, <2>3, <2>4 DEF GrantedBySuperAdmin
<1>5. CASE RemoveDomain(h)
  <2>1. c \in [user : Users, domains : SUBSET Domains]
    BY <1>5, RequestTyped DEF RemoveDomain, Calls
  <2>2. /\ granted' = granted \ ({c.user} \X c.domains)
        /\ assigned' = assigned \ ({c.user} \X c.domains)
        /\ scope' = scope /\ key_domains' = key_domains
    BY <1>5 DEF RemoveDomain, Withdraw, dashboardTables, keyTables
  <2>3. \A r \in scope \union key_domains : r[1] # c.user
    BY <1>t, <2>1, AccessAssumption
  <2>. QED  BY <1>t, <2>2, <2>3 DEF GrantedBySuperAdmin
<1>6. CASE DeleteDashboard(h)
  <2>1. c.dashboard \in Dashboards
    BY <1>6, RequestTyped DEF DeleteDashboard, Calls
  <2>2. /\ granted' = granted \ ({c.dashboard} \X Domains)
        /\ scope' = {r \in scope : r[1] # c.dashboard}
        /\ assigned' = assigned /\ key_domains' = key_domains
    BY <1>6 DEF DeleteDashboard, Withdraw, userTables, keyTables
  <2>3. \A r \in assigned \union key_domains : r[1] # c.dashboard
    BY <1>t, <2>1, AccessAssumption
  <2>. QED  BY <1>t, <2>2, <2>3 DEF GrantedBySuperAdmin
<1>7. CASE DeleteKey(h)
  <2>1. c.key \in Keys
    BY <1>7, RequestTyped DEF DeleteKey, Calls
  <2>2. /\ granted' = granted \ ({c.key} \X Domains)
        /\ key_domains' = {r \in key_domains : r[1] # c.key}
        /\ assigned' = assigned /\ scope' = scope
    BY <1>7 DEF DeleteKey, Withdraw, userTables, dashboardTables
  <2>3. \A r \in assigned \union scope : r[1] # c.key
    BY <1>t, <2>1, AccessAssumption
  <2>. QED  BY <1>t, <2>2, <2>3 DEF GrantedBySuperAdmin
<1>8. CASE \/ CreateUser(h) \/ UpdateUser(h) \/ DeleteUser(h)
           \/ Transfer(h) \/ Share(h) \/ UpdateKey(h)
  <2>1. /\ granted' = granted /\ assigned' = assigned /\ scope' = scope
        /\ key_domains' = key_domains
    BY <1>8 DEF CreateUser, UpdateUser, DeleteUser, Transfer, Share, UpdateKey,
                userTables, dashboardTables, keyTables
  <2>. QED  BY <1>t, <2>1 DEF GrantedBySuperAdmin
<1>. QED  BY <1>1, <1>2, <1>3, <1>4, <1>5, <1>6, <1>7, <1>8
          DEF UserWrite, DashboardWrite, KeyWrite

\* A decision hands on what its actor has.
LEMMA DecideGranted ==
    ASSUME TypeOK, GrantedInv, NEW h \in Handlers,
           UserCheck(h) \/ DashboardCheck(h) \/ KeyCheck(h)
    PROVE  GrantedInv'
<1>1. PICK op, call :
         /\ Decide(h, op, call) /\ call \in Calls(op)
         /\ op = "assign_domain" => \/ handler[h].role = "super-admin"
                                    \/ call.domains \subseteq AssignedTo(handler[h].actor)
         /\ op \in {"create_dashboard", "update_dashboard", "create_key"} =>
                call.domains \subseteq Allowed(handler[h])
  BY UserDecided, DashboardDecided, KeyDecided DEF UserDecision, DashboardDecision, KeyDecision
<1>2. Decide(h, op, call) /\ call \in Calls(op)
  BY <1>1
<1>3. handler[h] # Idle /\ handler[h] \in Request("authenticated")
  BY <1>2, DecideStep
<1>4. \A g \in Handlers \ {h} : handler'[g] = handler[g]
  BY <1>2, DecideStep
<1>5. /\ handler'[h].op = op /\ handler'[h].call = call /\ handler[h].actor \in Users
      /\ handler'[h].given = Given(handler[h])
  BY <1>2, <1>3 DEF Decide, TypeOK, Request
<1>6. granted' = granted /\ assigned' = assigned /\ scope' = scope /\ key_domains' = key_domains
  BY <1>2 DEF Decide, userTables, dashboardTables, keyTables
<1>7. HandsOn(handler[h])'
  <2>1. AssignedTo(handler[h].actor) \subseteq Given(handler[h])
        /\ Allowed(handler[h]) \subseteq Given(handler[h])
    BY <1>5, AllowedGiven DEF GrantedInv
  <2>2. op = "assign_domain" => call.domains \subseteq Domains
    BY <1>2 DEF Calls
  <2>3. handler[h].role = "super-admin" => Given(handler[h]) = Domains
    BY DEF Given
  <2>. QED  BY <1>1, <1>5, <2>1, <2>2, <2>3 DEF HandsOn
<1>8. RequestsHandOn'
  BY <1>4, <1>7 DEF GrantedInv, RequestsHandOn, HandsOn
<1>9. GrantedBySuperAdmin'
  BY <1>6 DEF GrantedInv, GrantedBySuperAdmin
<1>. QED  BY <1>8, <1>9 DEF GrantedInv

\* Every step keeps to what has been handed on rightly.
LEMMA GrantedStep == TypeOK /\ RequestsKnown /\ GrantedInv /\ [Next]_vars => GrantedInv'
<1>. SUFFICES ASSUME TypeOK, RequestsKnown, GrantedInv, [Next]_vars PROVE GrantedInv'
  OBVIOUS
<1>1. ASSUME NEW h \in Handlers, NEW u \in Users, Authenticate(h, u)
      PROVE  GrantedInv'
  <2>1. /\ handler'[h].op = "authenticated"
        /\ \A g \in Handlers \ {h} : handler'[g] = handler[g]
    BY <1>1 DEF Authenticate, TypeOK, Idle
  <2>2. UNCHANGED <<granted, assigned, scope, key_domains>>
    BY <1>1 DEF Authenticate, userTables, dashboardTables, keyTables
  <2>. QED  BY <2>1, <2>2 DEF GrantedInv, GrantedBySuperAdmin, RequestsHandOn, HandsOn
<1>2. ASSUME NEW h \in Handlers, UserWrite(h) \/ DashboardWrite(h) \/ KeyWrite(h)
      PROVE  GrantedInv'
  <2>1. GrantedBySuperAdmin'
    BY <1>2, WriteGranted
  <2>2. PICK changed \in SUBSET (Users \union Dashboards) : Finish(h, changed)
    BY <1>2, WriteKeeps
  <2>3. ASSUME NEW g \in Handlers, handler'[g] # Idle
        PROVE  HandsOn(handler[g])'
    <3>1. /\ handler[g] # Idle /\ handler[g] \in Request(handler[g].op)
          /\ handler'[g] = [handler[g] EXCEPT !.overtaken = @ \union changed]
      BY <2>2, <2>3, FinishStep
    <3>2. /\ handler'[g].op = handler[g].op /\ handler'[g].given = handler[g].given
          /\ handler'[g].call = handler[g].call
      BY <3>1 DEF Request
    <3>. QED  BY <3>1, <3>2 DEF GrantedInv, RequestsHandOn, HandsOn
  <2>. QED  BY <2>1, <2>3 DEF GrantedInv, RequestsHandOn
<1>3. ASSUME NEW d \in Domains, ArchiveOrRestore(d)
      PROVE  GrantedInv'
  BY <1>3 DEF ArchiveOrRestore, userTables, dashboardTables, keyTables,
              GrantedInv, GrantedBySuperAdmin, RequestsHandOn, HandsOn
<1>4. ASSUME NEW d \in Domains, Purge(d)
      PROVE  GrantedInv'
  <2>1. /\ UNCHANGED handler
        /\ granted' = granted \ ((Users \union Dashboards \union Keys) \X {d})
        /\ assigned' = {r \in assigned : r[2] # d} /\ scope' = {r \in scope : r[2] # d}
        /\ key_domains' = {r \in key_domains : r[2] # d}
    BY <1>4 DEF Purge, Withdraw
  <2>. QED  BY <2>1 DEF GrantedInv, GrantedBySuperAdmin, RequestsHandOn, HandsOn
<1>5. CASE UNCHANGED vars
  BY <1>5 DEF vars, userTables, dashboardTables, keyTables, GrantedInv, GrantedBySuperAdmin,
              RequestsHandOn, HandsOn
<1>. QED  BY <1>1, <1>2, <1>3, <1>4, <1>5, NextCases, DecideGranted

\* Every domain of a user, a dashboard or an API key was put there by a super-admin, or by
\* somebody who rightly had it when the service decided: for any number of users, domains
\* and overlapping requests.
THEOREM DomainsFromSuperAdmins == Spec => []GrantedBySuperAdmin
<1>1. Init => GrantedInv
  BY DEF Init, GrantedInv, GrantedBySuperAdmin, RequestsHandOn
<1>2. GrantedInv => GrantedBySuperAdmin
  BY DEF GrantedInv
<1>. QED  BY <1>1, <1>2, TypesInit, TypesStep, GrantedStep, PTL DEF Spec

-----------------------------------------------------------------------------
(* Dashboards keep living owners.                                          *)

\* What a deletion or a transfer knows of owners is still true after the write of another
\* request, or it has been told.
LEMMA OwnersKnownKept ==
    ASSUME TypeOK, OwnerInv, NEW h \in Handlers,
           NEW changed \in SUBSET (Users \union Dashboards),
           Finish(h, changed), UsersKept(changed), OwnersTold(changed), TypeOK'
    PROVE  RequestsOwnersKnown'
<1>. SUFFICES ASSUME NEW g \in Handlers, handler'[g] # Idle
              PROVE  OwnersKnown(handler[g])'
  BY DEF RequestsOwnersKnown
<1>1. /\ handler[g] # Idle /\ handler[g] \in Request(handler[g].op)
      /\ handler'[g] = [handler[g] EXCEPT !.overtaken = @ \union changed]
  BY FinishStep
<1>2. /\ handler'[g].op = handler[g].op /\ handler'[g].call = handler[g].call
      /\ handler'[g].overtaken = handler[g].overtaken \union changed
  BY <1>1 DEF Request
<1>3. OwnersKnown(handler[g])
  BY <1>1 DEF OwnerInv, RequestsOwnersKnown
<1>4. \A u \in Users : Enabled(u) /\ u \notin changed => Enabled(u)'
  BY DEF UsersKept, Enabled
<1>5. CASE handler[g].op = "delete_user"
  <2>1. handler[g].call.user \in Users
    BY <1>1, <1>5 DEF Request, Calls
  <2>2. \A x \in Dashboards : dashboards'[x] = handler[g].call.user =>
            x \in handler[g].call.owned \union handler'[g].overtaken
    BY <1>2, <1>3, <1>5, <2>1 DEF OwnersKnown, OwnersTold
  <2>3. handler[g].call.owned # {} =>
            /\ handler[g].call.heir \in Users \ {handler[g].call.user}
            /\ handler[g].call.heir \in handler'[g].overtaken \/ Enabled(handler[g].call.heir)'
    BY <1>2, <1>3, <1>4, <1>5 DEF OwnersKnown
  <2>. QED  BY <1>2, <1>5, <2>2, <2>3 DEF OwnersKnown
<1>6. CASE handler[g].op = "transfer"
  <2>1. handler[g].call.user \in Users
    BY <1>1, <1>6 DEF Request, Calls
  <2>. QED  BY <1>2, <1>3, <1>4, <1>6, <2>1 DEF OwnersKnown
<1>7. CASE handler[g].op \notin {"delete_user", "transfer"}
  BY <1>2, <1>7 DEF OwnersKnown
<1>. QED  BY <1>5, <1>6, <1>7

\* A user that is deleted leaves every dashboard with an enabled owner, or a stray one.
LEMMA DeletionOwners ==
    ASSUME TypeOK, RequestsKnown, OwnerInv, NEW h \in Handlers, DeleteUser(h),
           NEW heirs \in [handler[h].call.owned -> Users],
           NEW given \in SUBSET handler[h].call.owned, GivesAway(h, heirs, given)
    PROVE  OwnerRemains'
<1>. DEFINE c == handler[h].call
            late == handler[h].overtaken
<1>1. /\ given = {x \in c.owned : Exists(x)}
      /\ \A x \in given : heirs[x] = c.heir \/ (heirs[x] # c.user /\ Enabled(heirs[x]))
      /\ dashboards' = [x \in Dashboards |-> IF x \in given THEN heirs[x] ELSE dashboards[x]]
      /\ users' = [users EXCEPT ![c.user].enabled = FALSE]
      /\ strays' = (strays \ given)
                      \union {x \in given : heirs[x] \in late /\ ~Enabled(heirs[x])}
                      \union {x \in late : x \in Dashboards \ given /\ dashboards[x] = c.user}
  BY DEF GivesAway
<1>2. /\ c.user \in Users /\ c.owned \subseteq Dashboards
      /\ handler[h].op = "delete_user" /\ handler[h] # Idle
  BY DeleteUserStep, RequestTyped DEF DeleteUser
<1>3. /\ \A x \in Dashboards : dashboards[x] = c.user => x \in c.owned \union late
      /\ c.owned # {} => /\ c.heir \in Users \ {c.user}
                         /\ c.heir \in late \/ Enabled(c.heir)
  BY <1>2 DEF OwnerInv, RequestsOwnersKnown, OwnersKnown
<1>4. \A u \in Users \ {c.user} : Enabled(u) => Enabled(u)'
  BY <1>1 DEF Enabled, TypeOK
<1>. SUFFICES ASSUME NEW x \in Dashboards, Exists(x)'
              PROVE  Enabled(dashboards[x])' \/ x \in strays'
  BY DEF OwnerRemains
<1>5. CASE x \in given
  <2>1. dashboards'[x] = heirs[x] /\ heirs[x] \in Users /\ c.owned # {}
    BY <1>1, <1>5
  <2>2. heirs[x] # c.user /\ (heirs[x] \in late \/ Enabled(heirs[x]))
    BY <1>1, <1>3, <1>5, <2>1
  <2>. QED  BY <1>1, <1>4, <1>5, <2>1, <2>2
<1>6. CASE x \notin given
  <2>1. dashboards'[x] = dashboards[x] /\ Exists(x)
    BY <1>1, <1>6 DEF Exists
  <2>2. Enabled(dashboards[x]) \/ x \in strays
    BY <2>1 DEF OwnerInv, OwnerRemains
  <2>3. CASE dashboards[x] = c.user
    <3>1. x \in late
      BY <1>1, <1>3, <1>6, <2>1, <2>3
    <3>. QED  BY <1>1, <1>6, <2>3, <3>1
  <2>4. CASE dashboards[x] # c.user
    BY <1>1, <1>4, <1>6, <2>1, <2>2, <2>4 DEF Exists
  <2>. QED  BY <2>3, <2>4
<1>. QED  BY <1>5, <1>6

\* Whoever is changed otherwise stays enabled, and a new owner is, unless changed since.
LEMMA WriteOwners ==
    ASSUME TypeOK, RequestsKnown, OwnerInv, NEW h \in Handlers,
           UserWrite(h) \/ DashboardWrite(h) \/ KeyWrite(h)
    PROVE  OwnerRemains'
<1>. DEFINE c == handler[h].call
<1>1. ASSUME \A u \in Users : Enabled(u) => Enabled(u)', UNCHANGED <<dashboards, strays>>
      PROVE  OwnerRemains'
  BY <1>1 DEF OwnerInv, OwnerRemains, Exists
<1>2. CASE CreateUser(h)
  <2>1. \A u \in Users : Enabled(u) => Enabled(u)'
    <3>1. c.user \in Users
      BY <1>2, RequestTyped DEF CreateUser, Calls
    <3>. QED  BY <1>2, <3>1 DEF CreateUser, Enabled, TypeOK
  <2>. QED  BY <1>1, <1>2, <2>1 DEF CreateUser, dashboardTables
<1>3. CASE UpdateUser(h)
  <2>1. \A u \in Users : Enabled(u) => Enabled(u)'
    <3>1. c.user \in Users /\ users' = [users EXCEPT ![c.user].role = c.role]
      BY <1>3, RequestTyped DEF UpdateUser, Calls
    <3>2. \A u \in Users : Enabled(u) => users[u] \in [role : Roles, enabled : BOOLEAN]
      BY DEF Enabled, TypeOK
    <3>3. TypeOK'
      BY <1>3, UserTypes
    <3>4. \A u \in Users : Enabled(u) => users'[u] \in [role : Roles, enabled : BOOLEAN]
                                        /\ users'[u].enabled = users[u].enabled
      <4>1. ASSUME NEW u \in Users, Enabled(u), u = c.user
            PROVE  users'[u] \in [role : Roles, enabled : BOOLEAN]
                   /\ users'[u].enabled = users[u].enabled
        <5>1. users'[u] = [users[u] EXCEPT !.role = c.role] /\ c.role \in Roles
          BY <1>3, <3>1, <4>1, RequestTyped DEF UpdateUser, Calls, TypeOK
        <5>. QED  BY <3>2, <4>1, <5>1
      <4>2. ASSUME NEW u \in Users, Enabled(u), u # c.user
            PROVE  users'[u] = users[u]
        BY <3>1, <4>2 DEF TypeOK
      <4>. QED  BY <3>2, <4>1, <4>2
    <3>. QED  BY <3>4, AccessAssumption DEF Enabled
  <2>. QED  BY <1>1, <1>3, <2>1 DEF UpdateUser, dashboardTables
<1>4. CASE DeleteUser(h)
  <2>1. CASE RolledBack(h)
    BY <1>1, <2>1 DEF RolledBack, userTables, dashboardTables, Enabled
  <2>. QED  BY <1>4, <2>1, DeleteUserStep, DeletionOwners
<1>5. CASE CreateDashboard(h)
  <2>1. /\ dashboards' = [dashboards EXCEPT ![c.dashboard] = handler[h].actor]
        /\ strays' = IF handler[h].actor \in handler[h].overtaken /\ ~Enabled(handler[h].actor)
                     THEN strays \union {c.dashboard} ELSE strays
        /\ users' = users /\ c.dashboard \in Dashboards /\ handler[h] # Idle
    BY <1>5, RequestTyped DEF CreateDashboard, Calls, userTables
  <2>2. handler[h].actor \in handler[h].overtaken \/ Enabled(handler[h].actor)
    <3>1. ActorKnown(handler[h])
      BY <2>1 DEF RequestsKnown
    <3>. QED  BY <3>1 DEF ActorKnown, Enabled
  <2>. QED  BY <2>1, <2>2 DEF OwnerInv, OwnerRemains, Exists, Enabled, TypeOK
<1>6. CASE Transfer(h)
  <2>1. /\ dashboards' = [dashboards EXCEPT ![c.dashboard] =
                             IF Exists(c.dashboard) THEN c.user ELSE @]
        /\ strays' = IF Exists(c.dashboard) /\ c.user \in handler[h].overtaken /\ ~Enabled(c.user)
                     THEN strays \union {c.dashboard} ELSE strays \ {c.dashboard}
        /\ users' = users /\ c.dashboard \in Dashboards /\ c.user \in Users
        /\ handler[h] # Idle /\ handler[h].op = "transfer"
    BY <1>6, RequestTyped DEF Transfer, Calls, userTables
  <2>2. c.user \in handler[h].overtaken \/ Enabled(c.user)
    BY <2>1 DEF OwnerInv, RequestsOwnersKnown, OwnersKnown
  <2>. QED  BY <2>1, <2>2 DEF OwnerInv, OwnerRemains, Exists, Enabled, TypeOK
<1>7. CASE DeleteDashboard(h)
  <2>1. /\ dashboards' = [dashboards EXCEPT ![c.dashboard] = Deleted]
        /\ UNCHANGED <<users, strays>>
    BY <1>7 DEF DeleteDashboard, userTables
  <2>. QED  BY <2>1, AccessAssumption DEF OwnerInv, OwnerRemains, Exists, Enabled, TypeOK
<1>8. CASE AssignDomain(h) \/ RemoveDomain(h) \/ UpdateDashboard(h) \/ Share(h) \/ KeyWrite(h)
  <2>1. UNCHANGED <<users, dashboards, strays>>
    BY <1>8 DEF AssignDomain, RemoveDomain, UpdateDashboard, Share, KeyWrite, CreateKey,
                UpdateKey, DeleteKey, userTables, dashboardTables
  <2>. QED  BY <1>1, <2>1 DEF Enabled
<1>. QED  BY <1>2, <1>3, <1>4, <1>5, <1>6, <1>7, <1>8 DEF UserWrite, DashboardWrite

\* Every step leaves dashboards with owners, and requests with what they know of them.
LEMMA OwnersStep ==
    TypeOK /\ RequestsKnown /\ OwnerInv /\ [Next]_vars => OwnerInv'
<1>. SUFFICES ASSUME TypeOK, RequestsKnown, OwnerInv, [Next]_vars PROVE OwnerInv'
  OBVIOUS
<1>0. ASSUME UNCHANGED <<users, dashboards, strays>>, NEW h \in Handlers,
             \A g \in Handlers \ {h} : handler'[g] = handler[g], OwnersKnown(handler[h])'
      PROVE  OwnerInv'
  BY <1>0 DEF OwnerInv, OwnerRemains, RequestsOwnersKnown, OwnersKnown, Exists, Enabled
<1>1. ASSUME NEW h \in Handlers, NEW u \in Users, Authenticate(h, u)
      PROVE  OwnerInv'
  <2>1. /\ handler'[h].op = "authenticated"
        /\ \A g \in Handlers \ {h} : handler'[g] = handler[g]
    BY <1>1 DEF Authenticate, TypeOK, Idle
  <2>2. UNCHANGED <<users, dashboards, strays>>
    BY <1>1 DEF Authenticate, userTables, dashboardTables
  <2>. QED  BY <1>0, <2>1, <2>2 DEF OwnersKnown
<1>2. ASSUME NEW h \in Handlers, UserCheck(h) \/ DashboardCheck(h) \/ KeyCheck(h)
      PROVE  OwnerInv'
  <2>1. PICK op, call :
           /\ Decide(h, op, call) /\ call \in Calls(op)
           /\ op = "delete_user" =>
                 /\ \A x \in Dashboards : dashboards[x] = call.user => x \in call.owned
                 /\ call.owned # {} => call.heir \in Users \ {call.user} /\ Enabled(call.heir)
           /\ op = "transfer" => Enabled(call.user)
    BY <1>2, UserDecided, DashboardDecided, KeyDecided
       DEF UserDecision, DashboardDecision, KeyDecision
  <2>2. Decide(h, op, call) /\ call \in Calls(op)
    BY <2>1
  <2>3. \A g \in Handlers \ {h} : handler'[g] = handler[g]
    BY <2>2, DecideStep
  <2>4. handler[h] \in Request("authenticated")
    BY <2>2, DecideStep
  <2>5. handler'[h].op = op /\ handler'[h].call = call
    BY <2>2, <2>4 DEF Decide, TypeOK, Request
  <2>6. UNCHANGED <<users, dashboards, strays>>
    BY <2>2 DEF Decide, userTables, dashboardTables
  <2>7. OwnersKnown(handler[h])'
    BY <2>1, <2>5, <2>6 DEF OwnersKnown, Enabled
  <2>. QED  BY <1>0, <2>3, <2>6, <2>7
<1>3. ASSUME NEW h \in Handlers, UserWrite(h) \/ DashboardWrite(h) \/ KeyWrite(h)
      PROVE  OwnerInv'
  <2>1. TypeOK'
    BY <1>3, WriteKnown
  <2>2. PICK changed \in SUBSET (Users \union Dashboards) :
             Finish(h, changed) /\ UsersKept(changed) /\ OwnersTold(changed)
    BY <1>3, WriteKeeps
  <2>3. RequestsOwnersKnown'
    BY <2>1, <2>2, OwnersKnownKept
  <2>. QED  BY <1>3, <2>3, WriteOwners DEF OwnerInv
<1>4. ASSUME UNCHANGED <<users, dashboards, strays, handler>>
      PROVE  OwnerInv'
  BY <1>4 DEF OwnerInv, OwnerRemains, RequestsOwnersKnown, OwnersKnown, Exists, Enabled
<1>5. ASSUME NEW d \in Domains, ArchiveOrRestore(d) \/ Purge(d)
      PROVE  OwnerInv'
  BY <1>4, <1>5 DEF ArchiveOrRestore, Purge, userTables, dashboardTables
<1>6. CASE UNCHANGED vars
  BY <1>4, <1>6 DEF vars, userTables, dashboardTables
<1>. QED  BY <1>1, <1>2, <1>3, <1>5, <1>6, NextCases

\* Nobody's dashboard is left without an enabled owner when users are deleted, but for those
\* whose owner was deleted while it was about to create, to be given or to inherit them, or
\* that came to it after its own deletion had listed what it owned: for any overlapping requests.
THEOREM DashboardsKeepOwners == Spec => []OwnerRemains
<1>1. Init => OwnerInv
  BY AccessAssumption DEF Init, OwnerInv, OwnerRemains, RequestsOwnersKnown, Exists
<1>2. OwnerInv => OwnerRemains
  BY DEF OwnerInv
<1>. QED  BY <1>1, <1>2, TypesInit, TypesStep, OwnersStep, PTL DEF Spec

-----------------------------------------------------------------------------
(* A super-admin remains.                                                  *)

\* A write to users that does not lapse leaves a super-admin: if the one changed is one, the
\* actor is another.
LEMMA WriteSuperAdmin ==
    ASSUME TypeOK, RequestsKnown, SuperAdminRemains, NEW h \in Handlers,
           UpdateUser(h) \/ DeleteUser(h)
    PROVE  SuperAdminRemains'
<1>. DEFINE a == handler[h]
            c == a.call
<1>1. a.op \in {"update_user", "delete_user"} /\ c.user \in Users /\ a # Idle /\ a.actor \in Users
  BY RequestTyped DEF UpdateUser, DeleteUser, Calls
<1>2. \A u \in Users \ {c.user} : users'[u] = users[u]
  <2>1. ASSUME NEW heirs, NEW given, GivesAway(h, heirs, given)
        PROVE  users' = [users EXCEPT ![c.user].enabled = FALSE]
    BY <2>1 DEF GivesAway
  <2>2. RolledBack(h) => users' = users
    BY DEF RolledBack, userTables
  <2>3. CASE DeleteUser(h)
    BY <2>1, <2>2, <2>3, DeleteUserStep DEF TypeOK
  <2>4. CASE UpdateUser(h)
    BY <2>4 DEF UpdateUser, TypeOK
  <2>. QED  BY <2>3, <2>4
<1>3. \/ lapsed' = (lapsed \/ {a.actor, c.user} \intersect a.overtaken # {})
      \/ users' = users /\ lapsed' = lapsed
  <2>1. ASSUME NEW heirs, NEW given, GivesAway(h, heirs, given)
        PROVE  lapsed' = (lapsed \/ {a.actor, c.user} \intersect a.overtaken # {})
    BY <2>1 DEF GivesAway
  <2>2. RolledBack(h) => users' = users /\ lapsed' = lapsed
    BY DEF RolledBack, userTables
  <2>3. CASE DeleteUser(h)
    BY <2>1, <2>2, <2>3, DeleteUserStep
  <2>4. CASE UpdateUser(h)
    BY <2>4 DEF UpdateUser
  <2>. QED  BY <2>3, <2>4
<1>4. ActorKnown(a) /\ TargetKnown(a)
  BY <1>1 DEF RequestsKnown
<1>5. CASE users' = users /\ lapsed' = lapsed
  BY <1>5 DEF SuperAdminRemains, Enabled
<1>6. CASE lapsed' = (lapsed \/ {a.actor, c.user} \intersect a.overtaken # {})
  <2>. SUFFICES ASSUME ~ lapsed' PROVE \E u \in Users : Enabled(u)' /\ users'[u].role = "super-admin"
    BY DEF SuperAdminRemains
  <2>1. ~ lapsed /\ a.actor \notin a.overtaken /\ c.user \notin a.overtaken
    BY <1>6, Zenon DEF TypeOK
  <2>2. PICK u \in Users : Enabled(u) /\ users[u].role = "super-admin"
    BY <2>1 DEF SuperAdminRemains
  <2>3. CASE u # c.user
    BY <1>2, <2>2, <2>3 DEF Enabled
  <2>4. CASE u = c.user
    <3>1. a.actor # c.user /\ Outranks(a, c.user)
      BY <1>1, <1>4, <2>1 DEF TargetKnown
    <3>2. a.role = "super-admin"
      BY <2>2, <2>4, <3>1 DEF Outranks
    <3>3. users[a.actor] # Null /\ users[a.actor] = [role |-> a.role, enabled |-> TRUE]
      BY <1>4, <2>1 DEF ActorKnown
    <3>4. users'[a.actor] = users[a.actor]
      BY <1>1, <1>2, <3>1
    <3>. HIDE DEF a, c
    <3>. QED  BY <1>1, <3>2, <3>3, <3>4 DEF Enabled
  <2>. QED  BY <2>3, <2>4
<1>. QED  BY <1>3, <1>5, <1>6

\* No step takes the last super-admin away, unless it lapses.
LEMMA SuperAdminStep ==
    TypeOK /\ RequestsKnown /\ SuperAdminRemains /\ [Next]_vars => SuperAdminRemains'
<1>. SUFFICES ASSUME TypeOK, RequestsKnown, SuperAdminRemains, [Next]_vars
              PROVE  SuperAdminRemains'
  OBVIOUS
<1>0. ASSUME UNCHANGED <<users, lapsed>> PROVE SuperAdminRemains'
  BY <1>0 DEF SuperAdminRemains, Enabled
<1>1. ASSUME NEW h \in Handlers, NEW u \in Users, Authenticate(h, u)
      PROVE  SuperAdminRemains'
  BY <1>0, <1>1 DEF Authenticate, userTables
<1>2. ASSUME NEW h \in Handlers, UserCheck(h) \/ DashboardCheck(h) \/ KeyCheck(h)
      PROVE  SuperAdminRemains'
  <2>1. PICK op, call : Decide(h, op, call)
    BY <1>2, UserDecided, DashboardDecided, KeyDecided
       DEF UserDecision, DashboardDecision, KeyDecision
  <2>. QED  BY <1>0, <2>1 DEF Decide, userTables
<1>3. ASSUME NEW h \in Handlers, UserWrite(h) \/ DashboardWrite(h) \/ KeyWrite(h)
      PROVE  SuperAdminRemains'
  <2>1. CASE UpdateUser(h) \/ DeleteUser(h)
    BY <2>1, WriteSuperAdmin
  <2>2. CASE CreateUser(h)
    <3>1. /\ lapsed' = lapsed
          /\ \A u \in Users : users[u] # Null => users'[u] = users[u]
      BY <2>2, RequestTyped DEF CreateUser, Calls, TypeOK
    <3>. QED  BY <3>1 DEF SuperAdminRemains, Enabled
  <2>3. CASE AssignDomain(h) \/ RemoveDomain(h)
    BY <1>0, <2>3 DEF AssignDomain, RemoveDomain
  <2>4. CASE DashboardWrite(h)
    BY <1>0, <2>4 DEF DashboardWrite, CreateDashboard, UpdateDashboard, DeleteDashboard,
                      Transfer, Share, userTables
  <2>5. CASE KeyWrite(h)
    BY <1>0, <2>5 DEF KeyWrite, CreateKey, UpdateKey, DeleteKey, userTables
  <2>. QED  BY <1>3, <2>1, <2>2, <2>3, <2>4, <2>5 DEF UserWrite
<1>4. ASSUME NEW d \in Domains, ArchiveOrRestore(d) \/ Purge(d)
      PROVE  SuperAdminRemains'
  BY <1>0, <1>4 DEF ArchiveOrRestore, Purge, userTables
<1>5. CASE UNCHANGED vars
  BY <1>0, <1>5 DEF vars, userTables
<1>. QED  BY <1>1, <1>2, <1>3, <1>4, <1>5, NextCases

\* A super-admin remains after any overlapping requests of any number of users, unless one
\* was finished after another had changed the account of its actor or of its target.
THEOREM SuperAdminStays == Spec => []SuperAdminRemains
<1>1. Init => SuperAdminRemains
  <2>. SUFFICES ASSUME Init PROVE \E u \in Users : Enabled(u) /\ users[u].role = "super-admin"
    BY DEF SuperAdminRemains
  <2>1. PICK a \in Accounts :
           users = [u \in Users |-> IF u \in DOMAIN a
                                    THEN [role |-> a[u], enabled |-> TRUE] ELSE Null]
    BY DEF Init
  <2>2. PICK u \in DOMAIN a : a[u] = "super-admin"
    BY AccessAssumption
  <2>3. u \in Users /\ users[u] = [role |-> "super-admin", enabled |-> TRUE]
    BY <2>1, <2>2, AccessAssumption
  <2>4. users[u] \in [role : Roles, enabled : BOOLEAN]
    BY <2>3 DEF Roles
  <2>5. users[u] # Null
    BY <2>4, AccessAssumption
  <2>. QED  BY <2>3, <2>5 DEF Enabled
<1>. QED  BY <1>1, TypesInit, TypesStep, SuperAdminStep, PTL DEF Spec

=============================================================================
