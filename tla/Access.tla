------------------------------- MODULE Access -------------------------------
(***************************************************************************)
(* Users, their domains, dashboards and API keys: who may do what          *)
(* (services/user_service.py, dashboard_service.py, api_key_service.py and *)
(* the policies/).                                                         *)
(*                                                                         *)
(* A request is three steps: the session's user is read (api/v1/deps.py),  *)
(* the service reads what its policy asks about and decides, and it        *)
(* writes, in one transaction.  SQLite locks nothing before the first      *)
(* write, so what another request commits between these steps is not       *)
(* seen.  A refused request ends without a trace.  Names, descriptions,    *)
(* columns and audit events are left out, and so are domains' own steps    *)
(* (module DomainLifecycle): here each change of a domain is one step.     *)
(***************************************************************************)
EXTENDS Integers, FiniteSets

CONSTANTS
    Users,       \* user names: numbers, in the order of their names
    Domains,     \* domain ids
    Dashboards,  \* dashboard ids; an id is never used twice
    Keys,        \* API key ids; likewise
    Handlers,    \* request threads
    Accounts,    \* the roles of the accounts there may be at the start
    MaxCalls,    \* bound on the requests that come to a decision
    Deleted,     \* a dashboard or key that was there
    Null

Roles == {"super-admin", "admin", "manager", "viewer"}
Scopes == {"reports:ingest", "domains:monitor"}

ASSUME AccessAssumption ==
    /\ Users \subseteq Nat /\ IsFiniteSet(Users)
    /\ \A a \in Accounts : /\ DOMAIN a \subseteq Users /\ a \in [DOMAIN a -> Roles]
                           /\ \E u \in DOMAIN a : a[u] = "super-admin"
    /\ MaxCalls \in Nat
    /\ {Null, Deleted} \intersect Users = {} /\ Null # Deleted
    /\ Users \intersect Dashboards = {} /\ Users \intersect Keys = {}
    /\ Dashboards \intersect Keys = {}
    /\ Null \notin [role : Roles, enabled : BOOLEAN]

VARIABLES
    \* the database
    users,        \* table users: role and disabled_at; Null: no such name
    assigned,     \* user_domain_assignments
    domains,      \* status of the domains
    dashboards,   \* owner of each dashboard
    scope,        \* dashboard_domain_scope
    shares,       \* dashboard_user_access
    keys,         \* creator of each key
    key_scopes,   \* api_key_scopes
    key_domains,  \* api_key_domains
    \* the threads
    handler,
    calls,
    \* history
    granted,      \* domains that users, dashboards and keys have from a super-admin, or from
                  \* somebody who had them so
    lapsed,       \* a call on users was finished though the account of its actor or of
                  \* its target had changed while it ran
    strays        \* dashboards that came to an owner while it was being deleted

userTables == <<users, assigned>>
dashboardTables == <<dashboards, scope, shares>>
keyTables == <<keys, key_scopes, key_domains>>
vars == <<userTables, domains, dashboardTables, keyTables, handler, calls, granted, lapsed,
          strays>>

\* What is to be written by a request that has come to each of its operations
Calls(op) ==
    CASE op \in {"create_user", "update_user"} -> [user : Users, role : Roles]
      [] op \in {"assign_domain", "remove_domain"} -> [user : Users, domains : SUBSET Domains]
      [] op = "delete_user" -> [user : Users, owned : SUBSET Dashboards,
                                first : Dashboards \union {Null}, heir : Users \union {Null}]
      [] op \in {"create_dashboard", "update_dashboard"} ->
            [dashboard : Dashboards, domains : SUBSET Domains]
      [] op = "delete_dashboard" -> [dashboard : Dashboards]
      [] op = "transfer" -> [dashboard : Dashboards, user : Users]
      [] op = "share" -> [share : Dashboards \X Users, level : {"viewer", "manager", Null}]
      [] op = "create_key" -> [key : Keys, domains : SUBSET Domains, scopes : SUBSET Scopes]
      [] op = "update_key" -> [key : Keys, scopes : SUBSET Scopes]
      [] op = "delete_key" -> [key : Keys]
      [] op = "authenticated" -> {Null}
      [] OTHER -> {}

Request(op) == [op : {op}, actor : Users, role : Roles, call : Calls(op),
                given : SUBSET Domains, overtaken : SUBSET (Users \union Dashboards)]

\* given: the domains its actor could hand on when it was decided (history)
\* overtaken: the users changed, and the dashboards given an owner, by other calls since
\* this one began (history)
Idle == [op |-> "idle", actor |-> Null, role |-> Null, call |-> Null, given |-> {},
         overtaken |-> {}]

Init ==
    /\ \E a \in Accounts :
          users = [u \in Users |-> IF u \in DOMAIN a
                                   THEN [role |-> a[u], enabled |-> TRUE] ELSE Null]
    /\ assigned = {}
    /\ domains = [d \in Domains |-> "active"]
    /\ dashboards = [x \in Dashboards |-> Null] /\ scope = {}
    /\ shares = [s \in Dashboards \X Users |-> Null]
    /\ keys = [k \in Keys |-> Null] /\ key_scopes = {} /\ key_domains = {}
    /\ handler = [h \in Handlers |-> Idle] /\ calls = 0
    /\ granted = {} /\ lapsed = FALSE /\ strays = {}

Enabled(u) == users[u] # Null /\ users[u].enabled
Exists(x) == dashboards[x] \in Users
ScopeOf(x) == {d \in Domains : <<x, d>> \in scope}

\* list_domains: archived domains are a super-admin's only.
Allowed(a) ==
    IF a.role = "super-admin" THEN {d \in Domains : domains[d] # "gone"}
    ELSE {d \in Domains : <<a.actor, d>> \in assigned /\ domains[d] = "active"}

\* get_user_domain_ids
AssignedTo(u) == {d \in Domains : <<u, d>> \in assigned}

\* _get_user_effective_domain_ids
Effective(u) ==
    IF users[u].role = "super-admin" THEN {d \in Domains : domains[d] # "gone"}
    ELSE AssignedTo(u)

----------------------------------------------------------------------------
(* Policies: a is the request, with its actor and the role it was let in   *)
(* with.                                                                   *)

IsAdmin(a) == a.role \in {"super-admin", "admin"}

\* The rules of updates, resets and deletions have this in common.
Outranks(a, u) ==
    a.role = "super-admin" \/ (a.role = "admin" /\ users[u].role \notin {"super-admin", "admin"})

CanCreateUserWithRole(a, role) ==
    a.role = "super-admin" \/ (a.role = "admin" /\ role # "super-admin")

CanUpdateUser(a, u, role) ==
    a.actor # u /\ Outranks(a, u) /\ (a.role = "admin" => role # "super-admin")

\* Faulty variant: nothing keeps users from deleting themselves.
CanDeleteUserOneself(a, u) == Outranks(a, u)

CanDeleteUser(a, u) == a.actor # u /\ Outranks(a, u)

\* Faulty variant: an admin may assign any domain.
CanAssignDomainAny(a, u, d) == Outranks(a, u)

CanAssignDomain(a, u, d) ==
    Outranks(a, u) /\ (a.role = "admin" => d \in AssignedTo(a.actor))

\* can_view_dashboard: it holds of an empty scope.
CanView(x, ds) == ScopeOf(x) \subseteq ds

CanEdit(a, x) ==
    /\ a.role # "viewer"
    /\ a.actor = dashboards[x] \/ IsAdmin(a)
    /\ CanView(x, Allowed(a))

CanTransfer(a, x, u) ==
    /\ IsAdmin(a) /\ CanView(x, Allowed(a))
    /\ users[u].role # "viewer" /\ CanView(x, Effective(u))

\* Managers may share what they can see; owners who are viewers may not.
CanShare(a, x) == a.role # "viewer" /\ CanView(x, Allowed(a))

CanBeSharedWith(u, level, x) ==
    CanView(x, Effective(u)) /\ ~(level = "manager" /\ users[u].role = "viewer")

CanUpdateKey(a, k) == a.role = "super-admin" \/ keys[k] = a.actor

----------------------------------------------------------------------------
(* The steps all requests have in common.                                  *)

\* get_current_user: the role is read here and never again.
Authenticate(h, u) ==
    /\ handler[h] = Idle
    /\ calls < MaxCalls
    /\ Enabled(u)
    /\ handler' = [handler EXCEPT ![h] = [Idle EXCEPT !.op = "authenticated", !.actor = u,
                                                      !.role = users[u].role]]
    /\ UNCHANGED <<userTables, domains, dashboardTables, keyTables, calls, granted, lapsed,
                   strays>>

\* What the actor of a request has rightly: a super-admin everything.
Given(a) == IF a.role = "super-admin" THEN Domains ELSE {d \in Domains : <<a.actor, d>> \in granted}

\* The policy agrees; call says what is to be written.
Decide(h, op, call) ==
    /\ handler[h].op = "authenticated" /\ calls < MaxCalls
    /\ handler' = [handler EXCEPT ![h].op = op, ![h].call = call, ![h].given = Given(handler[h])]
    /\ calls' = calls + 1
    /\ UNCHANGED <<userTables, domains, dashboardTables, keyTables, granted, lapsed, strays>>

\* The call ends; the others do not know that these users or dashboards have changed.
Finish(h, changed) ==
    /\ handler' = [g \in Handlers |->
          IF g = h \/ handler[g] = Idle THEN Idle
          ELSE [handler[g] EXCEPT !.overtaken = @ \union changed]]
    /\ UNCHANGED calls

\* Rows are written; those count as granted whose domains the actor had.  Others go.
Grant(h, rows) == granted' = granted \union {r \in rows : r[2] \in handler[h].given}
Withdraw(rows) == granted' = granted \ rows

----------------------------------------------------------------------------
(* Users (user_service.py).                                                *)

CreateUserCheck(h) ==
    \E u \in Users, r \in Roles :
        /\ users[u] = Null /\ CanCreateUserWithRole(handler[h], r)
        /\ Decide(h, "create_user", [user |-> u, role |-> r])

\* A name taken meanwhile violates UNIQUE(username).
CreateUser(h) ==
    LET c == handler[h].call IN
    /\ handler[h].op = "create_user"
    /\ users' = IF users[c.user] = Null
                THEN [users EXCEPT ![c.user] = [role |-> c.role, enabled |-> TRUE]] ELSE users
    /\ Finish(h, {})
    /\ UNCHANGED <<assigned, domains, dashboardTables, keyTables, granted, lapsed, strays>>

UpdateUserCheck(h) ==
    \E u \in Users, r \in Roles :
        /\ Enabled(u) /\ r # users[u].role
        /\ CanUpdateUser(handler[h], u, r)
        /\ Decide(h, "update_user", [user |-> u, role |-> r])

\* The UPDATE also reaches a user deleted since.
UpdateUser(h) ==
    LET c == handler[h].call IN
    /\ handler[h].op = "update_user"
    /\ users' = [users EXCEPT ![c.user].role = c.role]
    /\ lapsed' = (lapsed \/ {handler[h].actor, c.user} \intersect handler[h].overtaken # {})
    /\ Finish(h, {c.user})
    /\ UNCHANGED <<assigned, domains, dashboardTables, keyTables, granted, strays>>

\* assign_domains: the list of domains is worked off one by one; modelled for one.
AssignDomainCheck(h) ==
    \E u \in Users, d \in Domains :
        /\ Enabled(u) /\ domains[d] = "active" /\ <<u, d>> \notin assigned
        /\ CanAssignDomain(handler[h], u, d)
        /\ Decide(h, "assign_domain", [user |-> u, domains |-> {d}])
AssignDomain(h) ==
    LET c == handler[h].call IN
    /\ handler[h].op = "assign_domain"
    /\ assigned' = assigned \union ({c.user} \X c.domains)
    /\ Grant(h, {c.user} \X c.domains)
    /\ Finish(h, {})
    /\ UNCHANGED <<users, domains, dashboardTables, keyTables, lapsed, strays>>

RemoveDomainCheck(h) ==
    \E u \in Users, d \in Domains :
        /\ Enabled(u) /\ <<u, d>> \in assigned
        /\ CanAssignDomain(handler[h], u, d)
        /\ Decide(h, "remove_domain", [user |-> u, domains |-> {d}])
RemoveDomain(h) ==
    LET c == handler[h].call IN
    /\ handler[h].op = "remove_domain"
    /\ assigned' = assigned \ ({c.user} \X c.domains)
    /\ Withdraw({c.user} \X c.domains)
    /\ Finish(h, {})
    /\ UNCHANGED <<users, domains, dashboardTables, keyTables, lapsed, strays>>

FirstByName(us) == IF us = {} THEN Null ELSE CHOOSE u \in us : \A v \in us : u <= v

\* Faulty variant: the user who is being deleted is not left out.
HeirOrOneself(x, u) ==
    LET able == {v \in Users : Enabled(v) /\ ScopeOf(x) \subseteq AssignedTo(v)}
        managers == {v \in able : shares[<<x, v>>] = "manager"}
        admins == {v \in able : users[v].role = "admin"}
        super_admins == {v \in Users : Enabled(v) /\ users[v].role = "super-admin"}
    IN  FirstByName(IF managers # {} THEN managers
                    ELSE IF admins # {} THEN admins ELSE super_admins)

\* _find_new_dashboard_owner: managers by share, whatever their role, before admins
Heir(x, u) ==
    LET able == {v \in Users \ {u} : Enabled(v) /\ ScopeOf(x) \subseteq AssignedTo(v)}
        managers == {v \in able : shares[<<x, v>>] = "manager"}
        admins == {v \in able : users[v].role = "admin"}
        super_admins == {v \in Users \ {u} : Enabled(v) /\ users[v].role = "super-admin"}
    IN  FirstByName(IF managers # {} THEN managers
                    ELSE IF admins # {} THEN admins ELSE super_admins)

\* delete_user: what the user owns is listed, and an heir of the first one found, before the
\* transaction begins.
DeleteUserCheck(h) ==
    \E u \in Users :
        LET owned == {x \in Dashboards : dashboards[x] = u}
            first == IF owned = {} THEN Null ELSE CHOOSE x \in owned : TRUE
            heir == IF owned = {} THEN Null ELSE Heir(first, u)
        IN  /\ Enabled(u) /\ CanDeleteUser(handler[h], u)
            /\ owned # {} => heir # Null
            /\ Decide(h, "delete_user", [user |-> u, owned |-> owned, first |-> first,
                                         heir |-> heir])

\* The other heirs are found inside it; without one everything is rolled back.
DeleteUser(h) ==
    LET c == handler[h].call
        heirs == [x \in c.owned |-> IF x = c.first THEN c.heir ELSE Heir(x, c.user)]
        given == {x \in c.owned : Exists(x)}
        late == handler[h].overtaken
        fallen == {x \in given : heirs[x] \in late /\ ~Enabled(heirs[x])}
    IN
    /\ handler[h].op = "delete_user"
    /\ IF \E x \in c.owned : heirs[x] = Null
       THEN Finish(h, {}) /\ UNCHANGED <<userTables, dashboardTables, lapsed, strays>>
       ELSE /\ dashboards' = [x \in Dashboards |-> IF x \in given THEN heirs[x]
                                                   ELSE dashboards[x]]
            /\ shares' = [s \in Dashboards \X Users |-> IF s[2] = c.user THEN Null
                                                        ELSE shares[s]]
            /\ users' = [users EXCEPT ![c.user].enabled = FALSE]
            /\ strays' = (strays \ given) \union fallen
                            \union {x \in late : x \in Dashboards \ given
                                                 /\ dashboards[x] = c.user}
            /\ lapsed' = (lapsed \/ {handler[h].actor, c.user} \intersect late # {})
            /\ Finish(h, {c.user} \union given)
            /\ UNCHANGED <<assigned, scope>>
    /\ UNCHANGED <<domains, keyTables, granted>>

----------------------------------------------------------------------------
(* Dashboards (dashboard_service.py).                                      *)

\* create_dashboard, and import_dashboard_yaml once the file has been read
CreateDashboardCheck(h) ==
    \E x \in Dashboards, ds \in SUBSET Allowed(handler[h]) :
        /\ dashboards[x] = Null /\ ds # {}
        /\ Decide(h, "create_dashboard", [dashboard |-> x, domains |-> ds])
CreateDashboard(h) ==
    LET c == handler[h].call
        actor == handler[h].actor
    IN
    /\ handler[h].op = "create_dashboard"
    /\ dashboards[c.dashboard] = Null
    /\ dashboards' = [dashboards EXCEPT ![c.dashboard] = actor]
    /\ scope' = scope \union ({c.dashboard} \X c.domains)
    /\ strays' = IF actor \in handler[h].overtaken /\ ~Enabled(actor)
                 THEN strays \union {c.dashboard} ELSE strays
    /\ Grant(h, {c.dashboard} \X c.domains)
    /\ Finish(h, {c.dashboard})
    /\ UNCHANGED <<userTables, domains, shares, keyTables, lapsed>>

\* update_dashboard: the scope is replaced; name and columns are left out.
UpdateDashboardCheck(h) ==
    \E x \in Dashboards, ds \in SUBSET Allowed(handler[h]) :
        /\ Exists(x) /\ CanEdit(handler[h], x)
        /\ ds # {} /\ ds # ScopeOf(x)
        /\ Decide(h, "update_dashboard", [dashboard |-> x, domains |-> ds])
\* A dashboard deleted meanwhile gets rows of scope all the same.
UpdateDashboard(h) ==
    LET c == handler[h].call IN
    /\ handler[h].op = "update_dashboard"
    /\ scope' = {r \in scope : r[1] # c.dashboard} \union ({c.dashboard} \X c.domains)
    /\ granted' = {r \in granted : r[1] # c.dashboard}
                     \union ({c.dashboard} \X (c.domains \intersect handler[h].given))
    /\ Finish(h, {})
    /\ UNCHANGED <<userTables, domains, dashboards, shares, keyTables, lapsed, strays>>

DeleteDashboardCheck(h) ==
    \E x \in Dashboards :
        /\ Exists(x) /\ CanEdit(handler[h], x)
        /\ Decide(h, "delete_dashboard", [dashboard |-> x])
\* Its shares stay in their table.
DeleteDashboard(h) ==
    LET x == handler[h].call.dashboard IN
    /\ handler[h].op = "delete_dashboard"
    /\ dashboards' = [dashboards EXCEPT ![x] = Deleted]
    /\ scope' = {r \in scope : r[1] # x}
    /\ Withdraw({x} \X Domains)
    /\ Finish(h, {})
    /\ UNCHANGED <<userTables, domains, shares, keyTables, lapsed, strays>>

\* transfer_dashboard_ownership
TransferCheck(h) ==
    \E x \in Dashboards, u \in Users :
        /\ Exists(x) /\ Enabled(u) /\ CanTransfer(handler[h], x, u)
        /\ Decide(h, "transfer", [dashboard |-> x, user |-> u])
Transfer(h) ==
    LET c == handler[h].call
        given == Exists(c.dashboard)
    IN
    /\ handler[h].op = "transfer"
    /\ dashboards' = [dashboards EXCEPT ![c.dashboard] = IF given THEN c.user ELSE @]
    /\ strays' = IF given /\ c.user \in handler[h].overtaken /\ ~Enabled(c.user)
                 THEN strays \union {c.dashboard} ELSE strays \ {c.dashboard}
    /\ Finish(h, {c.dashboard})
    /\ UNCHANGED <<userTables, domains, scope, shares, keyTables, granted, lapsed>>

\* Faulty variant: any access level is taken as it comes.
ShareCheckAnyLevel(h) ==
    \E x \in Dashboards, u \in Users, level \in {"viewer", "manager", "owner"} :
        /\ Exists(x) /\ Enabled(u) /\ CanShare(handler[h], x) /\ CanBeSharedWith(u, level, x)
        /\ Decide(h, "share", [share |-> <<x, u>>, level |-> level])

\* share_dashboard: a second share replaces the first.
ShareCheck(h) ==
    \E x \in Dashboards, u \in Users, level \in {"viewer", "manager"} :
        /\ Exists(x) /\ Enabled(u) /\ CanShare(handler[h], x) /\ CanBeSharedWith(u, level, x)
        /\ Decide(h, "share", [share |-> <<x, u>>, level |-> level])

UnshareCheck(h) ==
    \E x \in Dashboards, u \in Users :
        /\ Exists(x) /\ CanShare(handler[h], x) /\ shares[<<x, u>>] # Null
        /\ Decide(h, "share", [share |-> <<x, u>>, level |-> Null])

Share(h) ==
    LET c == handler[h].call IN
    /\ handler[h].op = "share"
    /\ shares' = [shares EXCEPT ![c.share] = c.level]
    /\ Finish(h, {})
    /\ UNCHANGED <<userTables, domains, dashboards, scope, keyTables, granted, lapsed, strays>>

----------------------------------------------------------------------------
(* API keys (api_key_service.py).                                          *)

CreateKeyCheck(h) ==
    \E k \in Keys, ds \in SUBSET Allowed(handler[h]), ss \in SUBSET Scopes :
        /\ keys[k] = Null /\ IsAdmin(handler[h]) /\ ds # {} /\ ss # {}
        /\ Decide(h, "create_key", [key |-> k, domains |-> ds, scopes |-> ss])
CreateKey(h) ==
    LET c == handler[h].call IN
    /\ handler[h].op = "create_key"
    /\ keys[c.key] = Null
    /\ keys' = [keys EXCEPT ![c.key] = handler[h].actor]
    /\ key_domains' = key_domains \union ({c.key} \X c.domains)
    /\ key_scopes' = key_scopes \union ({c.key} \X c.scopes)
    /\ Grant(h, {c.key} \X c.domains)
    /\ Finish(h, {})
    /\ UNCHANGED <<userTables, domains, dashboardTables, lapsed, strays>>

\* The scopes are replaced, the domains stay.
UpdateKeyCheck(h) ==
    \E k \in Keys, ss \in SUBSET Scopes :
        /\ keys[k] \in Users /\ CanUpdateKey(handler[h], k) /\ ss # {}
        /\ Decide(h, "update_key", [key |-> k, scopes |-> ss])
UpdateKey(h) ==
    LET c == handler[h].call IN
    /\ handler[h].op = "update_key"
    /\ key_scopes' = {r \in key_scopes : r[1] # c.key} \union ({c.key} \X c.scopes)
    /\ Finish(h, {})
    /\ UNCHANGED <<userTables, domains, dashboardTables, keys, key_domains, granted, lapsed,
                   strays>>

DeleteKeyCheck(h) ==
    \E k \in Keys :
        /\ keys[k] \in Users /\ CanUpdateKey(handler[h], k)
        /\ Decide(h, "delete_key", [key |-> k])
DeleteKey(h) ==
    LET k == handler[h].call.key IN
    /\ handler[h].op = "delete_key"
    /\ keys' = [keys EXCEPT ![k] = Deleted]
    /\ key_scopes' = {r \in key_scopes : r[1] # k}
    /\ key_domains' = {r \in key_domains : r[1] # k}
    /\ Withdraw({k} \X Domains)
    /\ Finish(h, {})
    /\ UNCHANGED <<userTables, domains, dashboardTables, lapsed, strays>>

----------------------------------------------------------------------------
(* Domains, by super-admins and by the runner thread (domain_service.py).  *)

ArchiveOrRestore(d) ==
    /\ domains[d] # "gone"
    /\ calls < MaxCalls /\ calls' = calls + 1
    /\ domains' = [domains EXCEPT ![d] = IF @ = "active" THEN "archived" ELSE "active"]
    /\ UNCHANGED <<userTables, dashboardTables, keyTables, handler, granted, lapsed, strays>>

\* _purge_domain_data
Purge(d) ==
    /\ domains[d] = "archived"
    /\ domains' = [domains EXCEPT ![d] = "gone"]
    /\ assigned' = {r \in assigned : r[2] # d}
    /\ scope' = {r \in scope : r[2] # d}
    /\ key_domains' = {r \in key_domains : r[2] # d}
    /\ Withdraw((Users \union Dashboards \union Keys) \X {d})
    /\ UNCHANGED <<users, dashboards, shares, keys, key_scopes, handler, calls, lapsed, strays>>

----------------------------------------------------------------------------

UserCall(h) ==
    \/ CreateUser(h) \/ UpdateUser(h) \/ AssignDomain(h) \/ RemoveDomain(h) \/ DeleteUser(h)
    \/ /\ IsAdmin(handler[h])    \* can_manage_users
       /\ \/ CreateUserCheck(h) \/ UpdateUserCheck(h)
          \/ AssignDomainCheck(h) \/ RemoveDomainCheck(h) \/ DeleteUserCheck(h)

DashboardCall(h) ==
    \/ CreateDashboardCheck(h) \/ CreateDashboard(h)
    \/ UpdateDashboardCheck(h) \/ UpdateDashboard(h)
    \/ DeleteDashboardCheck(h) \/ DeleteDashboard(h)
    \/ TransferCheck(h) \/ Transfer(h)
    \/ ShareCheck(h) \/ UnshareCheck(h) \/ Share(h)

KeyCall(h) ==
    \/ CreateKeyCheck(h) \/ CreateKey(h) \/ UpdateKeyCheck(h) \/ UpdateKey(h)
    \/ DeleteKeyCheck(h) \/ DeleteKey(h)

Next ==
    \/ \E h \in Handlers :
          \/ \E u \in Users : Authenticate(h, u)
          \/ UserCall(h) \/ DashboardCall(h) \/ KeyCall(h)
    \/ \E d \in Domains : ArchiveOrRestore(d) \/ Purge(d)

Spec == Init /\ [][Next]_vars

----------------------------------------------------------------------------
(* Properties.                                                             *)

\* The tables keep their types; ids left behind by deletions are allowed, as the code never
\* switches SQLite's foreign keys on.
TypeOK ==
    /\ users \in [Users -> [role : Roles, enabled : BOOLEAN] \union {Null}]
    /\ assigned \subseteq Users \X Domains
    /\ domains \in [Domains -> {"active", "archived", "gone"}]
    /\ dashboards \in [Dashboards -> Users \union {Null, Deleted}]
    /\ scope \subseteq Dashboards \X Domains
    /\ shares \in [Dashboards \X Users -> {"viewer", "manager", Null}]
    /\ keys \in [Keys -> Users \union {Null, Deleted}]
    /\ key_scopes \subseteq Keys \X Scopes /\ key_domains \subseteq Keys \X Domains
    /\ DOMAIN handler = Handlers
    /\ \A h \in Handlers : handler[h] = Idle \/ handler[h] \in Request(handler[h].op)
    /\ calls \in 0 .. MaxCalls
    /\ granted \subseteq (Users \union Dashboards \union Keys) \X Domains
    /\ lapsed \in BOOLEAN /\ strays \subseteq Dashboards

\* A super-admin remains, however users are created, promoted, demoted and deleted
\* (user_policy.py:38-71, :131-157), as long as no call is finished after another one has
\* changed the account of its actor or of its target: two super-admins who remove each other,
\* or an admin whose demotion of a manager meets the manager's promotion, leave none.
SuperAdminRemains ==
    lapsed \/ \E u \in Users : Enabled(u) /\ users[u].role = "super-admin"

\* Deleting a user leaves nobody's dashboard without a living owner (user_service.py:546-638),
\* except where the owner was deleted while it was about to create, to be given or to inherit
\* the dashboard, or came to it after its own deletion had listed what it owned.  Nothing is
\* said of the owner's role: viewers create and inherit dashboards, and managers who own some
\* are made viewers, although docs/SECURITY_AND_AUDIT.md:38 rules it out.
OwnerRemains ==
    \A x \in Dashboards : Exists(x) => Enabled(dashboards[x]) \/ x \in strays

\* Each domain of a user, a dashboard or an API key was put there by a super-admin, or by
\* somebody who rightly had that domain when the service decided: passed on from hand to hand
\* it can be followed back to a super-admin, also through users an admin has created and
\* promoted (user_policy.py:98-120, api_key_service.py:49-52, dashboard_service.py:61-63).
\* What is withdrawn from a giver meanwhile or later stays with those it was passed on to.
GrantedBySuperAdmin == assigned \union scope \union key_domains \subseteq granted

=============================================================================
