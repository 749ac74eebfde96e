SPECIFICATION Spec
CONSTANTS
    Users = {1, 2, 3}
    Domains = {d1, d2}
    Dashboards = {x1}
    Keys = {k1}
    Handlers = {h1, h2}
    Accounts <- Teams
    MaxCalls = 3
    Deleted = Deleted
    Null = Null
SYMMETRY Symmetry
INVARIANTS TypeOK SuperAdminRemains OwnerRemains GrantedBySuperAdmin
CHECK_DEADLOCK FALSE
