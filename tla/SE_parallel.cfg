SPECIFICATION Spec
CONSTANTS
    Users = {u1}
    Addresses = {a1}
    Handlers = {h1, h2}
    Threshold = 3
    Window = 2
    Block = 2
    MaxPasswords = 2
    Null = Null
SYMMETRY Symmetry
INVARIANTS TypeOK GuessesBounded RevokedWithPassword
CHECK_DEADLOCK FALSE
