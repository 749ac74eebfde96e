SPECIFICATION Spec
CONSTANTS
    Names = {n1}
    Ids = {d1, d2}
    Handlers = {h1, h2}
    Requests = {"create", "archive", "restore", "delete", "pause", "unpause", "set_retention"}
    RetentionDays = {1}
    Second = 1
    DayLength = 1
    MaxTime = 2
    ArchiveConfigured = TRUE
    Null = Null
SYMMETRY Symmetry
INVARIANTS TypeOK CallsMatchRows RetentionConsistent NamesUnique
