SPECIFICATION Spec
CONSTANTS
    Names = {n1}
    Ids = {d1, d2}
    Handlers = {h1}
    Requests = {"create", "archive", "restore", "delete", "pause", "unpause", "set_retention"}
    RetentionDays = {1}
    Second = 1
    DayLength = 1
    MaxTime = 2
    ArchiveConfigured = TRUE
    Null = Null
INVARIANTS CountdownFollowsArchive
