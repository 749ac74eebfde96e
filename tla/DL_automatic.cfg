SPECIFICATION FairSpec
CONSTANTS
    Names = {n1, n2}
    Ids = {d1, d2}
    Handlers = {h1}
    Requests = {"create", "archive", "pause", "unpause"}
    RetentionDays = {1}
    Second = 2
    DayLength = 2
    MaxTime = 2
    ArchiveConfigured = FALSE
    Null = Null
INVARIANTS CountdownFollowsArchive ReportsHaveDomain
PROPERTIES ImplementsStore DueIsPurged DeletionSparesOthers CountdownKept
