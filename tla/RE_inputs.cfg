SPECIFICATION Spec
CONSTANTS
    NoDomain = NoDomain
    Domains <- MCDomains
    PublicSuffixes = {"com"}
    SldOf <- MCSldOf
    Records <- MCRecords
    Results <- MCResults
    MaxResults = 2
    MaxSenders = 2
    Snapshots <- MCSnapshots
CHECK_DEADLOCK FALSE
INVARIANTS PassIsAligned FailureIsCertain WeakeningShows UndoingDegrades
