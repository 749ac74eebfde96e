SPECIFICATION Spec
CONSTANTS
    Domains = {d1}
    Handlers = {h1}
    Published = {p1, p2}
    Unreadable = {p2}
    SelectorSets = {s1, s2}
    MinTrigger = 1
    CheckIntervals = {1}
    MaxInterval = 1
    MaxFaults = 1
    Null = Null
INVARIANTS TypeOK InFlightBounded TimelineComplete CompletedIsDone
PROPERTIES TimelineConnected EveryJobEnds DueIsChecked
