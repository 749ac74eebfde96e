SPECIFICATION FairSpec
CONSTANTS
    Jobs = {j1, j2}
    r1 = r1
    r2 = r2
    Reports = {r1, r2}
    Envelopes <- MCEnvelopes
    MaxInterrupts = 0
    Null = Null
PROPERTIES HealthyJobsEnd
