SPECIFICATION FairSpec
CONSTANTS
    j1 = j1
    j2 = j2
    pool = pool
    token = token
    Jobs = {j1, j2}
    Targets = {pool, token}
    TargetsOf <- Events
    Rules = {r1}
    Verdicts = {"fail"}
    Attempts = 2
    MaxPublished = 2
    MaxTroubles = 1
INVARIANT TypeOK
INVARIANT ScoresAreExplained
INVARIANT NoScanIsForgotten
PROPERTY ScansAreClaimedWork
PROPERTY JobsEnd
CHECK_DEADLOCK FALSE
