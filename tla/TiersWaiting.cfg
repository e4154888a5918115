SPECIFICATION FairSpec
CONSTANTS
    Requests = {r1, r2}
    Amounts = {0, 2}
    Minimums <- MCMinimums
    MinimumHolding = 1
    MaxHeight = 3
    MaxReorgs = 1
CHECK_DEADLOCK FALSE
PROPERTY WaitingIsRewarded
