SPECIFICATION FairSpec
CONSTANTS
    r1 = r1
    r2 = r2
    d1 = d1
    hook = hook
    RuleOf <- Owners
    Jobs = {j1, j2}
    Rules = {r1, r2}
    Deliveries = {d1, hook}
    Webhooks = {hook}
    Attempts = 2
    MaxClaims = 2
    MaxTroubles = 1
    None = None
INVARIANT NobodyForgotten
PROPERTY DeliveriesAreClaimedWork
PROPERTY JobsEnd
CHECK_DEADLOCK FALSE
