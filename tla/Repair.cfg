SPECIFICATION Spec
CONSTANTS
    Blocks <- AllBlocks
    Number <- MCNumber
    Parent <- MCParent
    NoHash = NoHash
    Chains <- OnlyChain
    Txs = {}
    TxsOf <- NoTxs
    chain <- Settled
    From = 0
    To = 2
    BatchSize = 2
    Ancestor = 1
    Abandoned <- Fork
    Missed = 1
    MaxRuns = 3
    MaxDeaths = 1
    MaxFailures = 2
INVARIANT JobsForRecordedBlocks
INVARIANT AbandonedForkIsGone
INVARIANT GapsAreFilled
CHECK_DEADLOCK FALSE
