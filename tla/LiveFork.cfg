SPECIFICATION FairSpec
CONSTANTS
    Blocks <- TwoChainBlocks
    Number <- MCNumber
    Parent <- MCParent
    NoHash = NoHash
    Chains <- TwoChains
    Txs <- MCTxs
    TxsOf <- ForkTxs
    StartBlock = 0
    BatchSize = 2
    FinalityConfirmations = 9
    MaxReorgDepth = 2
    MaxReorgs = 1
    MaxCrashes = 0
    MaxFailures = 0
    MaxSwallowed = 1
    MaxHeight = 5
INVARIANT RecordedChainIsTheChain
INVARIANT FactsFollowTheChain
INVARIANT OneCanonicalPerHeight
PROPERTY EventuallyCaughtUp
PROPERTY AbandonedForkIsOrphaned
