SPECIFICATION Spec
CONSTANTS
    Blocks <- ThreeChainBlocks
    Number <- MCNumber
    Parent <- MCParent
    NoHash = NoHash
    Chains <- ThreeChains
    Txs <- MCTxs
    TxsOf <- ForkTxs
    StartBlock = 0
    BatchSize = 2
    FinalityConfirmations = 2
    MaxReorgDepth = 2
    MaxReorgs = 1
    MaxCrashes = 1
    MaxFailures = 1
    MaxSwallowed = 1
    MaxHeight = 4
INVARIANT CheckpointCovered
INVARIANT JobsOnlyForDurableBlocks
INVARIANT DrainedBlocksStayOnChain
INVARIANT JobsForEveryHeight
PROPERTY ReorgResolvedClean
PROPERTY CheckpointBackOnlyAfterReorg
