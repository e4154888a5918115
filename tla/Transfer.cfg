SPECIFICATION FairSpec
CONSTANTS
    Blocks <- MCBlocks
    Number <- MCNumber
    Parent <- MCParent
    NoHash = NoHash
    Chains <- MCChains
    Txs <- MCTxs
    TxsOf <- MCTxsOf
    Workers = {w1, w2}
    MaxReorgs = 1
    MaxRedeliveries = 1
    MaxAborts = 1
CHECK_DEADLOCK FALSE
INVARIANT TypeOK
INVARIANT CanonicalTransfersKept
INVARIANT CountedOnce
PROPERTY EventuallyRecorded
