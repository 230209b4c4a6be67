\* No forks: budgets too small for one scan, a tree too small for the last leaf.
SPECIFICATION Spec
CONSTANTS
    escrow1 = escrow1
    slash1 = slash1
    escrow2 = escrow2
    settle2 = settle2
    rep1 = rep1
    rep2 = rep2
    Txs = {escrow1, slash1, escrow2, settle2}
    Spends <- MCSpends
    NoTx = NoTx
    MaxBlocks = 5
    MaxReorg = 0
    PruneDepth = 2
    SameMergeset = TRUE
    BatchSize = 1
    PageSize = 2
    Rep <- TwoMakers
    Earned <- EarnedByTwo
    NoRep = NoRep
    Invented = invented
    NoChain = NoChain
    Slashes = {slash1}
    AnyStart = TRUE
    MaxBatches = 2
    Capacity = 3
INVARIANTS
    TypeOK
    UpdatesEqualRebuild
    MarketFollowsChain
    
