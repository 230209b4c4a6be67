\* Forks no deeper than the confirmation floor; budgets that are never exhausted.
SPECIFICATION Spec
CONSTANTS
    Txs = {"Escrow", "Settlement", "Rival"}
    Spends <- TheConflict
    NoTx = "none"
    MaxBlocks = 6
    MaxReorg = 1
    PruneDepth = 3
    SameMergeset = FALSE
    BatchSize = 1
    PageSize = 2
    MinConfirmations = 1
    MaxBatches = 7
    MaxSpendScanBlocks = 16
INVARIANTS
    TypeOK
    AffirmedStands
    BuriedIsNotDenied
    DenialNeedsItsEscrow
