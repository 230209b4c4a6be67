SPECIFICATION Spec
CONSTANTS
    Endowment <- MCEndowment
    Rates = {1, 2}
    Amounts = {10000}
    MinConfirmations = 1
    CoinbaseMaturity = 2
    MaxInputs = 3
    MaxDaa = 3
    MaxTx = 3
INVARIANTS
    TypeOK
    AnchorsPayTheirWay
    RefusedOnlyIfHopeless
    TopUpsAreNeeded
CHECK_DEADLOCK FALSE
