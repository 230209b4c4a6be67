SPECIFICATION DisclosureSpec
CONSTANTS
    Attestations <- MCAttestations
    Payments <- MCPayments
    Pseudonyms <- MCPseudonyms
    AnchorDepth = 2
    SmtDepth = 2
    MaxSuccesses = 2
    MaxEvents = 3
INVARIANTS
    DisclosureTypeOK
    WitnessesExecute
    HonestProofsPass
    AcceptedIsAnchoredAndClean
CHECK_DEADLOCK FALSE
