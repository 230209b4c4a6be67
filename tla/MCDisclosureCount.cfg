SPECIFICATION DisclosureSpec
CONSTANTS
    Attestations <- MCAttestations
    Payments <- MCPayments
    Pseudonyms <- MCPseudonyms
    AnchorDepth = 2
    SmtDepth = 2
    MaxSuccesses = 2
    MaxEvents = 1
INVARIANT
    AcceptedHasThatMany
CHECK_DEADLOCK FALSE
