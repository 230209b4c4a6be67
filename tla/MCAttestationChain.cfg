\* Two pseudonyms, each the maker of one trade.  Up to three attestations as long
\* as what is agreed on is success; else up to two, one of them unsigned or later.
SPECIFICATION Spec
CONSTANTS
    alice = alice
    bob = bob
    trade1 = trade1
    trade2 = trade2
    Pseudonyms = {alice, bob}
    Trades = {trade1, trade2}
    Chosen = {"Success", "Default"}
    Maker <- TwoMakers
    Named <- OnlyMakers
    MaxTs = 1
    MaxAtts = 3
    VariedAtts = 2
SYMMETRY Exchange
INVARIANTS
    TypeOK
    HeadDeterminesChain
    OnlyPrefixesVerify
    EntryMatchesSpend
\* The bounds stop the model once everything is signed and spent.
CHECK_DEADLOCK FALSE
