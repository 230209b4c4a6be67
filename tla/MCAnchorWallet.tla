-------------------------- MODULE MCAnchorWallet ----------------------------
\* A young coinbase that pays for itself at the lower rate alone, and three
\* coins that pay for an anchor only together, and at the higher rate only if
\* all three are taken.
EXTENDS AnchorWallet

MCEndowment == <<[amount |-> 33500, coinbase |-> TRUE],
                 [amount |-> 2780, coinbase |-> FALSE],
                 [amount |-> 2760, coinbase |-> FALSE],
                 [amount |-> 2700, coinbase |-> FALSE]>>
=============================================================================
