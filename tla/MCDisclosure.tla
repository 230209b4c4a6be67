---------------------------- MODULE MCDisclosure ----------------------------
\* Instances of Disclosure for TLC: two pseudonyms of two bits, two escrows, and
\* trees of four slots.
EXTENDS Disclosure

Seller == 2
Trader == 1

Att(owner, success, v2, anchor) ==
    [owner |-> owner, success |-> success, v2 |-> v2, signed |-> TRUE, anchor |-> anchor]

\* The first escrow settles with a success for each side, the second with two
\* entries of the seller's: one of another outcome, one a success.  The trader's
\* side of it is of the first version.
MCAttestations ==
    <<Att(Seller, TRUE, TRUE, 1), Att(Trader, TRUE, TRUE, 1),
      Att(Seller, FALSE, TRUE, 2), Att(Seller, TRUE, TRUE, 2), Att(Trader, TRUE, FALSE, 2)>>

\* A settlement commits its own ids, or one that is anchored elsewhere.  Five
\* leaves are more than the tree has room for.
MCPayments == <<{{1, 2}, {4}}, {{3, 4}, {3, 4, 5}}>>

MCPseudonyms == {Seller, Trader}
=============================================================================
