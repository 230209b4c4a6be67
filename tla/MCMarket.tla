----------------------------- MODULE MCMarket ------------------------------
\* Two escrows: one may be slashed, the other settled.
EXTENDS Market, TLC

CONSTANTS escrow1, slash1, escrow2, settle2, rep1, rep2

MCSpends == (escrow1 :> NoTx) @@ (slash1 :> escrow1)
            @@ (escrow2 :> NoTx) @@ (settle2 :> escrow2)

TwoMakers == (escrow1 :> rep1) @@ (escrow2 :> rep2)
OneMaker  == (escrow1 :> rep1) @@ (escrow2 :> rep1)

Committed(rep) == [tx \in Txs |-> IF Spends[tx] = NoTx THEN NoRep ELSE rep[Spends[tx]]]
EarnedByTwo == Committed(TwoMakers)
EarnedByOne == Committed(OneMaker)
=============================================================================
