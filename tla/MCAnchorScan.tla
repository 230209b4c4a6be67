---------------------------- MODULE MCAnchorScan ----------------------------
\* Instances of AnchorScan for TLC; the cfg files give the bounds.
EXTENDS AnchorScan

\* The settlement and its rival spend the escrow's output.
TheConflict == [tx \in Txs |-> IF tx \in Spenders THEN "Escrow" ELSE NoTx]
=============================================================================
