--------------------------- MODULE MCEscrowClient ---------------------------
(***************************************************************************)
(* One escrow, its buyer and its maker, driven by the client: enough       *)
(* transactions for every path to its end and one or two beside it.        *)
(***************************************************************************)
EXTENDS EscrowClient

CONSTANTS buyer, maker, arbiter, rep, tracked

MCHolders == {buyer, maker, arbiter}
=============================================================================
