-------------------------- MODULE MCEscrowCovenant --------------------------
(***************************************************************************)
(* Small escrows for TLC: a buyer, a maker, an arbiter, a payment key      *)
(* nobody holds, two pseudonyms and a clock of a few DAA scores.           *)
(***************************************************************************)
EXTENDS EscrowCovenant, TLC

CONSTANTS buyer, maker, arbiter, lostKey, rep1, rep2, tracked

MCPseudonyms == {rep1, rep2}
MCHashes     == {tracked}
MCHolders    == {buyer, maker, arbiter}
MCKeys       == MCHolders \cup {lostKey}

\* The pseudonyms are interchangeable.
Symmetry == Permutations(MCPseudonyms)
=============================================================================
