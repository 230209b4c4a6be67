----------------------------- MODULE MCJobBoard -----------------------------
\* Instances of JobBoard for TLC: one honest relay and one that is not.
EXTENDS JobBoard, TLC

CONSTANTS buyer, maker, honest, other, job1, terms1, terms2, europe, asia

InOrder == <<other, honest>>

\* Pseudonyms, escrows and regions are only compared.
Symmetry == Permutations({buyer, maker}) \cup Permutations({terms1, terms2})
                \cup Permutations({europe, asia})
=============================================================================
