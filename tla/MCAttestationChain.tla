------------------------- MODULE MCAttestationChain -------------------------
\* Instances of AttestationChain for TLC.
EXTENDS AttestationChain, TLC

CONSTANTS alice, bob, trade1, trade2

\* Alice makes what Bob buys in the first trade, and the reverse.
TwoMakers == (trade1 :> alice) @@ (trade2 :> bob)

\* And nobody else stands in the state of either escrow.
OnlyMakers == (trade1 :> {alice}) @@ (trade2 :> {bob})

\* Exchanging both the pseudonyms and their trades leaves the model as it is.
Exchange == {f \in Permutations(Pseudonyms \cup Trades) :
                \A t \in Trades : f[t] \in Trades /\ f[TwoMakers[t]] = TwoMakers[f[t]]}
=============================================================================
