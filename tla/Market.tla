------------------------------- MODULE Market -------------------------------
(***************************************************************************)
(* The marketplace page of `krep serve` (krep-cli/src/market.rs, the       *)
(* /api/market route of krep-cli/src/explore.rs) over a saved scan.        *)
(*                                                                         *)
(* A request fetches offers, each with the chain its seller chose to put   *)
(* there, and checks every record against the scan the server loaded when  *)
(* it started.  Requests change nothing, so there is no action for them:   *)
(* the properties speak of every offer that could be on the page and of    *)
(* every scan Accumulator saves, complete or not.                          *)
(*                                                                         *)
(* A transaction stands for the one attestation it anchors.  Which entries *)
(* are in a chain is up to its owner, who appends them; that a chain's     *)
(* entries cannot be dropped or exchanged afterwards is AttestationChain's *)
(* subject.  A definition marked "Deviation" is a wrong form of the one    *)
(* after it.                                                               *)
(***************************************************************************)
EXTENDS Accumulator

CONSTANTS
    Earned,     \* the pseudonym each transaction's attestation belongs to
    NoRep,      \* nobody's
    Invented,   \* an attestation the owner and a friend signed and nobody anchored
    NoChain     \* an offer without a record

ASSUME MarketAssumption ==
    /\ Earned \in [Txs -> {Rep[e] : e \in Escrows} \cup {NoRep}]
    /\ \A tx \in Slashes : Earned[tx] = Rep[Spends[tx]]
    /\ Invented \notin Txs

Sellers == {Rep[e] : e \in Escrows}

----------------------------------------------------------------------------
(* Offers *)

Own(seller) == {tx \in Txs : Earned[tx] = seller} \cup {Invented}

\* The chains a seller may put in an offer: the entries it appended, whichever.
Chains(seller) ==
    {chain \in UNION {[1..n -> Own(seller)] : n \in 0..Cardinality(Own(seller))} :
        \A i, j \in DOMAIN chain : chain[i] = chain[j] => i = j}

ASSUME NoChainAssumption == \A seller \in Sellers : NoChain \notin Chains(seller)

\* Nobody signs a default: its authority is the slash.
IsDefault(entry) == entry \in Slashes

----------------------------------------------------------------------------
(* The verifier over the saved scan, and the listing *)

\* Chain::verify_anchored with a RootsVerifier.
VerifyAnchored(seller, chain) ==
    \A i \in DOMAIN chain :
        /\ IsAnchored(saved, chain[i]) = "true"
        /\ IsDefault(chain[i]) => CovenantWitnessed(saved, seller) = "true"

\* Chain::score, as far as a listing shows it.
Score(chain) ==
    [trades   |-> Len(chain),
     defaults |-> Cardinality({i \in DOMAIN chain : IsDefault(chain[i])})]

NoScore == [trades |-> 0, defaults |-> 0]

Listing(status, score) == [status |-> status, score |-> score]

\* Deviation: structure and signatures suffice.
AssessUnanchored(seller, chain) ==
    IF chain = NoChain THEN Listing("no_record", NoScore)
    ELSE Listing("verified", Score(chain))

\* assess.
Assess(seller, chain) ==
    IF chain = NoChain THEN Listing("no_record", NoScore)
    ELSE IF VerifyAnchored(seller, chain) THEN Listing("verified", Score(chain))
    ELSE Listing("unverified", NoScore)

Place(status) == CASE status = "verified" -> 0 [] status = "no_record" -> 1 [] OTHER -> 2

\* rank: the order of the page.
RanksBefore(l, m) ==
    \/ Place(l.status) < Place(m.status)
    \/ /\ Place(l.status) = Place(m.status)
       /\ \/ l.score.defaults < m.score.defaults
          \/ l.score.defaults = m.score.defaults /\ l.score.trades > m.score.trades

----------------------------------------------------------------------------
(* Properties *)

\* The page shows no more and no less than the chain supports, whichever scan
\* the server loaded: every entry of a record shown as verified was accepted,
\* and every default in it was a slash of that seller; a record of which every
\* entry lies in the scanned stretch is shown as verified and counted in full
\* (of a default the scan must reach back to the escrow); and one entry that was
\* never accepted puts a seller behind those who claim nothing.
RecordsAreTrue ==
    saved # NoFile =>
        LET window == AcceptedBetween(saved.from, saved.end) IN
        \A seller \in Sellers : \A chain \in Chains(seller) :
            LET listing == Assess(seller, chain)
                entries == {chain[i] : i \in DOMAIN chain}
            IN  /\ listing.status = "verified" =>
                       \A entry \in entries :
                           /\ AcceptedOn(VirtualChain, entry)
                           /\ IsDefault(entry) => Rep[Spends[entry]] = seller
                /\ (\A entry \in entries :
                        /\ entry \in window
                        /\ IsDefault(entry) => Spends[entry] \in window)
                   => listing = Listing("verified", Score(chain))
                /\ (\E entry \in entries : ~AcceptedOn(VirtualChain, entry))
                   => RanksBefore(Assess(seller, NoChain), listing)

----------------------------------------------------------------------------
(* What the documentation says and the market does not keep *)

\* market.rs: of a seller that hides a default, "the defaults tree catches that
\* independently of anything the seller chose to show".
HiddenDefaultIsCaught ==
    saved # NoFile =>
        \A seller \in Sellers : \A chain \in Chains(seller) :
            LET listing == Assess(seller, chain) IN
            /\ CovenantWitnessed(saved, seller) = "true"
            /\ chain # <<>> /\ listing.status = "verified"
            => listing.score.defaults > 0
=============================================================================
