---------------------------- MODULE Accumulator -----------------------------
(***************************************************************************)
(* The two accumulators of `krep roots` (krep-cli/src/roots.rs, the        *)
(* derivation rules of krep-zk/src/scan.rs) and the saved scan they are    *)
(* kept in (krep-cli/src/prove.rs, RootsFile): the anchored leaves and the *)
(* pseudonyms a slash was executed against.                                *)
(*                                                                         *)
(* A scan takes two passes over a chain that moves meanwhile: the ids that *)
(* were accepted, then the bodies.  An update resumes at the chain block   *)
(* the saved scan stopped on and carries on from what it holds.            *)
(*                                                                         *)
(* A transaction stands for the leaves it adds; the escrow it opens is     *)
(* known by its payload, which names the maker's pseudonym.  A slash is a  *)
(* spend of an escrow by the branch 7.  The hash trees over the two sets   *)
(* are functions of them and left out, but for the capacity of the first.  *)
(* A definition marked "Deviation" is a wrong form of the one after it.    *)
(***************************************************************************)
EXTENDS KaspaNode

CONSTANTS
    Rep,            \* the pseudonym each escrow's payload names, by escrow
    Slashes,        \* the transactions that take the slash branch
    AnyStart,       \* whether a scan may start at any chain block (--from, --recent)
    MaxBatches,     \* --max-batches
    Capacity        \* the leaves the tree has room for, 2^depth

Escrows == DOMAIN Rep

ASSUME AccumulatorAssumption ==
    /\ IsFiniteSet(Txs) /\ Escrows \subseteq Txs /\ Slashes \subseteq Txs
    /\ \A tx \in Slashes : Spends[tx] \in Escrows
    /\ AnyStart \in BOOLEAN /\ MaxBatches \in Nat /\ Capacity \in Nat

VARIABLES
    build,      \* the scan under way
    saved       \* the saved scan

node == <<blocks, sink, pruned>>
vars == <<node, build, saved>>

Idle == [at |-> "idle"]
NoFile == [end |-> NoBlock]

----------------------------------------------------------------------------
(* What a transaction contributes *)

\* default_from_spend: the pseudonym a slash records, if the payload of the
\* escrow it spends is known.
DefaultOf(tx, payloads) ==
    IF tx \in Slashes /\ Spends[tx] \in payloads \cap Escrows
    THEN {Rep[Spends[tx]]}
    ELSE {}

Defaults(txs, payloads) == UNION {DefaultOf(tx, payloads) : tx \in txs}

----------------------------------------------------------------------------
(* The scan *)

\* Deviation: leaves and defaults are carried over, escrows are not.
CarriedWithoutEscrows(file) ==
    [leaves |-> file.leaves, defaulted |-> file.defaulted, payloads |-> {}]

\* RootsFile::prior.
Carried(file) ==
    [leaves |-> file.leaves, defaulted |-> file.defaulted, payloads |-> file.escrows]

Nothing == [leaves |-> {}, defaulted |-> {}, payloads |-> {}]

Started(start, from, prior) ==
    [at |-> "accepting", start |-> start, cursor |-> start, batches |-> 0,
     accepted |-> {}, reached |-> FALSE, low |-> start, kept |-> prior,
     slashes |-> {}, from |-> from]

\* `krep roots`: from the pruning point or a block the user names.
Rebuild(start) ==
    /\ build = Idle
    /\ start = pruned \/ (AnyStart /\ start \in VirtualChain)
    /\ build' = Started(start, start, Nothing)
    /\ UNCHANGED <<node, saved>>

\* `krep roots --update`.
Update ==
    /\ build = Idle
    /\ saved # NoFile
    /\ build' = Started(saved.end, saved.from, Carried(saved))
    /\ UNCHANGED <<node, saved>>

\* An error ends the command and leaves the file as it was.
Fail == build' = Idle /\ UNCHANGED saved

\* Pass one: a batch of accepted ids, until there are no more or the budget
\* is spent.
AcceptBatch ==
    /\ build # Idle /\ build.at = "accepting"
    /\ LET batch == ChainAfter(build.cursor, 0) IN
       \/ /\ build.batches = MaxBatches
          /\ build' = [build EXCEPT !.at = "bodies"]
          /\ UNCHANGED saved
       \/ /\ build.batches < MaxBatches
          /\ Gone(build.cursor)
          /\ Fail
       \/ /\ build.batches < MaxBatches
          /\ ~Gone(build.cursor)
          /\ build' =
               IF batch = {}
               THEN [build EXCEPT !.at = "bodies", !.reached = TRUE]
               ELSE [build EXCEPT
                       !.accepted = @ \cup UNION {blocks[b].txs : b \in batch},
                       !.cursor = Max(batch),
                       !.batches = @ + 1]
          /\ UNCHANGED saved
    /\ UNCHANGED node

\* The file the finished scan leaves: RootsFile::from_scan.  Where the first
\* scan began is not in the file; it is kept here for the properties.
Result(b) ==
    [leaves    |-> b.kept.leaves,
     defaulted |-> b.kept.defaulted \cup Defaults(b.slashes, b.kept.payloads),
     escrows   |-> b.kept.payloads \cap Escrows,
     end       |-> b.cursor,
     complete  |-> b.reached,
     from      |-> b.from]

\* Every payload is remembered, the leaves and slashes of what was accepted
\* are taken.
ReadPage(b, page) ==
    LET bodies == UNION {blocks[c].txs : c \in page} IN
    [b EXCEPT !.kept.payloads = @ \cup bodies,
              !.kept.leaves = @ \cup (bodies \cap b.accepted),
              !.slashes = @ \cup (bodies \cap b.accepted \cap Slashes),
              !.low = LastOf(b.low, page)]

\* Deviation: the capacity is not looked at.
NeverOverflows(b) == FALSE

\* The leaves outgrew the tree.
Overflows(b) == Cardinality(b.kept.leaves) > Capacity

\* Pass two: a page of bodies, until the page that holds the end of pass one
\* or the last one there is.
ReadBodies ==
    /\ build # Idle /\ build.at = "bodies"
    /\ LET page == BodiesAfter(build.low)
           after == ReadPage(build, page)
       IN  \/ Gone(build.low) /\ Fail
           \/ ~Gone(build.low) /\ Overflows(after) /\ Fail
           \/ /\ ~Gone(build.low) /\ ~Overflows(after)
              /\ IF build.cursor \in page \cup {build.low} \/ after.low = build.low
                 THEN /\ saved' = Result(after)
                      /\ build' = Idle
                 ELSE build' = after /\ UNCHANGED saved
    /\ UNCHANGED node

\* The chain moves on while the scan waits for a reply.
NodeMoves == NodeStep /\ UNCHANGED <<build, saved>>

Init ==
    /\ NodeInit
    /\ build = Idle
    /\ saved = NoFile

Next ==
    \/ NodeMoves
    \/ \E start \in Blocks : Rebuild(start)
    \/ Update \/ AcceptBatch \/ ReadBodies

Spec == Init /\ [][Next]_vars

----------------------------------------------------------------------------
(* The verifier over a saved scan (krep-cli/src/market.rs, RootsVerifier) *)

\* is_anchored: what is not in the scan is unknown.
IsAnchored(file, tx) == IF tx \in file.leaves THEN "true" ELSE "unknown"

\* Deviation: an incomplete scan confirms nothing.
WitnessedIfComplete(file, rep) ==
    IF rep \in file.defaulted /\ file.complete THEN "true" ELSE "false"

\* covenant_witnessed: what is not in the scan is no default.
CovenantWitnessed(file, rep) == IF rep \in file.defaulted THEN "true" ELSE "false"

----------------------------------------------------------------------------
(* Properties *)

\* Every value has its type; a saved scan always fits the tree.
Scans == [leaves : SUBSET Txs, defaulted : SUBSET {Rep[e] : e \in Escrows},
          escrows : SUBSET Escrows, end : Blocks, complete : BOOLEAN, from : Blocks]

TypeOK ==
    /\ NodeTypeOK
    /\ saved # NoFile => saved \in Scans /\ Cardinality(saved.leaves) <= Capacity
    /\ build # Idle =>
           /\ build.at \in {"accepting", "bodies"}
           /\ {build.start, build.cursor, build.low} \subseteq Blocks
           /\ build.batches \in 0..MaxBatches
           /\ build.accepted \cup build.slashes \cup build.kept.leaves \subseteq Txs

\* What the chain accepted between two of its blocks.
AcceptedBetween(from, end) == UNION {blocks[c].txs : c \in Past[end] \ Past[from]}

\* However many updates a saved scan is the product of, wherever each stopped
\* and whatever arrived between its calls, it holds what one scan from the same
\* start would have found: the same leaves, and every default, those included
\* whose escrow only an earlier update saw ("both roots are reproducible").
UpdatesEqualRebuild ==
    saved # NoFile =>
        LET window == AcceptedBetween(saved.from, saved.end)
        IN  saved.leaves = window /\ saved.defaulted = Defaults(window, window)

\* What the market concludes from a saved scan follows the chain, however the
\* scan came about: what it calls anchored is on the chain, a pseudonym it calls
\* a defaulter was slashed there, and a slash whose escrow the scan reaches back
\* to is confirmed, whether or not the scan was complete.
MarketFollowsChain ==
    saved # NoFile =>
        LET window == AcceptedBetween(saved.from, saved.end)
            slashed == {tx \in Slashes : AcceptedOn(VirtualChain, tx)}
        IN  /\ \A tx \in Txs :
                   IsAnchored(saved, tx) = "true" => AcceptedOn(VirtualChain, tx)
            /\ \A e \in Escrows :
                   CovenantWitnessed(saved, Rep[e]) = "true" =>
                       \E tx \in slashed : Rep[Spends[tx]] = Rep[e]
            /\ \A tx \in slashed :
                   {tx, Spends[tx]} \subseteq window =>
                       CovenantWitnessed(saved, Rep[Spends[tx]]) = "true"
=============================================================================
