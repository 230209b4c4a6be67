----------------------------- MODULE Disclosure -----------------------------
(***************************************************************************)
(* Selective disclosure: `krep prove` and `krep check-proof`               *)
(* (krep-cli/src/prove.rs and main.rs) and the statement of the circuit    *)
(* (krep-zk/circuit/src/main.nr), over the trees of HashTrees.             *)
(*                                                                         *)
(* Prover and verifier each hold a saved scan of some stretch of the       *)
(* chain, made at different times.  A proof fixes its public inputs and    *)
(* shows nothing else; the proving system is taken to be sound and         *)
(* complete: there is a proof exactly when the circuit's assertions hold   *)
(* of some private inputs.  A prover need not use `krep prove`.            *)
(*                                                                         *)
(* An attestation is its id, as ids are hashes of all of it.               *)
(***************************************************************************)
EXTENDS Integers, Sequences, SequencesExt, HashTrees

CONSTANTS
    Attestations,   \* [owner, success, v2, signed, anchor] for each id 1..n
    Payments,       \* what the settlement of each anchor may commit: sets of ids
    Pseudonyms,     \* keys that may be slashed, numbers of SMT_DEPTH bits
    AnchorDepth,    \* ANCHOR_DEPTH
    SmtDepth,       \* SMT_DEPTH
    MaxSuccesses,   \* MAX_SUCCESSES
    MaxEvents       \* bound on what happens on the chain

Ids == 1..Len(Attestations)
Anchors == 1..Len(Payments)
Keys == 0..(2^SmtDepth - 1)
Parties == {"prover", "verifier"}

ASSUME DisclosureAssumption ==
    /\ AnchorDepth \in Nat \ {0} /\ SmtDepth \in Nat \ {0} /\ MaxSuccesses \in Nat \ {0}
    /\ MaxEvents \in Nat
    /\ Pseudonyms \subseteq Keys
    /\ Attestations \in Seq([owner : Pseudonyms, success : BOOLEAN, v2 : BOOLEAN,
                              signed : BOOLEAN, anchor : Anchors])
    /\ Payments \in Seq(SUBSET (SUBSET Ids))

VARIABLES
    history,    \* what was settled and slashed, in the order of the chain
    files,      \* the saved scan of each party
    bundle,     \* the proof handed to the verifier
    verdict     \* what check-proof said of it

disclosureVars == <<history, files, bundle, verdict>>

NoScan == [scanned |-> FALSE]
NoBundle == [sent |-> FALSE]
NoVerdict == [given |-> FALSE]

----------------------------------------------------------------------------
(* The chain and the saved scans *)

\* anchor_leaf: the spent outpoint with an id of the payload, as a number; the
\* numbers stand for the order of the leaves' hashes.
Leaf(anchor, id) == anchor * (Len(Attestations) + 1) + id

\* Nothing hashes to id 0.
Leaves == {Leaf(o, a) : o \in Anchors, a \in Ids}

Settle(o, ids) ==
    /\ Len(history) < MaxEvents /\ ids \in Payments[o]
    /\ \A i \in DOMAIN history : history[i].spends # o
    /\ history' = Append(history, [spends |-> o, leaves |-> {Leaf(o, a) : a \in ids}, slashed |-> {}])
    /\ UNCHANGED <<files, bundle, verdict>>

Slash(p) ==
    /\ Len(history) < MaxEvents
    /\ history' = Append(history, [spends |-> 0, leaves |-> {}, slashed |-> {p}])
    /\ UNCHANGED <<files, bundle, verdict>>

Scanned(from, to) ==
    [leaves |-> UNION {history[i].leaves : i \in from..to},
     slashed |-> UNION {history[i].slashed : i \in from..to}]

\* build_fixed_depth sorts and removes duplicates.
AnchoredTree(leaves) == Levels(Ascending(leaves), AnchorDepth)
AnchoredRoot(leaves) == Root(AnchoredTree(leaves), AnchorDepth)
DefaultsRoot(keys) == SparseRoot(keys, SmtDepth)

\* Deviation: the scan is said to end one event further on.
FileOfMore(from, to) ==
    LET found == Scanned(from, to)
    IN  [scanned |-> TRUE, intact |-> TRUE, from |-> from, to |-> to + 1,
         leaves |-> found.leaves, defaulted |-> found.slashed,
         anchoredRoot |-> AnchoredRoot(found.leaves),
         defaultsRoot |-> DefaultsRoot(found.slashed)]

\* from_scan: the lists and the roots they hash to.
FileOf(from, to) ==
    LET found == Scanned(from, to)
    IN  [scanned |-> TRUE, intact |-> TRUE, from |-> from, to |-> to,
         leaves |-> found.leaves, defaulted |-> found.slashed,
         anchoredRoot |-> AnchoredRoot(found.leaves),
         defaultsRoot |-> DefaultsRoot(found.slashed)]

\* krep roots: some stretch of what has happened, as long as the tree has room for
\* it.  Scans read the past, so it is no loss that they come when everything has
\* happened, one for each party.
Scan(w, from, to) ==
    /\ Len(history) = MaxEvents /\ ~files[w].scanned
    /\ from <= to
    /\ Cardinality(Scanned(from, to).leaves) <= 2^AnchorDepth
    /\ files' = [files EXCEPT ![w] = FileOf(from, to)]
    /\ UNCHANGED <<history, bundle, verdict>>

\* One entry of a file's lists is lost; the roots beside them stay.
Edit(w) ==
    /\ files[w].scanned /\ \A v \in Parties : files[v].scanned => files[v].intact
    /\ LET file == [files[w] EXCEPT !.intact = FALSE]
       IN  \/ \E leaf \in file.leaves : files' = [files EXCEPT ![w] = [file EXCEPT !.leaves = @ \ {leaf}]]
          \/ \E key \in file.defaulted : files' = [files EXCEPT ![w] = [file EXCEPT !.defaulted = @ \ {key}]]
    /\ UNCHANGED <<history, bundle, verdict>>

\* Deviation: the roots are not compared.
ReadableUnchecked(file) == Cardinality(file.leaves) <= 2^AnchorDepth

\* trees: the lists fit, and hash to the roots that were saved with them.
Readable(file) ==
    /\ Cardinality(file.leaves) <= 2^AnchorDepth
    /\ AnchoredRoot(file.leaves) = file.anchoredRoot
    /\ DefaultsRoot(file.defaulted) = file.defaultsRoot

----------------------------------------------------------------------------
(* The circuit *)

\* What the circuit makes of a body: its outpoint with the id it computes, which
\* is that of an attestation of the second version signed by both.
CircuitLeaf(a) ==
    LET att == Attestations[a]
    IN  Leaf(att.anchor, IF att.v2 /\ att.signed THEN a ELSE 0)

\* Deviation: half one does not look at whose the attestation is.
SlotHoldsForAnybody(root, key, slot) ==
    /\ Walk(HashLeaf(CircuitLeaf(slot.body)), slot.path, AnchorDepth, slot.index) = root
    /\ Attestations[slot.body].success

\* Half one, of a slot: the attestation is in the anchored set, belongs to the
\* pseudonym and is a success.
SlotHolds(root, key, slot) ==
    /\ Walk(HashLeaf(CircuitLeaf(slot.body)), slot.path, AnchorDepth, slot.index) = root
    /\ Attestations[slot.body].owner = key
    /\ Attestations[slot.body].success

\* Half two: the pseudonym's slot is empty.
AbsenceHolds(root, key, path) == Walk(Empty, path, SmtDepth, key) = root

\* main.
CircuitHolds(inputs, witness) ==
    /\ Len(witness.slots) >= inputs.min /\ Len(witness.slots) <= MaxSuccesses
    /\ \A i \in DOMAIN witness.slots : SlotHolds(inputs.anchored, witness.key, witness.slots[i])
    /\ AbsenceHolds(inputs.defaults, witness.key, witness.path)

----------------------------------------------------------------------------
(* krep prove *)

\* Chains that verify: an owner's attestations, or the first of them.
ChainOf(p) == Ascending({a \in Ids : Attestations[a].owner = p})
ChainsOf(p) == {SubSeq(ChainOf(p), 1, n) : n \in 0..Len(ChainOf(p))}

\* witness: what a slot can be filled with.
Usable(a, leaves) ==
    /\ Attestations[a].success /\ Attestations[a].v2 /\ Attestations[a].signed
    /\ Leaf(Attestations[a].anchor, a) \in leaves

\* witness: the entries that are, in the order of the chain, up to MAX_SUCCESSES.
Used(chain, leaves) ==
    LET places == Ascending({i \in DOMAIN chain : Usable(chain[i], leaves)})
        room == IF Len(places) > MaxSuccesses THEN MaxSuccesses ELSE Len(places)
    IN  [i \in 1..room |-> chain[places[i]]]

SlotFor(a, leaves) ==
    LET tree == AnchoredTree(leaves)
        index == IndexOf(tree, Leaf(Attestations[a].anchor, a))
    IN  [body |-> a, index |-> index, path |-> Siblings(tree, AnchorDepth, index)]

\* witness: what is handed to the circuit.
Witness(p, chain, file) ==
    LET used == Used(chain, file.leaves)
    IN  [key |-> p, slots |-> [i \in DOMAIN used |-> SlotFor(used[i], file.leaves)],
         path |-> SparseSiblings(file.defaulted, SmtDepth, p)]

\* witness: the claims it refuses to write down.
Refused(p, chain, file, min) ==
    \/ p \in file.defaulted
    \/ Len(Used(chain, file.leaves)) = 0
    \/ Len(Used(chain, file.leaves)) < min

InputsFrom(file, min) ==
    [anchored |-> AnchoredRoot(file.leaves), defaults |-> DefaultsRoot(file.defaulted), min |-> min]

Prove(p, chain, min) ==
    /\ files["prover"].scanned /\ ~bundle.sent
    /\ Readable(files["prover"])
    /\ ~Refused(p, chain, files["prover"], min)
    /\ LET inputs == InputsFrom(files["prover"], min)
       IN  /\ CircuitHolds(inputs, Witness(p, chain, files["prover"]))
           /\ bundle' = [sent |-> TRUE, min |-> min, proof |-> inputs,
                         by |-> "krep prove"]
    /\ UNCHANGED <<history, files, verdict>>

----------------------------------------------------------------------------
(* Any other prover *)

\* Paths of the prover's own trees, which may be tried on other leaves, at other
\* indices, and for other keys; with hashes that cannot be made to collide no
\* other path leads to the roots.
AnchoredPaths(leaves) ==
    LET tree == AnchoredTree(leaves)
    IN  {Siblings(tree, AnchorDepth, i - 1) : i \in DOMAIN tree[0]}
SparsePaths(keys) == {SparseSiblings(keys, SmtDepth, k) : k \in Keys}

\* What some path proves to be the key's anchored success.
Provable(leaves, key) ==
    LET root == AnchoredRoot(leaves)
        paths == AnchoredPaths(leaves)
    IN  {a \in Ids : \E index \in 0..(2^AnchorDepth - 1), path \in paths :
                        SlotHolds(root, key, [body |-> a, index |-> index, path |-> path])}

\* Bodies, paths and pseudonym are the prover's choice, and so is what the bundle
\* says beside the proof.
ProveByHand(key) ==
    /\ files["prover"].scanned /\ ~bundle.sent
    /\ \E path \in SparsePaths(files["prover"].defaulted) :
          AbsenceHolds(DefaultsRoot(files["prover"].defaulted), key, path)
    /\ \E bodies \in BoundedSeq(Provable(files["prover"].leaves, key), MaxSuccesses) :
          \E min \in 0..Len(bodies), said \in 0..MaxSuccesses :
             bundle' = [sent |-> TRUE, min |-> said, proof |-> InputsFrom(files["prover"], min),
                        by |-> "hand"]
    /\ UNCHANGED <<history, files, verdict>>

----------------------------------------------------------------------------
(* krep check-proof *)

\* Deviation: the public inputs are those the proof came with.
VerifiesAsSent(file, required) == bundle.min = bundle.proof.min

\* Deviation: the verifier's threshold goes into the public inputs.
VerifiesAsRequired(file, required) == InputsFrom(file, required) = bundle.proof

\* bb verify against the roots of one's own scan and the bundle's threshold.
Verifies(file, required) == InputsFrom(file, bundle.min) = bundle.proof

Accepts(file, required) ==
    /\ Readable(file)
    /\ bundle.min >= required
    /\ Verifies(file, required)

CheckProof(required) ==
    /\ bundle.sent /\ files["verifier"].scanned
    /\ verdict' = [given |-> TRUE, accepted |-> Accepts(files["verifier"], required), required |-> required]
    /\ UNCHANGED <<history, files, bundle>>

----------------------------------------------------------------------------

DisclosureInit ==
    /\ history = <<>>
    /\ files = [w \in Parties |-> NoScan]
    /\ bundle = NoBundle
    /\ verdict = NoVerdict

DisclosureNext ==
    \/ \E o \in Anchors : \E ids \in Payments[o] : Settle(o, ids)
    \/ \E p \in Pseudonyms : Slash(p)
    \/ \E w \in Parties, from, to \in 1..MaxEvents : Scan(w, from, to)
    \/ \E w \in Parties : Edit(w)
    \/ \E p \in Pseudonyms : \E chain \in ChainsOf(p), min \in 0..MaxSuccesses : Prove(p, chain, min)
    \/ \E key \in Keys : ProveByHand(key)
    \/ \E required \in 0..MaxSuccesses : CheckProof(required)

DisclosureSpec == DisclosureInit /\ [][DisclosureNext]_disclosureVars
----------------------------------------------------------------------------
(* Properties *)

\* Every variable keeps its type; a scan is of what has happened, and no
\* threshold exceeds the circuit's slots.
DisclosureTypeOK ==
    /\ Len(history) <= MaxEvents
    /\ \A i \in DOMAIN history : history[i].leaves \subseteq Leaves /\ history[i].slashed \subseteq Pseudonyms
    /\ \A w \in Parties : files[w].scanned =>
          /\ 1 <= files[w].from /\ files[w].from <= files[w].to /\ files[w].to <= Len(history)
          /\ files[w].leaves \subseteq Leaves /\ files[w].defaulted \subseteq Pseudonyms
    /\ bundle.sent =>
          /\ bundle.by \in {"krep prove", "hand"}
          /\ {bundle.min, bundle.proof.min} \subseteq 0..MaxSuccesses
    /\ verdict.given => bundle.sent /\ verdict.accepted \in BOOLEAN

\* What a party's scan found, whatever became of its file.
Found(w) == Scanned(files[w].from, files[w].to)

\* The anchored successes of a pseudonym in a stretch of the chain.
SuccessesOf(key, found) ==
    {a \in Ids : /\ Attestations[a].owner = key /\ Attestations[a].success
                 /\ Leaf(Attestations[a].anchor, a) \in found.leaves}

Accepted == verdict.given /\ verdict.accepted

\* The prover in Rust and the circuit in Noir agree: whatever witness() does not
\* refuse to write down satisfies every assertion, for any chain, threshold and
\* scan.
WitnessesExecute ==
    files["prover"].scanned /\ ~bundle.sent /\ ~files["verifier"].scanned =>
        LET file == files["prover"]
        IN  Readable(file) =>
                \A p \in Pseudonyms : \A chain \in ChainsOf(p), min \in 0..MaxSuccesses :
                    Refused(p, chain, file, min) \/
                        CircuitHolds(InputsFrom(file, min), Witness(p, chain, file))

\* An honest proof is not refused: made from a scan that found what the
\* verifier's did, even if over other blocks, it passes any threshold it claims.
HonestProofsPass ==
    verdict.given /\ bundle.by = "krep prove" /\ verdict.required <= bundle.min
        /\ Found("prover") = Found("verifier") /\ files["verifier"].intact
    => verdict.accepted

\* Whatever the prover scanned, invented or said, an accepted proof means that
\* some one pseudonym was not slashed in the stretch the verifier scanned, and
\* had a success of its own settled there if any was asked for.
AcceptedIsAnchoredAndClean ==
    Accepted =>
        \E key \in Keys \ Found("verifier").slashed :
            verdict.required = 0 \/ SuccessesOf(key, Found("verifier")) # {}

\* README.md:767-769 and main.nr:3-5: the pseudonym owns at least N anchored
\* attestations.
AcceptedHasThatMany ==
    Accepted =>
        \E key \in Keys \ Found("verifier").slashed :
            Cardinality(SuccessesOf(key, Found("verifier"))) >= verdict.required
=============================================================================
