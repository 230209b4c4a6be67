-------------------------- MODULE AttestationChain --------------------------
(***************************************************************************)
(* Attestations and the personal chains they are kept in                   *)
(* (krep-core/src/lib.rs, krep-core/src/chain.rs and the commands of       *)
(* krep-cli/src/main.rs that create, countersign, append and anchor them). *)
(*                                                                         *)
(* Two pseudonyms of a trade sign the same body; the hash of the signed    *)
(* body is committed in the payload of the transaction that spends the     *)
(* trade's outpoint; each keeps the attestations it owns in a chain linked *)
(* by prev and index.  An attestation nobody signs names a branch of the   *)
(* escrow instead, as its witness.  A relying party is handed a chain and  *)
(* verifies it against what the outpoints' spends commit.  Beside what the *)
(* commands write and send there is what anybody can write by hand.        *)
(*                                                                         *)
(* An id is a hash of the whole signed body, and signing is deterministic: *)
(* `signed` lists the distinct attestations in the order they came about   *)
(* and an id is a position in it.  Signatures, the version and the amount  *)
(* bucket are not told apart by any property; who must sign what is the    *)
(* guard of the action that signs.  The verifier's answers about the chain *)
(* are exact here; AnchorScan is about where they come from.               *)
(***************************************************************************)
EXTENDS Naturals, Sequences, FiniteSets

CONSTANTS
    Pseudonyms,     \* the public keys of the chains
    Trades,         \* the outpoints of the escrows
    Chosen,         \* the outcomes that are written into a body
    Maker,          \* the maker_rep each escrow's state records
    Named,          \* the pseudonyms that stand at some offset of that state: the
                    \* maker's, and whatever its maker wrote into the other fields
    MaxTs,          \* bound on timestamps
    MaxAtts,        \* bound on bodies and on attestations, as long as all is
                    \* agreed success at one time,
    VariedAtts      \* and otherwise

ASSUME PartiesAssumption ==
    /\ Maker \in [Trades -> Pseudonyms] /\ Named \in [Trades -> SUBSET Pseudonyms]
    /\ \A t \in Trades : Maker[t] \in Named[t]
    /\ Chosen \subseteq {"Success", "Default", "DisputedResolved"}
    /\ MaxTs \in Nat /\ MaxAtts \in Nat /\ VariedAtts \in 0..MaxAtts

VARIABLES
    partials,   \* bodies the owner has signed, sent to the counterparty
    signed,     \* every fully authorised attestation; an id is its position
    chains,     \* the chain file of each pseudonym, as ids
    spends      \* how each trade's outpoint was spent, and the ids committed

vars == <<partials, signed, chains, spends>>

Outcomes == {"Success", "Default", "DisputedResolved"}
NoId == 0
Ids == 1..Len(signed)
CoSigned == "CoSigned"                  \* the authorisation of two signatures
\* The endings, which a witness names one of.  A trade is the outpoint an ending
\* spends; what spends the escrow's earlier ones goes on with it.
Branches == {"Settle", "Resolve", "Slash"}
Unspent == [branch |-> "Unspent", ids |-> {}]

----------------------------------------------------------------------------
(* Bodies *)

Body(p, q, outcome, t, pos, ts) ==
    [owner |-> p, counterparty |-> q, outcome |-> outcome, anchor |-> t,
     prev |-> pos.prev, index |-> pos.index, ts |-> ts]

\* Deviation: the two parties are not compared.
ValidAlone(b) == b.index = 0 <=> b.prev = NoId

\* AttestationBody::validate_fields.
Valid(b) ==
    /\ b.owner # b.counterparty
    /\ b.index = 0 <=> b.prev = NoId

HeadOf(chain) == IF chain = <<>> THEN NoId ELSE chain[Len(chain)]

\* Where the next entry of p goes: at the head of p's chain when the command
\* is given the chain file, at the start when it is not.
Positions(p) ==
    { [prev |-> HeadOf(chains[p]), index |-> Len(chains[p])],
      [prev |-> NoId, index |-> 0] }

\* The same in somebody else's copy of the chain, which may be behind.
PositionsInCopies(p) ==
    { [prev |-> HeadOf(SubSeq(chains[p], 1, k)), index |-> k] : k \in 0..Len(chains[p]) }

\* The same settlement seen from the other chain, keeping the timestamp.
Mirror(b, pos) == Body(b.counterparty, b.owner, b.outcome, b.anchor, pos, b.ts)

----------------------------------------------------------------------------
(* Verification *)

\* Attestation::verify: what can be checked without a node.  Of a witness nothing
\* is looked at but that it is not used for a success.
Authorised(att) == Valid(att.body) /\ (att.auth # CoSigned => att.body.outcome # "Success")

\* Deviation: entries are numbered and not linked.
LinksByIndex(p, s, id) ==
    /\ signed[id].body.owner = p
    /\ signed[id].body.index = Len(s)
    /\ Authorised(signed[id])

\* What Chain::append asks of an attestation before pushing it on s.
Links(p, s, id) ==
    /\ signed[id].body.owner = p
    /\ signed[id].body.index = Len(s)
    /\ signed[id].body.prev = HeadOf(s)
    /\ Authorised(signed[id])

\* Deviation: the order of the entries is checked, their links are not.
VerifyByIndexOrder(p, s) ==
    \A i \in 1..Len(s) :
        /\ signed[s[i]].body.owner = p
        /\ i > 1 => signed[s[i]].body.index > signed[s[i - 1]].body.index

\* Chain::verify.
Verify(p, s) ==
    \A i \in 1..Len(s) :
        /\ Links(p, SubSeq(s, 1, i - 1), s[i])
        /\ i > 1 => signed[s[i]].body.ts >= signed[s[i - 1]].body.ts

\* Deviation: the id is looked for in any settlement.
AnchoredAnywhere(id) == \E t \in Trades : id \in spends[t].ids

\* The payload of the transaction that spent the anchor commits the id.
IsAnchored(id) == id \in spends[signed[id].body.anchor].ids

\* check_covenant: the spend took the branch the witness names, whichever it is,
\* in an escrow whose state has the owner at the offset the witness points at.
CovenantWitnessed(id) ==
    /\ spends[signed[id].body.anchor].branch = signed[id].auth
    /\ signed[id].body.owner \in Named[signed[id].body.anchor]

\* Chain::verify_anchored.
VerifyAnchored(p, s) ==
    /\ Verify(p, s)
    /\ \A i \in 1..Len(s) :
           /\ IsAnchored(s[i])
           /\ signed[s[i]].auth # CoSigned => CovenantWitnessed(s[i])

\* verify_chain: what `krep verify` and `krep score` label a chain with.
Label(p, s, offline) ==
    IF offline THEN IF Verify(p, s) THEN "UNVERIFIED_OFFLINE" ELSE "error"
    ELSE IF VerifyAnchored(p, s) THEN "verified" ELSE "error"

\* Explorer::verdict: the stage a pasted chain fails at.
Verdict(p, s) ==
    IF ~Verify(p, s) THEN "structure" ELSE IF ~VerifyAnchored(p, s) THEN "anchor" ELSE "ok"

----------------------------------------------------------------------------
(* Operations *)

\* The bounds of the model: of unsigned attestations and of bodies dated later than
\* the rest there is one in all.
WithinBounds(bodies, log) ==
    LET Witnessed == {i \in 1..Len(log) : log[i].auth # CoSigned}
        Later == {b \in bodies : b.ts > 0}
        Varied == Witnessed # {} \/ \E b \in bodies : b.outcome # "Success" \/ b.ts > 0
        Most == IF Varied THEN VariedAtts ELSE MaxAtts
    IN  /\ Len(log) <= MaxAtts
        /\ Cardinality(bodies) + Cardinality(Witnessed) <= Most
        /\ Cardinality(Later) + Cardinality(Witnessed) <= 1

\* The attestations after att has come about, and the id it has.
Publish(att) ==
    IF \E i \in Ids : signed[i] = att THEN signed ELSE Append(signed, att)

IdIn(log, att) == CHOOSE i \in 1..Len(log) : log[i] = att

\* `krep create`, and `escrow attest` for the parties of an escrow: the owner
\* signs first.  --ts takes any time, one to come included.
Create(p, q, t, outcome) ==
    \E pos \in Positions(p), ts \in 0..MaxTs :
        LET b == Body(p, q, outcome, t, pos, ts) IN
        /\ Valid(b)
        /\ partials' = partials \cup {b}
        /\ WithinBounds(partials', signed)
        /\ UNCHANGED <<signed, chains, spends>>

\* countersign: the owner's signature is joined by the counterparty's.
Completed(b) == [body |-> b, auth |-> CoSigned]

\* `krep countersign`: the counterparty completes the attestation and may sign
\* the mirror for its own chain.  A default has no mirror: the command prints
\* the attestation and then fails.
Countersign(b, mirrored) ==
    /\ b \in partials
    /\ Authorised(Completed(b))
    /\ signed' = Publish(Completed(b))
    /\ \/ /\ ~mirrored \/ b.outcome = "Default"
          /\ UNCHANGED partials
       \/ /\ mirrored /\ b.outcome # "Default"
          /\ \E pos \in Positions(b.counterparty) :
                partials' = partials \cup {Mirror(b, pos)}
    /\ WithinBounds(partials', signed')
    /\ UNCHANGED <<chains, spends>>

\* Written by hand, about anybody, of any time and with any ending as its witness:
\* there is nothing to sign.  Only the places it may verify at are of interest.
WriteWitnessed(p, q, t, outcome, branch) ==
    \E pos \in PositionsInCopies(p), ts \in 0..MaxTs :
        LET att == [body |-> Body(p, q, outcome, t, pos, ts), auth |-> branch] IN
        /\ Authorised(att)
        /\ signed' = Publish(att)
        /\ WithinBounds(partials, signed')
        /\ UNCHANGED <<partials, chains, spends>>

\* `krep append`.
AppendTo(p, id) ==
    /\ id \in Ids
    /\ Links(p, chains[p], id)
    /\ chains' = [chains EXCEPT ![p] = Append(@, id)]
    /\ UNCHANGED <<partials, signed, spends>>

\* `escrow settle`: every id is an attestation of this outpoint.
Settle(t, ids) ==
    /\ spends[t] = Unspent
    /\ \A id \in ids : signed[id].body.anchor = t
    /\ spends' = [spends EXCEPT ![t] = [branch |-> "Settle", ids |-> ids]]
    /\ UNCHANGED <<partials, signed, chains>>

\* `escrow resolve`: the ids are given as bytes, whatever they are of.
Resolve(t, ids) ==
    /\ spends[t] = Unspent
    /\ spends' = [spends EXCEPT ![t] = [branch |-> "Resolve", ids |-> ids]]
    /\ UNCHANGED <<partials, signed, chains>>

\* An ending built by hand, by whom the branch asks for: of its payload the
\* covenant looks at the length.
EndByHand(t, branch, ids) ==
    /\ spends[t] = Unspent
    /\ spends' = [spends EXCEPT ![t] = [branch |-> branch, ids |-> ids]]
    /\ UNCHANGED <<partials, signed, chains>>

\* default_attestation: nobody signs it, the slash stands for the signatures.
DefaultAttestation(t, q, pos, ts) ==
    [body |-> Body(Maker[t], q, "Default", t, pos, ts), auth |-> "Slash"]

\* `escrow slash` by the buyer q: the default is built without the maker,
\* stamped by the buyer's clock and, unless the command is only a dry run, anchored
\* by the slash.
Slash(t, q, submit) ==
    \E pos \in PositionsInCopies(Maker[t]), ts \in 0..MaxTs :
        LET att == DefaultAttestation(t, q, pos, ts) IN
        /\ spends[t] = Unspent
        /\ Authorised(att)
        /\ signed' = Publish(att)
        /\ WithinBounds(partials, signed')
        /\ spends' = IF submit
                     THEN [spends EXCEPT ![t] =
                              [branch |-> "Slash", ids |-> {IdIn(signed', att)}]]
                     ELSE spends
        /\ UNCHANGED <<partials, chains>>

\* The payload of an ending has room for two ids.
Payloads == {ids \in SUBSET Ids : Cardinality(ids) \in 1..2}

Init ==
    /\ partials = {}
    /\ signed = <<>>
    /\ chains = [p \in Pseudonyms |-> <<>>]
    /\ spends = [t \in Trades |-> Unspent]

Next ==
    \/ \E p, q \in Pseudonyms, t \in Trades, outcome \in Chosen :
           Create(p, q, t, outcome)
    \/ \E b \in partials, mirrored \in BOOLEAN : Countersign(b, mirrored)
    \/ \E p \in Pseudonyms, id \in Ids : AppendTo(p, id)
    \/ \E t \in Trades, ids \in Payloads : Settle(t, ids) \/ Resolve(t, ids)
    \/ \E p \in Pseudonyms, t \in Trades, branch \in Branches :
           \E q \in Pseudonyms \ {p}, outcome \in Chosen \ {"Success"} :
               WriteWitnessed(p, q, t, outcome, branch)
    \/ \E t \in Trades, branch \in Branches, ids \in Payloads : EndByHand(t, branch, ids)
    \/ \E t \in Trades, q \in Pseudonyms, submit \in BOOLEAN : Slash(t, q, submit)

Spec == Init /\ [][Next]_vars

----------------------------------------------------------------------------
(* Properties *)

\* Every value has its type: a body is between two parties, an index is below the
\* number of attestations there can be, and every id in a body, a chain or a
\* payload is one that exists.
Bodies == [owner : Pseudonyms, counterparty : Pseudonyms, outcome : Outcomes,
           anchor : Trades, prev : 0..Len(signed), index : 0..MaxAtts, ts : 0..MaxTs]

TypeOK ==
    /\ \A b \in partials : b \in Bodies /\ b.owner # b.counterparty
    /\ \A i \in Ids :
           /\ signed[i].body \in Bodies /\ signed[i].body.owner # signed[i].body.counterparty
           /\ signed[i].auth \in Branches \cup {CoSigned}
    /\ chains \in [Pseudonyms -> Seq(Ids)]
    /\ spends \in [Trades -> [branch : Branches \cup {"Unspent"}, ids : SUBSET Ids]]

\* The sequences of attestations of p somebody could present as p's chain; one
\* with an attestation of another owner fails at that entry.
Presentable(p) ==
    LET own == {id \in Ids : signed[id].body.owner = p}
    IN  UNION {[1..n -> own] : n \in 0..Cardinality(own)}

\* A head determines the chain below it: of all that somebody could present, no two
\* chains of one owner that verify end in the same entry.  Whoever has seen the
\* head of a chain can be shown no other history for it (Chain::head and the links
\* Chain::verify checks), though two attestations made at one place let the chain
\* go on from either.
HeadDeterminesChain ==
    \A p \in Pseudonyms :
        LET Verified == {s \in Presentable(p) : s # <<>> /\ Verify(p, s)}
        IN  \A s, r \in Verified : HeadOf(s) = HeadOf(r) => s = r

\* Leaving an entry out shows, unless all later ones are left out with it: of
\* all the selections and orders of a chain's entries only its prefixes verify,
\* and all of them do when the chain does; no node is needed to tell
\* (tests omitting_a_middle_attestation_breaks_the_chain and
\* omitting_the_tail_and_renumbering_still_fails_on_prev).
OnlyPrefixesVerify ==
    \A p \in Pseudonyms :
        LET chain == chains[p]
            Selections == UNION {[1..n -> {chain[i] : i \in 1..Len(chain)}] : n \in 0..Len(chain)}
            Prefixes == {SubSeq(chain, 1, k) : k \in 0..Len(chain)}
        IN  /\ \A s \in Selections : Label(p, s, TRUE) # "error" \/ Verdict(p, s) # "structure" =>
                   s \in Prefixes
            /\ Verify(p, chain) => \A s \in Prefixes : Verify(p, s)

\* The entries of s that are about trade t.
About(s, t) == {i \in 1..Len(s) : signed[s[i]].body.anchor = t}

\* What a chain that a score is labelled as verified with can say of a trade,
\* whatever is written and sent by hand: nothing until its escrow has ended; no
\* more than two things, as the ending had room for; and without the signatures
\* of the two parties only what is not a success, in the name of the very branch
\* the escrow ended by and of somebody its state names.
EntryMatchesSpend ==
    \A p \in Pseudonyms : \A s \in Presentable(p) :
        Label(p, s, FALSE) = "verified" =>
            \A t \in Trades : About(s, t) # {} =>
                /\ spends[t].branch # "Unspent"
                /\ Cardinality(About(s, t)) <= 2
                /\ \A i \in About(s, t) :
                       signed[s[i]].auth # CoSigned =>
                           /\ signed[s[i]].body.outcome # "Success"
                           /\ signed[s[i]].auth = spends[t].branch
                           /\ p \in Named[t]
=============================================================================
