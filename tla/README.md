# kRep in TLA+

Models, model checks and proofs of kRep: portable reputation for pseudonyms on
Kaspa, with the FabMesh escrow covenant that produces it. Paths are those of the
repository.

- [The system](#the-system): components, state, interactions, what is hard
- [The models](#the-models): which module stands for which code
- [The runs](#the-runs): what is checked, the bounds, what each run shows
- [The proofs](#the-proofs)
- [Where the code and its documentation disagree](#where-the-code-and-its-documentation-disagree)
- [What is not modelled](#what-is-not-modelled), [Plan](#plan)

To check a module: `tlc -config MCAnchorScan.cfg MCAnchorScan`. To check the
proofs: `tlapm` on each module whose name ends in `Proofs`. `PROJECT.json` lists components, runs,
the source lines of every definition, hazards, findings and theorems.

## The system

| component | code | state it keeps | operations | what makes it correct |
|---|---|---|---|---|
| escrow covenant | `krep-escrow/src/{script,state,lib}.rs` | one output on the chain: value, and a state in the creating transaction's payload | claim, ship, settle, auto-release, dispute, two rulings, slash, refund | the right party is paid, all of it, for the right reason; no one is stuck; defaults land on the claimant |
| escrow client | `krep-cli/src/escrow.rs`, `main.rs` (run_escrow, finish), `krep-escrow/src/tx.rs` | a JSON file per party; coins of its wallet | one command per branch, attest, hand the file over | what it builds is accepted; the file does not lose the money's trail; attestations are anchored where they say |
| attestations, chains | `krep-core/src/{lib,chain}.rs`, `main.rs` | partial and full attestations, one chain file per pseudonym | create, countersign (and mirror), append, verify, score | a verified chain tells what happened, and omissions show |
| anchor verifier | `krep-core/src/kaspad.rs` | a cache of resolved transactions | is_anchored, covenant_witnessed, prefetch | yes is final, no is a fact, and anything else is an error |
| accumulator | `krep-cli/src/{roots,prove,market}.rs`, `krep-zk/src/scan.rs` | saved scan: leaves, defaulted pseudonyms, escrows, where it stopped | rebuild, update, verify against it | any two scans of the same chain agree; no default is forgotten |
| hash trees, proof | `krep-zk/src/{merkle,smt}.rs`, `circuit/`, `krep-cli/src/prove.rs` | none | prove, check-proof | what is accepted is true of one pseudonym, in the stretch the verifier scanned |
| job board | `krep-board/src`, `krep-cli/src/board.rs` | events on relays nobody controls | post, list, claim, accept, offer, private messages | nothing forged, nothing for another job, nothing older than what an honest relay answered; a message is its author's |
| market, explorer | `krep-cli/src/{market,explore}.rs` | a saved scan in memory | assess, rank, verdict | nothing unverified is shown as verified |
| anchoring | `krep-cli/src/anchor.rs`, `send` of `escrow.rs` | signed transactions in files; the wallet's coins are the node's | list coins, build, send now or later, transfer | the fee suffices and no more; what can pay is not refused; no coin is taken without need |
| node | external (kaspad) | the block DAG, the UTXO set, the mempool | submit, virtual chain, blocks | modelled from use |

**How they interact.** The client builds transactions that the covenant accepts or
refuses; both parties act from files of their own, which the chain does not
update. A settlement's payload commits the ids of two attestations whose
`anchor` is the output the settlement spends; a slash commits the default of the
maker the escrow's state names. Verifying a chain asks the anchor verifier about
every entry, and the verifier asks a node, over several calls, between which the
node moves. The accumulator derives the same facts for everybody at once, and
the selective-disclosure proof and the market rely on it instead of a node.

**What is hard.** Two parties and an arbiter race for one output with stale files
(claim against refund, ship against slash, dispute against auto-release); a
process may die between submitting and saving; unconfirmed transactions are
chained and may be dropped; lock times and delays have boundaries; everything a
scan reads changes while it reads; budgets end scans early; forks undo what was
cached or saved; relays lose, replay and crowd out events; prover and verifier hold
scans of different stretches; attestations travel between the parties as files and may be
created, mirrored and appended in orders nobody tested; several commands share the coins of
one wallet and nothing reserves them; a fee depends on a mass that depends on the fee. `PROJECT.json` has each
of these under `hazards`, at its line, with the properties that cover it.

## The models

| module | stands for | state | actions |
|---|---|---|---|
| `EscrowCovenant` | the covenant script | clock, covenant output, payout, history of branches | one per branch, and the clock |
| `EscrowPromise` | what an escrow promises, abstractly | the job's stage and who was paid | advance, pay |
| `EscrowClient` | the commands of buyer, maker and arbiter, with files, mempool and node, over `EscrowCovenant` | files, running commands, submitted and accepted transactions, attestations | one per command, save, crash, hand over, accept, evict |
| `AttestationChain` | attestations, chain files and verification | partials, attestations, chains, spends | create, countersign, append, settle, resolve, slash, write a witness by hand, end by hand |
| `KaspaNode` | the node's interface | block tree, tip, pruning point | mine, prune |
| `AnchorScan` | the live verifier over `KaspaNode` | the query under way, cache, last verdict | ask, and one action per RPC or verdict |
| `Accumulator` | `krep roots` and the saved scan over `KaspaNode` | the scan under way, the file | rebuild, update, a batch, a page |
| `Market` | what a listing says of an offer's chain under a saved scan, over `Accumulator` | none | functions |
| `JobBoard` | events, private messages, relays and the commands that read them | signed events, what honest relays hold, the question under way | sign, take, ask, one reply, conclude |
| `HashTrees` | the two trees, their paths, the walk up a path | none | functions |
| `Disclosure` | `krep prove`, the circuit, `krep check-proof`, over `HashTrees` | the chain, two saved scans, a bundle, the verdict | settle, slash, scan, damage, prove, prove by hand, check |
| `AnchorFee` | masses and `solve_fee` | none | functions |
| `AnchorWallet` | a wallet that builds, keeps and sends anchors and transfers, over `AnchorFee` | clock, signed transactions, mempool, accepted ones | anchor, send, submit, accept, evict, the clock |

`MC*` modules give TLC the constants. Definitions marked "Deviation" are wrong
forms of the definition after them, kept to show that a property fails when the
code goes wrong that way; no specification uses them.

**EscrowCovenant.** An action is an accepted transaction. What a branch pins is a
value, what it leaves free is quantified over: the ship branch does not look at
`maker_rep`, so the model's `Ship` takes any pseudonym. A deadline asks for a lock time that
is over when the transaction is accepted (`FinalLockTimes`), because `OpCheckLockTimeVerify`
refuses inputs of maximal sequence; the ship branch runs no such opcode, so whoever builds the
shipment may have the rule waived and name any score as `shipped_at` (`WaivableLockTimes`).
`OpCheckLockTimeVerify` and `OpCheckSequenceVerify` compare as the script engine
does. Assumed: one covenant output per transaction, created by `open` with the
reward as its value; amounts far below 2^63, so the script's signed arithmetic
does not wrap; secrets are not shared.

**EscrowClient** composes the covenant: an `Accept` of a transaction is the
covenant's step. Transactions are numbered in the order they are submitted, a
file is the number of the transaction whose output it describes, and each
command is two steps, submit and save, between which its process may die. A fee
coin is the wallet's own or the change the file records.

**AttestationChain.** Attestations are content-addressed, so an id is a position in
the list of those that exist. `Verify` and `VerifyAnchored` are translated from
`Chain::verify` and `verify_anchored`, and properties quantify over every sequence
of attestations somebody could present, not only over the files. `Links` is what
append asks; verify adds the timestamps. `Label` and `Verdict` are what `krep verify`,
`krep score` and the explorer make of the two. Beside the commands there is what anybody can
do without them: `WriteWitnessed` is an unsigned attestation about anybody, of any time, that names
any ending as its witness, and `EndByHand` an ending by any branch that commits any ids, of
which the covenant only counts the bytes. `Named` are the pseudonyms found at some offset
of an escrow's state, the maker's and whatever else was written there: the witness
chooses the offset. Times are whatever `--ts` or the clock says, and nothing compares them with a
clock. A trade is the outpoint an ending spends; claims and shipments, whose payloads
are states, are not endings.

**AnchorScan and Accumulator** take one step per RPC. The node answers from its
state at that moment; blocks form a tree by selected parent, and forks are
blocks off the virtual chain. Both modules extend `KaspaNode`. Two facts about rusty-kaspa are assumed and not
visible in `src/`: the chain after a block excludes that block, and a block that
left the chain is answered from the last common one.

**Market.** An offer carries a chain, which the page checks against the saved scan of
`Accumulator`: `Assess` is what it shows, for every chain a maker could put there
(`Chains`) out of what its escrows did (`Earned`) and of entries that never were
(`Invented`). `VerifyAnchored` asks the scan about the entries shown and about nothing
else, as the code does.

**JobBoard.** An event is its own id, so a relay can hand out only what was signed;
an honest relay answers with its newest matching events up to its limit, or with a
part of them when the timeout cuts it short; any other relay answers with any signed
events. `read.due` records what an honest relay held when the question began and
answered in full: the least a reader is owed. A private message is a wrap with a seal in
it: encryption is the pair of keys that can derive the conversation key
(`ConversationKey`), a seal may attribute its message to anybody, and a wrap's time is any
time in the past. A wrap sent twice at one time is one event here.

**AnchorWallet.** A coin is an output of a transaction signed earlier, or of the wallet's
past. Transactions outlive the moment they were built in: they may be sent at any later
time, more than once, and the node takes them when their coins are unspent in its view and
its mempool. Amounts are in thousands of sompi and fees are whole multiples of the mass, so
that KIP-9's parameter keeps its value (`StorageParameter`) and fits TLC's integers; only
the rounding of a fee to a whole sompi is lost. The calls of one build are one step: the
node may move between them, but a plan from coins that are gone is a transaction the node
refuses, as it is here when they go before `Submit`. Selection follows the code: the coin
that was asked for, then the largest, until they pay for themselves.

**Disclosure.** Anything that happens on the chain is a leaf in the anchored tree or
a key in the sparse one. A saved scan is a stretch of that history. The circuit's
assertions are the operators `SlotHolds`, `AbsenceHolds` and `CircuitHolds`; a proof
is its public inputs, and exists when `CircuitHolds` of some private ones. `Prove` is
what `witness` writes; `ProveByHand` is any choice of bodies and paths. The numbers
of leaves stand for the order of their hashes.

## The runs

Passing runs:

| run | question | bounds |
|---|---|---|
| `MCEscrowArbitrated` | who is paid, how much, why and when; the covenant implements `EscrowPromise`; an escrow always ends, if an arbiter asked for a ruling rules | deadline 3, delay 2, clock 6, two pseudonyms, one key nobody holds |
| `MCEscrowClient` | the covenant accepts what the client builds; settlements anchor their attestations; the trail of the money is not lost while nothing dies; undisturbed, the commands get the buyer out of an unclaimed job, and out of an unshipped one once his file has the claim | five transactions, one crash or eviction, deadline 2, clock 3 |
| `MCAttestationChain` | a head determines the chain below it; only prefixes verify; what a verified chain can say of a trade, hand-made witnesses and endings included | two pseudonyms, two trades, success and default; three bodies and attestations of agreed success at one time, else two (`VariedAtts`), of which one unsigned or later |
| `MCAnchorScan` | a yes stands, a buried settlement is not denied, an unknown escrow is not a no | six blocks, forks up to the confirmation floor, pruning |
| `MCAccumulator` | any sequence of scans and updates equals one scan; what the market concludes from the file is true of the chain, and so is every record a listing shows as verified | five blocks, budget of two batches, room for three of four leaves, pruning |
| `MCJobBoard` | lists, verified postings, awards and claims are signed, for what was asked, and no older than what an honest relay answered; an inbox shows letters under their authors' names, and all of them | two pseudonyms, one honest relay and one other, two events of any kinds, replies of one event, two times |
| `MCDisclosure` | what `witness` writes the circuit accepts; honest proofs pass; an accepted proof is about one clean pseudonym with a success of its own | three events on the chain, any two stretches of it, one damaged file, five attestations, trees of four slots, two slots in the circuit; a stretch with five leaves overflows the tree |
| `MCAnchorWallet` | anchors pay for exactly what they weigh; what is refused cannot be paid for; a coin that was not asked for is taken only if needed; no money is lost or made | a young coinbase and three small coins, two rates, one transfer, three transactions, three inputs, clock 3 |

Why the bounds are enough: the clock passes the deadline and the delay with a
score before and after each; five client transactions are a whole path through
the longest unarbitrated escrow, and a race needs two; an omission from the
middle of a chain, a repair of it and a third id for one trade need three entries, a fork two,
and what an unsigned entry passes for does not depend on a second one; six blocks are an escrow, a
settlement, a fork over either and the floor above; two batches are fewer than
the chain, so every scan is resumed; each property of the board relates two events, and
a limit of one makes them compete; of the wallet's coins one pays alone at one rate and not
at the other, the small ones pay in pairs at one rate and only all together at the other,
and three transactions leave room to build on the change of one while another waits; in
four slots there are odd and empty places at each level.

`CHECK_DEADLOCK FALSE` is set where everybody may really stop: in the client,
whose parties may leave an escrow alone and whose clock ends, and in
`AttestationChain`, `AnchorWallet` and `Disclosure`, whose bounds stop them.

**Fairness.** Safety runs have none. `EventuallySettled` assumes that time passes
and that whoever a branch would pay takes it (with an arbiter, that the arbiter
rules on a dispute): the covenant cannot make anybody act, and the code's claim is
that one's own action suffices. An arbiter who stays silent strands a DISPUTED
escrow for ever: no branch but the two rulings leaves it. `UnshippedComesToAnEnd`
assumes that time passes, the node accepts what it can, and the buyer finishes his commands
and uses refund and slash (`BuyerDiligence`). It assumes nothing of the maker, who may
claim and vanish; that is why its second half begins where the buyer's file has the claim
(`BuyerHasTheClaim`). It is claimed of behaviours without outages in which the wallets pay
for nothing else (`Undisturbed`). The run that finds no way out of a shipped escrow,
`MCEscrowClientRelease`, has a maker who finishes commands and hands files over as well
(`DedicatedSpec`), so that the counterexample owes nothing to a lazy one.

Each property of a passing run has a deviation of the code that breaks it
(`mutants` in `PROJECT.json`).

## The proofs

Theorems hold for every value of the constants that satisfies the assumptions of the
modules, which TLC evaluates on every run. Those assumptions say what kind of thing a constant
is and, beyond that, that an escrow's maker is not its buyer, that each party holds its own key
and nobody the zero key (`ClientAssumption`), that a
slash spends an escrow (`AccumulatorAssumption`) and records its maker (`MarketAssumption`),
that a node prunes nothing a fork could still reach (`NodeAssumption`), that the wallet has
finitely many coins (`WalletAssumption`), that the trees have a level and the circuit a slot,
that settlements commit ids there are and pseudonyms fit the sparse tree
(`DisclosureAssumption`), and that what is not a message or a chain is told
from one (`GarbageAssumption`, `NoChainAssumption`). What a theorem assumes besides is a
hypothesis of the theorem, named below.

| module | theorem | states | hypothesis |
|---|---|---|---|
| `EscrowCovenantProofs` | `TypeCorrect`, `HistoryFollowsPhase`, `ValueIsAccounted`, `MakerIsPaidForShipping`, `BuyerIsPaidOnDefault`, `DisputeWindowIsFull`, `DefaultLandsOnClaimant` | the invariants of `MCEscrowArbitrated` | |
| | `CovenantImplementsPromise` | the refinement of `EscrowPromise` | |
| `EscrowClientProofs` | `ClientTypeCorrect`, `SettlementsAnchorTheirs`, `TrailIsKept` | `ClientTypeOK`, `SettlementAnchorsItsAttestations`, `CurrentStateIsKnown` | |
| | `WhatIsBuiltAlwaysFits`, `WhatFitsIsAccepted` | what `CovenantAcceptsWhatIsBuilt` comes to without ENABLED | |
| `AttestationChainProofs` | `ChainsTypeCorrect`, `HeadsDetermineChains`, `OmissionsShow`, `VerifiedEntriesHappened` | the invariants of `MCAttestationChain` | |
| `JobBoardProofs` | `BoardTypeCorrect`, `ListsAreAlwaysRegular`, `VerifiedPostingsStand`, `AwardsAreTheBuyersLast`, `ClaimsAreAlwaysComplete`, `InboxIsAlwaysAuthentic` | the invariants of `MCJobBoard` | |
| `AnchorScanProofs` | `ScanTypeCorrect` | `TypeOK` | |
| | `AffirmationsStand`, `DenialsNeedTheEscrow` | `AffirmedStands`, `DenialNeedsItsEscrow` | `FloorCovers` |
| | `BuriedStands` | `BuriedIsNotDenied` | `FloorCovers`, `Ample` |
| `SavedScanProofs` | `AccumulatorTypeCorrect`, `UpdatesAddUp`, `VerdictsFollowChain`, `RecordsShownAreTrue` | the invariants of `MCAccumulator` | `NoForks` |
| | `DisclosureTypeCorrect`, `WitnessesAlwaysExecute`, `HonestProofsAlwaysPass`, `AcceptedIsAlwaysAnchoredAndClean` | the invariants of `MCDisclosure` | |
| | `MembershipPathsLead`, `MembershipPathsAreSound`, `AbsencePathsLead`, `AbsencePathsAreSound` | what a path to the root of either tree shows, at any depth | |
| `AnchorWalletProofs` | `MoneyIsKept`, `AnchorsPayExactly` | `TypeOK`, `AnchorsPayTheirWay` | |
| | `SolvedFeePays`, `SolvedFeeIsLeast`, `FirstPassSettles` | what `solve_fee` returns, and when | |
| | `RefusedIsAlwaysHopeless`, `LastTopUpsAreAlwaysNeeded` | what is refused and what is topped up, one selection at a time | |

`KaspaNodeProofs` has the lemmas about the block tree that the two modules over it share.

**EscrowCovenantProofs.** None of the safety invariants is inductive: they speak of the final
payout, and what makes a payout right happened steps before. `Inductive` adds what each phase
implies about the history (who signed the claim, when the shipment was accepted,
that no terminal branch has run) and about the value held, and that a payout is
the mark of the one terminal entry. It is proved branch by branch: branches that
continue the covenant go through `ContinueInductive`, those that leave it through
`LeaveInductive`; `SignerIsNamedKey`, `DeadlineIsStrict` and `ReleaseIsDelayed` are
the facts about the opcodes. Each invariant then follows from `Inductive` alone.
The refinement needs `Inductive` at each step, to know the stage an action starts
from. `PhaseHistory`, the sequence of branches that leads to each phase, is a conjunct.

**EscrowClientProofs.** `CurrentStateIsKnown` says that somebody's file leads on from where
the money is. Acceptance moves the money, so this must be known of a transaction before it is
accepted. `Trail` therefore says it of every transaction that may still be accepted
(`Viable`: nothing accepted has taken the place of one that it rests on), and says who knows
it: the party that submitted it. A file handed over replaces another only if the other does not
rest on it, and what such a replacement forgets must be beyond acceptance, which is
`Comparable`: accepted transactions are one line, and what is viable extends it. `Ancestry` is recursive in
the transactions; that there is one such function and what it is like (`OneLineage`, `Lines`) are
parts of the invariant, kept by each step that adds a transaction, so that no induction over
data is needed.

That the covenant accepts what the commands build is proved in two halves. `Matched` says that the
covenant's output has the payload of the one accepted transaction that nothing accepted spends, and
that every transaction known was composed, by the command of its branch, from the payload of the one it
spends. So what waits and has its inputs fits the escrow as it is (`WhatIsBuiltAlwaysFits`), however long
it waited. And what fits is accepted (`WhatFitsIsAccepted`): the proof names the signers, gives the
next state of every variable (`Accepting`) and shows that it is a step of the covenant's branch.

**AttestationChainProofs.** The invariant is the type of the log, the linking of appended chains
(`AppendedChainsLink`) and what each spend committed: nothing before, then at most two ids. An entry
carries its index and a chain starts at 0 without gaps, so
in any selection that verifies the i-th entry is the i-th of the chain: only prefixes verify. Two
chains that verify and end alike are equally long, and are compared from the end down to
the last place where they could differ (`OneChainPerHead`). The entries of a verified
chain have different ids, so those about one trade are no more than its ending had room for;
nothing more is known of an unsigned one than that its witness names that ending.

**JobBoardProofs.** What an honest relay held and answered in full (`read.due`) was received, or
crowded out by as many others of the same question as fit a reply and none of them older.
That is the promise every answer is derived from (`Promises`, `FullRepliesMissLittle`); it is inductive
because what crowds out an event is still there when more is signed (`CrowdsGrow`).

**KaspaNodeProofs, AnchorScanProofs, and SavedScanProofs on the accumulator.** `Past` is recursive in the
blocks. Facts about it are proved by the least block without the property, from the
well-foundedness of inclusion. What both users need: a block deeper than forks go stays on the
chain, and a page or a batch gets ahead unless there is nothing ahead.

- `FloorCovers`: no fork is deeper than the confirmation floor. Without it no answer from a
  reorganising chain stands, and the code does not claim one does.
- `Ample`: pages are longer than forks, the batch budget is enough for every block, the block budget
  for every page, and escrow and settlement are in different mergesets. The verifier
  stops early otherwise, which by design is an error, but for the divergences of `kaspad.rs:391` and
  `kaspad.rs:394` noted below, where it is a no. The constants of `MCAnchorScan` satisfy both.
- `NoForks`: `roots.rs:108` resumes on a block that may have been reorganised away and keeps
  its leaves; where there are forks the theorem is false. Pruning, budgets that run out, a full
  tree and updates from anywhere are covered.

The accumulator's invariant says that a pass has found exactly what its window of
the chain holds, and the file what all windows so far do; a slash is never in an earlier
block than its escrow, so a file that reaches back to the escrow has its slash if the chain
does. `RecordsShownAreTrue` follows for every chain a maker could put in an offer.

**SavedScanProofs on the trees.** `build_fixed_depth`, `subtree`, `empties` and the walk up a
path are functions recursive in the height. That such a function exists at all, and has at each
height the value its equation says, is proved for each of them (`EmptiesExist`, `LevelsExist`,
`WalksExist`, `SubtreesExist`) by the functions that satisfy the equation up to some height.
The soundness theorems go down from the root (`DownInduction`): hashing is injective
(`HashesDiffer`), so a walk that ends in the root has, at each height, the
node of the tree above its index. At the bottom this is a leaf, which the walk started from, or an
empty slot, which is no leaf's hash. The completeness theorems go up from the leaf: the
siblings that `prove` takes, the empty ones beyond the occupied part included, hash to the next
node (`LevelsAreTree`, `SubtreesAreTree`). The order of the leaves is by rank
(`Ascending`, with `AscendingLists`: a list in order, of exactly the set, without repetition), and that
leaves which fit the tree keep indices below its width is `PowersOfTwo` and the lemmas after it.

**SavedScanProofs on the disclosure.** None of the four invariants is inductive; an
acceptance looks at a proof that was made from another file before. `DisclosureInductive` says of
each variable what it goes back to. A file has the roots of all its stretch held, while its lists
may have lost something (`SavedScan`). A bundle says that some key, slots and path satisfy the circuit for
its public inputs, whoever wrote them (`Proven`). A verdict is about the roots of the
verifier's own file (`Judged`). `WitnessesExecute` then is the completeness of the paths with what `witness`
refuses, and `AcceptedIsAnchoredAndClean` their soundness at the verifier's roots, where a leaf of the tree
is one a settlement in the stretch committed. The proof of `HonestProofsPass` did not go
through at first: a scan with more leaves than the tree has room for was saved, where
`roots.rs:138-180` fails. `Scan` has that guard since, and the run a stretch that meets it.

**AnchorWalletProofs.** The fee: what `solve_fee` settles on pays for exactly the transaction
that pays it, and no smaller fee pays for its own. A larger output weighs less (`StorageMassFalls`, from
`QuotientFalls`), so a pass that starts below the mass of a transaction that pays for
itself ends below it (`PassStaysBelow`), and the first starts from the least mass there
is. If any fee pays, the first pass already settles (`FirstPassSettles`): with coins of total worth *T* that
weigh *R* together, a fee *z* at rate *r* pays for the storage mass only if
*(r(R+1)+z)(T-z) > rC*, and at the least fee also if: a parabola in *z* that is positive at 0 because coins weigh less together
than apart, so that it is positive at the least fee if it is at a larger one (`StaysAbove`). The three
passes that follow never find anything. The money: the model's sums are folds that take a
set's elements in an unknown order. That such a
fold exists, is unique and adds up by elements and by parts (`SumExists`, `SumUnique`,
`SumRemove`, `SumSplit`) is proved by the least subset for which it is not so. The invariant is that
transactions are balanced when built, descend from accepted outputs, and wait only for coins that
are unspent and that nothing else waits for; acceptance then moves the value of the
inputs into change, fee and payment.

**Only model-checked:**

- Liveness: `EventuallySettled`, `UnshippedComesToAnEnd` (TLAPS has no fairness reasoning here).
- `CovenantAcceptsWhatIsBuilt` as it stands, for its ENABLED. Its two halves are proved.
- `RefusedOnlyIfHopeless` and `TopUpsAreNeeded`. That each refused selection is hopeless and that the last
  coin added was needed is proved. What is left is that the largest coins are the best to
  choose, and this is not true of all amounts: the storage mass rounds each
  coin's reciprocal down. With coins of 474180, 177932 and 177936 thousand sompi, a rate of 200
  thousand sompi per gram and the code's eight inputs, the first two pay for an anchor of one id and
  neither the first and the third nor all three do; `krep anchor` refuses the first coin there. It takes
  a fee that eats most of the coins; at the runs' rates there is no such case among their amounts.

## Where the code and its documentation disagree

Four are runs expected to find a violation, with the quoted line in
`PROJECT.json`:

| run | what it shows |
|---|---|
| `MCEscrowPseudonym` | a shipment may rewrite the pseudonym that signed the claim |
| `MCEscrowClientRelease` | no command takes the auto-release branch |
| `MCDisclosureCount` | one attestation fills several slots of the circuit and counts in each |
| `MCMarketHidden` | a listing is shown as verified and without defaults though the same saved scan names its maker a defaulter: the entry was left out of the offer |

The others met while modelling have no run, and no property here claims their
opposite. They limit what the properties above say:

- `krep-escrow/src/script.rs:200`: the covenant checks the length of a settlement's
  payload, so 64 zero bytes commit nothing, where `lib.rs:26-30` speaks of a commitment
  that cannot be skipped. `SettlementAnchorsItsAttestations` is about the client.
- `krep-escrow/src/script.rs:251-253`: "the maker cannot claim to have shipped in the future". The
  branch compares `shipped_at` with the lock time, and consensus waives the lock time when
  all sequences are maximal. `TypeOK` and the history say nothing of `shipped_at`, and the
  dispute window does not depend on it.
- `krep-core/src/lib.rs:277-279`: a covenant-witnessed attestation rests on "a specific branch of a
  specific covenant", and `docs/SPEC.md` 1.5 makes the slash the second signer of a default.
  `verify` and `check_covenant` take whichever branch the witness names (which script to trust is left
  to the relying party, lib.rs:286-288), so a settlement that commits the id of an unsigned default whose witness
  names the settlement supports it. `EntryMatchesSpend` says what is still excluded.
- `krep-escrow/src/script.rs:333`, `main.rs:1394`: a slash protects a buyer from a maker who claims and
  never ships, but the buyer's file is still the open state, and no command finds the claim
  on the chain. Unless the maker hands a file over there is nothing to slash from.
- `main.rs:968`: `finish` records a transition as soon as the mempool has it. A refund
  that loses to a claim stays in the buyer's file, which `README.md:284` calls a cache of
  what happened. `CurrentStateIsKnown` asks only that somebody's file leads on.
- `krep-cli/src/escrow.rs:585`: "the anchor is the outpoint the settlement will spend".
  `attest` takes the outpoint on file, and `resolve` commits raw ids (`main.rs:1441`)
  without looking at their anchors as `settle` does, so a ruling can commit attestations
  made at SHIPPED that are anchored to the output the dispute spent.
- `krep-cli/src/escrow.rs:273`: `send`, `anchor` and `open` may spend the change a file
  records, which the comment at 262-268 excludes. `UnshippedComesToAnEnd` assumes wallets
  used for nothing else.
- `chain.rs:56`: two attestations made at one head may both be anchored, and the chain
  goes on from either and verifies (`docs/SPEC.md:42`). `OnlyPrefixesVerify` is about
  the entries of one appended chain.
- `chain.rs:83`: one settlement may anchor two entries of one chain (`docs/SPEC.md:57`).
- `kaspad.rs:394`, `391`, `531`: a settlement above the confirmation floor, one accepted
  by the chain block that accepted its escrow, and, for a covenant witness, one behind
  the block budget are answered with a no, where `krep-core/src/lib.rs:46-50` and
  `521-524` ask for an error. `MCAnchorScan` therefore has budgets that suffice and an
  escrow and settlement in different chain blocks (`SameMergeset = FALSE`), and
  `BuriedIsNotDenied` speaks of settlements below the floor.
- `kaspad.rs:391`: `find_spender` drops the outcome of its scan for a candidate's acceptance,
  so a batch budget that ends behind the escrow is a no, where `kaspad.rs:90-93` promises
  an explicit error.
- `roots.rs:108`: after a fork an update keeps the leaves the chain lost and reports
  nothing (`README.md:607`). `MCAccumulator` has no forks.
- `market.rs:90`: a scan begun after an escrow holds its slash's leaf, and denies the
  default. `MarketFollowsChain` asks for it when the scan reaches back to the escrow.
- `krep-cli/src/board.rs:236`: an acceptance's own job address is not looked at, where
  `claims_for` does look because "a relay is free to return events we did not ask for"
  (line 169): `job awarded` may show the buyer's acceptance of another job.
  `AwardIsTheBuyersLast` is about whose acceptance it is.
- `anchor.rs:280`: a refusal says that the largest coins "cannot cover the fee" and asks for "more, or fewer
  and larger" ones. At very high rates smaller coins of the same wallet can where the largest do not (above, under what is only model-checked).
- `main.nr:3`: "the pseudonym I control". No input of the circuit is a secret of the
  pseudonym: whoever holds a chain file can prove it, so
  `AcceptedIsAnchoredAndClean` is about some pseudonym and not about the prover.

## What is not modelled

- The script's assembly: opcodes, stack positions and byte offsets. The branches'
  conditions are modelled, not how they are compiled.
- Hashes and signatures: ids are injective, nobody signs with another's key.
- Fees, mass and dust of escrow transactions, where a coin pays or it does not, and of
  `send`, which asks for a flat fee whatever its change weighs; those of anchors are in
  `AnchorFee`. Rounding a fee up to a whole sompi.
- Where in a payload an id stands: a transaction commits an id or it does not, so that
  `leaves_for_tx` looks at 4096 bytes and `payload_commits` at all is not visible.
- The proving system and the circuit's byte offsets; padding, cipher and MAC of private
  messages; pseudonym derivation; argument parsing, printing, HTML and HTTP.
- Covenant spends other than endings as anchors of an attestation; defaults both parties sign, in
  `Market`; claims and acceptances with unreadable contents, in `JobBoard`; `krep prove` with a
  `--depth` of its own, and the ids a slash commits, in `Disclosure`; the calls within one
  batch of `AnchorScan` that fetch bodies of one mergeset, which are one step.
- The attestation files the client writes: that a second slash overwrites `--default-out`
  is a hazard without a property.
- A relay's own replacement of older revisions: an honest relay here keeps them all,
  which leaves the reader more to get wrong.

## Plan

Done: every module of the table above with its run, and the proofs of every safety
invariant but those listed as only model-checked. What is left, in this order:

1. The client's attestation files (`--default-out` overwritten by a second slash).
2. An abstract register per address that `JobBoard` implements for a single honest
   relay, and an abstract accumulator that `Accumulator` implements.
3. The order of the inputs: for which amounts and rates rounding cannot decide, and from it
   `RefusedOnlyIfHopeless` and `TopUpsAreNeeded`.
