---------------------------- MODULE EscrowClient ----------------------------
(***************************************************************************)
(* The parties of one escrow driving the covenant with `krep escrow`: each *)
(* keeps a state file, builds the next transition from it, submits it to a *)
(* node and only then writes the file back.                                *)
(*                                                                         *)
(* A transaction is known by its content, as its id does not depend on the *)
(* signatures: building the same transition twice gives the same           *)
(* transaction.  The node (mempool, acceptance, eviction) is external and  *)
(* modelled from what src/ expects of it.  A command the node or the       *)
(* client refuses changes nothing and is not a step.  A definition marked  *)
(* "Deviation" is a wrong form of the one after it, see EscrowCovenant.    *)
(***************************************************************************)
EXTENDS Integers, Sequences, FiniteSets

CONSTANTS
  Holders, Zero, Buyer, Arbiter, Reward, Bond, Deadline, AutoReleaseDelay, MaxDaa,
  Maker,      \* the party that claims; it is paid on the key of its wallet
  Rep,        \* the maker's pseudonym
  Tracking,   \* the tracking hash of the shipment
  BackOff,    \* how far ship sets its lock time back (64 DAA scores)
  MaxTx,      \* bound: transactions ever built
  Outages     \* bound: crashes and evictions

ASSUME ClientAssumption ==
  /\ Buyer \in Holders /\ Maker \in Holders \ {Buyer} /\ Arbiter \in Holders \cup {Zero}
  /\ Zero \notin Holders \cup {Rep, Tracking}
  /\ Deadline \in Nat /\ AutoReleaseDelay \in Nat /\ Reward \in Nat /\ Bond \in Nat
  /\ BackOff \in Nat \ {0} /\ MaxDaa \in Nat \ {0} /\ MaxTx \in Nat /\ Outages \in Nat

VARIABLES
  daa, escrow, payout, log,  \* the covenant's chain, see EscrowCovenant
  known,     \* the transactions ever submitted; the position stands for the id
  mempool,   \* ids waiting for acceptance
  accepted,  \* ids accepted by the virtual chain
  files,     \* each party's state file: the id its `live` records, 0 if none
  running,   \* each party's command between its submission and its save, or 0
  atts,      \* attestations in hand: whose side, anchored to which escrow output
  outages    \* crashes and evictions so far

chain == <<daa, escrow, payout, log>>
node  == <<known, mempool, accepted>>
local == <<files, running, atts, outages>>
vars  == <<chain, node, local>>

Parties == {Buyer, Maker}
Ids     == 1 .. Len(known)

Covenant == INSTANCE EscrowCovenant WITH
  Keys <- Holders, Pseudonyms <- {Rep}, Hashes <- {Tracking}

NotOpened == [Covenant!Opened(0) EXCEPT !.phase = "None"]

-----------------------------------------------------------------------------
(* Transactions and the node *)

Payload(phase, maker, rep, tracking, shippedAt) ==
  [phase |-> phase, maker |-> maker, maker_rep |-> rep,
   tracking |-> tracking, shippedAt |-> shippedAt]

Terminal == Payload("Spent", Zero, Zero, Zero, 0)

\* The change output of transaction `of`, or the coin the party started with.
Coin(of, owner) == [of |-> of, owner |-> owner]

Created(ids) == {Coin(0, p) : p \in Parties} \cup {Coin(i, known[i].by) : i \in ids}

Conflict(t, u) == t.coin = u.coin \/ (t.spends # 0 /\ t.spends = u.spends)

\* The node takes a transaction whose inputs it knows and none of which is spent
\* by an accepted transaction or by one the same party has in flight.  Another
\* party's transaction may not have reached this node yet.
NodeTakes(tx) ==
  /\ tx.coin \in Created(mempool \cup accepted)
  /\ tx.spends \in {0} \cup mempool \cup accepted
  /\ \A i \in accepted : ~Conflict(tx, known[i])
  /\ \A i \in mempool : known[i].by = tx.by => ~Conflict(tx, known[i])

\* wallet_utxos: what an index of accepted outputs shows as spendable.  That a
\* coin must be ten scores old is left out, as are amounts.
WalletCoins(p) ==
  { c \in Created(accepted) : c.owner = p /\ \A i \in accepted : known[i].coin # c }

-----------------------------------------------------------------------------
(* A command: read the file, build, submit; then save *)

\* finish, up to the node's answer.  With record = 0 nothing is to be saved.
Submit(p, tx, record) ==
  /\ running[p] = 0
  /\ NodeTakes(tx)
  /\ \/ /\ Len(known) < MaxTx
        /\ \A i \in Ids : known[i] # tx
        /\ known' = Append(known, tx)
        /\ mempool' = mempool \cup {Len(known) + 1}
        /\ running' = [running EXCEPT ![p] = IF record THEN Len(known) + 1 ELSE 0]
     \/ \E i \in Ids \ (mempool \cup accepted) :
          /\ known[i] = tx
          /\ mempool' = mempool \cup {i}
          /\ running' = [running EXCEPT ![p] = IF record THEN i ELSE 0]
          /\ UNCHANGED known
  /\ UNCHANGED <<chain, accepted, files, atts, outages>>

\* What the file says the escrow is.
Live(p) == known[files[p]]

HasFile(p) == files[p] # 0

\* The fee comes from the change the file records, when that is the caller's and
\* enough, and otherwise from a coin of the wallet.
FeeCoins(p) ==
  (IF Live(p).by = p THEN {Coin(files[p], p)} ELSE {}) \cup WalletCoins(p)

\* transition: spend the escrow output on file.  A lock time that is not strictly
\* in the past is refused before anything is sent.
Transition(p, branch, state, lock, ids) ==
  /\ lock > 0 => daa > lock
  /\ \E coin \in FeeCoins(p) :
       Submit(p, [branch |-> branch, spends |-> files[p], coin |-> coin, by |-> p,
                  state |-> state, lock |-> lock, ids |-> ids], TRUE)

\* EscrowState::decode, check_invariants included, of the payload on file.
Decodes(s) ==
  \/ s.phase = "Open"
  \/ s.phase = "Claimed" /\ s.maker # Zero /\ s.maker_rep # Zero
  \/ /\ s.phase \in {"Shipped", "Disputed"}
     /\ s.maker # Zero /\ s.maker_rep # Zero /\ s.tracking # Zero /\ s.shippedAt # 0

\* parties: only a state that names a maker has them.
NamesParties(s) == Decodes(s) /\ s.maker # Zero

Open ==
  /\ ~HasFile(Buyer)
  /\ \A i \in mempool \cup accepted : known[i].branch # "Open"  \* one escrow
  /\ \E coin \in WalletCoins(Buyer) :
       Submit(Buyer, [branch |-> "Open", spends |-> 0, coin |-> coin, by |-> Buyer,
                      state |-> Payload("Open", Zero, Zero, Zero, 0), lock |-> 0, ids |-> {}], TRUE)

Claim ==
  /\ HasFile(Maker) /\ Live(Maker).state.phase = "Open"
  /\ Transition(Maker, "Claim", Payload("Claimed", Maker, Rep, Zero, 0), 0, {})

\* Deviation: the score is written down and the lock time left at zero.
ShipStampedNow ==
  /\ HasFile(Maker) /\ Live(Maker).state.phase = "Claimed"
  /\ Transition(Maker, "Ship", Payload("Shipped", Maker, Rep, Tracking, daa), 0, {})

\* shipped_at is the lock time, set back so that it has already passed.
Ship ==
  /\ HasFile(Maker) /\ Live(Maker).state.phase = "Claimed"
  /\ Decodes(Live(Maker).state)
  /\ LET prev == Live(Maker).state
         now  == IF daa > BackOff THEN daa - BackOff ELSE 0
     IN Transition(Maker, "Ship",
                   Payload("Shipped", prev.maker, prev.maker_rep, Tracking, now), now, {})

Dispute ==
  /\ HasFile(Buyer) /\ Live(Buyer).state.phase = "Shipped"
  /\ Arbiter # Zero
  /\ Decodes(Live(Buyer).state)
  /\ Transition(Buyer, "Dispute", [Live(Buyer).state EXCEPT !.phase = "Disputed"], 0, {})

\* Deviation: attest does not look whether the escrow is open and claimed.
AttestUnchecked(p) ==
  /\ running[p] = 0
  /\ atts' = atts \cup {[side |-> p, anchor |-> files[p]]}
  /\ UNCHANGED <<chain, node, files, running, outages>>

\* attest: the entry a party's pseudonym is owed, anchored to the output on file.
Attest(p) ==
  /\ HasFile(p) /\ running[p] = 0
  /\ NamesParties(Live(p).state)
  /\ atts' = atts \cup {[side |-> p, anchor |-> files[p]]}
  /\ UNCHANGED <<chain, node, files, running, outages>>

\* Deviation: attestations are taken whatever they are anchored to.
AnyIds(from) == { ids \in SUBSET atts : Cardinality(ids) \in {1, 2} }

\* payout takes one or two ids.
IdChoices(from) == { ids \in SUBSET from : Cardinality(ids) \in {1, 2} }

\* settle refuses an attestation anchored to another outpoint.
Settle ==
  /\ HasFile(Buyer) /\ Live(Buyer).state.phase = "Shipped"
  /\ NamesParties(Live(Buyer).state)
  /\ \E ids \in IdChoices({a \in atts : a.anchor = files[Buyer]}) :
       Transition(Buyer, "Settle", Terminal, 0, ids)

\* slash derives the default itself, from the same file.
Slash ==
  /\ HasFile(Buyer) /\ Live(Buyer).state.phase = "Claimed"
  /\ NamesParties(Live(Buyer).state)
  /\ Transition(Buyer, "Slash", Terminal, Deadline,
                {[side |-> Maker, anchor |-> files[Buyer]]})

\* Deviation: a refund that does not set its lock time.
RefundUnlocked ==
  /\ HasFile(Buyer) /\ Live(Buyer).state.phase = "Open"
  /\ Transition(Buyer, "Refund", Terminal, 0, {})

Refund ==
  /\ HasFile(Buyer) /\ Live(Buyer).state.phase = "Open"
  /\ Transition(Buyer, "Refund", Terminal, Deadline, {})

\* resolve is given the ids as they are and looks at nothing else of them.
Resolve(p) ==
  /\ HasFile(p) /\ Live(p).state.phase = "Disputed"
  /\ NamesParties(Live(p).state)
  /\ \E ids \in IdChoices(atts) :
       Transition(p, IF p = Buyer THEN "ResolveToBuyer" ELSE "ResolveToMaker", Terminal, 0, ids)

\* Any other payment of the same wallet: send, anchor, another escrow.
Send(p) ==
  \E coin \in WalletCoins(p) :
    Submit(p, [branch |-> "Send", spends |-> 0, coin |-> coin, by |-> p,
               state |-> Terminal, lock |-> 0, ids |-> {}], FALSE)

\* Deviation: the command ends without writing the file.
SaveNothing(p) ==
  /\ running[p] # 0
  /\ running' = [running EXCEPT ![p] = 0]
  /\ UNCHANGED <<chain, node, files, atts, outages>>

\* The file is written once the node has answered.
Save(p) ==
  /\ running[p] # 0
  /\ files' = [files EXCEPT ![p] = running[p]]
  /\ running' = [running EXCEPT ![p] = 0]
  /\ UNCHANGED <<chain, node, atts, outages>>

\* The process dies between the node's answer and the save.
Crash(p) ==
  /\ running[p] # 0 /\ outages < Outages
  /\ running' = [running EXCEPT ![p] = 0]
  /\ outages' = outages + 1
  /\ UNCHANGED <<chain, node, files, atts>>

\* The ids a recorded state rests on: its own, and those of the outputs spent.
Ancestry(f) ==
  LET back[i \in 0 .. Len(known)] ==
        IF i = 0 THEN {} ELSE {i} \cup (IF known[i].spends < i THEN back[known[i].spends] ELSE {})
  IN back[f]

\* Whoever moved last hands the file on once the move is accepted, to a party
\* whose own copy does not already rest on it.
HandOver(p, q) ==
  /\ files[p] \in accepted /\ Live(p).by = p /\ running[q] = 0
  /\ files[p] \notin Ancestry(files[q])
  /\ files' = [files EXCEPT ![q] = files[p]]
  /\ UNCHANGED <<chain, node, running, atts, outages>>

-----------------------------------------------------------------------------
(* The chain *)

\* The new output of the covenant carries exactly the payload that was built.
Carries(state) ==
  /\ escrow'.phase = state.phase
  /\ escrow'.maker = state.maker /\ escrow'.maker_rep = state.maker_rep
  /\ escrow'.tracking = state.tracking /\ escrow'.shippedAt = state.shippedAt

\* Two ids fill both slots of the terminal payload, one id the first.
Commits(ids) == payout'.ids = IF Cardinality(ids) = 2 THEN Covenant!Sides ELSE {"owner"}

\* The covenant accepts the transaction as it was built.
Executes(tx) ==
  \/ tx.branch = "Send" /\ UNCHANGED chain
  \/ /\ tx.branch = "Open" /\ escrow = NotOpened
     /\ escrow' = Covenant!Opened(daa)
     /\ UNCHANGED <<daa, payout, log>>
  \/ tx.branch = "Claim" /\ Covenant!Claim /\ Carries(tx.state)
  \/ tx.branch = "Ship" /\ Covenant!Ship /\ Carries(tx.state) /\ escrow'.shippedAt = tx.lock
  \/ tx.branch = "Dispute" /\ Covenant!Dispute /\ Carries(tx.state)
  \/ tx.branch = "Settle" /\ Covenant!Settle /\ Commits(tx.ids)
  \/ tx.branch = "Slash" /\ Covenant!Slash /\ tx.lock >= Deadline /\ Commits(tx.ids)
  \/ tx.branch = "Refund" /\ Covenant!Refund /\ tx.lock >= Deadline
  \/ tx.branch = "ResolveToMaker" /\ Covenant!ResolveToMaker /\ Commits(tx.ids)
  \/ tx.branch = "ResolveToBuyer" /\ Covenant!ResolveToBuyer /\ Commits(tx.ids)

Spendable(tx) ==
  /\ tx.coin \in Created(accepted)
  /\ tx.spends \in {0} \cup accepted
  /\ \A i \in accepted : ~Conflict(tx, known[i])

\* The client writes sequence 0 into every input, so a lock time always binds.
Accept(i) ==
  /\ i \in mempool
  /\ Spendable(known[i])
  /\ known[i].lock = 0 \/ known[i].lock \in Covenant!FinalLockTimes
  /\ Executes(known[i])
  /\ accepted' = accepted \cup {i}
  /\ mempool' = { j \in mempool \ {i} : ~Conflict(known[i], known[j]) }
  /\ UNCHANGED <<known, local>>

\* A mempool forgets: low fees, expiry, a restart of the node.
Evict(i) ==
  /\ i \in mempool /\ outages < Outages
  /\ mempool' = mempool \ {i}
  /\ outages' = outages + 1
  /\ UNCHANGED <<chain, known, accepted, files, running, atts>>

Tick == Covenant!Tick /\ UNCHANGED <<node, local>>

-----------------------------------------------------------------------------
(* The specification *)

Init ==
  /\ daa \in Covenant!Scores \ {0}
  /\ escrow = NotOpened /\ payout = Covenant!Unpaid /\ log = {}
  /\ known = << >> /\ mempool = {} /\ accepted = {}
  /\ files = [p \in Parties |-> 0] /\ running = [p \in Parties |-> 0]
  /\ atts = {} /\ outages = 0

EscrowStep ==
  \/ Open \/ Claim \/ Ship \/ Dispute \/ Settle \/ Slash \/ Refund
  \/ \E p \in Parties : Attest(p) \/ Resolve(p) \/ Save(p) \/ Crash(p)
  \/ \E p, q \in Parties : HandOver(p, q)
  \/ \E i \in Ids : Accept(i) \/ Evict(i)
  \/ Tick

Next == EscrowStep \/ \E p \in Parties : Send(p)

Spec == Init /\ [][Next]_vars

\* Time passes, the node accepts what it can, and the buyer's commands come to
\* their end and take back what they can.  Nothing is assumed of the maker.
BuyerDiligence ==
  /\ WF_vars(Tick)
  /\ \A i \in 1 .. MaxTx : WF_vars(i \in Ids /\ Accept(i))
  /\ WF_vars(Save(Buyer))
  /\ WF_vars(Refund) /\ WF_vars(Slash)

\* Whatever else the wallets pay for.
FairSpec == Spec /\ BuyerDiligence

\* Wallets that are used for this escrow and nothing else, and a maker who does
\* not keep anybody waiting for a command or for a file.
DedicatedSpec ==
  /\ Init /\ [][EscrowStep]_vars /\ BuyerDiligence
  /\ WF_vars(Save(Maker)) /\ \A p, q \in Parties : WF_vars(HandOver(p, q))

-----------------------------------------------------------------------------
(* Properties *)

Covenanted == {"Open", "Claim", "Ship", "Dispute"}
Outcomes   == {"Settle", "Slash", "Refund", "ResolveToMaker", "ResolveToBuyer"}

\* Every variable stays in its set: ids point at submitted transactions, an
\* accepted one is no longer waiting, and at most one command runs per party.
ClientTypeOK ==
  /\ mempool \cup accepted \subseteq Ids /\ mempool \cap accepted = {}
  /\ files \in [Parties -> Ids \cup {0}] /\ running \in [Parties -> Ids \cup {0}]
  /\ atts \subseteq [side : Parties, anchor : Ids]
  /\ \A i \in Ids : known[i].branch \in Covenanted \cup Outcomes \cup {"Send"}
                    /\ known[i].spends \in 0 .. i - 1

\* What the client builds is what the covenant asks for: a transaction the node
\* took and whose inputs exist and are unspent can be accepted, with the phase,
\* the fields, the payload and the lock time the client chose, whatever happened
\* between building and acceptance.
CovenantAcceptsWhatIsBuilt ==
  \A i \in mempool : Spendable(known[i]) => ENABLED Accept(i)

\* A settlement or slash commits attestations anchored to the very output it
\* spends, so that they verify; in particular none made before the shipment.
SettlementAnchorsItsAttestations ==
  \A i \in accepted :
    known[i].branch \in {"Settle", "Slash"} =>
      /\ known[i].ids # {}
      /\ \A a \in known[i].ids : a.anchor = known[i].spends

\* The output the escrow's money is on.
Current(i) ==
  /\ i \in accepted /\ known[i].branch \in Covenanted
  /\ \A j \in accepted : known[j].spends # i

\* As long as no process dies and no mempool forgets, whatever the races between
\* the parties, somebody holds a file that leads on from the output with the
\* money on it: its state is never lost.
CurrentStateIsKnown ==
  outages = 0 =>
    \A i \in Ids : Current(i) =>
      \E p \in Parties : i \in Ancestry(files[p]) \cup Ancestry(running[p])

\* No process died, no mempool forgot, and no wallet paid for anything else.
Undisturbed ==
  outages = 0 /\ \A i \in Ids : known[i].branch # "Send"

\* The buyer's file has the claim: the maker handed it over.  Nothing makes a maker
\* do so, and no command finds out about a claim in another way.
BuyerHasTheClaim ==
  escrow.phase = "Claimed" /\ HasFile(Buyer) /\ Live(Buyer).branch = "Claim"

\* A job nobody takes does not keep the buyer's money, nor does one that is not
\* shipped once the buyer's file has the claim: undisturbed, and whatever the maker
\* does or leaves undone from then on, the commands the client has get the buyer
\* out, through refund or slash.
UnshippedComesToAnEnd ==
  []Undisturbed => /\ escrow.phase = "Open" ~> escrow.phase # "Open"
                   /\ BuyerHasTheClaim ~> escrow.phase # "Claimed"

-----------------------------------------------------------------------------
(* What the documentation says and the client does not keep *)

\* auto_release_branch: "Buyer silence must not hold a maker's bond hostage".
ShipmentIsPaidOut ==
  escrow.phase = "Shipped" ~>
    (escrow.phase # "Shipped" \/ escrow.since + AutoReleaseDelay > MaxDaa)
=============================================================================
