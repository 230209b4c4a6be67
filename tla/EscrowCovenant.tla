--------------------------- MODULE EscrowCovenant ---------------------------
(***************************************************************************)
(* One FabMesh escrow as the covenant script of krep-escrow sees it: a     *)
(* single output whose state travels in the payload of the transaction     *)
(* that created it, and the nine branches through which it may be spent.   *)
(*                                                                         *)
(* An action is an ACCEPTED transaction.  What a branch pins is written    *)
(* here as a value; what it leaves to whoever builds the transaction is    *)
(* quantified over.  The chain itself (the DAA score, finality of a lock   *)
(* time, sequence locks) is external and modelled from how src/ uses it.   *)
(*                                                                         *)
(* A definition marked "Deviation" is no part of the specification: it is  *)
(* a wrong form of the one after it, kept to show that a property fails    *)
(* when the code goes wrong in that way.                                   *)
(***************************************************************************)
EXTENDS Integers

CONSTANTS
  Keys,              \* byte strings that can stand in a payment-key field
  Holders,           \* the keys whose secret somebody has
  Pseudonyms,        \* reputation keys, every one of them held
  Hashes,            \* tracking hashes
  Zero,              \* 32 zero bytes: a field nobody filled in
  Buyer, Arbiter,    \* Terms.buyer, Terms.arbiter (Zero stands for None)
  Reward, Bond,      \* Terms.reward, Terms.maker_bond
  Deadline,          \* Terms.deadline, a DAA score
  AutoReleaseDelay,  \* Terms.auto_release_delay, in DAA scores
  MaxDaa             \* bound: the DAA score at which the model's clock stops

ASSUME TermsAssumption ==
  /\ Holders \subseteq Keys
  /\ Buyer \in Holders
  /\ Arbiter \in Holders \cup {Zero}
  /\ Zero \notin Keys \cup Pseudonyms \cup Hashes
  /\ Reward \in Nat /\ Bond \in Nat
  /\ Deadline \in Nat /\ AutoReleaseDelay \in Nat
  /\ MaxDaa \in Nat \ {0}

VARIABLES
  daa,     \* the virtual DAA score
  escrow,  \* the covenant output: EscrowState, its value, and when it was accepted
  payout,  \* output 0 and payload of the transaction that left the covenant
  log      \* history: the branches executed, who signed each, and when

vars == <<daa, escrow, payout, log>>

-----------------------------------------------------------------------------
(* Data *)

Phases   == {"Open", "Claimed", "Shipped", "Disputed"}
Branches == {"Claim", "Ship", "Settle", "AutoRelease", "Dispute",
             "ResolveToMaker", "ResolveToBuyer", "Slash", "Refund"}
Sides    == {"owner", "counterparty"}   \* the two id slots of a 64-byte payload
Scores   == 0 .. MaxDaa
Signers  == Holders \cup Pseudonyms

EscrowStates ==
  [phase     : Phases \cup {"Spent"},
   maker     : Keys \cup {Zero},
   maker_rep : Pseudonyms \cup {Zero},
   tracking  : Hashes \cup {Zero},
   shippedAt : Scores,
   value     : Nat,
   since     : Scores]

Payouts ==
  [branch : Branches, to : Keys \cup {Zero}, amount : Nat, len : {0, 64}, ids : SUBSET Sides]

Unpaid == [branch |-> "none"]

LogEntries == [branch : Branches, by : SUBSET Signers, at : Scores]

\* Terms::arbitrated
Arbitrated == Arbiter # Zero

\* Deviation: the bond is forgotten.
RewardOnly == Reward

\* Terms::claimed_value.  The sum saturates at 2^64 - 1 in the code; every
\* amount of KAS that exists is far below that.
ClaimedValue == Reward + Bond

\* Deviation: a signature is asked for, whoever it is from.
AnySigner(k) == { {s} : s \in Signers }

\* OpCheckSigVerify against key k: the signer sets that satisfy it.  The zero
\* key cannot sign, and neither can a key nobody holds.
SignedBy(k) == { {s} : s \in {k} \cap Signers }

\* Consensus (external): a lock time is over once it is strictly below the DAA
\* score; equality does not count.
FinalLockTimes == { t \in Scores : t < daa }

\* Consensus asks this of a transaction unless the sequence of every input is
\* maximal.  OpCheckLockTimeVerify refuses such an input; where it does not run,
\* whoever builds the transaction may write any lock time and have the rule waived.
WaivableLockTimes == Scores

\* Deviation: a lock time equal to the score counts as passed.
DeadlineReachedAtEquality == \E t \in FinalLockTimes \cup {daa} : t >= Deadline

\* OpCheckLockTimeVerify in a transaction that is final.
DeadlineReached == \E t \in FinalLockTimes : t >= Deadline

\* Deviation: the delay runs from the score the maker wrote down.
DelayFromShippedAt == escrow.shippedAt + AutoReleaseDelay <= daa

\* OpCheckSequenceVerify and the sequence lock of the input: the output being
\* spent has been on the chain for at least AutoReleaseDelay.
ReleaseDelayOver ==
  \E sequence \in Scores : sequence >= AutoReleaseDelay /\ escrow.since + sequence <= daa

-----------------------------------------------------------------------------
(* The two shapes of a covenant spend *)

Executed(branch, by) == log' = log \cup {[branch |-> branch, by |-> by, at |-> daa]}

\* Output 0 carries the same script: the escrow moves to a new state.
Continue(branch, by, state, value) ==
  /\ escrow' = [phase     |-> state.phase,
                maker     |-> state.maker,
                maker_rep |-> state.maker_rep,
                tracking  |-> state.tracking,
                shippedAt |-> state.shippedAt,
                value     |-> value,
                since     |-> daa]
  /\ Executed(branch, by)
  /\ UNCHANGED <<daa, payout>>

\* Output 0 pays key `to`: the escrow leaves the covenant.  A terminal payload
\* of 64 bytes has room for two attestation ids; a side may leave its own zero.
Leave(branch, by, to, amount, len) ==
  /\ \E ids \in (IF len = 64 THEN SUBSET Sides ELSE {{}}) :
       payout' = [branch |-> branch, to |-> to, amount |-> amount, len |-> len, ids |-> ids]
  /\ escrow' = [escrow EXCEPT !.phase = "Spent"]
  /\ Executed(branch, by)
  /\ UNCHANGED daa

-----------------------------------------------------------------------------
(* Transitions that stay in the covenant *)

\* claim_branch: the pseudonym written into the new state must sign; the
\* payment key need only be non-zero; the value grows by exactly the bond.
Claim ==
  /\ escrow.phase = "Open"
  /\ \E maker \in Keys, rep \in Pseudonyms : \E by \in SignedBy(rep) :
       Continue("Claim", by,
                [phase |-> "Claimed", maker |-> maker, maker_rep |-> rep,
                 tracking |-> Zero, shippedAt |-> 0],
                escrow.value + Bond)

\* ship_branch: the maker signs, stays named, gives a non-zero tracking hash,
\* and shipped_at is the lock time.  Bytes 70..102, the pseudonym, are neither
\* compared with the previous state nor authenticated, and no opcode looks at the
\* sequence, so the lock time may be one that is still to come.
Ship ==
  /\ escrow.phase = "Claimed"
  /\ \E by \in SignedBy(escrow.maker), rep \in Pseudonyms \cup {Zero},
        tracking \in Hashes, lockTime \in WaivableLockTimes :
       Continue("Ship", by,
                [phase |-> "Shipped", maker |-> escrow.maker, maker_rep |-> rep,
                 tracking |-> tracking, shippedAt |-> lockTime],
                escrow.value)

\* Deviation: a dispute before anything was shipped.
DisputeEarly ==
  /\ Arbitrated
  /\ escrow.phase \in {"Claimed", "Shipped"}
  /\ \E by \in SignedBy(Buyer) :
       Continue("Dispute", by, [escrow EXCEPT !.phase = "Disputed"], escrow.value)

\* dispute_branch: the buyer changes the phase and nothing else.  There is no
\* time limit other than the escrow still being in SHIPPED.
Dispute ==
  /\ Arbitrated
  /\ escrow.phase = "Shipped"
  /\ \E by \in SignedBy(Buyer) :
       Continue("Dispute", by, [escrow EXCEPT !.phase = "Disputed"], escrow.value)

-----------------------------------------------------------------------------
(* Transitions that leave the covenant *)

\* settle_branch: the buyer releases to the maker.
Settle ==
  /\ escrow.phase = "Shipped"
  /\ \E by \in SignedBy(Buyer) : Leave("Settle", by, escrow.maker, ClaimedValue, 64)

\* auto_release_branch: the maker, after the relative timelock.
AutoRelease ==
  /\ escrow.phase = "Shipped"
  /\ ReleaseDelayOver
  /\ \E by \in SignedBy(escrow.maker) : Leave("AutoRelease", by, escrow.maker, ClaimedValue, 64)

\* slash_branch: the buyer, after the deadline, when nothing was shipped.
Slash ==
  /\ escrow.phase = "Claimed"
  /\ DeadlineReached
  /\ \E by \in SignedBy(Buyer) : Leave("Slash", by, Buyer, ClaimedValue, 64)

\* refund_branch: the buyer, after the deadline, when nobody claimed.
Refund ==
  /\ escrow.phase = "Open"
  /\ DeadlineReached
  /\ \E by \in SignedBy(Buyer) : Leave("Refund", by, Buyer, Reward, 0)

\* Deviation: the ruling is looked for in the phase before the dispute.
ResolveUndisputed(branch, beneficiary) ==
  /\ Arbitrated
  /\ escrow.phase = "Shipped"
  /\ \E arb \in SignedBy(Arbiter), ben \in SignedBy(beneficiary) :
       Leave(branch, arb \cup ben, beneficiary, ClaimedValue, 64)

\* resolve_branch: the arbiter together with whoever is paid.
Resolve(branch, beneficiary) ==
  /\ Arbitrated
  /\ escrow.phase = "Disputed"
  /\ \E arb \in SignedBy(Arbiter), ben \in SignedBy(beneficiary) :
       Leave(branch, arb \cup ben, beneficiary, ClaimedValue, 64)

\* Deviation: the ruling for the buyer pays the maker.
RulingSwapped == Resolve("ResolveToBuyer", escrow.maker)

ResolveToMaker == Resolve("ResolveToMaker", escrow.maker)
ResolveToBuyer == Resolve("ResolveToBuyer", Buyer)

-----------------------------------------------------------------------------
(* The specification *)

Tick ==
  /\ daa < MaxDaa
  /\ daa' = daa + 1
  /\ UNCHANGED <<escrow, payout, log>>

\* The model's clock has stopped and the escrow is settled one way or another.
Finished ==
  /\ daa = MaxDaa
  /\ escrow.phase = "Spent"
  /\ UNCHANGED vars

\* open: the buyer pays exactly the reward in, with EscrowState::open as the
\* payload.
Opened(at) ==
  [phase |-> "Open", maker |-> Zero, maker_rep |-> Zero, tracking |-> Zero,
   shippedAt |-> 0, value |-> Reward, since |-> at]

\* A deadline that has already passed only earns a warning.
Init ==
  /\ daa \in Scores \ {0}
  /\ escrow = Opened(daa)
  /\ payout = Unpaid
  /\ log = {}

Next ==
  \/ Claim \/ Ship \/ Dispute
  \/ Settle \/ AutoRelease \/ Slash \/ Refund
  \/ ResolveToMaker \/ ResolveToBuyer
  \/ Tick \/ Finished

Spec == Init /\ [][Next]_vars

\* Time passes, and a party that is owed money collects it.  Nothing is assumed
\* of claiming, shipping, disputing or releasing.
TimeoutFairness ==
  WF_vars(Tick) /\ WF_vars(Refund) /\ WF_vars(Slash) /\ WF_vars(AutoRelease)

\* With an arbiter who does answer disputes.
ArbitratedSpec ==
  Spec /\ TimeoutFairness /\ WF_vars(ResolveToMaker \/ ResolveToBuyer)
-----------------------------------------------------------------------------
(* Type invariant *)

\* Every variable stays in its declared set, and the state has the fields of its
\* phase that the branches look at: somebody to pay once it is claimed, and a
\* tracking hash once it is shipped.  (check_invariants in state.rs asks for two
\* more, a pseudonym and a shipped_at other than 0, which ship_branch does not.)
TypeOK ==
  /\ daa \in Scores
  /\ escrow \in EscrowStates
  /\ escrow.phase \in {"Claimed", "Shipped", "Disputed"} => escrow.maker \in Keys
  /\ escrow.phase \in {"Shipped", "Disputed"} => escrow.tracking \in Hashes
  /\ payout \in Payouts \cup {Unpaid}
  /\ log \subseteq LogEntries

-----------------------------------------------------------------------------
(* Safety *)

Left == escrow.phase = "Spent"

Entries(branch) == {e \in log : e.branch = branch}

\* Money is neither lost nor created along the way: the covenant holds the
\* reward until a claim adds exactly the bond, and whoever is paid receives all
\* the covenant held (require_p2pk_output pays in full; fees come from elsewhere).
ValueAccounted ==
  /\ escrow.value = IF Entries("Claim") = {} THEN Reward ELSE Reward + Bond
  /\ payout # Unpaid => payout.amount = escrow.value
  /\ payout # Unpaid <=> Left

\* The maker is paid only for a job they themselves marked as shipped, and only
\* with the buyer's release, or with the arbiter's ruling on a dispute the buyer
\* opened, or after the full delay without a dispute.
MakerPaidForShipping ==
  (payout # Unpaid /\ payout.to # Buyer) =>
     \E s \in Entries("Ship") :
        /\ payout.to = escrow.maker /\ s.by = {escrow.maker}
        /\ \/ \E e \in Entries("Settle") : e.by = {Buyer}
           \/ \E d \in Entries("Dispute"), e \in Entries("ResolveToMaker") :
                 d.by = {Buyer} /\ e.by = {Arbiter, escrow.maker} /\ Arbiter # Zero
           \/ /\ Entries("Dispute") = {}
              /\ \E e \in Entries("AutoRelease") :
                    e.by = {escrow.maker} /\ e.at >= s.at + AutoReleaseDelay

\* The buyer gets money back only when nobody claimed, or when the maker had not
\* shipped, in both cases strictly after the deadline; or with the arbiter's
\* ruling.  A refund can never look like a settlement: its payload is empty.
BuyerPaidOnDefault ==
  (payout # Unpaid /\ payout.to # escrow.maker) =>
     /\ payout.to = Buyer
     /\ \/ /\ Entries("Claim") = {}
           /\ payout.len = 0
           /\ \E e \in Entries("Refund") : e.by = {Buyer} /\ e.at > Deadline
        \/ /\ Entries("Ship") = {}
           /\ payout.len = 64
           /\ \E e \in Entries("Slash") : e.by = {Buyer} /\ e.at > Deadline
        \/ \E e \in Entries("ResolveToBuyer") :
              e.by = {Arbiter, Buyer} /\ Arbiter # Zero /\ Entries("Dispute") # {}

\* Whatever shipped_at the maker writes, long past or still to come, an arbitrated
\* buyer has the full delay from the acceptance of the shipment to dispute before
\* the maker can release without them.
FullDisputeWindow ==
  \A s \in Entries("Ship") :
     /\ escrow.phase = "Shipped" => escrow.since = s.at
     /\ \A e \in Entries("AutoRelease") : e.at - s.at >= AutoReleaseDelay

\* A slash records the default against the pseudonym that signed the claim:
\* nobody can have it land on an identity that did not take the job.
DefaultOnClaimant ==
  (escrow.phase = "Claimed" \/ Entries("Slash") # {}) =>
     \E c \in Entries("Claim") : c.by = {escrow.maker_rep}

\* What has been executed, phase by phase: exactly the branches on the path to
\* the phase, the claim signed by the pseudonym on record until the shipment
\* rewrites it, the shipment by the maker on record, the dispute by the buyer.
PhaseHistory ==
  /\ escrow.phase = "Open" => log = {} /\ escrow.maker = Zero
  /\ escrow.phase = "Claimed" =>
       /\ Entries("Claim") # {}
       /\ \A e \in log : e.branch = "Claim" /\ e.by = {escrow.maker_rep}
  /\ escrow.phase = "Shipped" =>
       /\ Entries("Claim") # {} /\ Entries("Ship") # {}
       /\ \A e \in log : e.branch \in {"Claim", "Ship"}
       /\ \A s \in Entries("Ship") : s.at = escrow.since
  /\ escrow.phase = "Disputed" =>
       /\ Arbitrated
       /\ Entries("Claim") # {} /\ Entries("Ship") # {} /\ Entries("Dispute") # {}
       /\ \A e \in log : e.branch \in {"Claim", "Ship", "Dispute"}
  /\ \A s \in Entries("Ship") : s.by = {escrow.maker}
  /\ \A d \in Entries("Dispute") : d.by = {Buyer}

-----------------------------------------------------------------------------
(* Liveness *)

\* The model's clock stops too soon to see this shipment auto-released.
ShippedTooLate == escrow.phase = "Shipped" /\ escrow.since + AutoReleaseDelay > MaxDaa

\* No escrow is locked for good: buyer silence does not hold the maker's bond
\* and maker silence does not hold the buyer's reward.
EventuallySettled == <>(Left \/ ShippedTooLate)

-----------------------------------------------------------------------------
(* The covenant implements EscrowPromise *)

\* The phase the parties see: the outcome once the escrow has left the covenant.
Stage ==
  IF ~Left THEN escrow.phase
  ELSE CASE payout.branch = "Refund"                                    -> "Refunded"
         [] payout.branch \in {"Slash", "ResolveToBuyer"}               -> "Slashed"
         [] payout.branch \in {"Settle", "AutoRelease", "ResolveToMaker"} -> "Settled"

Paid ==
  IF payout = Unpaid THEN [to |-> Zero, amount |-> 0]
  ELSE [to |-> payout.to, amount |-> payout.amount]

Promise == INSTANCE EscrowPromise WITH
  Parties <- Keys, Nobody <- Zero, Client <- Buyer, HasArbiter <- Arbitrated,
  Price <- Reward, Stake <- Bond,
  stage <- Stage, worker <- escrow.maker, late <- daa > Deadline, paid <- Paid

\* Every accepted transaction is a step the promise allows, or invisible to it:
\* the same maker from claim to payout, one claim, one shipment, one dispute, and
\* a payout that the phase and the deadline justify.
ImplementsPromise == Promise!PromiseSpec

-----------------------------------------------------------------------------
(* What the documentation says and the covenant does not enforce *)

\* state.rs: the pseudonym "cannot be set to somebody else's identity".  From
\* the claim to the end the state names the pseudonym that signed the claim.
PseudonymBound ==
  \A c \in Entries("Claim") : c.by = {escrow.maker_rep}
=============================================================================
