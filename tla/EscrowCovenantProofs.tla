------------------------ MODULE EscrowCovenantProofs ------------------------
(***************************************************************************)
(* Proofs about EscrowCovenant, for every choice of keys, terms and clock. *)
(* The inductive invariant is Inductive: types, the accounting of the      *)
(* value, the history that each phase implies, and the four statements     *)
(* about who may be paid and when, which a spent escrow keeps for ever.    *)
(***************************************************************************)
EXTENDS EscrowCovenant, TLAPS

-----------------------------------------------------------------------------
(* Facts about the operators *)

\* A signature check is satisfied by exactly the key it names, and that key has
\* a holder: no branch of the covenant accepts somebody else's signature.
LEMMA SignerIsNamedKey ==
  ASSUME NEW k, NEW by \in SignedBy(k)
  PROVE  by = {k} /\ k \in Signers
BY DEF SignedBy

\* A branch gated on the deadline executes strictly after it, because a final
\* transaction's lock time is strictly below the DAA score.
LEMMA DeadlineIsStrict ==
  ASSUME TypeOK, DeadlineReached
  PROVE  daa > Deadline
<1>1. PICK t \in FinalLockTimes : t >= Deadline
  BY DEF DeadlineReached
<1>2. t \in Nat /\ t < daa /\ daa \in Nat /\ Deadline \in Nat
  BY <1>1, TermsAssumption DEF FinalLockTimes, Scores, TypeOK
<1> QED BY <1>1, <1>2

\* The relative timelock is the age of the output being spent.
LEMMA ReleaseIsDelayed ==
  ASSUME TypeOK, ReleaseDelayOver
  PROVE  daa >= escrow.since + AutoReleaseDelay
<1>1. PICK sequence \in Scores : sequence >= AutoReleaseDelay /\ escrow.since + sequence <= daa
  BY DEF ReleaseDelayOver
<1>2. escrow.since \in Nat /\ daa \in Nat /\ AutoReleaseDelay \in Nat /\ sequence \in Nat
  BY <1>1, TermsAssumption DEF Scores, TypeOK, EscrowStates
<1> QED BY <1>1, <1>2

-----------------------------------------------------------------------------
(* Type correctness *)

\* Initially every variable has its type.
LEMMA InitTypeOK == Init => TypeOK
BY TermsAssumption DEF Init, Opened, TypeOK, EscrowStates, Phases, Scores, Unpaid

\* A transaction that keeps the escrow in the covenant preserves types.
LEMMA ContinueTypeOK ==
  ASSUME TypeOK,
         NEW branch \in Branches, NEW by \in SUBSET Signers,
         NEW state, NEW value \in Nat,
         state.phase \in Phases, state.maker \in Keys \cup {Zero},
         state.maker_rep \in Pseudonyms \cup {Zero}, state.tracking \in Hashes \cup {Zero},
         state.shippedAt \in Scores,
         state.phase \in {"Claimed", "Shipped", "Disputed"} => state.maker \in Keys,
         state.phase \in {"Shipped", "Disputed"} => state.tracking \in Hashes,
         Continue(branch, by, state, value)
  PROVE  TypeOK'
BY DEF TypeOK, Continue, Executed, EscrowStates, LogEntries, Payouts

\* A transaction that pays the escrow out preserves types.
LEMMA LeaveTypeOK ==
  ASSUME TypeOK,
         NEW branch \in Branches, NEW by \in SUBSET Signers,
         NEW to \in Keys \cup {Zero}, NEW amount \in Nat, NEW len \in {0, 64},
         Leave(branch, by, to, amount, len)
  PROVE  TypeOK'
<1>1. PICK ids \in SUBSET Sides :
        payout' = [branch |-> branch, to |-> to, amount |-> amount, len |-> len, ids |-> ids]
  BY DEF Leave
<1>2. payout' \in Payouts
  BY <1>1 DEF Payouts
<1>3. escrow' \in EscrowStates /\ escrow'.phase = "Spent"
  BY DEF Leave, TypeOK, EscrowStates
<1>4. log' \subseteq LogEntries
  BY DEF Leave, Executed, TypeOK, LogEntries
<1>5. daa' \in Scores
  BY DEF Leave, TypeOK
<1> QED BY <1>2, <1>3, <1>4, <1>5 DEF TypeOK

\* Every step preserves types.
LEMMA NextTypeOK == TypeOK /\ [Next]_vars => TypeOK'
<1> SUFFICES ASSUME TypeOK, [Next]_vars PROVE TypeOK'
  OBVIOUS
<1> USE TermsAssumption
<1>t. /\ escrow \in EscrowStates
      /\ escrow.maker \in Keys \cup {Zero} /\ escrow.maker_rep \in Pseudonyms \cup {Zero}
      /\ escrow.tracking \in Hashes \cup {Zero} /\ escrow.shippedAt \in Scores
      /\ escrow.value \in Nat /\ 0 \in Scores
  BY DEF TypeOK, EscrowStates, Scores
<1>v. ClaimedValue \in Nat /\ Reward \in Nat /\ escrow.value + Bond \in Nat
  BY <1>t DEF ClaimedValue
<1>b. Buyer \in Keys \cup {Zero}
  OBVIOUS
<1>1. CASE Claim
  <2>0. PICK maker \in Keys, rep \in Pseudonyms : \E by \in SignedBy(rep) :
          Continue("Claim", by,
                   [phase |-> "Claimed", maker |-> maker, maker_rep |-> rep,
                    tracking |-> Zero, shippedAt |-> 0], escrow.value + Bond)
    BY <1>1 DEF Claim
  <2>1. PICK by \in SignedBy(rep) :
          Continue("Claim", by,
                   [phase |-> "Claimed", maker |-> maker, maker_rep |-> rep,
                    tracking |-> Zero, shippedAt |-> 0], escrow.value + Bond)
    BY <2>0
  <2>2. by \in SUBSET Signers
    BY <2>1, SignerIsNamedKey
  <2> QED BY <1>t, <1>v, <2>1, <2>2, ContinueTypeOK DEF Branches, Phases
<1>2. CASE Ship
  <2>1. PICK by \in SignedBy(escrow.maker), rep \in Pseudonyms \cup {Zero},
             tracking \in Hashes, lockTime \in WaivableLockTimes :
          Continue("Ship", by,
                   [phase |-> "Shipped", maker |-> escrow.maker, maker_rep |-> rep,
                    tracking |-> tracking, shippedAt |-> lockTime], escrow.value)
    BY <1>2 DEF Ship
  <2>2. by \in SUBSET Signers /\ lockTime \in Scores
    BY <2>1, SignerIsNamedKey DEF WaivableLockTimes
  <2>3. escrow.maker \in Keys
    BY <1>2 DEF Ship, TypeOK
  <2> QED BY <1>t, <2>1, <2>2, <2>3, ContinueTypeOK DEF Branches, Phases
<1>3. CASE Dispute
  <2>1. PICK by \in SignedBy(Buyer) :
          Continue("Dispute", by, [escrow EXCEPT !.phase = "Disputed"], escrow.value)
    BY <1>3 DEF Dispute
  <2>2. by \in SUBSET Signers
    BY <2>1, SignerIsNamedKey
  <2> DEFINE state == [escrow EXCEPT !.phase = "Disputed"]
  <2>3. /\ state.phase = "Disputed" /\ state.maker = escrow.maker
        /\ state.maker_rep = escrow.maker_rep /\ state.tracking = escrow.tracking
        /\ state.shippedAt = escrow.shippedAt
        /\ escrow.maker \in Keys /\ escrow.tracking \in Hashes
    BY <1>t, <1>3 DEF EscrowStates, Dispute, TypeOK
  <2> HIDE DEF state
  <2>4. Continue("Dispute", by, state, escrow.value)
    BY <2>1 DEF state
  <2> QED BY <1>t, <2>2, <2>3, <2>4, ContinueTypeOK DEF Branches, Phases
<1>4. CASE Settle
  BY <1>4, <1>t, <1>v, SignerIsNamedKey, LeaveTypeOK DEF Settle, Branches
<1>5. CASE AutoRelease
  BY <1>5, <1>t, <1>v, SignerIsNamedKey, LeaveTypeOK DEF AutoRelease, Branches
<1>6. CASE Slash
  BY <1>6, <1>b, <1>v, SignerIsNamedKey, LeaveTypeOK DEF Slash, Branches
<1>7. CASE Refund
  BY <1>7, <1>b, <1>v, SignerIsNamedKey, LeaveTypeOK DEF Refund, Branches
<1>8. ASSUME NEW branch \in Branches, NEW k \in Keys \cup {Zero}, Resolve(branch, k)
      PROVE  TypeOK'
  <2>1. PICK arb \in SignedBy(Arbiter), ben \in SignedBy(k) :
          Leave(branch, arb \cup ben, k, ClaimedValue, 64)
    BY <1>8 DEF Resolve
  <2>2. arb \cup ben \in SUBSET Signers
    BY <2>1, SignerIsNamedKey
  <2> QED BY <1>v, <2>1, <2>2, LeaveTypeOK
<1>9. CASE ResolveToMaker
  BY <1>9, <1>8, <1>t DEF ResolveToMaker, Branches
<1>10. CASE ResolveToBuyer
  BY <1>10, <1>8, <1>b DEF ResolveToBuyer, Branches
<1>11. CASE Tick
  BY <1>11 DEF Tick, TypeOK, Scores
<1>12. CASE UNCHANGED vars
  BY <1>12 DEF vars, TypeOK
<1> QED
  BY <1>1, <1>2, <1>3, <1>4, <1>5, <1>6, <1>7, <1>9, <1>10, <1>11, <1>12 DEF Next, Finished

\* Type correctness of the covenant, whatever the terms of the job: a claimed
\* escrow names somebody to pay, and a shipped one a tracking hash.
THEOREM TypeCorrect == Spec => []TypeOK
<1> QED BY InitTypeOK, NextTypeOK, PTL DEF Spec

-----------------------------------------------------------------------------
(* What each kind of step does to the state *)

\* The entry that a step adds to the history.
Entry(branch, by) == [branch |-> branch, by |-> by, at |-> daa]

\* A claim starts from OPEN, records a pseudonym that signed, and adds the bond.
LEMMA ClaimEffect ==
  ASSUME Claim
  PROVE  \E maker \in Keys, rep \in Pseudonyms :
           /\ escrow.phase = "Open"
           /\ escrow' = [phase |-> "Claimed", maker |-> maker, maker_rep |-> rep,
                         tracking |-> Zero, shippedAt |-> 0,
                         value |-> escrow.value + Bond, since |-> daa]
           /\ log' = log \cup {Entry("Claim", {rep})}
           /\ payout' = payout /\ daa' = daa
BY SignerIsNamedKey DEF Claim, Continue, Executed, Entry

\* A shipment starts from CLAIMED, is signed by the maker on record, and dates
\* itself as it likes.
LEMMA ShipEffect ==
  ASSUME Ship
  PROVE  \E rep \in Pseudonyms \cup {Zero}, tracking \in Hashes, lockTime \in Scores :
           /\ escrow.phase = "Claimed"
           /\ escrow' = [phase |-> "Shipped", maker |-> escrow.maker, maker_rep |-> rep,
                         tracking |-> tracking, shippedAt |-> lockTime,
                         value |-> escrow.value, since |-> daa]
           /\ log' = log \cup {Entry("Ship", {escrow.maker})}
           /\ payout' = payout /\ daa' = daa
<1>1. PICK by \in SignedBy(escrow.maker), rep \in Pseudonyms \cup {Zero},
           tracking \in Hashes, lockTime \in Scores :
        Continue("Ship", by,
                 [phase |-> "Shipped", maker |-> escrow.maker, maker_rep |-> rep,
                  tracking |-> tracking, shippedAt |-> lockTime], escrow.value)
  BY DEF Ship, WaivableLockTimes
<1>2. escrow.phase = "Claimed" /\ by = {escrow.maker}
  BY <1>1, SignerIsNamedKey DEF Ship
<1> QED BY <1>1, <1>2 DEF Continue, Executed, Entry

\* A dispute starts from SHIPPED, on an arbitrated job, and keeps every field but
\* the phase.
LEMMA DisputeEffect ==
  ASSUME Dispute, TypeOK
  PROVE  /\ Arbitrated /\ escrow.phase = "Shipped"
         /\ escrow' = [phase |-> "Disputed", maker |-> escrow.maker,
                       maker_rep |-> escrow.maker_rep, tracking |-> escrow.tracking,
                       shippedAt |-> escrow.shippedAt, value |-> escrow.value, since |-> daa]
         /\ log' = log \cup {Entry("Dispute", {Buyer})}
         /\ payout' = payout /\ daa' = daa
BY SignerIsNamedKey DEF Dispute, Continue, Executed, Entry, TypeOK, EscrowStates

\* What leaving the covenant does, whichever branch does it.
LEMMA LeaveEffect ==
  ASSUME NEW branch \in Branches, NEW by, NEW to, NEW amount, NEW len,
         Leave(branch, by, to, amount, len), TypeOK
  PROVE  /\ escrow'.phase = "Spent"
         /\ escrow'.maker = escrow.maker /\ escrow'.maker_rep = escrow.maker_rep
         /\ escrow'.shippedAt = escrow.shippedAt
         /\ escrow'.value = escrow.value /\ escrow'.since = escrow.since
         /\ payout' # Unpaid /\ payout'.branch = branch /\ payout'.to = to
         /\ payout'.amount = amount /\ payout'.len = len
         /\ log' = log \cup {Entry(branch, by)} /\ daa' = daa
<1>1. PICK ids \in (IF len = 64 THEN SUBSET Sides ELSE {{}}) :
        payout' = [branch |-> branch, to |-> to, amount |-> amount, len |-> len, ids |-> ids]
  BY DEF Leave
<1>2. payout' # Unpaid /\ payout'.branch = branch /\ payout'.to = to
      /\ payout'.amount = amount /\ payout'.len = len
  BY <1>1 DEF Unpaid, Branches
<1>3. /\ escrow'.phase = "Spent"
      /\ escrow'.maker = escrow.maker /\ escrow'.maker_rep = escrow.maker_rep
      /\ escrow'.shippedAt = escrow.shippedAt
      /\ escrow'.value = escrow.value /\ escrow'.since = escrow.since
  BY DEF Leave, TypeOK, EscrowStates
<1>4. log' = log \cup {Entry(branch, by)} /\ daa' = daa
  BY DEF Leave, Executed, Entry
<1> QED BY <1>2, <1>3, <1>4

\* A step adds its entry to the entries of its own branch and to no other.
LEMMA EntriesAfter ==
  ASSUME NEW branch, NEW by, log' = log \cup {Entry(branch, by)}
  PROVE  \A other \in Branches :
           Entries(other)' = IF other = branch THEN Entries(other) \cup {Entry(branch, by)}
                             ELSE Entries(other)
BY DEF Entries, Entry

\* The fields of an entry.
LEMMA EntryFields ==
  ASSUME NEW branch, NEW by
  PROVE  /\ Entry(branch, by).branch = branch
         /\ Entry(branch, by).by = by
         /\ Entry(branch, by).at = daa
BY DEF Entry

\* An entry of the history is among the entries of its branch.
LEMMA EntriesOfLog ==
  ASSUME NEW branch
  PROVE  /\ (\A e \in log : e.branch # branch) => Entries(branch) = {}
         /\ \A e \in Entries(branch) : e \in log /\ e.branch = branch
         /\ \A e \in log : e.branch = branch => e \in Entries(branch)
BY DEF Entries

-----------------------------------------------------------------------------
(* Safety *)

\* The inductive invariant: the phase determines which branches have executed
\* and who signed them, which is what the statements about payouts rest on.
Inductive ==
  /\ TypeOK
  /\ PhaseHistory
  /\ ValueAccounted
  /\ MakerPaidForShipping
  /\ BuyerPaidOnDefault
  /\ FullDisputeWindow
  /\ DefaultOnClaimant

\* An escrow that has just been opened satisfies it.
LEMMA InitInductive == Init => Inductive
BY InitTypeOK, TermsAssumption
DEF Init, Opened, Inductive, PhaseHistory, ValueAccounted, MakerPaidForShipping,
    BuyerPaidOnDefault, FullDisputeWindow, DefaultOnClaimant, Entries, Unpaid, Left

\* Transactions that stay in the covenant preserve it: nothing has been paid, so
\* only the history and the window have to be looked at.
LEMMA ContinueInductive ==
  ASSUME Inductive, TypeOK', Claim \/ Ship \/ Dispute
  PROVE  Inductive'
<1> USE DEF Inductive
<1>0. "Claim" \in Branches /\ "Ship" \in Branches /\ "Dispute" \in Branches
      /\ "AutoRelease" \in Branches /\ "Slash" \in Branches
  BY DEF Branches
<1>1. CASE Claim
  <2>1. PICK maker \in Keys, rep \in Pseudonyms :
           /\ escrow.phase = "Open"
           /\ escrow' = [phase |-> "Claimed", maker |-> maker, maker_rep |-> rep,
                         tracking |-> Zero, shippedAt |-> 0,
                         value |-> escrow.value + Bond, since |-> daa]
           /\ log' = log \cup {Entry("Claim", {rep})}
           /\ payout' = payout /\ daa' = daa
    BY <1>1, ClaimEffect
  <2>2. log = {} /\ payout = Unpaid
    BY <2>1 DEF PhaseHistory, ValueAccounted, Left
  <2>3. /\ Entries("Claim")' = {Entry("Claim", {rep})}
        /\ Entries("Ship")' = {} /\ Entries("Dispute")' = {}
        /\ Entries("AutoRelease")' = {} /\ Entries("Slash")' = {}
        /\ Entries("Claim") = {}
    BY <1>0, <2>1, <2>2, EntriesAfter, EntriesOfLog
  <2>4. PhaseHistory'
    BY <2>1, <2>2, <2>3, EntryFields DEF PhaseHistory
  <2>5. ValueAccounted'
    BY <2>1, <2>2, <2>3 DEF ValueAccounted, Left
  <2>6. MakerPaidForShipping' /\ BuyerPaidOnDefault'
    BY <2>1, <2>2 DEF MakerPaidForShipping, BuyerPaidOnDefault
  <2>7. FullDisputeWindow'
    BY <2>3 DEF FullDisputeWindow
  <2>8. DefaultOnClaimant'
    BY <2>1, <2>3, EntryFields DEF DefaultOnClaimant
  <2> QED BY <2>4, <2>5, <2>6, <2>7, <2>8
<1>2. CASE Ship
  <2>1. PICK rep \in Pseudonyms \cup {Zero}, tracking \in Hashes, lockTime \in Scores :
           /\ escrow.phase = "Claimed"
           /\ escrow' = [phase |-> "Shipped", maker |-> escrow.maker, maker_rep |-> rep,
                         tracking |-> tracking, shippedAt |-> lockTime,
                         value |-> escrow.value, since |-> daa]
           /\ log' = log \cup {Entry("Ship", {escrow.maker})}
           /\ payout' = payout /\ daa' = daa
    BY <1>2, ShipEffect
  <2>2. /\ payout = Unpaid /\ Entries("Claim") # {}
        /\ \A e \in log : e.branch = "Claim"
    BY <2>1 DEF PhaseHistory, ValueAccounted, Left
  <2>3. /\ Entries("Claim")' = Entries("Claim")
        /\ Entries("Ship")' = {Entry("Ship", {escrow.maker})} /\ Entries("Dispute")' = {}
        /\ Entries("AutoRelease")' = {} /\ Entries("Slash")' = {}
    <3>1. \A b \in Branches \ {"Claim"} : Entries(b) = {}
      BY <2>2, EntriesOfLog
    <3>2. \A b \in Branches :
            Entries(b)' = IF b = "Ship" THEN Entries(b) \cup {Entry("Ship", {escrow.maker})}
                          ELSE Entries(b)
      BY <2>1, EntriesAfter
    <3> QED BY <1>0, <3>1, <3>2
  <2>4. PhaseHistory'
    BY <2>1, <2>2, <2>3, EntryFields DEF PhaseHistory
  <2>5. ValueAccounted'
    BY <2>1, <2>2, <2>3 DEF ValueAccounted, Left
  <2>6. MakerPaidForShipping' /\ BuyerPaidOnDefault'
    BY <2>1, <2>2 DEF MakerPaidForShipping, BuyerPaidOnDefault
  <2>7. FullDisputeWindow'
    BY <2>1, <2>3, EntryFields DEF FullDisputeWindow
  <2>8. DefaultOnClaimant'
    BY <2>1, <2>3 DEF DefaultOnClaimant
  <2> QED BY <2>4, <2>5, <2>6, <2>7, <2>8
<1>3. CASE Dispute
  <2>1. /\ Arbitrated /\ escrow.phase = "Shipped"
        /\ escrow' = [phase |-> "Disputed", maker |-> escrow.maker,
                      maker_rep |-> escrow.maker_rep, tracking |-> escrow.tracking,
                      shippedAt |-> escrow.shippedAt, value |-> escrow.value, since |-> daa]
        /\ log' = log \cup {Entry("Dispute", {Buyer})}
        /\ payout' = payout /\ daa' = daa
    BY <1>3, DisputeEffect
  <2>2. /\ payout = Unpaid /\ Entries("Claim") # {} /\ Entries("Ship") # {}
        /\ \A e \in log : e.branch \in {"Claim", "Ship"}
        /\ \A d \in Entries("Ship") : d.by = {escrow.maker}
    BY <2>1 DEF PhaseHistory, ValueAccounted, Left
  <2>3. /\ Entries("Claim")' = Entries("Claim")
        /\ Entries("Ship")' = Entries("Ship")
        /\ Entries("Dispute")' = {Entry("Dispute", {Buyer})}
        /\ Entries("AutoRelease")' = {} /\ Entries("Slash")' = {}
    <3>1. \A b \in Branches \ {"Claim", "Ship"} : Entries(b) = {}
      BY <2>2, EntriesOfLog
    <3>2. \A b \in Branches :
            Entries(b)' = IF b = "Dispute" THEN Entries(b) \cup {Entry("Dispute", {Buyer})}
                          ELSE Entries(b)
      BY <2>1, EntriesAfter
    <3> QED BY <1>0, <3>1, <3>2
  <2>4. PhaseHistory'
    BY <2>1, <2>2, <2>3, EntryFields DEF PhaseHistory, Arbitrated
  <2>5. ValueAccounted'
    BY <2>1, <2>2, <2>3 DEF ValueAccounted, Left
  <2>6. MakerPaidForShipping' /\ BuyerPaidOnDefault'
    BY <2>1, <2>2 DEF MakerPaidForShipping, BuyerPaidOnDefault
  <2>7. FullDisputeWindow'
    BY <2>1, <2>2, <2>3 DEF FullDisputeWindow
  <2>8. DefaultOnClaimant'
    BY <2>1, <2>3 DEF DefaultOnClaimant
  <2> QED BY <2>4, <2>5, <2>6, <2>7, <2>8
<1> QED BY <1>1, <1>2, <1>3

\* What a payout relies on: before it nothing was paid, after it the history has
\* one entry more and every other field of the escrow stands.
LEMMA PayoutStep ==
  ASSUME Inductive, ~Left,
         NEW branch \in Branches \ {"Claim", "Ship", "Dispute"},
         NEW by, NEW to, NEW amount, NEW len,
         Leave(branch, by, to, amount, len)
  PROVE  /\ PhaseHistory'
         /\ amount = escrow.value => ValueAccounted'
         /\ \A b \in Branches : Entries(b)' = IF b = branch THEN Entries(b) \cup {Entry(branch, by)}
                                              ELSE Entries(b)
         /\ Entries("AutoRelease") = {} /\ Entries("Slash") = {}
<1> USE DEF Inductive
<1>1. /\ escrow'.phase = "Spent"
      /\ escrow'.maker = escrow.maker /\ escrow'.maker_rep = escrow.maker_rep
      /\ escrow'.shippedAt = escrow.shippedAt
      /\ escrow'.value = escrow.value /\ escrow'.since = escrow.since
      /\ payout' # Unpaid /\ payout'.amount = amount
      /\ log' = log \cup {Entry(branch, by)} /\ daa' = daa
  BY LeaveEffect
<1>2. \A b \in Branches : Entries(b)' = IF b = branch THEN Entries(b) \cup {Entry(branch, by)}
                                        ELSE Entries(b)
  BY <1>1, EntriesAfter
<1>3. Entries("Claim")' = Entries("Claim") /\ Entries("Ship")' = Entries("Ship")
      /\ Entries("Dispute")' = Entries("Dispute")
  BY <1>2 DEF Branches
<1>4. PhaseHistory'
  BY <1>1, <1>3 DEF PhaseHistory
<1>5. amount = escrow.value => ValueAccounted'
  BY <1>1, <1>3 DEF ValueAccounted, Left
<1>6. escrow.phase \in Phases
  BY DEF TypeOK, EscrowStates, Left
<1>7. \A e \in log : e.branch \in {"Claim", "Ship", "Dispute"}
  BY <1>6 DEF PhaseHistory, Phases
<1>8. Entries("AutoRelease") = {} /\ Entries("Slash") = {}
  BY <1>7, EntriesOfLog
<1> QED BY <1>2, <1>4, <1>5, <1>8

\* The transactions that pay the escrow out preserve the invariant.
LEMMA LeaveInductive ==
  ASSUME Inductive, TypeOK',
         Settle \/ AutoRelease \/ Slash \/ Refund \/ ResolveToMaker \/ ResolveToBuyer
  PROVE  Inductive'
<1> USE DEF Inductive
<1> USE TermsAssumption
<1>0. /\ Buyer \in Signers /\ Buyer # Zero
      /\ {"Claim", "Ship", "Dispute", "Settle", "AutoRelease", "Slash", "Refund",
          "ResolveToMaker", "ResolveToBuyer"} = Branches
  BY DEF Signers, Branches
<1>c. Entries("Claim") # {} => escrow.value = ClaimedValue
  BY DEF ValueAccounted, ClaimedValue
<1>1. CASE Settle
  <2>1. escrow.phase = "Shipped" /\ Leave("Settle", {Buyer}, escrow.maker, ClaimedValue, 64)
    BY <1>1, SignerIsNamedKey DEF Settle
  <2>2. /\ ~Left /\ Entries("Claim") # {} /\ Entries("Ship") # {}
        /\ \A s \in Entries("Ship") : s.by = {escrow.maker}
    BY <2>1 DEF Left, PhaseHistory
  <2>3. /\ PhaseHistory' /\ ValueAccounted'
        /\ Entries("Settle")' = Entries("Settle") \cup {Entry("Settle", {Buyer})}
        /\ Entries("Ship")' = Entries("Ship") /\ Entries("AutoRelease")' = {}
        /\ Entries("Slash")' = {}
    BY <1>0, <1>c, <2>1, <2>2, PayoutStep
  <2>4. /\ payout'.to = escrow.maker /\ escrow'.phase = "Spent" /\ escrow'.maker = escrow.maker
        /\ escrow'.shippedAt = escrow.shippedAt
    BY <1>0, <2>1, LeaveEffect
  <2>5. MakerPaidForShipping'
    BY <2>2, <2>3, <2>4, EntryFields DEF MakerPaidForShipping
  <2>6. BuyerPaidOnDefault'
    BY <2>4 DEF BuyerPaidOnDefault
  <2>7. FullDisputeWindow'
    BY <2>2, <2>3, <2>4 DEF FullDisputeWindow
  <2>8. DefaultOnClaimant'
    BY <2>3, <2>4 DEF DefaultOnClaimant
  <2> QED BY <2>3, <2>5, <2>6, <2>7, <2>8
<1>2. CASE AutoRelease
  <2>1. /\ escrow.phase = "Shipped" /\ ReleaseDelayOver
        /\ Leave("AutoRelease", {escrow.maker}, escrow.maker, ClaimedValue, 64)
    BY <1>2, SignerIsNamedKey DEF AutoRelease
  <2>2. /\ ~Left /\ Entries("Claim") # {} /\ Entries("Ship") # {} /\ Entries("Dispute") = {}
        /\ \A s \in Entries("Ship") : /\ s.by = {escrow.maker}
                                      /\ s.at = escrow.since
    BY <2>1, EntriesOfLog DEF Left, PhaseHistory
  <2>3. /\ PhaseHistory' /\ ValueAccounted'
        /\ Entries("AutoRelease")' = {Entry("AutoRelease", {escrow.maker})}
        /\ Entries("Ship")' = Entries("Ship") /\ Entries("Dispute")' = {}
        /\ Entries("Slash")' = {}
    BY <1>0, <1>c, <2>1, <2>2, PayoutStep
  <2>4. /\ payout'.to = escrow.maker /\ escrow'.phase = "Spent" /\ escrow'.maker = escrow.maker
        /\ escrow'.shippedAt = escrow.shippedAt
    BY <1>0, <2>1, LeaveEffect
  <2>5. daa >= escrow.since + AutoReleaseDelay
    BY <2>1, ReleaseIsDelayed
  <2>6. \A s \in Entries("Ship") : daa >= s.at + AutoReleaseDelay /\ daa - s.at >= AutoReleaseDelay
    <3>1. escrow.since \in Nat /\ daa \in Nat
      BY DEF TypeOK, EscrowStates, Scores
    <3> QED BY <2>2, <2>5, <3>1
  <2>7. MakerPaidForShipping'
    BY <2>2, <2>3, <2>4, <2>6, EntryFields DEF MakerPaidForShipping
  <2>8. BuyerPaidOnDefault'
    BY <2>4 DEF BuyerPaidOnDefault
  <2>9. FullDisputeWindow'
    BY <2>2, <2>3, <2>4, <2>6, EntryFields DEF FullDisputeWindow
  <2>10. DefaultOnClaimant'
    BY <2>3, <2>4 DEF DefaultOnClaimant
  <2> QED BY <2>3, <2>7, <2>8, <2>9, <2>10
<1>3. CASE Slash
  <2>1. /\ escrow.phase = "Claimed" /\ DeadlineReached
        /\ Leave("Slash", {Buyer}, Buyer, ClaimedValue, 64)
    BY <1>3, SignerIsNamedKey DEF Slash
  <2>2. /\ ~Left /\ Entries("Claim") # {} /\ Entries("Ship") = {}
        /\ \A c \in Entries("Claim") : c.by = {escrow.maker_rep}
    BY <2>1, EntriesOfLog DEF Left, PhaseHistory
  <2>3. /\ PhaseHistory' /\ ValueAccounted'
        /\ Entries("Slash")' = {Entry("Slash", {Buyer})}
        /\ Entries("Claim")' = Entries("Claim") /\ Entries("Ship")' = {}
    BY <1>0, <1>c, <2>1, <2>2, PayoutStep
  <2>4. /\ payout'.to = Buyer /\ payout'.len = 64 /\ escrow'.maker_rep = escrow.maker_rep
    BY <1>0, <2>1, LeaveEffect
  <2>5. daa > Deadline
    BY <2>1, DeadlineIsStrict
  <2>6. MakerPaidForShipping'
    BY <2>4 DEF MakerPaidForShipping
  <2>7. BuyerPaidOnDefault'
    BY <2>3, <2>4, <2>5, EntryFields DEF BuyerPaidOnDefault
  <2>8. FullDisputeWindow'
    BY <2>3 DEF FullDisputeWindow
  <2>9. DefaultOnClaimant'
    BY <2>2, <2>3, <2>4 DEF DefaultOnClaimant
  <2> QED BY <2>3, <2>6, <2>7, <2>8, <2>9
<1>4. CASE Refund
  <2>1. /\ escrow.phase = "Open" /\ DeadlineReached
        /\ Leave("Refund", {Buyer}, Buyer, Reward, 0)
    BY <1>4, SignerIsNamedKey DEF Refund
  <2>2. /\ ~Left /\ log = {} /\ Entries("Claim") = {} /\ Entries("Ship") = {}
        /\ Entries("Refund") = {} /\ escrow.value = Reward
    BY <2>1 DEF Left, PhaseHistory, Entries, ValueAccounted
  <2>3. /\ PhaseHistory' /\ ValueAccounted'
        /\ Entries("Refund")' = {Entry("Refund", {Buyer})}
        /\ Entries("Claim")' = {} /\ Entries("Ship")' = {} /\ Entries("Slash")' = {}
    BY <1>0, <2>1, <2>2, PayoutStep
  <2>4. /\ payout'.to = Buyer /\ payout'.len = 0 /\ escrow'.phase = "Spent"
    BY <1>0, <2>1, LeaveEffect
  <2>5. daa > Deadline
    BY <2>1, DeadlineIsStrict
  <2>6. MakerPaidForShipping'
    BY <2>4 DEF MakerPaidForShipping
  <2>7. BuyerPaidOnDefault'
    BY <2>3, <2>4, <2>5, EntryFields DEF BuyerPaidOnDefault
  <2>8. FullDisputeWindow' /\ DefaultOnClaimant'
    BY <2>3, <2>4 DEF FullDisputeWindow, DefaultOnClaimant
  <2> QED BY <2>3, <2>6, <2>7, <2>8
<1>5. CASE ResolveToMaker
  <2>1. /\ Arbitrated /\ escrow.phase = "Disputed"
        /\ Leave("ResolveToMaker", {Arbiter} \cup {escrow.maker}, escrow.maker, ClaimedValue, 64)
    BY <1>5, SignerIsNamedKey DEF ResolveToMaker, Resolve
  <2>2. /\ ~Left /\ Entries("Claim") # {} /\ Entries("Ship") # {} /\ Entries("Dispute") # {}
        /\ \A s \in Entries("Ship") : s.by = {escrow.maker}
        /\ \A d \in Entries("Dispute") : d.by = {Buyer}
    BY <2>1 DEF Left, PhaseHistory
  <2> DEFINE ruling == Entry("ResolveToMaker", {Arbiter} \cup {escrow.maker})
  <2>3. /\ PhaseHistory' /\ ValueAccounted'
        /\ Entries("ResolveToMaker")' = Entries("ResolveToMaker") \cup {ruling}
        /\ Entries("Ship")' = Entries("Ship") /\ Entries("Dispute")' = Entries("Dispute")
        /\ Entries("AutoRelease")' = {} /\ Entries("Slash")' = {}
    <3>1. "ResolveToMaker" \in Branches \ {"Claim", "Ship", "Dispute"} /\ ClaimedValue = escrow.value
      BY <1>0, <1>c, <2>2
    <3>2. /\ PhaseHistory' /\ ValueAccounted'
          /\ \A b \in Branches : Entries(b)' = IF b = "ResolveToMaker" THEN Entries(b) \cup {ruling}
                                               ELSE Entries(b)
          /\ Entries("AutoRelease") = {} /\ Entries("Slash") = {}
      BY <2>1, <2>2, <3>1, PayoutStep
    <3> HIDE DEF ruling
    <3> QED BY <1>0, <3>2
  <2>4. /\ payout'.to = escrow.maker /\ escrow'.phase = "Spent" /\ escrow'.maker = escrow.maker
        /\ escrow'.shippedAt = escrow.shippedAt
    BY <1>0, <2>1, LeaveEffect
  <2>5. ruling.by = {Arbiter, escrow.maker} /\ ruling \in Entries("ResolveToMaker")'
    BY <2>3, EntryFields
  <2>6. MakerPaidForShipping'
    <3>1. PICK s \in Entries("Ship"), d \in Entries("Dispute") : s.by = {escrow.maker} /\ d.by = {Buyer}
      BY <2>2
    <3>2. s \in Entries("Ship")' /\ d \in Entries("Dispute")'
      BY <2>3, <3>1
    <3> HIDE DEF ruling
    <3> QED BY <2>1, <2>4, <2>5, <3>1, <3>2 DEF MakerPaidForShipping, Arbitrated
  <2>7. BuyerPaidOnDefault'
    BY <2>4 DEF BuyerPaidOnDefault
  <2>8. FullDisputeWindow' /\ DefaultOnClaimant'
    BY <2>2, <2>3, <2>4 DEF FullDisputeWindow, DefaultOnClaimant
  <2> QED BY <2>3, <2>6, <2>7, <2>8
<1>6. CASE ResolveToBuyer
  <2>1. /\ Arbitrated /\ escrow.phase = "Disputed"
        /\ Leave("ResolveToBuyer", {Arbiter} \cup {Buyer}, Buyer, ClaimedValue, 64)
    BY <1>6, SignerIsNamedKey DEF ResolveToBuyer, Resolve
  <2>2. /\ ~Left /\ Entries("Claim") # {} /\ Entries("Ship") # {} /\ Entries("Dispute") # {}
        /\ \A s \in Entries("Ship") : s.by = {escrow.maker}
    BY <2>1 DEF Left, PhaseHistory
  <2> DEFINE ruling == Entry("ResolveToBuyer", {Arbiter} \cup {Buyer})
  <2>3. /\ PhaseHistory' /\ ValueAccounted'
        /\ Entries("ResolveToBuyer")' = Entries("ResolveToBuyer") \cup {ruling}
        /\ Entries("Ship")' = Entries("Ship") /\ Entries("Dispute")' = Entries("Dispute")
        /\ Entries("AutoRelease")' = {} /\ Entries("Slash")' = {}
    <3>1. "ResolveToBuyer" \in Branches \ {"Claim", "Ship", "Dispute"} /\ ClaimedValue = escrow.value
      BY <1>0, <1>c, <2>2
    <3>2. /\ PhaseHistory' /\ ValueAccounted'
          /\ \A b \in Branches : Entries(b)' = IF b = "ResolveToBuyer" THEN Entries(b) \cup {ruling}
                                               ELSE Entries(b)
          /\ Entries("AutoRelease") = {} /\ Entries("Slash") = {}
      BY <2>1, <2>2, <3>1, PayoutStep
    <3> HIDE DEF ruling
    <3> QED BY <1>0, <3>2
  <2>4. /\ payout'.to = Buyer /\ escrow'.phase = "Spent" /\ escrow'.maker = escrow.maker
        /\ escrow'.shippedAt = escrow.shippedAt
    BY <1>0, <2>1, LeaveEffect
  <2>5. ruling.by = {Arbiter, Buyer} /\ ruling \in Entries("ResolveToBuyer")'
    BY <2>3, EntryFields
  <2>6. MakerPaidForShipping'
    BY <2>4 DEF MakerPaidForShipping
  <2>7. BuyerPaidOnDefault'
    BY <2>1, <2>2, <2>3, <2>4, <2>5 DEF BuyerPaidOnDefault, Arbitrated
  <2>8. FullDisputeWindow' /\ DefaultOnClaimant'
    BY <2>2, <2>3, <2>4 DEF FullDisputeWindow, DefaultOnClaimant
  <2> QED BY <2>3, <2>6, <2>7, <2>8
<1> QED BY <1>1, <1>2, <1>3, <1>4, <1>5, <1>6

\* The invariant is inductive.
LEMMA NextInductive == Inductive /\ [Next]_vars => Inductive'
<1> SUFFICES ASSUME Inductive, [Next]_vars PROVE Inductive'
  OBVIOUS
<1>1. TypeOK'
  BY NextTypeOK DEF Inductive
<1>2. CASE Claim \/ Ship \/ Dispute
  BY <1>1, <1>2, ContinueInductive
<1>3. CASE Settle \/ AutoRelease \/ Slash \/ Refund \/ ResolveToMaker \/ ResolveToBuyer
  BY <1>1, <1>3, LeaveInductive
<1>4. CASE UNCHANGED <<escrow, payout, log>>
  BY <1>1, <1>4
  DEF Inductive, PhaseHistory, ValueAccounted, MakerPaidForShipping, BuyerPaidOnDefault,
      FullDisputeWindow, DefaultOnClaimant, Entries, Left
<1> QED BY <1>2, <1>3, <1>4 DEF Next, Tick, Finished, vars

\* The invariant holds of every behaviour.
THEOREM InductiveHolds == Spec => []Inductive
<1> QED BY InitInductive, NextInductive, PTL DEF Spec

\* Every phase has exactly the branches behind it that lead there, signed by those
\* on record: no phase is reached around the one before it.
THEOREM HistoryFollowsPhase == Spec => []PhaseHistory
<1>1. Inductive => PhaseHistory
  BY DEF Inductive
<1> QED BY <1>1, InductiveHolds, PTL

\* The covenant holds the reward, then reward and bond, and pays out all of it.
THEOREM ValueIsAccounted == Spec => []ValueAccounted
<1>1. Inductive => ValueAccounted
  BY DEF Inductive
<1> QED BY <1>1, InductiveHolds, PTL

\* The maker is paid for a shipment of theirs that the buyer released, the arbiter
\* upheld, or nobody disputed for the whole delay.
THEOREM MakerIsPaidForShipping == Spec => []MakerPaidForShipping
<1>1. Inductive => MakerPaidForShipping
  BY DEF Inductive
<1> QED BY <1>1, InductiveHolds, PTL

\* The buyer takes money back for an unclaimed job or an unshipped one, after the
\* deadline, or on the arbiter's ruling.
THEOREM BuyerIsPaidOnDefault == Spec => []BuyerPaidOnDefault
<1>1. Inductive => BuyerPaidOnDefault
  BY DEF Inductive
<1> QED BY <1>1, InductiveHolds, PTL

\* Whatever shipped_at says, it never shortens the dispute window.
THEOREM DisputeWindowIsFull == Spec => []FullDisputeWindow
<1>1. Inductive => FullDisputeWindow
  BY DEF Inductive
<1> QED BY <1>1, InductiveHolds, PTL

\* A slash lands on the pseudonym that signed the claim.
THEOREM DefaultLandsOnClaimant == Spec => []DefaultOnClaimant
<1>1. Inductive => DefaultOnClaimant
  BY DEF Inductive
<1> QED BY <1>1, InductiveHolds, PTL

-----------------------------------------------------------------------------
(* The covenant implements the promise *)

\* How a state in the covenant looks through the refinement mapping.
LEMMA StageInside ==
  ASSUME ~Left
  PROVE  Stage = escrow.phase
BY DEF Stage, Left

\* How a spent escrow looks through it.
LEMMA StageOutside ==
  ASSUME Left
  PROVE  /\ payout.branch = "Refund" => Stage = "Refunded"
         /\ payout.branch \in {"Slash", "ResolveToBuyer"} => Stage = "Slashed"
         /\ payout.branch \in {"Settle", "AutoRelease", "ResolveToMaker"} => Stage = "Settled"
BY DEF Stage, Left

\* A payout, seen through the mapping.
LEMMA PayStep ==
  ASSUME Inductive, NEW branch \in Branches, NEW by, NEW to, NEW amount, NEW len,
         Leave(branch, by, to, amount, len)
  PROVE  /\ Left' /\ payout'.branch = branch
         /\ Paid' = [to |-> to, amount |-> amount]
         /\ escrow'.maker = escrow.maker /\ daa' = daa
<1>1. TypeOK
  BY DEF Inductive
<1> QED BY <1>1, LeaveEffect DEF Paid, Left

\* An escrow that has just been opened is a fresh promise.
LEMMA InitRefines == Init => Promise!PromiseInit
<1> SUFFICES ASSUME Init PROVE Promise!PromiseInit
  OBVIOUS
<1>1. escrow.phase = "Open" /\ escrow.maker = Zero /\ payout = Unpaid
  BY DEF Init, Opened
<1>2. Stage = "Open" /\ Paid = [to |-> Zero, amount |-> 0]
  BY <1>1, StageInside DEF Left, Paid
<1>3. (daa > Deadline) \in BOOLEAN
  OBVIOUS
<1> QED BY <1>1, <1>2, <1>3 DEF Promise!PromiseInit

\* Every accepted transaction, and every tick of the clock, is a step of the
\* promise or changes nothing it speaks of.
LEMMA NextRefines ==
  Inductive /\ [Next]_vars => [Promise!PromiseNext]_(Promise!promiseVars)
<1> SUFFICES ASSUME Inductive, [Next]_vars
             PROVE  Promise!PromiseNext \/ UNCHANGED Promise!promiseVars
  OBVIOUS
<1> USE TermsAssumption
<1>t. TypeOK /\ (payout # Unpaid <=> Left)
  BY DEF Inductive, ValueAccounted
<1>c. Entries("Claim") # {} => escrow.value = ClaimedValue
  BY DEF Inductive, ValueAccounted, ClaimedValue
<1>1. CASE Claim
  <2>1. PICK maker \in Keys, rep \in Pseudonyms :
           /\ escrow.phase = "Open"
           /\ escrow' = [phase |-> "Claimed", maker |-> maker, maker_rep |-> rep,
                         tracking |-> Zero, shippedAt |-> 0,
                         value |-> escrow.value + Bond, since |-> daa]
           /\ log' = log \cup {Entry("Claim", {rep})}
           /\ payout' = payout /\ daa' = daa
    BY <1>1, ClaimEffect
  <2>2. Stage = "Open" /\ Stage' = "Claimed" /\ Paid' = Paid
    BY <2>1, StageInside DEF Stage, Left, Paid
  <2>3. Promise!Advance("Claimed")
    BY <2>2 DEF Promise!Advance, Promise!MayTransitionTo
  <2>4. Promise!Take
    BY <2>1, <2>2, <2>3 DEF Promise!Take
  <2> QED BY <2>4 DEF Promise!PromiseNext
<1>2. CASE Ship
  <2>1. /\ escrow.phase = "Claimed" /\ escrow'.phase = "Shipped"
        /\ escrow'.maker = escrow.maker /\ payout' = payout /\ daa' = daa
    BY <1>2, ShipEffect
  <2>2. Stage = "Claimed" /\ Stage' = "Shipped" /\ Paid' = Paid
    BY <2>1, StageInside DEF Stage, Left, Paid
  <2>3. Promise!Advance("Shipped")
    BY <2>2 DEF Promise!Advance, Promise!MayTransitionTo
  <2>4. Promise!Deliver
    BY <2>1, <2>2, <2>3 DEF Promise!Deliver
  <2> QED BY <2>4 DEF Promise!PromiseNext
<1>3. CASE Dispute
  <2>1. /\ escrow.phase = "Shipped" /\ escrow'.phase = "Disputed" /\ Arbitrated
        /\ escrow'.maker = escrow.maker /\ payout' = payout /\ daa' = daa
    BY <1>t, <1>3, DisputeEffect
  <2>2. Stage = "Shipped" /\ Stage' = "Disputed" /\ Paid' = Paid
    BY <2>1, StageInside DEF Stage, Left, Paid
  <2>3. Promise!Advance("Disputed")
    BY <2>2 DEF Promise!Advance, Promise!MayTransitionTo
  <2>4. Promise!Contest
    BY <2>1, <2>2, <2>3 DEF Promise!Contest
  <2> QED BY <2>4 DEF Promise!PromiseNext
<1>4. ASSUME NEW branch \in {"Settle", "AutoRelease", "ResolveToMaker"}, NEW by,
             escrow.phase \in {"Shipped", "Disputed"},
             Leave(branch, by, escrow.maker, ClaimedValue, 64)
      PROVE  Promise!PromiseNext
  <2>1. /\ Left' /\ payout'.branch = branch
        /\ Paid' = [to |-> escrow.maker, amount |-> Reward + Bond]
        /\ escrow'.maker = escrow.maker /\ daa' = daa
    BY <1>4, PayStep DEF Branches, ClaimedValue
  <2>2. Stage = escrow.phase /\ Stage' = "Settled"
    BY <1>4, <2>1, StageInside DEF Stage, Left
  <2>3. Promise!SettleJob
    BY <1>4, <2>1, <2>2 DEF Promise!SettleJob, Promise!Pay
  <2> QED BY <2>3 DEF Promise!PromiseNext
<1>5. ASSUME NEW branch \in {"Slash", "ResolveToBuyer"}, NEW by,
             escrow.phase = "Disputed" \/ (escrow.phase = "Claimed" /\ daa > Deadline),
             Leave(branch, by, Buyer, ClaimedValue, 64)
      PROVE  Promise!PromiseNext
  <2>1. /\ Left' /\ payout'.branch = branch
        /\ Paid' = [to |-> Buyer, amount |-> Reward + Bond]
        /\ escrow'.maker = escrow.maker /\ daa' = daa
    BY <1>5, PayStep DEF Branches, ClaimedValue
  <2>2. Stage = escrow.phase /\ Stage' = "Slashed"
    BY <1>5, <2>1, StageInside DEF Stage, Left
  <2>3. Promise!ForfeitJob
    BY <1>5, <2>1, <2>2 DEF Promise!ForfeitJob, Promise!Pay
  <2> QED BY <2>3 DEF Promise!PromiseNext
<1>6. CASE Settle
  <2>1. escrow.phase = "Shipped" /\ Leave("Settle", {Buyer}, escrow.maker, ClaimedValue, 64)
    BY <1>6, SignerIsNamedKey DEF Settle
  <2> QED BY <1>4, <2>1
<1>7. CASE AutoRelease
  <2>1. /\ escrow.phase = "Shipped"
        /\ Leave("AutoRelease", {escrow.maker}, escrow.maker, ClaimedValue, 64)
    BY <1>7, SignerIsNamedKey DEF AutoRelease
  <2> QED BY <1>4, <2>1
<1>8. CASE ResolveToMaker
  <2>1. /\ escrow.phase = "Disputed"
        /\ Leave("ResolveToMaker", {Arbiter} \cup {escrow.maker}, escrow.maker, ClaimedValue, 64)
    BY <1>8, SignerIsNamedKey DEF ResolveToMaker, Resolve
  <2> QED BY <1>4, <2>1
<1>9. CASE Slash
  <2>1. /\ escrow.phase = "Claimed" /\ daa > Deadline
        /\ Leave("Slash", {Buyer}, Buyer, ClaimedValue, 64)
    BY <1>9, <1>t, SignerIsNamedKey, DeadlineIsStrict DEF Slash
  <2> QED BY <1>5, <2>1
<1>10. CASE ResolveToBuyer
  <2>1. /\ escrow.phase = "Disputed"
        /\ Leave("ResolveToBuyer", {Arbiter} \cup {Buyer}, Buyer, ClaimedValue, 64)
    BY <1>10, SignerIsNamedKey DEF ResolveToBuyer, Resolve
  <2> QED BY <1>5, <2>1
<1>11. CASE Refund
  <2>1. escrow.phase = "Open" /\ daa > Deadline /\ Leave("Refund", {Buyer}, Buyer, Reward, 0)
    BY <1>11, <1>t, SignerIsNamedKey, DeadlineIsStrict DEF Refund
  <2>2. /\ Left' /\ payout'.branch = "Refund" /\ Paid' = [to |-> Buyer, amount |-> Reward]
        /\ escrow'.maker = escrow.maker /\ daa' = daa
    BY <2>1, PayStep DEF Branches
  <2>3. Stage = "Open" /\ Stage' = "Refunded"
    BY <2>1, <2>2, StageInside DEF Stage, Left
  <2>4. Promise!ReturnJob
    BY <2>1, <2>2, <2>3 DEF Promise!ReturnJob, Promise!Pay
  <2> QED BY <2>4 DEF Promise!PromiseNext
<1>12. CASE Tick
  <2>1. /\ daa' = daa + 1 /\ daa \in Nat /\ Deadline \in Nat
        /\ escrow' = escrow /\ payout' = payout
    BY <1>12, <1>t DEF Tick, TypeOK, Scores
  <2>2. Stage' = Stage /\ Paid' = Paid
    BY <2>1 DEF Stage, Paid, Left
  <2>3. CASE daa = Deadline
    <3>1. ~(daa > Deadline) /\ (daa > Deadline)'
      BY <2>1, <2>3
    <3>2. Promise!DeadlinePasses
      BY <2>1, <2>2, <3>1 DEF Promise!DeadlinePasses
    <3> QED BY <3>2 DEF Promise!PromiseNext
  <2>4. CASE daa # Deadline
    <3>1. (daa > Deadline)' = (daa > Deadline)
      BY <2>1, <2>4
    <3> QED BY <2>1, <2>2, <3>1 DEF Promise!promiseVars
  <2> QED BY <2>3, <2>4
<1>13. CASE UNCHANGED vars
  <2>1. daa' = daa /\ escrow' = escrow /\ payout' = payout
    BY <1>13 DEF vars
  <2>2. Stage' = Stage /\ Paid' = Paid
    BY <2>1 DEF Stage, Paid, Left
  <2> QED BY <2>1, <2>2 DEF Promise!promiseVars
<1> QED
  BY <1>1, <1>2, <1>3, <1>6, <1>7, <1>8, <1>9, <1>10, <1>11, <1>12, <1>13 DEF Next, Finished

\* The covenant keeps its promise: whatever transactions are built against it, the
\* escrow moves only along the legal transitions and pays one party everything.
THEOREM CovenantImplementsPromise == Spec => ImplementsPromise
<1> QED
  BY InitRefines, NextRefines, InductiveHolds, PTL
  DEF Spec, ImplementsPromise, Promise!PromiseSpec
=============================================================================
