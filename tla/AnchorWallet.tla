---------------------------- MODULE AnchorWallet ----------------------------
(***************************************************************************)
(* A wallet that anchors attestations with transactions of its own         *)
(* (krep-cli/src/anchor.rs; wallet-utxos, anchor, submit and send of       *)
(* krep-cli/src/main.rs; send of krep-cli/src/escrow.rs).                  *)
(*                                                                         *)
(* An attestation names a coin of the wallet; `krep anchor` spends that    *)
(* coin back to the wallet, with one or two attestation ids as payload.    *)
(* What it signs is sent at once, or kept in a file and sent later, or     *)
(* never, or again; meanwhile the fee rate drifts and other commands of    *)
(* the same wallet spend its coins.  The UTXO index shows what was         *)
(* accepted: a coin that a waiting transaction spends is still there.      *)
(*                                                                         *)
(* A transaction is known by its position in `built`.  Its record also     *)
(* says what it was built from: the coin that was asked for and the rate.  *)
(* Of its payload the number of ids is kept, since nothing here compares   *)
(* an id with a coin.  The calls of one build are taken as one, since what *)
(* they return is only used then; the node (mempool, acceptance, eviction) *)
(* is external.                                                            *)
(***************************************************************************)
EXTENDS AnchorFee, Integers, Sequences, FiniteSets, FiniteSetsExt

CONSTANTS
    Endowment,          \* the coins the wallet starts with: amount, coinbase
    Rates,              \* the fee rates the node estimates or the user gives
    Amounts,            \* what `krep send` is called with
    MinConfirmations,   \* UTXO_MIN_CONFIRMATIONS
    CoinbaseMaturity,   \* COINBASE_MATURITY
    MaxInputs,          \* MAX_INPUTS
    MaxDaa, MaxTx       \* bounds on the clock and on the transactions signed

ASSUME WalletAssumption ==
    /\ IsFiniteSet(DOMAIN Endowment)
    /\ \A k \in DOMAIN Endowment : Endowment[k].amount \in Nat \ {0}
    /\ Rates \subseteq Nat \ {0} /\ Amounts \subseteq Nat \ {0}
    /\ CoinbaseMaturity \in Nat /\ MaxInputs \in Nat \ {0} /\ MaxTx \in Nat
    /\ MaxDaa \in Nat /\ MinConfirmations \in 0..MaxDaa

VARIABLES
    daa,        \* the virtual DAA score
    built,      \* every transaction signed
    mempool,    \* those waiting for acceptance
    accepted    \* the score each accepted one was accepted at, -1 for the others

vars == <<daa, built, mempool, accepted>>

----------------------------------------------------------------------------
(* Coins and transactions *)

Txs == 1..Len(built)

\* An output is a transaction and its index; 0 stands for what came before.
Coins == {[tx |-> 0, index |-> k] : k \in DOMAIN Endowment}
         \cup {[tx |-> i, index |-> 1] : i \in Txs}

Amount(coin) == IF coin.tx = 0 THEN Endowment[coin.index].amount ELSE built[coin.tx].change

Coinbase(coin) == coin.tx = 0 /\ Endowment[coin.index].coinbase

Accepted == {i \in Txs : accepted[i] >= 0}

\* The UTXO index: outputs of accepted transactions that none spends.
Unspent ==
    {c \in Coins : (c.tx = 0 \/ c.tx \in Accepted) /\ \A i \in Accepted : c \notin built[i].ins}

Age(coin) == IF coin.tx = 0 THEN daa ELSE daa - accepted[coin.tx]

\* is_spendable, spendable: what `krep wallet-utxos` lists.
Spendable ==
    {c \in Unspent : Age(c) >= IF Coinbase(c) THEN CoinbaseMaturity ELSE MinConfirmations}

\* wallet_utxos of escrow.rs: a coinbase is like any other coin.
Confirmed == {c \in Unspent : Age(c) >= MinConfirmations}

Total(coins) == MapThenSumSet(Amount, coins)

Reciprocals(coins) == MapThenSumSet(LAMBDA c : StorageParameter \div Amount(c), coins)

----------------------------------------------------------------------------
(* Building *)

\* Deviation: the largest coins, whichever was asked for.
LargestCoins(pin, n) ==
    {S \in SUBSET Spendable : /\ Cardinality(S) = n
                              /\ \A c \in S, d \in Spendable \ S : Amount(c) >= Amount(d)}

\* The coin that was asked for and the largest of the others.
Selections(pin, n) ==
    {S \in SUBSET Spendable :
        /\ pin \in S /\ Cardinality(S) = n
        /\ \A c \in S \ {pin}, d \in Spendable \ S : Amount(c) >= Amount(d)}

\* solve_fee for a selection.
Fees(coins, ids, rate) ==
    SolveFee(NonStorageMass(Cardinality(coins), ids), Reciprocals(coins), Total(coins), rate)

\* Deviation: the fee is not taken from the change.
FeeOnTop(coins, ids, fee, paid, pin, rate) ==
    [ins |-> coins, ids |-> ids, fee |-> fee, paid |-> paid,
     change |-> Total(coins) - paid, pin |-> pin, rate |-> rate]

\* What is signed: what is left returns to the wallet.
Transfer(coins, ids, fee, paid, pin, rate) ==
    [ins |-> coins, ids |-> ids, fee |-> fee, paid |-> paid,
     change |-> Total(coins) - fee - paid, pin |-> pin, rate |-> rate]

\* Deviation: nothing tops up the coin that was asked for.
PinAlone(pin, ids, rate) ==
    {Transfer({pin}, ids, fee, 0, pin, rate) : fee \in Fees({pin}, ids, rate)}

\* plan_tx: inputs are added until they pay for themselves.
Plans(pin, ids, rate) ==
    LET Paying(n) == {S \in Selections(pin, n) : Fees(S, ids, rate) # {}}
        Enough == {n \in 1..MaxInputs : Paying(n) # {}}
    IN  IF Enough = {} THEN {}
        ELSE UNION {{Transfer(S, ids, fee, 0, pin, rate) : fee \in Fees(S, ids, rate)}
                    : S \in Paying(Min(Enough))}

\* Building the same again changes nothing.
Signed(tx) ==
    /\ \A i \in Txs : built[i] # tx
    /\ built' = Append(built, tx)
    /\ accepted' = Append(accepted, -1)
    /\ UNCHANGED <<daa, mempool>>

\* build_payload: one id or two.
PayloadFits(ids) == ids \in {1, 2}

\* build, at the node's rate or the one that was given.
Build(pin, ids, rate) ==
    IF PayloadFits(ids) /\ pin \in Spendable THEN Plans(pin, ids, rate) ELSE {}

\* `krep anchor --id ... --spend pin`
Anchor(pin, ids, rate) ==
    /\ Len(built) < MaxTx
    /\ \E tx \in Build(pin, ids, rate) : Signed(tx)

\* covenant_fee.
CovenantFee(rate) == rate * 12000

\* `krep send`: the largest coin, when it is large enough.
Send(amount, rate) ==
    /\ Len(built) < MaxTx
    /\ \E coin \in Confirmed :
        /\ Amount(coin) > amount + CovenantFee(rate)
        /\ \A c \in Confirmed : Amount(c) <= Amount(coin)
        /\ Signed(Transfer({coin}, 0, CovenantFee(rate), amount, coin, rate))

----------------------------------------------------------------------------
(* The node *)

\* submit, at once or from the file: the node takes what spends unspent and
\* mature coins nothing else in its mempool spends.
Submit(i) ==
    /\ i \notin mempool \cup Accepted
    /\ built[i].ins \subseteq Unspent
    /\ \A j \in mempool : built[j].ins \cap built[i].ins = {}
    /\ \A c \in built[i].ins : Coinbase(c) => Age(c) >= CoinbaseMaturity
    /\ mempool' = mempool \cup {i}
    /\ UNCHANGED <<daa, built, accepted>>

Accept(i) ==
    /\ i \in mempool
    /\ mempool' = mempool \ {i}
    /\ accepted' = [accepted EXCEPT ![i] = daa]
    /\ UNCHANGED <<daa, built>>

\* A mempool forgets.
Evict(i) ==
    /\ i \in mempool
    /\ mempool' = mempool \ {i}
    /\ UNCHANGED <<daa, built, accepted>>

Tick ==
    /\ daa < MaxDaa
    /\ daa' = daa + 1
    /\ UNCHANGED <<built, mempool, accepted>>

Init ==
    /\ daa = MinConfirmations
    /\ built = <<>> /\ accepted = <<>>
    /\ mempool = {}

Next ==
    \/ \E pin \in Coins, ids \in 0..3, rate \in Rates : Anchor(pin, ids, rate)
    \/ \E amount \in Amounts, rate \in Rates : Send(amount, rate)
    \/ \E i \in Txs : Submit(i) \/ Accept(i) \/ Evict(i)
    \/ Tick

Spec == Init /\ [][Next]_vars

----------------------------------------------------------------------------
(* Properties *)

\* Whether a set of coins pays for an anchor, at the fee of its weight or at
\* any other a search would try.
CanPay(coins, ids, rate) ==
    LET lightest == NonStorageMass(Cardinality(coins), ids)
    IN  \E fee \in {rate * lightest} \cup {k * (Total(coins) \div 16) : k \in 1..15} :
            PaysFor(lightest, Reciprocals(coins), Total(coins), rate, fee)

\* What transactions have cost the wallet.
Spent(txs) == MapThenSumSet(LAMBDA i : built[i].fee + built[i].paid, txs)

\* What the wallet started with.
Endowed == MapThenSumSet(LAMBDA k : Endowment[k].amount, DOMAIN Endowment)

\* The state is well formed, and no command makes or loses money: what the
\* wallet holds, has paid to others and has paid in fees is what it started
\* with, whatever was built from coins that were being spent already.
TypeOK ==
    /\ daa \in 0..MaxDaa /\ mempool \subseteq Txs \ Accepted
    /\ Len(built) <= MaxTx /\ Len(accepted) = Len(built)
    /\ \A i \in Txs : /\ built[i].change > 0 /\ built[i].ids \in 0..2
                      /\ accepted[i] \in -1..daa
    /\ Total(Unspent) + Spent(Accepted) = Endowed

\* An anchor pays for exactly the mass it has with the inputs and the change
\* it was built with (solve_fee: the mass depends on the change, the change on
\* the fee, and the fee on the mass).
AnchorsPayTheirWay ==
    \A i \in Txs : built[i].ids # 0 =>
        LET tx == built[i]
        IN  tx.fee = tx.rate * Mass(NonStorageMass(Cardinality(tx.ins), tx.ids),
                                    Reciprocals(tx.ins), tx.change)

\* A coin that wallet-utxos lists is refused as an anchor only if no coins of
\* the wallet, however chosen, pay for one that spends it: taking the largest
\* first and giving up after four passes loses nothing.  The passes lose nothing
\* whatever the amounts; the order may where the fee is a large part of them and
\* they differ so little that the rounding of the storage mass decides.
RefusedOnlyIfHopeless ==
    Len(built) < MaxTx =>
    \A pin \in Spendable, ids \in 1..2, rate \in Rates :
        Build(pin, ids, rate) = {} =>
            \A S \in SUBSET Spendable :
                pin \in S /\ Cardinality(S) <= MaxInputs => ~CanPay(S, ids, rate)

\* An anchor spends the coin its attestations name, and another coin of the
\* wallet, which another attestation may name, only if it cannot pay without.
\* (Of the smallest of them this is so whatever the amounts.)
TopUpsAreNeeded ==
    \A i \in Txs : built[i].ids # 0 =>
        LET tx == built[i]
        IN  /\ tx.pin \in tx.ins
            /\ \A c \in tx.ins \ {tx.pin} : ~CanPay(tx.ins \ {c}, tx.ids, tx.rate)
=============================================================================
