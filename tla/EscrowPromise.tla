--------------------------- MODULE EscrowPromise ----------------------------
(***************************************************************************)
(* What an escrow promises its two parties, without keys, scripts or       *)
(* clocks: a job is taken once, delivered once, contested at most once     *)
(* (with an arbiter), and ends by paying everything to the worker or       *)
(* everything to the client.  The legal moves between the phases kept in   *)
(* the covenant are those of EscrowState::may_transition_to.               *)
(***************************************************************************)
EXTENDS Integers

CONSTANTS
  Parties,     \* whoever may be named as the worker
  Nobody,
  Client,      \* who posted the job
  HasArbiter,
  Price, Stake

VARIABLES
  stage,   \* a phase, or one of the terminal outcomes
  worker,  \* who took the job
  late,    \* the deadline has passed
  paid     \* who received how much

promiseVars == <<stage, worker, late, paid>>

\* may_transition_to: no skipping, no going back, no self-loop.
MayTransitionTo == { <<"Open", "Claimed">>, <<"Claimed", "Shipped">>, <<"Shipped", "Disputed">> }

Advance(to) == <<stage, to>> \in MayTransitionTo /\ stage' = to

Pay(outcome, who, amount) ==
  /\ stage' = outcome
  /\ paid' = [to |-> who, amount |-> amount]
  /\ UNCHANGED <<worker, late>>

Take ==
  /\ Advance("Claimed")
  /\ worker' \in Parties
  /\ UNCHANGED <<late, paid>>

Deliver == Advance("Shipped") /\ UNCHANGED <<worker, late, paid>>

Contest == HasArbiter /\ Advance("Disputed") /\ UNCHANGED <<worker, late, paid>>

\* A delivered job can end in the worker's favour.
SettleJob == stage \in {"Shipped", "Disputed"} /\ Pay("Settled", worker, Price + Stake)

\* A job taken and not delivered in time, or lost in a dispute, forfeits the stake.
ForfeitJob ==
  /\ stage = "Disputed" \/ (stage = "Claimed" /\ late)
  /\ Pay("Slashed", Client, Price + Stake)

\* A job nobody took goes back to the client.
ReturnJob == stage = "Open" /\ late /\ Pay("Refunded", Client, Price)

DeadlinePasses == ~late /\ late' = TRUE /\ UNCHANGED <<stage, worker, paid>>

PromiseInit ==
  /\ stage = "Open"
  /\ worker = Nobody
  /\ late \in BOOLEAN
  /\ paid = [to |-> Nobody, amount |-> 0]

PromiseNext ==
  Take \/ Deliver \/ Contest \/ SettleJob \/ ForfeitJob \/ ReturnJob \/ DeadlinePasses

PromiseSpec == PromiseInit /\ [][PromiseNext]_promiseVars
=============================================================================
