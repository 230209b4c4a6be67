----------------------------- MODULE AnchorFee ------------------------------
(***************************************************************************)
(* What an anchoring transaction costs (krep-cli/src/anchor.rs): its mass, *)
(* and the fee that pays for a mass which itself depends on the fee.       *)
(*                                                                         *)
(* Amounts are in thousands of sompi and fee rates in thousands of sompi   *)
(* per gram, so that the consensus parameter keeps its value and fits      *)
(* TLC's integers.  Rates are whole numbers: rounding a fee up is left     *)
(* out.  Several inputs enter the storage mass by the sum of their         *)
(* reciprocals alone, which is a parameter here.                           *)
(***************************************************************************)
EXTENDS Naturals

\* STORAGE_MASS_PARAMETER, 10^12 sompi.
StorageParameter == 1000000000

Larger(a, b) == IF a > b THEN a ELSE b

\* estimate_mass: the larger of compute mass and twice the serialized size.
NonStorageMass(inputs, ids) ==
    LET bytes == 94 + 118 * inputs + 53 + 32 * ids
    IN  Larger(bytes + 1000 * inputs + 370, 2 * bytes)

\* storage_mass, for a single output: what it weighs more than the inputs did.
StorageMass(reciprocals, out) ==
    LET weight == StorageParameter \div out
    IN  IF weight > reciprocals THEN weight - reciprocals ELSE 0

\* The mass the network charges for.
Mass(lightest, reciprocals, out) == Larger(lightest, StorageMass(reciprocals, out))

\* A fee pays for the transaction whose output is what it leaves.
PaysFor(lightest, reciprocals, total, rate, fee) ==
    fee < total /\ fee >= rate * Mass(lightest, reciprocals, total - fee)

\* One pass of solve_fee: the mass of the transaction that pays for `mass`.  A
\* mass the inputs cannot pay for stays: it is refused in the end.
Pass(lightest, reciprocals, total, rate, mass) ==
    IF total > rate * mass THEN Mass(lightest, reciprocals, total - rate * mass) ELSE mass

\* Deviation: the fee of the first guess.
FirstGuess(lightest, reciprocals, total, rate) ==
    IF total > rate * lightest THEN {rate * lightest} ELSE {}

\* solve_fee: up to four passes, and the fee once a pass changes nothing.
SolveFee(lightest, reciprocals, total, rate) ==
    LET Next(mass) == Pass(lightest, reciprocals, total, rate, mass)
        mass == Next(Next(Next(lightest)))
    IN  IF total > rate * mass /\ Next(mass) = mass THEN {rate * mass} ELSE {}
=============================================================================
