------------------------- MODULE AnchorWalletProofs --------------------------
(***************************************************************************)
(* What solve_fee promises, for every selection and every fee rate, and    *)
(* what that and the node's rules make of a wallet, for every endowment,   *)
(* rate and bound.                                                         *)
(*                                                                         *)
(* The fee: what solve_fee finds pays for the transaction that pays it,    *)
(* and no smaller fee does.  A larger output weighs less                   *)
(* (StorageMassFalls), so a pass never overtakes the mass of any           *)
(* transaction that pays for itself (PassStaysBelow); the passes start     *)
(* from the least mass there is.  And if any fee pays, that of the least   *)
(* mass does (FirstPassSettles): whether a fee pays is whether a parabola  *)
(* is above zero there, and it is at 0, since coins weigh less together.   *)
(*                                                                         *)
(* The money: the sums of the model are folds that take the elements of a  *)
(* set in an order nobody knows.  A fold over a finite set exists and is   *)
(* unique, and so adds up, element by element and part by part (SumExists, *)
(* SumUnique, SumRemove, SumSplit), each by a least subset that does not.  *)
(* What is accepted then moves the value of its inputs, which are unspent  *)
(* until then and spent by nothing else that waits (Waits), to the change, *)
(* the fee and the payment, because it was built balanced (Balanced).      *)
(***************************************************************************)
EXTENDS AnchorWallet, FiniteSetTheorems, TLAPS

----------------------------------------------------------------------------
(* The fee *)

\* A number goes into another no more often than a smaller one does.
LEMMA QuotientFalls ==
    ASSUME NEW a \in Nat, NEW b \in Nat, NEW c \in Nat, 0 < a, a <= b
    PROVE  c \div b <= c \div a
<1> DEFINE q == c \div a
           r == c \div b
<1>1. q \in Nat /\ c < (q + 1) * a
  OBVIOUS
<1>2. r \in Nat /\ r * b <= c
  OBVIOUS
<1>. HIDE DEF q, r
<1>3. SUFFICES ASSUME r >= q + 1 PROVE FALSE
  BY <1>1, <1>2 DEF q, r
<1>4. r * b >= r * a
  BY <1>2
<1>5. r * a >= (q + 1) * a
  BY <1>1, <1>2, <1>3
<1>. QED
  BY <1>1, <1>2, <1>4, <1>5

\* The storage mass of one output falls as the output grows.
LEMMA StorageMassFalls ==
    ASSUME NEW reciprocals \in Nat, NEW small \in Nat, NEW large \in Nat,
           0 < small, small <= large
    PROVE  /\ StorageMass(reciprocals, large) \in Nat
           /\ StorageMass(reciprocals, small) \in Nat
           /\ StorageMass(reciprocals, large) <= StorageMass(reciprocals, small)
<1>1. StorageParameter \in Nat
  BY DEF StorageParameter
<1>2. StorageParameter \div large <= StorageParameter \div small
  BY <1>1, QuotientFalls
<1>3. StorageParameter \div large \in Nat /\ StorageParameter \div small \in Nat
  BY <1>1
<1>. QED
  BY <1>2, <1>3 DEF StorageMass

\* A pass that starts no higher than the mass of a transaction that pays for
\* itself ends no higher.
LEMMA PassStaysBelow ==
    ASSUME NEW lightest \in Nat, NEW reciprocals \in Nat, NEW total \in Nat, NEW rate \in Nat,
           NEW fee \in Nat, PaysFor(lightest, reciprocals, total, rate, fee),
           NEW mass \in Nat, mass <= Mass(lightest, reciprocals, total - fee)
    PROVE  /\ Pass(lightest, reciprocals, total, rate, mass) \in Nat
           /\ Pass(lightest, reciprocals, total, rate, mass)
                <= Mass(lightest, reciprocals, total - fee)
<1> DEFINE charged == Mass(lightest, reciprocals, total - fee)
<1>1. fee < total /\ fee >= rate * charged
  BY DEF PaysFor
<1>2. StorageMass(reciprocals, total - fee) \in Nat
  BY <1>1, StorageMassFalls
<1>3. charged \in Nat
  BY <1>2 DEF Mass, Larger
<1>. HIDE DEF charged
<1>4. rate * mass \in Nat /\ rate * mass <= rate * charged
  BY <1>3 DEF charged
<1>5. rate * charged \in Nat
  BY <1>3
<1>6. /\ total - fee \in Nat /\ total - rate * mass \in Nat
      /\ 0 < total - fee /\ total - fee <= total - rate * mass
  BY <1>1, <1>4, <1>5
<1>7. /\ StorageMass(reciprocals, total - rate * mass) \in Nat
      /\ StorageMass(reciprocals, total - rate * mass) <= StorageMass(reciprocals, total - fee)
  BY <1>6, StorageMassFalls
<1>8. total > rate * mass
  BY <1>1, <1>4, <1>5
<1>. QED
  BY <1>2, <1>7, <1>8 DEF Pass, Mass, Larger, charged

\* Whatever the inputs and the rate, the fee that solve_fee settles on leaves an
\* output and pays for exactly the mass of the transaction with that output.
THEOREM SolvedFeePays ==
    ASSUME NEW lightest \in Nat, NEW reciprocals \in Nat, NEW total \in Nat, NEW rate \in Nat,
           NEW fee \in SolveFee(lightest, reciprocals, total, rate)
    PROVE  /\ PaysFor(lightest, reciprocals, total, rate, fee)
           /\ fee = rate * Mass(lightest, reciprocals, total - fee)
<1> DEFINE Step(mass) == Pass(lightest, reciprocals, total, rate, mass)
           mass == Step(Step(Step(lightest)))
<1>1. fee = rate * mass /\ total > rate * mass /\ Step(mass) = mass
  BY DEF SolveFee
<1>. HIDE DEF mass
<1>2. Mass(lightest, reciprocals, total - rate * mass) = mass
  BY <1>1 DEF Pass
<1>. QED
  BY <1>1, <1>2 DEF PaysFor

\* No smaller fee than the one solve_fee settles on pays for the transaction
\* that pays it: the wallet never pays more than the network asks.
THEOREM SolvedFeeIsLeast ==
    ASSUME NEW lightest \in Nat, NEW reciprocals \in Nat, NEW total \in Nat, NEW rate \in Nat,
           NEW fee \in SolveFee(lightest, reciprocals, total, rate),
           NEW other \in Nat, PaysFor(lightest, reciprocals, total, rate, other)
    PROVE  fee <= other
<1> DEFINE Step(mass) == Pass(lightest, reciprocals, total, rate, mass)
           charged == Mass(lightest, reciprocals, total - other)
           first == Step(lightest)
           second == Step(first)
           third == Step(second)
<1>1. other < total /\ other >= rate * charged
  BY DEF PaysFor
<1>2. StorageMass(reciprocals, total - other) \in Nat
  BY <1>1, StorageMassFalls
<1>3. charged \in Nat /\ lightest <= charged
  BY <1>2 DEF Mass, Larger
<1>4. first \in Nat /\ first <= charged
  BY <1>3, PassStaysBelow
<1>. HIDE DEF first
<1>5. second \in Nat /\ second <= charged
  BY <1>4, PassStaysBelow
<1>. HIDE DEF second
<1>6. third \in Nat /\ third <= charged
  BY <1>5, PassStaysBelow
<1>7. fee = rate * third
  BY DEF SolveFee, first, second
<1>. HIDE DEF third, charged
<1>8. rate * third <= rate * charged
  BY <1>3, <1>6
<1>9. rate * third \in Nat /\ rate * charged \in Nat
  BY <1>3, <1>6
<1>. QED
  BY <1>1, <1>7, <1>8, <1>9

\* A parabola that opens downward and is above zero at 0 and at x is so between.
LEMMA StaysAbove ==
    ASSUME NEW g \in Int, NEW b \in Int, NEW x \in Nat, NEW y \in Nat, y <= x,
           g > 0, g + b * x - x * x > 0
    PROVE  g + b * y - y * y > 0
<1>1. SUFFICES ASSUME g + b * y - y * y <= 0 PROVE FALSE
  OBVIOUS
<1>2. y * (y - b) >= g
  BY <1>1
<1>3. y > 0 /\ y - b > 0
  <2>1. y # 0
    BY <1>2
  <2>2. ASSUME y - b <= 0 PROVE FALSE
    <3>1. y * (y - b) <= 0
      BY <2>2
    <3> QED BY <1>2, <3>1
  <2> QED BY <2>1, <2>2
<1>4. x * (x - b) >= y * (x - b)
  BY <1>3
<1>5. y * (x - b) >= y * (y - b)
  BY <1>3
<1>6. x * (x - b) < g
  OBVIOUS
<1> QED BY <1>2, <1>4, <1>5, <1>6

\* A number goes into another at most q times if it is less than q + 1 of it.
LEMMA QuotientBounds ==
    ASSUME NEW c \in Nat, NEW a \in Nat, 0 < a, NEW q \in Nat
    PROVE  c \div a <= q <=> c < (q + 1) * a
<1> DEFINE d == c \div a
<1>1. d \in Nat /\ d * a <= c /\ c < (d + 1) * a
  OBVIOUS
<1>. HIDE DEF d
<1>2. ASSUME d <= q PROVE c < (q + 1) * a
  <2>1. (d + 1) * a <= (q + 1) * a
    BY <1>1, <1>2
  <2>2. (d + 1) * a \in Nat /\ (q + 1) * a \in Nat
    BY <1>1
  <2> QED BY <1>1, <2>1, <2>2
<1>3. ASSUME c < (q + 1) * a, d >= q + 1 PROVE FALSE
  <2>1. (q + 1) * a <= d * a
    BY <1>1, <1>3
  <2>2. d * a \in Nat /\ (q + 1) * a \in Nat
    BY <1>1
  <2> QED BY <1>1, <1>3, <2>1, <2>2
<1>4. d <= q <=> c < (q + 1) * a
  BY <1>1, <1>2, <1>3
<1> QED BY <1>4 DEF d

\* If inputs pay for their transaction at any fee at all, the first pass of
\* solve_fee changes nothing, and the fee is that of the least mass: more passes
\* than one never find what one does not, and giving up loses nothing.
THEOREM FirstPassSettles ==
    ASSUME NEW lightest \in Nat, NEW reciprocals \in Nat, NEW total \in Nat, NEW rate \in Nat \ {0},
           StorageParameter \div total <= reciprocals, total > 0,
           NEW fee \in Nat, PaysFor(lightest, reciprocals, total, rate, fee)
    PROVE  SolveFee(lightest, reciprocals, total, rate) = {rate * lightest}
<1> DEFINE c == StorageParameter
           e == rate * (reciprocals + 1)
           y == rate * lightest
           extra == StorageMass(reciprocals, total - fee)
<1>1. fee < total /\ fee >= rate * Larger(lightest, extra)
  BY DEF PaysFor, Mass
<1>2. c \in Nat
  BY DEF StorageParameter
<1>3. total - fee \in Nat /\ 0 < total - fee
  BY <1>1
<1>4. extra \in Nat
  BY <1>1, <1>3, StorageMassFalls
<1>5. c \div (total - fee) <= reciprocals + extra
  <2>1. c \div (total - fee) \in Nat
    BY <1>2, <1>3
  <2> QED BY <1>4, <2>1 DEF StorageMass
<1>. HIDE DEF extra, c
<1>6. c < (reciprocals + 1) * total
  BY <1>2, QuotientBounds DEF c
<1>7. c < (reciprocals + extra + 1) * (total - fee)
  <2>1. reciprocals + extra \in Nat
    BY <1>4
  <2> QED BY <1>2, <1>3, <1>5, <2>1, QuotientBounds
<1>8. Larger(lightest, extra) \in Nat /\ lightest <= Larger(lightest, extra)
      /\ extra <= Larger(lightest, extra)
  BY <1>4 DEF Larger
<1>9. y <= fee /\ rate * extra <= fee /\ y \in Nat
  <2> DEFINE m == Larger(lightest, extra)
  <2>. HIDE DEF m
  <2>1. rate * lightest <= rate * m /\ rate * extra <= rate * m
    BY <1>4, <1>8 DEF m
  <2>2. rate * lightest \in Nat /\ rate * extra \in Nat /\ rate * m \in Nat
    BY <1>4, <1>8 DEF m
  <2> QED BY <1>1, <2>1, <2>2 DEF m
<1> DEFINE g == e * total - rate * c
           b == total - e
<1>10. g > 0
  <2>1. rate * c < rate * ((reciprocals + 1) * total)
    BY <1>2, <1>6
  <2>2. rate * ((reciprocals + 1) * total) = e * total
    OBVIOUS
  <2> QED BY <1>2, <2>1, <2>2
<1>11. g + b * fee - fee * fee > 0
  <2>1. rate * c < rate * ((reciprocals + extra + 1) * (total - fee))
    BY <1>2, <1>4, <1>7
  <2>2. rate * ((reciprocals + extra + 1) * (total - fee))
          = (e + rate * extra) * (total - fee)
    BY <1>4
  <2>3. (e + rate * extra) * (total - fee) <= (e + fee) * (total - fee)
    BY <1>3, <1>4, <1>9
  <2>4. (e + fee) * (total - fee) = e * total + b * fee - fee * fee
    OBVIOUS
  <2> QED BY <1>2, <1>4, <2>1, <2>2, <2>3, <2>4
<1>12. e \in Nat /\ g \in Int /\ b \in Int
  BY <1>2
<1>. HIDE DEF e, y
<1>13. g + b * y - y * y > 0
  <2>. HIDE DEF g, b
  <2> QED BY <1>9, <1>10, <1>11, <1>12, StaysAbove
<1>14. total - y \in Nat /\ 0 < total - y
  BY <1>1, <1>9
<1>15. rate * c < (e + y) * (total - y)
  <2>1. (e + y) * (total - y) = e * total + b * y - y * y
    BY <1>9, <1>12
  <2> QED BY <1>2, <1>9, <1>12, <1>13, <2>1
<1>16. c < (reciprocals + lightest + 1) * (total - y)
  <2>1. e + y = rate * (reciprocals + lightest + 1)
    BY DEF e, y
  <2>2. (e + y) * (total - y) = rate * ((reciprocals + lightest + 1) * (total - y))
    BY <1>14, <2>1
  <2> DEFINE p == (reciprocals + lightest + 1) * (total - y)
  <2>3. p \in Nat
    BY <1>14
  <2>. HIDE DEF p
  <2>4. rate * c < rate * p
    BY <1>15, <2>2 DEF p
  <2>5. ASSUME c >= p PROVE FALSE
    <3>1. rate * c >= rate * p
      BY <1>2, <2>3, <2>5
    <3>2. rate * c \in Nat /\ rate * p \in Nat
      BY <1>2, <2>3
    <3> QED BY <2>4, <3>1, <3>2
  <2> QED BY <1>2, <2>3, <2>5 DEF p
<1>17. c \div (total - y) <= reciprocals + lightest
  <2>1. reciprocals + lightest \in Nat
    OBVIOUS
  <2> QED BY <1>2, <1>14, <1>16, <2>1, QuotientBounds
<1>18. Mass(lightest, reciprocals, total - y) = lightest
  <2>1. c \div (total - y) \in Nat
    BY <1>2, <1>14
  <2> QED BY <1>17, <2>1 DEF Mass, Larger, StorageMass, c
<1>19. total > rate * lightest /\ y = rate * lightest
  BY <1>1, <1>9 DEF y
<1>20. Pass(lightest, reciprocals, total, rate, lightest) = lightest
  BY <1>18, <1>19 DEF Pass
<1> QED BY <1>19, <1>20 DEF SolveFee

\* What a pass computes, and the fee in the end, is a natural number.
LEMMA PassIsNatural ==
    ASSUME NEW lightest \in Nat, NEW reciprocals \in Nat, NEW total \in Nat, NEW rate \in Nat,
           NEW mass \in Nat
    PROVE  Pass(lightest, reciprocals, total, rate, mass) \in Nat
<1>1. rate * mass \in Nat
  OBVIOUS
<1>2. CASE total > rate * mass
  <2>1. total - rate * mass \in Nat /\ 0 < total - rate * mass
    BY <1>1, <1>2
  <2>2. StorageMass(reciprocals, total - rate * mass) \in Nat
    BY <2>1, StorageMassFalls
  <2> QED BY <1>2, <2>2 DEF Pass, Mass, Larger
<1>3. CASE ~(total > rate * mass)
  BY <1>3 DEF Pass
<1> QED BY <1>2, <1>3

LEMMA SolvedFeeIsNatural ==
    ASSUME NEW lightest \in Nat, NEW reciprocals \in Nat, NEW total \in Nat, NEW rate \in Nat,
           NEW fee \in SolveFee(lightest, reciprocals, total, rate)
    PROVE  fee \in Nat
<1> DEFINE first == Pass(lightest, reciprocals, total, rate, lightest)
           second == Pass(lightest, reciprocals, total, rate, first)
           third == Pass(lightest, reciprocals, total, rate, second)
<1>1. fee = rate * third
  BY DEF SolveFee
<1>2. first \in Nat
  BY PassIsNatural
<1>. HIDE DEF first
<1>3. second \in Nat
  BY <1>2, PassIsNatural
<1>. HIDE DEF second
<1>4. third \in Nat
  BY <1>3, PassIsNatural
<1>. HIDE DEF third
<1> QED BY <1>1, <1>4

----------------------------------------------------------------------------
(* Sums *)

\* The element a sum takes first, and what it leaves.
First(s) == CHOOSE x \in s : TRUE
Others(s) == s \ {First(s)}

\* How a sum of a over the subsets of S is computed.
Adds(f, a, S) ==
    f = [s \in SUBSET S |-> IF s = {} THEN 0 ELSE a[First(s)] + f[Others(s)]]

\* The sum of a over S.
SumOf(a, S) == (CHOOSE f : Adds(f, a, S))[S]

\* There is a first element, and the others are fewer.
LEMMA FirstIsMember ==
    ASSUME NEW s, s # {}
    PROVE  First(s) \in s /\ Others(s) \subseteq s /\ Others(s) # s
<1>1. PICK x : x \in s
  OBVIOUS
<1>2. First(s) \in s
  BY <1>1 DEF First
<1> QED BY <1>2 DEF Others

\* A set of subsets of a finite set has a least element.
LEMMA LeastSubset ==
    ASSUME NEW S, IsFiniteSet(S), NEW bad, bad \subseteq SUBSET S, bad # {}
    PROVE  \E s \in bad : \A t \in bad : ~(t \subseteq s /\ t # s)
<1>1. IsWellFoundedOn(StrictSubsetOrdering(S), SUBSET S)
  BY FS_StrictSubsetOrderingWellFounded, FS_FiniteSubsetsOfFinite
<1>2. PICK s \in bad : \A t \in bad : <<t, s>> \notin StrictSubsetOrdering(S)
  BY <1>1, WFMin
<1>3. \A t \in bad : ~(t \subseteq s /\ t # s)
  BY <1>2 DEF StrictSubsetOrdering
<1> QED BY <1>3

\* However far a sum is computed, what it gives for a set is the same.
LEMMA SumUnique ==
    ASSUME NEW S, IsFiniteSet(S), NEW T, T \subseteq S, NEW a, NEW f, NEW g,
           Adds(f, a, S), Adds(g, a, T)
    PROVE  f[T] = g[T]
<1> DEFINE bad == {s \in SUBSET T : f[s] # g[s]}
<1>1. SUFFICES ASSUME bad # {} PROVE FALSE
  OBVIOUS
<1>3. PICK s \in bad : \A t \in bad : ~(t \subseteq s /\ t # s)
  <2>1. bad \subseteq SUBSET S
    OBVIOUS
  <2> HIDE DEF bad
  <2> QED BY <1>1, <2>1, LeastSubset
<1>4. s \in SUBSET T /\ s \in SUBSET S /\ f[s] # g[s]
  OBVIOUS
<1>5. s # {}
  BY <1>4 DEF Adds
<1>6. Others(s) \subseteq s /\ Others(s) # s
  BY <1>5, FirstIsMember
<1>7. f[Others(s)] = g[Others(s)]
  BY <1>3, <1>4, <1>6
<1>8. f[s] = a[First(s)] + f[Others(s)]
  BY <1>4, <1>5 DEF Adds
<1>9. g[s] = a[First(s)] + g[Others(s)]
  BY <1>4, <1>5 DEF Adds
<1> QED BY <1>4, <1>7, <1>8, <1>9

\* Every finite set has a sum.
LEMMA SumExists ==
    ASSUME NEW S, IsFiniteSet(S), NEW a
    PROVE  \E f : Adds(f, a, S)
<1> DEFINE bad == {s \in SUBSET S : ~\E f : Adds(f, a, s)}
<1>1. SUFFICES ASSUME bad # {} PROVE FALSE
  OBVIOUS
<1>3. PICK s \in bad : \A t \in bad : ~(t \subseteq s /\ t # s)
  <2>1. bad \subseteq SUBSET S
    OBVIOUS
  <2> HIDE DEF bad
  <2> QED BY <1>1, <2>1, LeastSubset
<1>4. \A t \in SUBSET s : t # s => t \in SUBSET S /\ t \notin bad
  BY <1>3
<1> DEFINE F(t) == CHOOSE f : Adds(f, a, t)
<1>5. \A t \in SUBSET s : t # s => Adds(F(t), a, t)
  BY <1>4
<1>6. \A t \in SUBSET s : IsFiniteSet(t)
  BY FS_Subset
<1> DEFINE g == [t \in SUBSET s |-> IF t = {} THEN 0
                                   ELSE a[First(t)] + F(Others(t))[Others(t)]]
<1>. HIDE DEF F
<1>7. ASSUME NEW t \in SUBSET s, t # s
      PROVE  g[t] = F(t)[t]
  <2>1. Adds(F(t), a, t)
    BY <1>5, <1>7
  <2>2. CASE t = {}
    BY <2>1, <2>2 DEF Adds
  <2>3. CASE t # {}
    <3>1. Others(t) \subseteq t /\ Others(t) # t
      BY <2>3, FirstIsMember
    <3>2. Others(t) \in SUBSET s /\ Others(t) # s
      BY <3>1
    <3>3. Adds(F(Others(t)), a, Others(t))
      BY <1>5, <3>2
    <3>4. F(t)[Others(t)] = F(Others(t))[Others(t)]
      BY <1>6, <2>1, <3>1, <3>3, SumUnique
    <3>5. F(t)[t] = a[First(t)] + F(t)[Others(t)]
      BY <2>1, <2>3 DEF Adds
    <3> QED BY <2>3, <3>4, <3>5
  <2> QED BY <2>2, <2>3
<1>8. ASSUME NEW t \in SUBSET s
      PROVE  g[t] = IF t = {} THEN 0 ELSE a[First(t)] + g[Others(t)]
  <2>1. CASE t = {}
    BY <2>1
  <2>2. CASE t # {}
    <3>1. Others(t) \subseteq t /\ Others(t) # t
      BY <2>2, FirstIsMember
    <3>2. Others(t) \in SUBSET s /\ Others(t) # s
      BY <3>1
    <3>3. g[Others(t)] = F(Others(t))[Others(t)]
      BY <1>7, <3>2
    <3>4. g[t] = a[First(t)] + F(Others(t))[Others(t)]
      BY <2>2
    <3> QED BY <2>2, <3>3, <3>4
  <2> QED BY <2>1, <2>2
<1>9. g = [t \in SUBSET s |-> g[t]]
  OBVIOUS
<1>. HIDE DEF g
<1>10. Adds(g, a, s)
  BY <1>8, <1>9 DEF Adds
<1> QED BY <1>3, <1>10

\* A sum computed with anything that adds a is the sum of a.
LEMMA SumIs ==
    ASSUME NEW S, IsFiniteSet(S), NEW a, NEW f, Adds(f, a, S)
    PROVE  f[S] = SumOf(a, S)
<1> DEFINE g == CHOOSE h : Adds(h, a, S)
<1>1. Adds(g, a, S)
  OBVIOUS
<1>. HIDE DEF g
<1>2. f[S] = g[S]
  BY <1>1, SumUnique
<1> QED BY <1>2 DEF SumOf, g

\* The first element, and the sum of the others.
LEMMA SumFirst ==
    ASSUME NEW S, IsFiniteSet(S), NEW a
    PROVE  /\ SumOf(a, {}) = 0
           /\ S # {} => SumOf(a, S) = a[First(S)] + SumOf(a, Others(S))
<1>1. PICK f : Adds(f, a, S)
  BY SumExists
<1>2. f[S] = SumOf(a, S)
  BY <1>1, SumIs
<1>3. IsFiniteSet({})
  BY FS_EmptySet
<1>4. PICK e : Adds(e, a, {})
  BY <1>3, SumExists
<1>5. e[{}] = SumOf(a, {}) /\ e[{}] = 0
  BY <1>3, <1>4, SumIs DEF Adds
<1>6. ASSUME S # {}
      PROVE  SumOf(a, S) = a[First(S)] + SumOf(a, Others(S))
  <2>1. Others(S) \subseteq S
    BY <1>6, FirstIsMember
  <2>2. IsFiniteSet(Others(S))
    BY <2>1, FS_Subset
  <2>3. PICK g : Adds(g, a, Others(S))
    BY <2>2, SumExists
  <2>4. f[Others(S)] = g[Others(S)]
    BY <1>1, <2>1, <2>3, SumUnique
  <2>5. g[Others(S)] = SumOf(a, Others(S))
    BY <2>2, <2>3, SumIs
  <2>6. f[S] = a[First(S)] + f[Others(S)]
    BY <1>1, <1>6 DEF Adds
  <2> QED BY <1>2, <2>4, <2>5, <2>6
<1> QED BY <1>5, <1>6

\* A sum of natural numbers is one.
LEMMA SumNatural ==
    ASSUME NEW S, IsFiniteSet(S), NEW a, \A x \in S : a[x] \in Nat
    PROVE  SumOf(a, S) \in Nat
<1> DEFINE bad == {s \in SUBSET S : SumOf(a, s) \notin Nat}
<1>1. SUFFICES ASSUME bad # {} PROVE FALSE
  OBVIOUS
<1>2. PICK s \in bad : \A t \in bad : ~(t \subseteq s /\ t # s)
  <2>1. bad \subseteq SUBSET S
    OBVIOUS
  <2> HIDE DEF bad
  <2> QED BY <1>1, <2>1, LeastSubset
<1>3. s \in SUBSET S /\ SumOf(a, s) \notin Nat
  OBVIOUS
<1>4. IsFiniteSet(s)
  BY <1>3, FS_Subset
<1>5. s # {}
  BY <1>3, <1>4, SumFirst
<1>6. First(s) \in s /\ Others(s) \subseteq s /\ Others(s) # s
  BY <1>5, FirstIsMember
<1>7. SumOf(a, Others(s)) \in Nat
  BY <1>2, <1>3, <1>6
<1>8. SumOf(a, s) = a[First(s)] + SumOf(a, Others(s))
  BY <1>4, <1>5, SumFirst
<1>9. a[First(s)] \in Nat
  BY <1>3, <1>6
<1> QED BY <1>3, <1>7, <1>8, <1>9

\* Whichever element is taken first, the sum is the same.
LEMMA SumRemove ==
    ASSUME NEW S, IsFiniteSet(S), NEW a, \A x \in S : a[x] \in Nat, NEW x \in S
    PROVE  SumOf(a, S) = a[x] + SumOf(a, S \ {x})
<1> DEFINE bad == {s \in SUBSET S : \E z \in s : SumOf(a, s) # a[z] + SumOf(a, s \ {z})}
<1>1. SUFFICES ASSUME bad # {} PROVE FALSE
  OBVIOUS
<1>2. PICK s \in bad : \A t \in bad : ~(t \subseteq s /\ t # s)
  <2>1. bad \subseteq SUBSET S
    OBVIOUS
  <2> HIDE DEF bad
  <2> QED BY <1>1, <2>1, LeastSubset
<1>3. PICK z \in s : SumOf(a, s) # a[z] + SumOf(a, s \ {z})
  OBVIOUS
<1>4. \A t \in SUBSET s : t # s => \A w \in t : SumOf(a, t) = a[w] + SumOf(a, t \ {w})
  BY <1>2
<1>5. s \in SUBSET S /\ \A t \in SUBSET s : IsFiniteSet(t)
  BY FS_Subset
<1> DEFINE y == First(s)
<1>6. y \in s /\ Others(s) = s \ {y}
  BY <1>3, FirstIsMember DEF Others
<1>7. SumOf(a, s) = a[y] + SumOf(a, s \ {y})
  BY <1>3, <1>5, <1>6, SumFirst
<1>. HIDE DEF y, bad
<1>8. z # y
  BY <1>3, <1>7
<1> DEFINE rest == SumOf(a, (s \ {y}) \ {z})
<1>9. SumOf(a, s \ {y}) = a[z] + rest
  BY <1>3, <1>4, <1>6, <1>8
<1>10. SumOf(a, s \ {z}) = a[y] + SumOf(a, (s \ {z}) \ {y})
  BY <1>3, <1>4, <1>6, <1>8
<1>11. (s \ {z}) \ {y} = (s \ {y}) \ {z}
  OBVIOUS
<1>12. rest \in Nat
  <2>1. IsFiniteSet((s \ {y}) \ {z}) /\ \A w \in (s \ {y}) \ {z} : a[w] \in Nat
    BY <1>5
  <2> QED BY <2>1, SumNatural
<1>13. a[y] \in Nat /\ a[z] \in Nat
  BY <1>3, <1>5, <1>6
<1>. HIDE DEF rest
<1>14. SumOf(a, s \ {z}) = a[y] + rest
  BY <1>10, <1>11 DEF rest
<1> QED BY <1>3, <1>7, <1>9, <1>12, <1>13, <1>14

\* A sum is the sum of its parts.
LEMMA SumSplit ==
    ASSUME NEW S, IsFiniteSet(S), NEW a, \A x \in S : a[x] \in Nat, NEW T \in SUBSET S
    PROVE  SumOf(a, S) = SumOf(a, T) + SumOf(a, S \ T)
<1> DEFINE bad == {t \in SUBSET S : SumOf(a, S) # SumOf(a, t) + SumOf(a, S \ t)}
<1>1. SUFFICES ASSUME bad # {} PROVE FALSE
  OBVIOUS
<1>2. PICK t \in bad : \A u \in bad : ~(u \subseteq t /\ u # t)
  <2>1. bad \subseteq SUBSET S
    OBVIOUS
  <2> HIDE DEF bad
  <2> QED BY <1>1, <2>1, LeastSubset
<1>3. t \in SUBSET S /\ SumOf(a, S) # SumOf(a, t) + SumOf(a, S \ t)
  OBVIOUS
<1>4. \A u \in SUBSET S : IsFiniteSet(u) /\ SumOf(a, u) \in Nat
  <2> SUFFICES ASSUME NEW u \in SUBSET S PROVE IsFiniteSet(u) /\ SumOf(a, u) \in Nat
    OBVIOUS
  <2>1. IsFiniteSet(u)
    BY FS_Subset
  <2> QED BY <2>1, SumNatural
<1>5. t # {}
  <2>1. SumOf(a, {}) = 0
    BY SumFirst
  <2>2. S \ {} = S /\ SumOf(a, S) \in Nat
    BY <1>4
  <2> QED BY <1>3, <2>1, <2>2
<1>6. PICK x : x \in t
  BY <1>5
<1>7. t \ {x} \in SUBSET S /\ t \ {x} \subseteq t /\ t \ {x} # t
  BY <1>3, <1>6
<1>8. SumOf(a, S) = SumOf(a, t \ {x}) + SumOf(a, S \ (t \ {x}))
  BY <1>2, <1>7
<1>9. SumOf(a, t) = a[x] + SumOf(a, t \ {x})
  <2>1. IsFiniteSet(t) /\ \A z \in t : a[z] \in Nat
    BY <1>3, <1>4
  <2> QED BY <1>6, <2>1, SumRemove
<1>10. SumOf(a, S \ (t \ {x})) = a[x] + SumOf(a, S \ t)
  <2> DEFINE u == S \ (t \ {x})
  <2>1. u \in SUBSET S /\ x \in u /\ u \ {x} = S \ t
    BY <1>3, <1>6
  <2>2. IsFiniteSet(u) /\ \A z \in u : a[z] \in Nat
    BY <1>4, <2>1
  <2> HIDE DEF u
  <2>3. SumOf(a, u) = a[x] + SumOf(a, u \ {x})
    BY <2>1, <2>2, SumRemove
  <2> QED BY <2>1, <2>3 DEF u
<1>11. a[x] \in Nat
  BY <1>3, <1>6
<1>12. SumOf(a, t \ {x}) \in Nat /\ SumOf(a, S \ t) \in Nat
  BY <1>3, <1>4, <1>7
<1> QED BY <1>3, <1>8, <1>9, <1>10, <1>11, <1>12

\* A sum over other names for the same things is the same.
LEMMA SumImage ==
    ASSUME NEW S, IsFiniteSet(S), NEW f, NEW a, NEW b,
           IsFiniteSet({f[x] : x \in S}), \A x, y \in S : f[x] = f[y] => x = y,
           \A x \in S : a[f[x]] = b[x] /\ b[x] \in Nat
    PROVE  SumOf(a, {f[x] : x \in S}) = SumOf(b, S)
<1> DEFINE Image(s) == {f[x] : x \in s}
           bad == {s \in SUBSET S : SumOf(a, Image(s)) # SumOf(b, s)}
<1>1. SUFFICES ASSUME bad # {} PROVE FALSE
  OBVIOUS
<1>2. PICK s \in bad : \A t \in bad : ~(t \subseteq s /\ t # s)
  <2>1. bad \subseteq SUBSET S
    OBVIOUS
  <2> HIDE DEF bad
  <2> QED BY <1>1, <2>1, LeastSubset
<1>3. s \in SUBSET S /\ SumOf(a, Image(s)) # SumOf(b, s)
  OBVIOUS
<1>4. IsFiniteSet(s) /\ IsFiniteSet(Image(s))
  <2>1. Image(s) \in SUBSET Image(S)
    BY <1>3
  <2> QED BY <1>3, <2>1, FS_Subset
<1>5. s # {}
  <2>1. ASSUME s = {} PROVE FALSE
    <3>1. Image(s) = {}
      BY <2>1
    <3> QED BY <1>3, <1>4, <2>1, <3>1, SumFirst
  <2> QED BY <2>1
<1>6. PICK x : x \in s
  BY <1>5
<1>7. SumOf(a, Image(s \ {x})) = SumOf(b, s \ {x})
  BY <1>2, <1>3, <1>6
<1>8. Image(s \ {x}) = Image(s) \ {f[x]}
  BY <1>3, <1>6
<1>9. f[x] \in Image(s) /\ \A z \in Image(s) : a[z] \in Nat
  BY <1>3, <1>6
<1>10. SumOf(b, s) = b[x] + SumOf(b, s \ {x})
  BY <1>3, <1>4, <1>6, SumRemove
<1>. HIDE DEF Image
<1>11. SumOf(a, Image(s)) = a[f[x]] + SumOf(a, Image(s) \ {f[x]})
  BY <1>4, <1>9, SumRemove
<1>12. a[f[x]] = b[x]
  BY <1>3, <1>6
<1> QED BY <1>3, <1>7, <1>8, <1>10, <1>11, <1>12

----------------------------------------------------------------------------
(* The sums of the model *)

\* Total, Reciprocals and Spent are sums of whatever agrees with what they add.
TotalsAdd ==
    \A S, a : IsFiniteSet(S) /\ (\A c \in S : a[c] = Amount(c)) => Total(S) = SumOf(a, S)

ReciprocalsAdd ==
    \A S, a : IsFiniteSet(S) /\ (\A c \in S : a[c] = StorageParameter \div Amount(c))
                => Reciprocals(S) = SumOf(a, S)

SpentAdds ==
    \A S, a : IsFiniteSet(S) /\ (\A i \in S : a[i] = built[i].fee + built[i].paid)
                => Spent(S) = SumOf(a, S)

\* Each of the three folds is computed the way sums are.
LEMMA TotalIsSum == TotalsAdd
<1> SUFFICES ASSUME NEW S, NEW a, IsFiniteSet(S), \A c \in S : a[c] = Amount(c)
             PROVE  Total(S) = SumOf(a, S)
  BY DEF TotalsAdd
<1> DEFINE Body(f) == [s \in SUBSET S |-> IF s = {} THEN 0
                                          ELSE Amount(First(s)) + f[Others(s)]]
           sum == CHOOSE f : f = Body(f)
<1>1. Total(S) = sum[S]
  BY DEF Total, MapThenSumSet, MapThenFoldSet, First, Others
<1>2. ASSUME NEW f
      PROVE  Body(f) = [s \in SUBSET S |-> IF s = {} THEN 0 ELSE a[First(s)] + f[Others(s)]]
  <2>1. \A s \in SUBSET S : s # {} => a[First(s)] = Amount(First(s))
    BY FirstIsMember
  <2> QED BY <2>1
<1>3. \E f : f = Body(f)
  <2>1. PICK f : Adds(f, a, S)
    BY SumExists
  <2>2. f = [s \in SUBSET S |-> IF s = {} THEN 0 ELSE a[First(s)] + f[Others(s)]]
    BY <2>1 DEF Adds
  <2>3. f = Body(f)
    BY <1>2, <2>2
  <2> QED BY <2>3
<1>. HIDE DEF Body
<1>4. sum = Body(sum)
  BY <1>3
<1>. HIDE DEF sum
<1>5. Adds(sum, a, S)
  BY <1>2, <1>4 DEF Adds
<1> QED BY <1>1, <1>5, SumIs
LEMMA ReciprocalsIsSum == ReciprocalsAdd
<1> SUFFICES ASSUME NEW S, NEW a, IsFiniteSet(S),
                    \A c \in S : a[c] = StorageParameter \div Amount(c)
             PROVE  Reciprocals(S) = SumOf(a, S)
  BY DEF ReciprocalsAdd
<1> DEFINE Body(f) == [s \in SUBSET S |-> IF s = {} THEN 0
                                          ELSE StorageParameter \div Amount(First(s))
                                                + f[Others(s)]]
           sum == CHOOSE f : f = Body(f)
<1>1. Reciprocals(S) = sum[S]
  BY DEF Reciprocals, MapThenSumSet, MapThenFoldSet, First, Others
<1>2. ASSUME NEW f
      PROVE  Body(f) = [s \in SUBSET S |-> IF s = {} THEN 0 ELSE a[First(s)] + f[Others(s)]]
  <2>1. \A s \in SUBSET S : s # {} => a[First(s)] = StorageParameter \div Amount(First(s))
    BY FirstIsMember
  <2> QED BY <2>1
<1>3. \E f : f = Body(f)
  <2>1. PICK f : Adds(f, a, S)
    BY SumExists
  <2>2. f = [s \in SUBSET S |-> IF s = {} THEN 0 ELSE a[First(s)] + f[Others(s)]]
    BY <2>1 DEF Adds
  <2>3. f = Body(f)
    BY <1>2, <2>2
  <2> QED BY <2>3
<1>. HIDE DEF Body
<1>4. sum = Body(sum)
  BY <1>3
<1>. HIDE DEF sum
<1>5. Adds(sum, a, S)
  BY <1>2, <1>4 DEF Adds
<1> QED BY <1>1, <1>5, SumIs

LEMMA SpentIsSum == SpentAdds
<1> SUFFICES ASSUME NEW S, NEW a, IsFiniteSet(S),
                    \A i \in S : a[i] = built[i].fee + built[i].paid
             PROVE  Spent(S) = SumOf(a, S)
  BY DEF SpentAdds
<1> DEFINE Body(f) == [s \in SUBSET S |-> IF s = {} THEN 0
                                          ELSE (built[First(s)].fee + built[First(s)].paid)
                                                + f[Others(s)]]
           sum == CHOOSE f : f = Body(f)
<1>1. Spent(S) = sum[S]
  BY DEF Spent, MapThenSumSet, MapThenFoldSet, First, Others
<1>2. ASSUME NEW f
      PROVE  Body(f) = [s \in SUBSET S |-> IF s = {} THEN 0 ELSE a[First(s)] + f[Others(s)]]
  <2>1. \A s \in SUBSET S : s # {} => a[First(s)] = built[First(s)].fee + built[First(s)].paid
    BY FirstIsMember
  <2> QED BY <2>1
<1>3. \E f : f = Body(f)
  <2>1. PICK f : Adds(f, a, S)
    BY SumExists
  <2>2. f = [s \in SUBSET S |-> IF s = {} THEN 0 ELSE a[First(s)] + f[Others(s)]]
    BY <2>1 DEF Adds
  <2>3. f = Body(f)
    BY <1>2, <2>2
  <2> QED BY <2>3
<1>. HIDE DEF Body
<1>4. sum = Body(sum)
  BY <1>3
<1>. HIDE DEF sum
<1>5. Adds(sum, a, S)
  BY <1>2, <1>4 DEF Adds
<1> QED BY <1>1, <1>5, SumIs

\* So they are after a step.
LEMMA TotalIsSumNext == TotalsAdd'
  BY TotalIsSum, PTL

LEMMA ReciprocalsIsSumNext == ReciprocalsAdd'
  BY ReciprocalsIsSum, PTL

LEMMA SpentIsSumNext == SpentAdds'
  BY SpentIsSum, PTL

----------------------------------------------------------------------------
(* The invariant *)

\* Every coin there could be.
AllCoins == [tx : Nat, index : DOMAIN Endowment \cup {1}]

\* Every transaction there could be.
Transactions ==
    [ins : SUBSET AllCoins, ids : 0..2, fee : Nat, paid : Nat, change : Nat \ {0},
     pin : AllCoins, rate : Nat]

\* The types, and what keeps the sums finite.
Shape ==
    /\ daa \in 0..MaxDaa
    /\ built \in Seq(Transactions) /\ Len(built) <= MaxTx
    /\ accepted \in Seq(-1..MaxDaa) /\ Len(accepted) = Len(built)
    /\ \A i \in Txs : accepted[i] <= daa
    /\ IsFiniteSet(Coins)
    /\ mempool \subseteq Txs \ Accepted

\* Whatever is built spends outputs that were accepted by then.
Descends ==
    \A i \in Txs : \A c \in built[i].ins : c \in Coins /\ (c.tx = 0 \/ c.tx \in Accepted)

\* What goes in comes out.
Balanced(tx) == Total(tx.ins) = tx.change + tx.fee + tx.paid

\* An anchor's fee is its rate for exactly the mass it has.
PaysItsWay(tx) ==
    tx.ids # 0 =>
        tx.fee = tx.rate * Mass(NonStorageMass(Cardinality(tx.ins), tx.ids),
                                Reciprocals(tx.ins), tx.change)

\* What waits spends coins that are there, and none of them twice.
Waits ==
    /\ \A i \in mempool : built[i].ins \subseteq Unspent
    /\ \A i, j \in mempool : i # j => built[i].ins \cap built[j].ins = {}

\* The inductive invariant.
Inductive ==
    /\ Shape
    /\ Descends
    /\ \A i \in Txs : Balanced(built[i]) /\ PaysItsWay(built[i])
    /\ Waits
    /\ Total(Unspent) + Spent(Accepted) = Endowed

\* What the shape of the state says of transactions and coins.
LEMMA CoinFacts ==
    ASSUME Shape
    PROVE  /\ Len(built) \in Nat
           /\ \A i \in Txs : i \in Nat /\ built[i] \in Transactions /\ accepted[i] \in -1..daa
           /\ \A c \in Coins : Amount(c) \in Nat \ {0} /\ c \in AllCoins
           /\ Unspent \subseteq Coins /\ IsFiniteSet(Unspent)
           /\ \A S \in SUBSET Coins : IsFiniteSet(S)
           /\ \A c \in Unspent : c.tx = 0 \/ c.tx \in Accepted
<1>1. Len(built) \in Nat
  BY DEF Shape
<1>2. \A i \in Txs : i \in Nat /\ built[i] \in Transactions /\ accepted[i] \in -1..daa
  <2>1. \A i \in Txs : i \in Nat /\ i \in 1..Len(built) /\ i \in 1..Len(accepted)
    BY <1>1 DEF Shape, Txs
  <2> DEFINE T == Transactions
             D == -1..MaxDaa
  <2>2. built \in Seq(T) /\ accepted \in Seq(D)
    BY DEF Shape
  <2>. HIDE DEF T, D
  <2>3. built \in [1..Len(built) -> T]
    BY <2>2
  <2>4. accepted \in [1..Len(accepted) -> D]
    BY <2>2
  <2>5. \A i \in Txs : built[i] \in Transactions /\ accepted[i] \in -1..MaxDaa
    BY <2>1, <2>3, <2>4 DEF T, D
  <2>6. MaxDaa \in Nat /\ daa \in 0..MaxDaa /\ \A i \in Txs : accepted[i] <= daa
    BY WalletAssumption DEF Shape
  <2> QED BY <2>1, <2>5, <2>6
<1>3. ASSUME NEW c \in Coins
      PROVE  Amount(c) \in Nat \ {0} /\ c \in AllCoins
  <2>1. CASE \E k \in DOMAIN Endowment : c = [tx |-> 0, index |-> k]
    BY <2>1, WalletAssumption DEF Amount, AllCoins
  <2>2. CASE \E i \in Txs : c = [tx |-> i, index |-> 1]
    <3>1. PICK i \in Txs : c = [tx |-> i, index |-> 1]
      BY <2>2
    <3>2. i # 0 /\ i \in Nat /\ built[i].change \in Nat \ {0}
      BY <1>1, <1>2 DEF Txs, Transactions
    <3> QED BY <3>1, <3>2 DEF Amount, AllCoins
  <2> QED BY <2>1, <2>2 DEF Coins
<1>4. Unspent \subseteq Coins /\ \A c \in Unspent : c.tx = 0 \/ c.tx \in Accepted
  BY DEF Unspent
<1>5. \A S \in SUBSET Coins : IsFiniteSet(S)
  BY FS_Subset DEF Shape
<1> QED BY <1>1, <1>2, <1>3, <1>4, <1>5

\* Sums over coins that are there are natural numbers, and split.
LEMMA TotalFacts ==
    ASSUME Shape
    PROVE  /\ \A S \in SUBSET Coins : Total(S) \in Nat /\ Reciprocals(S) \in Nat
           /\ \A c \in Coins : Total({c}) = Amount(c)
           /\ \A S \in SUBSET Coins : \A T \in SUBSET S : Total(S) = Total(T) + Total(S \ T)
<1> DEFINE a == [c \in Coins |-> Amount(c)]
           b == [c \in Coins |-> StorageParameter \div Amount(c)]
<1>1. \A c \in Coins : a[c] = Amount(c) /\ a[c] \in Nat
  BY CoinFacts
<1>2. \A c \in Coins : b[c] = StorageParameter \div Amount(c) /\ b[c] \in Nat
  BY CoinFacts DEF StorageParameter
<1>. HIDE DEF a, b
<1>3. \A S \in SUBSET Coins : IsFiniteSet(S)
  BY CoinFacts
<1>4. ASSUME NEW S \in SUBSET Coins
      PROVE  Total(S) = SumOf(a, S) /\ Reciprocals(S) = SumOf(b, S)
  BY <1>1, <1>2, <1>3, TotalIsSum, ReciprocalsIsSum DEF TotalsAdd, ReciprocalsAdd
<1>5. ASSUME NEW S \in SUBSET Coins
      PROVE  SumOf(a, S) \in Nat /\ SumOf(b, S) \in Nat
  BY <1>1, <1>2, <1>3, SumNatural
<1>6. ASSUME NEW c \in Coins
      PROVE  Total({c}) = Amount(c)
  <2>1. SumOf(a, {c}) = a[c] + SumOf(a, {c} \ {c})
    BY <1>1, <1>3, SumRemove
  <2>2. {c} \ {c} = {} /\ SumOf(a, {}) = 0
    BY <1>3, SumFirst
  <2> QED BY <1>1, <1>4, <2>1, <2>2
<1>7. ASSUME NEW S \in SUBSET Coins, NEW T \in SUBSET S
      PROVE  Total(S) = Total(T) + Total(S \ T)
  <2>1. SumOf(a, S) = SumOf(a, T) + SumOf(a, S \ T)
    BY <1>1, <1>3, SumSplit
  <2> QED BY <1>4, <2>1
<1> QED BY <1>4, <1>5, <1>6, <1>7

\* A step that keeps what coins are worth keeps what sets of them are worth.
LEMMA TotalsStay ==
    ASSUME Shape, \A c \in Coins : Amount(c)' = Amount(c)
    PROVE  \A S \in SUBSET Coins : Total(S)' = Total(S) /\ Reciprocals(S)' = Reciprocals(S)
<1> DEFINE a == [c \in Coins |-> Amount(c)]
           b == [c \in Coins |-> StorageParameter \div Amount(c)]
<1>1. \A c \in Coins : a[c] = Amount(c) /\ a[c] = Amount(c)'
  OBVIOUS
<1>2. \A c \in Coins : /\ b[c] = StorageParameter \div Amount(c)
                       /\ b[c] = StorageParameter \div Amount(c)'
  OBVIOUS
<1>. HIDE DEF a, b
<1>3. \A S \in SUBSET Coins : IsFiniteSet(S)
  BY CoinFacts
<1>4. ASSUME NEW S \in SUBSET Coins
      PROVE  Total(S)' = Total(S)
  <2>1. Total(S) = SumOf(a, S)
    BY <1>1, <1>3, TotalIsSum DEF TotalsAdd
  <2>2. Total(S)' = SumOf(a, S)
    BY <1>1, <1>3, TotalIsSumNext DEF TotalsAdd
  <2> QED BY <2>1, <2>2
<1>5. ASSUME NEW S \in SUBSET Coins
      PROVE  Reciprocals(S)' = Reciprocals(S)
  <2>1. Reciprocals(S) = SumOf(b, S)
    BY <1>2, <1>3, ReciprocalsIsSum DEF ReciprocalsAdd
  <2>2. Reciprocals(S)' = SumOf(b, S)
    BY <1>2, <1>3, ReciprocalsIsSumNext DEF ReciprocalsAdd
  <2> QED BY <2>1, <2>2
<1> QED BY <1>4, <1>5

\* Signing adds a transaction that nothing refers to.
LEMMA SigningAdds ==
    ASSUME Shape, NEW tx \in Transactions, Signed(tx)
    PROVE  LET n == Len(built) + 1
           IN  /\ built' \in Seq(Transactions) /\ accepted' \in Seq(-1..MaxDaa)
               /\ Len(built') = n /\ Len(accepted') = n
               /\ Txs' = Txs \cup {n} /\ n \notin Txs
               /\ \A i \in Txs : built'[i] = built[i] /\ accepted'[i] = accepted[i]
               /\ built'[n] = tx /\ accepted'[n] = -1
               /\ Accepted' = Accepted
               /\ Coins' = Coins \cup {[tx |-> n, index |-> 1]}
               /\ Unspent' = Unspent
               /\ \A c \in Coins : Amount(c)' = Amount(c)
<1> DEFINE n == Len(built) + 1
<1>1. Len(built) \in Nat /\ n \in Nat /\ n # 0
  BY DEF Shape
<1>2. MaxDaa \in Nat
  BY WalletAssumption
<1>3. built' = Append(built, tx) /\ accepted' = Append(accepted, -1)
  BY DEF Signed
<1>4. /\ built' \in Seq(Transactions) /\ Len(built') = n /\ built'[n] = tx
      /\ \A i \in 1..Len(built) : built'[i] = built[i]
  BY <1>1, <1>3 DEF Shape
<1>5. /\ accepted' \in Seq(-1..MaxDaa) /\ Len(accepted') = n /\ accepted'[n] = -1
      /\ \A i \in 1..Len(built) : accepted'[i] = accepted[i]
  BY <1>1, <1>2, <1>3 DEF Shape
<1>6. Txs' = Txs \cup {n} /\ n \notin Txs
  BY <1>1, <1>4 DEF Txs
<1>7. \A i \in Txs : built'[i] = built[i] /\ accepted'[i] = accepted[i]
  BY <1>4, <1>5 DEF Txs
<1>. HIDE DEF n
<1>8. Accepted' = Accepted
  BY <1>5, <1>6, <1>7 DEF Accepted
<1>9. Coins' = Coins \cup {[tx |-> n, index |-> 1]}
  BY <1>6 DEF Coins
<1>10. n \notin Accepted /\ Accepted \subseteq Txs
  BY <1>6 DEF Accepted
<1>11. Unspent' = Unspent
  <2>1. \A c : (\A i \in Accepted' : c \notin built'[i].ins)
                 <=> (\A i \in Accepted : c \notin built[i].ins)
    BY <1>7, <1>8, <1>10
  <2>2. \A c : c \in Coins' /\ (c.tx = 0 \/ c.tx \in Accepted')
                 <=> c \in Coins /\ (c.tx = 0 \/ c.tx \in Accepted)
    BY <1>1, <1>8, <1>9, <1>10
  <2> QED BY <2>1, <2>2 DEF Unspent
<1>12. \A c \in Coins : c.tx = 0 \/ c.tx \in Txs
  BY DEF Coins
<1>13. \A c \in Coins : Amount(c)' = Amount(c)
  BY <1>7, <1>12 DEF Amount
<1> QED BY <1>4, <1>5, <1>6, <1>7, <1>8, <1>9, <1>11, <1>13 DEF n

\* There are finitely many transactions.
LEMMA AcceptedFinite ==
    ASSUME Shape
    PROVE  Accepted \subseteq Txs /\ \A S \in SUBSET Txs : IsFiniteSet(S)
<1>1. IsFiniteSet(Txs)
  BY CoinFacts, FS_Interval DEF Txs
<1> QED BY <1>1, FS_Subset DEF Accepted

\* What transactions have cost does not change while they do not.
LEMMA SpentStays ==
    ASSUME Shape, \A i \in Txs : built'[i] = built[i]
    PROVE  \A S \in SUBSET Txs : Spent(S)' = Spent(S)
<1> DEFINE a == [i \in Txs |-> built[i].fee + built[i].paid]
<1>1. \A i \in Txs : /\ a[i] = built[i].fee + built[i].paid
                     /\ a[i] = built'[i].fee + built'[i].paid
  OBVIOUS
<1>. HIDE DEF a
<1>2. SUFFICES ASSUME NEW S \in SUBSET Txs PROVE Spent(S)' = Spent(S)
  OBVIOUS
<1>3. IsFiniteSet(S)
  BY AcceptedFinite
<1>4. Spent(S) = SumOf(a, S)
  BY <1>1, <1>3, SpentIsSum DEF SpentAdds
<1>5. Spent(S)' = SumOf(a, S)
  BY <1>1, <1>3, SpentIsSumNext DEF SpentAdds
<1> QED BY <1>4, <1>5

\* One more transaction costs its fee and its payment.
LEMMA SpentGrows ==
    ASSUME Shape, NEW i \in Txs, i \notin Accepted
    PROVE  /\ Spent(Accepted) \in Nat
           /\ Spent(Accepted \cup {i}) = Spent(Accepted) + (built[i].fee + built[i].paid)
<1> DEFINE a == [j \in Txs |-> built[j].fee + built[j].paid]
<1>1. \A j \in Txs : a[j] = built[j].fee + built[j].paid /\ a[j] \in Nat
  BY CoinFacts DEF Transactions
<1>. HIDE DEF a
<1>2. \A S \in SUBSET Txs : IsFiniteSet(S)
  BY AcceptedFinite
<1>3. \A S \in SUBSET Txs : Spent(S) = SumOf(a, S)
  BY <1>1, <1>2, SpentIsSum DEF SpentAdds
<1>4. Accepted \in SUBSET Txs /\ Accepted \cup {i} \in SUBSET Txs
  BY AcceptedFinite
<1>5. SumOf(a, Accepted) \in Nat
  BY <1>1, <1>2, <1>4, SumNatural
<1> DEFINE S == Accepted \cup {i}
<1>6. IsFiniteSet(S) /\ (\A j \in S : a[j] \in Nat) /\ i \in S /\ S \ {i} = Accepted
  BY <1>1, <1>2, <1>4
<1>. HIDE DEF S
<1>7. SumOf(a, S) = a[i] + SumOf(a, S \ {i})
  BY <1>6, SumRemove
<1>8. Spent(S) = a[i] + Spent(Accepted)
  BY <1>3, <1>4, <1>6, <1>7 DEF S
<1>9. Spent(Accepted) \in Nat
  BY <1>3, <1>4, <1>5
<1> QED BY <1>1, <1>8, <1>9 DEF S

\* Signing a balanced transaction over coins that are there keeps the invariant.
LEMMA SignedInductive ==
    ASSUME Inductive, Len(built) < MaxTx, NEW tx \in Transactions, Signed(tx),
           tx.ins \subseteq Unspent, Balanced(tx), PaysItsWay(tx)
    PROVE  Inductive'
<1> DEFINE n == Len(built) + 1
<1>. USE DEF Inductive
<1>1. Shape
  OBVIOUS
<1>2. /\ built' \in Seq(Transactions) /\ accepted' \in Seq(-1..MaxDaa)
      /\ Len(built') = n /\ Len(accepted') = n
      /\ Txs' = Txs \cup {n} /\ n \notin Txs
      /\ \A i \in Txs : built'[i] = built[i] /\ accepted'[i] = accepted[i]
      /\ built'[n] = tx /\ accepted'[n] = -1
      /\ Accepted' = Accepted
      /\ Coins' = Coins \cup {[tx |-> n, index |-> 1]}
      /\ Unspent' = Unspent
      /\ \A c \in Coins : Amount(c)' = Amount(c)
  BY <1>1, SigningAdds
<1>3. daa' = daa /\ mempool' = mempool
  BY DEF Signed
<1>4. Len(built) \in Nat /\ MaxTx \in Nat
  BY <1>1, CoinFacts, WalletAssumption
<1>5. Len(built') <= MaxTx
  BY <1>2, <1>4
<1>. HIDE DEF n
<1>6. Shape'
  <2>1. daa' \in 0..MaxDaa
    BY <1>1, <1>3 DEF Shape
  <2>2. \A i \in Txs' : accepted'[i] <= daa'
    BY <1>1, <1>2, <1>3, <2>1 DEF Shape
  <2>3. IsFiniteSet(Coins')
    BY <1>1, <1>2, FS_AddElement DEF Shape
  <2>4. mempool' \subseteq Txs' \ Accepted'
    BY <1>1, <1>2, <1>3 DEF Shape
  <2> QED BY <1>2, <1>5, <2>1, <2>2, <2>3, <2>4 DEF Shape
<1>7. Unspent \subseteq Coins /\ \A c \in Unspent : c.tx = 0 \/ c.tx \in Accepted
  BY <1>1, CoinFacts
<1>8. Descends'
  BY <1>2, <1>7 DEF Descends
<1>9. \A S \in SUBSET Coins : Total(S)' = Total(S) /\ Reciprocals(S)' = Reciprocals(S)
  BY <1>1, <1>2, TotalsStay
<1>10. \A i \in Txs' : (Balanced(built[i]) /\ PaysItsWay(built[i]))'
  <2>1. TAKE i \in Txs'
  <2>2. CASE i \in Txs
    <3>1. built[i].ins \subseteq Coins
      BY <2>2 DEF Descends
    <3>2. Total(built[i].ins)' = Total(built[i].ins)
      BY <1>2, <1>9, <2>2, <3>1
    <3>3. Reciprocals(built[i].ins)' = Reciprocals(built[i].ins)
      BY <1>2, <1>9, <2>2, <3>1
    <3> QED BY <1>2, <2>2, <3>2, <3>3 DEF Balanced, PaysItsWay
  <2>3. CASE i = n
    <3>1. Total(built[i].ins)' = Total(tx.ins)
      BY <1>2, <1>7, <1>9, <2>3
    <3>2. Reciprocals(built[i].ins)' = Reciprocals(tx.ins)
      BY <1>2, <1>7, <1>9, <2>3
    <3> QED BY <1>2, <2>3, <3>1, <3>2 DEF Balanced, PaysItsWay
  <2> QED BY <1>2, <2>2, <2>3
<1>11. Waits'
  <2>1. mempool \subseteq Txs
    BY <1>1 DEF Shape
  <2> QED BY <1>2, <1>3, <2>1 DEF Waits
<1>12. Total(Unspent)' = Total(Unspent)
  BY <1>2, <1>7, <1>9
<1>13. Spent(Accepted)' = Spent(Accepted)
  BY <1>1, <1>2, SpentStays, AcceptedFinite
<1>14. Endowed' = Endowed
  BY DEF Endowed, MapThenSumSet, MapThenFoldSet
<1> QED BY <1>6, <1>8, <1>10, <1>11, <1>12, <1>13, <1>14

\* The other steps leave what was signed as it is.
LEMMA BuiltStays ==
    ASSUME Inductive, UNCHANGED built
    PROVE  /\ Txs' = Txs /\ Coins' = Coins
           /\ \A c \in Coins : Amount(c)' = Amount(c)
           /\ \A S \in SUBSET Coins : Total(S)' = Total(S) /\ Reciprocals(S)' = Reciprocals(S)
           /\ \A S \in SUBSET Txs : Spent(S)' = Spent(S)
           /\ \A i \in Txs' : (Balanced(built[i]) /\ PaysItsWay(built[i]))'
<1>1. Txs' = Txs
  BY DEF Txs
<1>2. Coins' = Coins
  BY <1>1 DEF Coins
<1>3. \A c \in Coins : Amount(c)' = Amount(c)
  BY DEF Amount
<1>4. \A S \in SUBSET Coins : Total(S)' = Total(S) /\ Reciprocals(S)' = Reciprocals(S)
  BY <1>3, TotalsStay DEF Inductive
<1>5. \A S \in SUBSET Txs : Spent(S)' = Spent(S)
  BY SpentStays DEF Inductive
<1>6. \A i \in Txs' : (Balanced(built[i]) /\ PaysItsWay(built[i]))'
  <2>1. TAKE i \in Txs'
  <2>2. i \in Txs /\ built'[i] = built[i]
    BY <1>1
  <2>3. built[i].ins \subseteq Coins
    BY <2>2 DEF Inductive, Descends
  <2>4. Total(built[i].ins)' = Total(built[i].ins)
    BY <1>4, <2>2, <2>3
  <2>5. Reciprocals(built[i].ins)' = Reciprocals(built[i].ins)
    BY <1>4, <2>2, <2>3
  <2> QED BY <2>2, <2>4, <2>5 DEF Inductive, Balanced, PaysItsWay
<1> QED BY <1>1, <1>2, <1>3, <1>4, <1>5, <1>6

\* Every anchor that is built is balanced, pays its way, and spends coins the
\* index shows.
LEMMA AnchorsBuilt ==
    ASSUME Inductive, NEW pin, NEW ids, NEW rate \in Rates, NEW tx \in Build(pin, ids, rate)
    PROVE  tx \in Transactions /\ tx.ins \subseteq Unspent /\ Balanced(tx) /\ PaysItsWay(tx)
<1>1. ids \in {1, 2} /\ pin \in Spendable /\ tx \in Plans(pin, ids, rate)
  BY DEF Build, PayloadFits
<1>2. PICK n : \E S \in Selections(pin, n) : \E fee \in Fees(S, ids, rate) :
                 tx = Transfer(S, ids, fee, 0, pin, rate)
  BY <1>1 DEF Plans
<1>3. PICK S \in Selections(pin, n) : \E fee \in Fees(S, ids, rate) :
                 tx = Transfer(S, ids, fee, 0, pin, rate)
  BY <1>2
<1>4. PICK fee \in Fees(S, ids, rate) : tx = Transfer(S, ids, fee, 0, pin, rate)
  BY <1>3
<1>5. S \subseteq Unspent /\ pin \in Unspent
  BY <1>1 DEF Selections, Spendable
<1>6. Shape /\ Unspent \subseteq Coins /\ (\A c \in Coins : c \in AllCoins)
  BY CoinFacts DEF Inductive
<1>7. S \in SUBSET Coins /\ S \in SUBSET AllCoins /\ pin \in AllCoins
  BY <1>5, <1>6
<1>8. Total(S) \in Nat /\ Reciprocals(S) \in Nat
  BY <1>6, <1>7, TotalFacts
<1>9. Cardinality(S) \in Nat
  BY <1>6, <1>7, CoinFacts, FS_CardinalityType
<1>10. NonStorageMass(Cardinality(S), ids) \in Nat
  <2>1. ids \in Nat
    BY <1>1
  <2> QED BY <1>9, <2>1 DEF NonStorageMass, Larger
<1>11. rate \in Nat
  BY WalletAssumption
<1> DEFINE lightest == NonStorageMass(Cardinality(S), ids)
<1>12. fee \in SolveFee(lightest, Reciprocals(S), Total(S), rate)
  BY DEF Fees
<1>. HIDE DEF lightest
<1>13. fee \in Nat
  BY <1>8, <1>10, <1>11, <1>12, SolvedFeeIsNatural DEF lightest
<1>14. /\ fee < Total(S)
       /\ fee = rate * Mass(lightest, Reciprocals(S), Total(S) - fee)
  BY <1>8, <1>10, <1>11, <1>12, SolvedFeePays DEF lightest, PaysFor
<1>15. /\ tx.ins = S /\ tx.ids = ids /\ tx.fee = fee /\ tx.paid = 0 /\ tx.pin = pin
       /\ tx.rate = rate /\ tx.change = Total(S) - fee - 0
       /\ tx = [ins |-> S, ids |-> ids, fee |-> fee, paid |-> 0,
                change |-> Total(S) - fee - 0, pin |-> pin, rate |-> rate]
  BY <1>4 DEF Transfer
<1>16. Total(S) - fee - 0 = Total(S) - fee /\ Total(S) - fee \in Nat \ {0}
  BY <1>8, <1>13, <1>14
<1>17. tx \in Transactions
  BY <1>1, <1>7, <1>11, <1>13, <1>15, <1>16 DEF Transactions
<1>18. Balanced(tx)
  BY <1>8, <1>13, <1>15, <1>16 DEF Balanced
<1>19. PaysItsWay(tx)
  BY <1>14, <1>15, <1>16 DEF PaysItsWay, lightest
<1> QED BY <1>5, <1>15, <1>17, <1>18, <1>19

\* `krep send` signs such a transaction, without an attestation.
LEMMA SendBuilt ==
    ASSUME Inductive, NEW amount \in Amounts, NEW rate \in Rates, Send(amount, rate)
    PROVE  \E tx \in Transactions :
              /\ Signed(tx) /\ tx.ins \subseteq Unspent /\ tx.ids = 0
              /\ Balanced(tx) /\ PaysItsWay(tx)
<1>1. PICK coin \in Confirmed :
          /\ Amount(coin) > amount + CovenantFee(rate)
          /\ Signed(Transfer({coin}, 0, CovenantFee(rate), amount, coin, rate))
  BY DEF Send
<1> DEFINE tx == Transfer({coin}, 0, CovenantFee(rate), amount, coin, rate)
<1>2. Shape /\ coin \in Unspent /\ coin \in Coins /\ coin \in AllCoins
  BY CoinFacts DEF Inductive, Confirmed
<1>3. Total({coin}) = Amount(coin) /\ Amount(coin) \in Nat
  BY <1>2, TotalFacts, CoinFacts
<1>4. amount \in Nat /\ rate \in Nat /\ CovenantFee(rate) \in Nat
  BY WalletAssumption DEF CovenantFee
<1>5. Total({coin}) - CovenantFee(rate) - amount \in Nat \ {0}
  BY <1>1, <1>3, <1>4
<1>6. /\ tx.ins = {coin} /\ tx.ids = 0 /\ tx.fee = CovenantFee(rate) /\ tx.paid = amount
      /\ tx.change = Total({coin}) - CovenantFee(rate) - amount
  BY DEF Transfer
<1>7. tx \in Transactions
  <2>1. {coin} \in SUBSET AllCoins /\ 0 \in 0..2
    BY <1>2
  <2> DEFINE fee == CovenantFee(rate)
             change == Total({coin}) - fee - amount
  <2>2. fee \in Nat /\ change \in Nat \ {0}
    BY <1>4, <1>5
  <2>3. tx = [ins |-> {coin}, ids |-> 0, fee |-> fee, paid |-> amount, change |-> change,
              pin |-> coin, rate |-> rate]
    BY DEF Transfer
  <2>. HIDE DEF fee, change, tx
  <2> QED BY <1>2, <1>4, <2>1, <2>2, <2>3 DEF Transactions
<1>8. Balanced(tx)
  <2>1. Total(tx.ins) = Total({coin})
    BY <1>6
  <2>. HIDE DEF tx
  <2>2. Total({coin}) \in Nat
    BY <1>3
  <2>3. tx.change + tx.fee + tx.paid = Total({coin})
    BY <1>4, <1>6, <2>2
  <2> QED BY <2>1, <2>3 DEF Balanced
<1>9. PaysItsWay(tx) /\ tx.ins \subseteq Unspent /\ Signed(tx)
  BY <1>1, <1>2, <1>6 DEF PaysItsWay
<1>. HIDE DEF tx
<1> QED BY <1>6, <1>7, <1>8, <1>9

LEMMA SendInductive ==
    ASSUME Inductive, NEW amount \in Amounts, NEW rate \in Rates, Send(amount, rate)
    PROVE  Inductive'
<1>1. PICK tx \in Transactions :
              /\ Signed(tx) /\ tx.ins \subseteq Unspent
              /\ Balanced(tx) /\ PaysItsWay(tx)
  BY SendBuilt
<1>2. Len(built) < MaxTx
  BY DEF Send
<1> QED BY <1>1, <1>2, SignedInductive

\* The mempool takes what spends nothing that something else in it spends.
LEMMA SubmitInductive ==
    ASSUME Inductive, NEW i \in Txs, Submit(i)
    PROVE  Inductive'
<1>. USE DEF Inductive
<1>1. UNCHANGED <<daa, built, accepted>> /\ mempool' = mempool \cup {i}
  BY DEF Submit
<1>2. /\ Txs' = Txs /\ Coins' = Coins
      /\ \A S \in SUBSET Coins : Total(S)' = Total(S)
      /\ \A S \in SUBSET Txs : Spent(S)' = Spent(S)
      /\ \A j \in Txs' : (Balanced(built[j]) /\ PaysItsWay(built[j]))'
  BY <1>1, BuiltStays
<1>3. Accepted' = Accepted
  BY <1>1, <1>2 DEF Accepted
<1>4. Unspent' = Unspent
  BY <1>1, <1>2, <1>3 DEF Unspent
<1>5. Shape'
  BY <1>1, <1>2, <1>3 DEF Shape, Submit
<1>6. Descends'
  BY <1>1, <1>2, <1>3 DEF Descends
<1>7. Waits'
  BY <1>1, <1>4 DEF Waits, Submit
<1>8. Unspent \subseteq Coins /\ Accepted \subseteq Txs
  BY CoinFacts, AcceptedFinite
<1>9. Total(Unspent)' = Total(Unspent) /\ Spent(Accepted)' = Spent(Accepted)
  BY <1>2, <1>3, <1>4, <1>8
<1>10. Endowed' = Endowed
  BY DEF Endowed, MapThenSumSet, MapThenFoldSet
<1> QED BY <1>2, <1>5, <1>6, <1>7, <1>9, <1>10

\* Eviction and time take nothing away but a place in the mempool.
LEMMA ForgetInductive ==
    ASSUME Inductive, UNCHANGED <<built, accepted>>, daa' \in daa..MaxDaa,
           mempool' \subseteq mempool
    PROVE  Inductive'
<1>. USE DEF Inductive
<1>2. /\ Txs' = Txs /\ Coins' = Coins
      /\ \A S \in SUBSET Coins : Total(S)' = Total(S)
      /\ \A S \in SUBSET Txs : Spent(S)' = Spent(S)
      /\ \A j \in Txs' : (Balanced(built[j]) /\ PaysItsWay(built[j]))'
  BY BuiltStays
<1>3. Accepted' = Accepted
  BY <1>2 DEF Accepted
<1>4. Unspent' = Unspent
  BY <1>2, <1>3 DEF Unspent
<1>5. Shape'
  <2>1. daa \in 0..MaxDaa /\ MaxDaa \in Nat
    BY WalletAssumption DEF Shape
  <2>2. daa' \in 0..MaxDaa /\ daa <= daa'
    BY <2>1
  <2>3. \A i \in Txs' : accepted'[i] <= daa'
    <3>1. \A i \in Txs : accepted[i] \in -1..daa
      BY CoinFacts
    <3> QED BY <1>2, <2>1, <2>2, <3>1
  <2> QED BY <1>2, <1>3, <2>2, <2>3 DEF Shape
<1>6. Descends'
  BY <1>2, <1>3 DEF Descends
<1>7. Waits'
  BY <1>4 DEF Waits
<1>8. Unspent \subseteq Coins /\ Accepted \subseteq Txs
  BY CoinFacts, AcceptedFinite
<1>9. Total(Unspent)' = Total(Unspent) /\ Spent(Accepted)' = Spent(Accepted)
  BY <1>2, <1>3, <1>4, <1>8
<1>10. Endowed' = Endowed
  BY DEF Endowed, MapThenSumSet, MapThenFoldSet
<1> QED BY <1>2, <1>5, <1>6, <1>7, <1>9, <1>10

\* Acceptance spends the inputs and adds the change: what is gone was the fee and
\* the payment.
LEMMA AcceptInductive ==
    ASSUME Inductive, NEW i \in Txs, Accept(i)
    PROVE  Inductive'
<1>. USE DEF Inductive
<1> DEFINE tx == built[i]
           out == [tx |-> i, index |-> 1]
<1>1. /\ UNCHANGED <<daa, built>> /\ i \in mempool /\ mempool' = mempool \ {i}
      /\ accepted' = [accepted EXCEPT ![i] = daa]
  BY DEF Accept
<1>2. /\ Txs' = Txs /\ Coins' = Coins
      /\ \A c \in Coins : Amount(c)' = Amount(c)
      /\ \A S \in SUBSET Coins : Total(S)' = Total(S)
      /\ \A S \in SUBSET Txs : Spent(S)' = Spent(S)
      /\ \A j \in Txs' : (Balanced(built[j]) /\ PaysItsWay(built[j]))'
  BY <1>1, BuiltStays
<1>3. i \in 1..Len(built) /\ Len(accepted) = Len(built) /\ Len(built) \in Nat /\ i # 0
  BY CoinFacts DEF Shape, Txs
<1>4. MaxDaa \in Nat /\ daa \in 0..MaxDaa /\ daa \in -1..MaxDaa
  BY WalletAssumption DEF Shape
<1>5. accepted \in Seq(-1..MaxDaa)
  BY DEF Shape
<1>6. /\ accepted' \in Seq(-1..MaxDaa) /\ Len(accepted') = Len(accepted)
      /\ \A j \in Txs : accepted'[j] = IF j = i THEN daa ELSE accepted[j]
  <2> DEFINE D == -1..MaxDaa
  <2>1. daa \in D /\ accepted \in Seq(D)
    BY <1>4, <1>5
  <2>. HIDE DEF D
  <2>2. accepted \in [1..Len(accepted) -> D]
    BY <2>1
  <2>3. accepted' \in [1..Len(accepted) -> D]
    BY <1>1, <2>1, <2>2
  <2>4. accepted' \in Seq(D) /\ Len(accepted') = Len(accepted)
    BY <1>1, <1>3, <2>1, <2>3
  <2>5. \A j \in Txs : accepted'[j] = IF j = i THEN daa ELSE accepted[j]
    BY <1>1, <1>3, <2>2 DEF Txs
  <2> QED BY <2>4, <2>5 DEF D
<1>7. i \in Txs /\ i \notin Accepted /\ Accepted \subseteq Txs
  BY <1>1 DEF Shape, Accepted
<1>8. Accepted' = Accepted \cup {i}
  BY <1>2, <1>4, <1>6, <1>7 DEF Accepted
<1>9. tx.ins \subseteq Unspent /\ Unspent \subseteq Coins
  BY <1>1, CoinFacts DEF Waits
<1>10. out \in Coins /\ out \notin Unspent /\ \A j \in Txs : out \notin built[j].ins
  <2>1. out \in Coins
    BY DEF Coins
  <2>2. out.tx = i /\ i # 0 /\ i \notin Accepted
    BY <1>3, <1>7
  <2>3. out \notin Unspent
    BY <2>2, CoinFacts
  <2>4. \A j \in Txs : out \notin built[j].ins
    BY <2>2 DEF Descends
  <2> QED BY <2>1, <2>3, <2>4
<1>11. Unspent' = (Unspent \ tx.ins) \cup {out}
  <2>1. \A c \in Coins' : c \in Unspent' <=>
            /\ c.tx = 0 \/ c.tx \in Accepted \cup {i}
            /\ \A j \in Accepted \cup {i} : c \notin built[j].ins
    BY <1>1, <1>8 DEF Unspent
  <2>2. \A c \in Coins : c \in Unspent <=>
            /\ c.tx = 0 \/ c.tx \in Accepted
            /\ \A j \in Accepted : c \notin built[j].ins
    BY DEF Unspent
  <2>3. \A c \in Coins : c.tx = i => c = out
    BY <1>3 DEF Coins
  <2>4. ASSUME NEW c \in Coins
        PROVE  c \in Unspent' <=> c \in (Unspent \ tx.ins) \cup {out}
    <3>1. CASE c = out
      <4>1. c.tx = i
        BY <3>1
      <4> QED BY <1>2, <1>7, <1>10, <2>1, <3>1, <4>1
    <3>2. CASE c # out
      <4>1. c.tx # i
        BY <2>3, <3>2
      <4>2. c \in Unspent' <=> c \in Unspent /\ c \notin tx.ins
        BY <1>2, <2>1, <2>2, <4>1
      <4> QED BY <3>2, <4>2
    <3> QED BY <3>1, <3>2
  <2>5. Unspent' \subseteq Coins
    BY <1>2 DEF Unspent
  <2> QED BY <1>9, <1>10, <2>4, <2>5
<1>. HIDE DEF out
<1>12. Shape'
  <2>1. \A j \in Txs' : accepted'[j] <= daa'
    BY <1>1, <1>2, <1>4, <1>6 DEF Shape
  <2>2. mempool' \subseteq Txs' \ Accepted'
    BY <1>1, <1>2, <1>8 DEF Shape
  <2> QED BY <1>1, <1>2, <1>3, <1>6, <2>1, <2>2 DEF Shape
<1>13. Descends'
  BY <1>1, <1>2, <1>8 DEF Descends
<1>14. Waits'
  <2>1. \A j \in mempool' : built[j].ins \subseteq Unspent /\ built[j].ins \cap tx.ins = {}
    BY <1>1 DEF Waits
  <2>2. \A j \in mempool' : built'[j].ins \subseteq Unspent'
    BY <1>1, <1>11, <2>1
  <2> QED BY <1>1, <2>2 DEF Waits
<1>15. Shape /\ Unspent \in SUBSET Coins /\ tx.ins \in SUBSET Unspent /\ {out} \in SUBSET Coins
  BY <1>9, <1>10
<1>16. Total(Unspent) = Total(tx.ins) + Total(Unspent \ tx.ins)
  BY <1>15, TotalFacts
<1> DEFINE after == (Unspent \ tx.ins) \cup {out}
<1>17. after \in SUBSET Coins /\ {out} \in SUBSET after /\ after \ {out} = Unspent \ tx.ins
  BY <1>9, <1>10
<1>. HIDE DEF after
<1>18. Total(after) = Total({out}) + Total(Unspent \ tx.ins)
  BY <1>15, <1>17, TotalFacts
<1>19. Total({out}) = tx.change
  <2>1. Total({out}) = Amount(out)
    BY <1>10, <1>15, TotalFacts
  <2> QED BY <1>3, <2>1 DEF out, Amount
<1>20. Total(tx.ins) = tx.change + tx.fee + tx.paid
  BY DEF Balanced
<1>21. tx.change \in Nat /\ tx.fee \in Nat /\ tx.paid \in Nat
  BY <1>15, CoinFacts DEF Transactions
<1>22. Total(Unspent \ tx.ins) \in Nat
  <2>1. Unspent \ tx.ins \in SUBSET Coins
    BY <1>9
  <2> QED BY <1>15, <2>1, TotalFacts
<1>23. /\ Spent(Accepted \cup {i}) = Spent(Accepted) + (tx.fee + tx.paid)
       /\ Spent(Accepted) \in Nat
  BY <1>7, SpentGrows
<1>24. Total(Unspent)' = Total(after)
  BY <1>2, <1>11, <1>17 DEF after
<1>25. Spent(Accepted)' = Spent(Accepted \cup {i})
  BY <1>2, <1>7, <1>8
<1>26. Endowed' = Endowed
  BY DEF Endowed, MapThenSumSet, MapThenFoldSet
<1>27. Total(Unspent) + Spent(Accepted) = Endowed
  OBVIOUS
<1>28. Total(after) + Spent(Accepted \cup {i}) = Endowed
  <2>. HIDE DEF tx, Inductive
  <2> QED BY <1>16, <1>18, <1>19, <1>20, <1>21, <1>22, <1>23, <1>27
<1>29. (Total(Unspent) + Spent(Accepted) = Endowed)'
  BY <1>24, <1>25, <1>26, <1>28
<1> QED BY <1>2, <1>12, <1>13, <1>14, <1>29

\* The wallet starts with its endowment, all of it unspent.
LEMMA InitInductive ==
    ASSUME Init
    PROVE  Inductive
<1>1. built = <<>> /\ accepted = <<>> /\ mempool = {} /\ daa = MinConfirmations
  BY DEF Init
<1>2. Txs = {} /\ Accepted = {}
  BY <1>1 DEF Txs, Accepted
<1> DEFINE D == DOMAIN Endowment
           f == [k \in D |-> [tx |-> 0, index |-> k]]
<1>3. Coins = {f[k] : k \in D}
  BY <1>2 DEF Coins
<1>4. Unspent = Coins
  BY <1>2, <1>3 DEF Unspent
<1>5. IsFiniteSet(D) /\ \A k \in D : Endowment[k].amount \in Nat
  BY WalletAssumption
<1>6. \A j, k \in D : f[j] = f[k] => j = k
  OBVIOUS
<1>7. IsFiniteSet({f[k] : k \in D})
  <2>1. f \in Surjection(D, {f[k] : k \in D})
    BY DEF Surjection
  <2> QED BY <1>5, <2>1, FS_Surjection
<1>8. Shape
  <2>1. Len(built) = 0 /\ built \in Seq(Transactions) /\ accepted \in Seq(-1..MaxDaa)
    BY <1>1
  <2> QED BY <1>1, <1>2, <1>3, <1>7, <2>1, WalletAssumption DEF Shape
<1> DEFINE a == [c \in Coins |-> Amount(c)]
           b == [k \in D |-> Endowment[k].amount]
<1>9. \A k \in D : a[f[k]] = b[k] /\ b[k] \in Nat
  BY <1>3, <1>5 DEF Amount
<1>10. Total(Coins) = SumOf(a, Coins)
  BY <1>8, CoinFacts, TotalIsSum DEF TotalsAdd
<1>11. Endowed = SumOf(b, D)
  <2> DEFINE Body(g) == [s \in SUBSET D |-> IF s = {} THEN 0
                                            ELSE Endowment[First(s)].amount + g[Others(s)]]
             sum == CHOOSE g : g = Body(g)
  <2>1. Endowed = sum[D]
    BY DEF Endowed, MapThenSumSet, MapThenFoldSet, First, Others
  <2>2. ASSUME NEW g
        PROVE  Body(g) = [s \in SUBSET D |-> IF s = {} THEN 0 ELSE b[First(s)] + g[Others(s)]]
    <3>1. \A s \in SUBSET D : s # {} => b[First(s)] = Endowment[First(s)].amount
      BY FirstIsMember
    <3> QED BY <3>1
  <2>. HIDE DEF b, D
  <2>3. \E g : g = Body(g)
    <3>1. PICK g : Adds(g, b, D)
      BY <1>5, SumExists
    <3>2. g = [s \in SUBSET D |-> IF s = {} THEN 0 ELSE b[First(s)] + g[Others(s)]]
      BY <3>1 DEF Adds
    <3>3. g = Body(g)
      BY <2>2, <3>2
    <3> QED BY <3>3
  <2>. HIDE DEF Body
  <2>4. sum = Body(sum)
    BY <2>3
  <2>. HIDE DEF sum
  <2>5. Adds(sum, b, D)
    BY <2>2, <2>4 DEF Adds
  <2> QED BY <1>5, <2>1, <2>5, SumIs
<1>. HIDE DEF a, b, D, f
<1>12. SumOf(a, Coins) = SumOf(b, D)
  BY <1>3, <1>5, <1>6, <1>7, <1>9, SumImage
<1>13. Spent(Accepted) = 0
  <2>1. IsFiniteSet({})
    BY FS_EmptySet
  <2>2. Spent({}) = SumOf(<<>>, {}) /\ SumOf(<<>>, {}) = 0
    BY <2>1, SpentIsSum, SumFirst DEF SpentAdds
  <2> QED BY <1>2, <2>2
<1>14. Total(Unspent) \in Nat
  BY <1>4, <1>8, TotalFacts
<1>15. Total(Unspent) + Spent(Accepted) = Endowed
  BY <1>4, <1>10, <1>11, <1>12, <1>13, <1>14
<1>16. Descends /\ Waits /\ \A i \in Txs : Balanced(built[i]) /\ PaysItsWay(built[i])
  BY <1>1, <1>2 DEF Descends, Waits
<1> QED BY <1>8, <1>15, <1>16 DEF Inductive

\* Every step keeps the invariant.
LEMMA StepInductive ==
    ASSUME Inductive, [Next]_vars
    PROVE  Inductive'
<1>. MaxDaa \in Nat /\ daa \in 0..MaxDaa
  BY WalletAssumption DEF Inductive, Shape
<1>1. ASSUME NEW pin, NEW ids, NEW rate \in Rates, Anchor(pin, ids, rate)
      PROVE  Inductive'
  <2>1. PICK tx \in Build(pin, ids, rate) : Signed(tx)
    BY <1>1 DEF Anchor
  <2>2. Len(built) < MaxTx
    BY <1>1 DEF Anchor
  <2>3. tx \in Transactions /\ tx.ins \subseteq Unspent /\ Balanced(tx) /\ PaysItsWay(tx)
    BY AnchorsBuilt
  <2> QED BY <2>1, <2>2, <2>3, SignedInductive
<1>2. ASSUME NEW amount \in Amounts, NEW rate \in Rates, Send(amount, rate)
      PROVE  Inductive'
  BY <1>2, SendInductive
<1>3. ASSUME NEW i \in Txs, Submit(i) PROVE Inductive'
  BY <1>3, SubmitInductive
<1>4. ASSUME NEW i \in Txs, Accept(i) PROVE Inductive'
  BY <1>4, AcceptInductive
<1>5. ASSUME NEW i \in Txs, Evict(i) PROVE Inductive'
  <2>1. UNCHANGED <<built, accepted>> /\ daa' \in daa..MaxDaa /\ mempool' \subseteq mempool
    BY <1>5 DEF Evict
  <2> QED BY <2>1, ForgetInductive
<1>6. CASE Tick
  <2>1. UNCHANGED <<built, accepted>> /\ daa' \in daa..MaxDaa /\ mempool' \subseteq mempool
    BY <1>6 DEF Tick
  <2> QED BY <2>1, ForgetInductive
<1>7. CASE UNCHANGED vars
  <2>1. UNCHANGED <<built, accepted>> /\ daa' \in daa..MaxDaa /\ mempool' \subseteq mempool
    BY <1>7 DEF vars
  <2> QED BY <2>1, ForgetInductive
<1> QED BY <1>1, <1>2, <1>3, <1>4, <1>5, <1>6, <1>7 DEF Next

\* The invariant holds.
LEMMA InductiveHolds == Spec => []Inductive
<1>1. Init => Inductive
  BY InitInductive
<1>2. Inductive /\ [Next]_vars => Inductive'
  BY StepInductive
<1> QED BY <1>1, <1>2, PTL DEF Spec

\* The state is well formed and no command makes or loses money: at every moment
\* what the wallet holds, has paid to others and has paid in fees is what it
\* started with, whatever is built from coins that are being spent already, sent
\* late, sent twice or forgotten by the node.
THEOREM MoneyIsKept == Spec => []TypeOK
<1>1. Inductive => TypeOK
  <2> SUFFICES ASSUME Inductive PROVE TypeOK
    OBVIOUS
  <2>1. \A i \in Txs : /\ built[i].change > 0 /\ built[i].ids \in 0..2
                       /\ accepted[i] \in -1..daa
    BY CoinFacts DEF Inductive, Transactions
  <2> QED BY <2>1 DEF Inductive, Shape, TypeOK
<1> QED BY <1>1, InductiveHolds, PTL

\* Every anchor that was ever signed pays for exactly the mass it has with the
\* inputs and the change it was signed with.
THEOREM AnchorsPayExactly == Spec => []AnchorsPayTheirWay
<1>1. Inductive => AnchorsPayTheirWay
  BY DEF Inductive, AnchorsPayTheirWay, PaysItsWay
<1> QED BY <1>1, InductiveHolds, PTL

----------------------------------------------------------------------------
(* What is refused, and what is topped up *)

\* No fee pays for an anchor with these inputs.
Hopeless(coins, ids, rate) ==
    \A fee \in Nat :
        ~PaysFor(NonStorageMass(Cardinality(coins), ids), Reciprocals(coins), Total(coins),
                 rate, fee)

\* Coins of the wallet that solve_fee refuses are hopeless.
RefusedIsHopeless ==
    \A coins \in SUBSET Spendable, ids \in 1..2, rate \in Rates :
        coins # {} /\ Fees(coins, ids, rate) = {} => Hopeless(coins, ids, rate)

\* Whatever an anchor tops up the coin it was asked for with: without the last
\* of it, the smallest, nothing pays.
LastTopUpNeeded(tx) ==
    tx.ids # 0 =>
        /\ tx.pin \in tx.ins
        /\ \A c \in tx.ins \ {tx.pin} :
              (\A d \in tx.ins \ {tx.pin} : Amount(c) <= Amount(d))
                  => Hopeless(tx.ins \ {c}, tx.ids, tx.rate)

LastTopUpsAreNeeded == \A i \in Txs : LastTopUpNeeded(built[i])

\* The coins are worth more than each of them, and so weigh less together.
LEMMA SelectionWeighs ==
    ASSUME Shape, NEW S \in SUBSET Coins, S # {}
    PROVE  /\ Total(S) \in Nat /\ Reciprocals(S) \in Nat /\ Total(S) > 0
           /\ StorageParameter \div Total(S) <= Reciprocals(S)
<1> DEFINE a == [c \in Coins |-> Amount(c)]
           b == [c \in Coins |-> StorageParameter \div Amount(c)]
<1>1. \A c \in Coins : a[c] = Amount(c) /\ a[c] \in Nat /\ a[c] > 0
  BY CoinFacts
<1>2. \A c \in Coins : b[c] = StorageParameter \div Amount(c) /\ b[c] \in Nat
  BY CoinFacts DEF StorageParameter
<1>. HIDE DEF a, b
<1>3. IsFiniteSet(S)
  BY CoinFacts
<1>4. PICK c : c \in S
  OBVIOUS
<1>5. S \ {c} \in SUBSET Coins /\ IsFiniteSet(S \ {c})
  BY <1>3, FS_Subset
<1>6. Total(S) = SumOf(a, S) /\ Reciprocals(S) = SumOf(b, S)
  BY <1>1, <1>2, <1>3, TotalIsSum, ReciprocalsIsSum DEF TotalsAdd, ReciprocalsAdd
<1>7. SumOf(a, S) = a[c] + SumOf(a, S \ {c}) /\ SumOf(b, S) = b[c] + SumOf(b, S \ {c})
  BY <1>1, <1>2, <1>3, <1>4, SumRemove
<1>8. SumOf(a, S \ {c}) \in Nat /\ SumOf(b, S \ {c}) \in Nat
  BY <1>1, <1>2, <1>5, SumNatural
<1>9. /\ Total(S) \in Nat /\ Reciprocals(S) \in Nat
      /\ Amount(c) \in Nat /\ 0 < Amount(c) /\ Amount(c) <= Total(S)
      /\ StorageParameter \div Amount(c) <= Reciprocals(S)
  BY <1>1, <1>2, <1>4, <1>6, <1>7, <1>8
<1>10. StorageParameter \in Nat
  BY DEF StorageParameter
<1>11. StorageParameter \div Total(S) <= StorageParameter \div Amount(c)
  BY <1>9, <1>10, QuotientFalls
<1>12. StorageParameter \div Total(S) \in Nat /\ StorageParameter \div Amount(c) \in Nat
  BY <1>9, <1>10
<1> QED BY <1>9, <1>11, <1>12

\* solve_fee refuses no selection that pays.
LEMMA SelectionSettles ==
    ASSUME Shape, NEW S \in SUBSET Coins, S # {}, NEW ids \in 1..2, NEW rate \in Rates,
           Fees(S, ids, rate) = {}
    PROVE  Hopeless(S, ids, rate)
<1> DEFINE lightest == NonStorageMass(Cardinality(S), ids)
<1>1. lightest \in Nat
  <2>1. Cardinality(S) \in Nat
    BY CoinFacts, FS_CardinalityType
  <2> QED BY <2>1 DEF NonStorageMass, Larger
<1>2. rate \in Nat \ {0}
  BY WalletAssumption
<1>3. Fees(S, ids, rate) = SolveFee(lightest, Reciprocals(S), Total(S), rate)
  BY DEF Fees
<1>. HIDE DEF lightest
<1>4. SUFFICES ASSUME NEW fee \in Nat, PaysFor(lightest, Reciprocals(S), Total(S), rate, fee)
               PROVE  FALSE
  BY DEF Hopeless, lightest
<1>5. SolveFee(lightest, Reciprocals(S), Total(S), rate) = {rate * lightest}
  BY <1>1, <1>2, <1>4, SelectionWeighs, FirstPassSettles
<1> QED BY <1>3, <1>5

\* In every state, coins that solve_fee refuses pay for an anchor at no fee.
THEOREM RefusedIsAlwaysHopeless == Spec => []RefusedIsHopeless
<1>1. Inductive => RefusedIsHopeless
  <2> SUFFICES ASSUME Inductive, NEW coins \in SUBSET Spendable, NEW ids \in 1..2,
                      NEW rate \in Rates, coins # {}, Fees(coins, ids, rate) = {}
               PROVE  Hopeless(coins, ids, rate)
    BY DEF RefusedIsHopeless
  <2>1. Shape /\ coins \in SUBSET Coins
    BY CoinFacts DEF Inductive, Spendable
  <2> QED BY <2>1, SelectionSettles
<1> QED BY <1>1, InductiveHolds, PTL

\* Numbers up to n have a least.
LEMMA LeastExists ==
    ASSUME NEW n \in Nat, NEW S \in SUBSET (1..n), S # {}
    PROVE  Min(S) \in S /\ \A k \in S : Min(S) <= k
<1> DEFINE Below(k) == 1..k
           below == {Below(k) : k \in S}
<1>1. IsFiniteSet(1..n)
  BY FS_Interval
<1>2. \E s \in below : \A t \in below : ~(t \subseteq s /\ t # s)
  <2>1. ASSUME NEW k \in S PROVE Below(k) \subseteq 1..n
    OBVIOUS
  <2>. HIDE DEF Below
  <2>2. below \subseteq SUBSET (1..n) /\ below # {}
    BY <2>1
  <2>3. PICK top : top = 1..n
    OBVIOUS
  <2>4. PICK bad : bad = below
    OBVIOUS
  <2>5. IsFiniteSet(top) /\ bad \subseteq SUBSET top /\ bad # {}
    BY <1>1, <2>2, <2>3, <2>4
  <2>. HIDE DEF below
  <2>6. \E s \in bad : \A t \in bad : ~(t \subseteq s /\ t # s)
    BY <2>5, LeastSubset
  <2> QED BY <2>4, <2>6
<1>3. PICK m \in S : \A k \in S : ~(Below(k) \subseteq Below(m) /\ Below(k) # Below(m))
  <2>. HIDE DEF Below
  <2> QED BY <1>2
<1>4. \A k \in S : m <= k
  <2> SUFFICES ASSUME NEW k \in S, k < m PROVE FALSE
    OBVIOUS
  <2>1. (1..k) \subseteq (1..m) /\ m \in 1..m /\ m \notin 1..k
    OBVIOUS
  <2> QED BY <1>3, <2>1
<1> QED BY <1>4 DEF Min

\* An anchor is built from the least number of inputs that pays, and without the
\* smallest top-up its inputs are what was tried before.
LEMMA TopUpBuilt ==
    ASSUME Inductive, NEW pin, NEW ids, NEW rate \in Rates, NEW tx \in Build(pin, ids, rate)
    PROVE  LastTopUpNeeded(tx)
<1> DEFINE Paying(n) == {S \in Selections(pin, n) : Fees(S, ids, rate) # {}}
           Enough == {n \in 1..MaxInputs : Paying(n) # {}}
           least == Min(Enough)
<1>1. ids \in {1, 2} /\ pin \in Spendable /\ tx \in Plans(pin, ids, rate)
  BY DEF Build, PayloadFits
<1>2. Enough # {} /\ \E S \in Paying(least) : \E fee \in Fees(S, ids, rate) :
                 tx = Transfer(S, ids, fee, 0, pin, rate)
  BY <1>1 DEF Plans
<1>3. PICK S \in Paying(least) : \E fee \in Fees(S, ids, rate) :
                 tx = Transfer(S, ids, fee, 0, pin, rate)
  BY <1>2
<1>4. tx.ins = S /\ tx.ids = ids /\ tx.pin = pin /\ tx.rate = rate
  BY <1>3 DEF Transfer
<1>5. least \in Enough /\ \A k \in Enough : least <= k
  <2>1. MaxInputs \in Nat /\ Enough \in SUBSET (1..MaxInputs)
    BY WalletAssumption
  <2>. HIDE DEF Enough
  <2> QED BY <1>2, <2>1, LeastExists
<1>6. least \in 1..MaxInputs /\ MaxInputs \in Nat
  BY <1>5, WalletAssumption
<1>7. \A k \in 1..MaxInputs : k < least => Paying(k) = {}
  BY <1>5, <1>6
<1>8. /\ pin \in S /\ Cardinality(S) = least /\ S \in SUBSET Spendable
      /\ \A c \in S \ {pin}, d \in Spendable \ S : Amount(c) >= Amount(d)
  BY <1>3 DEF Selections
<1>. HIDE DEF least, Enough
<1>9. Shape /\ S \in SUBSET Coins /\ Spendable \in SUBSET Coins
  BY <1>8, CoinFacts DEF Inductive, Spendable
<1>10. SUFFICES ASSUME NEW c \in S \ {pin}, \A d \in S \ {pin} : Amount(c) <= Amount(d)
                PROVE  Hopeless(S \ {c}, ids, rate)
  BY <1>4, <1>8 DEF LastTopUpNeeded
<1> DEFINE fewer == S \ {c}
<1>11. fewer \in SUBSET Coins /\ fewer \in SUBSET Spendable /\ pin \in fewer
  BY <1>8, <1>9
<1>12. IsFiniteSet(S) /\ IsFiniteSet(fewer)
  BY <1>9, <1>11, CoinFacts
<1>13. Cardinality(fewer) = least - 1
  BY <1>8, <1>12, FS_RemoveElement
<1>14. Cardinality(fewer) \in Nat \ {0}
  BY <1>11, <1>12, FS_CardinalityType, FS_EmptySet
<1>15. fewer \in Selections(pin, least - 1)
  <2>1. ASSUME NEW a \in fewer \ {pin}, NEW d \in Spendable \ fewer
        PROVE  Amount(a) >= Amount(d)
    <3>1. CASE d = c
      <4>1. Amount(c) <= Amount(a)
        BY <1>10
      <4>2. Amount(c) \in Nat /\ Amount(a) \in Nat
        BY <1>9, CoinFacts
      <4> QED BY <3>1, <4>1, <4>2
    <3>2. CASE d # c
      BY <1>8, <3>2
    <3> QED BY <3>1, <3>2
  <2> QED BY <1>11, <1>13, <2>1 DEF Selections
<1>16. least - 1 \in 1..MaxInputs /\ least - 1 < least
  BY <1>6, <1>13, <1>14
<1>17. Fees(fewer, ids, rate) = {}
  BY <1>7, <1>15, <1>16
<1>. HIDE DEF fewer
<1>18. Hopeless(fewer, ids, rate)
  BY <1>1, <1>9, <1>11, <1>17, SelectionSettles
<1> QED BY <1>18 DEF fewer

\* A step that keeps what coins are worth keeps what an anchor could do without.
LEMMA TopUpStays ==
    ASSUME Shape, \A c \in Coins : Amount(c)' = Amount(c), NEW tx, tx.ins \subseteq Coins,
           LastTopUpNeeded(tx)
    PROVE  LastTopUpNeeded(tx)'
<1>1. \A S \in SUBSET Coins : Total(S)' = Total(S) /\ Reciprocals(S)' = Reciprocals(S)
  BY TotalsStay
<1>2. SUFFICES ASSUME tx.ids # 0, tx.pin \in tx.ins, NEW c \in tx.ins \ {tx.pin},
                      \A d \in tx.ins \ {tx.pin} : Amount(c)' <= Amount(d)'
               PROVE  Hopeless(tx.ins \ {c}, tx.ids, tx.rate)'
  BY DEF LastTopUpNeeded
<1>3. Hopeless(tx.ins \ {c}, tx.ids, tx.rate)
  BY <1>2 DEF LastTopUpNeeded
<1> DEFINE S == tx.ins \ {c}
<1>4. Total(S)' = Total(S) /\ Reciprocals(S)' = Reciprocals(S)
  BY <1>1
<1> QED BY <1>3, <1>4 DEF Hopeless

\* Every anchor ever signed spends the coin it was asked for, and without the
\* smallest of the coins it was topped up with it could not be paid for.
THEOREM LastTopUpsAreAlwaysNeeded == Spec => []LastTopUpsAreNeeded
<1>1. Init => LastTopUpsAreNeeded
  BY DEF Init, LastTopUpsAreNeeded, Txs
<1>2. ASSUME Inductive, LastTopUpsAreNeeded, [Next]_vars
      PROVE  LastTopUpsAreNeeded'
  <2>0. Shape /\ Unspent \subseteq Coins
    BY <1>2, CoinFacts DEF Inductive
  <2>1. ASSUME NEW tx \in Transactions, Signed(tx), tx.ins \subseteq Unspent, LastTopUpNeeded(tx)
        PROVE  LastTopUpsAreNeeded'
    <3>0. PICK n : n = Len(built) + 1
      OBVIOUS
    <3>1. /\ Txs' = Txs \cup {n} /\ built'[n] = tx
          /\ \A i \in Txs : built'[i] = built[i]
          /\ \A c \in Coins : Amount(c)' = Amount(c)
      BY <2>0, <2>1, <3>0, SigningAdds
    <3>2. LastTopUpNeeded(tx)'
      BY <2>0, <2>1, <3>1, TopUpStays
    <3>3. ASSUME NEW i \in Txs
          PROVE  LastTopUpNeeded(built[i])'
      <4>1. PICK old : old = built[i]
        OBVIOUS
      <4>2. built'[i] = old /\ LastTopUpNeeded(old)
        BY <1>2, <3>1, <4>1 DEF LastTopUpsAreNeeded
      <4>3. old.ins \subseteq Coins
        BY <1>2, <4>1 DEF Inductive, Descends
      <4>4. LastTopUpNeeded(old)'
        BY <2>0, <3>1, <4>2, <4>3, TopUpStays
      <4> QED BY <4>2, <4>4
    <3>4. LastTopUpNeeded(built[n])'
      BY <3>1, <3>2
    <3> QED BY <3>1, <3>3, <3>4 DEF LastTopUpsAreNeeded
  <2>2. ASSUME UNCHANGED built
        PROVE  LastTopUpsAreNeeded'
    <3>1. Txs' = Txs /\ \A c \in Coins : Amount(c)' = Amount(c)
      BY <1>2, <2>2, BuiltStays
    <3>2. ASSUME NEW i \in Txs
          PROVE  LastTopUpNeeded(built[i])'
      <4>1. PICK old : old = built[i]
        OBVIOUS
      <4>2. built'[i] = old /\ LastTopUpNeeded(old)
        BY <1>2, <2>2, <4>1 DEF LastTopUpsAreNeeded
      <4>3. old.ins \subseteq Coins
        BY <1>2, <4>1 DEF Inductive, Descends
      <4>4. LastTopUpNeeded(old)'
        BY <2>0, <3>1, <4>2, <4>3, TopUpStays
      <4> QED BY <4>2, <4>4
    <3> QED BY <3>1, <3>2 DEF LastTopUpsAreNeeded
  <2>3. ASSUME NEW pin, NEW ids, NEW rate \in Rates, Anchor(pin, ids, rate)
        PROVE  LastTopUpsAreNeeded'
    <3>1. PICK tx \in Build(pin, ids, rate) : Signed(tx)
      BY <2>3 DEF Anchor
    <3>2. tx \in Transactions /\ tx.ins \subseteq Unspent
      BY <1>2, AnchorsBuilt
    <3>3. LastTopUpNeeded(tx)
      BY <1>2, TopUpBuilt
    <3> QED BY <2>1, <3>1, <3>2, <3>3
  <2>4. ASSUME NEW amount \in Amounts, NEW rate \in Rates, Send(amount, rate)
        PROVE  LastTopUpsAreNeeded'
    <3>1. PICK tx \in Transactions : Signed(tx) /\ tx.ins \subseteq Unspent /\ tx.ids = 0
      BY <1>2, <2>4, SendBuilt
    <3>2. LastTopUpNeeded(tx)
      BY <3>1 DEF LastTopUpNeeded
    <3> QED BY <2>1, <3>1, <3>2
  <2>5. CASE Tick
    BY <2>2, <2>5 DEF Tick
  <2>6. ASSUME NEW i \in Txs, Submit(i) \/ Accept(i) \/ Evict(i)
        PROVE  LastTopUpsAreNeeded'
    BY <2>2, <2>6 DEF Submit, Accept, Evict
  <2>7. CASE UNCHANGED vars
    BY <2>2, <2>7 DEF vars
  <2> QED BY <1>2, <2>3, <2>4, <2>5, <2>6, <2>7 DEF Next
<1> QED BY <1>1, <1>2, InductiveHolds, PTL DEF Spec
=============================================================================
