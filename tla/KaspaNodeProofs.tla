-------------------------- MODULE KaspaNodeProofs ---------------------------
(***************************************************************************)
(* What every user of the node relies on: the shape of the tree and of its *)
(* paths, what a chain accepts, how deep a fork goes, and how far a page   *)
(* gets.  NodeInductive is preserved by every step of the node; a block    *)
(* deep enough on the chain stays on it, and NodeGrows says that a new     *)
(* block changes nothing about the ones there are.                         *)
(*                                                                         *)
(* Past is recursive in the blocks, so the facts about it are proved by    *)
(* induction: the least block without the property (LeastNumber, from the  *)
(* well-foundedness of inclusion on finite sets) has a parent with it.     *)
(***************************************************************************)
EXTENDS KaspaNode, FiniteSetTheorems, TLAPS

\* A set of numbers that is not empty has a least one.
LEMMA LeastNumber ==
    ASSUME NEW S \in SUBSET Nat, S # {}
    PROVE  \E n \in S : \A k \in S : n <= k
<1> DEFINE Segments == {0..n : n \in S}
           R == StrictSubsetOrdering(Nat)
<1>1. \A n \in S : 0..n \in FiniteSubsetsOf(Nat)
  <2> TAKE n \in S
  <2>1. n \in Nat /\ IsFiniteSet(0..n)
    BY FS_Interval
  <2>2. 0..n \in SUBSET Nat
    BY <2>1
  <2> QED BY <2>1, <2>2 DEF FiniteSubsetsOf
<1>2. Segments \subseteq FiniteSubsetsOf(Nat) /\ Segments # {}
  BY <1>1
<1>3. IsWellFoundedOn(R, FiniteSubsetsOf(Nat))
  BY FS_StrictSubsetOrderingWellFounded
<1>4. \E s \in Segments : \A t \in Segments : <<t, s>> \notin R
  <2> HIDE DEF Segments, R
  <2> QED BY <1>2, <1>3, WFMin
<1>5. PICK n \in S : \A k \in S : <<0..k, 0..n>> \notin R
  BY <1>4
<1>6. ASSUME NEW k \in S, k < n PROVE FALSE
  <2>1. k \in Nat /\ n \in Nat
    OBVIOUS
  <2>2. 0..k \in SUBSET Nat /\ 0..n \in SUBSET Nat
    BY <2>1
  <2>3. 0..k \subseteq 0..n /\ n \in 0..n /\ n \notin 0..k
    BY <2>1, <1>6
  <2>4. <<0..k, 0..n>> \in R
    BY <2>2, <2>3 DEF StrictSubsetOrdering
  <2> QED BY <2>4, <1>5
<1>7. \A k \in S : n <= k
  BY <1>6
<1> QED BY <1>7

----------------------------------------------------------------------------
(* The paths of the tree *)

BlockRecords == [parent : Nat, txs : SUBSET Txs]

\* Blocks are mined onto earlier ones; the first is the only one without a
\* parent and accepts nothing.
Tree ==
    /\ blocks \in Seq(BlockRecords) /\ Len(blocks) >= 1
    /\ \A b \in Blocks : /\ blocks[b].parent \in 0..(b - 1)
                         /\ blocks[b].parent = NoBlock <=> b = 1
    /\ blocks[1].txs = {}

\* Whatever the parents, there are paths as Past describes them.
LEMMA PathsExist ==
    ASSUME NEW n \in Nat, NEW up, \A b \in 1..n : up[b] \in 0..(b - 1)
    PROVE  \E f : f = [b \in 0..n |-> IF b = 0 THEN {} ELSE {b} \cup f[up[b]]]
<1> DEFINE Path(f, m) == f = [b \in 0..m |-> IF b = 0 THEN {} ELSE {b} \cup f[up[b]]]
           Bad == {m \in 0..n : ~ \E f : Path(f, m)}
<1>1. SUFFICES ASSUME Bad # {} PROVE FALSE
  <2>1. n \in 0..n
    OBVIOUS
  <2> QED BY <2>1
<1>2. PICK m \in Bad : \A k \in Bad : m <= k
  <2>1. Bad \in SUBSET Nat
    OBVIOUS
  <2> HIDE DEF Bad
  <2> QED BY <1>1, <2>1, LeastNumber
<1>3. m \in 0..n /\ ~ \E f : Path(f, m)
  OBVIOUS
<1>4. m # 0
  <2> DEFINE f == [b \in 0..0 |-> {}]
  <2>1. Path(f, 0)
    OBVIOUS
  <2> QED BY <1>3, <2>1
<1>5. PICK f : Path(f, m - 1)
  <2>1. m - 1 \in 0..n /\ ~(m <= m - 1)
    BY <1>3, <1>4
  <2>2. m - 1 \notin Bad
    BY <1>2, <2>1
  <2> QED BY <2>1, <2>2
<1> DEFINE g == [b \in 0..m |-> IF b = m THEN {m} \cup f[up[m]] ELSE f[b]]
<1>6. Path(g, m)
  <2>1. ASSUME NEW b \in 0..m PROVE g[b] = IF b = 0 THEN {} ELSE {b} \cup g[up[b]]
    <3>1. CASE b = 0
      BY <1>3, <1>4, <1>5, <3>1
    <3>2. CASE b = m
      <4>1. up[m] \in 0..(m - 1)
        BY <1>3, <1>4
      <4>2. up[m] \in 0..m /\ up[m] # m
        BY <4>1, <1>3
      <4>3. g[up[m]] = f[up[m]]
        BY <4>2
      <4> QED BY <3>2, <4>3, <1>4, <1>3
    <3>3. CASE b \in 1..(m - 1)
      <4>1. up[b] \in 0..(b - 1)
        BY <1>3, <3>3
      <4>2. up[b] \in 0..m /\ up[b] # m /\ b \in 0..(m - 1) /\ b # 0 /\ b # m
        BY <4>1, <1>3, <3>3
      <4>3. g[up[b]] = f[up[b]] /\ g[b] = f[b]
        BY <4>2
      <4>4. f[b] = {b} \cup f[up[b]]
        BY <1>5, <4>2
      <4> QED BY <4>2, <4>3, <4>4
    <3> QED BY <1>3, <3>1, <3>2, <3>3
  <2> QED BY <2>1
<1> QED BY <1>3, <1>6

\* A block's past is the block and its parent's past.
LEMMA PastIsPath ==
    ASSUME Tree
    PROVE  Past = [b \in 0..Len(blocks) |->
                      IF b = NoBlock THEN {} ELSE {b} \cup Past[blocks[b].parent]]
<1> DEFINE n == Len(blocks)
           up == [b \in 1..n |-> blocks[b].parent]
<1>1. n \in Nat /\ \A b \in 1..n : up[b] \in 0..(b - 1)
  BY DEF Tree, Blocks
<1>2. \E f : f = [b \in 0..n |-> IF b = 0 THEN {} ELSE {b} \cup f[up[b]]]
  <2> HIDE DEF n, up
  <2> QED BY <1>1, PathsExist
<1>3. PICK f : f = [b \in 0..n |-> IF b = 0 THEN {} ELSE {b} \cup f[up[b]]]
  BY <1>2
<1>4. f = [b \in 0..n |-> IF b = NoBlock THEN {} ELSE {b} \cup f[blocks[b].parent]]
  <2>1. \A b \in 0..n : b # 0 => up[b] = blocks[b].parent
    BY <1>1
  <2> HIDE DEF up
  <2>2. \A b \in 0..n : (IF b = 0 THEN {} ELSE {b} \cup f[up[b]])
            = (IF b = NoBlock THEN {} ELSE {b} \cup f[blocks[b].parent])
    BY <2>1 DEF NoBlock
  <2> QED BY <1>3, <2>2
<1> QED BY <1>4 DEF Past
\* What holds of a block whenever it holds of the earlier ones holds of all.
LEMMA BlockInduction ==
    ASSUME NEW n \in Nat, NEW S, \A b \in 0..n : (\A c \in 0..(b - 1) : c \in S) => b \in S
    PROVE  \A b \in 0..n : b \in S
<1> DEFINE Bad == {b \in 0..n : b \notin S}
<1>1. SUFFICES ASSUME Bad # {} PROVE FALSE
  OBVIOUS
<1>2. PICK b \in Bad : \A c \in Bad : b <= c
  <2>1. Bad \in SUBSET Nat
    OBVIOUS
  <2> HIDE DEF Bad
  <2> QED BY <1>1, <2>1, LeastNumber
<1>3. ASSUME NEW c \in 0..(b - 1) PROVE c \in S
  <2>1. c \in 0..n /\ ~(b <= c)
    BY <1>3
  <2> QED BY <2>1, <1>2
<1> QED BY <1>3

\* A path holds its block, and only blocks before it.
LEMMA PastBelow ==
    ASSUME Tree
    PROVE  /\ Past[NoBlock] = {}
           /\ \A b \in Blocks : /\ Past[b] = {b} \cup Past[blocks[b].parent]
                                /\ b \in Past[b]
           /\ \A b \in 0..Len(blocks) : Past[b] \subseteq 1..b /\ Past[b] \subseteq Blocks
<1> DEFINE n == Len(blocks)
           S == {b \in 0..n : Past[b] \subseteq 1..b}
<1>0. n \in Nat
  BY DEF Tree
<1>1. Past[0] = {}
  BY PastIsPath, <1>0 DEF NoBlock
<1>2. \A b \in Blocks : Past[b] = {b} \cup Past[blocks[b].parent]
  <2> TAKE b \in Blocks
  <2>1. b \in 0..n /\ b # NoBlock
    BY <1>0 DEF Blocks, NoBlock
  <2> QED BY <2>1, PastIsPath
<1>3. ASSUME NEW b \in 0..n, \A c \in 0..(b - 1) : c \in S PROVE b \in S
  <2>1. CASE b = 0
    BY <1>1, <2>1
  <2>2. CASE b # 0
    <3>1. b \in Blocks
      BY <1>0, <2>2 DEF Blocks
    <3>2. blocks[b].parent \in 0..(b - 1)
      BY <3>1 DEF Tree
    <3>3. Past[blocks[b].parent] \subseteq 1..blocks[b].parent
      BY <3>2, <1>3
    <3>4. 1..blocks[b].parent \subseteq 1..b /\ b \in 1..b
      BY <3>2, <1>0, <2>2
    <3> QED BY <3>1, <3>3, <3>4, <1>2
  <2> QED BY <2>1, <2>2
<1>4. \A b \in 0..n : b \in S
  <2> HIDE DEF S
  <2> QED BY <1>0, <1>3, BlockInduction
<1>5. \A b \in 0..n : 1..b \subseteq Blocks
  BY <1>0 DEF Blocks
<1> QED BY <1>1, <1>2, <1>4, <1>5 DEF NoBlock

\* The path of a block on a path is part of it.
LEMMA PastClosed ==
    ASSUME Tree, NEW b \in 0..Len(blocks), NEW c \in Past[b]
    PROVE  Past[c] \subseteq Past[b] /\ c \in Blocks
<1> DEFINE n == Len(blocks)
           S == {a \in 0..n : \A d \in Past[a] : Past[d] \subseteq Past[a]}
<1>0. n \in Nat
  BY DEF Tree
<1>1. ASSUME NEW a \in 0..n, \A d \in 0..(a - 1) : d \in S PROVE a \in S
  <2>1. CASE a = 0
    BY <2>1, PastBelow DEF NoBlock
  <2>2. CASE a # 0
    <3>1. a \in Blocks
      BY <1>0, <2>2 DEF Blocks
    <3>2. blocks[a].parent \in 0..(a - 1)
      BY <3>1 DEF Tree
    <3>3. Past[a] = {a} \cup Past[blocks[a].parent]
      BY <3>1, PastBelow
    <3>4. \A d \in Past[blocks[a].parent] : Past[d] \subseteq Past[blocks[a].parent]
      BY <3>2, <1>1
    <3> QED BY <3>3, <3>4
  <2> QED BY <2>1, <2>2
<1>2. \A a \in 0..n : a \in S
  <2> HIDE DEF S
  <2> QED BY <1>0, <1>1, BlockInduction
<1> QED BY <1>2, PastBelow

\* Of two blocks on a path the earlier is on the path of the later.
LEMMA PastOrdered ==
    ASSUME Tree, NEW b \in 0..Len(blocks), NEW c \in Past[b], NEW d \in Past[b], c <= d
    PROVE  c \in Past[d]
<1> DEFINE n == Len(blocks)
           S == {a \in 0..n : \A x, y \in Past[a] : x <= y => x \in Past[y]}
<1>0. n \in Nat
  BY DEF Tree
<1>1. ASSUME NEW a \in 0..n, \A x \in 0..(a - 1) : x \in S PROVE a \in S
  <2>1. CASE a = 0
    BY <2>1, PastBelow DEF NoBlock
  <2>2. CASE a # 0
    <3>1. a \in Blocks
      BY <1>0, <2>2 DEF Blocks
    <3>2. blocks[a].parent \in 0..(a - 1)
      BY <3>1 DEF Tree
    <3>3. Past[a] = {a} \cup Past[blocks[a].parent]
      BY <3>1, PastBelow
    <3>4. ASSUME NEW x \in Past[a], NEW y \in Past[a], x <= y PROVE x \in Past[y]
      <4>1. CASE y = a
        BY <4>1
      <4>2. CASE y # a
        <5>1. y \in Past[blocks[a].parent] /\ blocks[a].parent \in S
          BY <4>2, <3>2, <3>3, <1>1
        <5>2. y \in 1..blocks[a].parent
          BY <5>1, <3>2, PastBelow
        <5>3. x # a
          BY <5>2, <3>2, <3>4, <1>0
        <5> QED BY <5>1, <5>3, <3>3, <3>4
      <4> QED BY <4>1, <4>2
    <3> QED BY <3>4
  <2> QED BY <2>1, <2>2
<1>2. \A a \in 0..n : a \in S
  <2> HIDE DEF S
  <2> QED BY <1>0, <1>1, BlockInduction
<1> QED BY <1>2

\* Heights count the blocks of a path: they grow along it.
LEMMA Heights ==
    ASSUME Tree
    PROVE  /\ \A b \in 0..Len(blocks) : Height(b) \in 0..b /\ IsFiniteSet(Past[b])
           /\ \A b \in Blocks : Height(b) = Height(blocks[b].parent) + 1
           /\ \A b \in Blocks : \A c \in Past[b] : c # b => Height(c) < Height(b)
<1> DEFINE n == Len(blocks)
<1>0. n \in Nat /\ \A b \in 0..n : b \in Nat
  BY DEF Tree
<1>1. ASSUME NEW b \in 0..n
      PROVE  Height(b) \in 0..b /\ IsFiniteSet(Past[b])
  <2>1. IsFiniteSet(1..b) /\ Cardinality(1..b) = b
    BY <1>0, FS_Interval
  <2>2. Past[b] \in SUBSET (1..b)
    BY PastBelow
  <2>3. IsFiniteSet(Past[b]) /\ Cardinality(Past[b]) <= b
    BY <2>1, <2>2, FS_Subset
  <2>4. Cardinality(Past[b]) \in Nat
    BY <2>3, FS_CardinalityType
  <2> QED BY <2>3, <2>4, <1>0 DEF Height
<1>2. ASSUME NEW b \in Blocks
      PROVE  Height(b) = Height(blocks[b].parent) + 1
  <2>1. blocks[b].parent \in 0..(b - 1) /\ blocks[b].parent \in 0..n
    BY <1>0 DEF Tree, Blocks
  <2>2. Past[b] = Past[blocks[b].parent] \cup {b}
    BY PastBelow
  <2>3. b \notin Past[blocks[b].parent]
    BY <2>1, PastBelow
  <2>4. IsFiniteSet(Past[blocks[b].parent])
    BY <2>1, <1>1
  <2> QED BY <2>2, <2>3, <2>4, FS_AddElement DEF Height
<1>3. ASSUME NEW b \in Blocks, NEW c \in Past[b], c # b
      PROVE  Height(c) < Height(b)
  <2>1. b \in 0..n /\ c \in 0..n /\ c \in 1..b
    BY <1>0, PastBelow DEF Blocks
  <2>2. Past[c] \in SUBSET Past[b]
    BY <2>1, PastClosed
  <2>3. b \notin Past[c] /\ b \in Past[b]
    <3>1. Past[c] \subseteq 1..c /\ b \notin 1..c
      BY <2>1, <1>3, PastBelow
    <3> QED BY <3>1, PastBelow
  <2>4. IsFiniteSet(Past[b]) /\ Height(b) \in Nat /\ Height(c) \in Nat
    BY <2>1, <1>1
  <2>5. Height(c) <= Height(b) /\ (Height(c) = Height(b) => Past[c] = Past[b])
    BY <2>2, <2>4, FS_Subset DEF Height
  <2> QED BY <2>3, <2>4, <2>5
<1> QED BY <1>1, <1>2, <1>3

\* Every path begins with the first block.
LEMMA PastBegins ==
    ASSUME Tree, NEW b \in Blocks
    PROVE  1 \in Past[b]
<1> DEFINE n == Len(blocks)
           S == {a \in 0..n : a # 0 => 1 \in Past[a]}
<1>0. n \in Nat /\ b \in 0..n /\ b # 0
  BY DEF Tree, Blocks
<1>1. ASSUME NEW a \in 0..n, \A x \in 0..(a - 1) : x \in S PROVE a \in S
  <2>1. CASE a = 0
    BY <2>1
  <2>2. CASE a # 0
    <3>1. a \in Blocks
      BY <1>0, <2>2 DEF Blocks
    <3>2. blocks[a].parent \in 0..(a - 1) /\ (blocks[a].parent = 0 => a = 1)
      BY <3>1 DEF Tree, NoBlock
    <3>3. Past[a] = {a} \cup Past[blocks[a].parent]
      BY <3>1, PastBelow
    <3>4. blocks[a].parent \in S
      BY <3>2, <1>1
    <3> QED BY <3>2, <3>3, <3>4
  <2> QED BY <2>1, <2>2
<1>2. \A a \in 0..n : a \in S
  <2> HIDE DEF S
  <2> QED BY <1>0, <1>1, BlockInduction
<1> QED BY <1>0, <1>2
\* The last of some blocks, and the first few of them.
LEMMA LastOfSome ==
    ASSUME NEW n \in Nat, NEW S \in SUBSET (0..n), S # {}
    PROVE  Max(S) \in S /\ \A b \in S : b <= Max(S)
<1> DEFINE Mirror == {n - b : b \in S}
<1>1. Mirror \in SUBSET Nat /\ Mirror # {}
  <2>1. \A b \in 0..n : n - b \in Nat
    OBVIOUS
  <2>2. \A b \in S : n - b \in Nat
    BY <2>1
  <2> QED BY <2>2
<1>2. PICK k \in Mirror : \A l \in Mirror : k <= l
  <2> HIDE DEF Mirror
  <2> QED BY <1>1, LeastNumber
<1>3. PICK m \in S : k = n - m
  OBVIOUS
<1>4. \A b \in S : m >= b
  <2> TAKE b \in S
  <2>1. b \in 0..n /\ m \in 0..n
    OBVIOUS
  <2>2. n - b \in Mirror
    OBVIOUS
  <2>3. k <= n - b
    BY <1>2, <2>2
  <2> QED BY <1>3, <2>1, <2>3
<1>5. Max(S) \in S /\ \A b \in S : Max(S) >= b
  BY <1>4 DEF Max
<1> QED
  <2> HIDE DEF Mirror
  <2>1. \A b \in S : b \in 0..n
    OBVIOUS
  <2> QED BY <1>5, <2>1

LEMMA FirstOfSome ==
    ASSUME NEW n \in Nat, NEW S \in SUBSET (0..n), NEW k \in Nat \ {0}
    PROVE  /\ First(S, k) \subseteq S
           /\ S # {} => First(S, k) # {}
           /\ \A b \in First(S, k) : \A c \in S : c <= b => c \in First(S, k)
<1>0. IsFiniteSet(0..n) /\ \A b \in S : b \in Nat
  BY FS_Interval
<1>1. First(S, k) \subseteq S
  BY DEF First
<1>2. ASSUME S # {} PROVE First(S, k) # {}
  <2>1. PICK b \in S : \A c \in S : b <= c
    BY <1>0, <1>2, LeastNumber
  <2>2. {c \in S : c <= b} = {b}
    <3>1. \A c \in S : c <= b => c = b
      BY <2>1, <1>0
    <3>2. b <= b
      BY <1>0
    <3> QED BY <3>1, <3>2
  <2>3. Cardinality({c \in S : c <= b}) = 1
    BY <2>2, FS_Singleton
  <2> QED BY <2>1, <2>3 DEF First
<1>3. ASSUME NEW b \in First(S, k), NEW c \in S, c <= b PROVE c \in First(S, k)
  <2>1. b \in S /\ b \in Nat /\ c \in Nat
    BY <1>1, <1>0
  <2> DEFINE upTo(d) == {e \in S : e <= d}
  <2>2. Cardinality(upTo(b)) <= k
    BY DEF First
  <2>3. upTo(b) \in SUBSET (0..n) /\ upTo(c) \in SUBSET upTo(b)
    <3>1. \A d \in S : d <= c => d <= b
      BY <2>1, <1>3, <1>0
    <3> QED BY <3>1
  <2>4. IsFiniteSet(upTo(b)) /\ IsFiniteSet(upTo(c)) /\ Cardinality(upTo(c)) <= Cardinality(upTo(b))
    <3> HIDE DEF upTo
    <3>1. IsFiniteSet(upTo(b))
      BY <1>0, <2>3, FS_Subset
    <3> QED BY <3>1, <2>3, FS_Subset
  <2>5. Cardinality(upTo(b)) \in Nat /\ Cardinality(upTo(c)) \in Nat
    BY <2>4, FS_CardinalityType
  <2>6. Cardinality(upTo(c)) <= k
    BY <2>2, <2>4, <2>5
  <2> QED BY <2>6 DEF First
<1> QED BY <1>1, <1>2, <1>3

----------------------------------------------------------------------------
(* What the node keeps *)

Paths ==
    /\ Past[NoBlock] = {}
    /\ \A b \in Blocks : /\ Past[b] = {b} \cup Past[blocks[b].parent]
                         /\ {1, b} \subseteq Past[b]
    /\ \A b \in 0..Len(blocks) :
           /\ Past[b] \subseteq 1..b /\ Past[b] \subseteq Blocks
           /\ Height(b) \in 0..b /\ IsFiniteSet(Past[b])
           /\ \A c \in Past[b] : Past[c] \subseteq Past[b]
           /\ \A c, d \in Past[b] : c <= d => c \in Past[d]
    /\ \A b \in Blocks : /\ Height(b) = Height(blocks[b].parent) + 1
                         /\ \A c \in Past[b] : c # b => Height(c) < Height(b)

LEMMA TreePaths == Tree => Paths
<1> SUFFICES ASSUME Tree PROVE Paths
  OBVIOUS
<1>1. \A b \in Blocks : b \in 0..Len(blocks)
  BY DEF Tree, Blocks
<1> QED BY <1>1, PastBelow, PastClosed, PastOrdered, Heights, PastBegins DEF Paths

LEMMA TreePathsNext == Tree' => Paths'
BY TreePaths, PTL

\* What a block accepts was not accepted before it, comes with what it spends,
\* and excludes what spends the same.
Lawful ==
    \A b \in Blocks : \A tx \in blocks[b].txs :
        /\ ~AcceptedOn(Past[blocks[b].parent], tx)
        /\ Spends[tx] # NoTx =>
               /\ \/ AcceptedOn(Past[blocks[b].parent], Spends[tx])
                  \/ SameMergeset /\ Spends[tx] \in blocks[b].txs
               /\ \A other \in Txs \ {tx} :
                      Spends[other] = Spends[tx] => ~AcceptedOn(Past[b], other)

Tip ==
    /\ sink \in Blocks
    /\ \A b \in Blocks : Height(b) <= Height(sink)

PrunedDeep ==
    /\ pruned \in VirtualChain
    /\ pruned = 1 \/ Depth(pruned) >= PruneDepth

NodeInductive == Tree /\ Tip /\ PrunedDeep /\ Lawful

\* A new block changes nothing about the ones there are.
LEMMA MineGrows ==
    ASSUME Tree, NEW parent \in Blocks, NEW txs \in SUBSET Txs, Mine(parent, txs)
    PROVE  /\ Tree'
           /\ Len(blocks') = Len(blocks) + 1
           /\ \A b \in Blocks : blocks'[b] = blocks[b]
           /\ blocks'[Len(blocks')] = [parent |-> parent, txs |-> txs]
           /\ \A b \in 0..Len(blocks) : Past'[b] = Past[b]
           /\ Past'[Len(blocks')] = {Len(blocks')} \cup Past[parent]
<1> DEFINE n == Len(blocks)
           new == [parent |-> parent, txs |-> txs]
<1>0. n \in Nat /\ n >= 1 /\ parent \in 1..n /\ new \in BlockRecords
  BY DEF Tree, Blocks, BlockRecords
<1>1. blocks' = Append(blocks, new)
  BY DEF Mine
<1>2. /\ blocks' \in Seq(BlockRecords) /\ Len(blocks') = n + 1
      /\ \A b \in 1..n : blocks'[b] = blocks[b]
      /\ blocks'[n + 1] = new
  BY <1>0, <1>1 DEF Tree
<1>3. Tree'
  <2>1. ASSUME NEW b \in 1..(n + 1)
        PROVE  blocks'[b].parent \in 0..(b - 1) /\ (blocks'[b].parent = 0 <=> b = 1)
    <3>1. CASE b \in 1..n
      BY <1>2, <3>1 DEF Tree, Blocks, NoBlock
    <3>2. CASE b = n + 1
      BY <1>0, <1>2, <3>2
    <3> QED BY <1>0, <3>1, <3>2
  <2>2. blocks'[1].txs = {}
    BY <1>0, <1>2 DEF Tree
  <2> QED BY <1>0, <1>2, <2>1, <2>2 DEF Tree, Blocks, NoBlock
<1>4. Paths /\ Paths'
  BY <1>3, TreePaths, TreePathsNext
<1>5. Blocks = 1..n /\ Blocks' = 1..(n + 1)
  BY <1>2 DEF Blocks
<1>6. \A b \in 0..n : Past'[b] = Past[b]
  <2> DEFINE S == {b \in 0..n : Past'[b] = Past[b]}
  <2>1. ASSUME NEW b \in 0..n, \A c \in 0..(b - 1) : c \in S PROVE b \in S
    <3>1. CASE b = 0
      BY <1>4, <3>1 DEF Paths, NoBlock
    <3>2. CASE b # 0
      <4>1. b \in Blocks /\ b \in Blocks' /\ blocks[b].parent \in 0..(b - 1)
        BY <1>0, <1>5, <3>2 DEF Tree
      <4>2. blocks'[b] = blocks[b]
        BY <4>1, <1>2, <1>5
      <4>3. Past[b] = {b} \cup Past[blocks[b].parent]
        BY <1>4, <4>1 DEF Paths
      <4>4. Past'[b] = {b} \cup Past'[blocks'[b].parent]
        BY <1>4, <4>1 DEF Paths
      <4> QED BY <2>1, <4>1, <4>2, <4>3, <4>4
    <3> QED BY <3>1, <3>2
  <2> HIDE DEF S
  <2>2. \A b \in 0..n : b \in S
    BY <1>0, <2>1, BlockInduction
  <2> QED BY <2>2 DEF S
<1>7. Past'[n + 1] = {n + 1} \cup Past[parent]
  <2>1. n + 1 \in Blocks'
    BY <1>0, <1>5
  <2>2. Past'[n + 1] = {n + 1} \cup Past'[blocks'[n + 1].parent]
    BY <2>1, <1>4 DEF Paths
  <2> QED BY <2>2, <1>0, <1>2, <1>6
<1> QED BY <1>2, <1>3, <1>5, <1>6, <1>7

\* A fork leaves alone what is as deep as it may reach.
LEMMA ForkIsShallow ==
    ASSUME Tree, Tip, NEW parent \in Blocks, NEW txs \in SUBSET Txs, Mine(parent, txs),
           NEW b \in VirtualChain, Depth(b) >= MaxReorg
    PROVE  b \in Past[parent]
<1> DEFINE common == Past[parent] \cap VirtualChain
           fork == Max(common)
<1>1. Paths /\ Len(blocks) \in Nat /\ sink \in 0..Len(blocks) /\ parent \in 0..Len(blocks)
  BY TreePaths DEF Tip, Tree, Blocks
<1>2. common \in SUBSET (0..Len(blocks)) /\ common # {}
  <2>1. 1 \in Past[parent] /\ 1 \in Past[sink]
    BY <1>1 DEF Paths, Tip
  <2>2. Past[parent] \subseteq 0..Len(blocks)
    BY <1>1 DEF Paths, Blocks
  <2> QED BY <2>1, <2>2 DEF VirtualChain
<1>3. fork \in common
  <2> HIDE DEF common
  <2> QED BY <1>1, <1>2, LastOfSome
<1>4. Depth(fork) <= MaxReorg
  BY DEF Mine
<1>5. fork \in 0..Len(blocks) /\ b \in 0..Len(blocks) /\ b \in Blocks /\ fork \in Blocks
  <2> HIDE DEF fork
  <2> QED BY <1>1, <1>3 DEF Paths, VirtualChain, Blocks
<1> HIDE DEF fork
<1>6. Height(b) \in Nat /\ Height(fork) \in Nat /\ Height(sink) \in Nat
  BY <1>1, <1>5 DEF Paths
<1>7. Height(b) <= Height(fork)
  BY <1>4, <1>6, NodeAssumption DEF Depth
<1>8. b <= fork
  <2>1. CASE fork < b
    <3>1. fork \in Past[b]
      BY <2>1, <1>1, <1>3, <1>5 DEF Paths, VirtualChain
    <3>2. Height(fork) < Height(b)
      BY <3>1, <2>1, <1>1, <1>5 DEF Paths
    <3> QED BY <3>2, <1>6, <1>7
  <2> QED BY <2>1, <1>5
<1>9. b \in Past[fork]
  BY <1>1, <1>3, <1>8 DEF Paths, VirtualChain
<1> QED BY <1>1, <1>3, <1>9 DEF Paths
\* The blocks on a chain stay on it below the depth a fork may reach.
LEMMA MineInductive ==
    ASSUME NodeInductive, NEW parent \in Blocks, NEW txs \in SUBSET Txs, Mine(parent, txs)
    PROVE  /\ NodeInductive'
           /\ \A depth \in Nat : MaxReorg <= depth => ChainToDepth(depth) \subseteq ChainToDepth(depth)'
<1>0. PICK n \in Nat : n = Len(blocks)
  BY DEF NodeInductive, Tree
<1>1. /\ Tree' /\ Len(blocks') = n + 1
      /\ \A b \in Blocks : blocks'[b] = blocks[b]
      /\ blocks'[n + 1] = [parent |-> parent, txs |-> txs]
      /\ \A b \in 0..n : Past'[b] = Past[b]
      /\ Past'[n + 1] = {n + 1} \cup Past[parent]
  BY <1>0, MineGrows DEF NodeInductive
<1>2. Paths /\ Paths'
  BY <1>1, TreePaths, TreePathsNext DEF NodeInductive, Tree
<1>3. Blocks = 1..n /\ Blocks' = 1..(n + 1) /\ sink \in 1..n /\ parent \in 1..n
  BY <1>0, <1>1 DEF Blocks, NodeInductive, Tip
<1>4. \A b \in 0..n : Height(b)' = Height(b)
  BY <1>1 DEF Height
<1>5. Height(n + 1)' = Height(parent) + 1
  <2>1. n + 1 \in Blocks' /\ blocks'[n + 1].parent = parent
    BY <1>1, <1>2, <1>3
  <2>2. Height(n + 1)' = Height(parent)'  + 1
    BY <2>1, <1>2 DEF Paths
  <2> QED BY <2>2, <1>3, <1>4
<1>6. \A b \in 0..n : Height(b) \in Nat
  BY <1>0, <1>2 DEF Paths
<1>7. sink' = IF Height(parent) = Height(sink) THEN n + 1 ELSE sink
  BY <1>0, <1>1 DEF Mine
<1>8. Height(parent) <= Height(sink) /\ \A b \in 1..n : Height(b) <= Height(sink)
  BY <1>3 DEF NodeInductive, Tip
<1>9. Tip' /\ Height(sink)' >= Height(sink) /\ Height(sink)' \in Nat
  <2>1. CASE Height(parent) = Height(sink)
    <3>1. sink' = n + 1 /\ Height(sink)' = Height(sink) + 1
      BY <2>1, <1>5, <1>7 DEF Height
    <3>2. \A b \in 1..(n + 1) : Height(b)' <= Height(sink)'
      <4>1. Height(sink) \in Nat
        BY <1>3, <1>6
      <4>2. ASSUME NEW b \in 1..n PROVE Height(b)' <= Height(sink)'
        BY <1>4, <1>6, <1>8, <3>1, <4>1, <4>2
      <4>3. Height(n + 1)' <= Height(sink)'
        BY <1>5, <2>1, <3>1, <4>1
      <4> QED BY <4>2, <4>3, <1>2
    <3> QED BY <3>1, <3>2, <1>2, <1>3, <1>6 DEF Tip
  <2>2. CASE Height(parent) # Height(sink)
    <3>1. sink' = sink /\ Height(sink)' = Height(sink)
      BY <2>2, <1>3, <1>4, <1>7 DEF Height
    <3>2. Height(parent) + 1 <= Height(sink)
      BY <2>2, <1>3, <1>6, <1>8
    <3>3. \A b \in 1..(n + 1) : Height(b)' <= Height(sink)'
      <4>1. ASSUME NEW b \in 1..n PROVE Height(b)' <= Height(sink)'
        BY <1>4, <1>8, <3>1, <4>1
      <4>2. Height(n + 1)' <= Height(sink)'
        BY <1>5, <3>1, <3>2
      <4> QED BY <4>1, <4>2, <1>2
    <3> QED BY <3>1, <3>3, <1>2, <1>3, <1>6 DEF Tip
  <2> QED BY <2>1, <2>2
<1>10. ASSUME NEW b \in VirtualChain, Depth(b) >= MaxReorg
       PROVE  b \in VirtualChain' /\ Depth(b)' >= Depth(b)
  <2>1. b \in Past[parent]
    BY <1>10, ForkIsShallow DEF NodeInductive
  <2>2. b \in VirtualChain'
    BY <1>1, <1>3, <1>7, <1>10, <2>1 DEF VirtualChain
  <2>3. b \in 1..n
    BY <1>0, <1>2, <1>3, <1>10 DEF Paths, VirtualChain
  <2>4. Height(b)' = Height(b) /\ Height(b) \in Nat /\ Height(sink) \in Nat
    BY <1>3, <1>4, <1>6, <2>3
  <2> QED BY <2>2, <2>4, <1>9 DEF Depth
<1>11. ASSUME NEW depth \in Nat, MaxReorg <= depth, NEW b \in ChainToDepth(depth)
       PROVE  b \in ChainToDepth(depth)'
  <2>1. b \in VirtualChain /\ Depth(b) >= depth
    BY <1>11 DEF ChainToDepth
  <2>2. b \in 1..n
    BY <1>0, <1>2, <1>3, <2>1 DEF Paths, VirtualChain
  <2>3. Height(b) \in Nat /\ Height(sink) \in Nat /\ Height(b)' = Height(b)
    BY <1>3, <1>4, <1>6, <2>2
  <2>4. Depth(b) >= MaxReorg
    BY <1>11, <2>1, <2>3, NodeAssumption DEF Depth
  <2>5. b \in VirtualChain' /\ Depth(b)' >= Depth(b)
    BY <1>10, <2>1, <2>4
  <2>6. Depth(b)' >= depth
    BY <2>1, <2>3, <2>5, <1>9, <1>11 DEF Depth
  <2> QED BY <2>5, <2>6 DEF ChainToDepth
<1>12. PrunedDeep'
  <2>1. pruned' = pruned
    BY DEF Mine
  <2>2. CASE pruned = 1
    <3>1. 1 \in Past'[sink']
      BY <1>2, <1>9 DEF Paths, Tip
    <3> QED BY <3>1, <2>1, <2>2 DEF PrunedDeep, VirtualChain
  <2>3. CASE pruned # 1
    <3>1. pruned \in ChainToDepth(PruneDepth)
      BY <2>3 DEF NodeInductive, PrunedDeep, ChainToDepth
    <3>2. pruned \in ChainToDepth(PruneDepth)'
      BY <3>1, <1>11, NodeAssumption
    <3> QED BY <3>2, <2>1 DEF PrunedDeep, ChainToDepth
  <2> QED BY <2>2, <2>3
<1>13. Lawful'
  <2>1. ASSUME NEW b \in Blocks, NEW tx \in blocks'[b].txs
        PROVE  /\ ~AcceptedOn(Past[blocks[b].parent], tx)'
               /\ Spends[tx] # NoTx =>
                      /\ \/ AcceptedOn(Past[blocks[b].parent], Spends[tx])'
                         \/ SameMergeset /\ Spends[tx] \in blocks'[b].txs
                      /\ \A other \in Txs \ {tx} :
                             Spends[other] = Spends[tx] => ~AcceptedOn(Past[b], other)'
    <3>1. blocks'[b] = blocks[b] /\ b \in 0..n /\ blocks[b].parent \in 0..n
      BY <1>1, <1>2, <1>3 DEF NodeInductive, Tree
    <3>2. Past'[b] = Past[b] /\ Past'[blocks'[b].parent] = Past[blocks[b].parent]
      BY <3>1, <1>1
    <3>3. Past[b] \subseteq Blocks /\ Past[blocks[b].parent] \subseteq Blocks
      BY <3>1, <1>0, <1>2 DEF Paths
    <3>4. \A x : /\ AcceptedOn(Past[b], x)' <=> AcceptedOn(Past[b], x)
                 /\ AcceptedOn(Past[blocks[b].parent], x)'
                       <=> AcceptedOn(Past[blocks[b].parent], x)
      BY <3>1, <3>2, <3>3, <1>1 DEF AcceptedOn
    <3> QED BY <3>1, <3>4 DEF NodeInductive, Lawful
  <2>2. ASSUME NEW tx \in txs
        PROVE  /\ ~AcceptedOn(Past[parent], tx)'
               /\ Spends[tx] # NoTx =>
                      /\ \/ AcceptedOn(Past[parent], Spends[tx])'
                         \/ SameMergeset /\ Spends[tx] \in txs
                      /\ \A other \in Txs \ {tx} :
                             Spends[other] = Spends[tx] => ~AcceptedOn(Past[n + 1], other)'
    <3>1. Past'[parent] = Past[parent] /\ Past[parent] \subseteq Blocks
      BY <1>1, <1>2, <1>3 DEF Paths
    <3>2. \A x : AcceptedOn(Past[parent], x)' <=> AcceptedOn(Past[parent], x)
      BY <3>1, <1>1 DEF AcceptedOn
    <3>3. blocks'[n + 1].txs = txs
      BY <1>1
    <3>4. \A x : AcceptedOn(Past[n + 1], x)' <=> x \in txs \/ AcceptedOn(Past[parent], x)
      BY <3>1, <3>3, <1>1 DEF AcceptedOn
    <3>5. /\ ~AcceptedOn(Past[parent], tx)
          /\ \/ Spends[tx] = NoTx
             \/ AcceptedOn(Past[parent], Spends[tx])
             \/ SameMergeset /\ Spends[tx] \in txs
          /\ \A other \in Txs \ {tx} :
                 Spends[other] = Spends[tx] /\ Spends[tx] # NoTx =>
                     other \notin txs /\ ~AcceptedOn(Past[parent], other)
      BY <2>2 DEF Mine
    <3> QED BY <3>2, <3>4, <3>5
  <2>3. ASSUME NEW b \in 1..(n + 1), NEW tx \in blocks'[b].txs
        PROVE  /\ ~AcceptedOn(Past[blocks[b].parent], tx)'
               /\ Spends[tx] # NoTx =>
                      /\ \/ AcceptedOn(Past[blocks[b].parent], Spends[tx])'
                         \/ SameMergeset /\ Spends[tx] \in blocks'[b].txs
                      /\ \A other \in Txs \ {tx} :
                             Spends[other] = Spends[tx] => ~AcceptedOn(Past[b], other)'
    <3>1. CASE b \in 1..n
      BY <2>1, <2>3, <3>1, <1>3
    <3>2. CASE b = n + 1
      <4>1. tx \in txs
        BY <3>2, <2>3, <1>1
      <4>2. blocks'[b].parent = parent
        BY <3>2, <1>1
      <4>3. \A x : AcceptedOn(Past[blocks[b].parent], x)' <=> AcceptedOn(Past[parent], x)'
        BY <4>2 DEF AcceptedOn
      <4>5. blocks'[b].txs = txs
        BY <3>2, <1>1
      <4>4. \A x : AcceptedOn(Past[b], x)' <=> AcceptedOn(Past[n + 1], x)'
        BY <3>2 DEF AcceptedOn
      <4> QED BY <4>1, <4>3, <4>4, <4>5, <2>2
    <3> QED BY <3>1, <3>2, <1>2
  <2> QED BY <2>3, <1>3 DEF Lawful
<1> QED BY <1>1, <1>9, <1>11, <1>12, <1>13 DEF NodeInductive
LEMMA PruneInductive ==
    ASSUME NodeInductive, NEW b \in Blocks, Prune(b)
    PROVE  /\ NodeInductive'
           /\ \A depth \in Nat : ChainToDepth(depth) = ChainToDepth(depth)'
<1>1. blocks' = blocks /\ sink' = sink /\ pruned' = b
  BY DEF Prune
<1>2. Past' = Past
  BY <1>1 DEF Past
<1>3. Tree' /\ Tip' /\ Lawful'
  BY <1>1, <1>2 DEF NodeInductive, Tree, Tip, Lawful, Blocks, Height, AcceptedOn
<1>4. PrunedDeep'
  BY <1>1, <1>2 DEF Prune, PrunedDeep, VirtualChain, Depth, Height
<1>5. \A depth \in Nat : ChainToDepth(depth) = ChainToDepth(depth)'
  BY <1>1, <1>2 DEF ChainToDepth, VirtualChain, Depth, Height
<1> QED BY <1>3, <1>4, <1>5 DEF NodeInductive

LEMMA NodeInitInductive == NodeInit => NodeInductive
<1> SUFFICES ASSUME NodeInit PROVE NodeInductive
  OBVIOUS
<1>1. /\ Len(blocks) = 1 /\ blocks[1] = [parent |-> 0, txs |-> {}]
      /\ blocks \in Seq(BlockRecords) /\ sink = 1 /\ pruned = 1
  BY DEF NodeInit, NoBlock, BlockRecords
<1>2. Tree
  BY <1>1 DEF Tree, Blocks, NoBlock
<1>3. Paths
  BY <1>2, TreePaths
<1>4. Tip
  <2>1. Height(1) \in Nat
    BY <1>1, <1>3 DEF Paths
  <2> QED BY <1>1, <2>1 DEF Tip, Blocks
<1>5. PrunedDeep
  BY <1>1, <1>3, <1>4 DEF PrunedDeep, VirtualChain, Paths, Tip
<1>6. Lawful
  BY <1>1 DEF Lawful, Blocks
<1> QED BY <1>2, <1>4, <1>5, <1>6 DEF NodeInductive

\* What a step of the node leaves as it was.
NodeGrows ==
    /\ Len(blocks') >= Len(blocks)
    /\ \A b \in Blocks : b \in Blocks' /\ blocks'[b] = blocks[b]
    /\ \A b \in 0..Len(blocks) : Past'[b] = Past[b] /\ Height(b)' = Height(b)

\* The node's invariant, and what is deep enough on the chain stays on it: the
\* two facts that every user of the node relies on.
LEMMA NodeStepInductive ==
    ASSUME NodeInductive, NodeStep \/ UNCHANGED <<blocks, sink, pruned>>
    PROVE  /\ NodeInductive'
           /\ NodeGrows
           /\ \A depth \in Nat : MaxReorg <= depth => ChainToDepth(depth) \subseteq ChainToDepth(depth)'
<1>0. Len(blocks) \in Nat
  BY DEF NodeInductive, Tree
<1>1. ASSUME NEW parent \in Blocks, NEW txs \in SUBSET Txs, Mine(parent, txs)
      PROVE  NodeGrows
  <2>1. /\ Len(blocks') = Len(blocks) + 1
        /\ \A b \in Blocks : blocks'[b] = blocks[b]
        /\ \A b \in 0..Len(blocks) : Past'[b] = Past[b]
    BY <1>1, MineGrows DEF NodeInductive
  <2>2. Len(blocks') >= Len(blocks) /\ \A b \in Blocks : b \in Blocks'
    BY <1>0, <2>1 DEF Blocks
  <2> QED BY <2>1, <2>2 DEF NodeGrows, Height
<1>2. ASSUME UNCHANGED <<blocks, sink, pruned>> \/ \E b \in Blocks : Prune(b)
      PROVE  NodeGrows
  <2>1. blocks' = blocks
    BY <1>2 DEF Prune
  <2>2. Past' = Past
    BY <2>1 DEF Past
  <2> QED BY <1>0, <2>1, <2>2 DEF NodeGrows, Height, Blocks
<1>3. CASE UNCHANGED <<blocks, sink, pruned>>
  <2>1. Past' = Past
    BY <1>3 DEF Past
  <2>2. NodeInductive'
    BY <1>3, <2>1
    DEF NodeInductive, Tree, Tip, Lawful, PrunedDeep, Blocks, Height, Depth, VirtualChain, AcceptedOn
  <2>3. \A depth \in Nat : ChainToDepth(depth) = ChainToDepth(depth)'
    BY <1>3, <2>1 DEF ChainToDepth, VirtualChain, Depth, Height
  <2> QED BY <1>2, <1>3, <2>2, <2>3
<1>4. CASE \E parent \in Blocks, txs \in SUBSET Txs : Mine(parent, txs)
  BY <1>1, <1>4, MineInductive
<1>5. CASE \E b \in Blocks : Prune(b)
  BY <1>2, <1>5, PruneInductive
<1> QED BY <1>3, <1>4, <1>5 DEF NodeStep

\* The invariant gives the types.
LEMMA NodeTypes ==
    ASSUME NodeInductive
    PROVE  NodeTypeOK /\ Paths
<1>1. Paths
  BY TreePaths DEF NodeInductive
<1>2. ASSUME NEW b \in Blocks PROVE blocks[b].txs \subseteq Txs
  <2>1. blocks \in Seq(BlockRecords) /\ b \in 1..Len(blocks)
    BY DEF NodeInductive, Tree, Blocks
  <2>2. blocks[b] \in BlockRecords
    BY <2>1
  <2> QED BY <2>2 DEF BlockRecords
<1> QED BY <1>1, <1>2 DEF NodeTypeOK, NodeInductive, Tree, Tip, PrunedDeep
----------------------------------------------------------------------------
(* What a chain accepts *)

\* A transaction is accepted once on a chain, what it spends no later, and none
\* beside it that spends the same.
LEMMA ChainIsLawful ==
    ASSUME NodeInductive, NEW b \in VirtualChain, NEW tx \in blocks[b].txs
    PROVE  /\ \A c \in VirtualChain : tx \in blocks[c].txs => c = b
           /\ Spends[tx] # NoTx =>
                  /\ \E c \in Past[b] :
                         Spends[tx] \in blocks[c].txs /\ (c < b \/ (SameMergeset /\ c = b))
                  /\ \A other \in Txs \ {tx} : \A c \in VirtualChain :
                         Spends[other] = Spends[tx] => other \notin blocks[c].txs
<1>1. Paths /\ Len(blocks) \in Nat /\ sink \in Blocks
  BY NodeTypes DEF NodeInductive, Tree, Tip
<1>2. VirtualChain \subseteq Blocks /\ Blocks \subseteq 0..Len(blocks)
  BY <1>1 DEF Paths, VirtualChain, Blocks
<1>3. ASSUME NEW c \in VirtualChain, NEW d \in VirtualChain, c <= d
      PROVE  c \in Past[d] /\ (c # d => c \in Past[blocks[d].parent])
  <2>1. c \in Past[d]
    BY <1>1, <1>2, <1>3 DEF Paths, VirtualChain
  <2>2. Past[d] = {d} \cup Past[blocks[d].parent]
    BY <1>1, <1>2 DEF Paths
  <2> QED BY <2>1, <2>2
<1>4. ASSUME NEW c \in VirtualChain, NEW d \in VirtualChain, NEW x \in blocks[d].txs,
             x \in blocks[c].txs, c < d
      PROVE  FALSE
  <2>1. c <= d /\ c # d
    BY <1>2, <1>4
  <2>2. c \in Past[blocks[d].parent]
    BY <2>1, <1>3
  <2>3. ~AcceptedOn(Past[blocks[d].parent], x)
    BY <1>2, <1>4 DEF NodeInductive, Lawful
  <2> QED BY <2>2, <2>3, <1>4 DEF AcceptedOn
<1>5. ASSUME NEW c \in VirtualChain, tx \in blocks[c].txs PROVE c = b
  <2>1. b \in Nat /\ c \in Nat
    BY <1>1, <1>2
  <2>2. ~(c < b) /\ ~(b < c)
    BY <1>4, <1>5
  <2> QED BY <2>1, <2>2
<1>6. ASSUME Spends[tx] # NoTx
      PROVE  \E c \in Past[b] :
                 Spends[tx] \in blocks[c].txs /\ (c < b \/ (SameMergeset /\ c = b))
  <2>1. b \in Blocks /\ b \in Past[b] /\ Past[b] = {b} \cup Past[blocks[b].parent]
    BY <1>1, <1>2 DEF Paths
  <2>2. CASE SameMergeset /\ Spends[tx] \in blocks[b].txs
    BY <2>1, <2>2
  <2>3. CASE AcceptedOn(Past[blocks[b].parent], Spends[tx])
    <3>1. PICK c \in Past[blocks[b].parent] : Spends[tx] \in blocks[c].txs
      BY <2>3 DEF AcceptedOn
    <3>2. blocks[b].parent \in 0..(b - 1) /\ b \in 1..Len(blocks)
      BY <2>1 DEF NodeInductive, Tree, Blocks
    <3>3. c \in 1..blocks[b].parent
      BY <1>1, <3>1, <3>2 DEF Paths
    <3>4. c < b
      BY <3>2, <3>3, <1>1
    <3> QED BY <2>1, <3>1, <3>4
  <2> QED BY <2>1, <2>2, <2>3, <1>6 DEF NodeInductive, Lawful
<1>7. ASSUME Spends[tx] # NoTx, NEW other \in Txs \ {tx}, NEW c \in VirtualChain,
             Spends[other] = Spends[tx], other \in blocks[c].txs
      PROVE  FALSE
  <2>1. b \in Nat /\ c \in Nat /\ tx \in Txs
    BY <1>1, <1>2, NodeTypes DEF NodeTypeOK
  <2>2. CASE c <= b
    <3>1. c \in Past[b]
      BY <2>2, <1>3
    <3>2. ~AcceptedOn(Past[b], other)
      BY <1>2, <1>7 DEF NodeInductive, Lawful
    <3> QED BY <3>1, <3>2, <1>7 DEF AcceptedOn
  <2>3. CASE b <= c
    <3>1. b \in Past[c]
      BY <2>3, <1>3
    <3>2. ~AcceptedOn(Past[c], tx)
      BY <1>2, <1>7, <2>1 DEF NodeInductive, Lawful
    <3> QED BY <3>1, <3>2 DEF AcceptedOn
  <2> QED BY <2>1, <2>2, <2>3
<1> QED BY <1>5, <1>6, <1>7

\* There is a block of every height on a path.
LEMMA EveryHeight ==
    ASSUME Tree, NEW b \in 0..Len(blocks), NEW h \in 1..Height(b)
    PROVE  \E a \in Past[b] : Height(a) = h
<1> DEFINE n == Len(blocks)
           S == {c \in 0..n : \A k \in 1..Height(c) : \E a \in Past[c] : Height(a) = k}
<1>0. n \in Nat /\ Paths
  BY TreePaths DEF Tree
<1>1. ASSUME NEW c \in 0..n, \A d \in 0..(c - 1) : d \in S PROVE c \in S
  <2>1. ASSUME NEW k \in 1..Height(c) PROVE \E a \in Past[c] : Height(a) = k
    <3>1. c # 0 /\ Height(c) \in Nat
      BY <1>0 DEF Paths
    <3>2. c \in Blocks /\ c \in Past[c]
      BY <1>0, <3>1 DEF Blocks, Paths
    <3>3. /\ blocks[c].parent \in 0..(c - 1) /\ Past[c] = {c} \cup Past[blocks[c].parent]
          /\ Height(c) = Height(blocks[c].parent) + 1
      BY <1>0, <3>2 DEF Tree, Paths
    <3>4. blocks[c].parent \in S /\ Height(blocks[c].parent) \in Nat
      <4>1. blocks[c].parent \in S /\ blocks[c].parent \in 0..n
        BY <1>0, <1>1, <3>3
      <4> QED BY <4>1, <1>0 DEF Paths
    <3>5. CASE k = Height(c)
      BY <3>2, <3>5
    <3>6. CASE k # Height(c)
      <4>1. k \in 1..Height(blocks[c].parent)
        BY <3>1, <3>3, <3>4, <3>6
      <4> QED BY <3>3, <3>4, <4>1
    <3> QED BY <3>5, <3>6
  <2> QED BY <2>1
<1>2. \A c \in 0..n : c \in S
  <2> HIDE DEF S
  <2> QED BY <1>0, <1>1, BlockInduction
<1> QED BY <1>2
----------------------------------------------------------------------------
(* Forks and pages *)

\* A block, on the chain or off it, shares with the chain a block that no fork
\* takes off it any more, and the blocks before it are little higher than that.
Near ==
    /\ Len(blocks) <= MaxBlocks
    /\ \A b \in Blocks : \E a \in Past[b] :
           /\ a = 1 \/ a \in ChainToDepth(MaxReorg)
           /\ \A c \in Blocks : c < b => Height(c) <= Height(a) + MaxReorg

LEMMA NearInit == NodeInit => Near
<1> SUFFICES ASSUME NodeInit PROVE Near
  OBVIOUS
<1>1. Paths /\ Blocks = 1..1 /\ Len(blocks) = 1
  BY NodeInitInductive, NodeTypes DEF NodeInit, Blocks
<1>2. Len(blocks) <= MaxBlocks
  BY <1>1, NodeAssumption
<1>3. ASSUME NEW b \in Blocks
      PROVE  \E a \in Past[b] :
                 /\ a = 1 \/ a \in ChainToDepth(MaxReorg)
                 /\ \A c \in Blocks : c < b => Height(c) <= Height(a) + MaxReorg
  <2>1. 1 \in Past[b]
    BY <1>1 DEF Paths
  <2>2. \A c \in Blocks : ~(c < b)
    BY <1>1
  <2> QED BY <2>1, <2>2
<1> QED BY <1>2, <1>3 DEF Near

LEMMA NearNext ==
    ASSUME NodeInductive, Near, NodeStep \/ UNCHANGED <<blocks, sink, pruned>>
    PROVE  Near'
<1>0. PICK n \in Nat : n = Len(blocks)
  BY DEF NodeInductive, Tree
<1>1. /\ NodeInductive' /\ NodeGrows /\ Paths /\ Paths'
      /\ ChainToDepth(MaxReorg) \subseteq ChainToDepth(MaxReorg)'
  <2>1. NodeInductive' /\ NodeGrows /\ ChainToDepth(MaxReorg) \subseteq ChainToDepth(MaxReorg)'
    BY NodeStepInductive, NodeAssumption
  <2>2. Tree /\ Tree'
    BY <2>1 DEF NodeInductive
  <2> QED BY <2>1, <2>2, TreePaths, TreePathsNext
<1>2. ASSUME NEW b \in Blocks
      PROVE  \E a \in Past'[b] :
                 /\ a = 1 \/ a \in ChainToDepth(MaxReorg)'
                 /\ \A c \in 1..n : c < b => Height(c)' <= Height(a)' + MaxReorg
  <2>1. PICK a \in Past[b] :
                 /\ a = 1 \/ a \in ChainToDepth(MaxReorg)
                 /\ \A c \in Blocks : c < b => Height(c) <= Height(a) + MaxReorg
    BY DEF Near
  <2>2. b \in 0..Len(blocks) /\ Past[b] \subseteq Blocks /\ Blocks = 1..n
    BY <1>0, <1>1 DEF Paths, Blocks
  <2>3. a \in Past'[b] /\ Height(a)' = Height(a) /\ \A c \in 1..n : Height(c)' = Height(c)
    BY <1>0, <1>1, <2>2 DEF NodeGrows
  <2> QED BY <1>1, <2>1, <2>2, <2>3
<1>3. CASE Blocks' = Blocks
  BY <1>0, <1>2, <1>3 DEF Near, Blocks
<1>4. ASSUME NEW parent \in Blocks, NEW txs \in SUBSET Txs, Mine(parent, txs)
      PROVE  Near'
  <2>1. /\ Len(blocks') = n + 1 /\ n < MaxBlocks
        /\ Past'[n + 1] = {n + 1} \cup Past[parent]
    BY <1>0, <1>4, MineGrows DEF Mine, NodeInductive
  <2>2. Blocks = 1..n /\ Blocks' = 1..(n + 1) /\ Len(blocks') <= MaxBlocks
    BY <1>0, <2>1, NodeAssumption DEF Blocks
  <2>3. /\ sink \in 1..n /\ Height(sink) \in Nat /\ \A c \in 1..n : Height(c) \in Nat
        /\ \A c \in 1..n : Height(c) <= Height(sink) /\ Height(c)' = Height(c)
    <3>1. sink \in 1..n /\ \A c \in 1..n : c \in 0..Len(blocks)
      BY <1>0, <2>2 DEF NodeInductive, Tip
    <3>2. \A c \in 1..n : Height(c) \in Nat
      BY <1>1, <3>1 DEF Paths
    <3>3. \A c \in 1..n : Height(c) <= Height(sink)
      BY <2>2, <3>1, <3>2 DEF NodeInductive, Tip
    <3>4. \A c \in 1..n : Height(c)' = Height(c)
      BY <1>1, <3>1 DEF NodeGrows
    <3> QED BY <3>1, <3>2, <3>3, <3>4
  <2>4. \E a \in Past'[n + 1] :
           /\ a = 1 \/ a \in ChainToDepth(MaxReorg)'
           /\ \A c \in 1..n : Height(c)' <= Height(a)' + MaxReorg
    <3>1. CASE Height(sink) <= MaxReorg
      <4>1. 1 \in Past'[n + 1]
        BY <1>1, <2>2 DEF Paths
      <4>2. Height(1)' \in Nat /\ MaxReorg \in Nat
        BY <1>0, <2>3, NodeAssumption
      <4>3. \A c \in 1..n : Height(c)' <= Height(1)' + MaxReorg
        BY <2>3, <3>1, <4>2
      <4> QED BY <4>1, <4>3
    <3>2. CASE Height(sink) > MaxReorg
      <4>1. Height(sink) - MaxReorg \in 1..Height(sink) /\ sink \in 0..Len(blocks)
        BY <1>0, <2>3, <3>2, NodeAssumption
      <4>2. PICK a \in Past[sink] : Height(a) = Height(sink) - MaxReorg
        BY <4>1, EveryHeight DEF NodeInductive
      <4>3. Depth(a) = MaxReorg /\ a \in VirtualChain
        BY <2>3, <4>2, NodeAssumption DEF Depth, VirtualChain
      <4>4. a \in ChainToDepth(MaxReorg)
        BY <4>3, NodeAssumption DEF ChainToDepth
      <4>5. Depth(a) >= MaxReorg
        BY <4>3, NodeAssumption
      <4>6. a \in Past[parent]
        BY <1>4, <4>3, <4>5, ForkIsShallow DEF NodeInductive
      <4>7. a \in 1..n /\ Height(a)' = Height(a)
        BY <1>0, <1>1, <2>2, <2>3, <4>2 DEF Paths
      <4>8. \A c \in 1..n : Height(c)' <= Height(a)' + MaxReorg
        BY <2>3, <4>2, <4>7, NodeAssumption
      <4> QED BY <1>1, <2>1, <4>4, <4>6, <4>8
    <3> QED BY <2>3, <3>1, <3>2, NodeAssumption
  <2>5. ASSUME NEW b \in 1..(n + 1)
        PROVE  \E a \in Past'[b] :
                 /\ a = 1 \/ a \in ChainToDepth(MaxReorg)'
                 /\ \A c \in 1..(n + 1) : c < b => Height(c)' <= Height(a)' + MaxReorg
    <3>1. \A c \in 1..(n + 1) : c < b => c \in 1..n
      BY <1>0
    <3>2. CASE b \in 1..n
      <4>1. PICK a \in Past'[b] :
                 /\ a = 1 \/ a \in ChainToDepth(MaxReorg)'
                 /\ \A c \in 1..n : c < b => Height(c)' <= Height(a)' + MaxReorg
        BY <1>2, <2>2, <3>2
      <4> QED BY <3>1, <4>1
    <3>3. CASE b = n + 1
      BY <2>4, <3>1, <3>3
    <3> QED BY <3>2, <3>3, <1>0
  <2> QED BY <2>2, <2>5 DEF Near
<1>5. CASE UNCHANGED <<blocks, sink, pruned>> \/ \E b \in Blocks : Prune(b)
  BY <1>3, <1>5 DEF Prune, Blocks
<1> QED BY <1>4, <1>5 DEF NodeStep

\* A page longer than a fork may be gets ahead, and never past a block of the
\* chain without showing it.
LEMMA PageAdvances ==
    ASSUME NodeInductive, Near, MaxReorg < PageSize,
           NEW low \in Blocks, NEW s \in VirtualChain, low < s
    PROVE  /\ Cardinality(BodiesAfter(low)) \in 0..PageSize
           /\ LastOf(low, BodiesAfter(low)) > low
           /\ s \in BodiesAfter(low) \/ LastOf(low, BodiesAfter(low)) < s
<1> DEFINE S == {c \in Blocks : c > low \/ c \in VirtualChain \ Past[low]}
           page == First(S, PageSize)
           D == {c \in S : c < low}
<1>1. Paths /\ Len(blocks) \in Nat /\ sink \in 0..Len(blocks)
  BY NodeTypes DEF NodeInductive, Tree, Tip, Blocks
<1>2. VirtualChain \subseteq Blocks /\ Blocks = 1..Len(blocks) /\ PageSize \in Nat \ {0}
      /\ MaxReorg \in Nat
  BY <1>1, NodeAssumption DEF Paths, VirtualChain, Blocks
<1>3. S \in SUBSET (0..Len(blocks)) /\ s \in S /\ \A c \in S : c \in Nat
  BY <1>1, <1>2
<1>4. page = BodiesAfter(low)
  BY DEF BodiesAfter
<1>5. page \subseteq S /\ \A b \in page : \A c \in S : c <= b => c \in page
  <2> HIDE DEF S
  <2> QED BY <1>1, <1>2, <1>3, FirstOfSome
<1>6. IsFiniteSet(D) /\ Cardinality(D) \in 0..MaxReorg
  <2>1. PICK a \in Past[low] :
                 /\ a = 1 \/ a \in ChainToDepth(MaxReorg)
                 /\ \A c \in Blocks : c < low => Height(c) <= Height(a) + MaxReorg
    BY DEF Near
  <2>2. a \in VirtualChain /\ a \in Blocks /\ Height(a) \in Nat
    <3>1. 1 \in VirtualChain
      BY <1>1 DEF Paths, VirtualChain, NodeInductive, Tip
    <3>2. a \in VirtualChain
      BY <2>1, <3>1 DEF ChainToDepth
    <3> QED BY <1>1, <1>2, <3>2 DEF Paths
  <2> DEFINE Span == (Height(a) + 1)..(Height(a) + MaxReorg)
             f == [c \in D |-> Height(c)]
  <2>3. ASSUME NEW c \in D PROVE c \in VirtualChain /\ Height(c) \in Span
    <3>1. c \in VirtualChain /\ c \notin Past[low] /\ c < low /\ c \in Blocks
      BY <1>2
    <3>2. Height(c) <= Height(a) + MaxReorg /\ Height(c) \in Nat
      BY <1>1, <1>2, <2>1, <3>1 DEF Paths
    <3>3. ~(c <= a)
      <4>1. SUFFICES ASSUME c <= a PROVE FALSE
        OBVIOUS
      <4>2. c \in Past[a]
        BY <1>1, <2>2, <3>1, <4>1 DEF Paths, VirtualChain
      <4> QED BY <1>1, <1>2, <2>1, <3>1, <4>2 DEF Paths
    <3>4. a \in Past[c] /\ a # c
      BY <1>1, <1>2, <2>2, <3>1, <3>3 DEF Paths, VirtualChain
    <3>5. Height(a) < Height(c)
      BY <1>1, <3>1, <3>4 DEF Paths
    <3> QED BY <2>2, <3>1, <3>2, <3>5, <1>2
  <2>4. ASSUME NEW c \in D, NEW d \in D, c < d PROVE Height(c) # Height(d)
    <3>1. c \in Past[d] /\ c # d /\ d \in Blocks
      <4>1. c \in VirtualChain /\ d \in VirtualChain
        BY <2>3
      <4>2. c <= d /\ c # d
        <5>1. c \in Nat /\ d \in Nat
          BY <1>3
        <5> QED BY <5>1, <2>4
      <4>3. c \in Past[d]
        <5> HIDE DEF D
        <5> QED BY <1>1, <1>2, <4>1, <4>2 DEF Paths, VirtualChain
      <4> QED BY <4>2, <4>3, <1>3
    <3>2. Height(c) < Height(d)
      BY <1>1, <3>1 DEF Paths
    <3> QED BY <2>2, <2>3, <3>2
  <2>5. f \in Injection(D, Span)
    <3>1. f \in [D -> Span]
      BY <2>3
    <3>2. ASSUME NEW c \in D, NEW d \in D, f[c] = f[d] PROVE c = d
      <4>1. c \in Nat /\ d \in Nat /\ Height(c) = Height(d)
        BY <1>3, <3>2
      <4>2. ~(c < d) /\ ~(d < c)
        BY <2>4, <4>1
      <4> QED BY <4>1, <4>2
    <3> QED BY <3>1, <3>2 DEF Injection, IsInjective
  <2>6. IsFiniteSet(Span) /\ Cardinality(Span) <= MaxReorg
    <3>1. PICK x \in Int, y \in Int : /\ x = Height(a) + 1 /\ y = Height(a) + MaxReorg
                                     /\ y - x + 1 = MaxReorg
      BY <1>2, <2>2
    <3>2. IsFiniteSet(x..y) /\ Cardinality(x..y) = IF x > y THEN 0 ELSE y - x + 1
      BY FS_Interval
    <3> QED BY <3>1, <3>2, <1>2
  <2>7. IsFiniteSet(D) /\ Cardinality(D) <= Cardinality(Span)
    <3> HIDE DEF D, Span, f
    <3> QED BY <2>5, <2>6, FS_Injection
  <2>8. Cardinality(D) \in Nat /\ Cardinality(Span) \in Nat
    BY <2>6, <2>7, FS_CardinalityType
  <2> HIDE DEF D, Span
  <2> QED BY <2>6, <2>7, <2>8, <1>2
<1>7. PICK g \in {c \in S : c > low} : \A c \in {d \in S : d > low} : g <= c
  <2>1. {c \in S : c > low} \in SUBSET Nat /\ {c \in S : c > low} # {}
    BY <1>2, <1>3
  <2> HIDE DEF S
  <2> QED BY <2>1, LeastNumber
<1>8. g \in page
  <2>1. {c \in S : c <= g} \subseteq D \cup {g}
    <3>1. ASSUME NEW c \in S, c <= g PROVE c \in D \cup {g}
      <4>1. c \in Nat /\ low \in Nat /\ g \in Nat
        BY <1>2, <1>3
      <4>2. c # low
        BY <1>1, <4>1 DEF Paths
      <4> QED BY <1>7, <3>1, <4>1, <4>2
    <3> QED BY <3>1
  <2>2. IsFiniteSet(D \cup {g}) /\ Cardinality(D \cup {g}) <= MaxReorg + 1
    <3> HIDE DEF D
    <3>1. /\ IsFiniteSet(D \cup {g})
          /\ Cardinality(D \cup {g}) = Cardinality(D) \/ Cardinality(D \cup {g}) = Cardinality(D) + 1
      BY <1>6, FS_AddElement
    <3>2. Cardinality(D) <= MaxReorg /\ Cardinality(D) \in Nat /\ MaxReorg \in Nat
      BY <1>2, <1>6
    <3> QED BY <3>1, <3>2
  <2>3. /\ Cardinality({c \in S : c <= g}) <= Cardinality(D \cup {g})
        /\ Cardinality({c \in S : c <= g}) \in Nat /\ Cardinality(D \cup {g}) \in Nat
    <3> DEFINE E == {c \in S : c <= g}
    <3>1. E \in SUBSET (D \cup {g})
      BY <2>1
    <3> HIDE DEF E, D
    <3>2. IsFiniteSet(E) /\ Cardinality(E) <= Cardinality(D \cup {g})
      BY <2>2, <3>1, FS_Subset
    <3>3. Cardinality(E) \in Nat /\ Cardinality(D \cup {g}) \in Nat
      BY <2>2, <3>2, FS_CardinalityType
    <3> QED BY <3>2, <3>3 DEF E
  <2>4. Cardinality({c \in S : c <= g}) <= PageSize
    BY <1>2, <2>2, <2>3
  <2> QED BY <2>4 DEF First
<1> DEFINE m == Max(page)
<1>9. m \in page /\ (\A c \in page : c <= m) /\ LastOf(low, page) = m
  <2>1. page \in SUBSET (0..Len(blocks)) /\ page # {}
    BY <1>3, <1>5, <1>8
  <2> HIDE DEF page
  <2> QED BY <1>1, <2>1, LastOfSome DEF LastOf
<1>10. m > low
  <2>1. g <= m /\ g > low /\ g \in Nat /\ low \in Nat /\ m \in Nat
    BY <1>2, <1>3, <1>5, <1>7, <1>8, <1>9
  <2> HIDE DEF m
  <2> QED BY <2>1
<1>11. s \in page \/ m < s
  <2>1. m \in Nat /\ s \in Nat
    BY <1>2, <1>3, <1>5, <1>9
  <2>2. s <= m => s \in page
    BY <1>3, <1>5, <1>9
  <2> HIDE DEF m
  <2> QED BY <2>1, <2>2
<1>12. Cardinality(page) \in 0..PageSize
  <2>1. {c \in S : c <= m} = page
    BY <1>5, <1>9
  <2>2. Cardinality({c \in S : c <= m}) <= PageSize
    BY <1>9 DEF First
  <2>3. IsFiniteSet(page)
    <3>1. page \in SUBSET (0..Len(blocks))
      BY <1>3, <1>5
    <3>2. IsFiniteSet(0..Len(blocks))
      BY <1>1, FS_Interval
    <3> HIDE DEF page
    <3> QED BY <3>1, <3>2, FS_Subset
  <2>4. Cardinality(page) \in Nat /\ Cardinality(page) <= PageSize
    BY <2>1, <2>2, <2>3, FS_CardinalityType
  <2> HIDE DEF page
  <2> QED BY <2>4, <1>2
<1> QED BY <1>4, <1>9, <1>10, <1>11, <1>12
=============================================================================
