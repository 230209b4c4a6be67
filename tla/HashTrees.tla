----------------------------- MODULE HashTrees -----------------------------
(***************************************************************************)
(* The two hash trees a saved scan commits to (krep-zk/src/merkle.rs and   *)
(* smt.rs, krep-core/src/field.rs) and the walk up a path, which the       *)
(* circuit has a copy of (krep-zk/circuit/src/main.nr).                    *)
(*                                                                         *)
(* Hashing is injective and leaves and nodes are hashed in domains of      *)
(* their own: a hash is written as the tuple of what was hashed.           *)
(***************************************************************************)
EXTENDS Naturals, Sequences, FiniteSets

\* empty_leaf and empty: an unoccupied slot is the field's zero in both trees.
Empty == <<>>

\* hash_leaf and hash_node.
HashLeaf(value) == <<value>>
HashNode(left, right) == <<left, right>>

\* empties: the hash of an empty subtree of each height.
Empties[height \in Nat] ==
    IF height = 0 THEN Empty ELSE HashNode(Empties[height - 1], Empties[height - 1])

\* Half of an index is the index one level up, its parity the side.
Up(index, levels) == index \div 2^levels
IsRight(index, level) == Up(index, level) % 2 = 1

----------------------------------------------------------------------------
(* The tree of a set of values, in the order of their hashes *)

\* sort and dedup: the numbers of a finite set, each at its rank.
Ascending(numbers) ==
    [i \in 1..Cardinality(numbers) |->
        CHOOSE x \in numbers : Cardinality({y \in numbers : y < x}) = i - 1]

\* build_fixed_depth, one level: neighbours are paired, and the last of an odd
\* number of nodes with an empty subtree.
NextLevel(level, filler) ==
    [i \in 1..((Len(level) + 1) \div 2) |->
        HashNode(level[2 * i - 1], IF 2 * i <= Len(level) THEN level[2 * i] ELSE filler)]

\* build_fixed_depth of sorted, distinct values: the occupied part of every
\* level from the leaves up.
Levels(values, depth) ==
    LET level[height \in 0..depth] ==
            IF height = 0 THEN [i \in 1..Len(values) |-> HashLeaf(values[i])]
            ELSE LET next == NextLevel(level[height - 1], Empties[height - 1])
                 IN  IF next = <<>> THEN <<Empties[height]>> ELSE next
    IN  level

\* root; of no values at depth 0 there is none.
Root(levels, depth) == levels[depth][1]

\* index_of, counted from 0.
IndexOf(levels, value) ==
    (CHOOSE i \in 1..Len(levels[0]) : levels[0][i] = HashLeaf(value)) - 1

\* Deviation: beyond the occupied part a node is its own sibling, as in a tree
\* of minimal depth.
SiblingsDoubled(levels, depth, index) ==
    [height \in 0..(depth - 1) |->
        LET level == levels[height]
            at == Up(index, height) + 1
        IN  IF IsRight(index, height) THEN level[at - 1]
            ELSE IF at + 1 <= Len(level) THEN level[at + 1] ELSE level[at]]

\* prove: the sibling at each level; an empty subtree beyond the occupied part.
Siblings(levels, depth, index) ==
    [height \in 0..(depth - 1) |->
        LET level == levels[height]
            at == Up(index, height) + 1
        IN  IF IsRight(index, height) THEN level[at - 1]
            ELSE IF at + 1 <= Len(level) THEN level[at + 1] ELSE Empties[height]]

\* verify and the circuit's merkle_root: hash upwards, the sibling on the side
\* that the index says.
Walk(leaf, path, depth, index) ==
    LET node[height \in 0..depth] ==
            IF height = 0 THEN leaf
            ELSE IF IsRight(index, height - 1)
                 THEN HashNode(path[height - 1], node[height - 1])
                 ELSE HashNode(node[height - 1], path[height - 1])
    IN  node[depth]

----------------------------------------------------------------------------
(* The sparse tree of a set of keys, each in a slot of its own *)

\* subtree: the hash over the keys that begin as the prefix does.
Subtree(keys, depth) ==
    LET tree[height \in 0..depth] ==
            [prefix \in Nat |->
                IF ~\E key \in keys : Up(key, height) = prefix THEN Empties[height]
                ELSE IF height = 0 THEN HashLeaf(prefix)
                ELSE HashNode(tree[height - 1][2 * prefix], tree[height - 1][2 * prefix + 1])]
    IN  tree

SparseRoot(keys, depth) == Subtree(keys, depth)[depth][0]

\* prove: the other half at each level of the way down to the key's slot.
SparseSiblings(keys, depth, key) ==
    [height \in 0..(depth - 1) |->
        LET at == Up(key, height)
        IN  Subtree(keys, depth)[height][IF IsRight(key, height) THEN at - 1 ELSE at + 1]]
=============================================================================
