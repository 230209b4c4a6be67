----------------------------- MODULE KaspaNode ------------------------------
(***************************************************************************)
(* A kaspad node as krep-core/src/kaspad.rs and krep-cli/src/roots.rs use  *)
(* it.  The node is not part of the repository: this is its interface.     *)
(*                                                                         *)
(* Blocks form a tree by selected parent, the virtual chain is the path to *)
(* the highest block, and the transactions of a block are those it accepts *)
(* in its mergeset.  A block off the chain stands for bodies that were     *)
(* seen and not accepted.  As rusty-kaspa has it,                          *)
(* get_virtual_chain_from_block(b) reports the chain after b, from the     *)
(* last common block when b is no longer on it.  get_blocks(b) reports b   *)
(* and what comes after it, hence the mergesets of the blocks after b.     *)
(* Both fail for a block that was pruned.                                  *)
(***************************************************************************)
EXTENDS Naturals, Sequences, FiniteSets, FiniteSetsExt

CONSTANTS
    Txs,            \* the transactions that may be accepted
    Spends,         \* the transaction whose output each spends, NoTx if another's
    NoTx,
    MaxBlocks,      \* bound on the blocks mined
    MaxReorg,       \* the deepest fork the network makes
    PruneDepth,     \* depth from which the node drops history
    SameMergeset,   \* whether an output may be spent where it is accepted
    BatchSize,      \* chain blocks per get_virtual_chain_from_block
    PageSize        \* blocks per get_blocks

ASSUME NodeAssumption ==
    /\ Spends \in [Txs -> Txs \cup {NoTx}] /\ NoTx \notin Txs
    /\ MaxBlocks \in Nat \ {0}
    /\ MaxReorg \in Nat /\ PruneDepth \in Nat /\ MaxReorg <= PruneDepth
    /\ SameMergeset \in BOOLEAN
    /\ BatchSize \in Nat \ {0} /\ PageSize \in Nat \ {0}

VARIABLES
    blocks,         \* the blocks ever mined: selected parent, accepted transactions
    sink,           \* the tip of the virtual chain
    pruned          \* the pruning point

Blocks == 1..Len(blocks)
NoBlock == 0

\* A block and its selected ancestors.
Past[b \in 0..Len(blocks)] ==
    IF b = NoBlock THEN {} ELSE {b} \cup Past[blocks[b].parent]

Height(b) == Cardinality(Past[b])
VirtualChain == Past[sink]
Depth(b) == Height(sink) - Height(b)
Gone(b) == Height(b) < Height(pruned)

AcceptedOn(path, tx) == \E b \in path : tx \in blocks[b].txs

\* The virtual chain without its last blocks.
ChainToDepth(confirmations) == {b \in VirtualChain : Depth(b) >= confirmations}

\* The first n of a set of blocks in the order they are reported in.
First(S, n) == {b \in S : Cardinality({c \in S : c <= b}) <= n}

\* get_virtual_chain_from_block.
ChainAfter(b, confirmations) == First(ChainToDepth(confirmations) \ Past[b], BatchSize)

\* get_blocks: a page of the blocks after b, on the chain or off it, and the
\* last block of the reply.
BodiesAfter(b) ==
    First({c \in Blocks : c > b \/ c \in VirtualChain \ Past[b]}, PageSize)

LastOf(b, page) == IF page = {} THEN b ELSE Max(page)

\* A transaction is accepted once on a path, after what it spends, and never
\* beside another that spends the same.
Mine(parent, txs) ==
    /\ Len(blocks) < MaxBlocks
    /\ Depth(Max(Past[parent] \cap VirtualChain)) <= MaxReorg
    /\ \A tx \in txs :
           /\ ~AcceptedOn(Past[parent], tx)
           /\ \/ Spends[tx] = NoTx
              \/ AcceptedOn(Past[parent], Spends[tx])
              \/ SameMergeset /\ Spends[tx] \in txs
           /\ \A other \in Txs \ {tx} :
                  Spends[other] = Spends[tx] /\ Spends[tx] # NoTx =>
                      other \notin txs /\ ~AcceptedOn(Past[parent], other)
    /\ blocks' = Append(blocks, [parent |-> parent, txs |-> txs])
    /\ sink' = IF Height(parent) = Height(sink) THEN Len(blocks') ELSE sink
    /\ UNCHANGED pruned

Prune(b) ==
    /\ b \in VirtualChain
    /\ Depth(b) >= PruneDepth
    /\ Height(b) > Height(pruned)
    /\ pruned' = b
    /\ UNCHANGED <<blocks, sink>>

NodeInit ==
    /\ blocks = <<[parent |-> NoBlock, txs |-> {}]>>
    /\ sink = 1
    /\ pruned = 1

NodeStep ==
    \/ \E parent \in Blocks, txs \in SUBSET Txs : Mine(parent, txs)
    \/ \E b \in Blocks : Prune(b)

NodeTypeOK ==
    /\ \A b \in Blocks : blocks[b].parent \in 0..(b - 1) /\ blocks[b].txs \subseteq Txs
    /\ sink \in Blocks
    /\ pruned \in VirtualChain
=============================================================================
