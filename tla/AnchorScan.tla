----------------------------- MODULE AnchorScan -----------------------------
(***************************************************************************)
(* The live anchor verifier (krep-core/src/kaspad.rs) against a node that  *)
(* moves between any two of its calls.                                     *)
(*                                                                         *)
(* One anchor is asked about: the output of the transaction Escrow.  Two   *)
(* conflicting transactions spend it: Settlement, whose payload commits    *)
(* the id and whose script takes the declared branch, and Rival, which     *)
(* does neither.  The verifier finds the chain block that accepted Escrow, *)
(* walks the block bodies forward from there and takes the spender that    *)
(* was accepted too.  Every RPC is one step.                               *)
(*                                                                         *)
(* KaspaNode is the node: blocks arrive, fork and are pruned.              *)
(* A definition marked "Deviation" is a wrong form of the one after it.    *)
(***************************************************************************)
EXTENDS KaspaNode

CONSTANTS MinConfirmations, MaxBatches, MaxSpendScanBlocks    \* ScanConfig

Spenders == {"Settlement", "Rival"}
Questions == {"anchored", "witnessed"}

ASSUME ScanAssumption ==
    /\ Txs = {"Escrow", "Settlement", "Rival"}
    /\ Spends = [tx \in Txs |-> IF tx \in Spenders THEN "Escrow" ELSE NoTx]
    /\ MinConfirmations \in Nat /\ MaxBatches \in Nat /\ MaxSpendScanBlocks \in Nat

VARIABLES
    scan,       \* what the query under way has in hand
    cache,      \* resolved: transaction -> accepting block, 0 if not resolved
    verdict,    \* the verifier's last answer
    history     \* what was so when the question was asked, and what was ever affirmed

node == <<blocks, sink, pruned>>
vars == <<blocks, sink, pruned, scan, cache, verdict, history>>

----------------------------------------------------------------------------
(* The verifier *)

Idle == [at |-> "idle"]

\* lookup_async: from the cache, or by scanning the chain from a block.
Lookup(tx, from, s) ==
    IF cache[tx] # NoBlock
    THEN [s EXCEPT !.at = "found", !.target = tx]
    ELSE [s EXCEPT !.at = "scan", !.target = tx, !.start = from, !.batches = 0]

\* is_anchored or covenant_witnessed is called.
Ask(q) ==
    /\ scan = Idle
    /\ verdict' = "none"
    /\ scan' = Lookup("Escrow", pruned,
                 [at |-> "asked", question |-> q, target |-> "Escrow", start |-> NoBlock,
                  batches |-> 0, low |-> NoBlock, more |-> TRUE, scanned |-> 0,
                  seen |-> {}, pending |-> {}])
    /\ history' = [history EXCEPT
                     !.buried = AcceptedOn(ChainToDepth(MinConfirmations), "Settlement")]
    /\ UNCHANGED <<node, cache>>

Answer(v) ==
    /\ verdict' = v
    /\ scan' = Idle
    /\ history' = [history EXCEPT !.affirmed = @ \/ v = "true"]

\* Deviation: an escrow that is not found is a no.
MissingIsNo ==
    IF scan.target = "Escrow"
    THEN Answer("false")
    ELSE scan' = [scan EXCEPT !.at = "hunt"] /\ UNCHANGED <<verdict, history>>

\* A transaction that is not there: an escrow is unresolvable, a spender is
\* passed over.
NotFound ==
    IF scan.target = "Escrow"
    THEN Answer("unknown")
    ELSE scan' = [scan EXCEPT !.at = "hunt"] /\ UNCHANGED <<verdict, history>>

\* One batch of the scan: an error, a hit, the tip or the next batch.
ScanBatch ==
    /\ scan # Idle /\ scan.at = "scan"
    /\ LET batch == ChainAfter(scan.start, MinConfirmations)
           hits == {b \in batch : scan.target \in blocks[b].txs}
       IN  \/ /\ scan.batches = MaxBatches
              /\ NotFound
              /\ UNCHANGED cache
           \/ /\ scan.batches < MaxBatches
              /\ Gone(scan.start)
              /\ Answer("unknown")
              /\ UNCHANGED cache
           \/ /\ scan.batches < MaxBatches
              /\ ~Gone(scan.start)
              /\ hits # {}
              /\ cache' = [cache EXCEPT ![scan.target] = Max(hits)]
              /\ scan' = [scan EXCEPT !.at = "found"]
              /\ UNCHANGED <<verdict, history>>
           \/ /\ scan.batches < MaxBatches
              /\ ~Gone(scan.start)
              /\ hits = {}
              /\ IF batch = {}
                 THEN NotFound
                 ELSE /\ scan' = [scan EXCEPT !.start = Max(batch), !.batches = @ + 1]
                      /\ UNCHANGED <<verdict, history>>
              /\ UNCHANGED cache
    /\ UNCHANGED node

\* Deviation: the hunt begins two blocks before.
StartTwoBack ==
    /\ scan # Idle /\ scan.at = "found" /\ scan.target = "Escrow"
    /\ LET from == cache["Escrow"] IN
       scan' = [scan EXCEPT !.at = "hunt",
                            !.low = blocks[blocks[from].parent].parent]
    /\ UNCHANGED <<node, cache, verdict, history>>

\* The escrow is found: hunt from one block before the one that accepted it,
\* or from that one if the node no longer has it.
StartHunt ==
    /\ scan # Idle /\ scan.at = "found" /\ scan.target = "Escrow"
    /\ LET from == cache["Escrow"] IN
       scan' = [scan EXCEPT !.at = "hunt",
                            !.low = IF Gone(from) THEN from ELSE blocks[from].parent]
    /\ UNCHANGED <<node, cache, verdict, history>>

\* The verdict on an accepted spender.
Judged(spender) == IF spender = "Settlement" THEN "true" ELSE "false"

\* An accepted spender is found: is the id in its payload, or the branch the
\* one declared.
Judge ==
    /\ scan # Idle /\ scan.at = "found" /\ scan.target \in Spenders
    /\ Answer(Judged(scan.target))
    /\ UNCHANGED <<node, cache>>

\* Running out of budget is no verdict for is_anchored; check_covenant takes
\* whatever is not Settled for a no.
OutOfBudget(q) == IF q = "anchored" THEN "unknown" ELSE "false"

\* Deviation: one page is read and no more.
OnePage(page, low) == FALSE

\* get_blocks has more to give: its last block is not the one asked for.
Advances(page, low) == LastOf(low, page) # low

\* find_spender, one page of bodies.
HuntPage ==
    /\ scan # Idle /\ scan.at = "hunt" /\ scan.pending = {}
    /\ IF ~scan.more
       THEN Answer("false")                          \* Unspent
       ELSE IF scan.scanned >= MaxSpendScanBlocks
       THEN Answer(OutOfBudget(scan.question))
       ELSE IF Gone(scan.low)
       THEN Answer("unknown")
       ELSE LET page == BodiesAfter(scan.low)
                spending == UNION {blocks[b].txs \cap Spenders : b \in page}
            IN  /\ scan' = [scan EXCEPT
                     !.pending = spending \ scan.seen,
                     !.scanned = @ + 1 + Cardinality(page),
                     !.low = LastOf(scan.low, page),
                     !.more = Advances(page, scan.low)]
                /\ UNCHANGED <<verdict, history>>
    /\ UNCHANGED <<node, cache>>

\* Deviation: a spender in a block is taken for an accepted one.
TakeCandidate ==
    /\ scan # Idle /\ scan.at = "hunt"
    /\ \E tx \in scan.pending : Answer(Judged(tx))
    /\ UNCHANGED <<node, cache>>

\* find_spender: was this candidate accepted?
CheckCandidate ==
    /\ scan # Idle /\ scan.at = "hunt"
    /\ \E tx \in scan.pending :
           scan' = Lookup(tx, cache["Escrow"],
                          [scan EXCEPT !.pending = @ \ {tx}, !.seen = @ \cup {tx}])
    /\ UNCHANGED <<node, cache, verdict, history>>

\* The chain moves on while the verifier waits for a reply.
NodeMoves == NodeStep /\ UNCHANGED <<scan, cache, verdict, history>>

Init ==
    /\ NodeInit
    /\ scan = Idle
    /\ cache = [tx \in Txs |-> NoBlock]
    /\ verdict = "none"
    /\ history = [buried |-> FALSE, affirmed |-> FALSE]

Next ==
    \/ NodeMoves
    \/ \E q \in Questions : Ask(q)
    \/ ScanBatch \/ StartHunt \/ HuntPage \/ CheckCandidate \/ Judge

Spec == Init /\ [][Next]_vars

----------------------------------------------------------------------------
(* Properties *)

\* Every value has its type; a scan and a hunt are always at a block that exists.
TypeOK ==
    /\ NodeTypeOK
    /\ cache \in [Txs -> 0..Len(blocks)]
    /\ verdict \in {"none", "true", "false", "unknown"}
    /\ history \in [buried : BOOLEAN, affirmed : BOOLEAN]
    /\ scan = Idle \/
       /\ scan.at \in {"scan", "found", "hunt"} /\ scan.question \in Questions
       /\ scan.target \in Txs /\ scan.start \in 0..Len(blocks)
       /\ scan.batches \in 0..MaxBatches
       /\ scan.at = "scan" => scan.start \in Blocks
       /\ scan.at = "hunt" => scan.low \in Blocks
       /\ scan.pending \cup scan.seen \subseteq Spenders

\* What the verifier has affirmed once stays so: no reorganisation the
\* confirmation floor covers takes the settlement off the chain again.  Of two
\* conflicting spends it never takes the one that is only in a block, and what
\* it remembers of earlier questions does not go stale
\* ("a permanent fact about the chain", resolve_async).
AffirmedStands == history.affirmed => AcceptedOn(VirtualChain, "Settlement")

\* A settlement that was below the confirmation floor when the question was
\* asked is not denied, whatever the node does between the calls: it is found,
\* or the answer is that nobody knows.
BuriedIsNotDenied == verdict = "false" => ~history.buried

\* A no is about an escrow that is there: an anchor that is pruned, too fresh
\* or unknown is unresolvable rather than absent (KrepError::AnchorUnknown).
DenialNeedsItsEscrow == verdict = "false" => AcceptedOn(VirtualChain, "Escrow")
=============================================================================
