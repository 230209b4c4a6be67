-------------------------- MODULE AnchorScanProofs --------------------------
(***************************************************************************)
(* Proofs about the live anchor verifier, for every node.  Inductive is    *)
(* what holds whatever forks there are: what is remembered was accepted in *)
(* the block it is remembered by, and each point of a query is reached     *)
(* only when the calls before it succeeded.                                *)
(*                                                                         *)
(* The verdicts are facts about the chain only where no fork goes deeper   *)
(* than the confirmation floor (FloorCovers); that a buried settlement is  *)
(* found besides needs budgets that last and pages longer than a fork      *)
(* (Ample).                                                                *)
(***************************************************************************)
EXTENDS AnchorScan, KaspaNodeProofs

\* A query at one of several points.
QueriesAt(points) ==
    [at : points, question : Questions, target : Txs, start : Nat,
     batches : Nat, low : Nat, more : BOOLEAN, scanned : Nat,
     seen : SUBSET Spenders, pending : SUBSET Spenders]

Queries == QueriesAt({"scan", "found", "hunt"})

\* What is remembered of a transaction is a block that accepted it.
Remembered ==
    /\ cache \in [Txs -> Nat]
    /\ \A tx \in Txs : cache[tx] # NoBlock => cache[tx] \in Blocks /\ tx \in blocks[cache[tx]].txs

\* Whatever is being looked up or hunted for, the calls before it succeeded.
Underway ==
    scan # Idle =>
        /\ scan \in Queries /\ scan.start \in 0..Len(blocks) /\ scan.batches <= MaxBatches
        /\ scan.at = "scan" => scan.start \in Blocks
        /\ scan.at = "found" => cache[scan.target] # NoBlock
        /\ scan.at = "hunt" \/ scan.target \in Spenders =>
               cache["Escrow"] # NoBlock /\ scan.low \in Blocks

Answered ==
    /\ verdict \in {"none", "true", "false", "unknown"}
    /\ history \in [buried : BOOLEAN, affirmed : BOOLEAN]
    /\ history.affirmed => cache["Settlement"] # NoBlock
    /\ verdict = "false" => cache["Escrow"] # NoBlock

Inductive == NodeInductive /\ Remembered /\ Underway /\ Answered

----------------------------------------------------------------------------

LEMMA Names ==
    /\ Txs = {"Escrow", "Settlement", "Rival"} /\ Spenders \subseteq Txs
    /\ Spends["Settlement"] = "Escrow" /\ Spends["Rival"] = "Escrow" /\ Spends["Escrow"] = NoTx
    /\ NoTx \notin Txs
    /\ MinConfirmations \in Nat /\ MaxBatches \in Nat /\ MaxSpendScanBlocks \in Nat
BY ScanAssumption, NodeAssumption DEF Spenders

\* A batch or a page holds blocks of the node, and so does its end.
LEMMA Replies ==
    ASSUME NodeInductive
    PROVE  /\ \A b : ChainAfter(b, MinConfirmations) \subseteq ChainToDepth(MinConfirmations) \ Past[b]
           /\ ChainToDepth(MinConfirmations) \subseteq Blocks
           /\ \A b : BodiesAfter(b) \subseteq Blocks
           /\ \A S \in SUBSET Blocks : S # {} => Max(S) \in S /\ \A b \in S : b <= Max(S)
           /\ \A b \in Blocks : LastOf(b, BodiesAfter(b)) \in Blocks
<1>0. Paths /\ Len(blocks) \in Nat /\ sink \in 0..Len(blocks)
  BY NodeTypes DEF NodeInductive, Tree, Tip, Blocks
<1>1. \A b : ChainAfter(b, MinConfirmations) \subseteq ChainToDepth(MinConfirmations) \ Past[b]
  BY DEF ChainAfter, First
<1>2. ChainToDepth(MinConfirmations) \subseteq Blocks
  BY <1>0 DEF ChainToDepth, VirtualChain, Paths
<1>3. \A b : BodiesAfter(b) \subseteq Blocks
  BY DEF BodiesAfter, First
<1>4. \A S \in SUBSET Blocks : S # {} => Max(S) \in S /\ \A b \in S : b <= Max(S)
  <2>1. ASSUME NEW S \in SUBSET Blocks, S # {} PROVE Max(S) \in S /\ \A b \in S : b <= Max(S)
    <3>1. S \in SUBSET (0..Len(blocks))
      BY <1>0 DEF Blocks
    <3> QED BY <1>0, <2>1, <3>1, LastOfSome
  <2> QED BY <2>1
<1>5. \A b \in Blocks : LastOf(b, BodiesAfter(b)) \in Blocks
  BY <1>3, <1>4 DEF LastOf
<1> QED BY <1>1, <1>2, <1>3, <1>4, <1>5

LEMMA InitInductive == Init => Inductive
<1> SUFFICES ASSUME Init PROVE Inductive
  OBVIOUS
<1>1. NodeInductive
  BY NodeInitInductive DEF Init
<1>2. Remembered
  BY DEF Init, Remembered, NoBlock
<1> QED BY <1>1, <1>2 DEF Init, Inductive, Underway, Answered

\* Blocks that arrive or are pruned between two calls change nothing of it.
LEMMA NodeMovesInductive ==
    ASSUME Inductive, NodeMoves \/ UNCHANGED vars
    PROVE  Inductive'
<1>1. NodeInductive' /\ NodeGrows /\ Len(blocks) \in Nat
  BY NodeStepInductive DEF Inductive, NodeMoves, vars, NodeInductive, Tree
<1>2. UNCHANGED <<scan, cache, verdict, history>>
  BY DEF NodeMoves, vars
<1>3. Remembered'
  BY <1>1, <1>2 DEF Inductive, Remembered, NodeGrows
<1>4. Underway'
  <2>1. 0..Len(blocks) \subseteq 0..Len(blocks') /\ Blocks \subseteq Blocks'
    <3>1. Len(blocks') \in Nat /\ Len(blocks) <= Len(blocks')
      BY <1>1 DEF NodeInductive, Tree, NodeGrows
    <3> QED BY <3>1, <1>1 DEF NodeGrows
  <2> QED BY <1>2, <2>1 DEF Inductive, Underway
<1>5. Answered'
  BY <1>2 DEF Inductive, Answered
<1> QED BY <1>1, <1>3, <1>4, <1>5 DEF Inductive

\* A lookup that the cache answers is a hit; another scans the chain from a block.
LEMMA LookupUnderway ==
    ASSUME Inductive, NEW s \in QueriesAt({"asked", "hunt"}),
           s.start \in 0..Len(blocks), s.batches <= MaxBatches,
           NEW tx \in Txs, NEW from \in Blocks, scan' = Lookup(tx, from, s),
           tx \in Spenders => cache["Escrow"] # NoBlock /\ s.low \in Blocks,
           UNCHANGED <<blocks, cache>>
    PROVE  Underway'
<1>0. from \in Nat /\ Len(blocks) \in Nat /\ from \in 0..Len(blocks) /\ 0 <= MaxBatches
  <2>1. Len(blocks) \in Nat
    BY DEF Inductive, NodeInductive, Tree
  <2>2. from \in 1..Len(blocks)
    BY DEF Blocks
  <2> QED BY <2>1, <2>2, Names
<1>1. CASE cache[tx] # NoBlock
  <2>1. scan' = [s EXCEPT !.at = "found", !.target = tx]
    BY <1>1 DEF Lookup
  <2>2. scan' \in Queries /\ scan'.at = "found" /\ scan'.target = tx
        /\ scan'.start = s.start /\ scan'.batches = s.batches /\ scan'.low = s.low
    BY <2>1 DEF Queries, QueriesAt
  <2> QED BY <2>2, <1>1 DEF Underway, Blocks
<1>2. CASE cache[tx] = NoBlock
  <2>1. scan' = [s EXCEPT !.at = "scan", !.target = tx, !.start = from, !.batches = 0]
    BY <1>2 DEF Lookup
  <2>2. scan'.at = "scan" /\ scan'.target = tx /\ scan'.start = from /\ scan'.batches = 0
        /\ scan'.low = s.low
    BY <2>1 DEF QueriesAt
  <2>3. scan' = [at |-> "scan", question |-> s.question, target |-> tx, start |-> from,
                 batches |-> 0, low |-> s.low, more |-> s.more, scanned |-> s.scanned,
                 seen |-> s.seen, pending |-> s.pending]
    BY <2>1 DEF QueriesAt
  <2>4. /\ s.question \in Questions /\ s.low \in Nat /\ s.more \in BOOLEAN /\ s.scanned \in Nat
        /\ s.seen \in SUBSET Spenders /\ s.pending \in SUBSET Spenders
    BY DEF QueriesAt
  <2>5. scan' \in Queries
    BY <2>3, <2>4, <1>0 DEF Queries, QueriesAt
  <2> QED BY <2>2, <2>5, <1>0, Names DEF Underway, Blocks
<1> QED BY <1>1, <1>2

\* Nothing that the verifier does touches the node.
LEMMA NodeRests ==
    ASSUME Inductive, UNCHANGED node
    PROVE  /\ NodeInductive' /\ Blocks' = Blocks /\ Len(blocks') = Len(blocks)
           /\ UNCHANGED cache => Remembered'
<1>1. UNCHANGED <<blocks, sink, pruned>>
  BY DEF node
<1>2. NodeInductive'
  BY <1>1, NodeStepInductive DEF Inductive
<1> QED BY <1>1, <1>2 DEF Blocks, Remembered, Inductive

LEMMA AnswerInductive ==
    ASSUME Inductive, UNCHANGED <<node, cache>>,
           NEW v \in {"true", "false", "unknown"}, Answer(v),
           v = "true" => cache["Settlement"] # NoBlock,
           v = "false" => cache["Escrow"] # NoBlock
    PROVE  Inductive'
<1>1. NodeInductive' /\ Remembered'
  BY NodeRests
<1>2. Underway'
  BY DEF Answer, Underway
<1>3. Answered'
  <2>1. /\ history' = [history EXCEPT !.affirmed = @ \/ v = "true"] /\ verdict' = v
        /\ history \in [buried : BOOLEAN, affirmed : BOOLEAN] /\ cache' = cache
        /\ history.affirmed => cache["Settlement"] # NoBlock
    BY DEF Answer, Inductive, Answered
  <2>2. history' \in [buried : BOOLEAN, affirmed : BOOLEAN]
    BY <2>1
  <2>3. history'.affirmed => history.affirmed \/ v = "true"
    BY <2>1
  <2> QED BY <2>1, <2>2, <2>3 DEF Answered
<1> QED BY <1>1, <1>2, <1>3 DEF Inductive

\* A query under way leaves the answers alone.
LEMMA StillUnderway ==
    ASSUME Inductive, UNCHANGED <<node, verdict, history>>, Remembered', Underway',
           \A tx \in Txs : cache[tx] # NoBlock => cache'[tx] # NoBlock
    PROVE  Inductive'
<1>1. NodeInductive'
  BY NodeRests
<1>2. Answered'
  BY Names DEF Inductive, Answered
<1> QED BY <1>1, <1>2 DEF Inductive

LEMMA AskInductive ==
    ASSUME Inductive, NEW q \in Questions, Ask(q)
    PROVE  Inductive'
<1> DEFINE s == [at |-> "asked", question |-> q, target |-> "Escrow", start |-> NoBlock,
                 batches |-> 0, low |-> NoBlock, more |-> TRUE, scanned |-> 0,
                 seen |-> {}, pending |-> {}]
<1>1. scan' = Lookup("Escrow", pruned, s) /\ UNCHANGED node /\ cache' = cache
  BY DEF Ask
<1>2. NodeInductive' /\ Remembered'
  BY <1>1, NodeRests
<1>3. Underway'
  <2>1. pruned \in Blocks
    BY NodeTypes DEF Inductive, NodeInductive, Tip, PrunedDeep, VirtualChain, Paths, Blocks, Tree
  <2>2. s.start \in 0..Len(blocks) /\ s.batches <= MaxBatches
    BY Names DEF NoBlock, Inductive, NodeInductive, Tree
  <2>4. s \in QueriesAt({"asked", "hunt"})
    BY Names DEF NoBlock, QueriesAt
  <2>3. "Escrow" \in Txs /\ "Escrow" \notin Spenders /\ UNCHANGED blocks
    BY <1>1, Names DEF Spenders, node
  <2> HIDE DEF s
  <2> QED BY <1>1, <2>1, <2>2, <2>3, <2>4, LookupUnderway
<1>4. Answered'
  <2>1. history' \in [buried : BOOLEAN, affirmed : BOOLEAN] /\ history'.affirmed = history.affirmed
    BY DEF Ask, Inductive, Answered, AcceptedOn
  <2> QED BY <1>1, <2>1 DEF Ask, Inductive, Answered
<1> QED BY <1>2, <1>3, <1>4 DEF Inductive

LEMMA NotFoundInductive ==
    ASSUME Inductive, scan # Idle, NotFound, UNCHANGED <<node, cache>>
    PROVE  Inductive'
<1>1. CASE scan.target = "Escrow"
  BY <1>1, AnswerInductive DEF NotFound
<1>2. CASE scan.target # "Escrow"
  <2>1. scan' = [scan EXCEPT !.at = "hunt"] /\ UNCHANGED <<verdict, history>>
    BY <1>2 DEF NotFound
  <2>2. /\ scan \in Queries /\ scan.start \in 0..Len(blocks) /\ scan.batches <= MaxBatches
        /\ scan.target \in Spenders
    BY <1>2, Names DEF Inductive, Underway, Queries, QueriesAt, Spenders
  <2>3. /\ scan' \in Queries /\ scan'.at = "hunt" /\ scan'.start = scan.start
        /\ scan'.batches = scan.batches /\ scan'.low = scan.low
    BY <2>1, <2>2 DEF Queries, QueriesAt
  <2>4. Blocks' = Blocks /\ Len(blocks') = Len(blocks) /\ Remembered'
    BY NodeRests
  <2>5. Underway'
    BY <2>2, <2>3, <2>4 DEF Inductive, Underway
  <2> QED BY <2>1, <2>4, <2>5, StillUnderway
<1> QED BY <1>1, <1>2

LEMMA ScanBatchInductive ==
    ASSUME Inductive, ScanBatch
    PROVE  Inductive'
<1> DEFINE batch == ChainAfter(scan.start, MinConfirmations)
           hits == {b \in batch : scan.target \in blocks[b].txs}
<1>1. /\ scan # Idle /\ scan.at = "scan" /\ UNCHANGED node
      /\ scan \in Queries /\ scan.start \in Blocks /\ scan.batches <= MaxBatches
      /\ scan.target \in Spenders => cache["Escrow"] # NoBlock /\ scan.low \in Blocks
  BY DEF ScanBatch, Inductive, Underway
<1>2. batch \in SUBSET Blocks /\ hits \in SUBSET Blocks /\ NodeInductive
  BY Replies DEF Inductive
<1>3. Blocks' = Blocks /\ Len(blocks') = Len(blocks) /\ blocks' = blocks
  BY <1>1, NodeRests DEF node
<1>4. CASE NotFound /\ UNCHANGED cache
  BY <1>1, <1>4, NotFoundInductive
<1>5. CASE Answer("unknown") /\ UNCHANGED cache
  BY <1>1, <1>5, AnswerInductive
<1>6. CASE /\ hits # {}
           /\ cache' = [cache EXCEPT ![scan.target] = Max(hits)]
           /\ scan' = [scan EXCEPT !.at = "found"]
           /\ UNCHANGED <<verdict, history>>
  <2>1. Max(hits) \in hits /\ Max(hits) \in Blocks /\ Max(hits) # NoBlock /\ Max(hits) \in Nat
    <3>1. Max(hits) \in hits
      BY <1>2, <1>6, Replies
    <3>2. Blocks \subseteq Nat \ {NoBlock}
      BY DEF Blocks, NoBlock
    <3> QED BY <1>2, <3>1, <3>2
  <2> HIDE DEF hits
  <2>2. /\ cache \in [Txs -> Nat] /\ scan.target \in Txs
        /\ cache' \in [Txs -> Nat] /\ cache'[scan.target] = Max(hits)
        /\ \A tx \in Txs : tx # scan.target => cache'[tx] = cache[tx]
    BY <1>1, <1>6, <2>1 DEF Inductive, Remembered, Queries, QueriesAt
  <2>3. Remembered'
    BY <1>3, <2>1, <2>2 DEF Inductive, Remembered, hits
  <2>4. /\ scan' \in Queries /\ scan'.at = "found" /\ scan'.target = scan.target
        /\ scan'.start = scan.start /\ scan'.batches = scan.batches /\ scan'.low = scan.low
    BY <1>1, <1>6 DEF Queries, QueriesAt
  <2>5. \A tx \in Txs : cache[tx] # NoBlock => cache'[tx] # NoBlock
    BY <2>1, <2>2
  <2>6. Underway'
    <3>1. cache'[scan.target] # NoBlock
      BY <2>1, <2>2
    <3>2. scan.target \in Spenders => cache'["Escrow"] # NoBlock
      BY <1>1, <2>5, Names
    <3>3. scan.start \in 0..Len(blocks)
      BY <1>1 DEF Inductive, Underway
    <3> QED BY <1>1, <1>3, <2>4, <3>1, <3>2, <3>3 DEF Underway
  <2> QED BY <1>1, <1>6, <2>3, <2>5, <2>6, StillUnderway
<1>7. CASE /\ batch # {} /\ scan.batches < MaxBatches
           /\ scan' = [scan EXCEPT !.start = Max(batch), !.batches = @ + 1]
           /\ UNCHANGED <<verdict, history, cache>>
  <2>1. Max(batch) \in Blocks /\ Max(batch) \in Nat
    <3>1. Max(batch) \in batch
      BY <1>2, <1>7, Replies
    <3>2. Blocks \subseteq Nat
      BY DEF Blocks
    <3> QED BY <1>2, <3>1, <3>2
  <2> HIDE DEF batch
  <2>6. /\ scan'.at = "scan" /\ scan'.target = scan.target
        /\ scan'.start = Max(batch) /\ scan'.batches = scan.batches + 1 /\ scan'.low = scan.low
        /\ scan.batches \in Nat
    BY <1>1, <1>7 DEF Queries, QueriesAt
  <2>7. scan' = [at |-> "scan", question |-> scan.question, target |-> scan.target,
                 start |-> Max(batch), batches |-> scan.batches + 1, low |-> scan.low,
                 more |-> scan.more, scanned |-> scan.scanned, seen |-> scan.seen,
                 pending |-> scan.pending]
    BY <1>1, <1>7 DEF Queries, QueriesAt
  <2>2. scan' \in Queries
    BY <1>1, <2>1, <2>6, <2>7 DEF Queries, QueriesAt
  <2>3. scan.batches \in Nat /\ MaxBatches \in Nat /\ Max(batch) \in 0..Len(blocks)
    BY <1>1, <2>1, Names DEF Queries, QueriesAt, Blocks
  <2>4. Underway'
    BY <1>1, <1>3, <1>7, <2>1, <2>2, <2>3, <2>6 DEF Underway
  <2>5. Remembered'
    BY <1>1, <1>7, NodeRests
  <2> QED BY <1>1, <1>7, <2>4, <2>5, StillUnderway
<1> QED
  BY <1>4, <1>5, <1>6, <1>7 DEF ScanBatch

\* The block that accepted the escrow is not the first one: there is one before.
LEMMA StartHuntInductive ==
    ASSUME Inductive, StartHunt
    PROVE  Inductive'
<1> DEFINE from == cache["Escrow"]
           low == IF Gone(from) THEN from ELSE blocks[from].parent
<1>1. /\ scan # Idle /\ scan.at = "found" /\ scan.target = "Escrow"
      /\ scan \in Queries /\ scan.start \in 0..Len(blocks) /\ scan.batches <= MaxBatches
      /\ cache["Escrow"] # NoBlock /\ UNCHANGED <<node, cache, verdict, history>>
      /\ scan' = [scan EXCEPT !.at = "hunt", !.low = low]
  BY DEF StartHunt, Inductive, Underway
<1>2. from \in Blocks /\ "Escrow" \in blocks[from].txs
  BY <1>1, Names DEF Inductive, Remembered
<1>3. low \in Blocks /\ low \in Nat
  <2>1. from # 1
    BY <1>2 DEF Inductive, NodeInductive, Tree
  <2>2. /\ blocks[from].parent \in 0..(from - 1) /\ blocks[from].parent # 0
        /\ from \in 1..Len(blocks) /\ Len(blocks) \in Nat
    BY <1>2, <2>1 DEF Inductive, NodeInductive, Tree, Blocks, NoBlock
  <2>3. blocks[from].parent \in Blocks
    BY <2>2 DEF Blocks
  <2>4. low \in Blocks
    BY <1>2, <2>3
  <2> HIDE DEF low
  <2> QED BY <2>4 DEF Blocks
<1> HIDE DEF low
<1>4. /\ scan' \in Queries /\ scan'.at = "hunt" /\ scan'.low = low /\ scan'.start = scan.start
      /\ scan'.batches = scan.batches
  BY <1>1, <1>3 DEF Queries, QueriesAt
<1>5. Blocks' = Blocks /\ Len(blocks') = Len(blocks) /\ Remembered'
  BY <1>1, NodeRests
<1>6. Underway'
  BY <1>1, <1>3, <1>4, <1>5 DEF Underway
<1> QED BY <1>1, <1>5, <1>6, StillUnderway

LEMMA HuntPageInductive ==
    ASSUME Inductive, HuntPage
    PROVE  Inductive'
<1> DEFINE page == BodiesAfter(scan.low)
           spending == UNION {blocks[b].txs \cap Spenders : b \in page}
<1>1. /\ scan # Idle /\ scan.at = "hunt" /\ UNCHANGED <<node, cache>>
      /\ scan \in Queries /\ scan.start \in 0..Len(blocks) /\ scan.batches <= MaxBatches
      /\ cache["Escrow"] # NoBlock /\ scan.low \in Blocks
  BY DEF HuntPage, Inductive, Underway
<1>2. CASE Answer("false") \/ Answer("unknown")
  BY <1>1, <1>2, AnswerInductive
<1>3. CASE Answer(OutOfBudget(scan.question))
  <2>1. OutOfBudget(scan.question) \in {"unknown", "false"}
    BY DEF OutOfBudget
  <2> QED BY <1>1, <1>2, <1>3, <2>1
<1>4. CASE /\ scan' = [scan EXCEPT
                !.pending = spending \ scan.seen, !.scanned = @ + 1 + Cardinality(page),
                !.low = LastOf(scan.low, page), !.more = Advances(page, scan.low)]
           /\ UNCHANGED <<verdict, history>>
  <2>1. LastOf(scan.low, page) \in Blocks /\ LastOf(scan.low, page) \in Nat
    <3>1. LastOf(scan.low, page) \in Blocks
      BY <1>1, Replies DEF Inductive
    <3> HIDE DEF page
    <3> QED BY <3>1 DEF Blocks
  <2>2. Cardinality(page) \in Nat
    <3>1. page \in SUBSET Blocks /\ IsFiniteSet(Blocks)
      BY Replies, FS_Interval DEF Inductive, NodeInductive, Tree, Blocks
    <3> HIDE DEF page
    <3>2. IsFiniteSet(page)
      BY <3>1, FS_Subset
    <3> QED BY <3>2, FS_CardinalityType
  <2>3. spending \in SUBSET Spenders
    OBVIOUS
  <2>4. Advances(page, scan.low) \in BOOLEAN
    BY DEF Advances
  <2> HIDE DEF page, spending
  <2>5. /\ scan'.at = "hunt" /\ scan'.low = LastOf(scan.low, page)
        /\ scan'.start = scan.start /\ scan'.batches = scan.batches
    BY <1>1, <1>4 DEF Queries, QueriesAt
  <2>6. scan' \in Queries
    <3>1. scan' = [at |-> "hunt", question |-> scan.question, target |-> scan.target,
                   start |-> scan.start, batches |-> scan.batches,
                   low |-> LastOf(scan.low, page), more |-> Advances(page, scan.low),
                   scanned |-> scan.scanned + 1 + Cardinality(page),
                   seen |-> scan.seen, pending |-> spending \ scan.seen]
      BY <1>1, <1>4 DEF Queries, QueriesAt
    <3>2. scan.scanned + 1 + Cardinality(page) \in Nat /\ spending \ scan.seen \in SUBSET Spenders
      BY <1>1, <2>2, <2>3 DEF Queries, QueriesAt
    <3> QED BY <1>1, <2>1, <2>4, <3>1, <3>2 DEF Queries, QueriesAt
  <2>7. Blocks' = Blocks /\ Len(blocks') = Len(blocks) /\ Remembered'
    BY <1>1, NodeRests
  <2>8. Underway'
    BY <1>1, <2>1, <2>5, <2>6, <2>7 DEF Underway
  <2> QED BY <1>1, <1>4, <2>7, <2>8, StillUnderway
<1> QED BY <1>2, <1>3, <1>4 DEF HuntPage

LEMMA CheckCandidateInductive ==
    ASSUME Inductive, CheckCandidate
    PROVE  Inductive'
<1>1. PICK tx \in scan.pending :
          scan' = Lookup(tx, cache["Escrow"],
                         [scan EXCEPT !.pending = @ \ {tx}, !.seen = @ \cup {tx}])
  BY DEF CheckCandidate
<1> DEFINE s == [scan EXCEPT !.pending = @ \ {tx}, !.seen = @ \cup {tx}]
<1>2. /\ scan # Idle /\ scan.at = "hunt" /\ UNCHANGED <<node, cache, verdict, history>>
      /\ scan \in Queries /\ scan.start \in 0..Len(blocks) /\ scan.batches <= MaxBatches
      /\ cache["Escrow"] # NoBlock /\ scan.low \in Blocks
  BY DEF CheckCandidate, Inductive, Underway
<1>3. tx \in Spenders /\ tx \in Txs /\ cache["Escrow"] \in Blocks
  BY <1>2, Names DEF Queries, QueriesAt, Inductive, Remembered
<1>4. s \in QueriesAt({"asked", "hunt"}) /\ s.start = scan.start /\ s.batches = scan.batches
      /\ s.low = scan.low
  BY <1>2, <1>3 DEF Queries, QueriesAt
<1>5. scan' = Lookup(tx, cache["Escrow"], s)
  BY <1>1
<1>6. UNCHANGED blocks
  BY <1>2 DEF node
<1>7. Underway'
  <2> HIDE DEF s
  <2> QED BY <1>2, <1>3, <1>4, <1>5, <1>6, LookupUnderway
<1>8. Remembered'
  BY <1>2, NodeRests
<1> QED BY <1>2, <1>7, <1>8, StillUnderway

LEMMA JudgeInductive ==
    ASSUME Inductive, Judge
    PROVE  Inductive'
<1>1. /\ scan # Idle /\ scan.at = "found" /\ scan.target \in Spenders
      /\ Answer(Judged(scan.target)) /\ UNCHANGED <<node, cache>>
      /\ cache[scan.target] # NoBlock /\ cache["Escrow"] # NoBlock
  BY DEF Judge, Inductive, Underway
<1>2. Judged(scan.target) \in {"true", "false", "unknown"}
      /\ (Judged(scan.target) = "true" => scan.target = "Settlement")
  BY DEF Judged
<1> QED BY <1>1, <1>2, AnswerInductive

LEMMA NextInductive == Inductive /\ [Next]_vars => Inductive'
<1> SUFFICES ASSUME Inductive, [Next]_vars PROVE Inductive'
  OBVIOUS
<1>1. CASE NodeMoves \/ UNCHANGED vars
  BY <1>1, NodeMovesInductive
<1>2. CASE \E q \in Questions : Ask(q)
  BY <1>2, AskInductive
<1> QED
  BY <1>1, <1>2, ScanBatchInductive, StartHuntInductive, HuntPageInductive,
     CheckCandidateInductive, JudgeInductive DEF Next

LEMMA AlwaysInductive == Spec => []Inductive
<1> QED BY InitInductive, NextInductive, PTL DEF Spec

\* Every value has its type; a scan and a hunt are always at a block that exists,
\* and the escrow's own block always has one before it to hunt from.
THEOREM ScanTypeCorrect == Spec => []TypeOK
<1>1. Inductive => TypeOK
  <2> SUFFICES ASSUME Inductive PROVE TypeOK
    OBVIOUS
  <2>1. NodeTypeOK
    BY NodeTypes DEF Inductive
  <2>2. cache \in [Txs -> 0..Len(blocks)]
    <3>1. \A tx \in Txs : cache[tx] \in 0..Len(blocks)
      BY DEF Inductive, Remembered, NodeInductive, Tree, Blocks, NoBlock
    <3> QED BY <3>1 DEF Inductive, Remembered
  <2>3. ASSUME scan # Idle
        PROVE  /\ scan.at \in {"scan", "found", "hunt"} /\ scan.question \in Questions
               /\ scan.target \in Txs /\ scan.start \in 0..Len(blocks)
               /\ scan.batches \in 0..MaxBatches
               /\ scan.pending \cup scan.seen \subseteq Spenders
    <3>1. scan \in Queries /\ scan.start \in 0..Len(blocks) /\ scan.batches <= MaxBatches
      BY <2>3 DEF Inductive, Underway
    <3> QED BY <3>1, Names DEF Queries, QueriesAt
  <2> QED BY <2>1, <2>2, <2>3 DEF TypeOK, Inductive, Underway, Answered
<1> QED BY <1>1, AlwaysInductive, PTL

----------------------------------------------------------------------------
(* What the confirmation floor buys *)

\* No fork is deeper than the floor.
FloorCovers == MaxReorg <= MinConfirmations

\* What is remembered is on the chain below the floor.
CacheStands ==
    \A tx \in Txs : cache[tx] # NoBlock => cache[tx] \in ChainToDepth(MinConfirmations)

LEMMA NextCacheStands ==
    ASSUME FloorCovers
    PROVE  Inductive /\ CacheStands /\ [Next]_vars => CacheStands'
<1> SUFFICES ASSUME Inductive, CacheStands, [Next]_vars PROVE CacheStands'
  OBVIOUS
<1>1. CASE NodeMoves \/ UNCHANGED vars
  <2>1. ChainToDepth(MinConfirmations) \subseteq ChainToDepth(MinConfirmations)'
    <3>1. NodeStep \/ UNCHANGED <<blocks, sink, pruned>>
      BY <1>1 DEF NodeMoves, vars
    <3> QED BY <3>1, Names, NodeStepInductive DEF Inductive, FloorCovers
  <2>2. cache' = cache
    BY <1>1 DEF NodeMoves, vars
  <2> QED BY <2>1, <2>2 DEF CacheStands
<1>2. ASSUME UNCHANGED node
      PROVE  ChainToDepth(MinConfirmations)' = ChainToDepth(MinConfirmations)
  <2>1. blocks' = blocks /\ sink' = sink
    BY <1>2 DEF node
  <2>2. Past' = Past
    BY <2>1 DEF Past
  <2> QED BY <2>1, <2>2 DEF ChainToDepth, VirtualChain, Depth, Height
<1>3. CASE UNCHANGED <<node, cache>>
  BY <1>2, <1>3 DEF CacheStands
<1>4. CASE ScanBatch
  <2> DEFINE batch == ChainAfter(scan.start, MinConfirmations)
             hits == {b \in batch : scan.target \in blocks[b].txs}
  <2>1. UNCHANGED node
    BY <1>4 DEF ScanBatch
  <2>2. CASE UNCHANGED cache
    BY <1>3, <2>1, <2>2
  <2>3. CASE hits # {} /\ cache' = [cache EXCEPT ![scan.target] = Max(hits)]
    <3>1. hits \in SUBSET Blocks /\ hits \subseteq ChainToDepth(MinConfirmations)
      BY Replies DEF Inductive
    <3>2. Max(hits) \in ChainToDepth(MinConfirmations)
      BY <2>3, <3>1, Replies DEF Inductive
    <3> HIDE DEF hits
    <3> QED BY <1>2, <2>1, <2>3, <3>2 DEF CacheStands, Inductive, Remembered
  <2> QED BY <1>4, <2>2, <2>3 DEF ScanBatch
<1>5. CASE \E q \in Questions : Ask(q)
  BY <1>3, <1>5 DEF Ask
<1>6. CASE StartHunt \/ HuntPage \/ CheckCandidate \/ Judge
  BY <1>3, <1>6 DEF StartHunt, HuntPage, CheckCandidate, Judge
<1> QED BY <1>1, <1>4, <1>5, <1>6 DEF Next

LEMMA AlwaysCacheStands ==
    ASSUME FloorCovers
    PROVE  Spec => [](Inductive /\ CacheStands)
<1>1. Init => CacheStands
  BY DEF Init, CacheStands
<1>2. Inductive /\ CacheStands /\ [Next]_vars => CacheStands'
  BY NextCacheStands
<1> QED BY <1>1, <1>2, InitInductive, NextInductive, PTL DEF Spec

\* No question is answered with what a covered reorganisation takes back.
THEOREM AffirmationsStand ==
    ASSUME FloorCovers
    PROVE  Spec => []AffirmedStands
<1>1. Inductive /\ CacheStands => AffirmedStands
  BY Names DEF Inductive, Answered, Remembered, CacheStands, ChainToDepth, AffirmedStands, AcceptedOn
<1>2. Spec => [](Inductive /\ CacheStands)
  BY AlwaysCacheStands
<1> QED BY <1>1, <1>2, PTL

\* A no is given only of an escrow that is there.
THEOREM DenialsNeedTheEscrow ==
    ASSUME FloorCovers
    PROVE  Spec => []DenialNeedsItsEscrow
<1>1. Inductive /\ CacheStands => DenialNeedsItsEscrow
  BY Names
  DEF Inductive, Answered, Remembered, CacheStands, ChainToDepth, DenialNeedsItsEscrow, AcceptedOn
<1>2. Spec => [](Inductive /\ CacheStands)
  BY AlwaysCacheStands
<1> QED BY <1>1, <1>2, PTL

----------------------------------------------------------------------------
(* What is buried is found *)

\* The budgets reach over the chain, a page over a fork, and no transaction is
\* spent in the mergeset that accepts it.
Ample ==
    /\ ~SameMergeset
    /\ MaxReorg < PageSize
    /\ MaxBlocks <= MaxBatches
    /\ (MaxBlocks - 1) * (PageSize + 1) < MaxSpendScanBlocks

Buried(s) == s \in ChainToDepth(MinConfirmations) /\ "Settlement" \in blocks[s].txs

InHand ==
    \/ "Settlement" \in scan.pending
    \/ scan.target = "Settlement" /\ scan.at \in {"scan", "found"}

\* The hunt has not reached block s, and has read no more than a page for every
\* block that it has got ahead by.
Ahead(s) ==
    /\ "Settlement" \notin scan.seen /\ scan.more
    /\ scan.low < s /\ scan.scanned <= scan.low * (PageSize + 1)

\* A query that is on its way to the settlement in block s.
Approaches(s) ==
    /\ scan.at # "hunt" /\ scan.target = "Escrow" =>
           scan.seen = {} /\ scan.pending = {} /\ scan.more /\ scan.scanned = 0
    /\ scan.at = "hunt" \/ scan.target \in Spenders => InHand \/ Ahead(s)
    /\ scan.at = "scan" /\ scan.target = "Settlement" =>
           scan.start \in Past[s] \ {s} /\ scan.batches < Height(scan.start)

Sought ==
    history.buried =>
        /\ verdict # "false"
        /\ \E s \in ChainToDepth(MinConfirmations) :
               Buried(s) /\ (scan # Idle => Approaches(s))

\* What stands whichever settlement is asked about.
Standing == Inductive /\ CacheStands /\ Near

\* The escrow is remembered from before its settlement, and the rival never is.
LEMMA BuriedSettlement ==
    ASSUME Ample, Inductive, CacheStands, NEW s, Buried(s)
    PROVE  /\ s \in Blocks /\ s \in VirtualChain /\ s \in Nat /\ cache["Rival"] = NoBlock
           /\ cache["Escrow"] # NoBlock =>
                  cache["Escrow"] \in Past[s] \ {s} /\ cache["Escrow"] < s
<1>1. Paths /\ sink \in 0..Len(blocks) /\ Len(blocks) \in Nat /\ NodeInductive
  BY NodeTypes DEF Inductive, NodeInductive, Tree, Tip, Blocks
<1>2. s \in VirtualChain /\ "Settlement" \in blocks[s].txs
  BY DEF Buried, ChainToDepth
<1>3. s \in Blocks /\ s \in Nat /\ VirtualChain \subseteq Blocks
  BY <1>1, <1>2 DEF Paths, VirtualChain, Blocks
<1>4. ASSUME NEW tx \in Txs, cache[tx] # NoBlock
      PROVE  cache[tx] \in VirtualChain /\ tx \in blocks[cache[tx]].txs
  BY <1>4 DEF Inductive, Remembered, CacheStands, ChainToDepth
<1>5. cache["Rival"] = NoBlock
  <2>1. \A c \in VirtualChain : "Rival" \notin blocks[c].txs
    BY <1>1, <1>2, Names, ChainIsLawful
  <2> QED BY <1>4, <2>1, Names
<1>6. ASSUME cache["Escrow"] # NoBlock
      PROVE  cache["Escrow"] \in Past[s] \ {s} /\ cache["Escrow"] < s
  <2>1. PICK c \in Past[s] : "Escrow" \in blocks[c].txs /\ c < s
    BY <1>1, <1>2, Names, ChainIsLawful DEF Ample
  <2>2. c \in VirtualChain
    BY <1>1, <1>2, <2>1 DEF Paths, VirtualChain
  <2>3. cache["Escrow"] = c
    BY <1>1, <1>4, <1>6, <2>1, <2>2, Names, ChainIsLawful
  <2> QED BY <2>1, <2>3, <1>3
<1> QED BY <1>2, <1>3, <1>5, <1>6

LEMMA RestsBuried ==
    ASSUME UNCHANGED node
    PROVE  /\ ChainToDepth(MinConfirmations)' = ChainToDepth(MinConfirmations)
           /\ Past' = Past /\ blocks' = blocks
           /\ \A b : Height(b)' = Height(b)
<1>1. blocks' = blocks /\ sink' = sink
  BY DEF node
<1>2. Past' = Past
  BY <1>1 DEF Past
<1> QED BY <1>1, <1>2 DEF ChainToDepth, VirtualChain, Depth, Height

\* A reply of the node that does not move gets the scan ahead or to its end.
LEMMA BatchApproaches ==
    ASSUME Ample, Standing, NEW s, Buried(s), scan # Idle, scan.at = "scan",
           scan.target = "Settlement", Approaches(s)
    PROVE  LET batch == ChainAfter(scan.start, MinConfirmations)
           IN  /\ batch # {} /\ scan.batches < MaxBatches
               /\ s \in batch \/ (/\ Max(batch) \in Past[s] \ {s}
                                  /\ scan.batches + 1 < Height(Max(batch)))
<1> DEFINE batch == ChainAfter(scan.start, MinConfirmations)
           S == ChainToDepth(MinConfirmations) \ Past[scan.start]
<1>1. /\ Paths /\ sink \in 0..Len(blocks) /\ Len(blocks) \in Nat /\ NodeInductive
      /\ Len(blocks) <= MaxBlocks
  BY NodeTypes DEF Standing, Inductive, NodeInductive, Tree, Tip, Blocks, Near
<1>2. /\ s \in Blocks /\ s \in VirtualChain /\ s \in 0..Len(blocks)
      /\ s \in ChainToDepth(MinConfirmations)
  BY BuriedSettlement DEF Standing, Buried, Blocks
<1>3. /\ scan.start \in Past[s] /\ scan.start # s /\ scan.batches < Height(scan.start)
      /\ scan.batches \in Nat
  BY DEF Approaches, Standing, Inductive, Underway, Queries, QueriesAt
<1>4. /\ scan.start \in 0..Len(blocks) /\ scan.start \in Blocks /\ scan.start < s
      /\ Height(scan.start) \in Nat /\ Height(s) \in Nat /\ Height(s) <= Len(blocks)
      /\ Height(scan.start) < Height(s) /\ scan.start \in VirtualChain
  <2>1. scan.start \in 1..s /\ scan.start \in Blocks
    BY <1>1, <1>2, <1>3 DEF Paths
  <2>2. scan.start \in VirtualChain /\ Height(scan.start) < Height(s)
    BY <1>1, <1>2, <1>3 DEF Paths, VirtualChain
  <2>3. scan.start \in 0..Len(blocks) /\ scan.start < s
    BY <1>1, <1>2, <1>3, <2>1
  <2>4. Height(scan.start) \in 0..scan.start /\ Height(s) \in 0..s
    BY <1>1, <1>2, <2>3 DEF Paths
  <2>5. s <= Len(blocks) /\ s \in Nat
    BY <1>1, <1>2
  <2> QED BY <1>1, <2>1, <2>2, <2>3, <2>4, <2>5
<1>5. scan.batches < MaxBatches
  BY <1>1, <1>3, <1>4, Names, NodeAssumption DEF Ample
<1>6. s \in S /\ S \in SUBSET (0..Len(blocks)) /\ S \subseteq VirtualChain
  <2>1. s \notin Past[scan.start]
    BY <1>1, <1>2, <1>4 DEF Paths
  <2>2. ChainToDepth(MinConfirmations) \subseteq VirtualChain /\ VirtualChain \subseteq Blocks
    BY <1>1 DEF ChainToDepth, VirtualChain, Paths
  <2> QED BY <1>1, <1>2, <2>1, <2>2 DEF Blocks
<1>7. /\ batch \subseteq S /\ batch # {}
      /\ \A b \in batch : \A c \in S : c <= b => c \in batch
  <2>1. batch = First(S, BatchSize)
    BY DEF ChainAfter
  <2> HIDE DEF S, batch
  <2>2. S # {} /\ S \in SUBSET (0..Len(blocks)) /\ BatchSize \in Nat \ {0}
    BY <1>6, NodeAssumption
  <2>3. /\ First(S, BatchSize) \subseteq S
        /\ S # {} => First(S, BatchSize) # {}
        /\ \A b \in First(S, BatchSize) : \A c \in S : c <= b => c \in First(S, BatchSize)
    BY <1>1, <2>2, FirstOfSome
  <2> QED BY <2>1, <2>2, <2>3
<1>8. Max(batch) \in batch
  <2>1. batch \in SUBSET (0..Len(blocks)) /\ batch # {}
    BY <1>6, <1>7
  <2> HIDE DEF batch
  <2> QED BY <1>1, <2>1, LastOfSome
<1>9. ASSUME s \notin batch
      PROVE  Max(batch) \in Past[s] \ {s} /\ scan.batches + 1 < Height(Max(batch))
  <2>1. PICK m \in S : m = Max(batch)
    BY <1>7, <1>8
  <2>2. m \in VirtualChain /\ m \in Nat /\ m \in 0..Len(blocks) /\ m \in Blocks
    BY <1>1, <1>6, <2>1 DEF Paths, VirtualChain
  <2>3. ~(s <= m)
    BY <1>6, <1>7, <1>8, <1>9, <2>1
  <2>4. m <= s /\ m # s
    BY <1>2, <2>2, <2>3
  <2>5. m \in Past[s]
    BY <1>1, <1>2, <2>2, <2>4 DEF Paths, VirtualChain
  <2>6. m \notin Past[scan.start]
    BY <2>1
  <2>7. scan.start \in Past[m] /\ scan.start # m
    <3>1. ~(m <= scan.start)
      BY <1>1, <1>4, <2>2, <2>6 DEF Paths, VirtualChain
    <3>2. scan.start <= m /\ scan.start # m
      BY <1>4, <2>2, <3>1
    <3> QED BY <1>1, <1>4, <2>2, <3>2 DEF Paths, VirtualChain
  <2>8. Height(scan.start) < Height(m) /\ Height(m) \in Nat
    BY <1>1, <2>2, <2>7 DEF Paths
  <2>9. scan.batches + 1 < Height(m)
    BY <1>3, <1>4, <2>8
  <2> QED BY <2>1, <2>4, <2>5, <2>9
<1> QED BY <1>5, <1>7, <1>9

\* What a step leaves of the approach to block s.
StillApproaches(s) == verdict' # "false" /\ (scan' # Idle => Approaches(s)')

LEMMA ScanApproaches ==
    ASSUME Ample, Standing, NEW s, Buried(s), verdict # "false",
           scan # Idle => Approaches(s), ScanBatch
    PROVE  StillApproaches(s)
<1> DEFINE batch == ChainAfter(scan.start, MinConfirmations)
           hits == {b \in batch : scan.target \in blocks[b].txs}
<1>1. /\ scan # Idle /\ scan.at = "scan" /\ Approaches(s) /\ UNCHANGED node
      /\ scan \in Queries /\ scan.target \in Txs
  BY DEF ScanBatch, Standing, Inductive, Underway, Queries, QueriesAt
<1>2. ASSUME Answer("unknown") PROVE StillApproaches(s)
  BY <1>2 DEF Answer, StillApproaches
<1>3. ASSUME NotFound, scan.target # "Settlement" PROVE StillApproaches(s)
  <2>1. CASE scan.target = "Escrow"
    BY <1>2, <1>3, <2>1 DEF NotFound
  <2>2. CASE scan.target # "Escrow"
    <3>1. scan' = [scan EXCEPT !.at = "hunt"] /\ verdict' = verdict
      BY <1>3, <2>2 DEF NotFound
    <3>2. /\ scan'.at = "hunt" /\ scan'.pending = scan.pending /\ scan'.seen = scan.seen
          /\ scan'.more = scan.more /\ scan'.low = scan.low /\ scan'.scanned = scan.scanned
      BY <1>1, <3>1 DEF Queries, QueriesAt
    <3>3. "Settlement" \in scan.pending \/ Ahead(s)
      BY <1>1, <1>3, <2>2, Names DEF Approaches, InHand, Spenders
    <3>4. InHand' \/ Ahead(s)'
      BY <3>2, <3>3 DEF InHand, Ahead
    <3> QED BY <3>1, <3>2, <3>4 DEF StillApproaches, Approaches
  <2> QED BY <2>1, <2>2
<1>4. ASSUME scan' = [scan EXCEPT !.at = "found"], UNCHANGED verdict
      PROVE  StillApproaches(s)
  <2>1. /\ scan'.at = "found" /\ scan'.pending = scan.pending /\ scan'.seen = scan.seen
        /\ scan'.more = scan.more /\ scan'.low = scan.low /\ scan'.scanned = scan.scanned
        /\ scan'.target = scan.target
    BY <1>1, <1>4 DEF Queries, QueriesAt
  <2> QED BY <1>1, <1>4, <2>1 DEF StillApproaches, Approaches, InHand, Ahead
<1>5. ASSUME batch # {}, hits = {}, scan' = [scan EXCEPT !.start = Max(batch), !.batches = @ + 1],
             UNCHANGED verdict
      PROVE  StillApproaches(s)
  <2>1. /\ scan'.at = "scan" /\ scan'.pending = scan.pending /\ scan'.seen = scan.seen
        /\ scan'.more = scan.more /\ scan'.low = scan.low /\ scan'.scanned = scan.scanned
        /\ scan'.target = scan.target /\ scan'.start = Max(batch)
        /\ scan'.batches = scan.batches + 1
    BY <1>1, <1>5 DEF Queries, QueriesAt
  <2>2. /\ scan'.at # "hunt" /\ scan'.target = "Escrow" =>
               scan'.seen = {} /\ scan'.pending = {} /\ scan'.more /\ scan'.scanned = 0
        /\ scan'.at = "hunt" \/ scan'.target \in Spenders => InHand' \/ Ahead(s)'
    BY <1>1, <2>1 DEF Approaches, InHand, Ahead
  <2>3. ASSUME scan.target = "Settlement"
        PROVE  Max(batch) \in Past[s] \ {s} /\ scan.batches + 1 < Height(Max(batch))
    <3>1. s \notin batch
      BY <1>5, <2>3 DEF Buried
    <3> QED BY <1>1, <2>3, <3>1, BatchApproaches
  <2>4. Past' = Past /\ \A b : Height(b)' = Height(b)
    BY <1>1, RestsBuried
  <2> HIDE DEF batch, hits
  <2>5. scan'.at = "scan" /\ scan'.target = "Settlement" =>
            scan'.start \in Past'[s] \ {s} /\ scan'.batches < Cardinality(Past'[scan'.start])
    BY <2>1, <2>3, <2>4 DEF Height
  <2>6. Approaches(s)'
    BY <2>2, <2>5 DEF Approaches, Height
  <2> QED BY <1>5, <2>6 DEF StillApproaches
<1>6. scan.target = "Settlement" => batch # {} /\ scan.batches < MaxBatches
  BY <1>1, BatchApproaches
<1>7. CASE NotFound /\ (scan.batches = MaxBatches \/ batch = {})
  <2>1. scan.batches = MaxBatches => ~(scan.batches < MaxBatches)
    BY Names
  <2> QED BY <1>3, <1>6, <1>7, <2>1
<1> QED BY <1>2, <1>4, <1>5, <1>7 DEF ScanBatch

LEMMA StartApproaches ==
    ASSUME Ample, Standing, NEW s, Buried(s), verdict # "false",
           scan # Idle => Approaches(s), StartHunt
    PROVE  StillApproaches(s)
<1> DEFINE from == cache["Escrow"]
           low == IF Gone(from) THEN from ELSE blocks[from].parent
<1>1. /\ scan # Idle /\ scan.at = "found" /\ scan.target = "Escrow" /\ scan \in Queries
      /\ cache["Escrow"] # NoBlock /\ UNCHANGED <<cache, verdict, history>>
      /\ scan' = [scan EXCEPT !.at = "hunt", !.low = low]
      /\ scan.seen = {} /\ scan.more /\ scan.scanned = 0
  BY DEF StartHunt, Standing, Inductive, Underway, Approaches
<1>2. low \in Nat /\ low < s
  <2>1. from \in Blocks /\ from < s /\ s \in Nat
    BY <1>1, Names, BuriedSettlement DEF Standing, Inductive, Remembered
  <2>2. blocks[from].parent \in 0..(from - 1) /\ from \in Nat
    BY <2>1 DEF Standing, Inductive, NodeInductive, Tree, Blocks
  <2>3. blocks[from].parent \in Nat /\ blocks[from].parent < s
    BY <2>1, <2>2
  <2> QED BY <2>1, <2>2, <2>3
<1> HIDE DEF low
<1>3. /\ scan'.at = "hunt" /\ scan'.low = low /\ scan'.seen = {} /\ scan'.more
      /\ scan'.scanned = 0
  BY <1>1, <1>2 DEF Queries, QueriesAt
<1>4. 0 <= low * (PageSize + 1)
  <2>1. PageSize + 1 \in Nat /\ \A m, n \in Nat : m * n \in Nat
    BY NodeAssumption
  <2> QED BY <1>2, <2>1
<1>5. Ahead(s)'
  BY <1>2, <1>3, <1>4 DEF Ahead
<1> QED BY <1>1, <1>3, <1>5 DEF StillApproaches, Approaches

LEMMA PageApproaches ==
    ASSUME Ample, Standing, NEW s, Buried(s), verdict # "false",
           scan # Idle => Approaches(s), HuntPage
    PROVE  StillApproaches(s)
<1> DEFINE page == BodiesAfter(scan.low)
           spending == UNION {blocks[b].txs \cap Spenders : b \in page}
<1>1. /\ scan # Idle /\ scan.at = "hunt" /\ scan \in Queries /\ scan.pending = {}
      /\ scan.low \in Blocks /\ scan.low \in Nat /\ scan.scanned \in Nat
  BY DEF HuntPage, Standing, Inductive, Underway, Queries, QueriesAt
<1>2. /\ "Settlement" \notin scan.seen /\ scan.more /\ scan.low < s
      /\ scan.scanned <= scan.low * (PageSize + 1)
  BY <1>1 DEF Approaches, InHand, Ahead
<1>3. s \in VirtualChain /\ s \in Nat /\ s <= MaxBlocks
  <2>1. s \in VirtualChain /\ s \in Blocks /\ s \in Nat
    BY BuriedSettlement DEF Standing
  <2>2. Len(blocks) <= MaxBlocks /\ Len(blocks) \in Nat
    BY DEF Standing, Near, Inductive, NodeInductive, Tree
  <2> QED BY <2>1, <2>2, NodeAssumption DEF Blocks
<1>4. PageSize \in Nat /\ MaxBlocks \in Nat /\ MaxBlocks >= 1 /\ MaxSpendScanBlocks \in Nat
  BY NodeAssumption, Names
<1>5. ~(scan.scanned >= MaxSpendScanBlocks)
  <2>1. scan.low <= MaxBlocks - 1 /\ MaxBlocks - 1 \in Nat /\ PageSize + 1 \in Nat
    BY <1>1, <1>2, <1>3, <1>4
  <2>2. \A k, l, m \in Nat : k <= l => k * m <= l * m /\ k * m \in Nat /\ l * m \in Nat
    OBVIOUS
  <2>3. /\ scan.low * (PageSize + 1) <= (MaxBlocks - 1) * (PageSize + 1)
        /\ scan.low * (PageSize + 1) \in Nat /\ (MaxBlocks - 1) * (PageSize + 1) \in Nat
    BY <1>1, <2>1, <2>2
  <2> QED BY <1>1, <1>2, <1>4, <2>3 DEF Ample
<1>6. ASSUME Answer("unknown") PROVE StillApproaches(s)
  BY <1>6 DEF Answer, StillApproaches
<1>7. ASSUME scan' = [scan EXCEPT
                !.pending = spending \ scan.seen, !.scanned = @ + 1 + Cardinality(page),
                !.low = LastOf(scan.low, page), !.more = Advances(page, scan.low)],
             UNCHANGED verdict
      PROVE  StillApproaches(s)
  <2>1. PICK next : next = LastOf(scan.low, page)
    OBVIOUS
  <2>2. PICK size : size = Cardinality(page)
    OBVIOUS
  <2>3. size \in 0..PageSize /\ next > scan.low /\ (s \in page \/ next < s)
    BY <1>1, <1>2, <1>3, <2>1, <2>2, PageAdvances DEF Standing, Inductive, Ample
  <2>4. next \in Blocks /\ next \in Nat
    <3>1. next \in Blocks
      BY <1>1, <2>1, Replies DEF Standing, Inductive
    <3> QED BY <3>1 DEF Blocks
  <2>5. s \in page => "Settlement" \in spending
    BY DEF Buried, Spenders
  <2>6. Advances(page, scan.low)
    BY <2>1, <2>3, <2>4, <1>1 DEF Advances
  <2> HIDE DEF page, spending
  <2>7. /\ scan'.at = "hunt" /\ scan'.pending = spending \ scan.seen /\ scan'.seen = scan.seen
        /\ scan'.low = next /\ scan'.scanned = scan.scanned + 1 + size
        /\ scan'.more = Advances(page, scan.low)
    BY <1>1, <1>7, <2>1, <2>2 DEF Queries, QueriesAt
  <2>8. CASE s \in page
    BY <1>2, <1>7, <2>5, <2>7, <2>8 DEF StillApproaches, Approaches, InHand
  <2>9. CASE next < s
    <3>1. scan.scanned + 1 + size <= next * (PageSize + 1)
      <4>1. /\ scan.low + 1 <= next /\ scan.low + 1 \in Nat /\ PageSize + 1 \in Nat
            /\ size <= PageSize /\ size \in Nat
        BY <1>1, <1>4, <2>3, <2>4
      <4>2. \A k, l, m \in Nat : k <= l => k * m <= l * m /\ k * m \in Nat /\ l * m \in Nat
        OBVIOUS
      <4>3. (scan.low + 1) * (PageSize + 1) <= next * (PageSize + 1)
        BY <2>4, <4>1, <4>2
      <4>4. (scan.low + 1) * (PageSize + 1) = scan.low * (PageSize + 1) + (PageSize + 1)
        BY <1>1, <1>4
      <4>5. /\ scan.low * (PageSize + 1) \in Nat /\ next * (PageSize + 1) \in Nat
            /\ (scan.low + 1) * (PageSize + 1) \in Nat
        BY <1>1, <2>4, <4>1, <4>2
      <4> QED BY <1>1, <1>2, <1>4, <4>1, <4>3, <4>4, <4>5
    <3>2. Ahead(s)'
      BY <1>2, <2>6, <2>7, <2>9, <3>1 DEF Ahead
    <3> QED BY <1>7, <2>7, <3>2 DEF StillApproaches, Approaches
  <2> QED BY <2>3, <2>8, <2>9
<1> QED BY <1>1, <1>2, <1>5, <1>6, <1>7 DEF HuntPage

LEMMA CandidateApproaches ==
    ASSUME Ample, Standing, NEW s, Buried(s), verdict # "false",
           scan # Idle => Approaches(s), CheckCandidate
    PROVE  StillApproaches(s)
<1>1. PICK tx \in scan.pending :
          scan' = Lookup(tx, cache["Escrow"],
                         [scan EXCEPT !.pending = @ \ {tx}, !.seen = @ \cup {tx}])
  BY DEF CheckCandidate
<1>2. /\ scan # Idle /\ scan.at = "hunt" /\ scan \in Queries /\ UNCHANGED <<node, verdict>>
      /\ cache["Escrow"] # NoBlock /\ tx \in Spenders /\ Approaches(s)
      /\ cache \in [Txs -> Nat]
  BY DEF CheckCandidate, Standing, Inductive, Underway, Remembered, Queries, QueriesAt
<1>3. InHand \/ Ahead(s)
  BY <1>2 DEF Approaches
<1>4. /\ scan'.target = tx /\ scan'.pending = scan.pending \ {tx}
      /\ scan'.seen = scan.seen \cup {tx} /\ scan'.more = scan.more /\ scan'.low = scan.low
      /\ scan'.scanned = scan.scanned
      /\ \/ scan'.at = "found"
         \/ scan'.at = "scan" /\ scan'.start = cache["Escrow"] /\ scan'.batches = 0
  BY <1>1, <1>2 DEF Lookup, Queries, QueriesAt
<1>5. InHand' \/ Ahead(s)'
  BY <1>2, <1>3, <1>4 DEF InHand, Ahead, Spenders
<1>6. cache["Escrow"] \in Past'[s] \ {s} /\ 0 < Cardinality(Past'[cache["Escrow"]])
  <2>1. Past' = Past
    BY <1>2, RestsBuried
  <2>2. cache["Escrow"] \in Past[s] \ {s}
    BY <1>2, BuriedSettlement DEF Standing
  <2>3. cache["Escrow"] \in Blocks /\ Tree /\ Paths
    BY <1>2, Names, NodeTypes DEF Standing, Inductive, Remembered, NodeInductive
  <2>4. Height(cache["Escrow"]) = Height(blocks[cache["Escrow"]].parent) + 1
        /\ Height(blocks[cache["Escrow"]].parent) \in Nat
    <3>1. blocks[cache["Escrow"]].parent \in 0..Len(blocks)
      BY <2>3 DEF Tree, Blocks
    <3> QED BY <2>3, <3>1 DEF Paths
  <2>5. 0 < Height(cache["Escrow"])
    BY <2>4
  <2> QED BY <2>1, <2>2, <2>5 DEF Height
<1>7. Approaches(s)'
  BY <1>2, <1>4, <1>5, <1>6 DEF Approaches, Spenders, Height
<1> QED BY <1>2, <1>7 DEF StillApproaches

LEMMA JudgeApproaches ==
    ASSUME Ample, Standing, NEW s, Buried(s), verdict # "false", Judge
    PROVE  StillApproaches(s)
<1>1. /\ scan # Idle /\ scan.at = "found" /\ scan.target \in Spenders
      /\ cache[scan.target] # NoBlock /\ Answer(Judged(scan.target))
  BY DEF Judge, Standing, Inductive, Underway
<1>2. scan.target = "Settlement"
  BY <1>1, BuriedSettlement DEF Standing, Spenders
<1> QED BY <1>1, <1>2 DEF Judged, Answer, StillApproaches

LEMMA SoughtNext ==
    ASSUME FloorCovers, Ample
    PROVE  Standing /\ Sought /\ [Next]_vars => Sought'
<1> SUFFICES ASSUME Standing, Sought, [Next]_vars, history'.buried PROVE Sought'
  BY DEF Sought
<1>1. CASE NodeMoves \/ UNCHANGED vars
  <2>1. NodeStep \/ UNCHANGED <<blocks, sink, pruned>>
    BY <1>1 DEF NodeMoves, vars
  <2>2. UNCHANGED <<scan, verdict, history>>
    BY <1>1 DEF NodeMoves, vars
  <2>3. /\ NodeGrows /\ ChainToDepth(MinConfirmations) \subseteq ChainToDepth(MinConfirmations)'
        /\ Paths /\ Len(blocks) \in Nat
    BY <2>1, Names, NodeStepInductive, NodeTypes
    DEF Standing, Inductive, FloorCovers, NodeInductive, Tree
  <2>4. PICK s \in ChainToDepth(MinConfirmations) : Buried(s) /\ (scan # Idle => Approaches(s))
    BY <2>2 DEF Sought
  <2>5. s \in Blocks /\ s \in 0..Len(blocks)
    BY <2>3, <2>4, BuriedSettlement DEF Standing, Blocks
  <2>6. Buried(s)'
    BY <2>3, <2>4, <2>5 DEF Buried, NodeGrows
  <2>7. ASSUME scan # Idle PROVE Approaches(s)'
    <3>1. ASSUME scan.at = "scan", scan.target = "Settlement"
          PROVE  /\ scan.start \in Past'[s] \ {s}
                 /\ scan.batches < Cardinality(Past'[scan.start])
      <4>1. scan.start \in Past[s] \ {s} /\ scan.batches < Height(scan.start)
        BY <2>4, <2>7, <3>1 DEF Approaches
      <4>2. scan.start \in 0..Len(blocks)
        BY <2>7 DEF Standing, Inductive, Underway
      <4> QED BY <2>3, <2>5, <4>1, <4>2 DEF NodeGrows, Height
    <3> QED BY <2>2, <2>4, <2>7, <3>1 DEF Approaches, InHand, Ahead, Height
  <2>8. verdict # "false"
    BY <2>2 DEF Sought
  <2> QED BY <2>2, <2>3, <2>4, <2>6, <2>7, <2>8 DEF Sought
<1>2. ASSUME NEW q \in Questions, Ask(q) PROVE Sought'
  <2>1. /\ UNCHANGED node /\ verdict' = "none"
        /\ AcceptedOn(ChainToDepth(MinConfirmations), "Settlement")
    BY <1>2 DEF Ask, Standing, Inductive, Answered
  <2>2. PICK s \in ChainToDepth(MinConfirmations) : Buried(s)
    BY <2>1 DEF AcceptedOn, Buried
  <2>3. /\ scan'.at # "hunt" /\ scan'.target = "Escrow" /\ scan'.seen = {}
        /\ scan'.pending = {} /\ scan'.more /\ scan'.scanned = 0
    BY <1>2 DEF Ask, Lookup
  <2>4. Approaches(s)'
    BY <2>3 DEF Approaches, Spenders
  <2>5. Buried(s)' /\ s \in ChainToDepth(MinConfirmations)'
    BY <2>1, <2>2, RestsBuried DEF Buried
  <2> QED BY <2>1, <2>4, <2>5 DEF Sought
<1>3. ASSUME ScanBatch \/ StartHunt \/ HuntPage \/ CheckCandidate \/ Judge
      PROVE  Sought'
  <2>1. UNCHANGED node
    BY <1>3 DEF ScanBatch, StartHunt, HuntPage, CheckCandidate, Judge, node
  <2>2. history'.buried = history.buried
    <3>1. ASSUME NEW v, Answer(v) PROVE history'.buried = history.buried
      BY <3>1 DEF Answer, Standing, Inductive, Answered
    <3> QED BY <1>3, <3>1
        DEF ScanBatch, StartHunt, HuntPage, CheckCandidate, Judge, NotFound
  <2>3. PICK s \in ChainToDepth(MinConfirmations) : Buried(s) /\ (scan # Idle => Approaches(s))
    BY <2>2 DEF Sought
  <2>4. verdict # "false"
    BY <2>2 DEF Sought
  <2>5. StillApproaches(s)
    BY <1>3, <2>3, <2>4, ScanApproaches, StartApproaches, PageApproaches,
       CandidateApproaches, JudgeApproaches
  <2>6. Buried(s)' /\ s \in ChainToDepth(MinConfirmations)'
    BY <2>1, <2>3, RestsBuried DEF Buried
  <2> QED BY <2>5, <2>6 DEF Sought, StillApproaches
<1> QED BY <1>1, <1>2, <1>3 DEF Next

\* A settlement below the floor when the question is asked is not denied: each
\* page and each batch gets ahead without passing it, and the budgets last.
THEOREM BuriedStands ==
    ASSUME FloorCovers, Ample
    PROVE  Spec => []BuriedIsNotDenied
<1>1. Init => Standing /\ Sought
  BY InitInductive, NearInit DEF Init, Standing, CacheStands, Sought
<1>2. Standing /\ [Next]_vars => Standing'
  <2> SUFFICES ASSUME Standing, [Next]_vars PROVE Standing'
    OBVIOUS
  <2>1. NodeStep \/ UNCHANGED <<blocks, sink, pruned>>
    BY DEF Next, vars, node, NodeMoves, Ask, ScanBatch, StartHunt, HuntPage, CheckCandidate, Judge
  <2> QED BY <2>1, NextInductive, NextCacheStands, NearNext DEF Standing, Inductive
<1>3. Sought => BuriedIsNotDenied
  BY DEF Sought, BuriedIsNotDenied
<1> QED BY <1>1, <1>2, <1>3, SoughtNext, PTL DEF Spec
=============================================================================
