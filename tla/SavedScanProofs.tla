-------------------------- MODULE SavedScanProofs ---------------------------
(***************************************************************************)
(* Proofs about the saved scans of `krep roots` and what reads them.       *)
(*                                                                         *)
(* First the accumulators and the market, for a chain without forks.  A    *)
(* scan does not notice a fork: the block an update resumes on may be      *)
(* gone, and its leaves stay.                                              *)
(*                                                                         *)
(* Then selective disclosure: the trees a saved scan is hashed into, what  *)
(* a path in them shows, and what an accepted proof means.  Hashes are     *)
(* taken not to collide (HashTrees), and nothing is assumed of the chain   *)
(* that was scanned.                                                       *)
(***************************************************************************)
EXTENDS Market, Disclosure, KaspaNodeProofs, SequenceTheorems

\* The network makes no forks.
NoForks == MaxReorg = 0

\* The chain is all there is.
Linear ==
    /\ sink = Len(blocks)
    /\ \A b \in Blocks : blocks[b].parent = b - 1

\* What a stretch of it accepted.
Stretch(a, b) == UNION {blocks[c].txs : c \in (a + 1)..b}

----------------------------------------------------------------------------
(* A chain without forks *)

LEMMA LinearNext ==
    ASSUME NoForks, NodeInductive, Linear, NodeStep \/ UNCHANGED <<blocks, sink, pruned>>
    PROVE  Linear'
<1>1. CASE UNCHANGED <<blocks, sink>>
  BY <1>1 DEF Linear, Blocks
<1>2. ASSUME NEW parent \in Blocks, NEW txs \in SUBSET Txs, Mine(parent, txs)
      PROVE  Linear'
  <2>0. PICK n \in Nat : n = Len(blocks)
    BY DEF NodeInductive, Tree
  <2>1. Paths /\ sink = n /\ Blocks = 1..n /\ parent \in 0..n /\ parent \in 1..n /\ sink \in 1..n
        /\ sink \in 0..n
    BY <2>0, TreePaths DEF NodeInductive, Tip, Linear, Blocks
  <2>2. sink \in VirtualChain /\ Depth(sink) >= MaxReorg
    <3>1. sink \in VirtualChain
      BY <2>1 DEF Paths, VirtualChain
    <3>2. Height(sink) \in Nat
      BY <2>0, <2>1 DEF Paths
    <3> QED BY <3>1, <3>2 DEF Depth, NoForks
  <2>3. sink \in Past[parent]
    BY <1>2, <2>2, ForkIsShallow DEF NodeInductive
  <2>4. Past[parent] \subseteq 1..parent
    BY <2>0, <2>1 DEF Paths
  <2>5. parent = n
    BY <2>1, <2>3, <2>4
  <2>6. /\ Len(blocks') = n + 1 /\ \A b \in Blocks : blocks'[b] = blocks[b]
        /\ blocks'[n + 1] = [parent |-> parent, txs |-> txs]
    BY <1>2, <2>0, MineGrows DEF NodeInductive
  <2>7. sink' = n + 1
    BY <1>2, <2>1, <2>5, <2>6 DEF Mine
  <2>8. Blocks' = 1..(n + 1)
    BY <2>6 DEF Blocks
  <2>9. ASSUME NEW b \in 1..(n + 1) PROVE blocks'[b].parent = b - 1
    <3>1. CASE b \in 1..n
      BY <2>1, <2>6, <3>1 DEF Linear
    <3>2. CASE b = n + 1
      BY <2>5, <2>6, <3>2
    <3> QED BY <3>1, <3>2
  <2> QED BY <2>6, <2>7, <2>8, <2>9 DEF Linear
<1> QED BY <1>1, <1>2 DEF NodeStep, Prune

LEMMA LinearPaths ==
    ASSUME NodeInductive, Linear
    PROVE  \A b \in 0..Len(blocks) : Past[b] = 1..b /\ Height(b) = b
<1> DEFINE n == Len(blocks)
           S == {c \in 0..n : Past[c] = 1..c /\ Height(c) = c}
<1>0. n \in Nat /\ Paths
  BY TreePaths DEF NodeInductive, Tree
<1>1. ASSUME NEW c \in 0..n, \A d \in 0..(c - 1) : d \in S PROVE c \in S
  <2>1. CASE c = 0
    <3>1. Past[c] = {} /\ Height(c) \in 0..c
      BY <1>0, <2>1 DEF Paths, NoBlock
    <3> QED BY <2>1, <3>1
  <2>2. CASE c # 0
    <3>1. c \in Blocks /\ c \in Nat
      BY <1>0, <2>2 DEF Blocks
    <3>2. blocks[c].parent = c - 1 /\ c - 1 \in 0..(c - 1)
      BY <3>1, <2>2 DEF Linear
    <3>3. Past[c - 1] = 1..(c - 1) /\ Height(c - 1) = c - 1
      BY <1>1, <3>2
    <3>4. Past[c] = {c} \cup Past[c - 1] /\ Height(c) = Height(c - 1) + 1
      BY <1>0, <3>1, <3>2 DEF Paths
    <3>5. {c} \cup 1..(c - 1) = 1..c
      BY <3>1, <2>2
    <3>6. Height(c) = c
      BY <3>1, <3>3, <3>4
    <3> QED BY <3>3, <3>4, <3>5, <3>6
  <2> QED BY <2>1, <2>2
<1>2. \A c \in 0..n : c \in S
  <2> HIDE DEF S
  <2> QED BY <1>0, <1>1, BlockInduction
<1> QED BY <1>2

\* The first of the blocks after one are a stretch, empty only at the end.
LEMMA FirstAfter ==
    ASSUME NEW n \in Nat, NEW a \in 0..n, NEW k \in Nat \ {0}
    PROVE  \E m \in a..n : /\ First((a + 1)..n, k) = (a + 1)..m
                           /\ m = a <=> a = n
<1> DEFINE S == (a + 1)..n
           F == First(S, k)
<1>1. S \in SUBSET (0..n) /\ (S = {} <=> a = n)
  OBVIOUS
<1>2. F \subseteq S /\ (S # {} => F # {}) /\ \A b \in F : \A c \in S : c <= b => c \in F
  <2> HIDE DEF S
  <2> QED BY <1>1, FirstOfSome
<1>3. CASE a = n
  <2>1. F = {} /\ (a + 1)..a = {}
    BY <1>1, <1>2, <1>3
  <2> HIDE DEF F
  <2>2. F = (a + 1)..a /\ a \in a..n
    BY <2>1
  <2> QED BY <1>3, <2>2 DEF F
<1>4. CASE a # n
  <2>1. F # {} /\ F \in SUBSET (0..n)
    BY <1>1, <1>2, <1>4
  <2> HIDE DEF F
  <2>2. PICK m \in F : \A b \in F : b <= m
    BY <2>1, LastOfSome
  <2>3. m \in (a + 1)..n
    BY <1>2, <2>2
  <2>4. F = (a + 1)..m
    <3>1. ASSUME NEW b \in F PROVE b \in (a + 1)..m
      BY <1>2, <2>2, <2>3
    <3>2. ASSUME NEW b \in (a + 1)..m PROVE b \in F
      <4>1. b \in S /\ b <= m
        BY <2>3
      <4> HIDE DEF S
      <4> QED BY <1>2, <2>2, <4>1
    <3> QED BY <3>1, <3>2
  <2> QED BY <1>4, <2>3, <2>4 DEF F
<1> QED BY <1>3, <1>4

\* What a node without forks replies.
LEMMA LinearReplies ==
    ASSUME NodeInductive, Linear, NEW a \in Blocks
    PROVE  /\ VirtualChain = Blocks
           /\ \E m \in a..Len(blocks) :
                  /\ ChainAfter(a, 0) = (a + 1)..m /\ (m = a <=> a = Len(blocks))
                  /\ ChainAfter(a, 0) # {} => Max(ChainAfter(a, 0)) = m
           /\ \E m \in a..Len(blocks) :
                  /\ BodiesAfter(a) = (a + 1)..m /\ (m = a <=> a = Len(blocks))
                  /\ LastOf(a, BodiesAfter(a)) = m
<1>0. PICK n \in Nat : n = Len(blocks)
  BY DEF NodeInductive, Tree
<1>1. \A b \in 0..n : Past[b] = 1..b /\ Height(b) = b
  BY <1>0, LinearPaths
<1>2. sink = n /\ n \in 0..n /\ a \in 0..n /\ a \in 1..n /\ Blocks = 1..n
  BY <1>0 DEF Linear, Blocks
<1>3. VirtualChain = 1..n
  BY <1>1, <1>2 DEF VirtualChain
<1>4. ChainToDepth(0) = 1..n
  BY <1>1, <1>2, <1>3 DEF ChainToDepth, Depth
<1>5. (1..n) \ Past[a] = (a + 1)..n
  BY <1>1, <1>2
<1>6. {c \in Blocks : c > a \/ c \in VirtualChain \ Past[a]} = (a + 1)..n
  BY <1>2, <1>3, <1>5
<1>7. ASSUME NEW m \in a..n, (a + 1)..m # {} PROVE Max((a + 1)..m) = m
  <2>1. (a + 1)..m \in SUBSET (0..n)
    BY <1>2
  <2>2. PICK S : S = (a + 1)..m
    OBVIOUS
  <2>3. Max(S) \in S /\ \A b \in S : b <= Max(S)
    BY <1>7, <2>1, <2>2, LastOfSome
  <2>4. m \in S
    BY <1>2, <1>7, <2>2
  <2>5. PICK x \in (a + 1)..m : x = Max(S)
    BY <2>2, <2>3
  <2>6. m <= x
    BY <2>3, <2>4, <2>5
  <2> QED BY <1>2, <2>2, <2>5, <2>6
<1>8. \E m \in a..n : /\ ChainAfter(a, 0) = (a + 1)..m /\ (m = a <=> a = n)
                      /\ ChainAfter(a, 0) # {} => Max(ChainAfter(a, 0)) = m
  <2>1. ChainAfter(a, 0) = First((a + 1)..n, BatchSize)
    BY <1>4, <1>5 DEF ChainAfter
  <2>2. PICK m \in a..n : First((a + 1)..n, BatchSize) = (a + 1)..m /\ (m = a <=> a = n)
    BY <1>2, FirstAfter, NodeAssumption
  <2> QED BY <1>7, <2>1, <2>2
<1>9. \E m \in a..n : /\ BodiesAfter(a) = (a + 1)..m /\ (m = a <=> a = n)
                      /\ LastOf(a, BodiesAfter(a)) = m
  <2>1. BodiesAfter(a) = First((a + 1)..n, PageSize)
    BY <1>6 DEF BodiesAfter
  <2>2. PICK m \in a..n : First((a + 1)..n, PageSize) = (a + 1)..m /\ (m = a <=> a = n)
    BY <1>2, FirstAfter, NodeAssumption
  <2>3. (a + 1)..m = {} => m = a
    BY <1>2
  <2> QED BY <1>7, <2>1, <2>2, <2>3 DEF LastOf
<1> QED BY <1>0, <1>2, <1>3, <1>8, <1>9

LEMMA Stretches ==
    ASSUME NodeInductive, Linear
    PROVE  /\ \A a, b \in Blocks : AcceptedBetween(a, b) = Stretch(a, b)
           /\ \A a \in Nat : Stretch(a, a) = {}
           /\ \A a, b, c \in Nat : a <= b /\ b <= c =>
                  Stretch(a, c) = Stretch(a, b) \cup Stretch(b, c)
           /\ \A a, b \in Blocks : Stretch(a, b) \subseteq Txs
           /\ \A a, b \in Blocks : \A tx \in Stretch(a, b) : AcceptedOn(VirtualChain, tx)
<1>0. PICK n \in Nat : n = Len(blocks) /\ Blocks = 1..n
  BY DEF NodeInductive, Tree, Blocks
<1>1. ASSUME NEW a \in Blocks, NEW b \in Blocks PROVE AcceptedBetween(a, b) = Stretch(a, b)
  <2>1. Past[a] = 1..a /\ Past[b] = 1..b
    BY <1>0, LinearPaths
  <2>2. (1..b) \ (1..a) = (a + 1)..b
    BY <1>0
  <2> QED BY <2>1, <2>2 DEF AcceptedBetween, Stretch
<1>2. ASSUME NEW a \in Nat PROVE Stretch(a, a) = {}
  <2>1. (a + 1)..a = {}
    OBVIOUS
  <2> QED BY <2>1 DEF Stretch
<1>3. ASSUME NEW a \in Nat, NEW b \in Nat, NEW c \in Nat, a <= b, b <= c
      PROVE  Stretch(a, c) = Stretch(a, b) \cup Stretch(b, c)
  <2>1. (a + 1)..c = ((a + 1)..b) \cup ((b + 1)..c)
    BY <1>3
  <2> QED BY <2>1 DEF Stretch
<1>4. ASSUME NEW a \in Blocks, NEW b \in Blocks, NEW tx \in Stretch(a, b)
      PROVE  tx \in Txs /\ AcceptedOn(VirtualChain, tx)
  <2>1. PICK c \in (a + 1)..b : tx \in blocks[c].txs
    BY DEF Stretch
  <2>2. c \in Blocks
    BY <1>0
  <2>3. VirtualChain = Blocks /\ blocks[c].txs \subseteq Txs
    BY <2>2, LinearReplies, NodeTypes DEF NodeTypeOK
  <2> QED BY <2>1, <2>2, <2>3 DEF AcceptedOn
<1> QED BY <1>1, <1>2, <1>3, <1>4

----------------------------------------------------------------------------
(* What a scan holds *)

\* Payloads that hold every escrow of a stretch, and none from before it.
Covers(payloads, a, b) ==
    /\ Stretch(a, b) \cap Escrows \subseteq payloads
    /\ payloads \subseteq Stretch(a, Len(blocks))

Files == [leaves : SUBSET Txs, defaulted : SUBSET {Rep[e] : e \in Escrows},
          escrows : SUBSET Escrows, end : Nat, complete : BOOLEAN, from : Nat]

Kept == [leaves : SUBSET Txs, defaulted : SUBSET {Rep[e] : e \in Escrows},
         payloads : SUBSET Txs]

Builds == [at : {"accepting", "bodies"}, start : Nat, cursor : Nat, batches : Nat,
           accepted : SUBSET Txs, reached : BOOLEAN, low : Nat, kept : Kept,
           slashes : SUBSET Txs, from : Nat]

\* A file is the product of the stretch it names.
FileHolds(f) ==
    /\ f \in Files
    /\ f.from \in Blocks /\ f.end \in Blocks /\ f.from <= f.end
    /\ Cardinality(f.leaves) <= Capacity
    /\ f.leaves = Stretch(f.from, f.end)
    /\ f.defaulted = Defaults(f.leaves, f.leaves)
    /\ Covers(f.escrows, f.from, f.end)

\* So is a scan, of as much as it has read of the bodies.
ScanHolds(s) ==
    /\ s \in Builds /\ s.batches <= MaxBatches
    /\ s.from \in Blocks /\ s.start \in Blocks /\ s.low \in Blocks /\ s.cursor \in Blocks
    /\ s.from <= s.start /\ s.start <= s.low /\ s.low <= s.cursor
    /\ s.at = "accepting" => s.low = s.start
    /\ s.accepted = Stretch(s.start, s.cursor)
    /\ s.kept.leaves = Stretch(s.from, s.low)
    /\ s.slashes = Stretch(s.start, s.low) \cap Slashes
    /\ s.kept.defaulted = Defaults(Stretch(s.from, s.start), Stretch(s.from, s.start))
    /\ Covers(s.kept.payloads, s.from, s.low)

\* A slash comes after the escrow that it spends, wherever a scan began.
LEMMA SlashFollowsEscrow ==
    ASSUME NodeInductive, Linear, NEW a \in Blocks, NEW b \in Blocks,
           NEW tx \in Stretch(a, b), tx \in Slashes,
           Spends[tx] \in Stretch(a, Len(blocks))
    PROVE  Spends[tx] \in Stretch(a, b)
<1>0. PICK n \in Nat : n = Len(blocks) /\ Blocks = 1..n
  BY DEF NodeInductive, Tree, Blocks
<1>1. PICK t \in (a + 1)..b : tx \in blocks[t].txs
  BY DEF Stretch
<1>2. PICK c \in (a + 1)..n : Spends[tx] \in blocks[c].txs
  BY <1>0 DEF Stretch
<1>3. VirtualChain = 1..n /\ t \in 1..n /\ c \in 1..n /\ Past[t] = 1..t
  <2>1. t \in 1..n /\ t \in 0..n /\ c \in 1..n
    BY <1>0
  <2>2. VirtualChain = 1..n
    BY <1>0, LinearReplies
  <2>3. Past[t] = 1..t
    BY <1>0, <2>1, LinearPaths
  <2> QED BY <2>1, <2>2, <2>3
<1>4. Spends[tx] # NoTx
  BY NodeAssumption, AccumulatorAssumption
<1>5. PICK d \in 1..t : Spends[tx] \in blocks[d].txs
  BY <1>1, <1>3, <1>4, ChainIsLawful
<1>6. d = c
  <2>1. d \in VirtualChain /\ c \in VirtualChain
    BY <1>0, <1>3, <1>5
  <2> QED BY <1>2, <1>5, <2>1, ChainIsLawful
<1>7. c \in (a + 1)..b
  BY <1>0, <1>1, <1>2, <1>5, <1>6
<1> QED BY <1>2, <1>7 DEF Stretch

LEMMA DefaultsUnion ==
    /\ \A T, U, P : Defaults(T \cup U, P) = Defaults(T, P) \cup Defaults(U, P)
    /\ \A T, P : Defaults(T \cap Slashes, P) = Defaults(T, P)
    /\ \A T, P : Defaults(T, P) \in SUBSET {Rep[e] : e \in Escrows}
BY DEF Defaults, DefaultOf

\* Payloads from beyond a stretch add no default to it.
LEMMA DefaultsSettled ==
    ASSUME NodeInductive, Linear, NEW a \in Blocks, NEW b \in Blocks,
           NEW P, Covers(P, a, b), NEW T \in SUBSET Stretch(a, b)
    PROVE  Defaults(T, P) = Defaults(T, Stretch(a, b))
<1>1. ASSUME NEW tx \in T PROVE DefaultOf(tx, P) = DefaultOf(tx, Stretch(a, b))
  <2>1. CASE tx \in Slashes
    <3>1. Spends[tx] \in P \cap Escrows <=> Spends[tx] \in Stretch(a, b) \cap Escrows
      BY <2>1, SlashFollowsEscrow DEF Covers
    <3> QED BY <3>1 DEF DefaultOf
  <2>2. CASE tx \notin Slashes
    BY <2>2 DEF DefaultOf
  <2> QED BY <2>1, <2>2
<1> QED BY <1>1 DEF Defaults

Accumulated ==
    /\ NodeInductive /\ Linear
    /\ saved # NoFile => FileHolds(saved)
    /\ build # Idle => ScanHolds(build)

----------------------------------------------------------------------------
(* The steps *)

LEMMA AccumulatedInit == Init => Accumulated
<1> SUFFICES ASSUME Init PROVE Accumulated
  OBVIOUS
<1>1. NodeInductive
  BY NodeInitInductive DEF Init
<1>2. Linear
  BY DEF Init, NodeInit, Linear, Blocks, NoBlock
<1> QED BY <1>1, <1>2 DEF Init, Accumulated

\* Blocks that arrive leave what was accepted before them as it was.
LEMMA NodeMovesAccumulated ==
    ASSUME NoForks, Accumulated, NodeStep \/ UNCHANGED node, UNCHANGED <<build, saved>>
    PROVE  Accumulated'
<1>1. NodeStep \/ UNCHANGED <<blocks, sink, pruned>>
  BY DEF node
<1>2. NodeInductive' /\ Linear' /\ NodeGrows
  BY <1>1, NodeStepInductive, LinearNext DEF Accumulated
<1>3. PICK n \in Nat, m \in Nat : n = Len(blocks) /\ m = Len(blocks') /\ n <= m
  BY <1>2 DEF Accumulated, NodeInductive, Tree, NodeGrows
<1>4. Blocks = 1..n /\ Blocks' = 1..m /\ \A b \in 1..n : blocks'[b] = blocks[b]
  BY <1>2, <1>3 DEF NodeGrows, Blocks
<1>5. ASSUME NEW a \in Blocks, NEW b \in Blocks PROVE Stretch(a, b)' = Stretch(a, b)
  <2>1. \A c \in (a + 1)..b : blocks'[c] = blocks[c]
    BY <1>3, <1>4
  <2> QED BY <2>1 DEF Stretch
<1>6. ASSUME NEW a \in Blocks PROVE Stretch(a, n) \subseteq Stretch(a, m)'
  <2>1. \A c \in (a + 1)..n : blocks'[c] = blocks[c] /\ c \in (a + 1)..m
    BY <1>3, <1>4
  <2> QED BY <2>1 DEF Stretch
<1>7. ASSUME NEW a \in Blocks, NEW b \in Blocks, NEW P, Covers(P, a, b)
      PROVE  Covers(P, a, b)'
  BY <1>3, <1>5, <1>6, <1>7 DEF Covers
<1>8. \A b \in Blocks : b \in Blocks'
  BY <1>3, <1>4
<1>9. ASSUME NEW f, FileHolds(f) PROVE FileHolds(f)'
  BY <1>5, <1>7, <1>8, <1>9 DEF FileHolds, Files
<1>10. ASSUME NEW s, ScanHolds(s) PROVE ScanHolds(s)'
  BY <1>5, <1>7, <1>8, <1>10 DEF ScanHolds, Builds, Kept
<1> QED BY <1>2, <1>9, <1>10 DEF Accumulated

\* A step of the command, seen by the file and the scan alone.
LEMMA CommandAccumulated ==
    ASSUME Accumulated, UNCHANGED node,
           saved' = saved \/ FileHolds(saved'),
           build' = Idle \/ ScanHolds(build')
    PROVE  Accumulated'
<1>1. UNCHANGED <<blocks, sink, pruned>>
  BY DEF node
<1>2. NodeInductive' /\ Linear'
  BY <1>1, NodeStepInductive DEF Accumulated, Linear, Blocks
<1>3. saved' # NoFile => FileHolds(saved)'
  BY <1>1 DEF Accumulated, FileHolds, Files, Blocks, Stretch, Covers
<1>4. build' # Idle => ScanHolds(build)'
  BY <1>1 DEF Accumulated, ScanHolds, Builds, Kept, Blocks, Stretch, Covers
<1> QED BY <1>2, <1>3, <1>4 DEF Accumulated

\* A scan begins with what its start needs and nothing else.
LEMMA StartAccumulated ==
    ASSUME Accumulated, NEW from \in Blocks, NEW start \in Blocks, from <= start,
           NEW kept \in Kept, kept.leaves = Stretch(from, start),
           kept.defaulted = Defaults(kept.leaves, kept.leaves),
           Covers(kept.payloads, from, start),
           build' = Started(start, from, kept), UNCHANGED <<node, saved>>
    PROVE  Accumulated'
<1>1. start \in Nat /\ from \in Nat /\ Stretch(start, start) = {}
  BY Stretches DEF Accumulated, Blocks
<1>2. 0 <= MaxBatches
  BY AccumulatorAssumption
<1>3. PICK s : s = Started(start, from, kept)
  OBVIOUS
<1>4. s = [at |-> "accepting", start |-> start, cursor |-> start, batches |-> 0,
           accepted |-> {}, reached |-> FALSE, low |-> start, kept |-> kept,
           slashes |-> {}, from |-> from]
  BY <1>3 DEF Started
<1>5. s \in Builds
  BY <1>1, <1>4 DEF Builds
<1>6. ScanHolds(s)
  BY <1>1, <1>2, <1>4, <1>5 DEF ScanHolds
<1> QED BY <1>3, <1>6, CommandAccumulated

LEMMA RebuildAccumulated ==
    ASSUME Accumulated, NEW start \in Blocks, Rebuild(start)
    PROVE  Accumulated'
<1>1. start \in Nat /\ Stretch(start, start) = {}
  BY Stretches DEF Accumulated, Blocks
<1>2. Nothing \in Kept /\ Nothing.leaves = {} /\ Nothing.payloads = {} /\ Nothing.defaulted = {}
  BY DEF Nothing, Kept
<1>3. Defaults({}, {}) = {}
  BY DEF Defaults
<1>4. Covers({}, start, start)
  BY <1>1 DEF Covers
<1> QED BY <1>1, <1>2, <1>3, <1>4, StartAccumulated DEF Rebuild

LEMMA UpdateAccumulated ==
    ASSUME Accumulated, Update
    PROVE  Accumulated'
<1>1. FileHolds(saved)
  BY DEF Accumulated, Update
<1>2. PICK kept : kept = Carried(saved)
  OBVIOUS
<1>3. /\ kept = [leaves |-> saved.leaves, defaulted |-> saved.defaulted, payloads |-> saved.escrows]
      /\ saved.leaves \in SUBSET Txs /\ saved.escrows \in SUBSET Escrows
      /\ saved.defaulted \in SUBSET {Rep[e] : e \in Escrows}
  BY <1>1, <1>2 DEF Carried, FileHolds, Files
<1>4. kept \in Kept
  BY <1>3, AccumulatorAssumption DEF Kept
<1> QED BY <1>1, <1>2, <1>3, <1>4, StartAccumulated DEF Update, FileHolds

LEMMA FailAccumulated ==
    ASSUME Accumulated, Fail, UNCHANGED node
    PROVE  Accumulated'
BY CommandAccumulated DEF Fail

LEMMA AcceptAccumulated ==
    ASSUME Accumulated, AcceptBatch
    PROVE  Accumulated'
<1> DEFINE batch == ChainAfter(build.cursor, 0)
<1>0. PICK n \in Nat : n = Len(blocks) /\ Blocks = 1..n
  BY DEF Accumulated, NodeInductive, Tree, Blocks
<1>1. /\ build # Idle /\ build.at = "accepting" /\ ScanHolds(build) /\ UNCHANGED node
      /\ build \in Builds /\ build.cursor \in Blocks /\ build.batches \in Nat
  BY DEF Accumulated, AcceptBatch, ScanHolds, Builds
<1>2. CASE Fail
  BY <1>1, <1>2, FailAccumulated
<1>3. CASE /\ UNCHANGED saved
           /\ \/ build' = [build EXCEPT !.at = "bodies"]
              \/ build' = [build EXCEPT !.at = "bodies", !.reached = TRUE]
  <2>1. /\ build'.at = "bodies" /\ build'.start = build.start /\ build'.cursor = build.cursor
        /\ build'.batches = build.batches /\ build'.accepted = build.accepted
        /\ build'.low = build.low /\ build'.kept = build.kept /\ build'.slashes = build.slashes
        /\ build'.from = build.from /\ build' \in Builds
    BY <1>1, <1>3 DEF Builds
  <2>2. ScanHolds(build')
    BY <1>1, <2>1 DEF ScanHolds
  <2> QED BY <1>1, <1>3, <2>2, CommandAccumulated
<1>4. CASE /\ UNCHANGED saved /\ batch # {} /\ build.batches < MaxBatches
           /\ build' = [build EXCEPT
                          !.accepted = @ \cup UNION {blocks[b].txs : b \in batch},
                          !.cursor = Max(batch), !.batches = @ + 1]
  <2>1. PICK m \in build.cursor..n : batch = (build.cursor + 1)..m /\ Max(batch) = m
    BY <1>0, <1>1, <1>4, LinearReplies DEF Accumulated
  <2>2. UNION {blocks[b].txs : b \in batch} = Stretch(build.cursor, m)
    BY <2>1 DEF Stretch
  <2>3. m \in Blocks /\ m \in Nat /\ build.cursor <= m
    BY <1>0, <1>1, <2>1
  <2>4. build' = [build EXCEPT !.accepted = @ \cup Stretch(build.cursor, m), !.cursor = m,
                               !.batches = @ + 1]
    BY <1>4, <2>1, <2>2
  <2> HIDE DEF batch
  <2>5. Stretch(build.cursor, m) \in SUBSET Txs
    BY <1>1, <2>3, Stretches DEF Accumulated
  <2>6. build' = [at |-> "accepting", start |-> build.start, cursor |-> m,
                  batches |-> build.batches + 1,
                  accepted |-> build.accepted \cup Stretch(build.cursor, m),
                  reached |-> build.reached, low |-> build.low, kept |-> build.kept,
                  slashes |-> build.slashes, from |-> build.from]
    BY <1>1, <2>4 DEF Builds
  <2>7. build' \in Builds
    BY <1>1, <2>3, <2>5, <2>6 DEF Builds
  <2>8. build.batches + 1 <= MaxBatches
    BY <1>1, <1>4, AccumulatorAssumption
  <2>9. build.accepted \cup Stretch(build.cursor, m) = Stretch(build.start, m)
    <3>1. /\ build.start \in Nat /\ build.cursor \in Nat /\ build.start <= build.cursor
          /\ build.accepted = Stretch(build.start, build.cursor)
      BY <1>0, <1>1 DEF ScanHolds, Builds
    <3> QED BY <2>3, <3>1, Stretches DEF Accumulated
  <2>10. build.low <= m
    BY <1>1, <2>3 DEF ScanHolds, Builds
  <2>11. ScanHolds(build')
    BY <1>1, <2>3, <2>6, <2>7, <2>8, <2>9, <2>10 DEF ScanHolds
  <2> QED BY <1>1, <1>4, <2>11, CommandAccumulated
<1> QED BY <1>2, <1>3, <1>4 DEF AcceptBatch

\* A page adds what was accepted up to its end and in pass one: up to the end of
\* pass one, if the page goes further than that.
LEMMA ReadAccumulated ==
    ASSUME Accumulated, ReadBodies
    PROVE  Accumulated'
<1> DEFINE page == BodiesAfter(build.low)
           after == ReadPage(build, page)
           low == build.low
           cursor == build.cursor
           start == build.start
           from == build.from
           kept == build.kept
<1>0. PICK n \in Nat : n = Len(blocks) /\ Blocks = 1..n
  BY DEF Accumulated, NodeInductive, Tree, Blocks
<1>1. /\ build # Idle /\ build.at = "bodies" /\ ScanHolds(build) /\ UNCHANGED node
      /\ build \in Builds /\ NodeInductive /\ Linear
  BY DEF Accumulated, ReadBodies, ScanHolds
<1>2. CASE Fail
  BY <1>1, <1>2, FailAccumulated
<1>3. /\ from \in 1..n /\ start \in 1..n /\ low \in 1..n /\ cursor \in 1..n
      /\ from <= start /\ start <= low /\ low <= cursor
      /\ kept \in Kept
  BY <1>0, <1>1 DEF ScanHolds, Builds
<1>4. PICK m \in low..n : page = (low + 1)..m /\ (m = low <=> low = n) /\ LastOf(low, page) = m
  BY <1>0, <1>1, <1>3, LinearReplies
<1>5. m \in 1..n /\ m \in Nat /\ low <= m /\ m \in Blocks
  BY <1>0, <1>3, <1>4
<1>6. PICK bodies : bodies = Stretch(low, m)
  OBVIOUS
<1>7. after = [build EXCEPT !.kept.payloads = @ \cup bodies,
                            !.kept.leaves = @ \cup (bodies \cap build.accepted),
                            !.slashes = @ \cup (bodies \cap build.accepted \cap Slashes),
                            !.low = m]
  BY <1>4, <1>6 DEF ReadPage, Stretch
<1>8. PICK leaves, payloads, slashes :
          /\ leaves = kept.leaves \cup (bodies \cap build.accepted)
          /\ payloads = kept.payloads \cup bodies
          /\ slashes = build.slashes \cup (bodies \cap build.accepted \cap Slashes)
  OBVIOUS
<1> HIDE DEF after
<1>9. after = [at |-> "bodies", start |-> start, cursor |-> cursor, batches |-> build.batches,
               accepted |-> build.accepted, reached |-> build.reached, low |-> m,
               kept |-> [leaves |-> leaves, defaulted |-> kept.defaulted, payloads |-> payloads],
               slashes |-> slashes, from |-> from]
  <2>1. kept = [leaves |-> kept.leaves, defaulted |-> kept.defaulted, payloads |-> kept.payloads]
    BY <1>3 DEF Kept
  <2>2. [kept EXCEPT !.payloads = payloads, !.leaves = leaves]
        = [leaves |-> leaves, defaulted |-> kept.defaulted, payloads |-> payloads]
    <3>1. PICK r : r = [kept EXCEPT !.payloads = payloads, !.leaves = leaves]
      OBVIOUS
    <3>2. r = [leaves |-> leaves, defaulted |-> kept.defaulted, payloads |-> payloads]
      BY <1>3, <3>1 DEF Kept
    <3> QED BY <3>1, <3>2
  <2>3. after = [build EXCEPT !.kept = [kept EXCEPT !.payloads = payloads, !.leaves = leaves],
                              !.slashes = slashes, !.low = m]
    BY <1>1, <1>3, <1>7, <1>8 DEF Builds, Kept
  <2> QED BY <1>1, <2>2, <2>3 DEF Builds
<1>10. /\ bodies \in SUBSET Txs /\ kept.leaves \in SUBSET Txs /\ kept.payloads \in SUBSET Txs
       /\ build.accepted \in SUBSET Txs /\ build.slashes \in SUBSET Txs
       /\ kept.defaulted \in SUBSET {Rep[e] : e \in Escrows}
  <2>1. bodies \in SUBSET Txs
    BY <1>0, <1>1, <1>3, <1>5, <1>6, Stretches
  <2> QED BY <1>1, <1>3, <2>1 DEF Builds, Kept
<1>11. /\ build.accepted = Stretch(start, cursor) /\ kept.leaves = Stretch(from, low)
       /\ build.slashes = Stretch(start, low) \cap Slashes
       /\ kept.defaulted = Defaults(Stretch(from, start), Stretch(from, start))
       /\ Covers(kept.payloads, from, low) /\ build.batches <= MaxBatches
  BY <1>1 DEF ScanHolds
<1>12. /\ \A a, b, c \in 1..n : a <= b /\ b <= c => Stretch(a, c) = Stretch(a, b) \cup Stretch(b, c)
       /\ n \in 1..n
  <2>1. \A a \in 1..n : a \in Nat
    OBVIOUS
  <2> QED BY <1>1, <1>3, <2>1, Stretches
<1>13. Covers(payloads, from, m)
  <2>1. Stretch(from, m) = Stretch(from, low) \cup bodies
    BY <1>3, <1>5, <1>6, <1>12
  <2>2. Stretch(from, m) \subseteq Stretch(from, Len(blocks))
    <3>1. from <= m /\ m <= n
      BY <1>3, <1>5
    <3> QED BY <1>0, <1>3, <1>5, <1>12, <3>1
  <2> QED BY <1>8, <1>11, <2>1, <2>2 DEF Covers
<1>14. ASSUME ~Overflows(after), build.cursor \in page \cup {build.low} \/ after.low = build.low,
              saved' = Result(after), build' = Idle
       PROVE  Accumulated'
  <2>1. cursor <= m
    <3>1. cursor \in page => cursor <= m
      BY <1>3, <1>4
    <3>2. after.low = low => low = n
      BY <1>4, <1>9
    <3> QED BY <1>3, <1>5, <1>14, <3>1, <3>2
  <2>2. /\ bodies = Stretch(low, cursor) \cup Stretch(cursor, m)
        /\ Stretch(start, cursor) = Stretch(start, low) \cup Stretch(low, cursor)
        /\ Stretch(from, cursor) = Stretch(from, low) \cup Stretch(low, cursor)
        /\ Stretch(from, cursor) = Stretch(from, start) \cup Stretch(start, cursor)
        /\ Stretch(from, m) = Stretch(from, cursor) \cup Stretch(cursor, m)
    <3>1. from <= cursor /\ start <= cursor /\ from <= low
      BY <1>3
    <3> QED BY <1>3, <1>5, <1>6, <1>12, <2>1, <3>1
  <2>3. leaves = Stretch(from, cursor)
    BY <1>8, <1>11, <2>2
  <2>4. slashes = Stretch(start, cursor) \cap Slashes
    BY <1>8, <1>11, <2>2
  <2>5. Covers(payloads, from, cursor)
    BY <1>13, <2>2 DEF Covers
  <2>6. kept.defaulted \cup Defaults(slashes, payloads) = Defaults(leaves, leaves)
    <3>1. Covers(Stretch(from, cursor), from, start)
      <4>1. Stretch(from, cursor) \subseteq Stretch(from, Len(blocks))
        BY <1>0, <1>3, <1>12
      <4> QED BY <2>2, <4>1 DEF Covers
    <3>2. kept.defaulted = Defaults(Stretch(from, start), Stretch(from, cursor))
      <4>1. Stretch(from, start) \in SUBSET Stretch(from, start)
        OBVIOUS
      <4> QED BY <1>0, <1>1, <1>3, <1>11, <3>1, <4>1, DefaultsSettled
    <3>3. Defaults(slashes, payloads) = Defaults(Stretch(start, cursor), payloads)
      BY <2>4, DefaultsUnion
    <3>4. Defaults(Stretch(start, cursor), payloads)
          = Defaults(Stretch(start, cursor), Stretch(from, cursor))
      <4>1. Stretch(start, cursor) \in SUBSET Stretch(from, cursor)
        BY <2>2
      <4> QED BY <1>0, <1>1, <1>3, <2>5, <4>1, DefaultsSettled
    <3>5. Defaults(Stretch(from, start) \cup Stretch(start, cursor), Stretch(from, cursor))
          = Defaults(Stretch(from, start), Stretch(from, cursor))
            \cup Defaults(Stretch(start, cursor), Stretch(from, cursor))
      BY DefaultsUnion
    <3> QED BY <2>2, <2>3, <3>2, <3>3, <3>4, <3>5
  <2>7. PICK f : f = Result(after)
    OBVIOUS
  <2>8. f = [leaves |-> leaves, defaulted |-> kept.defaulted \cup Defaults(slashes, payloads),
             escrows |-> payloads \cap Escrows, end |-> cursor,
             complete |-> build.reached, from |-> from]
    BY <1>9, <2>7 DEF Result
  <2>9. f \in Files
    <3>1. leaves \in SUBSET Txs /\ payloads \cap Escrows \in SUBSET Escrows
      BY <1>8, <1>10
    <3>2. kept.defaulted \cup Defaults(slashes, payloads) \in SUBSET {Rep[e] : e \in Escrows}
      BY <1>10, DefaultsUnion
    <3>3. cursor \in Nat /\ from \in Nat /\ build.reached \in BOOLEAN
      BY <1>1, <1>3 DEF Builds
    <3> QED BY <2>8, <3>1, <3>2, <3>3 DEF Files
  <2>10. Cardinality(leaves) <= Capacity
    <3>1. after.kept.leaves = leaves
      BY <1>9
    <3>2. Cardinality(leaves) \in Nat
      BY <1>8, <1>10, FS_Subset, FS_CardinalityType, AccumulatorAssumption
    <3> QED BY <1>14, <3>1, <3>2, AccumulatorAssumption DEF Overflows
  <2>11. Covers(payloads \cap Escrows, from, cursor)
    BY <2>5 DEF Covers
  <2>12. from <= cursor
    BY <1>3
  <2>13. FileHolds(f)
    BY <1>0, <1>3, <2>3, <2>6, <2>8, <2>9, <2>10, <2>11, <2>12 DEF FileHolds
  <2> QED BY <1>1, <1>14, <2>7, <2>13, CommandAccumulated
<1>15. ASSUME build.cursor \notin page \cup {build.low},
              build' = after, UNCHANGED saved
       PROVE  Accumulated'
  <2>1. m <= cursor
    BY <1>3, <1>4, <1>5, <1>15
  <2>2. /\ Stretch(start, cursor) = Stretch(start, m) \cup Stretch(m, cursor)
        /\ Stretch(start, m) = Stretch(start, low) \cup bodies
        /\ Stretch(from, m) = Stretch(from, low) \cup bodies
    <3>1. from <= low /\ start <= m
      BY <1>3, <1>5
    <3> QED BY <1>3, <1>5, <1>6, <1>12, <2>1, <3>1
  <2>3. leaves = Stretch(from, m)
    BY <1>8, <1>11, <2>2
  <2>4. slashes = Stretch(start, m) \cap Slashes
    BY <1>8, <1>11, <2>2
  <2>5. after \in Builds
    <3>1. /\ leaves \in SUBSET Txs /\ payloads \in SUBSET Txs /\ slashes \in SUBSET Txs
      BY <1>8, <1>10
    <3>2. [leaves |-> leaves, defaulted |-> kept.defaulted, payloads |-> payloads] \in Kept
      BY <1>10, <3>1 DEF Kept
    <3>3. /\ start \in Nat /\ cursor \in Nat /\ from \in Nat /\ build.batches \in Nat
          /\ build.reached \in BOOLEAN
      BY <1>1, <1>3 DEF Builds
    <3> QED BY <1>5, <1>9, <1>10, <3>1, <3>2, <3>3 DEF Builds
  <2>6. start <= m
    BY <1>3, <1>5
  <2>7. ScanHolds(after)
    BY <1>0, <1>3, <1>5, <1>9, <1>11, <1>13, <2>1, <2>3, <2>4, <2>5, <2>6 DEF ScanHolds
  <2> QED BY <1>1, <1>15, <2>7, CommandAccumulated
<1> QED BY <1>2, <1>14, <1>15 DEF ReadBodies, after

LEMMA AccumulatedNext == NoForks /\ Accumulated /\ [Next]_vars => Accumulated'
<1> SUFFICES ASSUME NoForks, Accumulated, [Next]_vars PROVE Accumulated'
  OBVIOUS
<1>1. CASE NodeMoves \/ UNCHANGED vars
  BY <1>1, NodeMovesAccumulated DEF NodeMoves, vars
<1> QED BY <1>1, RebuildAccumulated, UpdateAccumulated, AcceptAccumulated, ReadAccumulated
        DEF Next

LEMMA AlwaysAccumulated ==
    ASSUME NoForks
    PROVE  Spec => []Accumulated
<1>1. Accumulated /\ [Next]_vars => Accumulated'
  BY AccumulatedNext
<1> QED BY <1>1, AccumulatedInit, PTL DEF Spec

----------------------------------------------------------------------------
(* The theorems *)

\* Every value has its type, and a saved scan fits the tree.
THEOREM AccumulatorTypeCorrect ==
    ASSUME NoForks
    PROVE  Spec => []TypeOK
<1>1. ASSUME Accumulated PROVE TypeOK
  <2>1. NodeTypeOK
    BY <1>1, NodeTypes DEF Accumulated
  <2>2. ASSUME saved # NoFile PROVE saved \in Scans /\ Cardinality(saved.leaves) <= Capacity
    <3>1. FileHolds(saved)
      BY <1>1, <2>2 DEF Accumulated
    <3> QED BY <3>1 DEF FileHolds, Files, Scans
  <2>3. ASSUME build # Idle
        PROVE  /\ build.at \in {"accepting", "bodies"}
               /\ {build.start, build.cursor, build.low} \subseteq Blocks
               /\ build.batches \in 0..MaxBatches
               /\ build.accepted \cup build.slashes \cup build.kept.leaves \subseteq Txs
    <3>1. ScanHolds(build)
      BY <1>1, <2>3 DEF Accumulated
    <3> QED BY <3>1, AccumulatorAssumption DEF ScanHolds, Builds, Kept
  <2> QED BY <2>1, <2>2, <2>3 DEF TypeOK
<1>2. Accumulated => TypeOK
  BY <1>1
<1> QED BY <1>2, AlwaysAccumulated, PTL

\* A saved scan is what one scan of its stretch would have found, however many
\* updates it took and whatever arrived between them.
THEOREM UpdatesAddUp ==
    ASSUME NoForks
    PROVE  Spec => []UpdatesEqualRebuild
<1>1. ASSUME Accumulated PROVE UpdatesEqualRebuild
  <2>1. ASSUME saved # NoFile
        PROVE  /\ FileHolds(saved)
               /\ AcceptedBetween(saved.from, saved.end) = Stretch(saved.from, saved.end)
    <3>1. FileHolds(saved)
      BY <1>1, <2>1 DEF Accumulated
    <3> QED BY <1>1, <3>1, Stretches DEF Accumulated, FileHolds
  <2> QED BY <2>1 DEF UpdatesEqualRebuild, FileHolds
<1>2. Accumulated => UpdatesEqualRebuild
  BY <1>1
<1> QED BY <1>2, AlwaysAccumulated, PTL

LEMMA VerdictsFollow == Accumulated => MarketFollowsChain
<1> SUFFICES ASSUME Accumulated, saved # NoFile PROVE MarketFollowsChain
  BY DEF MarketFollowsChain
<1> DEFINE window == AcceptedBetween(saved.from, saved.end)
           slashed == {tx \in Slashes : AcceptedOn(VirtualChain, tx)}
<1>1. /\ saved.leaves = window /\ saved.defaulted = Defaults(window, window)
      /\ \A tx \in window : AcceptedOn(VirtualChain, tx)
  BY Stretches DEF Accumulated, FileHolds
<1> HIDE DEF window
<1>2. \A tx \in Txs : IsAnchored(saved, tx) = "true" => AcceptedOn(VirtualChain, tx)
  BY <1>1 DEF IsAnchored
<1>3. ASSUME NEW e \in Escrows, CovenantWitnessed(saved, Rep[e]) = "true"
      PROVE  \E tx \in slashed : Rep[Spends[tx]] = Rep[e]
  <2>1. Rep[e] \in Defaults(window, window)
    BY <1>1, <1>3 DEF CovenantWitnessed
  <2>2. PICK tx \in window : Rep[e] \in DefaultOf(tx, window)
    BY <2>1 DEF Defaults
  <2>3. tx \in Slashes /\ Rep[Spends[tx]] = Rep[e]
    BY <2>2 DEF DefaultOf
  <2> QED BY <1>1, <2>2, <2>3
<1>4. ASSUME NEW tx \in slashed, {tx, Spends[tx]} \subseteq window
      PROVE  CovenantWitnessed(saved, Rep[Spends[tx]]) = "true"
  <2>1. Spends[tx] \in Escrows
    BY AccumulatorAssumption
  <2>2. Rep[Spends[tx]] \in DefaultOf(tx, window)
    BY <1>4, <2>1 DEF DefaultOf
  <2>3. Rep[Spends[tx]] \in Defaults(window, window)
    BY <1>4, <2>2 DEF Defaults
  <2> QED BY <1>1, <2>3 DEF CovenantWitnessed
<1> QED BY <1>2, <1>3, <1>4 DEF MarketFollowsChain, window

\* What the market takes from a saved scan is so on the chain.
THEOREM VerdictsFollowChain ==
    ASSUME NoForks
    PROVE  Spec => []MarketFollowsChain
<1> QED BY VerdictsFollow, AlwaysAccumulated, PTL

LEMMA ListingsAreTrue == Accumulated => RecordsAreTrue
<1> SUFFICES ASSUME Accumulated, saved # NoFile PROVE RecordsAreTrue
  BY DEF RecordsAreTrue
<1> DEFINE window == AcceptedBetween(saved.from, saved.end)
<1>1. /\ saved.leaves = window /\ MarketFollowsChain
      /\ \A tx \in window : tx \in Txs /\ AcceptedOn(VirtualChain, tx)
  BY VerdictsFollow, Stretches DEF Accumulated, FileHolds
<1>2. ASSUME NEW seller \in Sellers, NEW chain \in Chains(seller)
      PROVE  LET listing == Assess(seller, chain)
                 entries == {chain[i] : i \in DOMAIN chain}
             IN  /\ listing.status = "verified" =>
                        \A entry \in entries :
                            /\ AcceptedOn(VirtualChain, entry)
                            /\ IsDefault(entry) => Rep[Spends[entry]] = seller
                 /\ (\A entry \in entries :
                         /\ entry \in window
                         /\ IsDefault(entry) => Spends[entry] \in window)
                    => listing = Listing("verified", Score(chain))
                 /\ (\E entry \in entries : ~AcceptedOn(VirtualChain, entry))
                    => RanksBefore(Assess(seller, NoChain), listing)
  <2> DEFINE listing == Assess(seller, chain)
             entries == {chain[i] : i \in DOMAIN chain}
  <2>1. chain # NoChain
    BY NoChainAssumption
  <2>2. /\ VerifyAnchored(seller, chain) => listing = Listing("verified", Score(chain))
        /\ ~VerifyAnchored(seller, chain) => listing = Listing("unverified", NoScore)
    BY <2>1 DEF Assess
  <2>3. listing.status = "verified" <=> VerifyAnchored(seller, chain)
    BY <2>2 DEF Listing
  <2>4. \A i \in DOMAIN chain : chain[i] \in Own(seller)
    BY DEF Chains
  <2>5. ASSUME NEW entry \in entries, IsDefault(entry)
        PROVE  Rep[Spends[entry]] = seller /\ entry \in Slashes
    <3>1. entry \in Slashes /\ entry \in Txs /\ entry \in Own(seller)
      BY <2>4, <2>5, AccumulatorAssumption DEF IsDefault
    <3>2. Earned[entry] = seller
      BY <3>1, MarketAssumption DEF Own
    <3> QED BY <3>1, <3>2, MarketAssumption
  <2>6. VerifyAnchored(seller, chain) => \A entry \in entries : AcceptedOn(VirtualChain, entry)
    BY <1>1 DEF VerifyAnchored, IsAnchored
  <2>7. ASSUME \A entry \in entries : /\ entry \in window
                                      /\ IsDefault(entry) => Spends[entry] \in window
        PROVE  VerifyAnchored(seller, chain)
    <3>1. ASSUME NEW i \in DOMAIN chain
          PROVE  /\ IsAnchored(saved, chain[i]) = "true"
                 /\ IsDefault(chain[i]) => CovenantWitnessed(saved, seller) = "true"
      <4>1. PICK entry \in entries : entry = chain[i]
        OBVIOUS
      <4>2. entry \in window /\ AcceptedOn(VirtualChain, entry)
        BY <1>1, <2>7, <4>1
      <4>3. IsAnchored(saved, entry) = "true"
        BY <1>1, <4>2 DEF IsAnchored
      <4>4. ASSUME IsDefault(entry) PROVE CovenantWitnessed(saved, seller) = "true"
        <5>1. /\ entry \in Slashes /\ AcceptedOn(VirtualChain, entry)
              /\ {entry, Spends[entry]} \subseteq window /\ Rep[Spends[entry]] = seller
          BY <2>5, <2>7, <4>2, <4>4
        <5> QED BY <1>1, <5>1 DEF MarketFollowsChain
      <4> QED BY <4>1, <4>3, <4>4
    <3> QED BY <3>1 DEF VerifyAnchored
  <2>8. ASSUME ~VerifyAnchored(seller, chain)
        PROVE  RanksBefore(Assess(seller, NoChain), listing)
    <3>1. Assess(seller, NoChain).status = "no_record" /\ listing.status = "unverified"
      BY <2>2, <2>8 DEF Assess, Listing
    <3>2. Place("no_record") = 1 /\ Place("unverified") = 2
      BY DEF Place
    <3> QED BY <3>1, <3>2 DEF RanksBefore
  <2> QED BY <2>2, <2>3, <2>5, <2>6, <2>7, <2>8
<1> QED BY <1>2 DEF RecordsAreTrue

\* The market page shows what the chain supports, of every seller and every
\* chain it may put in its offer.
THEOREM RecordsShownAreTrue ==
    ASSUME NoForks
    PROVE  Spec => []RecordsAreTrue
<1> QED BY ListingsAreTrue, AlwaysAccumulated, PTL

----------------------------------------------------------------------------
(* Powers of two, and indices into a tree *)

\* What powers of two are: the sizes of sets of subsets.
LEMMA PowersOfTwo ==
    /\ 2^0 = 1
    /\ \A n \in Nat : 2^n \in Nat /\ 2^n > 0 /\ 2^(n + 1) = 2 * 2^n
<1>1. ASSUME NEW n \in Nat
      PROVE  IsFiniteSet(SUBSET (1..n)) /\ Cardinality(SUBSET (1..n)) = 2^n /\ 2^n \in Nat
  <2>1. IsFiniteSet(1..n) /\ Cardinality(1..n) = n
    BY FS_Interval
  <2>2. IsFiniteSet(SUBSET (1..n)) /\ Cardinality(SUBSET (1..n)) = 2^n
    BY <2>1, FS_SUBSET
  <2> QED BY <2>2, FS_CardinalityType
<1>2. ASSUME NEW n \in Nat PROVE 2^n > 0
  <2>1. SUBSET (1..n) # {}
    OBVIOUS
  <2>2. PICK p \in Nat : p = 2^n
    BY <1>1
  <2>3. p # 0
    BY <1>1, <2>1, <2>2, FS_EmptySet
  <2> QED BY <2>2, <2>3
<1>3. 2^0 = 1
  <2>1. SUBSET (1..0) = {{}}
    OBVIOUS
  <2> QED BY <1>1, <2>1, FS_Singleton
<1>4. ASSUME NEW n \in Nat PROVE 2^(n + 1) = 2 * 2^n
  <2>1. PICK p \in Nat : p = 2^n
    BY <1>1
  <2> DEFINE old == SUBSET (1..n)
             new == {s \cup {n + 1} : s \in old}
             f == [s \in old |-> s \cup {n + 1}]
  <2>2. SUBSET (1..(n + 1)) = old \cup new
    <3>1. ASSUME NEW s \in SUBSET (1..(n + 1)), n + 1 \in s PROVE s \in new
      <4>1. s \ {n + 1} \in old /\ s = (s \ {n + 1}) \cup {n + 1}
        BY <3>1
      <4> QED BY <4>1
    <3>2. ASSUME NEW s \in SUBSET (1..(n + 1)), n + 1 \notin s PROVE s \in old
      BY <3>2
    <3>3. \A s \in old : s \cup {n + 1} \in SUBSET (1..(n + 1)) /\ s \in SUBSET (1..(n + 1))
      OBVIOUS
    <3>4. ASSUME NEW s \in SUBSET (1..(n + 1)) PROVE s \in old \cup new
      <4>1. CASE n + 1 \in s
        BY <3>1, <4>1
      <4>2. CASE n + 1 \notin s
        BY <3>2, <4>2
      <4> QED BY <4>1, <4>2
    <3>5. ASSUME NEW s \in old \cup new PROVE s \in SUBSET (1..(n + 1))
      BY <3>3
    <3> HIDE DEF old, new
    <3> QED BY <3>4, <3>5
  <2>3. old \cap new = {}
    BY n + 1 \notin 1..n
  <2>4. f \in Bijection(old, new)
    <3>1. f \in [old -> new] /\ \A t \in new : \E s \in old : f[s] = t
      OBVIOUS
    <3>2. ASSUME NEW s \in old, NEW t \in old, f[s] = f[t] PROVE s = t
      <4>1. n + 1 \notin s /\ n + 1 \notin t
        OBVIOUS
      <4> QED BY <3>2, <4>1
    <3> HIDE DEF old, new, f
    <3> QED BY <3>1, <3>2 DEF Bijection, Injection, Surjection, IsInjective
  <2>5. IsFiniteSet(old) /\ Cardinality(old) = p
    BY <1>1, <2>1
  <2>6. IsFiniteSet(new) /\ Cardinality(new) = p
    <3> HIDE DEF old, new, f
    <3>1. ExistsBijection(old, new)
      BY <2>4 DEF ExistsBijection
    <3> QED BY <2>5, <3>1, FS_Bijection
  <2>7. Cardinality(old \cup new) = 2 * p
    <3> HIDE DEF old, new, f
    <3>1. Cardinality({}) = 0
      BY FS_EmptySet
    <3> QED BY <2>3, <2>5, <2>6, <3>1, FS_Union
  <2>8. Cardinality(SUBSET (1..(n + 1))) = 2^(n + 1)
    <3>1. n + 1 \in Nat
      OBVIOUS
    <3> QED BY <3>1, <1>1
  <2> QED BY <2>1, <2>2, <2>7, <2>8
<1> QED BY <1>1, <1>2, <1>3, <1>4

\* Halving and halving again is quartering, and so on.
LEMMA HalfOfQuotient ==
    ASSUME NEW x \in Nat, NEW y \in Nat, y > 0
    PROVE  x \div (2 * y) = (x \div y) \div 2
<1>1. PICK q \in Nat : q = x \div y /\ q * y <= x /\ x < q * y + y
  OBVIOUS
<1>2. PICK r \in Nat : r = q \div 2 /\ (q = 2 * r \/ q = 2 * r + 1)
  OBVIOUS
<1>3. r * (2 * y) <= x /\ x < r * (2 * y) + 2 * y
  BY <1>1, <1>2
<1>4. x \div (2 * y) = r
  BY <1>3
<1> QED BY <1>1, <1>2, <1>4

\* The index of a slot and those of the nodes above it.
LEMMA UpHalves ==
    ASSUME NEW x \in Nat, NEW h \in Nat
    PROVE  /\ Up(x, 0) = x
           /\ Up(x, h) \in Nat
           /\ Up(x, h + 1) = Up(x, h) \div 2
           /\ IsRight(x, h) => Up(x, h) = 2 * Up(x, h + 1) + 1
           /\ ~IsRight(x, h) => Up(x, h) = 2 * Up(x, h + 1)
           /\ x < 2^h => Up(x, h) = 0
<1>1. PICK y \in Nat : y = 2^h /\ y > 0 /\ 2^(h + 1) = 2 * y /\ 2^0 = 1
  BY PowersOfTwo
<1>2. Up(x, 0) = x
  BY <1>1 DEF Up
<1>3. x \div y \in Nat
  BY <1>1
<1>4. Up(x, h + 1) = Up(x, h) \div 2
  BY <1>1, HalfOfQuotient DEF Up
<1>5. ASSUME x < 2^h PROVE x \div y = 0
  BY <1>1, <1>5
<1>6. PICK q \in Nat : q = Up(x, h)
  BY <1>1, <1>3 DEF Up
<1>7. IsRight(x, h) <=> q % 2 = 1
  BY <1>6 DEF IsRight
<1>8. /\ q % 2 = 1 => q = 2 * (q \div 2) + 1
      /\ q % 2 # 1 => q = 2 * (q \div 2)
  OBVIOUS
<1> QED BY <1>1, <1>2, <1>4, <1>5, <1>6, <1>7, <1>8 DEF Up

\* At the leaves an index is the slot's own.
LEMMA UpFromLeaf ==
    ASSUME NEW x \in Nat
    PROVE  Up(x, 0) = x
BY UpHalves, 0 \in Nat

\* Indices are numbers on every level.
LEMMA UpIsIndex ==
    ASSUME NEW x \in Nat, NEW h \in Nat
    PROVE  Up(x, h) \in Nat
BY UpHalves

\* A node is the left or the right child of the one above it.
LEMMA UpParent ==
    ASSUME NEW x \in Nat, NEW h \in Nat
    PROVE  /\ IsRight(x, h) => Up(x, h) = 2 * Up(x, h + 1) + 1
           /\ ~IsRight(x, h) => Up(x, h) = 2 * Up(x, h + 1)
BY UpHalves

\* Every slot is below the root.
LEMMA UpAtRoot ==
    ASSUME NEW x \in Nat, NEW h \in Nat, x < 2^h
    PROVE  Up(x, h) = 0
BY UpHalves

----------------------------------------------------------------------------
(* Hashes, and induction over the levels of a tree *)

\* A hash says what was hashed, and whether it was a leaf, a node or nothing.
LEMMA HashesDiffer ==
    /\ \A l, r, m, s : HashNode(l, r) = HashNode(m, s) => l = m /\ r = s
    /\ \A v, w : HashLeaf(v) = HashLeaf(w) => v = w
    /\ \A l, r, v : HashNode(l, r) # HashLeaf(v) /\ HashNode(l, r) # Empty /\ HashLeaf(v) # Empty
BY DEF HashNode, HashLeaf, Empty

\* The induction that the recursive definitions below need.
LEMMA UpInduction ==
    ASSUME NEW n \in Nat, NEW S, 0 \in S, \A h \in 0..(n - 1) : h \in S => h + 1 \in S
    PROVE  \A h \in 0..n : h \in S
<1>1. ASSUME NEW h \in 0..n, \A k \in 0..(h - 1) : k \in S PROVE h \in S
  <2>1. CASE h = 0
    BY <2>1
  <2>2. CASE h # 0
    <3>1. h - 1 \in 0..(h - 1) /\ h - 1 \in 0..(n - 1) /\ (h - 1) + 1 = h
      BY <2>2
    <3> QED BY <1>1, <3>1
  <2> QED BY <2>1, <2>2
<1> QED BY <1>1, BlockInduction

\* And downwards.
LEMMA DownInduction ==
    ASSUME NEW n \in Nat, NEW S, n \in S, \A h \in 0..(n - 1) : h + 1 \in S => h \in S
    PROVE  \A h \in 0..n : h \in S
<1> DEFINE T == {k \in 0..n : n - k \in S}
<1>1. 0 \in T
  OBVIOUS
<1>2. ASSUME NEW k \in 0..(n - 1), k \in T PROVE k + 1 \in T
  <2>1. n - (k + 1) \in 0..(n - 1) /\ (n - (k + 1)) + 1 = n - k /\ n - k \in S /\ k + 1 \in 0..n
    BY <1>2
  <2>2. n - (k + 1) \in S
    BY <2>1
  <2> QED BY <2>1, <2>2
<1>3. \A k \in 0..n : k \in T
  <2> HIDE DEF T
  <2> QED BY <1>1, <1>2, UpInduction
<1>4. ASSUME NEW h \in 0..n PROVE h \in S
  <2>1. n - h \in 0..n /\ n - (n - h) = h
    OBVIOUS
  <2>2. n - h \in T
    BY <2>1, <1>3
  <2> QED BY <2>1, <2>2
<1> QED BY <1>4

----------------------------------------------------------------------------
(* The recursive definitions have the functions they describe *)

EmptyUpTo(f, n) ==
    f = [h \in 0..n |-> IF h = 0 THEN Empty ELSE HashNode(f[h - 1], f[h - 1])]

\* Empty subtrees of every height up to any.
LEMMA EmptiesExist ==
    ASSUME NEW n \in Nat
    PROVE  \E f : EmptyUpTo(f, n)
<1> DEFINE S == {k \in 0..n : \E f : EmptyUpTo(f, k)}
<1>1. 0 \in S
  <2> DEFINE f == [h \in 0..0 |-> Empty]
  <2>1. EmptyUpTo(f, 0)
    BY DEF EmptyUpTo
  <2> QED BY <2>1
<1>2. ASSUME NEW k \in 0..(n - 1), k \in S PROVE k + 1 \in S
  <2>1. PICK f : EmptyUpTo(f, k)
    BY <1>2
  <2> DEFINE g == [h \in 0..(k + 1) |-> IF h = k + 1 THEN HashNode(f[k], f[k]) ELSE f[h]]
  <2>2. ASSUME NEW h \in 0..(k + 1)
        PROVE  g[h] = IF h = 0 THEN Empty ELSE HashNode(g[h - 1], g[h - 1])
    <3>1. CASE h = k + 1
      BY <3>1
    <3>2. CASE h \in 0..k
      BY <2>1, <3>2 DEF EmptyUpTo
    <3> QED BY <3>1, <3>2
  <2>3. EmptyUpTo(g, k + 1)
    <3>1. g = [h \in 0..(k + 1) |-> g[h]]
      OBVIOUS
    <3> HIDE DEF g
    <3> QED BY <2>2, <3>1 DEF EmptyUpTo
  <2> QED BY <2>3
<1>3. \A k \in 0..n : k \in S
  <2> HIDE DEF S
  <2> QED BY <1>1, <1>2, UpInduction
<1> QED BY <1>3

\* Those of one height are those of a greater one.
LEMMA EmptiesAgree ==
    ASSUME NEW n \in Nat, NEW m \in Nat, n <= m, NEW f, EmptyUpTo(f, n), NEW g, EmptyUpTo(g, m)
    PROVE  \A h \in 0..n : f[h] = g[h]
<1> DEFINE S == {h \in 0..n : f[h] = g[h]}
<1>1. 0 \in S
  BY DEF EmptyUpTo
<1>2. ASSUME NEW h \in 0..(n - 1), h \in S PROVE h + 1 \in S
  <2>1. h + 1 \in 0..n /\ h + 1 \in 0..m /\ h + 1 # 0 /\ (h + 1) - 1 = h
    OBVIOUS
  <2> QED BY <1>2, <2>1 DEF EmptyUpTo
<1>3. \A h \in 0..n : h \in S
  <2> HIDE DEF S
  <2> QED BY <1>1, <1>2, UpInduction
<1> QED BY <1>3

\* empties: an empty subtree hashes two of half its size.
LEMMA EmptiesGrow ==
    /\ Empties[0] = Empty
    /\ \A h \in Nat : Empties[h + 1] = HashNode(Empties[h], Empties[h])
<1> DEFINE part(h) == CHOOSE f : EmptyUpTo(f, h)
           f == [h \in Nat |-> part(h)[h]]
<1>1. \A h \in Nat : EmptyUpTo(part(h), h)
  BY EmptiesExist
<1>2. ASSUME NEW h \in Nat
      PROVE  f[h] = IF h = 0 THEN Empty ELSE HashNode(f[h - 1], f[h - 1])
  <2>1. f[h] = part(h)[h]
    OBVIOUS
  <2>2. EmptyUpTo(part(h), h)
    BY <1>1
  <2>3. part(h)[h] = IF h = 0 THEN Empty ELSE HashNode(part(h)[h - 1], part(h)[h - 1])
    <3> HIDE DEF part
    <3> QED BY <2>2 DEF EmptyUpTo
  <2>4. ASSUME h # 0 PROVE part(h)[h - 1] = f[h - 1]
    <3>1. h - 1 \in Nat /\ h - 1 <= h /\ h - 1 \in 0..(h - 1)
      BY <2>4
    <3>2. EmptyUpTo(part(h - 1), h - 1)
      BY <1>1, <3>1
    <3>3. f[h - 1] = part(h - 1)[h - 1]
      BY <3>1
    <3> HIDE DEF part, f
    <3>4. part(h - 1)[h - 1] = part(h)[h - 1]
      BY <2>2, <3>1, <3>2, EmptiesAgree
    <3> QED BY <3>3, <3>4
  <2> HIDE DEF part, f
  <2> QED BY <2>1, <2>3, <2>4
<1>3. f = [h \in Nat |-> IF h = 0 THEN Empty ELSE HashNode(f[h - 1], f[h - 1])]
  <2>1. f = [h \in Nat |-> f[h]]
    OBVIOUS
  <2> HIDE DEF f
  <2> QED BY <1>2, <2>1
<1>4. Empties = [h \in Nat |-> IF h = 0 THEN Empty ELSE HashNode(Empties[h - 1], Empties[h - 1])]
  <2> HIDE DEF f
  <2> QED BY <1>3 DEF Empties
<1>5. ASSUME NEW h \in Nat PROVE Empties[h + 1] = HashNode(Empties[h], Empties[h])
  <2>1. h + 1 \in Nat /\ h + 1 # 0 /\ (h + 1) - 1 = h
    OBVIOUS
  <2> QED BY <1>4, <2>1
<1> QED BY <1>4, <1>5

\* The level above one, of subtrees of height h.
Above(level, h) ==
    LET next == NextLevel(level, Empties[h - 1])
    IN  IF next = <<>> THEN <<Empties[h]>> ELSE next

LeafHashes(values) == [i \in 1..Len(values) |-> HashLeaf(values[i])]

LevelsUpTo(f, values, n) ==
    f = [h \in 0..n |-> IF h = 0 THEN LeafHashes(values) ELSE Above(f[h - 1], h)]

\* Levels up to any height.
LEMMA LevelsExist ==
    ASSUME NEW n \in Nat, NEW values
    PROVE  \E f : LevelsUpTo(f, values, n)
<1> DEFINE S == {k \in 0..n : \E f : LevelsUpTo(f, values, k)}
<1>1. 0 \in S
  <2> DEFINE f == [h \in 0..0 |-> LeafHashes(values)]
  <2>1. LevelsUpTo(f, values, 0)
    BY DEF LevelsUpTo
  <2> QED BY <2>1
<1>2. ASSUME NEW k \in 0..(n - 1), k \in S PROVE k + 1 \in S
  <2>1. PICK f : LevelsUpTo(f, values, k)
    BY <1>2
  <2> DEFINE g == [h \in 0..(k + 1) |-> IF h = k + 1 THEN Above(f[k], k + 1) ELSE f[h]]
  <2>2. ASSUME NEW h \in 0..(k + 1)
        PROVE  g[h] = IF h = 0 THEN LeafHashes(values) ELSE Above(g[h - 1], h)
    <3>1. CASE h = k + 1
      BY <3>1
    <3>2. CASE h \in 0..k
      BY <2>1, <3>2 DEF LevelsUpTo
    <3> QED BY <3>1, <3>2
  <2>3. LevelsUpTo(g, values, k + 1)
    <3>1. g = [h \in 0..(k + 1) |-> g[h]]
      OBVIOUS
    <3> HIDE DEF g
    <3> QED BY <2>2, <3>1 DEF LevelsUpTo
  <2> QED BY <2>3
<1>3. \A k \in 0..n : k \in S
  <2> HIDE DEF S
  <2> QED BY <1>1, <1>2, UpInduction
<1> QED BY <1>3

\* build_fixed_depth: what Levels returns is made level by level.
LEMMA LevelsGrow ==
    ASSUME NEW depth \in Nat, NEW values
    PROVE  LevelsUpTo(Levels(values, depth), values, depth)
<1>1. PICK f : LevelsUpTo(f, values, depth)
  BY LevelsExist
<1> QED BY <1>1 DEF Levels, LevelsUpTo, Above, LeafHashes

WalkUpTo(f, leaf, path, n, index) ==
    f = [h \in 0..n |->
            IF h = 0 THEN leaf
            ELSE IF IsRight(index, h - 1) THEN HashNode(path[h - 1], f[h - 1])
                 ELSE HashNode(f[h - 1], path[h - 1])]

\* Walks of any length.
LEMMA WalksExist ==
    ASSUME NEW n \in Nat, NEW leaf, NEW path, NEW index
    PROVE  \E f : WalkUpTo(f, leaf, path, n, index)
<1> DEFINE S == {k \in 0..n : \E f : WalkUpTo(f, leaf, path, k, index)}
           Step(lower, h) == IF IsRight(index, h - 1) THEN HashNode(path[h - 1], lower)
                            ELSE HashNode(lower, path[h - 1])
<1>1. 0 \in S
  <2> DEFINE f == [h \in 0..0 |-> leaf]
  <2>1. WalkUpTo(f, leaf, path, 0, index)
    BY DEF WalkUpTo
  <2> QED BY <2>1
<1>2. ASSUME NEW k \in 0..(n - 1), k \in S PROVE k + 1 \in S
  <2>1. PICK f : WalkUpTo(f, leaf, path, k, index)
    BY <1>2
  <2> DEFINE g == [h \in 0..(k + 1) |-> IF h = k + 1 THEN Step(f[k], k + 1) ELSE f[h]]
  <2>2. ASSUME NEW h \in 0..(k + 1)
        PROVE  g[h] = IF h = 0 THEN leaf ELSE Step(g[h - 1], h)
    <3>1. CASE h = k + 1
      BY <3>1
    <3>2. CASE h \in 0..k
      <4>1. f[h] = IF h = 0 THEN leaf ELSE Step(f[h - 1], h)
        BY <2>1, <3>2 DEF WalkUpTo
      <4> QED BY <3>2, <4>1
    <3> QED BY <3>1, <3>2
  <2>3. WalkUpTo(g, leaf, path, k + 1, index)
    <3>1. g = [h \in 0..(k + 1) |-> g[h]]
      OBVIOUS
    <3> HIDE DEF g
    <3> QED BY <2>2, <3>1 DEF WalkUpTo
  <2> QED BY <2>3
<1>3. \A k \in 0..n : k \in S
  <2> HIDE DEF S
  <2> QED BY <1>1, <1>2, UpInduction
<1> QED BY <1>3

\* The nodes a walk goes through.
LEMMA WalkGoesUp ==
    ASSUME NEW depth \in Nat, NEW leaf, NEW path, NEW index
    PROVE  \E f : WalkUpTo(f, leaf, path, depth, index) /\ Walk(leaf, path, depth, index) = f[depth]
<1>1. PICK f : WalkUpTo(f, leaf, path, depth, index)
  BY WalksExist
<1>2. \E f1 : /\ WalkUpTo(f1, leaf, path, depth, index)
              /\ Walk(leaf, path, depth, index) = f1[depth]
  BY <1>1 DEF Walk, WalkUpTo
<1> QED BY <1>2

Taken(keys, height, prefix) == \E key \in keys : Up(key, height) = prefix

\* The subtrees of a height, from those one lower.
Joined(lower, keys, height) ==
    [prefix \in Nat |->
        IF ~Taken(keys, height, prefix) THEN Empties[height]
        ELSE IF height = 0 THEN HashLeaf(prefix)
        ELSE HashNode(lower[2 * prefix], lower[2 * prefix + 1])]

SubtreesUpTo(f, keys, n) == f = [height \in 0..n |-> Joined(f[height - 1], keys, height)]

\* Subtrees up to any height.
LEMMA SubtreesExist ==
    ASSUME NEW n \in Nat, NEW keys
    PROVE  \E f : SubtreesUpTo(f, keys, n)
<1> DEFINE S == {k \in 0..n : \E f : SubtreesUpTo(f, keys, k)}
<1>1. 0 \in S
  <2> DEFINE f == [height \in 0..0 |-> Joined(0, keys, 0)]
  <2>1. Joined(f[-1], keys, 0) = Joined(0, keys, 0)
    BY DEF Joined
  <2>2. SubtreesUpTo(f, keys, 0)
    BY <2>1 DEF SubtreesUpTo
  <2> QED BY <2>2
<1>2. ASSUME NEW k \in 0..(n - 1), k \in S PROVE k + 1 \in S
  <2>1. PICK f : SubtreesUpTo(f, keys, k)
    BY <1>2
  <2> DEFINE g == [h \in 0..(k + 1) |-> IF h = k + 1 THEN Joined(f[k], keys, k + 1) ELSE f[h]]
  <2>2. ASSUME NEW h \in 0..(k + 1) PROVE g[h] = Joined(g[h - 1], keys, h)
    <3>1. CASE h = k + 1
      BY <3>1
    <3>2. CASE h \in 1..k
      BY <2>1, <3>2 DEF SubtreesUpTo
    <3>3. CASE h = 0
      <4>1. g[0] = f[0] /\ f[0] = Joined(f[-1], keys, 0)
        BY <2>1 DEF SubtreesUpTo
      <4>2. Joined(f[-1], keys, 0) = Joined(g[-1], keys, 0)
        BY DEF Joined
      <4> QED BY <3>3, <4>1, <4>2
    <3> QED BY <3>1, <3>2, <3>3
  <2>3. SubtreesUpTo(g, keys, k + 1)
    <3>1. g = [h \in 0..(k + 1) |-> g[h]]
      OBVIOUS
    <3> HIDE DEF g
    <3> QED BY <2>2, <3>1 DEF SubtreesUpTo
  <2> QED BY <2>3
<1>3. \A k \in 0..n : k \in S
  <2> HIDE DEF S
  <2> QED BY <1>1, <1>2, UpInduction
<1> QED BY <1>3

\* What Subtree returns is made height by height.
LEMMA SubtreesGrow ==
    ASSUME NEW depth \in Nat, NEW keys
    PROVE  SubtreesUpTo(Subtree(keys, depth), keys, depth)
<1>1. PICK f : SubtreesUpTo(f, keys, depth)
  BY SubtreesExist
<1> QED BY <1>1 DEF Subtree, SubtreesUpTo, Joined, Taken

----------------------------------------------------------------------------
(* The tree of a list of values *)

IsList(s) == \E S : s \in Seq(S)

\* A level holds the pairs of the one below, the last perhaps with a filler.
Pairs(next, level, filler) ==
    /\ IsList(next)
    /\ Len(next) = (Len(level) + 1) \div 2
    /\ \A i \in 1..((Len(level) + 1) \div 2) :
          next[i] = HashNode(level[2 * i - 1], IF 2 * i <= Len(level) THEN level[2 * i] ELSE filler)

\* One level of build_fixed_depth.
LEMMA NextLevelPairs ==
    ASSUME NEW level, IsList(level), NEW filler
    PROVE  Pairs(NextLevel(level, filler), level, filler)
<1>1. PICK n \in Nat : n = (Len(level) + 1) \div 2
  BY DEF IsList
<1> DEFINE entry(i) == HashNode(level[2 * i - 1], IF 2 * i <= Len(level) THEN level[2 * i] ELSE filler)
           entries == {entry(i) : i \in 1..n}
           next == [i \in 1..n |-> entry(i)]
<1>2. next \in Seq(entries) /\ Len(next) = n /\ \A i \in 1..n : next[i] = entry(i)
  <2>1. next \in [1..n -> entries] /\ \A i \in 1..n : next[i] = entry(i)
    OBVIOUS
  <2> HIDE DEF entries, next, entry
  <2> QED BY <2>1
<1>3. next = NextLevel(level, filler)
  BY <1>1 DEF NextLevel
<1> QED BY <1>1, <1>2, <1>3 DEF IsList, Pairs

\* A level above another: of nothing an empty subtree, of anything its pairs.
LEMMA AboveIsList ==
    ASSUME NEW level, IsList(level), NEW h \in Nat \ {0}
    PROVE  /\ IsList(Above(level, h)) /\ Len(Above(level, h)) >= 1
           /\ Len(level) = 0 => Above(level, h) = <<Empties[h]>>
           /\ Len(level) > 0 => Above(level, h) = NextLevel(level, Empties[h - 1])
<1> DEFINE next == NextLevel(level, Empties[h - 1])
<1>1. PICK m \in Nat : m = Len(level)
  BY DEF IsList
<1>2. IsList(next) /\ Len(next) = (m + 1) \div 2
  BY <1>1, NextLevelPairs DEF Pairs
<1> HIDE DEF next
<1>3. next = <<>> <=> m = 0
  <2>1. Len(next) = 0 <=> m = 0
    BY <1>1, <1>2
  <2>2. next = <<>> <=> Len(next) = 0
    BY <1>2, EmptySeq DEF IsList
  <2> QED BY <2>1, <2>2
<1>4. Above(level, h) = IF m = 0 THEN <<Empties[h]>> ELSE next
  BY <1>3 DEF Above, next
<1>5. CASE m = 0
  <2>1. <<Empties[h]>> \in Seq({Empties[h]}) /\ Len(<<Empties[h]>>) = 1
    OBVIOUS
  <2>2. Above(level, h) = <<Empties[h]>>
    BY <1>4, <1>5
  <2>3. IsList(Above(level, h)) /\ Len(Above(level, h)) = 1
    BY <2>1, <2>2 DEF IsList
  <2> QED BY <1>1, <1>5, <2>2, <2>3
<1>6. CASE m > 0
  BY <1>1, <1>2, <1>4, <1>6 DEF next
<1> QED BY <1>1, <1>5, <1>6

\* The lowest level hashes the values, in their order.
LEMMA LeafHashesAreList ==
    ASSUME NEW values, IsList(values)
    PROVE  /\ IsList(LeafHashes(values)) /\ Len(LeafHashes(values)) = Len(values)
           /\ \A i \in 1..Len(values) : LeafHashes(values)[i] = HashLeaf(values[i])
<1>1. PICK n \in Nat : n = Len(values)
  BY DEF IsList
<1> DEFINE entries == {HashLeaf(values[i]) : i \in 1..n}
<1>2. LeafHashes(values) \in [1..n -> entries] /\ \A i \in 1..n : LeafHashes(values)[i] = HashLeaf(values[i])
  BY <1>1 DEF LeafHashes
<1> HIDE DEF entries
<1>3. LeafHashes(values) \in Seq(entries)
  BY <1>2
<1>4. Len(LeafHashes(values)) = n
  BY <1>1 DEF LeafHashes
<1> QED BY <1>1, <1>2, <1>3, <1>4 DEF IsList

\* A tree: its leaves, and on every level the pairs of the one below.
TreeOf(L, values, depth) ==
    /\ L[0] = LeafHashes(values)
    /\ \A h \in 0..depth : IsList(L[h])
    /\ \A h \in 0..(depth - 1) : L[h + 1] = Above(L[h], h + 1)

\* build_fixed_depth returns a tree.
LEMMA LevelsAreTree ==
    ASSUME NEW depth \in Nat, NEW values, IsList(values)
    PROVE  TreeOf(Levels(values, depth), values, depth)
<1>1. PICK L : L = Levels(values, depth)
  OBVIOUS
<1>2. LevelsUpTo(L, values, depth)
  BY <1>1, LevelsGrow
<1>3. L[0] = LeafHashes(values)
  BY <1>2 DEF LevelsUpTo
<1>4. ASSUME NEW h \in 0..(depth - 1) PROVE L[h + 1] = Above(L[h], h + 1)
  <2>1. h + 1 \in 0..depth /\ h + 1 # 0 /\ (h + 1) - 1 = h
    OBVIOUS
  <2> QED BY <1>2, <2>1 DEF LevelsUpTo
<1> DEFINE S == {h \in 0..depth : IsList(L[h])}
<1>5. 0 \in S
  BY <1>3, LeafHashesAreList
<1>6. ASSUME NEW h \in 0..(depth - 1), h \in S PROVE h + 1 \in S
  <2>1. h + 1 \in 0..depth /\ h + 1 \in Nat \ {0}
    OBVIOUS
  <2> QED BY <1>4, <1>6, <2>1, AboveIsList
<1>7. \A h \in 0..depth : h \in S
  <2> HIDE DEF S
  <2> QED BY <1>5, <1>6, UpInduction
<1> QED BY <1>1, <1>3, <1>4, <1>7 DEF TreeOf

\* The path prove gives out leads from a leaf to the root.
THEOREM MembershipPathsLead ==
    ASSUME NEW depth \in Nat, NEW values, IsList(values),
           NEW index \in Nat, index < Len(values), index < 2^depth
    PROVE  LET levels == Levels(values, depth)
           IN  Walk(HashLeaf(values[index + 1]), Siblings(levels, depth, index), depth, index)
                   = Root(levels, depth)
<1>1. PICK L : L = Levels(values, depth)
  OBVIOUS
<1> DEFINE path == Siblings(L, depth, index)
           at(h) == Up(index, h) + 1
<1>2. PICK n \in Nat : n = Len(values)
  BY DEF IsList
<1>3. PICK f : /\ WalkUpTo(f, HashLeaf(values[index + 1]), path, depth, index)
               /\ Walk(HashLeaf(values[index + 1]), path, depth, index) = f[depth]
  BY WalkGoesUp
<1>4. /\ L[0] = LeafHashes(values)
      /\ \A h \in 0..depth : IsList(L[h])
      /\ \A h \in 0..(depth - 1) : L[h + 1] = Above(L[h], h + 1)
  <2>1. TreeOf(L, values, depth)
    BY <1>1, LevelsAreTree
  <2> QED BY <2>1 DEF TreeOf
<1> DEFINE S == {h \in 0..depth : at(h) \in 1..Len(L[h]) /\ f[h] = L[h][at(h)]}
<1>5. 0 \in S
  <2>1. Up(index, 0) = index /\ index + 1 \in 1..n
    BY <1>2, UpHalves
  <2>2. f[0] = HashLeaf(values[index + 1])
    BY <1>3 DEF WalkUpTo
  <2> QED BY <1>2, <1>4, <2>1, <2>2, LeafHashesAreList
<1>6. ASSUME NEW h \in 0..(depth - 1), h \in S PROVE h + 1 \in S
  <2>1. h \in Nat /\ h \in 0..depth /\ h + 1 \in 0..depth /\ h + 1 \in Nat \ {0} /\ (h + 1) - 1 = h
    OBVIOUS
  <2>2. PICK m \in Nat, i \in Nat, j \in Nat :
            m = Len(L[h]) /\ i = Up(index, h) /\ j = Up(index, h + 1)
    <3>1. IsList(L[h])
      BY <1>4, <2>1
    <3>2. Len(L[h]) \in Nat
      BY <3>1 DEF IsList
    <3>3. Up(index, h) \in Nat /\ Up(index, h + 1) \in Nat
      BY <2>1, UpHalves
    <3> QED BY <3>2, <3>3
  <2>3. /\ i + 1 \in 1..m /\ f[h] = L[h][i + 1]
    BY <1>6, <2>2
  <2>4. /\ IsRight(index, h) => i = 2 * j + 1
        /\ ~IsRight(index, h) => i = 2 * j
    BY <2>1, <2>2, UpHalves
  <2>5. f[h + 1] = IF IsRight(index, h) THEN HashNode(path[h], f[h]) ELSE HashNode(f[h], path[h])
    BY <1>3, <2>1 DEF WalkUpTo
  <2>6. path[h] = IF IsRight(index, h) THEN L[h][i]
                  ELSE IF i + 2 <= m THEN L[h][i + 2] ELSE Empties[h]
    <3>1. path[h] = IF IsRight(index, h) THEN L[h][(i + 1) - 1]
                    ELSE IF (i + 1) + 1 <= m THEN L[h][(i + 1) + 1] ELSE Empties[h]
      BY <2>2 DEF Siblings
    <3>2. (i + 1) - 1 = i /\ (i + 1) + 1 = i + 2
      OBVIOUS
    <3> QED BY <3>1, <3>2
  <2>7. L[h + 1] = NextLevel(L[h], Empties[h])
    <3>1. Len(L[h]) > 0 /\ IsList(L[h]) /\ L[h + 1] = Above(L[h], h + 1)
      BY <1>4, <2>1, <2>2, <2>3
    <3> QED BY <2>1, <3>1, AboveIsList
  <2>8. /\ Len(L[h + 1]) = (m + 1) \div 2
        /\ \A k \in 1..((m + 1) \div 2) :
              L[h + 1][k] = HashNode(L[h][2 * k - 1], IF 2 * k <= m THEN L[h][2 * k] ELSE Empties[h])
    <3>1. IsList(L[h])
      BY <1>4, <2>1
    <3>2. Pairs(L[h + 1], L[h], Empties[h])
      BY <2>7, <3>1, NextLevelPairs
    <3> QED BY <2>2, <3>2 DEF Pairs
  <2>9. j + 1 \in 1..((m + 1) \div 2)
    BY <2>3, <2>4
  <2>10. L[h + 1][j + 1] = HashNode(L[h][2 * j + 1], IF 2 * j + 2 <= m THEN L[h][2 * j + 2] ELSE Empties[h])
    <3>1. 2 * (j + 1) - 1 = 2 * j + 1 /\ 2 * (j + 1) = 2 * j + 2
      OBVIOUS
    <3> QED BY <2>8, <2>9, <3>1
  <2>11. f[h + 1] = L[h + 1][j + 1]
    <3> HIDE DEF path
    <3>1. CASE IsRight(index, h)
      <4>1. i = 2 * j + 1 /\ i + 1 = 2 * j + 2 /\ 2 * j + 2 <= m
        BY <2>3, <2>4, <3>1
      <4> QED BY <2>3, <2>5, <2>6, <2>10, <3>1, <4>1
    <3>2. CASE ~IsRight(index, h)
      <4>1. i + 1 = 2 * j + 1 /\ i + 2 = 2 * j + 2
        BY <2>4, <3>2
      <4> QED BY <2>3, <2>5, <2>6, <2>10, <3>2, <4>1
    <3> QED BY <3>1, <3>2
  <2> QED BY <2>1, <2>2, <2>8, <2>9, <2>11
<1>7. \A h \in 0..depth : h \in S
  <2> HIDE DEF S
  <2> QED BY <1>5, <1>6, UpInduction
<1>8. f[depth] = L[depth][at(depth)]
  BY <1>7
<1>9. Up(index, depth) = 0
  BY UpHalves
<1> QED BY <1>1, <1>3, <1>8, <1>9 DEF Root

\* No other leaf has a path to the root, on whichever side of it.
THEOREM MembershipPathsAreSound ==
    ASSUME NEW depth \in Nat \ {0}, NEW values, IsList(values), NEW leaf, NEW path, NEW index,
           LET levels == Levels(values, depth)
           IN  Walk(leaf, path, depth, index) = Root(levels, depth)
    PROVE  leaf = Empty \/ \E i \in 1..Len(values) : leaf = HashLeaf(values[i])
<1>1. PICK L : L = Levels(values, depth)
  OBVIOUS
<1>2. PICK f : WalkUpTo(f, leaf, path, depth, index) /\ f[depth] = L[depth][1]
  BY <1>1, WalkGoesUp DEF Root
<1>3. /\ L[0] = LeafHashes(values)
      /\ \A h \in 0..depth : IsList(L[h])
      /\ \A h \in 0..(depth - 1) : L[h + 1] = Above(L[h], h + 1)
  <2>1. TreeOf(L, values, depth)
    BY <1>1, LevelsAreTree
  <2> QED BY <2>1 DEF TreeOf
<1> DEFINE S == {h \in 0..depth : f[h] = Empties[h] \/ \E i \in 1..Len(L[h]) : f[h] = L[h][i]}
<1>4. depth \in S
  <2>1. depth - 1 \in 0..(depth - 1) /\ (depth - 1) + 1 = depth /\ depth - 1 \in 0..depth
    OBVIOUS
  <2>2. Len(L[depth]) >= 1 /\ IsList(L[depth])
    <3> QED BY <1>3, <2>1, AboveIsList
  <2>3. 1 \in 1..Len(L[depth])
    BY <2>2 DEF IsList
  <2> QED BY <1>2, <2>3
<1>5. ASSUME NEW h \in 0..(depth - 1), h + 1 \in S PROVE h \in S
  <2>1. h \in Nat /\ h \in 0..depth /\ h + 1 \in 0..depth /\ h + 1 \in Nat \ {0} /\ (h + 1) - 1 = h
    OBVIOUS
  <2>2. PICK other : f[h + 1] = HashNode(other, f[h]) \/ f[h + 1] = HashNode(f[h], other)
    <3>1. f[h + 1] = HashNode(path[h], f[h]) \/ f[h + 1] = HashNode(f[h], path[h])
      BY <1>2, <2>1 DEF WalkUpTo
    <3> QED BY <3>1
  <2>3. Empties[h + 1] = HashNode(Empties[h], Empties[h])
    BY <2>1, EmptiesGrow
  <2>4. CASE f[h + 1] = Empties[h + 1]
    BY <2>1, <2>2, <2>3, <2>4, HashesDiffer
  <2>5. ASSUME NEW i \in 1..Len(L[h + 1]), f[h + 1] = L[h + 1][i] PROVE h \in S
    <3>1. PICK m \in Nat : m = Len(L[h])
      BY <1>3, <2>1 DEF IsList
    <3>2. IsList(L[h]) /\ L[h + 1] = Above(L[h], h + 1)
      BY <1>3, <2>1
    <3>3. CASE m = 0
      <4>1. L[h + 1] = <<Empties[h + 1]>>
        <5> QED BY <2>1, <3>1, <3>2, <3>3, AboveIsList
      <4>2. L[h + 1][i] = Empties[h + 1]
        <5> QED BY <4>1
      <4> QED BY <2>4, <2>5, <4>2
    <3>4. CASE m > 0
      <4>1. L[h + 1] = NextLevel(L[h], Empties[h])
        <5> QED BY <2>1, <3>1, <3>2, <3>4, AboveIsList
      <4>2. /\ Len(L[h + 1]) = (m + 1) \div 2
            /\ \A k \in 1..((m + 1) \div 2) :
                  L[h + 1][k] = HashNode(L[h][2 * k - 1], IF 2 * k <= m THEN L[h][2 * k] ELSE Empties[h])
        <5>1. Pairs(L[h + 1], L[h], Empties[h])
          BY <3>2, <4>1, NextLevelPairs
        <5> QED BY <3>1, <5>1 DEF Pairs
      <4>3. f[h + 1] = HashNode(L[h][2 * i - 1], IF 2 * i <= m THEN L[h][2 * i] ELSE Empties[h])
        BY <2>5, <4>2
      <4>4. 2 * i - 1 \in 1..m /\ (2 * i <= m => 2 * i \in 1..m)
        BY <3>4, <4>2
      <4>5. f[h] = L[h][2 * i - 1] \/ f[h] = IF 2 * i <= m THEN L[h][2 * i] ELSE Empties[h]
        <5> QED BY <2>2, <4>3, HashesDiffer
      <4> QED BY <2>1, <3>1, <4>4, <4>5
    <3> QED BY <3>1, <3>3, <3>4
  <2> QED BY <1>5, <2>4, <2>5
<1>6. \A h \in 0..depth : h \in S
  <2> HIDE DEF S
  <2> QED BY <1>4, <1>5, DownInduction
<1>7. f[0] = Empties[0] \/ \E i \in 1..Len(L[0]) : f[0] = L[0][i]
  BY <1>6
<1>8. f[0] = leaf
  BY <1>2 DEF WalkUpTo
<1> QED BY <1>3, <1>7, <1>8, EmptiesGrow, LeafHashesAreList

----------------------------------------------------------------------------
(* The sparse tree *)

\* A key is below a node if it is below one of the node's two children.
LEMMA TakenBelow ==
    ASSUME NEW keys \in SUBSET Nat, NEW h \in Nat, NEW p \in Nat
    PROVE  Taken(keys, h + 1, p) <=> Taken(keys, h, 2 * p) \/ Taken(keys, h, 2 * p + 1)
<1>1. ASSUME NEW key \in keys
      PROVE  Up(key, h + 1) = p <=> Up(key, h) = 2 * p \/ Up(key, h) = 2 * p + 1
  <2>1. Up(key, h) \in Nat /\ Up(key, h + 1) \in Nat
    BY h + 1 \in Nat, key \in Nat, UpIsIndex
  <2>2. Up(key, h) = 2 * Up(key, h + 1) \/ Up(key, h) = 2 * Up(key, h + 1) + 1
    BY UpParent
  <2> QED BY <2>1, <2>2
<1> QED BY <1>1 DEF Taken

\* Every node is the hash of its children, an empty one of two empty ones.
SparseTreeOf(T, keys, depth) ==
    /\ \A p \in Nat : T[0][p] = IF p \in keys THEN HashLeaf(p) ELSE Empty
    /\ \A h \in 0..(depth - 1), p \in Nat : T[h + 1][p] = HashNode(T[h][2 * p], T[h][2 * p + 1])

\* subtree returns one, without looking at the keys of an empty half.
LEMMA SubtreesAreTree ==
    ASSUME NEW depth \in Nat, NEW keys \in SUBSET Nat
    PROVE  SparseTreeOf(Subtree(keys, depth), keys, depth)
<1>1. PICK T : T = Subtree(keys, depth)
  OBVIOUS
<1>2. \A h \in 0..depth : T[h] = Joined(T[h - 1], keys, h)
  BY <1>1, SubtreesGrow DEF SubtreesUpTo
<1>3. ASSUME NEW h \in 0..depth, NEW p \in Nat
      PROVE  T[h][p] = IF ~Taken(keys, h, p) THEN Empties[h]
                       ELSE IF h = 0 THEN HashLeaf(p)
                       ELSE HashNode(T[h - 1][2 * p], T[h - 1][2 * p + 1])
  BY <1>2 DEF Joined
<1>4. ASSUME NEW p \in Nat PROVE T[0][p] = IF p \in keys THEN HashLeaf(p) ELSE Empty
  <2>1. \A key \in keys : Up(key, 0) = key
    BY UpFromLeaf
  <2>2. Taken(keys, 0, p) <=> p \in keys
    BY <2>1 DEF Taken
  <2> QED BY <1>3, <2>2, EmptiesGrow
<1>5. ASSUME NEW h \in 0..(depth - 1), NEW p \in Nat
      PROVE  T[h + 1][p] = HashNode(T[h][2 * p], T[h][2 * p + 1])
  <2>1. /\ h \in Nat /\ h \in 0..depth /\ h + 1 \in 0..depth /\ h + 1 # 0 /\ (h + 1) - 1 = h
        /\ 2 * p \in Nat /\ 2 * p + 1 \in Nat
    OBVIOUS
  <2>2. CASE Taken(keys, h + 1, p)
    BY <1>3, <2>1, <2>2
  <2>3. CASE ~Taken(keys, h + 1, p)
    <3>1. ~Taken(keys, h, 2 * p) /\ ~Taken(keys, h, 2 * p + 1)
      BY <2>1, <2>3, TakenBelow
    <3>2. T[h][2 * p] = Empties[h] /\ T[h][2 * p + 1] = Empties[h]
      BY <1>3, <2>1, <3>1
    <3>3. T[h + 1][p] = Empties[h + 1]
      BY <1>3, <2>1, <2>3
    <3> QED BY <2>1, <3>2, <3>3, EmptiesGrow
  <2> QED BY <2>2, <2>3
<1> QED BY <1>1, <1>4, <1>5 DEF SparseTreeOf

\* The path prove gives out for a key that is not there leads from an empty slot
\* to the root.
THEOREM AbsencePathsLead ==
    ASSUME NEW depth \in Nat, NEW keys \in SUBSET Nat,
           NEW key \in Nat \ keys, key < 2^depth
    PROVE  Walk(Empty, SparseSiblings(keys, depth, key), depth, key) = SparseRoot(keys, depth)
<1> DEFINE path == SparseSiblings(keys, depth, key)
<1>1. PICK T : T = Subtree(keys, depth)
  OBVIOUS
<1>2. PICK f : /\ WalkUpTo(f, Empty, path, depth, key)
               /\ Walk(Empty, path, depth, key) = f[depth]
  BY WalkGoesUp
<1>3. SparseTreeOf(T, keys, depth)
  BY <1>1, SubtreesAreTree
<1> DEFINE S == {h \in 0..depth : f[h] = T[h][Up(key, h)]}
<1>4. 0 \in S
  <2>1. f[0] = Empty
    BY <1>2 DEF WalkUpTo
  <2> QED BY <1>3, <2>1, UpFromLeaf, key \in Nat DEF SparseTreeOf
<1>5. ASSUME NEW h \in 0..(depth - 1), h \in S PROVE h + 1 \in S
  <2>1. h \in Nat /\ h \in 0..depth /\ h + 1 \in 0..depth /\ h + 1 # 0 /\ (h + 1) - 1 = h
    OBVIOUS
  <2>2. PICK i \in Nat, j \in Nat : i = Up(key, h) /\ j = Up(key, h + 1)
    <3>1. h + 1 \in Nat
      BY <2>1
    <3>2. Up(key, h) \in Nat /\ Up(key, h + 1) \in Nat
      BY <2>1, <3>1, UpIsIndex
    <3> QED BY <3>2
  <2>3. /\ IsRight(key, h) => i = 2 * j + 1
        /\ ~IsRight(key, h) => i = 2 * j
    BY <2>1, <2>2, UpParent
  <2>4. f[h + 1] = IF IsRight(key, h) THEN HashNode(path[h], f[h]) ELSE HashNode(f[h], path[h])
    BY <1>2, <2>1 DEF WalkUpTo
  <2>5. path[h] = T[h][IF IsRight(key, h) THEN i - 1 ELSE i + 1]
    BY <1>1, <2>2 DEF SparseSiblings
  <2>6. T[h + 1][j] = HashNode(T[h][2 * j], T[h][2 * j + 1])
    BY <1>3 DEF SparseTreeOf
  <2>7. f[h] = T[h][i]
    BY <1>5, <2>2
  <2>8. f[h + 1] = T[h + 1][j]
    <3> HIDE DEF path
    <3>1. CASE IsRight(key, h)
      <4>1. i - 1 = 2 * j
        BY <2>3, <3>1
      <4> QED BY <2>3, <2>4, <2>5, <2>6, <2>7, <3>1, <4>1
    <3>2. CASE ~IsRight(key, h)
      <4>1. i + 1 = 2 * j + 1
        BY <2>3, <3>2
      <4> QED BY <2>3, <2>4, <2>5, <2>6, <2>7, <3>2, <4>1
    <3> QED BY <3>1, <3>2
  <2> QED BY <2>1, <2>2, <2>8
<1>6. \A h \in 0..depth : h \in S
  <2> HIDE DEF S
  <2> QED BY <1>4, <1>5, UpInduction
<1>7. f[depth] = T[depth][Up(key, depth)]
  BY <1>6
<1>8. Up(key, depth) = 0
  BY UpAtRoot
<1> QED BY <1>1, <1>2, <1>7, <1>8 DEF SparseRoot

\* No path leads from an empty slot to the root if the key is there.
THEOREM AbsencePathsAreSound ==
    ASSUME NEW depth \in Nat, NEW keys \in SUBSET Nat, NEW path,
           NEW key \in Nat, key < 2^depth,
           Walk(Empty, path, depth, key) = SparseRoot(keys, depth)
    PROVE  key \notin keys
<1>1. PICK T : T = Subtree(keys, depth)
  OBVIOUS
<1>2. PICK f : WalkUpTo(f, Empty, path, depth, key) /\ f[depth] = T[depth][0]
  BY <1>1, WalkGoesUp DEF SparseRoot
<1>3. SparseTreeOf(T, keys, depth)
  BY <1>1, SubtreesAreTree
<1> DEFINE S == {h \in 0..depth : f[h] = T[h][Up(key, h)]}
<1>4. depth \in S
  BY <1>2, UpAtRoot
<1>5. ASSUME NEW h \in 0..(depth - 1), h + 1 \in S PROVE h \in S
  <2>1. h \in Nat /\ h \in 0..depth /\ h + 1 \in 0..depth /\ h + 1 # 0 /\ (h + 1) - 1 = h
    OBVIOUS
  <2>2. PICK i \in Nat, j \in Nat : i = Up(key, h) /\ j = Up(key, h + 1)
    <3>1. h + 1 \in Nat
      BY <2>1
    <3>2. Up(key, h) \in Nat /\ Up(key, h + 1) \in Nat
      BY <2>1, <3>1, UpIsIndex
    <3> QED BY <3>2
  <2>3. /\ IsRight(key, h) => i = 2 * j + 1
        /\ ~IsRight(key, h) => i = 2 * j
    BY <2>1, <2>2, UpParent
  <2>4. f[h + 1] = IF IsRight(key, h) THEN HashNode(path[h], f[h]) ELSE HashNode(f[h], path[h])
    BY <1>2, <2>1 DEF WalkUpTo
  <2>5. f[h + 1] = HashNode(T[h][2 * j], T[h][2 * j + 1])
    BY <1>3, <1>5, <2>2 DEF SparseTreeOf
  <2>6. f[h] = T[h][i]
    BY <2>3, <2>4, <2>5, HashesDiffer
  <2> QED BY <2>1, <2>2, <2>6
<1>6. \A h \in 0..depth : h \in S
  <2> HIDE DEF S
  <2> QED BY <1>4, <1>5, DownInduction
<1>7. Empty = T[0][key]
  <2>1. f[0] = T[0][key]
    BY <1>6, UpFromLeaf
  <2> QED BY <1>2, <2>1 DEF WalkUpTo
<1> QED BY <1>3, <1>7, HashesDiffer DEF SparseTreeOf

----------------------------------------------------------------------------
(* Sorting *)

\* Sorting a finite set of numbers lists its members and nothing else.
LEMMA AscendingLists ==
    ASSUME NEW S \in SUBSET Nat, IsFiniteSet(S)
    PROVE  /\ IsList(Ascending(S))
           /\ Len(Ascending(S)) = Cardinality(S)
           /\ \A i \in 1..Cardinality(S) : Ascending(S)[i] \in S
           /\ \A x \in S : \E i \in 1..Cardinality(S) : Ascending(S)[i] = x
<1> DEFINE n == Cardinality(S)
           below(x) == {y \in S : y < x}
           rank == [x \in S |-> Cardinality(below(x)) + 1]
<1>1. n \in Nat
  BY FS_CardinalityType
<1>2. ASSUME NEW x \in S
      PROVE  IsFiniteSet(below(x)) /\ Cardinality(below(x)) \in Nat /\ Cardinality(below(x)) < n
  <2>1. below(x) \subseteq S \ {x}
    OBVIOUS
  <2>2. IsFiniteSet(S \ {x}) /\ Cardinality(S \ {x}) = n - 1
    BY FS_RemoveElement
  <2>3. IsFiniteSet(below(x)) /\ Cardinality(below(x)) <= n - 1
    <3> HIDE DEF below
    <3> QED BY <2>1, <2>2, FS_Subset
  <2>4. Cardinality(below(x)) \in Nat
    BY <2>3, FS_CardinalityType
  <2> HIDE DEF below
  <2> QED BY <1>1, <2>3, <2>4
<1>3. ASSUME NEW x \in S, NEW y \in S, x < y PROVE Cardinality(below(x)) < Cardinality(below(y))
  <2>1. below(x) \cup {x} \subseteq below(y) /\ x \notin below(x)
    <3>1. x \in Nat /\ y \in Nat /\ \A z \in S : z \in Nat
      OBVIOUS
    <3>2. \A z \in below(x) : z \in below(y)
      BY <1>3, <3>1
    <3>3. x \in below(y) /\ x \notin below(x)
      BY <1>3, <3>1
    <3> HIDE DEF below
    <3> QED BY <3>2, <3>3
  <2>2. IsFiniteSet(below(x)) /\ IsFiniteSet(below(y)) /\ Cardinality(below(x)) \in Nat
        /\ Cardinality(below(y)) \in Nat
    BY <1>2
  <2> HIDE DEF below
  <2>3. Cardinality(below(x) \cup {x}) = Cardinality(below(x)) + 1
    BY <2>1, <2>2, FS_AddElement
  <2>4. Cardinality(below(x) \cup {x}) <= Cardinality(below(y))
    BY <2>1, <2>2, FS_Subset
  <2> QED BY <2>2, <2>3, <2>4
<1>4. ASSUME NEW x \in S, NEW y \in S, Cardinality(below(x)) = Cardinality(below(y)) PROVE x = y
  <2>1. ~(x < y) /\ ~(y < x)
    <3> HIDE DEF below
    <3> QED BY <1>2, <1>3, <1>4
  <2> QED BY <2>1
<1>5. rank \in Surjection(S, 1..n)
  <2>1. \A x \in S : rank[x] \in 1..n
    <3> HIDE DEF below, n
    <3> QED BY <1>1, <1>2
  <2>2. \A x, y \in S : rank[x] = rank[y] => x = y
    <3> TAKE x, y \in S
    <3>1. rank[x] = Cardinality(below(x)) + 1 /\ rank[y] = Cardinality(below(y)) + 1
      OBVIOUS
    <3>2. Cardinality(below(x)) \in Nat /\ Cardinality(below(y)) \in Nat
      BY <1>2
    <3> HIDE DEF below, rank
    <3> QED BY <1>4, <3>1, <3>2
  <2>3. rank \in Injection(S, 1..n)
    <3>1. rank \in [S -> 1..n]
      BY <2>1
    <3> HIDE DEF rank
    <3> QED BY <2>2, <3>1 DEF Injection, IsInjective
  <2>4. IsFiniteSet(1..n) /\ Cardinality(1..n) = n
    BY <1>1, FS_Interval
  <2> HIDE DEF rank
  <2> QED BY <2>3, <2>4, FS_Injection
<1>6. \A i \in 1..n : \E x \in S : Cardinality(below(x)) = i - 1
  <2> TAKE i \in 1..n
  <2>1. PICK x \in S : rank[x] = i
    <3> HIDE DEF rank
    <3> QED BY <1>5 DEF Surjection
  <2>2. Cardinality(below(x)) + 1 = i /\ Cardinality(below(x)) \in Nat
    BY <1>2, <2>1
  <2>3. Cardinality(below(x)) = i - 1
    <3> HIDE DEF below
    <3> QED BY <2>2
  <2> QED BY <2>3
<1>7. Ascending(S) = [i \in 1..n |-> CHOOSE x \in S : Cardinality(below(x)) = i - 1]
  BY DEF Ascending
<1>8. ASSUME NEW i \in 1..n
      PROVE  Ascending(S)[i] \in S /\ Cardinality(below(Ascending(S)[i])) = i - 1
  BY <1>6, <1>7
<1>9. Ascending(S) \in Seq(S) /\ Len(Ascending(S)) = n
  <2>1. Ascending(S) \in [1..n -> S]
    <3> HIDE DEF n, below
    <3> QED BY <1>7, <1>8
  <2> HIDE DEF n
  <2> QED BY <1>1, <2>1
<1>10. ASSUME NEW x \in S PROVE \E i \in 1..n : Ascending(S)[i] = x
  <2>1. rank[x] \in 1..n /\ Cardinality(below(x)) = rank[x] - 1
    <3>1. rank[x] = Cardinality(below(x)) + 1
      OBVIOUS
    <3> HIDE DEF below, n, rank
    <3> QED BY <1>1, <1>2, <3>1
  <2> HIDE DEF rank, below
  <2> QED BY <1>4, <1>8, <2>1
<1> QED BY <1>8, <1>9, <1>10 DEF IsList

----------------------------------------------------------------------------
(* Leaves and roots *)

\* What the assumption says of the constants.
LEMMA ConstantsAreTyped ==
    /\ Len(Attestations) \in Nat /\ Len(Payments) \in Nat
    /\ \A a \in Ids : /\ Attestations[a].owner \in Pseudonyms
                      /\ Attestations[a].anchor \in Anchors
                      /\ Attestations[a].v2 \in BOOLEAN /\ Attestations[a].signed \in BOOLEAN
    /\ \A o \in Anchors : \A ids \in Payments[o] : ids \subseteq Ids
    /\ Pseudonyms \subseteq Keys
<1> DEFINE Record == [owner : Pseudonyms, success : BOOLEAN, v2 : BOOLEAN,
                      signed : BOOLEAN, anchor : Anchors]
<1>1. /\ Attestations \in Seq(Record)
      /\ Payments \in Seq(SUBSET (SUBSET Ids))
      /\ Pseudonyms \subseteq Keys
  BY DisclosureAssumption
<1>2. Len(Attestations) \in Nat /\ Len(Payments) \in Nat
  BY <1>1
<1>3. ASSUME NEW a \in Ids
      PROVE  Attestations[a] \in Record
  <2> HIDE DEF Record
  <2> QED BY <1>1 DEF Ids
<1>4. ASSUME NEW o \in Anchors PROVE Payments[o] \in SUBSET (SUBSET Ids)
  BY <1>1 DEF Anchors
<1> QED BY <1>1, <1>2, <1>3, <1>4

\* A leaf determines the outpoint and the id.
LEMMA LeavesDiffer ==
    ASSUME NEW o \in Anchors, NEW p \in Anchors, NEW a \in Ids \cup {0}, NEW b \in Ids \cup {0},
           Leaf(o, a) = Leaf(p, b)
    PROVE  o = p /\ a = b
<1>1. PICK k \in Nat : k = Len(Attestations) + 1
  BY ConstantsAreTyped
<1>2. o \in Nat /\ p \in Nat /\ a \in 0..(k - 1) /\ b \in 0..(k - 1)
  BY <1>1, ConstantsAreTyped DEF Ids, Anchors
<1>3. o * k + a = p * k + b
  BY <1>1 DEF Leaf
<1>4. ASSUME NEW q \in Nat, NEW r \in Nat, NEW c \in 0..(k - 1), NEW d \in 0..(k - 1), q < r
      PROVE  q * k + c # r * k + d
  <2>1. PICK e \in Nat : r = q + 1 + e
    <3>1. r - q - 1 \in Nat /\ r = q + 1 + (r - q - 1)
      BY <1>4
    <3> QED BY <3>1
  <2>2. r * k = q * k + k + e * k
    BY <1>1, <2>1
  <2>3. e * k >= 0 /\ e * k \in Nat /\ q * k \in Nat
    BY <1>1
  <2> QED BY <1>1, <2>2, <2>3
<1>5. o = p
  <2>1. ~(o < p) /\ ~(p < o)
    BY <1>2, <1>3, <1>4
  <2> QED BY <1>2, <2>1
<1>6. a = b
  <2>1. PICK x \in Nat : x = o * k
    BY <1>1, <1>2
  <2> QED BY <1>2, <1>3, <1>5, <2>1
<1> QED BY <1>5, <1>6

\* All leaves there may be are finitely many numbers.
LEMMA LeavesAreNumbers == IsFiniteSet(Leaves) /\ Leaves \in SUBSET Nat
<1>1. PICK k \in Nat, m \in Nat : k = Len(Attestations) + 1 /\ m = Len(Payments)
  BY ConstantsAreTyped
<1>2. m * k + k \in Nat
  BY <1>1
<1>3. ASSUME NEW o \in Anchors, NEW a \in Ids
      PROVE  Leaf(o, a) \in Nat /\ Leaf(o, a) <= m * k + k
  <2>1. o \in 1..m /\ a \in 1..(k - 1)
    BY <1>1 DEF Anchors, Ids
  <2>2. PICK e \in Nat : m = o + e
    <3>1. m - o \in Nat /\ m = o + (m - o)
      BY <2>1
    <3> QED BY <3>1
  <2>3. m * k = o * k + e * k
    BY <1>1, <2>1, <2>2
  <2>4. e * k \in Nat /\ o * k \in Nat
    BY <1>1, <2>1
  <2>5. o * k + a \in Nat /\ o * k + a <= m * k + k
    BY <1>1, <2>1, <2>3, <2>4
  <2> QED BY <1>1, <2>5 DEF Leaf
<1>4. Leaves \in SUBSET Nat /\ \A l \in Leaves : l <= m * k + k
  BY <1>3 DEF Leaves
<1> QED BY <1>2, <1>4, FS_BoundedSetOfNaturals

\* Every leaf of a tree that fits has a path to the root.
LEMMA LeavesAreProvable ==
    ASSUME NEW leaves \in SUBSET Leaves, Cardinality(leaves) <= 2^AnchorDepth,
           NEW leaf \in leaves, NEW tree, tree = AnchoredTree(leaves),
           NEW index, index = IndexOf(tree, leaf)
    PROVE  Walk(HashLeaf(leaf), Siblings(tree, AnchorDepth, index), AnchorDepth, index)
               = AnchoredRoot(leaves)
<1>1. PICK values : values = Ascending(leaves)
  OBVIOUS
<1>2. IsFiniteSet(leaves) /\ leaves \in SUBSET Nat
  BY LeavesAreNumbers, FS_Subset
<1>3. PICK n \in Nat, p \in Nat : n = Cardinality(leaves) /\ p = 2^AnchorDepth
  BY <1>2, FS_CardinalityType, PowersOfTwo, DisclosureAssumption
<1>4. /\ IsList(values) /\ Len(values) = n
      /\ \E i \in 1..n : values[i] = leaf
  BY <1>1, <1>2, <1>3, AscendingLists
<1>5. tree[0] = LeafHashes(values)
  <2>1. TreeOf(tree, values, AnchorDepth)
    BY <1>1, <1>4, LevelsAreTree, DisclosureAssumption DEF AnchoredTree
  <2> QED BY <2>1 DEF TreeOf
<1>6. Len(tree[0]) = n /\ \A i \in 1..n : tree[0][i] = HashLeaf(values[i])
  BY <1>4, <1>5, LeafHashesAreList
<1>7. PICK i \in 1..n : i = (CHOOSE j \in 1..n : tree[0][j] = HashLeaf(leaf)) /\ tree[0][i] = HashLeaf(leaf)
  BY <1>4, <1>6
<1>8. values[i] = leaf
  <2>1. HashLeaf(values[i]) = HashLeaf(leaf)
    BY <1>6, <1>7
  <2> QED BY <2>1, HashesDiffer
<1>9. index = i - 1
  BY <1>6, <1>7 DEF IndexOf
<1>10. index \in Nat /\ index < n /\ index < p /\ index + 1 = i
  BY <1>3, <1>9
<1>11. Walk(HashLeaf(values[index + 1]), Siblings(Levels(values, AnchorDepth), AnchorDepth, index),
            AnchorDepth, index) = Root(Levels(values, AnchorDepth), AnchorDepth)
  BY <1>3, <1>4, <1>10, MembershipPathsLead, DisclosureAssumption
<1> QED BY <1>1, <1>8, <1>10, <1>11 DEF AnchoredRoot, AnchoredTree

\* Nothing else has.
LEMMA OnlyLeavesAreProvable ==
    ASSUME NEW leaves \in SUBSET Leaves, NEW leaf, NEW path, NEW index,
           Walk(HashLeaf(leaf), path, AnchorDepth, index) = AnchoredRoot(leaves)
    PROVE  leaf \in leaves
<1>1. PICK values : values = Ascending(leaves)
  OBVIOUS
<1>2. IsFiniteSet(leaves) /\ leaves \in SUBSET Nat
  BY LeavesAreNumbers, FS_Subset
<1>3. IsList(values) /\ Len(values) = Cardinality(leaves) /\ \A i \in 1..Len(values) : values[i] \in leaves
  BY <1>1, <1>2, AscendingLists
<1>4. Walk(HashLeaf(leaf), path, AnchorDepth, index) = Root(Levels(values, AnchorDepth), AnchorDepth)
  BY <1>1 DEF AnchoredRoot, AnchoredTree
<1>5. HashLeaf(leaf) = Empty \/ \E i \in 1..Len(values) : HashLeaf(leaf) = HashLeaf(values[i])
  BY <1>3, <1>4, MembershipPathsAreSound, DisclosureAssumption
<1> QED BY <1>3, <1>5, HashesDiffer

\* A pseudonym not among the defaulters has a path from its slot to the root, and
\* one that is among them has none.
LEMMA CleanKeysAreProvable ==
    ASSUME NEW keys \in SUBSET Keys, NEW key \in Keys \ keys
    PROVE  AbsenceHolds(DefaultsRoot(keys), key, SparseSiblings(keys, SmtDepth, key))
<1>1. PICK p \in Nat : p = 2^SmtDepth
  BY PowersOfTwo, DisclosureAssumption
<1>2. keys \in SUBSET Nat /\ key \in Nat \ keys /\ key < p
  BY <1>1 DEF Keys
<1> QED BY <1>1, <1>2, AbsencePathsLead, DisclosureAssumption DEF AbsenceHolds, DefaultsRoot

\* One that is among them has none.
LEMMA OnlyCleanKeysAreProvable ==
    ASSUME NEW keys \in SUBSET Keys, NEW key \in Keys, NEW path,
           AbsenceHolds(DefaultsRoot(keys), key, path)
    PROVE  key \notin keys
<1>1. PICK p \in Nat : p = 2^SmtDepth
  BY PowersOfTwo, DisclosureAssumption
<1>2. keys \in SUBSET Nat /\ key \in Nat /\ key < p
  BY <1>1 DEF Keys
<1> QED BY <1>1, <1>2, AbsencePathsAreSound, DisclosureAssumption DEF AbsenceHolds, DefaultsRoot

----------------------------------------------------------------------------
(* What krep prove writes down *)

\* A chain lists attestations of its owner's.
LEMMA ChainsAreOwn ==
    ASSUME NEW p, NEW chain \in ChainsOf(p)
    PROVE  /\ IsList(chain)
           /\ \A i \in 1..Len(chain) : chain[i] \in Ids /\ Attestations[chain[i]].owner = p
<1> DEFINE S == {a \in Ids : Attestations[a].owner = p}
<1>1. PICK whole : whole = ChainOf(p)
  OBVIOUS
<1>2. S \in SUBSET Nat /\ IsFiniteSet(S)
  <2>1. IsFiniteSet(Ids) /\ Ids \subseteq Nat /\ S \subseteq Ids
    <3>1. PICK n \in Nat : Ids = 1..n
      BY ConstantsAreTyped DEF Ids
    <3> QED BY <3>1, FS_Interval
  <2> HIDE DEF S
  <2> QED BY <2>1, FS_Subset
<1>3. IsList(whole) /\ \A i \in 1..Len(whole) : whole[i] \in S
  <2>1. whole = Ascending(S)
    BY <1>1 DEF ChainOf
  <2> HIDE DEF S
  <2> QED BY <1>2, <2>1, AscendingLists
<1>4. PICK n \in 0..Len(whole) : chain = SubSeq(whole, 1, n)
  BY <1>1 DEF ChainsOf
<1>5. PICK T : whole \in Seq(T)
  BY <1>3 DEF IsList
<1>6. /\ chain \in Seq(T) /\ Len(chain) = n
      /\ \A i \in 1..n : chain[i] = whole[i]
  <2>1. Len(whole) \in Nat /\ 1 \in 1..(Len(whole) + 1) /\ n \in (1 - 1)..Len(whole) /\ n \in Nat
    BY <1>5
  <2>2. /\ SubSeq(whole, 1, n) \in Seq(T) /\ Len(SubSeq(whole, 1, n)) = n - 1 + 1
        /\ \A i \in 1..(n - 1 + 1) : SubSeq(whole, 1, n)[i] = whole[1 + i - 1]
    BY <1>5, <2>1, SubSeqProperties
  <2>3. n - 1 + 1 = n /\ \A i \in 1..n : 1 + i - 1 = i
    BY <2>1
  <2> QED BY <1>4, <2>2, <2>3
<1>7. \A i \in 1..n : i \in 1..Len(whole)
  BY <1>5
<1>8. \A i \in 1..n : chain[i] \in S
  <2> HIDE DEF S
  <2> QED BY <1>3, <1>6, <1>7
<1> QED BY <1>6, <1>8 DEF IsList

\* The entries put into slots are successes of the owner's, there are no more of
\* them than there are slots, and the tree holds each.
LEMMA UsedAreOwn ==
    ASSUME NEW p, NEW chain \in ChainsOf(p), NEW leaves
    PROVE  \E n \in 0..MaxSuccesses :
              /\ DOMAIN Used(chain, leaves) = 1..n
              /\ Len(Used(chain, leaves)) = n
              /\ \A i \in 1..n : /\ Used(chain, leaves)[i] \in Ids
                                 /\ Attestations[Used(chain, leaves)[i]].owner = p
                                 /\ Usable(Used(chain, leaves)[i], leaves)
<1> DEFINE S == {i \in DOMAIN chain : Usable(chain[i], leaves)}
<1>1. PICK places : places = Ascending(S)
  OBVIOUS
<1>2. PICK m \in Nat : m = Len(chain) /\ DOMAIN chain = 1..m
  BY ChainsAreOwn DEF IsList
<1>3. S \in SUBSET Nat /\ IsFiniteSet(S)
  <2>1. S \subseteq 1..m /\ IsFiniteSet(1..m)
    BY <1>2, FS_Interval
  <2>2. 1..m \subseteq Nat
    BY <1>2
  <2> HIDE DEF S
  <2> QED BY <2>1, <2>2, FS_Subset
<1>4. IsList(places) /\ \A i \in 1..Len(places) : places[i] \in S
  <2> HIDE DEF S
  <2> QED BY <1>1, <1>3, AscendingLists
<1>5. PICK k \in Nat : k = Len(places)
  BY <1>4 DEF IsList
<1>6. PICK n \in 0..MaxSuccesses : n = (IF k > MaxSuccesses THEN MaxSuccesses ELSE k) /\ n <= k
  BY <1>5, DisclosureAssumption
<1>7. Used(chain, leaves) = [i \in 1..n |-> chain[places[i]]]
  BY <1>1, <1>5, <1>6 DEF Used
<1>8. ASSUME NEW i \in 1..n PROVE places[i] \in 1..m /\ Usable(chain[places[i]], leaves)
  <2>1. i \in 1..k
    BY <1>6
  <2> QED BY <1>2, <1>4, <1>5, <2>1
<1>9. Len(Used(chain, leaves)) = n /\ DOMAIN Used(chain, leaves) = 1..n
  BY <1>7
<1> QED BY <1>2, <1>7, <1>8, <1>9, ChainsAreOwn

\* What a slot is filled with satisfies the circuit.
LEMMA SlotsHold ==
    ASSUME NEW leaves \in SUBSET Leaves, Cardinality(leaves) <= 2^AnchorDepth,
           NEW a \in Ids, Usable(a, leaves)
    PROVE  SlotHolds(AnchoredRoot(leaves), Attestations[a].owner, SlotFor(a, leaves))
<1>1. PICK tree : tree = AnchoredTree(leaves)
  OBVIOUS
<1>2. PICK leaf : leaf = Leaf(Attestations[a].anchor, a)
  OBVIOUS
<1>3. PICK index : index = IndexOf(tree, leaf)
  OBVIOUS
<1>4. SlotFor(a, leaves) = [body |-> a, index |-> index, path |-> Siblings(tree, AnchorDepth, index)]
  BY <1>1, <1>2, <1>3 DEF SlotFor
<1>5. CircuitLeaf(a) = leaf /\ leaf \in leaves /\ Attestations[a].success
  BY <1>2 DEF CircuitLeaf, Usable
<1>6. Walk(HashLeaf(leaf), Siblings(tree, AnchorDepth, index), AnchorDepth, index) = AnchoredRoot(leaves)
  BY <1>1, <1>3, <1>5, LeavesAreProvable
<1> QED BY <1>4, <1>5, <1>6 DEF SlotHolds

\* What witness() does not refuse to write down satisfies the circuit.
LEMMA WitnessHolds ==
    ASSUME NEW file, file.leaves \in SUBSET Leaves, file.defaulted \in SUBSET Pseudonyms,
           Readable(file), NEW p \in Pseudonyms, NEW chain \in ChainsOf(p), NEW min \in Nat,
           ~Refused(p, chain, file, min)
    PROVE  CircuitHolds(InputsFrom(file, min), Witness(p, chain, file))
<1>1. PICK used, leaves, keys : used = Used(chain, leaves) /\ leaves = file.leaves /\ keys = file.defaulted
  OBVIOUS
<1>2. PICK n \in 0..MaxSuccesses :
          /\ DOMAIN used = 1..n /\ Len(used) = n
          /\ \A i \in 1..n : /\ used[i] \in Ids /\ Attestations[used[i]].owner = p
                             /\ Usable(used[i], leaves)
  BY <1>1, UsedAreOwn
<1>3. p \notin keys /\ n >= min
  <2>1. p \notin keys /\ ~(n < min)
    BY <1>1, <1>2 DEF Refused
  <2> QED BY <2>1
<1>4. PICK w : w = Witness(p, chain, file)
  OBVIOUS
<1>5. /\ w.key = p /\ w.path = SparseSiblings(keys, SmtDepth, p)
      /\ w.slots = [i \in 1..n |-> SlotFor(used[i], leaves)]
  BY <1>1, <1>2, <1>4 DEF Witness
<1>6. Len(w.slots) = n /\ DOMAIN w.slots = 1..n
  BY <1>5
<1>7. ASSUME NEW i \in 1..n PROVE SlotHolds(AnchoredRoot(leaves), w.key, w.slots[i])
  <2>1. w.slots[i] = SlotFor(used[i], leaves)
    BY <1>5
  <2>2. leaves \in SUBSET Leaves /\ Cardinality(leaves) <= 2^AnchorDepth
    BY <1>1 DEF Readable
  <2>3. used[i] \in Ids /\ Attestations[used[i]].owner = p /\ Usable(used[i], leaves)
    BY <1>2
  <2>4. SlotHolds(AnchoredRoot(leaves), Attestations[used[i]].owner, SlotFor(used[i], leaves))
    BY <2>2, <2>3, SlotsHold
  <2> QED BY <1>5, <2>1, <2>3, <2>4
<1>8. AbsenceHolds(DefaultsRoot(keys), w.key, w.path)
  <2>1. keys \in SUBSET Keys /\ p \in Keys \ keys
    BY <1>1, <1>3, ConstantsAreTyped
  <2> QED BY <1>5, <2>1, CleanKeysAreProvable
<1>9. InputsFrom(file, min).anchored = AnchoredRoot(leaves) /\ InputsFrom(file, min).min = min
      /\ InputsFrom(file, min).defaults = DefaultsRoot(keys)
  BY <1>1 DEF InputsFrom
<1>10. Len(w.slots) >= InputsFrom(file, min).min /\ Len(w.slots) <= MaxSuccesses
  BY <1>3, <1>6, <1>9, DisclosureAssumption
<1> QED BY <1>4, <1>6, <1>7, <1>8, <1>9, <1>10 DEF CircuitHolds

----------------------------------------------------------------------------
(* What every step keeps *)

Events == [spends : Nat, leaves : SUBSET Leaves, slashed : SUBSET Pseudonyms]

\* What is left of a scan: the roots of all it found beside some of it, and all
\* of it unless the file was damaged.
SavedScan(file) ==
    LET found == Scanned(file.from, file.to)
    IN  /\ file = [scanned |-> TRUE, intact |-> file.intact, from |-> file.from, to |-> file.to,
                   leaves |-> file.leaves, defaulted |-> file.defaulted,
                   anchoredRoot |-> AnchoredRoot(found.leaves),
                   defaultsRoot |-> DefaultsRoot(found.slashed)]
        /\ Len(history) = MaxEvents /\ file.from \in 1..MaxEvents /\ file.to \in file.from..MaxEvents
        /\ Cardinality(found.leaves) <= 2^AnchorDepth
        /\ file.leaves \subseteq found.leaves /\ file.defaulted \subseteq found.slashed
        /\ file.intact \in BOOLEAN
        /\ file.intact => file.leaves = found.leaves /\ file.defaulted = found.slashed

\* The public inputs that the roots saved in a file make with a threshold.
InputsOf(file, min) ==
    [anchored |-> file.anchoredRoot, defaults |-> file.defaultsRoot, min |-> min]

\* Some key satisfies the circuit with these inputs: with one slot, if there is
\* any threshold.
Shown(inputs, key) ==
    /\ \E path : AbsenceHolds(inputs.defaults, key, path)
    /\ inputs.min = 0 \/ \E slot : slot.body \in Ids /\ SlotHolds(inputs.anchored, key, slot)

\* A proof that was sent shows some key, and krep prove says what it shows.
Proven ==
    /\ bundle.sent /\ bundle.by \in {"krep prove", "hand"}
    /\ {bundle.min, bundle.proof.min} \subseteq 0..MaxSuccesses
    /\ \E key \in Keys : Shown(bundle.proof, key)
    /\ bundle.by = "krep prove" =>
          files["prover"].scanned /\ bundle.proof = InputsOf(files["prover"], bundle.min)

\* A verdict speaks of the roots of the verifier's file, and is the one that the
\* file would give again if it is still what it was.
Judged ==
    /\ verdict.given /\ verdict.accepted \in BOOLEAN /\ verdict.required \in Nat
    /\ bundle.sent /\ files["verifier"].scanned
    /\ verdict.accepted =>
          /\ verdict.required <= bundle.min
          /\ bundle.proof = InputsOf(files["verifier"], bundle.min)
    /\ files["verifier"].intact => verdict.accepted = Accepts(files["verifier"], verdict.required)

DisclosureInductive ==
    /\ history \in Seq(Events) /\ Len(history) <= MaxEvents
    /\ DOMAIN files = Parties
    /\ \A w \in Parties : files[w] = NoScan \/ SavedScan(files[w])
    /\ bundle = NoBundle \/ Proven
    /\ verdict = NoVerdict \/ Judged

\* It holds at first.
LEMMA DisclosureInitInductive == DisclosureInit => DisclosureInductive
BY DisclosureAssumption DEF DisclosureInit, DisclosureInductive

\* A stretch of the chain has leaves and pseudonyms in it.
LEMMA StretchesAreTyped ==
    ASSUME history \in Seq(Events), Len(history) = MaxEvents,
           NEW from \in 1..MaxEvents, NEW to \in from..MaxEvents
    PROVE  Scanned(from, to).leaves \in SUBSET Leaves /\ Scanned(from, to).slashed \in SUBSET Pseudonyms
<1>1. ASSUME NEW i \in from..to
      PROVE  history[i].leaves \in SUBSET Leaves /\ history[i].slashed \in SUBSET Pseudonyms
  <2>1. i \in 1..Len(history)
    BY DisclosureAssumption
  <2>2. history[i] \in Events
    BY <2>1
  <2> QED BY <2>2 DEF Events
<1> QED BY <1>1 DEF Scanned

\* What the chain says of a file's stretch.
LEMMA SavedIsTyped ==
    ASSUME DisclosureInductive, NEW w \in Parties, files[w].scanned
    PROVE  /\ SavedScan(files[w])
           /\ Found(w).leaves \in SUBSET Leaves /\ Found(w).slashed \in SUBSET Pseudonyms
           /\ files[w].leaves \in SUBSET Leaves /\ files[w].defaulted \in SUBSET Pseudonyms
           /\ files[w].anchoredRoot = AnchoredRoot(Found(w).leaves)
           /\ files[w].defaultsRoot = DefaultsRoot(Found(w).slashed)
<1>1. SavedScan(files[w])
  BY DEF DisclosureInductive, NoScan
<1>2. PICK from \in 1..MaxEvents : from = files[w].from
  BY <1>1 DEF SavedScan
<1>3. PICK to \in from..MaxEvents : to = files[w].to /\ Len(history) = MaxEvents
  BY <1>1, <1>2 DEF SavedScan
<1>4. Found(w) = Scanned(from, to)
  BY <1>2, <1>3 DEF Found
<1>5. Found(w).leaves \in SUBSET Leaves /\ Found(w).slashed \in SUBSET Pseudonyms
  BY <1>3, <1>4, StretchesAreTyped DEF DisclosureInductive
<1>6. /\ files[w].leaves \subseteq Found(w).leaves /\ files[w].defaulted \subseteq Found(w).slashed
      /\ files[w].anchoredRoot = AnchoredRoot(Found(w).leaves)
      /\ files[w].defaultsRoot = DefaultsRoot(Found(w).slashed)
  BY <1>1 DEF SavedScan, Found
<1> QED BY <1>1, <1>5, <1>6

\* Once saved, a file keeps its roots, and all of itself unless it is damaged.
FileKept(w) ==
    files[w].scanned =>
        /\ files'[w].scanned
        /\ files'[w].anchoredRoot = files[w].anchoredRoot
        /\ files'[w].defaultsRoot = files[w].defaultsRoot
        /\ files'[w].intact => files'[w] = files[w]

\* Proofs and verdicts survive what happens to the files.
LEMMA FilesKeepProofs ==
    ASSUME DisclosureInductive, \A w \in Parties : FileKept(w), UNCHANGED <<bundle, verdict>>
    PROVE  (bundle' = NoBundle \/ Proven') /\ (verdict' = NoVerdict \/ Judged')
<1>1. FileKept("prover") /\ FileKept("verifier")
  BY DEF Parties
<1>2. ASSUME Proven PROVE Proven'
  <2>1. ASSUME bundle.by = "krep prove"
        PROVE  files'["prover"].scanned /\ bundle.proof = InputsOf(files'["prover"], bundle.min)
    BY <1>1, <1>2, <2>1 DEF Proven, FileKept, InputsOf
  <2> QED BY <1>2, <2>1 DEF Proven
<1>3. ASSUME Judged PROVE Judged'
  <2>1. files'["verifier"].scanned
    BY <1>1, <1>3 DEF Judged, FileKept
  <2>2. \A min : InputsOf(files'["verifier"], min) = InputsOf(files["verifier"], min)
    BY <1>1, <1>3 DEF Judged, FileKept, InputsOf
  <2>3. ASSUME files'["verifier"].intact
        PROVE  verdict'.accepted = Accepts(files["verifier"], verdict.required)'
    <3>1. files'["verifier"] = files["verifier"]
      BY <1>1, <1>3, <2>3 DEF Judged, FileKept
    <3>2. verdict.accepted = Accepts(files["verifier"], verdict.required)
      BY <1>3, <2>3, <3>1 DEF Judged
    <3> QED BY <3>1, <3>2 DEF Accepts, Verifies
  <2> QED BY <1>3, <2>1, <2>2, <2>3 DEF Judged
<1> QED BY <1>2, <1>3 DEF DisclosureInductive

----------------------------------------------------------------------------
(* One lemma for each action *)

\* What happens on the chain comes before the scans.
LEMMA HistoryKeeps ==
    ASSUME DisclosureInductive, NEW event \in Events, Len(history) < MaxEvents,
           history' = Append(history, event), UNCHANGED <<files, bundle, verdict>>
    PROVE  DisclosureInductive'
<1>1. history' \in Seq(Events) /\ Len(history') = Len(history) + 1 /\ Len(history') <= MaxEvents
  BY DisclosureAssumption DEF DisclosureInductive
<1>2. ASSUME NEW w \in Parties PROVE files'[w] = NoScan /\ files'[w] = files[w]
  BY DisclosureAssumption DEF DisclosureInductive, SavedScan
<1>3. DOMAIN files' = Parties
  BY DEF DisclosureInductive
<1>4. (bundle' = NoBundle \/ Proven') /\ (verdict' = NoVerdict \/ Judged')
  BY <1>2, FilesKeepProofs DEF FileKept
<1> QED BY <1>1, <1>2, <1>3, <1>4 DEF DisclosureInductive

\* A settlement commits leaves.
LEMMA SettleKeeps ==
    ASSUME DisclosureInductive, NEW o \in Anchors, NEW ids \in Payments[o], Settle(o, ids)
    PROVE  DisclosureInductive'
<1> DEFINE event == [spends |-> o, leaves |-> {Leaf(o, a) : a \in ids}, slashed |-> {}]
<1>1. event \in Events
  <2>1. o \in Nat
    BY ConstantsAreTyped DEF Anchors
  <2>2. {Leaf(o, a) : a \in ids} \subseteq Leaves
    BY ConstantsAreTyped DEF Leaves
  <2> QED BY <2>1, <2>2 DEF Events
<1>2. /\ Len(history) < MaxEvents /\ history' = Append(history, event)
      /\ UNCHANGED <<files, bundle, verdict>>
  BY DEF Settle
<1> HIDE DEF event
<1> QED BY <1>1, <1>2, HistoryKeeps

\* A slash names a pseudonym.
LEMMA SlashKeeps ==
    ASSUME DisclosureInductive, NEW p \in Pseudonyms, Slash(p)
    PROVE  DisclosureInductive'
<1> DEFINE event == [spends |-> 0, leaves |-> {}, slashed |-> {p}]
<1>1. event \in Events
  BY DEF Events
<1>2. /\ Len(history) < MaxEvents /\ history' = Append(history, event)
      /\ UNCHANGED <<files, bundle, verdict>>
  BY DEF Slash
<1> HIDE DEF event
<1> QED BY <1>1, <1>2, HistoryKeeps

\* krep roots saves what it found.
LEMMA ScanKeeps ==
    ASSUME DisclosureInductive, NEW w \in Parties, NEW from \in 1..MaxEvents, NEW to \in 1..MaxEvents,
           Scan(w, from, to)
    PROVE  DisclosureInductive'
<1>1. /\ Len(history) = MaxEvents /\ ~files[w].scanned /\ from <= to
      /\ Cardinality(Scanned(from, to).leaves) <= 2^AnchorDepth
      /\ files' = [files EXCEPT ![w] = FileOf(from, to)]
      /\ UNCHANGED <<history, bundle, verdict>>
  BY DEF Scan
<1>2. DOMAIN files' = Parties /\ files'[w] = FileOf(from, to)
      /\ \A v \in Parties \ {w} : files'[v] = files[v]
  BY <1>1 DEF DisclosureInductive
<1>3. SavedScan(files[w])'
  <2>1. to \in from..MaxEvents
    BY <1>1, DisclosureAssumption
  <2>2. PICK found : found = Scanned(from, to)
    OBVIOUS
  <2>3. PICK file : file = FileOf(from, to)
    OBVIOUS
  <2>4. file = [scanned |-> TRUE, intact |-> TRUE, from |-> from, to |-> to,
                leaves |-> found.leaves, defaulted |-> found.slashed,
                anchoredRoot |-> AnchoredRoot(found.leaves),
                defaultsRoot |-> DefaultsRoot(found.slashed)]
    BY <2>2, <2>3 DEF FileOf
  <2>5. SavedScan(file)
    BY <1>1, <2>1, <2>2, <2>4 DEF SavedScan
  <2> QED BY <1>1, <1>2, <2>3, <2>5 DEF SavedScan, Scanned
<1>4. ASSUME NEW v \in Parties PROVE files'[v] = NoScan \/ SavedScan(files[v])'
  <2>1. CASE v = w
    BY <1>3, <2>1
  <2>2. CASE v # w
    <3>1. files[v] = NoScan \/ SavedScan(files[v])
      BY DEF DisclosureInductive
    <3> QED BY <1>1, <1>2, <2>2, <3>1 DEF SavedScan, Scanned
  <2> QED BY <2>1, <2>2
<1>5. \A v \in Parties : FileKept(v)
  BY <1>1, <1>2 DEF FileKept
<1>6. (bundle' = NoBundle \/ Proven') /\ (verdict' = NoVerdict \/ Judged')
  BY <1>1, <1>5, FilesKeepProofs
<1> QED BY <1>1, <1>2, <1>4, <1>6 DEF DisclosureInductive

\* A saved scan with less in its lists.
Damaged(file, leaves, keys) ==
    [scanned |-> TRUE, intact |-> FALSE, from |-> file.from, to |-> file.to,
     leaves |-> leaves, defaulted |-> keys,
     anchoredRoot |-> file.anchoredRoot, defaultsRoot |-> file.defaultsRoot]

LEMMA LossKeeps ==
    ASSUME DisclosureInductive, NEW w \in Parties, files[w].scanned,
           NEW leaves \in SUBSET files[w].leaves, NEW keys \in SUBSET files[w].defaulted,
           files' = [files EXCEPT ![w] = Damaged(files[w], leaves, keys)],
           UNCHANGED <<history, bundle, verdict>>
    PROVE  DisclosureInductive'
<1>1. SavedScan(files[w])
  BY DEF DisclosureInductive, NoScan
<1>2. DOMAIN files' = Parties /\ \A v \in Parties \ {w} : files'[v] = files[v]
  BY DEF DisclosureInductive
<1>3. PICK old, file : old = files[w] /\ file = files'[w]
  OBVIOUS
<1>4. file = Damaged(old, leaves, keys)
  BY <1>3 DEF DisclosureInductive
<1>5. SavedScan(file)
  <2>1. PICK found : found = Scanned(old.from, old.to)
    OBVIOUS
  <2>2. /\ old.anchoredRoot = AnchoredRoot(found.leaves)
        /\ old.defaultsRoot = DefaultsRoot(found.slashed)
        /\ Len(history) = MaxEvents /\ old.from \in 1..MaxEvents /\ old.to \in old.from..MaxEvents
        /\ Cardinality(found.leaves) <= 2^AnchorDepth
        /\ leaves \subseteq found.leaves /\ keys \subseteq found.slashed
    BY <1>1, <1>3, <2>1 DEF SavedScan
  <2>3. file.from = old.from /\ file.to = old.to
    BY <1>4 DEF Damaged
  <2>4. found = Scanned(file.from, file.to)
    BY <2>1, <2>3
  <2> QED BY <1>4, <2>2, <2>3, <2>4 DEF SavedScan, Damaged
<1>6. SavedScan(files[w])'
  BY <1>3, <1>5 DEF SavedScan, Scanned
<1>7. ASSUME NEW v \in Parties PROVE files'[v] = NoScan \/ SavedScan(files[v])'
  <2>1. CASE v = w
    BY <1>6, <2>1
  <2>2. CASE v # w
    <3>1. files[v] = NoScan \/ SavedScan(files[v])
      BY DEF DisclosureInductive
    <3> QED BY <1>2, <2>2, <3>1 DEF SavedScan, Scanned
  <2> QED BY <2>1, <2>2
<1>8. \A v \in Parties : FileKept(v)
  BY <1>2, <1>3, <1>4 DEF FileKept, Damaged
<1>9. (bundle' = NoBundle \/ Proven') /\ (verdict' = NoVerdict \/ Judged')
  BY <1>8, FilesKeepProofs
<1> QED BY <1>2, <1>7, <1>9 DEF DisclosureInductive

\* Whichever list an entry is lost from, the file is damaged.
LEMMA EditKeeps ==
    ASSUME DisclosureInductive, NEW w \in Parties, Edit(w)
    PROVE  DisclosureInductive'
<1>1. files[w].scanned /\ UNCHANGED <<history, bundle, verdict>>
  BY DEF Edit
<1>2. PICK yes, no, old : yes = TRUE /\ no = FALSE /\ old = files[w]
  OBVIOUS
<1>3. PICK file : file = [old EXCEPT !.intact = no]
  OBVIOUS
<1>4. \/ \E leaf \in file.leaves : files' = [files EXCEPT ![w] = [file EXCEPT !.leaves = @ \ {leaf}]]
      \/ \E key \in file.defaulted : files' = [files EXCEPT ![w] = [file EXCEPT !.defaulted = @ \ {key}]]
  BY <1>2, <1>3 DEF Edit
<1>5. PICK intact, from, to, leaves, keys, anchored, defaults :
          old = [scanned |-> yes, intact |-> intact, from |-> from, to |-> to,
                 leaves |-> leaves, defaulted |-> keys,
                 anchoredRoot |-> anchored, defaultsRoot |-> defaults]
  <2>1. PICK intact, from, to, leaves, keys, anchored, defaults :
            /\ intact = old.intact /\ from = old.from /\ to = old.to
            /\ leaves = old.leaves /\ keys = old.defaulted
            /\ anchored = AnchoredRoot(Scanned(old.from, old.to).leaves)
            /\ defaults = DefaultsRoot(Scanned(old.from, old.to).slashed)
    OBVIOUS
  <2>2. SavedScan(old)
    BY <1>1, <1>2 DEF DisclosureInductive, NoScan
  <2>3. old = [scanned |-> yes, intact |-> intact, from |-> from, to |-> to,
               leaves |-> leaves, defaulted |-> keys,
               anchoredRoot |-> anchored, defaultsRoot |-> defaults]
    BY <1>2, <2>1, <2>2 DEF SavedScan
  <2> QED BY <2>3
<1>6. /\ old.from = from /\ old.to = to /\ old.leaves = leaves /\ old.defaulted = keys
       /\ old.anchoredRoot = anchored /\ old.defaultsRoot = defaults
  BY <1>5
<1>7. file = [scanned |-> yes, intact |-> no, from |-> from, to |-> to,
              leaves |-> leaves, defaulted |-> keys,
              anchoredRoot |-> anchored, defaultsRoot |-> defaults]
  BY <1>3, <1>5
<1>8. CASE \E leaf \in file.leaves : files' = [files EXCEPT ![w] = [file EXCEPT !.leaves = @ \ {leaf}]]
  <2>1. PICK leaf : files' = [files EXCEPT ![w] = [file EXCEPT !.leaves = @ \ {leaf}]]
    BY <1>8
  <2>2. PICK rest, less : rest = file.leaves \ {leaf} /\ less = [file EXCEPT !.leaves = rest]
    OBVIOUS
  <2>3. files' = [files EXCEPT ![w] = less]
    BY <2>1, <2>2
  <2>4. less = [scanned |-> yes, intact |-> no, from |-> from, to |-> to,
                leaves |-> rest, defaulted |-> keys,
                anchoredRoot |-> anchored, defaultsRoot |-> defaults]
    BY <1>7, <2>2
  <2>5. less = Damaged(old, rest, old.defaulted)
    BY <1>2, <1>6, <2>4 DEF Damaged
  <2>6. rest \subseteq old.leaves
    BY <1>5, <1>7, <2>2
  <2>7. files' = [files EXCEPT ![w] = Damaged(files[w], rest, files[w].defaulted)]
        /\ rest \in SUBSET files[w].leaves
    BY <1>2, <2>3, <2>5, <2>6
  <2> QED BY <1>1, <2>7, LossKeeps
<1>9. CASE \E key \in file.defaulted : files' = [files EXCEPT ![w] = [file EXCEPT !.defaulted = @ \ {key}]]
  <2>1. PICK key : files' = [files EXCEPT ![w] = [file EXCEPT !.defaulted = @ \ {key}]]
    BY <1>9
  <2>2. PICK rest, less : rest = file.defaulted \ {key} /\ less = [file EXCEPT !.defaulted = rest]
    OBVIOUS
  <2>3. files' = [files EXCEPT ![w] = less]
    BY <2>1, <2>2
  <2>4. less = [scanned |-> yes, intact |-> no, from |-> from, to |-> to,
                leaves |-> leaves, defaulted |-> rest,
                anchoredRoot |-> anchored, defaultsRoot |-> defaults]
    BY <1>7, <2>2
  <2>5. less = Damaged(old, old.leaves, rest)
    BY <1>2, <1>6, <2>4 DEF Damaged
  <2>6. rest \subseteq old.defaulted
    BY <1>5, <1>7, <2>2
  <2>7. files' = [files EXCEPT ![w] = Damaged(files[w], files[w].leaves, rest)]
        /\ rest \in SUBSET files[w].defaulted
    BY <1>2, <2>3, <2>5, <2>6
  <2> QED BY <1>1, <2>7, LossKeeps
<1> QED BY <1>4, <1>8, <1>9

\* Nothing but a proof or a verdict changes.
LEMMA BundlesKeep ==
    ASSUME DisclosureInductive, UNCHANGED <<history, files>>,
           bundle' = NoBundle \/ Proven', verdict' = NoVerdict \/ Judged'
    PROVE  DisclosureInductive'
<1>1. ASSUME NEW w \in Parties PROVE files'[w] = NoScan \/ SavedScan(files[w])'
  <2>1. files[w] = NoScan \/ SavedScan(files[w])
    BY DEF DisclosureInductive
  <2> QED BY <2>1 DEF SavedScan, Scanned
<1> QED BY <1>1 DEF DisclosureInductive

\* Before a proof is sent, nothing was judged.
LEMMA NothingJudged ==
    ASSUME DisclosureInductive, ~bundle.sent
    PROVE  verdict = NoVerdict
BY DEF DisclosureInductive, Judged

\* krep prove sends what satisfied the circuit.
LEMMA ProveKeeps ==
    ASSUME DisclosureInductive, NEW p \in Pseudonyms, NEW chain \in ChainsOf(p),
           NEW min \in 0..MaxSuccesses, Prove(p, chain, min)
    PROVE  DisclosureInductive'
<1>1. PICK file, inputs, witness : /\ file = files["prover"] /\ inputs = InputsFrom(file, min)
                                   /\ witness = Witness(p, chain, file)
  OBVIOUS
<1>2. /\ file.scanned /\ ~bundle.sent /\ Readable(file)
      /\ CircuitHolds(inputs, witness)
      /\ UNCHANGED <<history, files, verdict>>
  BY <1>1 DEF Prove
<1>3. bundle' = [sent |-> TRUE, min |-> min, proof |-> inputs, by |-> "krep prove"]
  BY <1>1 DEF Prove
<1>4. inputs = InputsOf(file, min) /\ inputs.min = min
  BY <1>1, <1>2 DEF Readable, InputsFrom, InputsOf
<1>5. PICK used : used = Used(chain, file.leaves)
  OBVIOUS
<1>6. PICK n \in 0..MaxSuccesses : /\ DOMAIN used = 1..n /\ Len(used) = n
                                   /\ \A i \in 1..n : used[i] \in Ids
  BY <1>5, UsedAreOwn
<1>7. witness.key = p /\ witness.slots = [i \in 1..n |-> SlotFor(used[i], file.leaves)]
  BY <1>1, <1>5, <1>6 DEF Witness
<1>8. \E path : AbsenceHolds(inputs.defaults, p, path)
  BY <1>2, <1>7 DEF CircuitHolds
<1>9. ASSUME min # 0
      PROVE  \E slot : slot.body \in Ids /\ SlotHolds(inputs.anchored, p, slot)
  <2>1. Len(witness.slots) = n /\ DOMAIN witness.slots = 1..n
    BY <1>7
  <2>2. n >= min
    BY <1>2, <1>4, <2>1 DEF CircuitHolds
  <2>3. 1 \in 1..n
    BY <1>9, <2>2
  <2>4. SlotHolds(inputs.anchored, p, witness.slots[1])
    BY <1>2, <1>7, <2>1, <2>3 DEF CircuitHolds
  <2>5. witness.slots[1].body = used[1]
    BY <1>7, <2>3 DEF SlotFor
  <2> QED BY <1>6, <2>3, <2>4, <2>5
<1>10. Shown(inputs, p)
  BY <1>4, <1>8, <1>9 DEF Shown
<1>11. Proven'
  <2>1. p \in Keys
    BY ConstantsAreTyped
  <2>2. bundle'.sent /\ bundle'.by = "krep prove" /\ bundle'.min = min /\ bundle'.proof = inputs
    BY <1>3
  <2>3. files'["prover"].scanned /\ bundle'.proof = InputsOf(files'["prover"], bundle'.min)
    BY <1>1, <1>2, <1>4, <2>2
  <2> QED BY <1>4, <1>10, <2>1, <2>2, <2>3 DEF Proven
<1>12. verdict' = NoVerdict
  BY <1>2, NothingJudged
<1> QED BY <1>2, <1>11, <1>12, BundlesKeep

\* So does any other prover.
LEMMA ProveByHandKeeps ==
    ASSUME DisclosureInductive, NEW key \in Keys, ProveByHand(key)
    PROVE  DisclosureInductive'
<1>1. PICK leaves, defaulted : leaves = files["prover"].leaves /\ defaulted = files["prover"].defaulted
  OBVIOUS
<1>2. /\ ~bundle.sent /\ UNCHANGED <<history, files, verdict>>
      /\ \E path : AbsenceHolds(DefaultsRoot(defaulted), key, path)
  BY <1>1 DEF ProveByHand
<1>3. PICK bodies \in BoundedSeq(Provable(leaves, key), MaxSuccesses) :
          \E min \in 0..Len(bodies), said \in 0..MaxSuccesses :
             bundle' = [sent |-> TRUE, min |-> said, proof |-> InputsFrom(files["prover"], min),
                        by |-> "hand"]
  BY <1>1 DEF ProveByHand
<1>4. PICK min \in 0..Len(bodies), said \in 0..MaxSuccesses :
             bundle' = [sent |-> TRUE, min |-> said, proof |-> InputsFrom(files["prover"], min),
                        by |-> "hand"]
  BY <1>3
<1>5. PICK n \in 0..MaxSuccesses : bodies \in [1..n -> Provable(leaves, key)]
  BY <1>3, DisclosureAssumption DEF BoundedSeq, SeqOf
<1>6. Len(bodies) = n /\ min \in 0..n /\ min \in 0..MaxSuccesses
  BY <1>5, DisclosureAssumption
<1>7. PICK inputs : inputs = InputsFrom(files["prover"], min)
  OBVIOUS
<1>8. /\ inputs.min = min /\ inputs.anchored = AnchoredRoot(leaves)
      /\ inputs.defaults = DefaultsRoot(defaulted)
  BY <1>1, <1>7 DEF InputsFrom
<1>9. ASSUME min # 0
      PROVE  \E slot : slot.body \in Ids /\ SlotHolds(inputs.anchored, key, slot)
  <2>1. 1 \in 1..n
    BY <1>6, <1>9
  <2>2. bodies[1] \in Provable(leaves, key)
    BY <1>5, <2>1
  <2>3. PICK a \in Ids : \E index, path :
            SlotHolds(AnchoredRoot(leaves), key, [body |-> a, index |-> index, path |-> path])
    BY <2>2 DEF Provable
  <2>4. PICK slot : slot.body = a /\ SlotHolds(AnchoredRoot(leaves), key, slot)
    BY <2>3
  <2> QED BY <1>8, <2>4
<1>10. Shown(inputs, key)
  BY <1>2, <1>8, <1>9 DEF Shown
<1>11. Proven'
  <2>1. bundle'.sent /\ bundle'.by = "hand" /\ bundle'.min = said /\ bundle'.proof = inputs
    BY <1>4, <1>7
  <2> QED BY <1>6, <1>8, <1>10, <2>1 DEF Proven
<1>12. verdict' = NoVerdict
  BY <1>2, NothingJudged
<1> QED BY <1>2, <1>11, <1>12, BundlesKeep

\* check-proof's verdict compares with the roots of the verifier's own scan.
LEMMA CheckProofKeeps ==
    ASSUME DisclosureInductive, NEW required \in 0..MaxSuccesses, CheckProof(required)
    PROVE  DisclosureInductive'
<1>1. PICK file : file = files["verifier"]
  OBVIOUS
<1>2. /\ bundle.sent /\ file.scanned /\ UNCHANGED <<history, files, bundle>>
      /\ verdict' = [given |-> TRUE, accepted |-> Accepts(file, required), required |-> required]
  BY <1>1 DEF CheckProof
<1>3. verdict'.given /\ verdict'.required = required /\ verdict'.accepted = Accepts(file, required)
  BY <1>2
<1>4. Accepts(file, required) \in BOOLEAN
  BY DEF Accepts
<1>5. ASSUME Accepts(file, required)
      PROVE  required <= bundle.min /\ bundle.proof = InputsOf(file, bundle.min)
  <2>1. required <= bundle.min
    <3>1. Proven
      BY <1>2 DEF DisclosureInductive, NoBundle
    <3>2. bundle.min \in 0..MaxSuccesses
      BY <3>1 DEF Proven
    <3>3. bundle.min >= required
      BY <1>5 DEF Accepts
    <3> QED BY <3>2, <3>3, DisclosureAssumption
  <2> QED BY <1>5, <2>1 DEF Accepts, Readable, Verifies, InputsFrom, InputsOf
<1>6. Judged'
  <2>1. required \in Nat
    BY DisclosureAssumption
  <2>2. Accepts(files["verifier"], required)' = Accepts(file, required)
    BY <1>1, <1>2 DEF Accepts, Verifies
  <2>3. (verdict'.accepted = Accepts(files["verifier"], verdict.required)')
    BY <1>3, <2>2 DEF Accepts, Verifies
  <2>4. verdict'.accepted =>
          /\ verdict'.required <= bundle'.min
          /\ bundle'.proof = InputsOf(files'["verifier"], bundle'.min)
    BY <1>1, <1>2, <1>3, <1>5
  <2>5. verdict'.accepted \in BOOLEAN
    BY <1>3, <1>4
  <2> QED BY <1>1, <1>2, <1>3, <2>1, <2>3, <2>4, <2>5 DEF Judged
<1>7. bundle' = NoBundle \/ Proven'
  BY <1>2 DEF DisclosureInductive, Proven
<1> QED BY <1>2, <1>6, <1>7, BundlesKeep

\* So every step keeps it.
LEMMA DisclosureNextKeeps ==
    DisclosureInductive /\ [DisclosureNext]_disclosureVars => DisclosureInductive'
<1> SUFFICES ASSUME DisclosureInductive, [DisclosureNext]_disclosureVars
             PROVE  DisclosureInductive'
  OBVIOUS
<1>1. CASE \E o \in Anchors : \E ids \in Payments[o] : Settle(o, ids)
  BY <1>1, SettleKeeps
<1>2. CASE \E p \in Pseudonyms : Slash(p)
  BY <1>2, SlashKeeps
<1>3. CASE \E w \in Parties, from, to \in 1..MaxEvents : Scan(w, from, to)
  BY <1>3, ScanKeeps
<1>4. CASE \E w \in Parties : Edit(w)
  BY <1>4, EditKeeps
<1>5. CASE \E p \in Pseudonyms : \E chain \in ChainsOf(p), min \in 0..MaxSuccesses : Prove(p, chain, min)
  BY <1>5, ProveKeeps
<1>6. CASE \E key \in Keys : ProveByHand(key)
  BY <1>6, ProveByHandKeeps
<1>7. CASE \E required \in 0..MaxSuccesses : CheckProof(required)
  BY <1>7, CheckProofKeeps
<1>8. CASE UNCHANGED disclosureVars
  <2>1. /\ UNCHANGED <<history, files, bundle, verdict>>
    BY <1>8 DEF disclosureVars
  <2>2. \A w \in Parties : FileKept(w)
    BY <2>1 DEF FileKept
  <2>3. (bundle' = NoBundle \/ Proven') /\ (verdict' = NoVerdict \/ Judged')
    BY <2>1, <2>2, FilesKeepProofs
  <2> QED BY <2>1, <2>3, BundlesKeep
<1> QED BY <1>1, <1>2, <1>3, <1>4, <1>5, <1>6, <1>7, <1>8 DEF DisclosureNext

----------------------------------------------------------------------------
(* The theorems *)

\* What every step keeps always holds.
THEOREM DisclosureAlwaysInductive == DisclosureSpec => []DisclosureInductive
<1>1. DisclosureInit => DisclosureInductive
  BY DisclosureInitInductive
<1>2. DisclosureInductive /\ [DisclosureNext]_disclosureVars => DisclosureInductive'
  BY DisclosureNextKeeps
<1> QED BY <1>1, <1>2, PTL DEF DisclosureSpec

\* What was sent is a proof, and what was given is a judgement of one.
LEMMA SentIsProven ==
    ASSUME DisclosureInductive, bundle.sent
    PROVE  Proven
<1>1. bundle # NoBundle
  BY DEF NoBundle
<1> QED BY <1>1 DEF DisclosureInductive

LEMMA GivenIsJudged ==
    ASSUME DisclosureInductive, verdict.given
    PROVE  Judged /\ Proven
<1>1. verdict # NoVerdict
  BY DEF NoVerdict
<1>2. Judged
  BY <1>1 DEF DisclosureInductive
<1> QED BY <1>2, SentIsProven DEF Judged

\* Every variable keeps its type, for any number of attestations and any depths
\* of the trees.
THEOREM DisclosureTypeCorrect == DisclosureSpec => []DisclosureTypeOK
<1>1. ASSUME DisclosureInductive PROVE DisclosureTypeOK
  <2>1. history \in Seq(Events) /\ Len(history) <= MaxEvents
    BY <1>1 DEF DisclosureInductive
  <2>2. \A i \in DOMAIN history : history[i].leaves \subseteq Leaves /\ history[i].slashed \subseteq Pseudonyms
    <3>1. \A i \in DOMAIN history : history[i] \in Events
      BY <2>1
    <3> QED BY <3>1 DEF Events
  <2>3. ASSUME NEW w \in Parties, files[w].scanned
        PROVE  /\ 1 <= files[w].from /\ files[w].from <= files[w].to /\ files[w].to <= Len(history)
               /\ files[w].leaves \subseteq Leaves /\ files[w].defaulted \subseteq Pseudonyms
    <3>1. SavedScan(files[w]) /\ files[w].leaves \subseteq Leaves /\ files[w].defaulted \subseteq Pseudonyms
      BY <1>1, <2>3, SavedIsTyped
    <3>2. PICK from \in 1..MaxEvents : from = files[w].from
      BY <3>1 DEF SavedScan
    <3>3. PICK to \in from..MaxEvents : to = files[w].to /\ Len(history) = MaxEvents
      BY <3>1, <3>2 DEF SavedScan
    <3> QED BY <3>1, <3>2, <3>3, DisclosureAssumption
  <2>4. bundle.sent => bundle.by \in {"krep prove", "hand"} /\ {bundle.min, bundle.proof.min} \subseteq 0..MaxSuccesses
    BY <1>1, SentIsProven DEF Proven
  <2>5. verdict.given => bundle.sent /\ verdict.accepted \in BOOLEAN
    BY <1>1, GivenIsJudged DEF Judged
  <2> QED BY <2>1, <2>2, <2>3, <2>4, <2>5 DEF DisclosureTypeOK
<1> QED BY <1>1, DisclosureAlwaysInductive, PTL

\* Whatever krep prove does not refuse to write down satisfies the assertions of
\* the circuit, so that it never fails after it has said what it will prove.
THEOREM WitnessesAlwaysExecute == DisclosureSpec => []WitnessesExecute
<1>1. ASSUME DisclosureInductive PROVE WitnessesExecute
  <2> SUFFICES ASSUME files["prover"].scanned, Readable(files["prover"]),
                      NEW p \in Pseudonyms, NEW chain \in ChainsOf(p), NEW min \in 0..MaxSuccesses,
                      ~Refused(p, chain, files["prover"], min)
               PROVE  CircuitHolds(InputsFrom(files["prover"], min), Witness(p, chain, files["prover"]))
    BY DEF WitnessesExecute
  <2>1. PICK file : file = files["prover"]
    OBVIOUS
  <2>2. file.leaves \in SUBSET Leaves /\ file.defaulted \in SUBSET Pseudonyms
    BY <1>1, <2>1, SavedIsTyped DEF Parties
  <2>3. min \in Nat
    BY DisclosureAssumption
  <2> QED BY <2>1, <2>2, <2>3, WitnessHolds
<1> QED BY <1>1, DisclosureAlwaysInductive, PTL

\* check-proof accepts what krep prove made over the same accumulators, at any
\* threshold the prover claimed.
THEOREM HonestProofsAlwaysPass == DisclosureSpec => []HonestProofsPass
<1>1. ASSUME DisclosureInductive PROVE HonestProofsPass
  <2> SUFFICES ASSUME verdict.given, bundle.by = "krep prove", verdict.required <= bundle.min,
                      Found("prover") = Found("verifier"), files["verifier"].intact
               PROVE  verdict.accepted
    BY DEF HonestProofsPass
  <2>1. Judged
    BY <1>1, GivenIsJudged
  <2>2. Proven
    BY <1>1, GivenIsJudged
  <2>3. PICK mine, theirs, found : /\ mine = files["prover"] /\ theirs = files["verifier"]
                                   /\ found = Found("verifier")
    OBVIOUS
  <2>4. /\ mine.scanned /\ theirs.scanned
        /\ bundle.proof = InputsOf(mine, bundle.min)
    BY <2>1, <2>2, <2>3 DEF Judged, Proven
  <2>5. /\ mine.anchoredRoot = theirs.anchoredRoot /\ mine.defaultsRoot = theirs.defaultsRoot
        /\ theirs.anchoredRoot = AnchoredRoot(found.leaves)
        /\ theirs.defaultsRoot = DefaultsRoot(found.slashed)
    BY <1>1, <2>3, <2>4, SavedIsTyped DEF Parties
  <2>6. /\ theirs.leaves = found.leaves /\ theirs.defaulted = found.slashed
        /\ Cardinality(found.leaves) <= 2^AnchorDepth
    <3>1. SavedScan(theirs)
      BY <1>1, <2>3, <2>4, SavedIsTyped DEF Parties
    <3>2. found = Scanned(theirs.from, theirs.to)
      BY <2>3 DEF Found
    <3> QED BY <2>3, <3>1, <3>2 DEF SavedScan
  <2>7. Readable(theirs)
    BY <2>5, <2>6 DEF Readable
  <2>8. Verifies(theirs, verdict.required)
    BY <2>4, <2>5, <2>6 DEF Verifies, InputsFrom, InputsOf
  <2>9. bundle.min >= verdict.required
    <3>1. PICK min \in 0..MaxSuccesses : min = bundle.min
      BY <2>2 DEF Proven
    <3>2. PICK required \in Nat : required = verdict.required
      BY <2>1 DEF Judged
    <3> QED BY <3>1, <3>2, DisclosureAssumption
  <2>10. Accepts(theirs, verdict.required)
    BY <2>7, <2>8, <2>9 DEF Accepts
  <2> QED BY <2>1, <2>3, <2>10 DEF Judged
<1> QED BY <1>1, DisclosureAlwaysInductive, PTL

\* Inputs that the circuit was satisfied with speak the truth of the sets behind
\* the roots.
LEMMA ShownIsTrue ==
    ASSUME NEW leaves \in SUBSET Leaves, NEW keys \in SUBSET Pseudonyms, NEW key \in Keys,
           NEW inputs, inputs.anchored = AnchoredRoot(leaves), inputs.defaults = DefaultsRoot(keys),
           Shown(inputs, key)
    PROVE  /\ key \notin keys
           /\ inputs.min = 0 \/
                \E a \in Ids : /\ Attestations[a].owner = key /\ Attestations[a].success
                               /\ Leaf(Attestations[a].anchor, a) \in leaves
<1>1. key \notin keys
  <2>1. PICK path : AbsenceHolds(DefaultsRoot(keys), key, path)
    BY DEF Shown
  <2>2. keys \in SUBSET Keys
    BY ConstantsAreTyped
  <2> QED BY <2>1, <2>2, OnlyCleanKeysAreProvable
<1>2. ASSUME inputs.min # 0
      PROVE  \E a \in Ids : /\ Attestations[a].owner = key /\ Attestations[a].success
                            /\ Leaf(Attestations[a].anchor, a) \in leaves
  <2>1. PICK slot : slot.body \in Ids /\ SlotHolds(AnchoredRoot(leaves), key, slot)
    BY <1>2 DEF Shown
  <2>2. PICK a \in Ids, anchor \in Anchors : a = slot.body /\ anchor = Attestations[a].anchor
    BY <2>1, ConstantsAreTyped
  <2>3. PICK id \in Ids \cup {0} : CircuitLeaf(a) = Leaf(anchor, id) /\ id \in {a, 0}
    BY <2>2 DEF CircuitLeaf
  <2>4. Leaf(anchor, id) \in leaves
    BY <2>1, <2>2, <2>3, OnlyLeavesAreProvable DEF SlotHolds
  <2>5. PICK o \in Anchors, b \in Ids : Leaf(anchor, id) = Leaf(o, b)
    BY <2>4 DEF Leaves
  <2>6. id = b
    BY <2>5, LeavesDiffer
  <2>7. id = a
    BY <2>3, <2>6, ConstantsAreTyped DEF Ids
  <2> QED BY <2>1, <2>2, <2>4, <2>7 DEF SlotHolds
<1> QED BY <1>1, <1>2

\* A proof that check-proof accepts is of a pseudonym not slashed in the stretch
\* the verifier scanned, with a success of its own settled there if any was asked
\* for, however it was made.
THEOREM AcceptedIsAlwaysAnchoredAndClean == DisclosureSpec => []AcceptedIsAnchoredAndClean
<1>1. ASSUME DisclosureInductive PROVE AcceptedIsAnchoredAndClean
  <2> SUFFICES ASSUME verdict.given, verdict.accepted
               PROVE  \E key \in Keys \ Found("verifier").slashed :
                         verdict.required = 0 \/ SuccessesOf(key, Found("verifier")) # {}
    BY DEF AcceptedIsAnchoredAndClean, Accepted
  <2>1. Judged
    BY <1>1, GivenIsJudged
  <2>2. Proven
    BY <1>1, GivenIsJudged
  <2>3. PICK theirs, inputs, found : /\ theirs = files["verifier"] /\ inputs = bundle.proof
                                     /\ found = Found("verifier")
    OBVIOUS
  <2>4. PICK key \in Keys : Shown(inputs, key)
    BY <2>2, <2>3 DEF Proven
  <2>5. /\ theirs.scanned /\ verdict.required <= bundle.min
        /\ inputs = InputsOf(theirs, bundle.min)
    BY <2>1, <2>3 DEF Judged
  <2>6. /\ inputs.anchored = AnchoredRoot(found.leaves) /\ inputs.defaults = DefaultsRoot(found.slashed)
        /\ found.leaves \in SUBSET Leaves /\ found.slashed \in SUBSET Pseudonyms
        /\ inputs.min = bundle.min
    BY <1>1, <2>3, <2>5, SavedIsTyped DEF InputsOf, Parties
  <2>7. /\ key \notin found.slashed
        /\ inputs.min = 0 \/
             \E a \in Ids : /\ Attestations[a].owner = key /\ Attestations[a].success
                            /\ Leaf(Attestations[a].anchor, a) \in found.leaves
    BY <2>4, <2>6, ShownIsTrue
  <2>8. verdict.required = 0 \/ inputs.min # 0
    <3>1. PICK required \in Nat, min \in 0..MaxSuccesses : required = verdict.required /\ min = bundle.min
      BY <2>1, <2>2 DEF Judged, Proven
    <3> QED BY <2>5, <2>6, <3>1, DisclosureAssumption
  <2>9. verdict.required = 0 \/ SuccessesOf(key, found) # {}
    BY <2>7, <2>8 DEF SuccessesOf
  <2> QED BY <2>3, <2>7, <2>9
<1> QED BY <1>1, DisclosureAlwaysInductive, PTL
=============================================================================
