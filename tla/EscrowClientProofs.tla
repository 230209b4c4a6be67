------------------------- MODULE EscrowClientProofs -------------------------
(***************************************************************************)
(* Proofs about the commands of an escrow's parties, for any number of     *)
(* transactions, outages and payments beside the escrow.                   *)
(*                                                                         *)
(* The money's trail is not inductive as CurrentStateIsKnown has it: what  *)
(* will be accepted must be known before it is.  So Trail speaks of every  *)
(* transaction that may still be accepted (Viable), and of who submitted   *)
(* it.  A file that is handed over replaces another only if the other does *)
(* not rest on it, and Comparable says that what is lost then is not       *)
(* viable: accepted transactions are one line, and so is all that may      *)
(* still join it.                                                          *)
(*                                                                         *)
(* Ancestry is recursive in the transactions.  Nothing is proved by        *)
(* induction over them: that there is one such function (OneLineage), and  *)
(* what it is like (Lines), is kept by every step that adds one.           *)
(*                                                                         *)
(* That the covenant accepts what the client builds is shown without       *)
(* ENABLED, which is beyond the provers: what waits and has its inputs     *)
(* fits the covenant's state (Fits), and what fits has a successor state   *)
(* in which it is accepted, written out in Accepting.                      *)
(***************************************************************************)
EXTENDS EscrowClient, FiniteSetTheorems, TLAPS

----------------------------------------------------------------------------
(* Ancestry *)

\* What Ancestry chooses: for each id, what its file rests on.
Lineage(g) ==
    g = [i \in 0..Len(known) |->
            IF i = 0 THEN {}
            ELSE {i} \cup (IF known[i].spends < i THEN g[known[i].spends] ELSE {})]

\* The transactions are a list of something, each spends an earlier one or none.
Listed ==
    /\ \E S : known \in Seq(S)
    /\ \A i \in Ids : known[i].spends \in 0..(i - 1)

\* A path through numbered things that lead to earlier ones.
Path(g, n, up) == g = [i \in 0..n |-> IF i = 0 THEN {} ELSE {i} \cup g[up[i]]]

\* The only one.
OnePath(g, n, up) == Path(g, n, up) /\ \A h : Path(h, n, up) => h = g

\* What leads on from each transaction.
Spent == [i \in Ids |-> known[i].spends]

\* The things up leads on from, and one after them.
Continues(n, up, more) ==
    /\ \A i \in 1..n : up[i] \in 0..(i - 1) /\ more[i] = up[i]
    /\ more[n + 1] \in 0..n

\* The paths g, and one for the thing after them.
Lengthened(g, n, up, k) ==
    /\ OnePath(k, n + 1, up)
    /\ \A i \in 0..n : k[i] = g[i]
    /\ k[n + 1] = {n + 1} \cup g[up[n + 1]]

\* One more thing at the end leads to one more path and changes none.
LEMMA PathGrows ==
    ASSUME NEW n \in Nat, NEW up, NEW g, OnePath(g, n, up), NEW more, Continues(n, up, more)
    PROVE  \E k : Lengthened(g, n, more, k)
<1>1. \A i \in 0..n : g[i] = IF i = 0 THEN {} ELSE {i} \cup g[up[i]]
  BY DEF OnePath, Path
<1>2. PICK k : k = [i \in 0..(n + 1) |-> IF i = n + 1 THEN {n + 1} \cup g[more[n + 1]] ELSE g[i]]
  OBVIOUS
<1>3. /\ \A i \in 0..n : k[i] = g[i]
      /\ k[n + 1] = {n + 1} \cup g[more[n + 1]]
      /\ k = [i \in 0..(n + 1) |-> k[i]]
  BY <1>2
<1>4. /\ \A i \in 1..n : i \in 0..n /\ i # 0 /\ up[i] \in 0..n /\ more[i] = up[i]
      /\ more[n + 1] \in 0..n
  BY DEF Continues
<1>5. \A i \in 0..(n + 1) : i = n + 1 \/ i = 0 \/ i \in 1..n
  OBVIOUS
<1>6. g[0] = {} /\ 0 \in 0..n /\ n + 1 # 0 /\ n + 1 \in 0..(n + 1) /\ 0..n \subseteq 0..(n + 1)
  <2>1. 0 \in 0..n /\ n + 1 # 0 /\ n + 1 \in 0..(n + 1)
    OBVIOUS
  <2>2. ASSUME NEW i \in 0..n PROVE i \in 0..(n + 1)
    OBVIOUS
  <2> QED BY <1>1, <2>1, <2>2
<1>7. Path(k, n + 1, more)
  <2>1. ASSUME NEW i \in 0..(n + 1)
        PROVE  k[i] = IF i = 0 THEN {} ELSE {i} \cup k[more[i]]
    <3>1. CASE i = n + 1
      BY <1>3, <1>4, <1>6, <3>1
    <3>2. CASE i = 0
      BY <1>3, <1>6, <3>2
    <3>3. CASE i \in 1..n
      <4>1. i \in 0..n /\ i # 0 /\ up[i] \in 0..n /\ more[i] = up[i]
        BY <1>4, <3>3
      <4>2. k[i] = g[i] /\ k[up[i]] = g[up[i]]
        BY <1>3, <4>1
      <4>3. g[i] = {i} \cup g[up[i]]
        BY <1>1, <4>1
      <4> QED BY <4>1, <4>2, <4>3
    <3> QED BY <1>5, <3>1, <3>2, <3>3
  <2> QED BY <1>3, <2>1 DEF Path
<1>8. ASSUME NEW h, Path(h, n + 1, more) PROVE h = k
  <2>1. /\ \A i \in 0..(n + 1) : h[i] = IF i = 0 THEN {} ELSE {i} \cup h[more[i]]
        /\ h = [i \in 0..(n + 1) |-> h[i]]
    BY <1>8 DEF Path
  <2>2. PICK r : r = [i \in 0..n |-> h[i]]
    OBVIOUS
  <2>3. r = [i \in 0..n |-> r[i]] /\ \A i \in 0..n : r[i] = h[i]
    BY <2>2
  <2>4. ASSUME NEW i \in 0..n PROVE r[i] = IF i = 0 THEN {} ELSE {i} \cup r[up[i]]
    <3>1. CASE i = 0
      BY <1>6, <2>1, <2>3, <3>1
    <3>2. CASE i \in 1..n
      BY <1>4, <1>6, <2>1, <2>3, <3>2
    <3> QED BY <3>1, <3>2
  <2>5. r = g
    <3>1. Path(r, n, up)
      BY <2>3, <2>4 DEF Path
    <3> QED BY <3>1 DEF OnePath
  <2>6. h[n + 1] = {n + 1} \cup g[more[n + 1]]
    BY <1>4, <1>6, <2>1, <2>3, <2>5
  <2>7. ASSUME NEW i \in 0..(n + 1) PROVE h[i] = k[i]
    <3>1. CASE i = n + 1
      BY <1>3, <2>6, <3>1
    <3>2. CASE i \in 0..n
      BY <1>3, <2>3, <2>5, <3>2
    <3> QED BY <3>1, <3>2
  <2> QED BY <1>3, <2>1, <2>7
<1> QED BY <1>3, <1>7, <1>8 DEF OnePath, Lengthened

\* Ancestry follows the one path there is.
LEMMA AncestryIsPath ==
    \A g : Listed /\ OnePath(g, Len(known), Spent) => \A f : Ancestry(f) = g[f]
<1> SUFFICES ASSUME Listed, NEW g, OnePath(g, Len(known), Spent)
             PROVE  \A f : Ancestry(f) = g[f]
  OBVIOUS
<1>0. PICK n \in Nat : n = Len(known)
  BY DEF Listed
<1>1. ASSUME NEW h PROVE Lineage(h) <=> Path(h, n, Spent)
  <2>1. ASSUME NEW i \in 0..n
        PROVE  (IF i = 0 THEN {}
                ELSE {i} \cup (IF known[i].spends < i THEN h[known[i].spends] ELSE {}))
               = (IF i = 0 THEN {} ELSE {i} \cup h[Spent[i]])
    <3>1. CASE i = 0
      BY <3>1
    <3>2. CASE i # 0
      <4>1. i \in Ids /\ i \in Nat
        BY <1>0, <3>2 DEF Ids
      <4>2. known[i].spends \in 0..(i - 1) /\ Spent[i] = known[i].spends
        BY <4>1 DEF Listed, Spent
      <4>3. known[i].spends < i
        BY <4>1, <4>2
      <4> QED BY <4>2, <4>3
    <3> QED BY <3>1, <3>2
  <2> QED BY <1>0, <2>1 DEF Lineage, Path
<1>2. g = CHOOSE h : Lineage(h)
  BY <1>0, <1>1 DEF OnePath
<1> QED BY <1>2 DEF Ancestry, Lineage

\* The same, after a step.
LEMMA AncestryIsPathNext ==
    \A g : (Listed /\ OnePath(g, Len(known), Spent))' => \A f : Ancestry(f)' = g[f]
<1>1. (\A g : Listed /\ OnePath(g, Len(known), Spent) => \A f : Ancestry(f) = g[f])'
  BY AncestryIsPath, PTL
<1> QED BY <1>1

\* Ancestry is determined by what is spent.
OneLineage == Listed /\ \E g : OnePath(g, Len(known), Spent)

\* A new transaction has the ancestry of what it spends, and the others keep theirs.
LEMMA AncestryGrows ==
    ASSUME OneLineage, NEW tx, tx.spends \in 0..Len(known), known' = Append(known, tx),
           NEW n, n = Len(known)
    PROVE  /\ OneLineage' /\ n \in Nat /\ Len(known') = n + 1
           /\ known'[n + 1] = tx
           /\ \A i \in 1..n : known'[i] = known[i]
           /\ \A f \in 0..n : Ancestry(f)' = Ancestry(f)
           /\ Ancestry(n + 1)' = {n + 1} \cup Ancestry(tx.spends)
<1>0. PICK S : known \in Seq(S)
  BY DEF OneLineage, Listed
<1>1. n \in Nat /\ n = Len(known)
  BY <1>0
<1>2. known \in Seq(S \cup {tx}) /\ tx \in S \cup {tx}
  BY <1>0
<1>3. /\ known' \in Seq(S \cup {tx}) /\ Len(known') = n + 1 /\ known'[n + 1] = tx
      /\ \A i \in 1..n : known'[i] = known[i]
  BY <1>1, <1>2
<1>4. /\ \A i \in 1..n : Spent[i] \in 0..(i - 1) /\ Spent'[i] = Spent[i]
      /\ Spent'[n + 1] = tx.spends
      /\ Listed'
  <2>1. \A i \in 1..n : known[i].spends \in 0..(i - 1)
    BY <1>1 DEF OneLineage, Listed, Ids
  <2>2. \A i \in 1..(n + 1) : Spent'[i] = known'[i].spends
    BY <1>3 DEF Spent, Ids
  <2>3. \A i \in 1..n : Spent[i] = known[i].spends
    BY <1>1 DEF Spent, Ids
  <2>4. \A i \in 1..(n + 1) : known'[i].spends \in 0..(i - 1)
    BY <1>1, <1>3, <2>1
  <2>5. Listed'
    BY <1>3, <2>4 DEF Listed, Ids
  <2>6. n + 1 \in 1..(n + 1) /\ 1..n \subseteq 1..(n + 1)
    OBVIOUS
  <2> HIDE DEF Spent
  <2> QED BY <1>3, <2>1, <2>2, <2>3, <2>5, <2>6
<1>5. PICK g : OnePath(g, n, Spent)
  BY <1>1 DEF OneLineage
<1>6. PICK k : Lengthened(g, n, Spent', k)
  <2>1. Continues(n, Spent, Spent')
    BY <1>1, <1>4 DEF Continues
  <2>2. PICK up, more : up = Spent /\ more = Spent'
    OBVIOUS
  <2>3. \E k : Lengthened(g, n, more, k)
    BY <1>5, <2>1, <2>2, PathGrows
  <2> QED BY <2>2, <2>3
<1>7. \A f : Ancestry(f) = g[f]
  BY <1>1, <1>5, AncestryIsPath DEF OneLineage
<1>8. Listed' /\ OnePath(k, Len(known), Spent)'
  BY <1>3, <1>4, <1>6 DEF Lengthened, OnePath, Path
<1>9. \A f : Ancestry(f)' = k[f]
  BY <1>8, AncestryIsPathNext
<1>10. OneLineage'
  BY <1>8 DEF OneLineage
<1>11. /\ \A f \in 0..n : Ancestry(f)' = Ancestry(f)
       /\ Ancestry(n + 1)' = {n + 1} \cup Ancestry(tx.spends)
  BY <1>4, <1>6, <1>7, <1>9 DEF Lengthened
<1> QED BY <1>1, <1>3, <1>10, <1>11 DEF Ids

----------------------------------------------------------------------------
(* What is inductive *)

Escrowed(i) == known[i].branch # "Send"

\* There are attestations, all anchored to output `of`.
AnchoredTo(of, ids) == ids # {} /\ \A a \in ids : a.anchor = of

\* Every transaction is one the commands build.
Built ==
    \A i \in Ids :
        /\ known[i].branch \in Covenanted \cup Outcomes \cup {"Send"}
        /\ known[i].by \in Parties
        /\ known[i].spends = 0 <=> known[i].branch \in {"Open", "Send"}
        /\ known[i].spends # 0 => Escrowed(known[i].spends)
        /\ known[i].branch \in {"Settle", "Slash"} => AnchoredTo(known[i].spends, known[i].ids)

\* Ancestries are lines that end in an Open.
Lines ==
    /\ Ancestry(0) = {}
    /\ \A i \in Ids :
           /\ Ancestry(i) = {i} \cup Ancestry(known[i].spends)
           /\ Ancestry(i) \subseteq 1..i
           /\ \A j \in Ancestry(i) :
                  /\ Ancestry(j) \subseteq Ancestry(i)
                  /\ j # i => \E b \in Ancestry(i) : known[b].spends = j
                  /\ Escrowed(i) => Escrowed(j)
           /\ \E r \in Ancestry(i) : known[r].spends = 0

\* What the parties have, and that a running command rests on the file it read.
Held ==
    /\ mempool \in SUBSET Ids /\ accepted \in SUBSET Ids /\ mempool \cap accepted = {}
    /\ files \in [Parties -> Ids \cup {0}] /\ running \in [Parties -> Ids \cup {0}]
    /\ atts \subseteq [side : Parties, anchor : Ids]
    /\ outages \in Nat
    /\ \A p \in Parties :
           /\ files[p] # 0 => Escrowed(files[p])
           /\ running[p] # 0 => Escrowed(running[p]) /\ known[running[p]].spends = files[p]

\* What is accepted is one line of transactions, from one Open.
Ledger ==
    /\ \A i \in accepted : Ancestry(i) \subseteq accepted
    /\ \A i, j \in accepted :
           Escrowed(i) /\ Escrowed(j) /\ known[i].spends = known[j].spends => i = j
    /\ "phase" \in DOMAIN escrow
    /\ \A i \in accepted : known[i].branch = "Open" => escrow.phase # "None"

\* No accepted transaction took the place of one that i rests on.
Viable(i) ==
    \A a \in Ancestry(i), b \in accepted :
        Escrowed(b) /\ known[b].spends = known[a].spends => b = a

Comparable ==
    \A i \in Ids, f \in accepted :
        Escrowed(i) /\ Viable(i) /\ Escrowed(f) => i \in Ancestry(f) \/ f \in Ancestry(i)

\* What a party rests on, the move it is making included.
Knowledge(p) == Ancestry(files[p]) \cup Ancestry(running[p])

\* Whoever submitted what may still be accepted, or was, has the trail to it.
Trail == outages = 0 => \A i \in Ids : Escrowed(i) /\ Viable(i) => i \in Knowledge(known[i].by)

Structure == OneLineage /\ Built /\ Lines /\ Held /\ Ledger

Inductive == Structure /\ Comparable /\ Trail

----------------------------------------------------------------------------
(* A command submits *)

\* What a command of p submits.
WellBuilt(p, tx) ==
    /\ tx.branch \in Covenanted \cup Outcomes \cup {"Send"} /\ tx.by = p
    /\ tx.spends = 0 <=> tx.branch \in {"Open", "Send"}
    /\ tx.branch # "Send" => tx.spends = files[p]
    /\ tx.branch \in {"Settle", "Slash"} => AnchoredTo(tx.spends, tx.ids)
    /\ tx.branch = "Open" => \A i \in mempool \cup accepted : known[i].branch # "Open"

Commanded(p, tx) ==
    /\ WellBuilt(p, tx)
    /\ \/ tx.branch # "Send" /\ Submit(p, tx, TRUE)
       \/ tx.branch = "Send" /\ Submit(p, tx, FALSE)

\* A state is a payload, with these fields.
IsPayload(s) == s = Payload(s.phase, s.maker, s.maker_rep, s.tracking, s.shippedAt)

\* What the commands read is a clock and a payload.
Legible == daa \in Nat /\ \A p \in Parties : HasFile(p) => IsPayload(Live(p).state)

\* What each branch is built with at the score `now`, from the state `of` of the
\* output it spends.
Composed(tx, of, now) ==
    /\ tx.lock \in Nat /\ (tx.lock = 0 \/ tx.lock < now)
    /\ tx.branch = "Open" => tx.state = Payload("Open", Zero, Zero, Zero, 0)
    /\ tx.branch = "Claim" =>
           of.phase = "Open" /\ tx.state = Payload("Claimed", Maker, Rep, Zero, 0)
    /\ tx.branch = "Ship" =>
           /\ of.phase = "Claimed"
           /\ tx.state = Payload("Shipped", of.maker, of.maker_rep, Tracking, tx.lock)
    /\ tx.branch = "Dispute" =>
           /\ of.phase = "Shipped" /\ Arbiter # Zero
           /\ tx.state = Payload("Disputed", of.maker, of.maker_rep, of.tracking, of.shippedAt)
    /\ tx.branch = "Settle" => of.phase = "Shipped"
    /\ tx.branch = "Slash" => of.phase = "Claimed" /\ tx.lock = Deadline
    /\ tx.branch = "Refund" => of.phase = "Open" /\ tx.lock = Deadline
    /\ tx.branch \in {"ResolveToMaker", "ResolveToBuyer"} => of.phase = "Disputed"
    /\ tx.branch \in Outcomes \cup {"Send"} => tx.state = Terminal

\* The branches that spend the escrow's output.
Moves == (Covenanted \ {"Open"}) \cup Outcomes

\* What transition is called with is well built.
LEMMA TransitionsAreCommanded ==
    ASSUME NEW p \in Parties, HasFile(p), NEW branch \in Moves, NEW state, NEW lock, NEW ids,
           branch \in {"Settle", "Slash"} => AnchoredTo(files[p], ids),
           Transition(p, branch, state, lock, ids)
    PROVE  \E tx : /\ Commanded(p, tx) /\ tx.branch = branch /\ tx.spends = files[p]
                   /\ tx.state = state /\ tx.lock = lock
<1>1. PICK coin : Submit(p, [branch |-> branch, spends |-> files[p], coin |-> coin, by |-> p,
                             state |-> state, lock |-> lock, ids |-> ids], TRUE)
  BY DEF Transition
<1>2. PICK tx : tx = [branch |-> branch, spends |-> files[p], coin |-> coin, by |-> p,
                      state |-> state, lock |-> lock, ids |-> ids]
  OBVIOUS
<1>3. /\ tx.branch = branch /\ tx.spends = files[p] /\ tx.by = p /\ tx.ids = ids
      /\ tx.state = state /\ tx.lock = lock
  BY <1>2
<1>4. branch \in Covenanted \cup Outcomes /\ branch \notin {"Open", "Send"}
  BY DEF Moves, Covenanted, Outcomes
<1>5. WellBuilt(p, tx)
  BY <1>3, <1>4 DEF WellBuilt, HasFile
<1>6. Submit(p, tx, TRUE)
  BY <1>1, <1>2
<1> QED BY <1>3, <1>4, <1>5, <1>6 DEF Commanded

\* Each command submits one well built transaction, of the state on file.
LEMMA CommandsSubmit ==
    ASSUME Open \/ Claim \/ Ship \/ Dispute \/ Settle \/ Slash \/ Refund
               \/ \E p \in Parties : Resolve(p) \/ Send(p)
    PROVE  \E p \in Parties : \E tx : Commanded(p, tx) /\ (Legible => Composed(tx, Live(p).state, daa))
<1>0. Buyer \in Parties /\ Maker \in Parties /\ Deadline \in Nat
  BY ClientAssumption DEF Parties
<1>1. CASE Open
  <2>1. PICK coin : Submit(Buyer, [branch |-> "Open", spends |-> 0, coin |-> coin, by |-> Buyer,
                      state |-> Payload("Open", Zero, Zero, Zero, 0), lock |-> 0, ids |-> {}], TRUE)
    BY <1>1 DEF Open
  <2>2. PICK tx : tx = [branch |-> "Open", spends |-> 0, coin |-> coin, by |-> Buyer,
                      state |-> Payload("Open", Zero, Zero, Zero, 0), lock |-> 0, ids |-> {}]
    OBVIOUS
  <2>3. /\ tx.branch = "Open" /\ tx.spends = 0 /\ tx.by = Buyer /\ tx.lock = 0
        /\ tx.state = Payload("Open", Zero, Zero, Zero, 0)
    BY <2>2
  <2>4. WellBuilt(Buyer, tx)
    BY <1>1, <2>3 DEF WellBuilt, Open, HasFile, Covenanted
  <2>5. Composed(tx, Live(Buyer).state, daa)
    BY <2>3 DEF Composed, Outcomes
  <2> QED BY <1>0, <2>1, <2>2, <2>3, <2>4, <2>5 DEF Commanded
<1>2. CASE Claim
  <2>1. PICK tx : /\ Commanded(Maker, tx) /\ tx.branch = "Claim" /\ tx.spends = files[Maker]
                  /\ tx.state = Payload("Claimed", Maker, Rep, Zero, 0) /\ tx.lock = 0
    BY <1>0, <1>2, TransitionsAreCommanded DEF Claim, Moves, Covenanted
  <2> QED BY <1>0, <1>2, <2>1 DEF Claim, Live, Composed, Outcomes
<1>3. CASE Ship
  <2>1. PICK prev, now : /\ prev = Live(Maker).state
                         /\ now = IF daa > BackOff THEN daa - BackOff ELSE 0
    OBVIOUS
  <2>2. Transition(Maker, "Ship", Payload("Shipped", prev.maker, prev.maker_rep, Tracking, now), now, {})
    BY <1>3, <2>1 DEF Ship
  <2>3. PICK tx : /\ Commanded(Maker, tx) /\ tx.branch = "Ship" /\ tx.spends = files[Maker]
                  /\ tx.state = Payload("Shipped", prev.maker, prev.maker_rep, Tracking, now)
                  /\ tx.lock = now
    BY <1>0, <1>3, <2>2, TransitionsAreCommanded DEF Ship, Moves, Covenanted
  <2>4. Legible => now \in Nat /\ (now = 0 \/ now < daa)
    BY <2>1, ClientAssumption DEF Legible
  <2> QED BY <1>0, <1>3, <2>1, <2>3, <2>4 DEF Ship, Live, Composed, Outcomes
<1>4. CASE Dispute
  <2>1. PICK state, prev : state = [prev EXCEPT !.phase = "Disputed"] /\ prev = Live(Buyer).state
    OBVIOUS
  <2>2. PICK tx : /\ Commanded(Buyer, tx) /\ tx.branch = "Dispute" /\ tx.spends = files[Buyer]
                  /\ tx.state = state /\ tx.lock = 0
    BY <1>0, <1>4, <2>1, TransitionsAreCommanded DEF Dispute, Moves, Covenanted
  <2>3. ASSUME Legible
        PROVE  state = Payload("Disputed", prev.maker, prev.maker_rep, prev.tracking, prev.shippedAt)
    <3>1. IsPayload(prev)
      BY <1>0, <1>4, <2>1, <2>3 DEF Legible, Dispute
    <3> QED BY <2>1, <3>1 DEF IsPayload, Payload
  <2>4. Legible => Composed(tx, Live(Buyer).state, daa)
    BY <1>4, <2>1, <2>2, <2>3 DEF Dispute, Live, Composed, Outcomes
  <2> QED BY <1>0, <2>2, <2>4
<1>5. CASE Settle
  <2>1. PICK ids \in IdChoices({a \in atts : a.anchor = files[Buyer]}) :
            Transition(Buyer, "Settle", Terminal, 0, ids)
    BY <1>5 DEF Settle
  <2>2. ids # {}
    BY FS_EmptySet, <2>1 DEF IdChoices
  <2>3. AnchoredTo(files[Buyer], ids)
    BY <2>1, <2>2 DEF IdChoices, AnchoredTo
  <2>4. PICK tx : /\ Commanded(Buyer, tx) /\ tx.branch = "Settle" /\ tx.spends = files[Buyer]
                  /\ tx.state = Terminal /\ tx.lock = 0
    BY <1>0, <1>5, <2>1, <2>3, TransitionsAreCommanded DEF Settle, Moves, Outcomes
  <2> QED BY <1>0, <1>5, <2>4 DEF Settle, Live, Composed
<1>6. CASE Slash
  <2>1. AnchoredTo(files[Buyer], {[side |-> Maker, anchor |-> files[Buyer]]})
    BY DEF AnchoredTo
  <2>2. PICK tx : /\ Commanded(Buyer, tx) /\ tx.branch = "Slash" /\ tx.spends = files[Buyer]
                  /\ tx.state = Terminal /\ tx.lock = Deadline
    BY <1>0, <1>6, <2>1, TransitionsAreCommanded DEF Slash, Moves, Outcomes
  <2>3. Deadline > 0 => daa > Deadline
    BY <1>6 DEF Slash, Transition
  <2> QED BY <1>0, <1>6, <2>2, <2>3 DEF Slash, Live, Composed, Legible
<1>7. CASE Refund
  <2>1. PICK tx : /\ Commanded(Buyer, tx) /\ tx.branch = "Refund" /\ tx.spends = files[Buyer]
                  /\ tx.state = Terminal /\ tx.lock = Deadline
    BY <1>0, <1>7, TransitionsAreCommanded DEF Refund, Moves, Outcomes
  <2>2. Deadline > 0 => daa > Deadline
    BY <1>7 DEF Refund, Transition
  <2> QED BY <1>0, <1>7, <2>1, <2>2 DEF Refund, Live, Composed, Legible
<1>8. ASSUME NEW p \in Parties, Resolve(p)
      PROVE  \E tx : Commanded(p, tx) /\ (Legible => Composed(tx, Live(p).state, daa))
  <2>1. PICK branch \in {"ResolveToBuyer", "ResolveToMaker"} :
            branch = IF p = Buyer THEN "ResolveToBuyer" ELSE "ResolveToMaker"
    OBVIOUS
  <2>2. HasFile(p) /\ \E ids : Transition(p, branch, Terminal, 0, ids)
    BY <1>8, <2>1 DEF Resolve
  <2>3. branch \in Moves /\ branch \notin {"Settle", "Slash"}
    BY DEF Moves, Outcomes
  <2>4. PICK tx : /\ Commanded(p, tx) /\ tx.branch = branch /\ tx.spends = files[p]
                  /\ tx.state = Terminal /\ tx.lock = 0
    BY <2>2, <2>3, TransitionsAreCommanded
  <2> QED BY <1>8, <2>4 DEF Resolve, Live, Composed
<1>9. ASSUME NEW p \in Parties, Send(p)
      PROVE  \E tx : Commanded(p, tx) /\ (Legible => Composed(tx, Live(p).state, daa))
  <2>1. PICK coin : Submit(p, [branch |-> "Send", spends |-> 0, coin |-> coin, by |-> p,
                               state |-> Terminal, lock |-> 0, ids |-> {}], FALSE)
    BY <1>9 DEF Send
  <2>2. PICK tx : tx = [branch |-> "Send", spends |-> 0, coin |-> coin, by |-> p,
                        state |-> Terminal, lock |-> 0, ids |-> {}]
    OBVIOUS
  <2>3. tx.branch = "Send" /\ tx.spends = 0 /\ tx.by = p /\ tx.lock = 0 /\ tx.state = Terminal
    BY <2>2
  <2>4. WellBuilt(p, tx)
    BY <2>3 DEF WellBuilt
  <2>5. Composed(tx, Live(p).state, daa)
    BY <2>3 DEF Composed
  <2> QED BY <2>1, <2>2, <2>3, <2>4, <2>5 DEF Commanded
<1> QED BY <1>0, <1>1, <1>2, <1>3, <1>4, <1>5, <1>6, <1>7, <1>8, <1>9

----------------------------------------------------------------------------
(* A transaction that is new *)

\* What is known once p's transaction tx is the last of n + 1.
New(p, tx, n) ==
    /\ n = Len(known) /\ n \in Nat
    /\ known' = Append(known, tx)
    /\ mempool' = mempool \cup {n + 1}
    /\ \/ tx.branch # "Send" /\ running' = [running EXCEPT ![p] = n + 1]
       \/ tx.branch = "Send" /\ running' = [running EXCEPT ![p] = 0]
    /\ running[p] = 0
    /\ UNCHANGED <<chain, accepted, files, atts, outages>>

\* What follows for the list and the ancestries.
Grown(tx, n) ==
    /\ OneLineage' /\ Ids = 1..n /\ Ids' = 1..(n + 1)
    /\ known'[n + 1] = tx /\ \A i \in 1..n : known'[i] = known[i]
    /\ \A f \in 0..n : Ancestry(f)' = Ancestry(f)
    /\ Ancestry(n + 1)' = {n + 1} \cup Ancestry(tx.spends)
    /\ tx.spends \in 0..n /\ tx.by \in Parties

LEMMA NewGrows ==
    ASSUME Structure, NEW p \in Parties, NEW tx, NEW n, WellBuilt(p, tx), New(p, tx, n)
    PROVE  Grown(tx, n)
<1>1. tx.spends \in 0..n /\ Ids = 1..n
  <2>1. files[p] \in Ids \cup {0}
    BY DEF Structure, Held
  <2> QED BY <2>1 DEF WellBuilt, New, Ids
<1>2. /\ OneLineage' /\ Len(known') = n + 1 /\ known'[n + 1] = tx
      /\ \A i \in 1..n : known'[i] = known[i]
      /\ \A f \in 0..n : Ancestry(f)' = Ancestry(f)
      /\ Ancestry(n + 1)' = {n + 1} \cup Ancestry(tx.spends)
  BY <1>1, AncestryGrows DEF New, Structure
<1> QED BY <1>1, <1>2 DEF Grown, WellBuilt, Ids

LEMMA NewBuilt ==
    ASSUME Structure, NEW p \in Parties, NEW tx, NEW n, WellBuilt(p, tx), New(p, tx, n)
    PROVE  Built'
<1>1. Grown(tx, n) /\ n \in Nat
  BY NewGrows DEF New
<1>2. SUFFICES ASSUME NEW i \in 1..(n + 1)
               PROVE  /\ known'[i].branch \in Covenanted \cup Outcomes \cup {"Send"}
                      /\ known'[i].by \in Parties
                      /\ known'[i].spends = 0 <=> known'[i].branch \in {"Open", "Send"}
                      /\ known'[i].spends # 0 => known'[known'[i].spends].branch # "Send"
                      /\ known'[i].branch \in {"Settle", "Slash"} =>
                             AnchoredTo(known'[i].spends, known'[i].ids)
  BY <1>1 DEF Built, Grown, Escrowed, AnchoredTo
<1>3. CASE i \in 1..n
  <2>1. known[i].spends \in 0..(i - 1)
    BY <1>1, <1>3 DEF Structure, OneLineage, Listed, Grown
  <2>2. known[i].spends # 0 => known[i].spends \in 1..n
    BY <1>1, <1>3, <2>1
  <2>3. known'[i] = known[i]
    BY <1>1, <1>3 DEF Grown
  <2>4. known[i].spends # 0 => known'[known[i].spends] = known[known[i].spends]
    BY <1>1, <2>2 DEF Grown
  <2>5. i \in Ids
    BY <1>1, <1>3 DEF Grown
  <2> QED BY <2>3, <2>4, <2>5 DEF Structure, Built, Escrowed
<1>4. CASE i = n + 1
  <2>1. known'[i] = tx
    BY <1>1, <1>4 DEF Grown
  <2>2. tx.spends # 0 => tx.spends = files[p] /\ tx.spends \in 1..n
    BY <1>1 DEF WellBuilt, Grown
  <2>3. tx.spends # 0 => known[tx.spends].branch # "Send"
    BY <2>2 DEF Structure, Held, Escrowed
  <2>4. tx.spends # 0 => known'[tx.spends] = known[tx.spends]
    BY <1>1, <2>2 DEF Grown
  <2> QED BY <2>1, <2>3, <2>4 DEF WellBuilt
<1> QED BY <1>1, <1>3, <1>4

LEMMA NewLines ==
    ASSUME Structure, NEW p \in Parties, NEW tx, NEW n, WellBuilt(p, tx), New(p, tx, n)
    PROVE  Lines'
<1>1. /\ Grown(tx, n) /\ n \in Nat /\ 0 \in 0..n
      /\ Lines /\ Built /\ \A i \in 1..n : known[i].spends \in 0..n /\ i \in 0..n
  <2>1. Grown(tx, n) /\ n \in Nat
    BY NewGrows DEF New
  <2>2. \A i \in 1..n : known[i].spends \in 0..(i - 1)
    BY <2>1 DEF Structure, OneLineage, Listed, Grown
  <2> QED BY <2>1, <2>2 DEF Structure
<1>2. Ancestry(0)' = {}
  BY <1>1 DEF Grown, Lines
<1>3. ASSUME NEW i \in 1..n
      PROVE  /\ Ancestry(i)' = {i} \cup Ancestry(known[i].spends)'
             /\ Ancestry(i)' \subseteq 1..i
             /\ \A j \in Ancestry(i)' :
                    /\ Ancestry(j)' \subseteq Ancestry(i)'
                    /\ j # i => \E b \in Ancestry(i)' : known'[b].spends = j
                    /\ known'[i].branch # "Send" => known'[j].branch # "Send"
             /\ \E r \in Ancestry(i)' : known'[r].spends = 0
  <2>1. i \in Ids /\ Ancestry(i) \subseteq 1..n
    <3>1. i \in Ids
      BY <1>1 DEF Grown
    <3>2. 1..i \subseteq 1..n
      BY <1>1
    <3> QED BY <1>1, <3>1, <3>2 DEF Lines
  <2>2. Ancestry(i)' = Ancestry(i) /\ known'[i] = known[i]
    BY <1>1 DEF Grown
  <2>3. \A j \in Ancestry(i) : Ancestry(j)' = Ancestry(j) /\ known'[j] = known[j]
    BY <1>1, <2>1 DEF Grown
  <2>4. PICK f \in 0..n : f = known[i].spends
    BY <1>1
  <2>5. Ancestry(f)' = Ancestry(f)
    BY <1>1, <2>4 DEF Grown
  <2>6. /\ Ancestry(i) = {i} \cup Ancestry(f)
        /\ Ancestry(i) \subseteq 1..i
        /\ \A j \in Ancestry(i) :
                  /\ Ancestry(j) \subseteq Ancestry(i)
                  /\ j # i => \E b \in Ancestry(i) : known[b].spends = j
                  /\ known[i].branch # "Send" => known[j].branch # "Send"
        /\ \E r \in Ancestry(i) : known[r].spends = 0
    BY <1>1, <2>1, <2>4 DEF Lines, Escrowed
  <2> QED BY <2>2, <2>3, <2>4, <2>5, <2>6
<1>4. PICK s \in 0..n : s = tx.spends
  BY <1>1 DEF Grown
<1>5. PICK m \in Nat : m = n + 1
  BY <1>1
<1>6. /\ Ancestry(m)' = {m} \cup Ancestry(s) /\ known'[m] = tx /\ m \notin 0..n /\ m # 0
      /\ Ancestry(s)' = Ancestry(s) /\ Ancestry(s) \subseteq 1..n
      /\ \A j \in 1..n : Ancestry(j)' = Ancestry(j) /\ known'[j] = known[j]
  <2>1. CASE s = 0
    BY <1>1, <1>4, <1>5, <2>1 DEF Grown, Lines
  <2>2. CASE s # 0
    <3>1. s \in Ids /\ 1..s \subseteq 1..n
      BY <1>1, <1>4, <2>2 DEF Grown
    <3>2. Ancestry(s) \subseteq 1..n
      BY <1>1, <3>1 DEF Lines
    <3> QED BY <1>1, <1>4, <1>5, <3>2 DEF Grown
  <2> QED BY <2>1, <2>2
<1>7. ASSUME NEW j \in Ancestry(s)
      PROVE  /\ Ancestry(j) \subseteq Ancestry(s) /\ s # 0 /\ j \in 1..n
             /\ j # s => \E b \in Ancestry(s) : known[b].spends = j
             /\ Escrowed(s) => Escrowed(j)
  <2>1. s # 0
    BY <1>1, <1>7 DEF Lines
  <2>2. s \in Ids
    BY <1>1, <1>4, <2>1 DEF Grown
  <2> QED BY <1>1, <1>6, <1>7, <2>1, <2>2 DEF Lines
<1>8. ASSUME NEW j \in Ancestry(m)'
      PROVE  /\ Ancestry(j)' \subseteq Ancestry(m)'
             /\ j # m => \E b \in Ancestry(m)' : known'[b].spends = j
             /\ known'[m].branch # "Send" => known'[j].branch # "Send"
  <2>1. CASE j = m
    BY <1>6, <2>1
  <2>2. CASE j \in Ancestry(s)
    <3>1. Ancestry(j)' = Ancestry(j) /\ known'[j] = known[j] /\ s # 0
      BY <1>6, <1>7, <2>2
    <3>2. Ancestry(j)' \subseteq Ancestry(m)'
      BY <1>6, <1>7, <2>2, <3>1
    <3>3. \E b \in Ancestry(m)' : known'[b].spends = j
      <4>1. CASE j = s
        BY <1>4, <1>6, <4>1
      <4>2. CASE j # s
        <5>1. PICK b \in Ancestry(s) : known[b].spends = j
          BY <1>7, <2>2, <4>2
        <5> QED BY <1>6, <1>7, <5>1
      <4> QED BY <4>1, <4>2
    <3>4. known'[j].branch # "Send"
      <4>1. s = files[p] /\ s # 0
        BY <1>4, <3>1 DEF WellBuilt
      <4>2. Escrowed(s)
        BY <4>1 DEF Structure, Held
      <4> QED BY <1>7, <2>2, <3>1, <4>2 DEF Escrowed
    <3> QED BY <3>2, <3>3, <3>4
  <2> QED BY <1>6, <2>1, <2>2
<1>9. \E r \in Ancestry(m)' : known'[r].spends = 0
  <2>1. CASE s = 0
    BY <1>4, <1>6, <2>1
  <2>2. CASE s # 0
    <3>1. s \in Ids
      BY <1>1, <1>4, <2>2 DEF Grown
    <3>2. PICK r \in Ancestry(s) : known[r].spends = 0
      BY <1>1, <3>1 DEF Lines
    <3> QED BY <1>6, <1>7, <3>2
  <2> QED BY <2>1, <2>2
<1>10. Ancestry(m)' = {m} \cup Ancestry(known[m].spends)'
  BY <1>4, <1>6
<1>11. Ancestry(m)' \subseteq 1..m
  <2>1. 1..n \subseteq 1..m /\ m \in 1..m
    BY <1>1, <1>5
  <2> QED BY <1>6, <2>1
<1>12. Ids' = 1..m /\ \A i \in 1..m : i \in 1..n \/ i = m
  BY <1>1, <1>5 DEF Grown
<1>13. ASSUME NEW i \in Ids'
       PROVE  /\ Ancestry(i)' = {i} \cup Ancestry(known[i].spends)'
              /\ Ancestry(i)' \subseteq 1..i
              /\ \A j \in Ancestry(i)' :
                     /\ Ancestry(j)' \subseteq Ancestry(i)'
                     /\ j # i => \E b \in Ancestry(i)' : known'[b].spends = j
                     /\ known'[i].branch # "Send" => known'[j].branch # "Send"
              /\ \E r \in Ancestry(i)' : known'[r].spends = 0
  <2>1. CASE i = m
    BY <1>8, <1>9, <1>10, <1>11, <2>1
  <2>2. CASE i \in 1..n
    BY <1>3, <2>2
  <2> QED BY <1>12, <1>13, <2>1, <2>2
<1> QED BY <1>2, <1>13 DEF Lines, Escrowed

LEMMA NewHeld ==
    ASSUME Structure, NEW p \in Parties, NEW tx, NEW n, WellBuilt(p, tx), New(p, tx, n)
    PROVE  Held' /\ Ledger'
<1>1. /\ Grown(tx, n) /\ n \in Nat /\ Held /\ Ledger
      /\ Ids \subseteq Ids' /\ n + 1 \in Ids' /\ n + 1 \notin Ids /\ Ids = 1..n
      /\ \A i \in Ids : known'[i] = known[i] /\ Ancestry(i)' = Ancestry(i)
  <2>1. Grown(tx, n) /\ n \in Nat
    BY NewGrows DEF New
  <2> QED BY <2>1 DEF Structure, Grown
<1>2. ASSUME NEW q \in Parties
      PROVE  /\ files'[q] # 0 => known'[files'[q]].branch # "Send"
             /\ running'[q] # 0 => /\ known'[running'[q]].branch # "Send"
                                   /\ known'[running'[q]].spends = files'[q]
  <2>1. files'[q] = files[q] /\ files[q] \in Ids \cup {0} /\ running[q] \in Ids \cup {0}
    BY <1>1 DEF New, Held
  <2>2. CASE running'[q] = running[q]
    BY <1>1, <2>1, <2>2 DEF Held, Escrowed
  <2>3. CASE running'[q] # running[q]
    <3>1. q = p /\ running'[q] = n + 1 /\ tx.branch # "Send"
      BY <1>1, <2>3 DEF New, Held
    <3>2. known'[n + 1] = tx /\ tx.spends = files[q]
      BY <1>1, <3>1 DEF Grown, WellBuilt
    <3> QED BY <1>1, <2>1, <3>1, <3>2 DEF Held, Escrowed
  <2> QED BY <2>2, <2>3
<1>3. running' \in [Parties -> Ids' \cup {0}]
  BY <1>1 DEF New, Held
<1>4. files' \in [Parties -> Ids' \cup {0}]
  BY <1>1 DEF New, Held
<1>5. /\ mempool' \in SUBSET Ids' /\ accepted' \in SUBSET Ids' /\ mempool' \cap accepted' = {}
      /\ atts' \subseteq [side : Parties, anchor : Ids'] /\ outages' \in Nat
  BY <1>1 DEF New, Held
<1>6. Ledger'
  <2>1. accepted' = accepted /\ escrow' = escrow /\ accepted \subseteq Ids
    BY <1>1 DEF New, chain, Held
  <2>2. \A i \in accepted : Ancestry(i)' = Ancestry(i) /\ known'[i] = known[i]
    BY <1>1, <2>1
  <2>3. \A i \in accepted' : Ancestry(i)' \subseteq accepted'
    BY <1>1, <2>1, <2>2 DEF Ledger
  <2>4. \A i, j \in accepted' :
            known'[i].branch # "Send" /\ known'[j].branch # "Send"
            /\ known'[i].spends = known'[j].spends => i = j
    BY <1>1, <2>1, <2>2 DEF Ledger, Escrowed
  <2>5. /\ "phase" \in DOMAIN escrow'
        /\ \A i \in accepted' : known'[i].branch = "Open" => escrow'.phase # "None"
    BY <1>1, <2>1, <2>2 DEF Ledger
  <2> QED BY <2>3, <2>4, <2>5 DEF Ledger, Escrowed
<1> QED BY <1>2, <1>3, <1>4, <1>5, <1>6 DEF Held, Escrowed

\* What may still be accepted rests on all that is, or an accepted transaction
\* spends its output.
LEMMA NextOnLine ==
    ASSUME Lines, Built, Comparable, Ledger, Held, NEW s \in Ids, NEW f \in accepted,
           Escrowed(s), Escrowed(f), Viable(s)
    PROVE  \/ f \in Ancestry(s)
           \/ s \in Ancestry(f) /\ \E b \in accepted : Escrowed(b) /\ known[b].spends = s
<1>1. SUFFICES ASSUME s \in Ancestry(f), f \notin Ancestry(s)
               PROVE  \E b \in accepted : Escrowed(b) /\ known[b].spends = s
  BY DEF Comparable
<1>2. f \in Ids /\ s # f
  <2>1. f \in Ids
    BY DEF Held
  <2> QED BY <2>1, <1>1 DEF Lines
<1>3. PICK b \in Ancestry(f) : known[b].spends = s
  BY <1>1, <1>2 DEF Lines
<1>4. b \in accepted /\ Escrowed(b)
  BY <1>2 DEF Ledger, Lines
<1> QED BY <1>3, <1>4

LEMMA NewComparable ==
    ASSUME Inductive, NEW p \in Parties, NEW tx, NEW n, WellBuilt(p, tx), New(p, tx, n)
    PROVE  Comparable' /\ Trail'
<1>1. /\ Structure /\ OneLineage /\ Built /\ Lines /\ Held /\ Ledger /\ Comparable /\ Trail
      /\ Grown(tx, n) /\ n \in Nat
      /\ accepted' = accepted /\ files' = files /\ outages' = outages /\ accepted \subseteq Ids
  BY NewGrows DEF Inductive, Structure, New, Held
<1>2. PICK m \in Nat : m = n + 1
  BY <1>1
<1>3. PICK s \in 0..n : s = tx.spends
  BY <1>1 DEF Grown
<1>4. /\ Ids = 1..n /\ 0 \in 0..n /\ m \notin Ids /\ Ids' = Ids \cup {m}
      /\ \A i \in Ids : known'[i] = known[i] /\ Ancestry(i)' = Ancestry(i)
      /\ known'[m] = tx /\ Ancestry(m)' = {m} \cup Ancestry(s) /\ Ancestry(0)' = Ancestry(0)
      /\ \A i \in Ids : Ancestry(i) \subseteq Ids
  <2>1. Ids = 1..n /\ Ids' = 1..m /\ 0 \in 0..n /\ \A i \in 1..n : i \in 0..n /\ 1..i \subseteq 1..n
    BY <1>1, <1>2 DEF Grown
  <2>2. 1..m = 1..n \cup {m} /\ m \notin 1..n
    BY <1>1, <1>2
  <2>3. \A i \in Ids : Ancestry(i) \subseteq Ids
    BY <1>1, <2>1 DEF Lines
  <2> QED BY <1>1, <1>2, <1>3, <2>1, <2>2, <2>3 DEF Grown
<1>5. ASSUME NEW i \in Ids, Viable(i)' PROVE Viable(i)
  BY <1>1, <1>4, <1>5 DEF Viable, Escrowed
<1>6. ASSUME Viable(m)', tx.branch # "Send", s # 0
      PROVE  s \in Ids /\ Escrowed(s) /\ Viable(s)
             /\ \A b \in accepted : Escrowed(b) => known[b].spends # s
  <2>1. s \in Ids /\ s = files[p]
    BY <1>3, <1>4, <1>6 DEF WellBuilt
  <2>2. Escrowed(s)
    BY <1>1, <1>6, <2>1 DEF Held
  <2>3. Ancestry(s) \subseteq Ids /\ m \in Ancestry(m)' /\ Ancestry(s) \subseteq Ancestry(m)'
    BY <1>4, <2>1
  <2>4. \A a \in Ancestry(m)', b \in accepted :
            known'[b].branch # "Send" /\ known'[b].spends = known'[a].spends => b = a
    BY <1>1, <1>6 DEF Viable, Escrowed
  <2>5. Viable(s)
    BY <1>1, <1>4, <2>3, <2>4 DEF Viable, Escrowed
  <2>6. \A b \in accepted : Escrowed(b) => known[b].spends # s
    BY <1>1, <1>3, <1>4, <2>3, <2>4 DEF Escrowed
  <2> QED BY <2>1, <2>2, <2>5, <2>6
<1>7. ASSUME NEW i \in Ids', NEW f \in accepted', known'[i].branch # "Send", Viable(i)',
             known'[f].branch # "Send"
      PROVE  i \in Ancestry(f)' \/ f \in Ancestry(i)'
  <2>0. f \in accepted /\ f \in Ids /\ Escrowed(f)
    BY <1>1, <1>4, <1>7 DEF Escrowed
  <2>1. CASE i \in Ids
    BY <1>1, <1>4, <1>5, <1>7, <2>0, <2>1 DEF Comparable, Escrowed
  <2>2. CASE i = m /\ s = 0
    <3>1. tx.branch = "Open"
      BY <1>3, <1>4, <1>7, <2>2 DEF WellBuilt
    <3>2. PICK r \in Ancestry(f) : known[r].spends = 0
      BY <1>1, <2>0 DEF Lines
    <3>3. r \in accepted /\ r \in Ids /\ Escrowed(r)
      BY <1>1, <2>0, <3>2 DEF Ledger, Lines
    <3>4. known[r].branch = "Open"
      BY <1>1, <3>2, <3>3 DEF Built, Escrowed
    <3> QED BY <3>1, <3>3, <3>4 DEF WellBuilt
  <2>3. CASE i = m /\ s # 0
    <3>1. s \in Ids /\ Escrowed(s) /\ Viable(s)
          /\ \A b \in accepted : Escrowed(b) => known[b].spends # s
      BY <1>4, <1>6, <1>7, <2>3
    <3>2. f \in Ancestry(s)
      BY <1>1, <2>0, <3>1, NextOnLine
    <3> QED BY <1>4, <2>3, <3>2
  <2> QED BY <1>4, <1>7, <2>1, <2>2, <2>3
<1>8. ASSUME outages' = 0, NEW i \in Ids', known'[i].branch # "Send", Viable(i)'
      PROVE  i \in Knowledge(known[i].by)'
  <2>1. PICK q \in Parties : q = known'[i].by
    <3>1. CASE i = m
      BY <1>1, <1>4, <3>1 DEF Grown
    <3>2. CASE i \in Ids
      BY <1>1, <1>4, <3>2 DEF Built
    <3> QED BY <1>4, <1>8, <3>1, <3>2
  <2>2. PICK g, h : g = files'[q] /\ h = running'[q]
    OBVIOUS
  <2>3. Knowledge(known[i].by)' = Ancestry(g)' \cup Ancestry(h)'
    BY <2>1, <2>2 DEF Knowledge
  <2>4. CASE i = m
    <3>1. q = p /\ h = m
      BY <1>1, <1>2, <1>4, <1>8, <2>1, <2>2, <2>4 DEF WellBuilt, New, Held
    <3> QED BY <1>4, <2>3, <2>4, <3>1
  <2>5. CASE i \in Ids
    <3>1. i \in Ancestry(files[q]) \cup Ancestry(running[q])
      BY <1>1, <1>4, <1>5, <1>8, <2>1, <2>5 DEF Trail, Escrowed, Knowledge
    <3>2. g = files[q] /\ g \in Ids \cup {0} /\ running[q] \in Ids \cup {0}
      BY <1>1, <2>2 DEF Held
    <3>3. Ancestry(g)' = Ancestry(g)
      BY <1>4, <3>2
    <3>4. CASE i \in Ancestry(g)
      BY <2>3, <3>3, <3>4
    <3>5. CASE i \in Ancestry(running[q])
      <4>1. running[q] # 0
        BY <1>1, <3>5 DEF Lines
      <4>2. h = running[q]
        BY <1>1, <2>2, <4>1 DEF New, Held
      <4> QED BY <1>4, <2>3, <3>2, <3>5, <4>1, <4>2
    <3> QED BY <3>1, <3>2, <3>4, <3>5
  <2> QED BY <1>4, <1>8, <2>4, <2>5
<1> QED BY <1>7, <1>8 DEF Comparable, Trail, Escrowed

LEMMA NewInductive ==
    ASSUME Inductive, NEW p \in Parties, NEW tx, NEW n, WellBuilt(p, tx), New(p, tx, n)
    PROVE  Inductive'
<1>1. Structure
  BY DEF Inductive
<1> QED BY <1>1, NewGrows, NewBuilt, NewLines, NewHeld, NewComparable
    DEF Inductive, Structure, Grown

----------------------------------------------------------------------------
(* Everything else leaves the transactions as they are *)

LEMMA SameTransactions ==
    ASSUME known' = known
    PROVE  /\ \A f : Ancestry(f)' = Ancestry(f)
           /\ Ids' = Ids /\ (Structure => OneLineage' /\ Built' /\ Lines')
<1>1. Ids' = Ids /\ \A f : Ancestry(f)' = Ancestry(f)
  BY DEF Ids, Ancestry
<1>2. OneLineage => OneLineage'
  <2>1. Spent' = Spent
    BY <1>1 DEF Spent
  <2>2. Listed => Listed'
    BY <1>1 DEF Listed
  <2> QED BY <2>1, <2>2 DEF OneLineage
<1>3. Built => Built'
  BY <1>1 DEF Built, Escrowed
<1>4. Lines => Lines'
  BY <1>1 DEF Lines, Escrowed
<1> QED BY <1>1, <1>2, <1>3, <1>4 DEF Structure

LEMMA SameLedger ==
    ASSUME Inductive, known' = known, accepted' = accepted, escrow' = escrow
    PROVE  Ledger' /\ Comparable' /\ \A i : Viable(i)' <=> Viable(i)
<1>1. /\ \A f : Ancestry(f)' = Ancestry(f)
      /\ Ids' = Ids
  BY SameTransactions
<1>2. Ledger'
  BY <1>1 DEF Inductive, Structure, Ledger, Escrowed
<1>3. \A i : Viable(i)' <=> Viable(i)
  BY <1>1 DEF Viable, Escrowed
<1>4. Comparable'
  <2>1. SUFFICES ASSUME NEW i \in Ids, NEW f \in accepted,
                        Escrowed(i), Viable(i)', Escrowed(f)
                 PROVE  i \in Ancestry(f)' \/ f \in Ancestry(i)'
    BY <1>1 DEF Comparable, Escrowed
  <2> QED BY <1>1, <1>3, <2>1 DEF Inductive, Comparable
<1> QED BY <1>2, <1>3, <1>4

\* A party learns, or at least forgets nothing.
LEMMA NothingForgotten ==
    ASSUME Inductive, known' = known, accepted' = accepted, escrow' = escrow, Held',
           outages' = 0 =>
               /\ outages = 0
               /\ \A p \in Parties : \A i \in Ids :
                      Escrowed(i) /\ Viable(i) /\ i \in Knowledge(p) => i \in Knowledge(p)'
    PROVE  Inductive'
<1>1. /\ Ids' = Ids /\ OneLineage' /\ Built' /\ Lines' /\ Structure
  BY SameTransactions DEF Inductive
<1>2. Ledger' /\ Comparable' /\ \A i : Viable(i)' <=> Viable(i)
  BY SameLedger
<1>3. ASSUME outages' = 0, NEW i \in Ids, Escrowed(i), Viable(i) PROVE i \in Knowledge(known[i].by)'
  <2>1. PICK q \in Parties : q = known[i].by
    BY <1>1 DEF Structure, Built
  <2>2. i \in Knowledge(q)
    BY <1>3, <2>1 DEF Inductive, Trail
  <2>3. i \in Knowledge(q)'
    BY <1>3, <2>2
  <2>4. Knowledge(known[i].by)' = Knowledge(q)'
    BY <2>1 DEF Knowledge
  <2> QED BY <2>3, <2>4
<1>4. Trail'
  BY <1>1, <1>2, <1>3 DEF Trail, Escrowed
<1> QED BY <1>1, <1>2, <1>4 DEF Inductive, Structure

\* A transaction is submitted again.
LEMMA AgainInductive ==
    ASSUME Inductive, NEW p \in Parties, NEW tx, WellBuilt(p, tx),
           NEW i \in Ids \ (mempool \cup accepted), known[i] = tx, running[p] = 0,
           mempool' = mempool \cup {i},
           \/ tx.branch # "Send" /\ running' = [running EXCEPT ![p] = i]
           \/ tx.branch = "Send" /\ running' = [running EXCEPT ![p] = 0],
           UNCHANGED <<chain, known, accepted, files, atts, outages>>
    PROVE  Inductive'
<1>1. /\ known' = known /\ accepted' = accepted /\ escrow' = escrow /\ outages' = outages
      /\ files' = files /\ atts' = atts /\ Held /\ Lines
  BY DEF chain, Inductive, Structure
<1>2. Ids' = Ids /\ \A f : Ancestry(f)' = Ancestry(f)
  BY <1>1, SameTransactions
<1>3. Held'
  <2>1. ASSUME NEW q \in Parties, running'[q] # 0
        PROVE  Escrowed(running'[q]) /\ known[running'[q]].spends = files[q]
    BY <1>1, <2>1 DEF Held, WellBuilt, Escrowed
  <2>2. running' \in [Parties -> Ids \cup {0}]
    BY <1>1 DEF Held
  <2> QED BY <1>1, <1>2, <2>1, <2>2 DEF Held, Escrowed
<1>4. ASSUME NEW q \in Parties, NEW j \in Knowledge(q) PROVE j \in Knowledge(q)'
  <2>1. PICK g, h : g = files[q] /\ h = running'[q]
    OBVIOUS
  <2>2. Knowledge(q)' = Ancestry(g) \cup Ancestry(h)
    BY <1>1, <1>2, <2>1 DEF Knowledge
  <2>3. CASE running[q] = 0
    BY <1>1, <1>4, <2>1, <2>2, <2>3 DEF Knowledge, Lines
  <2>4. CASE running[q] # 0
    BY <1>1, <1>4, <2>1, <2>2, <2>4 DEF Knowledge, Held
  <2> QED BY <2>3, <2>4
<1> QED BY <1>1, <1>3, <1>4, NothingForgotten

LEMMA CommandInductive ==
    ASSUME Inductive, NEW p \in Parties, NEW tx, Commanded(p, tx)
    PROVE  Inductive'
<1>1. CASE known' = Append(known, tx)
  <2>1. \E S : known \in Seq(S)
    BY DEF Inductive, Structure, OneLineage, Listed
  <2>2. PICK n \in Nat : n = Len(known)
    BY <2>1
  <2>3. \/ New(p, tx, n)
        \/ known' = known
    BY <1>1, <2>2 DEF Commanded, Submit, New
  <2>4. known' # known
    BY <1>1, <2>1
  <2> QED BY <2>3, <2>4, NewInductive DEF Commanded
<1>2. CASE known' # Append(known, tx)
  <2>1. PICK i \in Ids \ (mempool \cup accepted) :
            /\ known[i] = tx /\ running[p] = 0 /\ mempool' = mempool \cup {i}
            /\ \/ tx.branch # "Send" /\ running' = [running EXCEPT ![p] = i]
               \/ tx.branch = "Send" /\ running' = [running EXCEPT ![p] = 0]
            /\ UNCHANGED <<chain, known, accepted, files, atts, outages>>
    BY <1>2 DEF Commanded, Submit
  <2> QED BY <2>1, AgainInductive DEF Commanded
<1> QED BY <1>1, <1>2

LEMMA AttestInductive ==
    ASSUME Inductive, NEW p \in Parties, Attest(p)
    PROVE  Inductive'
<1>1. /\ known' = known /\ accepted' = accepted /\ escrow' = escrow /\ outages' = outages
      /\ files' = files /\ running' = running /\ mempool' = mempool /\ Held
      /\ atts' = atts \cup {[side |-> p, anchor |-> files[p]]} /\ files[p] \in Ids
  BY DEF Attest, chain, node, Inductive, Structure, HasFile, Held
<1>2. Ids' = Ids /\ \A f : Ancestry(f)' = Ancestry(f)
  BY <1>1, SameTransactions
<1>3. Held'
  BY <1>1, <1>2 DEF Held, Escrowed
<1>4. \A q \in Parties : Knowledge(q)' = Knowledge(q)
  BY <1>1, <1>2 DEF Knowledge
<1> QED BY <1>1, <1>3, <1>4, NothingForgotten

\* The file takes the place of the one the command read, which it rests on.
LEMMA SaveInductive ==
    ASSUME Inductive, NEW p \in Parties, Save(p)
    PROVE  Inductive'
<1>1. /\ running[p] # 0 /\ known' = known /\ accepted' = accepted /\ escrow' = escrow
      /\ outages' = outages /\ atts' = atts /\ mempool' = mempool /\ Held /\ Lines /\ running[p] \in Ids
      /\ files' = [files EXCEPT ![p] = running[p]] /\ running' = [running EXCEPT ![p] = 0]
  BY DEF Save, chain, node, Inductive, Structure, Held
<1>2. Ids' = Ids /\ \A f : Ancestry(f)' = Ancestry(f)
  BY <1>1, SameTransactions
<1>3. Held'
  <2>1. files' \in [Parties -> Ids \cup {0}] /\ running' \in [Parties -> Ids \cup {0}]
    BY <1>1 DEF Held
  <2>2. ASSUME NEW q \in Parties
        PROVE  /\ files'[q] # 0 => Escrowed(files'[q])
               /\ running'[q] # 0 => Escrowed(running'[q]) /\ known[running'[q]].spends = files'[q]
    BY <1>1 DEF Held
  <2> QED BY <1>1, <1>2, <2>1, <2>2 DEF Held, Escrowed
<1>4. ASSUME NEW q \in Parties, NEW j \in Knowledge(q) PROVE j \in Knowledge(q)'
  <2>1. PICK g, h : g = files'[q] /\ h = running'[q]
    OBVIOUS
  <2>2. Knowledge(q)' = Ancestry(g) \cup Ancestry(h)
    BY <1>2, <2>1 DEF Knowledge
  <2>3. CASE q # p
    BY <1>1, <1>4, <2>1, <2>2, <2>3 DEF Knowledge, Held
  <2>4. CASE q = p
    <3>1. g = running[p] /\ known[g].spends = files[p] /\ g \in Ids
      <4>1. g = running[p] /\ running[p] # 0
        BY <1>1, <2>1, <2>4 DEF Held
      <4> QED BY <1>1, <4>1 DEF Held
    <3>2. Ancestry(g) = {g} \cup Ancestry(files[p])
      BY <1>1, <3>1 DEF Lines
    <3> QED BY <1>4, <2>2, <2>4, <3>1, <3>2 DEF Knowledge
  <2> QED BY <2>3, <2>4
<1> QED BY <1>1, <1>3, <1>4, NothingForgotten

LEMMA CrashInductive ==
    ASSUME Inductive, NEW p \in Parties, Crash(p)
    PROVE  Inductive'
<1>1. /\ known' = known /\ accepted' = accepted /\ escrow' = escrow /\ outages' = outages + 1
      /\ files' = files /\ atts' = atts /\ mempool' = mempool /\ Held
      /\ running' = [running EXCEPT ![p] = 0]
  BY DEF Crash, chain, node, Inductive, Structure
<1>2. Ids' = Ids
  BY <1>1 DEF Ids
<1>3. Held'
  <2>1. running' \in [Parties -> Ids \cup {0}]
    BY <1>1 DEF Held
  <2>2. ASSUME NEW q \in Parties, running'[q] # 0
        PROVE  Escrowed(running'[q]) /\ known[running'[q]].spends = files[q]
    BY <1>1, <2>2 DEF Held
  <2> QED BY <1>1, <1>2, <2>1, <2>2 DEF Held, Escrowed
<1>4. outages' # 0
  BY <1>1 DEF Held
<1> QED BY <1>1, <1>3, <1>4, NothingForgotten

LEMMA EvictInductive ==
    ASSUME Inductive, NEW i, Evict(i)
    PROVE  Inductive'
<1>1. /\ known' = known /\ accepted' = accepted /\ escrow' = escrow /\ outages' = outages + 1
      /\ files' = files /\ atts' = atts /\ running' = running /\ mempool' = mempool \ {i} /\ Held
  BY DEF Evict, chain, Inductive, Structure
<1>2. Held'
  <2>1. Ids' = Ids /\ outages + 1 \in Nat
    BY <1>1 DEF Ids, Held
  <2> QED BY <1>1, <2>1 DEF Held, Escrowed
<1>3. outages' # 0
  BY <1>1 DEF Held
<1> QED BY <1>1, <1>2, <1>3, NothingForgotten

\* The file handed over replaces one that does not rest on it.  What the old one
\* rested on and may still be accepted is on one line with the new one, and so
\* among what that rests on.
LEMMA HandOverInductive ==
    ASSUME Inductive, NEW p \in Parties, NEW q \in Parties, HandOver(p, q)
    PROVE  Inductive'
<1>1. /\ known' = known /\ accepted' = accepted /\ escrow' = escrow /\ outages' = outages
      /\ atts' = atts /\ mempool' = mempool /\ running' = running
      /\ Held /\ Lines /\ Ledger /\ Comparable
      /\ files' = [files EXCEPT ![q] = files[p]] /\ running[q] = 0
      /\ files[p] \in accepted /\ files[p] \notin Ancestry(files[q])
  BY DEF HandOver, chain, node, Inductive, Structure
<1>2. Ids' = Ids /\ \A f : Ancestry(f)' = Ancestry(f)
  BY <1>1, SameTransactions
<1>3. PICK f \in accepted : f = files[p] /\ f \in Ids /\ f # 0 /\ Escrowed(f)
  BY <1>1 DEF Held, Ids
<1>4. Held'
  <2>1. files' \in [Parties -> Ids \cup {0}]
    BY <1>1, <1>3 DEF Held
  <2>2. ASSUME NEW r \in Parties
        PROVE  /\ files'[r] # 0 => Escrowed(files'[r])
               /\ running[r] # 0 => Escrowed(running[r]) /\ known[running[r]].spends = files'[r]
    BY <1>1, <1>3 DEF Held
  <2> QED BY <1>1, <1>2, <2>1, <2>2 DEF Held, Escrowed
<1>5. ASSUME NEW r \in Parties, NEW i \in Ids, Escrowed(i), Viable(i), i \in Knowledge(r)
      PROVE  i \in Knowledge(r)'
  <2>1. PICK g, h : g = files'[r] /\ h = running[r]
    OBVIOUS
  <2>2. Knowledge(r)' = Ancestry(g) \cup Ancestry(h)
    BY <1>1, <1>2, <2>1 DEF Knowledge
  <2>3. CASE r # q
    BY <1>1, <1>5, <2>1, <2>2, <2>3 DEF Knowledge, Held
  <2>4. CASE r = q
    <3>1. g = f /\ Ancestry(h) = {}
      BY <1>1, <1>3, <2>1, <2>4 DEF Held, Lines
    <3>2. i \in Ancestry(files[q]) /\ files[q] \in Ids
      BY <1>1, <1>5, <2>1, <2>4, <3>1 DEF Knowledge, Held, Lines
    <3>3. f \notin Ancestry(i)
      BY <1>1, <1>3, <3>2 DEF Lines
    <3>4. i \in Ancestry(f)
      BY <1>1, <1>3, <1>5, <3>3 DEF Comparable
    <3> QED BY <2>2, <3>1, <3>4
  <2> QED BY <2>3, <2>4
<1> QED BY <1>1, <1>4, <1>5, NothingForgotten

----------------------------------------------------------------------------
(* Acceptance *)

\* The covenant never returns to before it was opened.
LEMMA StaysOpened ==
    ASSUME NEW tx, Executes(tx), "phase" \in DOMAIN escrow
    PROVE  /\ "phase" \in DOMAIN escrow'
           /\ tx.branch = "Open" \/ escrow.phase # "None" => escrow'.phase # "None"
           /\ tx.branch = "Open" => escrow.phase = "None"
<1>1. CASE tx.branch = "Send" /\ UNCHANGED chain
  BY <1>1 DEF chain
<1>2. CASE tx.branch = "Open" /\ escrow = NotOpened /\ escrow' = Covenant!Opened(daa)
  BY <1>2 DEF NotOpened, Covenant!Opened
<1>3. CASE tx.branch \notin {"Open", "Send"} /\ (Covenant!Claim \/ Covenant!Ship \/ Covenant!Dispute)
  <2>1. CASE Covenant!Claim
    <3>1. "phase" \in DOMAIN escrow' /\ escrow'.phase = "Claimed"
      BY <2>1 DEF Covenant!Claim, Covenant!Continue
    <3> QED BY <1>3, <3>1
  <2>2. CASE Covenant!Ship
    <3>1. "phase" \in DOMAIN escrow' /\ escrow'.phase = "Shipped"
      BY <2>2 DEF Covenant!Ship, Covenant!Continue
    <3> QED BY <1>3, <3>1
  <2>3. CASE Covenant!Dispute
    <3>1. PICK new : new = [escrow EXCEPT !.phase = "Disputed"]
      OBVIOUS
    <3>2. new.phase = "Disputed"
      BY <3>1
    <3>3. "phase" \in DOMAIN escrow' /\ escrow'.phase = new.phase
      BY <2>3, <3>1 DEF Covenant!Dispute, Covenant!Continue
    <3> QED BY <1>3, <3>2, <3>3
  <2> QED BY <1>3, <2>1, <2>2, <2>3
<1>4. CASE /\ tx.branch \notin {"Open", "Send"}
           /\ \/ Covenant!Settle \/ Covenant!Slash \/ Covenant!Refund
              \/ Covenant!ResolveToMaker \/ Covenant!ResolveToBuyer
  <2>1. \E branch, by, to, amount, len : Covenant!Leave(branch, by, to, amount, len)
    BY <1>4 DEF Covenant!Settle, Covenant!Slash, Covenant!Refund, Covenant!Resolve,
                Covenant!ResolveToMaker, Covenant!ResolveToBuyer
  <2>2. escrow' = [escrow EXCEPT !.phase = "Spent"]
    BY <2>1 DEF Covenant!Leave
  <2> QED BY <1>4, <2>2
<1> QED BY <1>1, <1>2, <1>3, <1>4 DEF Executes

LEMMA AcceptInductive ==
    ASSUME Inductive, NEW k \in Ids, Accept(k)
    PROVE  Inductive'
<1>1. /\ known' = known /\ accepted' = accepted \cup {k} /\ outages' = outages
      /\ files' = files /\ atts' = atts /\ running' = running
      /\ mempool' = { j \in mempool \ {k} : ~Conflict(known[k], known[j]) }
      /\ k \in mempool /\ Spendable(known[k]) /\ Executes(known[k])
      /\ OneLineage /\ Built /\ Lines /\ Held /\ Ledger /\ Comparable /\ Trail
  BY DEF Accept, local, Inductive, Structure
<1>2. Ids' = Ids /\ (\A f : Ancestry(f)' = Ancestry(f)) /\ OneLineage' /\ Built' /\ Lines'
  BY <1>1, SameTransactions DEF Inductive
<1>3. Held'
  <2>1. mempool' \subseteq mempool \ {k}
    BY <1>1
  <2> QED BY <1>1, <1>2, <2>1 DEF Held, Escrowed
<1>4. ASSUME NEW j \in accepted, Escrowed(j), Escrowed(k) PROVE known[j].spends # known[k].spends
  <2>1. SUFFICES ASSUME known[j].spends = known[k].spends PROVE FALSE
    OBVIOUS
  <2>2. j \in Ids
    BY <1>1 DEF Held
  <2>3. known[k].spends = 0
    BY <1>1, <2>1 DEF Spendable, Conflict
  <2>4. known[k].branch = "Open" /\ known[j].branch = "Open"
    BY <1>1, <1>4, <2>1, <2>2, <2>3 DEF Built, Escrowed
  <2> QED BY <1>1, <2>4, StaysOpened DEF Ledger
<1>5. Ledger'
  <2>1. Ancestry(k) \subseteq accepted'
    <3>1. known[k].spends \in {0} \cup accepted
      BY <1>1 DEF Spendable
    <3>2. Ancestry(known[k].spends) \subseteq accepted
      BY <1>1, <3>1 DEF Lines, Ledger
    <3> QED BY <1>1, <3>2 DEF Lines
  <2>2. \A i \in accepted' : Ancestry(i) \subseteq accepted'
    BY <1>1, <2>1 DEF Ledger
  <2>3. \A i, j \in accepted' :
            Escrowed(i) /\ Escrowed(j) /\ known[i].spends = known[j].spends => i = j
    BY <1>1, <1>4 DEF Ledger
  <2>4. /\ "phase" \in DOMAIN escrow'
        /\ \A i \in accepted' : known[i].branch = "Open" => escrow'.phase # "None"
    BY <1>1, StaysOpened DEF Ledger
  <2> QED BY <1>1, <1>2, <2>2, <2>3, <2>4 DEF Ledger, Escrowed
<1>6. ASSUME NEW i \in Ids, Viable(i)'
      PROVE  Viable(i) /\ \A a \in Ancestry(i) :
                 Escrowed(k) /\ known[k].spends = known[a].spends => k = a
  BY <1>1, <1>2, <1>6 DEF Viable, Escrowed
<1>7. ASSUME NEW i \in Ids, NEW f \in accepted', Escrowed(i), Viable(i)', Escrowed(f)
      PROVE  i \in Ancestry(f) \/ f \in Ancestry(i)
  <2>1. CASE f \in accepted
    BY <1>1, <1>6, <1>7, <2>1 DEF Comparable
  <2>2. CASE f = k /\ known[k].spends = 0
    <3>1. PICK r \in Ancestry(i) : known[r].spends = 0
      BY <1>1 DEF Lines
    <3> QED BY <1>6, <1>7, <2>2, <3>1
  <2>3. CASE f = k /\ known[k].spends # 0
    <3>1. PICK s \in accepted : s = known[k].spends
      BY <1>1, <2>3 DEF Spendable
    <3>2. Escrowed(s) /\ s \in Ids /\ Ancestry(k) = {k} \cup Ancestry(s)
      BY <1>1, <2>3, <3>1 DEF Built, Lines, Held
    <3>3. CASE i \in Ancestry(s)
      BY <2>3, <3>2, <3>3
    <3>4. CASE i \notin Ancestry(s)
      <4>1. s \in Ancestry(i)
        BY <1>1, <1>6, <1>7, <3>2, <3>4 DEF Comparable
      <4>2. s # i
        BY <1>1, <3>2, <3>4 DEF Lines
      <4>3. PICK b \in Ancestry(i) : known[b].spends = s
        BY <1>1, <4>1, <4>2 DEF Lines
      <4> QED BY <1>6, <1>7, <2>3, <3>1, <4>3
    <3> QED BY <3>3, <3>4
  <2> QED BY <1>1, <1>7, <2>1, <2>2, <2>3
<1>8. Comparable'
  BY <1>1, <1>2, <1>7 DEF Comparable, Escrowed
<1>9. Trail'
  <2>1. ASSUME outages = 0, NEW i \in Ids, Escrowed(i), Viable(i)'
        PROVE  i \in Knowledge(known[i].by)'
    <3>1. PICK q : q = known[i].by
      OBVIOUS
    <3>2. PICK g, h : g = files[q] /\ h = running[q]
      OBVIOUS
    <3>3. Knowledge(known[i].by)' = Ancestry(g) \cup Ancestry(h)
      BY <1>1, <1>2, <3>1, <3>2 DEF Knowledge
    <3>4. i \in Knowledge(q)
      BY <1>1, <1>6, <2>1, <3>1 DEF Trail
    <3> QED BY <3>2, <3>3, <3>4 DEF Knowledge
  <2> QED BY <1>1, <1>2, <2>1 DEF Trail, Escrowed
<1> QED BY <1>2, <1>3, <1>5, <1>8, <1>9 DEF Inductive, Structure

----------------------------------------------------------------------------
(* The specification *)

LEMMA InitInductive == Init => Inductive
<1> SUFFICES ASSUME Init PROVE Inductive
  OBVIOUS
<1>1. /\ known = << >> /\ mempool = {} /\ accepted = {} /\ atts = {} /\ outages = 0
      /\ files = [p \in Parties |-> 0] /\ running = [p \in Parties |-> 0] /\ escrow = NotOpened
      /\ Len(known) = 0 /\ Ids = {}
  BY DEF Init, Ids
<1>2. PICK g : g = [i \in 0..0 |-> {}]
  OBVIOUS
<1>3. OnePath(g, 0, Spent)
  <2>1. ASSUME NEW h PROVE Path(h, 0, Spent) <=> h = g
    <3>1. \A i \in 0..0 : (IF i = 0 THEN {} ELSE {i} \cup h[Spent[i]]) = {}
      OBVIOUS
    <3> QED BY <1>2, <3>1 DEF Path
  <2> QED BY <2>1 DEF OnePath
<1>4. Listed
  BY <1>1 DEF Listed
<1>5. OneLineage
  BY <1>1, <1>3, <1>4 DEF OneLineage
<1>6. Ancestry(0) = {}
  <2>1. Ancestry(0) = g[0]
    BY <1>1, <1>3, <1>4, AncestryIsPath
  <2> QED BY <1>2, <2>1
<1>7. Built /\ Lines /\ Comparable /\ Trail
  BY <1>1, <1>6 DEF Built, Lines, Comparable, Trail
<1>8. Held
  BY <1>1 DEF Held
<1>9. "phase" \in DOMAIN escrow
  BY <1>1 DEF NotOpened, Covenant!Opened
<1>10. Ledger
  BY <1>1, <1>9 DEF Ledger
<1> QED BY <1>5, <1>7, <1>8, <1>10 DEF Inductive, Structure

LEMMA NextInductive == Inductive /\ [Next]_vars => Inductive'
<1> SUFFICES ASSUME Inductive, [Next]_vars PROVE Inductive'
  OBVIOUS
<1>1. CASE Open \/ Claim \/ Ship \/ Dispute \/ Settle \/ Slash \/ Refund
               \/ \E p \in Parties : Resolve(p) \/ Send(p)
  BY <1>1, CommandsSubmit, CommandInductive
<1>2. ASSUME NEW p \in Parties, Attest(p) \/ Save(p) \/ Crash(p) PROVE Inductive'
  BY <1>2, AttestInductive, SaveInductive, CrashInductive
<1>3. ASSUME NEW p \in Parties, NEW q \in Parties, HandOver(p, q) PROVE Inductive'
  BY <1>3, HandOverInductive
<1>4. ASSUME NEW i \in Ids, Accept(i) \/ Evict(i) PROVE Inductive'
  BY <1>4, AcceptInductive, EvictInductive
<1>5. CASE Tick \/ UNCHANGED vars
  <2>1. UNCHANGED <<node, local, escrow>>
    BY <1>5 DEF Tick, Covenant!Tick, vars, chain
  <2>2. /\ known' = known /\ mempool' = mempool /\ accepted' = accepted /\ escrow' = escrow
        /\ files' = files /\ running' = running /\ atts' = atts /\ outages' = outages
    BY <2>1 DEF node, local
  <2>3. Ids' = Ids /\ \A f : Ancestry(f)' = Ancestry(f)
    BY <2>2, SameTransactions
  <2>4. Held'
    BY <2>2, <2>3 DEF Inductive, Structure, Held, Escrowed
  <2>5. \A p \in Parties : Knowledge(p)' = Knowledge(p)
    BY <2>2, <2>3 DEF Knowledge
  <2> QED BY <2>2, <2>4, <2>5, NothingForgotten
<1> QED BY <1>1, <1>2, <1>3, <1>4, <1>5 DEF Next, EscrowStep

LEMMA AlwaysInductive == Spec => []Inductive
BY InitInductive, NextInductive, PTL DEF Spec

\* The type invariant, whatever the parties do, however many transactions there
\* are and however often a process dies or a mempool forgets.
THEOREM ClientTypeCorrect == Spec => []ClientTypeOK
<1>1. Inductive => ClientTypeOK
  BY DEF Inductive, Structure, OneLineage, Listed, Built, Held, ClientTypeOK
<1> QED BY <1>1, AlwaysInductive, PTL

\* settle and slash (escrow.rs) commit nothing that is anchored elsewhere.
THEOREM SettlementsAnchorTheirs == Spec => []SettlementAnchorsItsAttestations
<1>1. Inductive => SettlementAnchorsItsAttestations
  BY DEF Inductive, Structure, Built, Held, AnchoredTo, SettlementAnchorsItsAttestations
<1> QED BY <1>1, AlwaysInductive, PTL

\* While nothing dies, the file of whoever made the last move, or of whoever it
\* was handed to, leads on from the output with the money on it.
THEOREM TrailIsKept == Spec => []CurrentStateIsKnown
<1>1. ASSUME Inductive, outages = 0, NEW i \in Ids, Current(i)
      PROVE  \E p \in Parties : i \in Ancestry(files[p]) \cup Ancestry(running[p])
  <2>1. i \in accepted /\ Escrowed(i)
    BY <1>1 DEF Current, Covenanted, Escrowed
  <2>2. ASSUME NEW a \in Ancestry(i), NEW b \in accepted, Escrowed(b),
               known[b].spends = known[a].spends
        PROVE  b = a
    BY <1>1, <2>1, <2>2 DEF Inductive, Structure, Ledger, Lines
  <2>3. Viable(i)
    BY <2>2 DEF Viable
  <2>4. i \in Knowledge(known[i].by) /\ known[i].by \in Parties
    BY <1>1, <2>1, <2>3 DEF Inductive, Trail, Structure, Built
  <2> QED BY <2>4 DEF Knowledge
<1>2. Inductive => CurrentStateIsKnown
  BY <1>1 DEF CurrentStateIsKnown
<1> QED BY <1>2, AlwaysInductive, PTL
----------------------------------------------------------------------------
(* What the covenant accepts *)

\* The payload of a claimed job names the maker, and none is disputed without an arbiter.
Named(s) ==
    /\ IsPayload(s)
    /\ s.phase \in {"Claimed", "Shipped", "Disputed"} => s.maker = Maker /\ s.maker_rep = Rep
    /\ s.phase = "Disputed" => Arbiter # Zero

\* The covenant's output is the one the payload was built for.
Carried(s) ==
    /\ escrow.phase = s.phase
    /\ escrow.maker = s.maker /\ escrow.maker_rep = s.maker_rep
    /\ escrow.tracking = s.tracking /\ escrow.shippedAt = s.shippedAt

\* The covenant is where the accepted transactions lead.
Matched ==
    /\ daa \in 1..MaxDaa
    /\ \A i \in Ids : Composed(known[i], known[known[i].spends].state, daa) /\ Named(known[i].state)
    /\ \A i, j \in mempool \cup accepted :
           known[i].branch = "Open" /\ known[j].branch = "Open" => i = j
    /\ (\A i \in accepted : known[i].branch # "Open") => escrow = NotOpened
    /\ \A i \in Ids : Current(i) => Carried(known[i].state)

\* What the covenant asks of a transaction, as an assertion about the state.
Fits(tx) ==
    /\ tx.lock \in Covenant!FinalLockTimes
    /\ \/ tx.branch = "Send"
       \/ tx.branch = "Open" /\ escrow = NotOpened
       \/ /\ tx.branch = "Claim" /\ escrow.phase = "Open"
          /\ tx.state = Payload("Claimed", Maker, Rep, Zero, 0)
       \/ /\ tx.branch = "Ship" /\ escrow.phase = "Claimed" /\ escrow.maker = Maker
          /\ tx.state = Payload("Shipped", Maker, Rep, Tracking, tx.lock)
       \/ /\ tx.branch = "Dispute" /\ escrow.phase = "Shipped" /\ Arbiter # Zero
          /\ tx.state = Payload("Disputed", escrow.maker, escrow.maker_rep,
                                escrow.tracking, escrow.shippedAt)
       \/ tx.branch = "Settle" /\ escrow.phase = "Shipped"
       \/ tx.branch = "Slash" /\ escrow.phase = "Claimed" /\ tx.lock >= Deadline
       \/ tx.branch = "Refund" /\ escrow.phase = "Open" /\ tx.lock >= Deadline
       \/ /\ tx.branch \in {"ResolveToMaker", "ResolveToBuyer"} /\ escrow.phase = "Disputed"
          /\ escrow.maker = Maker /\ Arbiter # Zero

WhatIsBuiltFits == \A i \in mempool : Spendable(known[i]) => Fits(known[i])

\* A first submission, or the same again: one transaction more waits.
Submitted(tx, k) ==
    /\ Ids' = Ids \cup {k} /\ known'[k] = tx /\ \A i \in Ids : known'[i] = known[i]
    /\ mempool' = mempool \cup {k} /\ k \notin accepted
    /\ accepted' = accepted /\ escrow' = escrow /\ daa' = daa

LEMMA CommandSubmits ==
    ASSUME Structure, NEW p \in Parties, NEW tx, Commanded(p, tx)
    PROVE  \E k : Submitted(tx, k)
<1>1. /\ accepted' = accepted /\ escrow' = escrow /\ daa' = daa
      /\ \/ known' = Append(known, tx) /\ mempool' = mempool \cup {Len(known) + 1}
         \/ \E i \in Ids \ (mempool \cup accepted) :
                known[i] = tx /\ mempool' = mempool \cup {i} /\ known' = known
  BY DEF Commanded, Submit, chain
<1>2. PICK n \in Nat : n = Len(known) /\ Ids = 1..n
  BY DEF Structure, OneLineage, Listed, Ids
<1>3. CASE known' = Append(known, tx) /\ mempool' = mempool \cup {Len(known) + 1}
  <2>1. /\ Len(known') = n + 1 /\ known'[n + 1] = tx /\ \A i \in 1..n : known'[i] = known[i]
    BY <1>2, <1>3 DEF Structure, OneLineage, Listed
  <2>2. n + 1 \notin accepted
    BY <1>2 DEF Structure, Held
  <2>3. Ids' = Ids \cup {n + 1}
    BY <1>2, <2>1 DEF Ids
  <2> QED BY <1>1, <1>2, <1>3, <2>1, <2>2, <2>3 DEF Submitted
<1>4. CASE \E i \in Ids \ (mempool \cup accepted) :
               known[i] = tx /\ mempool' = mempool \cup {i} /\ known' = known
  <2>1. PICK i \in Ids \ (mempool \cup accepted) :
            known[i] = tx /\ mempool' = mempool \cup {i} /\ known' = known
    BY <1>4
  <2>2. Ids' = Ids
    BY <2>1 DEF Ids
  <2> QED BY <1>1, <2>1, <2>2 DEF Submitted
<1> QED BY <1>1, <1>3, <1>4

\* A payload that was built names whom the one before it named.
LEMMA ComposedIsNamed ==
    ASSUME NEW tx, NEW of, NEW now, Composed(tx, of, now), Named(of),
           tx.branch \in Covenanted \cup Outcomes \cup {"Send"}
    PROVE  Named(tx.state)
<1>1. ASSUME NEW phase, NEW maker, NEW rep, NEW tracking, NEW at, NEW s,
             s = Payload(phase, maker, rep, tracking, at)
      PROVE  /\ s.phase = phase /\ s.maker = maker /\ s.maker_rep = rep /\ IsPayload(s)
             /\ s.tracking = tracking /\ s.shippedAt = at
  BY <1>1 DEF Payload, IsPayload
<1>2. CASE tx.branch = "Open"
  BY <1>1, <1>2 DEF Composed, Named
<1>3. CASE tx.branch = "Claim"
  BY <1>1, <1>3 DEF Composed, Named
<1>4. CASE tx.branch = "Ship"
  BY <1>1, <1>4 DEF Composed, Named
<1>5. CASE tx.branch = "Dispute"
  BY <1>1, <1>5 DEF Composed, Named
<1>6. CASE tx.branch \in Outcomes \cup {"Send"}
  BY <1>1, <1>6 DEF Composed, Named, Terminal
<1> QED BY <1>2, <1>3, <1>4, <1>5, <1>6 DEF Covenanted

\* What spends nothing is built without a state on file.
LEMMA ComposedFromNothing ==
    ASSUME NEW tx, NEW of, NEW other, NEW now, Composed(tx, of, now), tx.branch \in {"Open", "Send"}
    PROVE  Composed(tx, other, now) /\ Named(tx.state)
<1>1. Composed(tx, other, now)
  BY DEF Composed, Outcomes
<1>2. CASE tx.branch = "Open"
  BY <1>2 DEF Composed, Named, IsPayload, Payload
<1>3. CASE tx.branch = "Send"
  BY <1>3 DEF Composed, Named, IsPayload, Payload, Terminal
<1> QED BY <1>1, <1>2, <1>3

\* What the commands read is legible.
LEMMA MatchedIsLegible == Structure /\ Matched => Legible
<1> SUFFICES ASSUME Structure, Matched PROVE Legible
  OBVIOUS
<1>1. daa \in Nat
  BY ClientAssumption DEF Matched
<1>2. \A p \in Parties : HasFile(p) => files[p] \in Ids
  BY DEF Structure, Held, HasFile
<1> QED BY <1>1, <1>2 DEF Legible, Live, Matched, Named

LEMMA CommandMatched ==
    ASSUME Structure, Matched, NEW p \in Parties, NEW tx, Commanded(p, tx),
           Composed(tx, Live(p).state, daa)
    PROVE  Matched'
<1>1. PICK k : Submitted(tx, k)
  BY CommandSubmits
<1>2. WellBuilt(p, tx) /\ Built /\ Held /\ \A i \in Ids : known[i].spends \in 0..(i - 1)
  BY DEF Commanded, Structure, OneLineage, Listed
<1>3. PICK n \in Nat : Ids = 1..n
  BY DEF Structure, OneLineage, Listed, Ids
<1>4. ASSUME NEW i \in Ids
      PROVE  Composed(known'[i], known'[known'[i].spends].state, daa') /\ Named(known'[i].state)
  <2>1. /\ known'[i] = known[i] /\ Composed(known[i], known[known[i].spends].state, daa)
        /\ Named(known[i].state)
    BY <1>1, <1>4 DEF Submitted, Matched
  <2>4. CASE known[i].spends = 0
    BY <1>2, <1>1, <2>1, <2>4, ComposedFromNothing DEF Built, Submitted
  <2>5. CASE known[i].spends # 0
    <3>1. known[i].spends \in Ids
      BY <1>2, <1>3, <2>5
    <3>2. known'[known[i].spends] = known[known[i].spends]
      BY <1>1, <3>1 DEF Submitted
    <3> QED BY <1>1, <2>1, <3>2 DEF Submitted
  <2> QED BY <2>4, <2>5
<1>5. Composed(tx, known'[tx.spends].state, daa) /\ Named(tx.state)
  <2>1. CASE tx.branch \in {"Open", "Send"}
    BY <2>1, ComposedFromNothing
  <2>2. CASE tx.branch \notin {"Open", "Send"}
    <3>1. tx.spends = files[p] /\ tx.spends \in Ids
      BY <1>2, <2>2 DEF WellBuilt, Held
    <3>2. known'[tx.spends] = Live(p) /\ Named(Live(p).state)
      BY <1>1, <3>1 DEF Submitted, Live, Matched
    <3> QED BY <1>2, <3>2, ComposedIsNamed DEF WellBuilt
  <2> QED BY <2>1, <2>2
<1>6. ASSUME NEW i \in Ids'
      PROVE  Composed(known'[i], known'[known'[i].spends].state, daa') /\ Named(known'[i].state)
  <2>1. CASE i \in Ids
    BY <1>4, <2>1
  <2>2. CASE i = k
    BY <1>1, <1>5, <2>2 DEF Submitted
  <2> QED BY <1>1, <1>6, <2>1, <2>2 DEF Submitted
<1>7. ASSUME NEW i \in (mempool \cup accepted)', NEW j \in (mempool \cup accepted)',
             known'[i].branch = "Open", known'[j].branch = "Open"
      PROVE  i = j
  <2>1. (mempool \cup accepted)' = mempool \cup accepted \cup {k} /\ mempool \cup accepted \subseteq Ids
    BY <1>1, <1>2 DEF Submitted, Held
  <2>2. \A h \in mempool \cup accepted : known'[h] = known[h]
    BY <1>1, <2>1 DEF Submitted
  <2>3. tx.branch = "Open" => \A h \in mempool \cup accepted : known[h].branch # "Open"
    BY <1>2 DEF WellBuilt
  <2> QED BY <1>1, <1>7, <2>1, <2>2, <2>3 DEF Submitted, Matched
<1>8. (\A i \in accepted' : known'[i].branch # "Open") => escrow' = NotOpened
  BY <1>1, <1>2 DEF Submitted, Matched, Held
<1>9. ASSUME NEW i \in Ids', Current(i)' PROVE Carried(known[i].state)'
  <2>1. i \in Ids /\ known'[i] = known[i] /\ accepted \subseteq Ids
    BY <1>1, <1>2, <1>9 DEF Submitted, Current, Held
  <2>2. Current(i)
    BY <1>1, <1>9, <2>1 DEF Submitted, Current
  <2>3. Carried(known[i].state)
    BY <2>1, <2>2 DEF Matched
  <2> QED BY <1>1, <2>1, <2>3 DEF Submitted, Carried
<1>10. daa' \in 1..MaxDaa
  BY <1>1 DEF Submitted, Matched
<1>11. NotOpened' = NotOpened
  BY DEF NotOpened, Covenant!Opened
<1> QED BY <1>6, <1>7, <1>8, <1>9, <1>10, <1>11 DEF Matched

\* Nothing is submitted, and time may pass.
LEMMA SameMatched ==
    ASSUME Matched, known' = known, accepted' = accepted, escrow' = escrow,
           mempool' \subseteq mempool, daa' \in daa..MaxDaa
    PROVE  Matched'
<1>1. Ids' = Ids /\ daa' \in 1..MaxDaa /\ (daa \in Nat /\ daa' \in Nat /\ daa <= daa')
  BY ClientAssumption DEF Ids, Matched
<1>2. \A t, of : Composed(t, of, daa) => Composed(t, of, daa')
  BY <1>1 DEF Composed
<1>3. \A i : Carried(known[i].state)' <=> Carried(known[i].state)
  BY DEF Carried
<1>4. \A i : Current(i)' <=> Current(i)
  BY DEF Current
<1>5. NotOpened' = NotOpened
  BY DEF NotOpened, Covenant!Opened
<1> QED BY <1>1, <1>2, <1>3, <1>4, <1>5 DEF Matched

\* What is accepted rests on an accepted Open.
LEMMA AcceptedFromOpen ==
    ASSUME Structure, NEW i \in accepted, Escrowed(i)
    PROVE  \E r \in accepted : known[r].branch = "Open"
<1>1. i \in Ids /\ Ancestry(i) \subseteq accepted /\ accepted \subseteq Ids
  BY DEF Structure, Held, Ledger
<1>2. PICK r \in Ancestry(i) : known[r].spends = 0 /\ Escrowed(r)
  BY <1>1 DEF Structure, Lines
<1> QED BY <1>1, <1>2 DEF Structure, Built, Escrowed

\* Two accepted transactions that nothing accepted spends are one.
LEMMA OneCurrent ==
    ASSUME Inductive, NEW i \in accepted, NEW j \in accepted, Escrowed(i), Escrowed(j),
           \A b \in accepted : known[b].spends # i /\ known[b].spends # j
    PROVE  i = j
<1>1. /\ Lines /\ Ledger /\ Comparable /\ i \in Ids /\ j \in Ids
      /\ Ancestry(i) \subseteq accepted /\ Ancestry(j) \subseteq accepted
  BY DEF Inductive, Structure, Held, Ledger
<1>2. \A a \in Ancestry(i) : Escrowed(a)
  BY <1>1 DEF Lines
<1>3. Viable(i)
  BY <1>1, <1>2 DEF Viable, Ledger
<1>4. i \in Ancestry(j) \/ j \in Ancestry(i)
  BY <1>1, <1>3 DEF Comparable
<1> QED BY <1>1, <1>4 DEF Lines

\* A branch that stays in the covenant carries the payload it was built with.
LEMMA CarriesOn ==
    ASSUME NEW tx, Executes(tx), tx.branch \in Covenanted,
           tx.branch = "Open" => tx.state = Payload("Open", Zero, Zero, Zero, 0)
    PROVE  LET s == tx.state
           IN  /\ escrow'.phase = s.phase
               /\ escrow'.maker = s.maker /\ escrow'.maker_rep = s.maker_rep
               /\ escrow'.tracking = s.tracking /\ escrow'.shippedAt = s.shippedAt
<1>1. CASE tx.branch = "Open"
  BY <1>1 DEF Executes, Covenant!Opened, Payload
<1>2. CASE tx.branch # "Open"
  BY <1>2 DEF Executes, Carries, Covenanted
<1> QED BY <1>1, <1>2

\* Executing leaves the clock alone.
LEMMA ExecutionTakesNoTime ==
    ASSUME NEW tx, Executes(tx)
    PROVE  daa' = daa
BY DEF Executes, chain, Covenant!Claim, Covenant!Ship, Covenant!Dispute, Covenant!Settle,
       Covenant!Slash, Covenant!Refund, Covenant!ResolveToMaker, Covenant!ResolveToBuyer,
       Covenant!Resolve, Covenant!Continue, Covenant!Leave

LEMMA AcceptMatched ==
    ASSUME Inductive, Matched, NEW k \in Ids, Accept(k)
    PROVE  Matched'
<1>1. /\ known' = known /\ accepted' = accepted \cup {k} /\ Ids' = Ids
      /\ mempool' \subseteq mempool /\ k \in mempool
      /\ Spendable(known[k]) /\ Executes(known[k])
  BY DEF Accept, Ids
<1>2. /\ Structure /\ Built /\ Held /\ Ledger /\ accepted \subseteq Ids
      /\ known[k].branch \in Covenanted \cup Outcomes \cup {"Send"}
  BY DEF Inductive, Structure, Held, Built
<1>3. daa' = daa
  BY <1>1, ExecutionTakesNoTime
<1>4. NotOpened' = NotOpened
  BY DEF NotOpened, Covenant!Opened
<1>5. CASE known[k].branch = "Send"
  <2>1. escrow' = escrow
    BY <1>1, <1>5 DEF Executes, chain
  <2>2. (\A i \in accepted' : known'[i].branch # "Open") => escrow' = NotOpened
    BY <1>1, <2>1 DEF Matched
  <2>3. ASSUME NEW i \in Ids', Current(i)' PROVE Carried(known[i].state)'
    <3>1. i # k
      BY <1>1, <1>5, <2>3 DEF Current, Covenanted
    <3>2. Current(i)
      BY <1>1, <2>3, <3>1 DEF Current
    <3> QED BY <1>1, <2>1, <3>2 DEF Matched, Carried
  <2> QED BY <1>1, <1>3, <1>4, <2>2, <2>3 DEF Matched
<1>6. CASE Escrowed(k)
  <2>1. \E r \in accepted' : known'[r].branch = "Open"
    <3>1. CASE known[k].branch = "Open"
      BY <1>1, <3>1
    <3>2. CASE known[k].branch # "Open"
      <4>1. known[k].spends \in accepted /\ Escrowed(known[k].spends)
        BY <1>1, <1>2, <1>6, <3>2 DEF Spendable, Built, Escrowed
      <4> QED BY <1>1, <1>2, <4>1, AcceptedFromOpen
    <3> QED BY <3>1, <3>2
  <2>2. ASSUME NEW i \in Ids', Current(i)' PROVE i = k
    <3>1. SUFFICES ASSUME i # k PROVE FALSE
      OBVIOUS
    <3>2. i \in accepted /\ Escrowed(i) /\ \A b \in accepted : known[b].spends # i
      BY <1>1, <2>2, <3>1 DEF Current, Escrowed, Covenanted
    <3>3. CASE known[k].branch = "Open"
      <4>1. PICK r \in accepted : known[r].branch = "Open"
        BY <1>2, <3>2, AcceptedFromOpen
      <4> QED BY <1>1, <1>2, <3>3, <4>1, StaysOpened DEF Ledger
    <3>4. CASE known[k].branch # "Open"
      <4>1. PICK s \in accepted : s = known[k].spends /\ s # 0 /\ Escrowed(s)
        BY <1>1, <1>2, <1>6, <3>4 DEF Spendable, Built, Escrowed
      <4>2. \A b \in accepted : known[b].spends # s
        BY <1>1, <4>1 DEF Spendable, Conflict
      <4>3. i = s
        BY <3>2, <4>1, <4>2, OneCurrent
      <4> QED BY <1>1, <2>2, <4>1, <4>3 DEF Current
    <3> QED BY <3>3, <3>4
  <2>3. ASSUME Current(k)' PROVE Carried(known[k].state)'
    <3>1. known[k].branch \in Covenanted
      BY <1>1, <2>3 DEF Current
    <3>2. known[k].branch = "Open" => known[k].state = Payload("Open", Zero, Zero, Zero, 0)
      BY DEF Matched, Composed
    <3>3. PICK s : s = known[k].state
      OBVIOUS
    <3>4. /\ escrow'.phase = s.phase
          /\ escrow'.maker = s.maker /\ escrow'.maker_rep = s.maker_rep
          /\ escrow'.tracking = s.tracking /\ escrow'.shippedAt = s.shippedAt
      BY <1>1, <3>1, <3>2, <3>3, CarriesOn
    <3> QED BY <1>1, <3>3, <3>4 DEF Carried
  <2> QED BY <1>1, <1>3, <1>4, <2>1, <2>2, <2>3 DEF Matched
<1> QED BY <1>2, <1>5, <1>6 DEF Escrowed

LEMMA InitMatched == Init => Matched
<1> SUFFICES ASSUME Init PROVE Matched
  OBVIOUS
<1>1. Ids = {} /\ daa \in 1..MaxDaa
  BY ClientAssumption DEF Init, Ids, Covenant!Scores
<1> QED BY <1>1 DEF Init, Matched

LEMMA NextMatched == Inductive /\ Matched /\ [Next]_vars => Matched'
<1> SUFFICES ASSUME Inductive, Matched, [Next]_vars PROVE Matched'
  OBVIOUS
<1>0. Structure /\ daa \in daa..MaxDaa
  BY ClientAssumption DEF Inductive, Matched
<1>1. CASE Open \/ Claim \/ Ship \/ Dispute \/ Settle \/ Slash \/ Refund
               \/ \E p \in Parties : Resolve(p) \/ Send(p)
  BY <1>0, <1>1, CommandsSubmit, CommandMatched, MatchedIsLegible
<1>2. ASSUME NEW p \in Parties, Attest(p) \/ Save(p) \/ Crash(p) PROVE Matched'
  <2>1. UNCHANGED <<known, accepted, mempool, escrow, daa>>
    BY <1>2 DEF Attest, Save, Crash, chain, node
  <2> QED BY <1>0, <2>1, SameMatched
<1>3. ASSUME NEW p \in Parties, NEW q \in Parties, HandOver(p, q) PROVE Matched'
  <2>1. UNCHANGED <<known, accepted, mempool, escrow, daa>>
    BY <1>3 DEF HandOver, chain, node
  <2> QED BY <1>0, <2>1, SameMatched
<1>4. ASSUME NEW i \in Ids, Evict(i) PROVE Matched'
  <2>1. UNCHANGED <<known, accepted, escrow, daa>> /\ mempool' \subseteq mempool
    BY <1>4 DEF Evict, chain
  <2> QED BY <1>0, <2>1, SameMatched
<1>5. ASSUME NEW i \in Ids, Accept(i) PROVE Matched'
  BY <1>5, AcceptMatched
<1>6. CASE Tick \/ UNCHANGED vars
  <2>1. UNCHANGED <<known, accepted, mempool, escrow>> /\ daa' \in daa..MaxDaa
    BY <1>0, <1>6, ClientAssumption DEF Tick, Covenant!Tick, vars, chain, node, Matched
  <2> QED BY <2>1, SameMatched
<1> QED BY <1>1, <1>2, <1>3, <1>4, <1>5, <1>6 DEF Next, EscrowStep

LEMMA AlwaysMatched == Spec => [](Inductive /\ Matched)
BY InitInductive, NextInductive, InitMatched, NextMatched, PTL DEF Spec

\* What a party built and the node took fits the covenant whenever its inputs are there,
\* however long it waited and whatever the other party did meanwhile.
THEOREM WhatIsBuiltAlwaysFits == Spec => []WhatIsBuiltFits
<1> SUFFICES ASSUME Inductive, Matched PROVE WhatIsBuiltFits
  BY AlwaysMatched, PTL
<1>1. SUFFICES ASSUME NEW i \in mempool, Spendable(known[i]) PROVE Fits(known[i])
  BY DEF WhatIsBuiltFits
<1>2. /\ Structure /\ Built /\ Held /\ i \in Ids /\ i \notin accepted
      /\ known[i].branch \in Covenanted \cup Outcomes \cup {"Send"}
  BY DEF Inductive, Structure, Held, Built
<1>3. PICK tx, s : tx = known[i] /\ s = tx.spends
  OBVIOUS
<1>4. Composed(tx, known[s].state, daa)
  BY <1>2, <1>3 DEF Matched
<1>5. tx.lock \in Covenant!FinalLockTimes
  BY <1>4, ClientAssumption DEF Composed, Matched, Covenant!FinalLockTimes, Covenant!Scores
<1>6. CASE tx.branch = "Send"
  BY <1>3, <1>5, <1>6 DEF Fits
<1>7. CASE tx.branch = "Open"
  <2>1. \A j \in accepted : known[j].branch # "Open"
    BY <1>2, <1>3, <1>7 DEF Matched
  <2> QED BY <1>3, <1>5, <1>7, <2>1 DEF Fits, Matched
<1>8. CASE tx.branch \in Moves
  <2>1. tx.branch \notin {"Open", "Send"}
    BY <1>8 DEF Moves, Covenanted, Outcomes
  <2>2. s \in accepted /\ s # 0 /\ s \in Ids
    BY <1>1, <1>2, <1>3, <2>1 DEF Spendable, Built, Held
  <2>3. known[s].state.phase \in {"Open", "Claimed", "Shipped", "Disputed"}
    BY <1>4, <1>8 DEF Composed, Moves, Covenanted, Outcomes
  <2>4. known[s].branch \in Covenanted
    <3>1. known[s].branch \notin Outcomes \cup {"Send"}
      <4>1. Composed(known[s], known[known[s].spends].state, daa)
        BY <2>2 DEF Matched
      <4>2. Terminal.phase = "Spent"
        BY DEF Terminal, Payload
      <4> QED BY <2>3, <4>1, <4>2 DEF Composed
    <3> QED BY <1>2, <2>2, <3>1 DEF Built
  <2>5. Current(s)
    BY <1>1, <1>3, <2>2, <2>4 DEF Current, Spendable, Conflict
  <2>6. Carried(known[s].state) /\ Named(known[s].state)
    BY <2>2, <2>5 DEF Matched
  <2>7. /\ tx.branch = "Ship" => tx.state = Payload("Shipped", Maker, Rep, Tracking, tx.lock)
        /\ tx.branch = "Dispute" => tx.state = Payload("Disputed", escrow.maker, escrow.maker_rep,
                                                       escrow.tracking, escrow.shippedAt)
    BY <1>4, <2>6 DEF Composed, Carried, Named
  <2>8. Fits(tx)
    BY <1>4, <1>5, <1>8, <2>6, <2>7, ClientAssumption
       DEF Fits, Composed, Carried, Named, Moves, Covenanted, Outcomes
  <2> QED BY <1>3, <2>8
<1> QED BY <1>2, <1>3, <1>6, <1>7, <1>8 DEF Moves

\* Who signs, who is paid and what is committed when tx is executed.
SignersOf(tx) ==
    CASE tx.branch = "Claim"          -> {Rep}
      [] tx.branch = "Ship"           -> {Maker}
      [] tx.branch = "ResolveToMaker" -> {Arbiter, Maker}
      [] tx.branch = "ResolveToBuyer" -> {Arbiter, Buyer}
      [] OTHER                        -> {Buyer}

Beneficiary(tx) == IF tx.branch \in {"Settle", "ResolveToMaker"} THEN escrow.maker ELSE Buyer

Commitment(tx) ==
    IF tx.branch = "Refund" THEN {}
    ELSE IF Cardinality(tx.ids) = 2 THEN Covenant!Sides ELSE {"owner"}

\* What tx turns the covenant's output, the payout and the history into.
EscrowAfter(tx) ==
    IF tx.branch = "Send" THEN escrow
    ELSE IF tx.branch = "Open" THEN Covenant!Opened(daa)
    ELSE IF tx.branch \in Outcomes THEN [escrow EXCEPT !.phase = "Spent"]
    ELSE [phase |-> tx.state.phase, maker |-> tx.state.maker, maker_rep |-> tx.state.maker_rep,
          tracking |-> tx.state.tracking, shippedAt |-> tx.state.shippedAt,
          value |-> IF tx.branch = "Claim" THEN escrow.value + Bond ELSE escrow.value,
          since |-> daa]

PayoutAfter(tx) ==
    IF tx.branch \notin Outcomes THEN payout
    ELSE [branch |-> tx.branch, to |-> Beneficiary(tx),
          amount |-> IF tx.branch = "Refund" THEN Reward ELSE Covenant!ClaimedValue,
          len |-> IF tx.branch = "Refund" THEN 0 ELSE 64, ids |-> Commitment(tx)]

LogAfter(tx) ==
    IF tx.branch \in {"Open", "Send"} THEN log
    ELSE log \cup {[branch |-> tx.branch, by |-> SignersOf(tx), at |-> daa]}

\* The successor state in which i is accepted.
Accepting(i) ==
    /\ escrow' = EscrowAfter(known[i]) /\ payout' = PayoutAfter(known[i])
    /\ log' = LogAfter(known[i]) /\ daa' = daa
    /\ accepted' = accepted \cup {i}
    /\ mempool' = {j \in mempool \ {i} : ~Conflict(known[i], known[j])}
    /\ UNCHANGED <<known, local>>

\* Everybody can sign with their own key.
LEMMA OwnKeysSign ==
    /\ {Rep} \in Covenant!SignedBy(Rep) /\ {Maker} \in Covenant!SignedBy(Maker)
    /\ {Buyer} \in Covenant!SignedBy(Buyer)
    /\ Arbiter # Zero => {Arbiter} \in Covenant!SignedBy(Arbiter)
BY ClientAssumption DEF Covenant!SignedBy, Covenant!Signers

LEMMA FittingStays ==
    ASSUME NEW tx, Fits(tx), escrow' = EscrowAfter(tx), payout' = PayoutAfter(tx),
           log' = LogAfter(tx), daa' = daa, tx.branch \in Covenanted \cup {"Send"}
    PROVE  Executes(tx)
<1>1. tx.branch \notin Outcomes
  BY DEF Covenanted, Outcomes
<1>2. payout' = payout /\ tx.lock \in Covenant!FinalLockTimes
  BY <1>1 DEF PayoutAfter, Fits
<1>3. CASE tx.branch = "Send"
  <2>1. escrow' = escrow /\ log' = log
    BY <1>3 DEF EscrowAfter, LogAfter
  <2> QED BY <1>2, <1>3, <2>1 DEF Executes, chain
<1>4. CASE tx.branch = "Open"
  <2>1. escrow' = Covenant!Opened(daa) /\ log' = log
    BY <1>4 DEF EscrowAfter, LogAfter
  <2>2. escrow = NotOpened
    BY <1>4 DEF Fits
  <2> QED BY <1>2, <1>4, <2>1, <2>2 DEF Executes
<1>5. CASE tx.branch \in {"Claim", "Ship", "Dispute"}
  <2>1. escrow' = [phase |-> tx.state.phase, maker |-> tx.state.maker,
                   maker_rep |-> tx.state.maker_rep, tracking |-> tx.state.tracking,
                   shippedAt |-> tx.state.shippedAt,
                   value |-> IF tx.branch = "Claim" THEN escrow.value + Bond ELSE escrow.value,
                   since |-> daa]
    BY <1>1, <1>5 DEF EscrowAfter
  <2>2. Covenant!Executed(tx.branch, SignersOf(tx))
    BY <1>5 DEF LogAfter, Covenant!Executed
  <2>3. Carries(tx.state)
    BY <2>1 DEF Carries
  <2>4. CASE tx.branch = "Claim"
    <3>1. escrow.phase = "Open" /\ tx.state = Payload("Claimed", Maker, Rep, Zero, 0)
      BY <2>4 DEF Fits
    <3>2. Covenant!Continue("Claim", {Rep},
              [phase |-> "Claimed", maker |-> Maker, maker_rep |-> Rep, tracking |-> Zero,
               shippedAt |-> 0], escrow.value + Bond)
      BY <1>2, <2>1, <2>2, <2>4, <3>1 DEF Covenant!Continue, Payload, SignersOf
    <3>3. Covenant!Claim
      BY <3>1, <3>2, OwnKeysSign, ClientAssumption DEF Covenant!Claim
    <3> QED BY <2>3, <2>4, <3>3 DEF Executes
  <2>5. CASE tx.branch = "Ship"
    <3>1. /\ escrow.phase = "Claimed" /\ escrow.maker = Maker
          /\ tx.state = Payload("Shipped", Maker, Rep, Tracking, tx.lock)
      BY <2>5 DEF Fits
    <3>2. Covenant!Continue("Ship", {Maker},
              [phase |-> "Shipped", maker |-> Maker, maker_rep |-> Rep, tracking |-> Tracking,
               shippedAt |-> tx.lock], escrow.value)
      BY <1>2, <2>1, <2>2, <2>5, <3>1 DEF Covenant!Continue, Payload, SignersOf
    <3>3. Covenant!Ship
      <4>1. tx.lock \in Covenant!WaivableLockTimes
        BY <1>2 DEF Covenant!FinalLockTimes, Covenant!WaivableLockTimes
      <4> QED BY <3>1, <3>2, <4>1, OwnKeysSign DEF Covenant!Ship
    <3>4. escrow'.shippedAt = tx.lock
      BY <2>1, <3>1 DEF Payload
    <3> QED BY <2>3, <2>5, <3>3, <3>4 DEF Executes
  <2>6. CASE tx.branch = "Dispute"
    <3>1. /\ escrow.phase = "Shipped" /\ Arbiter # Zero
          /\ tx.state = Payload("Disputed", escrow.maker, escrow.maker_rep,
                                escrow.tracking, escrow.shippedAt)
      BY <2>6 DEF Fits
    <3>2. PICK new : new = [escrow EXCEPT !.phase = "Disputed"]
      OBVIOUS
    <3>3. /\ new.phase = "Disputed" /\ new.maker = escrow.maker
          /\ new.maker_rep = escrow.maker_rep /\ new.tracking = escrow.tracking
          /\ new.shippedAt = escrow.shippedAt
      BY <3>2
    <3>4. Covenant!Continue("Dispute", {Buyer}, new, escrow.value)
      BY <1>2, <2>1, <2>2, <2>6, <3>1, <3>3 DEF Covenant!Continue, Payload, SignersOf
    <3>5. Covenant!Dispute
      BY <3>1, <3>2, <3>4, OwnKeysSign DEF Covenant!Dispute, Covenant!Arbitrated
    <3> QED BY <2>3, <2>6, <3>5 DEF Executes
  <2> QED BY <1>5, <2>4, <2>5, <2>6
<1> QED BY <1>3, <1>4, <1>5 DEF Covenanted

LEMMA FittingLeaves ==
    ASSUME NEW tx, Fits(tx), escrow' = EscrowAfter(tx), payout' = PayoutAfter(tx),
           log' = LogAfter(tx), daa' = daa, tx.branch \in Outcomes
    PROVE  Executes(tx)
<1>1. /\ escrow' = [escrow EXCEPT !.phase = "Spent"]
      /\ Covenant!Executed(tx.branch, SignersOf(tx)) /\ tx.lock \in Covenant!FinalLockTimes
  BY DEF EscrowAfter, LogAfter, Outcomes, Covenant!Executed, Fits
<1>2. payout' = [branch |-> tx.branch, to |-> Beneficiary(tx),
                 amount |-> IF tx.branch = "Refund" THEN Reward ELSE Covenant!ClaimedValue,
                 len |-> IF tx.branch = "Refund" THEN 0 ELSE 64, ids |-> Commitment(tx)]
  BY DEF PayoutAfter
<1>3. CASE tx.branch # "Refund"
  <2>1. Commitment(tx) \in SUBSET Covenant!Sides /\ Commits(tx.ids)
    BY <1>2, <1>3 DEF Commitment, Covenant!Sides, Commits
  <2>2. Covenant!Leave(tx.branch, SignersOf(tx), Beneficiary(tx), Covenant!ClaimedValue, 64)
    BY <1>1, <1>2, <1>3, <2>1 DEF Covenant!Leave
  <2>3. CASE tx.branch = "Settle"
    <3>1. Covenant!Settle
      BY <2>2, <2>3, OwnKeysSign DEF Covenant!Settle, SignersOf, Beneficiary, Fits
    <3> QED BY <2>1, <2>3, <3>1 DEF Executes
  <2>4. CASE tx.branch = "Slash"
    <3>1. Covenant!DeadlineReached /\ escrow.phase = "Claimed" /\ tx.lock >= Deadline
      BY <1>1, <2>4 DEF Covenant!DeadlineReached, Fits
    <3>2. Covenant!Slash
      BY <2>2, <2>4, <3>1, OwnKeysSign DEF Covenant!Slash, SignersOf, Beneficiary
    <3> QED BY <2>1, <2>4, <3>1, <3>2 DEF Executes
  <2>5. CASE tx.branch \in {"ResolveToMaker", "ResolveToBuyer"}
    <3>1. escrow.phase = "Disputed" /\ escrow.maker = Maker /\ Arbiter # Zero
      BY <2>5 DEF Fits
    <3>2. CASE tx.branch = "ResolveToMaker"
      <4>1. SignersOf(tx) = {Arbiter} \cup {Maker} /\ Beneficiary(tx) = escrow.maker
        BY <3>2 DEF SignersOf, Beneficiary
      <4>2. Covenant!ResolveToMaker
        BY <2>2, <3>1, <3>2, <4>1, OwnKeysSign
           DEF Covenant!ResolveToMaker, Covenant!Resolve, Covenant!Arbitrated
      <4> QED BY <2>1, <3>2, <4>2 DEF Executes
    <3>3. CASE tx.branch = "ResolveToBuyer"
      <4>1. SignersOf(tx) = {Arbiter} \cup {Buyer} /\ Beneficiary(tx) = Buyer
        BY <3>3 DEF SignersOf, Beneficiary
      <4>2. Covenant!ResolveToBuyer
        BY <2>2, <3>1, <3>3, <4>1, OwnKeysSign
           DEF Covenant!ResolveToBuyer, Covenant!Resolve, Covenant!Arbitrated
      <4> QED BY <2>1, <3>3, <4>2 DEF Executes
    <3> QED BY <2>5, <3>2, <3>3
  <2> QED BY <1>3, <2>3, <2>4, <2>5 DEF Outcomes
<1>4. CASE tx.branch = "Refund"
  <2>1. Covenant!DeadlineReached /\ escrow.phase = "Open" /\ tx.lock >= Deadline
    BY <1>1, <1>4 DEF Covenant!DeadlineReached, Fits
  <2>2. Covenant!Leave("Refund", {Buyer}, Buyer, Reward, 0)
    BY <1>1, <1>2, <1>4 DEF Covenant!Leave, Commitment, Beneficiary, SignersOf
  <2>3. Covenant!Refund
    BY <2>1, <2>2, OwnKeysSign DEF Covenant!Refund
  <2> QED BY <1>4, <2>1, <2>3 DEF Executes
<1> QED BY <1>3, <1>4

\* Whatever fits and has its inputs can be accepted: the state Accepting describes
\* is one the covenant and the node allow.
THEOREM WhatFitsIsAccepted ==
    ASSUME NEW i \in mempool, Spendable(known[i]), Fits(known[i]), Accepting(i)
    PROVE  Accept(i)
<1>1. known[i].branch \in Outcomes \/ known[i].branch \in Covenanted \cup {"Send"}
  BY DEF Fits, Outcomes, Covenanted
<1>2. Executes(known[i])
  BY <1>1, FittingStays, FittingLeaves DEF Accepting
<1> QED BY <1>2 DEF Accept, Accepting, Fits
=============================================================================
