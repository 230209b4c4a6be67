----------------------- MODULE AttestationChainProofs -----------------------
(***************************************************************************)
(* Proofs about AttestationChain, for every set of pseudonyms and trades,  *)
(* whoever makes what, and whatever the bounds.                            *)
(***************************************************************************)
EXTENDS AttestationChain, FiniteSetTheorems, SequenceTheorems, WellFoundedInduction, TLAPS

-----------------------------------------------------------------------------
(* The inductive invariant *)

\* An attestation, of whatever time and place in a chain.
Attestations ==
    [body : [owner : Pseudonyms, counterparty : Pseudonyms, outcome : Outcomes,
             anchor : Trades, prev : Nat, index : Nat, ts : Nat],
     auth : Branches \cup {CoSigned}]

Log == signed \in Seq(Attestations) /\ Len(signed) <= MaxAtts

\* Every entry of a chain file passed the checks of append when it was appended,
\* and still does.
AppendedChainsLink ==
    \A p \in Pseudonyms : \A i \in 1..Len(chains[p]) :
        Links(p, SubSeq(chains[p], 1, i - 1), chains[p][i])

\* What a spend commits: nothing before it happens, and then what there is room for.
SpendCommits ==
    \A t \in Trades :
        /\ spends[t].branch = "Unspent" => spends[t].ids = {}
        /\ IsFiniteSet(spends[t].ids) /\ Cardinality(spends[t].ids) <= 2

Inductive == TypeOK /\ Log /\ AppendedChainsLink /\ SpendCommits

\* Nothing is signed, appended or spent at first.
LEMMA InitInductive == Init => Inductive
<1> SUFFICES ASSUME Init PROVE Inductive
  OBVIOUS
<1>1. TypeOK /\ Log /\ AppendedChainsLink
  BY PartiesAssumption, EmptySeq
  DEF Init, TypeOK, Log, AppendedChainsLink, Ids, Unspent, Branches
<1>2. SpendCommits
  <2>1. IsFiniteSet({}) /\ Cardinality({}) = 0
    BY FS_EmptySet
  <2>2. \A t \in Trades : spends[t].ids = {}
    BY DEF Init, Unspent
  <2>3. \A t \in Trades : IsFiniteSet(spends[t].ids) /\ Cardinality(spends[t].ids) = 0
    BY <2>1, <2>2, Zenon
  <2> QED BY <2>2, <2>3 DEF SpendCommits
<1> QED BY <1>1, <1>2 DEF Inductive

-----------------------------------------------------------------------------
(* The entries of a linked sequence *)

\* The entry at a position has the index of the position, the first being 0.
LEMMA LinkedEntriesAreNumbered ==
  ASSUME NEW p, NEW S, NEW s \in Seq(S), NEW i \in 1..Len(s),
         Links(p, SubSeq(s, 1, i - 1), s[i])
  PROVE  signed[s[i]].body.index = i - 1
<1>1. i \in Nat \ {0} /\ i <= Len(s) /\ Len(s) \in Nat
  BY LenProperties
<1>2. \A j \in 1..(i - 1) : s[j] \in S
  BY <1>1, ElementOfSeq
<1>3. Len(SubSeq(s, 1, i - 1)) = i - 1
  BY <1>1, <1>2, SubSeqProperties
<1> QED BY <1>3 DEF Links

\* The numbers up to n are n.
LEMMA CountTo ==
  ASSUME NEW n \in Nat
  PROVE  IsFiniteSet(1..n) /\ Cardinality(1..n) = n
BY FS_Interval

\* So a chain has no entry twice, and is no longer than there are attestations.
LEMMA ChainsAreShort ==
  ASSUME Inductive, NEW p \in Pseudonyms
  PROVE  Len(chains[p]) \in Nat /\ Len(chains[p]) <= Len(signed) /\ Len(signed) <= MaxAtts
<1> DEFINE s == chains[p]
<1>1. s \in Seq(Ids) /\ Len(s) \in Nat /\ s \in [1..Len(s) -> Ids]
  BY LenProperties DEF Inductive, TypeOK
<1>2. \A i \in 1..Len(s) : signed[s[i]].body.index = i - 1
  BY <1>1, LinkedEntriesAreNumbered DEF Inductive, AppendedChainsLink
<1>3. \A i, j \in 1..Len(s) : s[i] = s[j] => i = j
  <2> SUFFICES ASSUME NEW i \in 1..Len(s), NEW j \in 1..Len(s), s[i] = s[j] PROVE i = j
    OBVIOUS
  <2>1. i - 1 = j - 1
    BY <1>2
  <2> QED BY <2>1, <1>1
<1>4. s \in Injection(1..Len(s), Ids)
  BY <1>1, <1>3 DEF Injection, IsInjective
<1>5. Len(signed) \in Nat
  BY LenProperties DEF Inductive, Log
<1>6. IsFiniteSet(Ids) /\ Cardinality(Ids) = Len(signed)
  BY <1>5, CountTo DEF Ids
<1>7. Cardinality(1..Len(s)) = Len(s)
  BY <1>1, CountTo
<1>8. Cardinality(1..Len(s)) <= Cardinality(Ids)
  BY <1>4, <1>6, FS_Injection
<1> QED BY <1>1, <1>6, <1>7, <1>8 DEF Inductive, Log

-----------------------------------------------------------------------------
(* What the operations make is well formed *)

\* The head of a list of ids is an id, or none.
LEMMA HeadIsAnId ==
  ASSUME NEW s \in Seq(Ids), Len(signed) \in Nat
  PROVE  HeadOf(s) \in 0..Len(signed)
<1>1. Len(s) \in Nat /\ (s # <<>> => Len(s) # 0)
  BY LenProperties, EmptySeq
<1>2. CASE s = <<>>
  BY <1>2 DEF HeadOf, NoId
<1>3. CASE s # <<>>
  <2>1. s[Len(s)] \in Ids
    BY <1>1, <1>3, ElementOfSeq
  <2> QED BY <1>3, <2>1 DEF HeadOf, Ids
<1> QED BY <1>2, <1>3

\* Wherever an entry is put, in a chain or in a copy of it.
LEMMA PositionsAreTyped ==
  ASSUME Inductive, NEW p \in Pseudonyms, NEW pos \in Positions(p) \cup PositionsInCopies(p)
  PROVE  pos.prev \in 0..Len(signed) /\ pos.index \in 0..MaxAtts
<1> DEFINE s == chains[p]
<1>1. /\ s \in Seq(Ids) /\ Len(signed) \in Nat /\ Len(s) \in Nat /\ Len(s) <= MaxAtts
      /\ MaxAtts \in Nat
  BY ChainsAreShort, LenProperties, PartiesAssumption DEF Inductive, TypeOK, Log
<1>2. CASE pos \in Positions(p)
  BY <1>1, <1>2, HeadIsAnId DEF Positions, NoId
<1>3. CASE pos \in PositionsInCopies(p)
  <2>1. PICK k \in 0..Len(s) : pos = [prev |-> HeadOf(SubSeq(s, 1, k)), index |-> k]
    BY <1>3 DEF PositionsInCopies
  <2>2. k \in Nat /\ k <= Len(s) /\ k <= MaxAtts
    BY <1>1, <2>1
  <2>3. \A j \in 1..k : s[j] \in Ids
    BY <1>1, <2>2, ElementOfSeq
  <2>4. SubSeq(s, 1, k) \in Seq(Ids)
    BY <2>2, <2>3, SubSeqProperties
  <2>5. HeadOf(SubSeq(s, 1, k)) \in 0..Len(signed)
    BY <1>1, <2>4, HeadIsAnId
  <2> QED BY <1>1, <2>1, <2>2, <2>5
<1> QED BY <1>2, <1>3

\* The body a command writes at such a position.
LEMMA BodiesAreTyped ==
  ASSUME Inductive, NEW p \in Pseudonyms, NEW q \in Pseudonyms, NEW outcome \in Outcomes,
         NEW t \in Trades, NEW pos, NEW ts \in 0..MaxTs,
         pos.prev \in 0..Len(signed), pos.index \in 0..MaxAtts
  PROVE  Body(p, q, outcome, t, pos, ts) \in Bodies
BY DEF Body, Bodies

\* What is typed now is an attestation of some time and place.
LEMMA BodiesAreAttested ==
  ASSUME Inductive, NEW b \in Bodies, NEW auth \in Branches \cup {CoSigned}
  PROVE  [body |-> b, auth |-> auth] \in Attestations
<1>1. Len(signed) \in Nat /\ MaxAtts \in Nat /\ MaxTs \in Nat
  BY LenProperties, PartiesAssumption DEF Inductive, Log
<1> QED BY <1>1 DEF Bodies, Attestations

\* An attestation that comes about is added to the log or is in it already.
LEMMA PublishExtends ==
  ASSUME Inductive, NEW att \in Attestations, signed' = Publish(att), Len(signed') <= MaxAtts
  PROVE  /\ Log'
         /\ Len(signed) \in Nat /\ Len(signed') \in Nat /\ Len(signed) <= Len(signed')
         /\ \A i \in Ids : signed'[i] = signed[i]
         /\ \A i \in Ids' : i \in Ids \/ signed'[i] = att
         /\ \E i \in Ids' : signed'[i] = att
<1>1. signed \in Seq(Attestations) /\ Len(signed) \in Nat
  BY LenProperties DEF Inductive, Log
<1>2. CASE \E i \in Ids : signed[i] = att
  BY <1>1, <1>2 DEF Publish, Log, Ids
<1>3. CASE ~\E i \in Ids : signed[i] = att
  <2>1. signed' = Append(signed, att)
    BY <1>3 DEF Publish
  <2>2. /\ signed' \in Seq(Attestations) /\ Len(signed') = Len(signed) + 1
        /\ \A i \in 1..Len(signed) : signed'[i] = signed[i]
        /\ signed'[Len(signed) + 1] = att
    BY <1>1, <2>1, AppendProperties
  <2> QED BY <1>1, <2>2 DEF Log, Ids
<1> QED BY <1>2, <1>3

-----------------------------------------------------------------------------
(* Every step preserves the invariant *)

\* What every operation does to the log: it grows, and what is in it stays.
Grows ==
    /\ Len(signed) \in Nat /\ Len(signed') \in Nat /\ Len(signed) <= Len(signed')
    /\ \A i \in Ids : signed'[i] = signed[i]

\* The types of what a step leaves alone, of what was and is.
LEMMA TypesCarryOver ==
  ASSUME Inductive, Log', Grows,
         \A b \in partials' : b \in partials \/ (b \in Bodies /\ b.owner # b.counterparty),
         \A i \in Ids' : i \in Ids \/ (/\ signed'[i].body \in Bodies
                                     /\ signed'[i].body.owner # signed'[i].body.counterparty
                                     /\ signed'[i].auth \in Branches \cup {CoSigned}),
         chains' = chains \/ chains' \in [Pseudonyms -> Seq(Ids')],
         spends' = spends \/ spends' \in [Trades -> [branch : Branches \cup {"Unspent"},
                                                   ids : SUBSET Ids']]
  PROVE  TypeOK'
<1>1. Ids \subseteq Ids'
  BY DEF Grows, Ids
<1>2. 0..Len(signed) \subseteq 0..Len(signed')
  BY DEF Grows
<1>3. Bodies \subseteq Bodies'
  BY <1>2 DEF Bodies
<1>4. \A b \in partials' : b \in Bodies' /\ b.owner # b.counterparty
  BY <1>3 DEF Inductive, TypeOK
<1>5. \A i \in Ids' : /\ signed'[i].body \in Bodies'
                      /\ signed'[i].body.owner # signed'[i].body.counterparty
                      /\ signed'[i].auth \in Branches \cup {CoSigned}
  BY <1>3 DEF Inductive, TypeOK, Grows
<1>6. chains' \in [Pseudonyms -> Seq(Ids')]
  <2>1. \A s \in Seq(Ids) : s \in Seq(Ids')
    BY <1>1, SeqMonotonic
  <2> QED BY <2>1 DEF Inductive, TypeOK
<1>7. spends' \in [Trades -> [branch : Branches \cup {"Unspent"}, ids : SUBSET Ids']]
  <2>1. SUBSET Ids \subseteq SUBSET Ids'
    BY <1>1
  <2>2. [branch : Branches \cup {"Unspent"}, ids : SUBSET Ids]
            \subseteq [branch : Branches \cup {"Unspent"}, ids : SUBSET Ids']
    BY <2>1
  <2> QED BY <2>2 DEF Inductive, TypeOK
<1> QED BY <1>4, <1>5, <1>6, <1>7 DEF TypeOK

\* A link stays a link: nothing an entry is compared with changes.
LEMMA LinksCarryOver ==
  ASSUME Inductive, Grows, chains' = chains
  PROVE  AppendedChainsLink'
<1> SUFFICES ASSUME NEW p \in Pseudonyms, NEW i \in 1..Len(chains[p])
             PROVE  Links(p, SubSeq(chains[p], 1, i - 1), chains[p][i])'
  BY DEF AppendedChainsLink
<1>1. chains[p] \in Seq(Ids) /\ chains[p][i] \in Ids
  BY ElementOfSeq DEF Inductive, TypeOK
<1>2. Links(p, SubSeq(chains[p], 1, i - 1), chains[p][i])
  BY DEF Inductive, AppendedChainsLink
<1> QED BY <1>1, <1>2 DEF Links, Grows

\* What was committed stays what it was.
LEMMA CommitsCarryOver ==
  ASSUME Inductive, spends' = spends
  PROVE  SpendCommits'
BY DEF Inductive, SpendCommits

\* The owner signs a body.
LEMMA CreateInductive ==
  ASSUME Inductive, NEW p \in Pseudonyms, NEW q \in Pseudonyms, NEW t \in Trades,
         NEW outcome \in Chosen, Create(p, q, t, outcome)
  PROVE  Inductive'
<1>1. PICK pos \in Positions(p), ts \in 0..MaxTs :
        LET b == Body(p, q, outcome, t, pos, ts) IN
        Valid(b) /\ partials' = partials \cup {b}
  BY DEF Create
<1> DEFINE b == Body(p, q, outcome, t, pos, ts)
<1>2. UNCHANGED <<signed, chains, spends>>
  BY DEF Create
<1>3. outcome \in Outcomes
  BY PartiesAssumption DEF Outcomes
<1>4. b \in Bodies /\ b.owner # b.counterparty
  BY <1>1, <1>3, PositionsAreTyped, BodiesAreTyped DEF Valid
<1>5. Grows /\ Log' /\ Ids' = Ids
  BY <1>2, LenProperties DEF Grows, Inductive, Log, Ids
<1>6. TypeOK'
  BY <1>1, <1>2, <1>4, <1>5, TypesCarryOver
<1> QED BY <1>2, <1>5, <1>6, LinksCarryOver, CommitsCarryOver DEF Inductive

\* The counterparty signs a body, and perhaps its mirror.
LEMMA CountersignInductive ==
  ASSUME Inductive, NEW b \in partials, NEW mirrored \in BOOLEAN, Countersign(b, mirrored)
  PROVE  Inductive'
<1>1. /\ b \in Bodies /\ b.owner # b.counterparty
      /\ b.owner \in Pseudonyms /\ b.counterparty \in Pseudonyms /\ b.outcome \in Outcomes
      /\ b.anchor \in Trades /\ b.ts \in 0..MaxTs
  BY DEF Inductive, TypeOK, Bodies
<1>2. UNCHANGED <<chains, spends>> /\ signed' = Publish(Completed(b))
  BY DEF Countersign
<1>3. Len(signed') <= MaxAtts
  BY DEF Countersign, WithinBounds
<1>4. Completed(b) \in Attestations
  BY <1>1, BodiesAreAttested DEF Completed
<1>5. Grows /\ Log' /\ \A i \in Ids' : i \in Ids \/ signed'[i] = Completed(b)
  BY <1>2, <1>3, <1>4, PublishExtends DEF Grows
<1>6. \A m \in partials' : m \in partials \/ (m \in Bodies /\ m.owner # m.counterparty)
  <2>1. CASE UNCHANGED partials
    BY <2>1
  <2>2. CASE \E pos \in Positions(b.counterparty) : partials' = partials \cup {Mirror(b, pos)}
    <3>1. PICK pos \in Positions(b.counterparty) : partials' = partials \cup {Mirror(b, pos)}
      BY <2>2
    <3>2. Mirror(b, pos) \in Bodies
      BY <1>1, PositionsAreTyped, BodiesAreTyped DEF Mirror
    <3>3. Mirror(b, pos).owner # Mirror(b, pos).counterparty
      BY <1>1 DEF Mirror, Body
    <3> QED BY <3>1, <3>2, <3>3
  <2> QED BY <2>1, <2>2 DEF Countersign
<1>7. Completed(b).body = b /\ Completed(b).auth = CoSigned
  BY DEF Completed
<1>8. TypeOK'
  BY <1>1, <1>2, <1>5, <1>6, <1>7, TypesCarryOver
<1> QED BY <1>2, <1>5, <1>8, LinksCarryOver, CommitsCarryOver DEF Inductive

\* A prefix of a sequence is one of the sequence with an element more.
LEMMA PrefixOfAppend ==
  ASSUME NEW S, NEW s \in Seq(S), NEW e \in S, NEW k \in 0..Len(s)
  PROVE  SubSeq(Append(s, e), 1, k) = SubSeq(s, 1, k)
<1>1. /\ Len(s) \in Nat /\ k \in Nat /\ k <= Len(s)
      /\ \A i \in 1..Len(s) : s[i] \in S /\ Append(s, e)[i] = s[i]
  BY LenProperties, ElementOfSeq, AppendProperties
<1>2. \A i \in 1..k : s[i] \in S /\ Append(s, e)[i] = s[i]
  BY <1>1
<1>3. /\ SubSeq(s, 1, k) \in Seq(S) /\ Len(SubSeq(s, 1, k)) = k
      /\ \A i \in 1..k : SubSeq(s, 1, k)[i] = s[i]
  BY <1>1, <1>2, SubSeqProperties
<1>4. /\ SubSeq(Append(s, e), 1, k) \in Seq(S) /\ Len(SubSeq(Append(s, e), 1, k)) = k
      /\ \A i \in 1..k : SubSeq(Append(s, e), 1, k)[i] = Append(s, e)[i]
  BY <1>1, <1>2, SubSeqProperties
<1> QED BY <1>2, <1>3, <1>4, SeqEqual

\* An entry that links to the head is the next entry of a linked chain.
LEMMA AppendInductive ==
  ASSUME Inductive, NEW p \in Pseudonyms, NEW id \in Ids, AppendTo(p, id)
  PROVE  Inductive'
<1> DEFINE s == chains[p]
<1>1. /\ Links(p, s, id) /\ UNCHANGED <<partials, signed, spends>>
      /\ chains' = [chains EXCEPT ![p] = Append(s, id)]
  BY DEF AppendTo
<1>2. Grows /\ Log' /\ Ids' = Ids
  BY <1>1, LenProperties DEF Grows, Inductive, Log, Ids
<1>3. s \in Seq(Ids) /\ chains \in [Pseudonyms -> Seq(Ids)]
  BY DEF Inductive, TypeOK
<1>4. Append(s, id) \in Seq(Ids) /\ Len(Append(s, id)) = Len(s) + 1 /\ Len(s) \in Nat
      /\ (\A i \in 1..Len(s) : Append(s, id)[i] = s[i]) /\ Append(s, id)[Len(s) + 1] = id
  BY <1>3, AppendProperties, LenProperties
<1>5. chains' \in [Pseudonyms -> Seq(Ids')]
  BY <1>1, <1>2, <1>3, <1>4
<1>6. TypeOK'
  BY <1>1, <1>2, <1>5, TypesCarryOver
<1>7. AppendedChainsLink'
  <2> SUFFICES ASSUME NEW q \in Pseudonyms, NEW i \in 1..Len(chains'[q])
               PROVE  Links(q, SubSeq(chains'[q], 1, i - 1), chains'[q][i])
    BY <1>1 DEF AppendedChainsLink, Links
  <2>1. CASE q # p
    BY <1>1, <1>3, <2>1 DEF Inductive, AppendedChainsLink
  <2>2. CASE q = p /\ i <= Len(s)
    <3>1. chains'[q] = Append(s, id) /\ i \in 1..Len(s) /\ i - 1 \in 0..Len(s)
      BY <1>1, <1>3, <1>4, <2>2
    <3>2. SubSeq(chains'[q], 1, i - 1) = SubSeq(s, 1, i - 1) /\ chains'[q][i] = s[i]
      BY <1>3, <1>4, <3>1, PrefixOfAppend
    <3> QED BY <2>2, <3>1, <3>2 DEF Inductive, AppendedChainsLink
  <2>3. CASE q = p /\ i > Len(s)
    <3>1. chains'[q] = Append(s, id) /\ i = Len(s) + 1 /\ i - 1 = Len(s)
      BY <1>1, <1>3, <1>4, <2>3
    <3>2. SubSeq(Append(s, id), 1, Len(s)) = SubSeq(s, 1, Len(s))
      BY <1>3, <1>4, PrefixOfAppend
    <3>3. SubSeq(chains'[q], 1, i - 1) = s /\ chains'[q][i] = id
      BY <1>3, <1>4, <3>1, <3>2, SubSeqFull
    <3> QED BY <1>1, <2>3, <3>3
  <2>4. i \in Nat /\ Len(s) \in Nat
    BY <1>4
  <2> QED BY <2>1, <2>2, <2>3, <2>4
<1> QED BY <1>1, <1>2, <1>6, <1>7, CommitsCarryOver DEF Inductive

\* Somebody writes an unsigned attestation.
LEMMA WriteInductive ==
  ASSUME Inductive, NEW p \in Pseudonyms, NEW q \in Pseudonyms, NEW t \in Trades,
         NEW outcome \in Chosen, NEW branch \in Branches,
         WriteWitnessed(p, q, t, outcome, branch)
  PROVE  Inductive'
<1>1. PICK pos \in PositionsInCopies(p), ts \in 0..MaxTs :
        LET att == [body |-> Body(p, q, outcome, t, pos, ts), auth |-> branch] IN
        /\ Authorised(att)
        /\ signed' = Publish(att)
        /\ WithinBounds(partials, signed')
        /\ UNCHANGED <<partials, chains, spends>>
  BY DEF WriteWitnessed
<1> DEFINE att == [body |-> Body(p, q, outcome, t, pos, ts), auth |-> branch]
<1>2. outcome \in Outcomes
  BY PartiesAssumption DEF Outcomes
<1>3. att.body \in Bodies /\ att.auth \in Branches
  BY <1>2, PositionsAreTyped, BodiesAreTyped
<1>4. att \in Attestations
  BY <1>3, BodiesAreAttested
<1>5. att.body.owner # att.body.counterparty
  BY <1>1 DEF Authorised, Valid
<1>6. Len(signed') <= MaxAtts /\ signed' = Publish(att) /\ UNCHANGED <<partials, chains, spends>>
  BY <1>1 DEF WithinBounds
<1> HIDE DEF att
<1>7. Grows /\ Log' /\ \A i \in Ids' : i \in Ids \/ signed'[i] = att
  BY <1>4, <1>6, PublishExtends DEF Grows
<1>8. TypeOK'
  BY <1>3, <1>5, <1>6, <1>7, TypesCarryOver
<1> QED BY <1>6, <1>7, <1>8, LinksCarryOver, CommitsCarryOver DEF Inductive

\* An ending commits what ids it likes, up to two.
LEMMA SpendInductive ==
  ASSUME Inductive, NEW t \in Trades, NEW ids \in Payloads, NEW branch \in Branches,
         Settle(t, ids) \/ Resolve(t, ids) \/ EndByHand(t, branch, ids)
  PROVE  Inductive'
<1>1. PICK ending \in Branches :
        spends' = [spends EXCEPT ![t] = [branch |-> ending, ids |-> ids]]
  BY DEF Settle, Resolve, EndByHand, Branches
<1>2. UNCHANGED <<partials, signed, chains>>
  BY DEF Settle, Resolve, EndByHand
<1>3. Grows /\ Log' /\ Ids' = Ids
  BY <1>2, LenProperties DEF Grows, Inductive, Log, Ids
<1>4. ids \in SUBSET Ids /\ IsFiniteSet(ids) /\ Cardinality(ids) <= 2
  <2>1. ids \in SUBSET Ids /\ Cardinality(ids) \in 1..2
    BY DEF Payloads
  <2>2. IsFiniteSet(Ids)
    BY <1>3, CountTo DEF Grows, Ids
  <2> QED BY <2>1, <2>2, FS_Subset
<1>5. spends' \in [Trades -> [branch : Branches \cup {"Unspent"}, ids : SUBSET Ids']]
  BY <1>1, <1>3, <1>4 DEF Inductive, TypeOK
<1>6. TypeOK'
  BY <1>2, <1>3, <1>5, TypesCarryOver
<1>7. SpendCommits'
  BY <1>1, <1>4 DEF Inductive, TypeOK, SpendCommits, Branches
<1> QED BY <1>2, <1>3, <1>6, <1>7, LinksCarryOver DEF Inductive

\* A slash commits the default it builds.
LEMMA SlashInductive ==
  ASSUME Inductive, NEW t \in Trades, NEW q \in Pseudonyms, NEW submit \in BOOLEAN,
         Slash(t, q, submit)
  PROVE  Inductive'
<1>1. PICK pos \in PositionsInCopies(Maker[t]), ts \in 0..MaxTs :
        LET att == DefaultAttestation(t, q, pos, ts) IN
        /\ Authorised(att)
        /\ signed' = Publish(att)
        /\ WithinBounds(partials, signed')
        /\ spends' = IF submit
                     THEN [spends EXCEPT ![t] =
                              [branch |-> "Slash", ids |-> {IdIn(signed', att)}]]
                     ELSE spends
        /\ UNCHANGED <<partials, chains>>
  BY DEF Slash
<1> DEFINE att == DefaultAttestation(t, q, pos, ts)
<1>2. Maker[t] \in Pseudonyms /\ "Default" \in Outcomes /\ "Slash" \in Branches
  BY PartiesAssumption DEF Outcomes, Branches
<1>3. att.body \in Bodies /\ att.auth \in Branches /\ att = [body |-> att.body, auth |-> att.auth]
  BY <1>2, PositionsAreTyped, BodiesAreTyped DEF DefaultAttestation
<1>4. att \in Attestations
  BY <1>3, BodiesAreAttested
<1>5. att.body.owner # att.body.counterparty
  BY <1>1 DEF Authorised, Valid
<1>6. /\ Len(signed') <= MaxAtts /\ signed' = Publish(att) /\ UNCHANGED <<partials, chains>>
      /\ \/ spends' = spends
         \/ spends' = [spends EXCEPT ![t] = [branch |-> "Slash", ids |-> {IdIn(signed', att)}]]
  BY <1>1 DEF WithinBounds
<1> HIDE DEF att
<1>7. /\ Grows /\ Log' /\ \A i \in Ids' : i \in Ids \/ signed'[i] = att
      /\ \E i \in Ids' : signed'[i] = att
  BY <1>4, <1>6, PublishExtends DEF Grows
<1>8. IdIn(signed', att) \in Ids'
  BY <1>7 DEF IdIn, Ids
<1>9. spends' = spends \/
        spends' \in [Trades -> [branch : Branches \cup {"Unspent"}, ids : SUBSET Ids']]
  <2>1. Ids \subseteq Ids'
    BY <1>7 DEF Grows, Ids
  <2>2. SUBSET Ids \subseteq SUBSET Ids'
    BY <2>1
  <2>3. spends \in [Trades -> [branch : Branches \cup {"Unspent"}, ids : SUBSET Ids']]
    BY <2>2 DEF Inductive, TypeOK
  <2> QED BY <1>2, <1>6, <1>8, <2>3
<1>10. TypeOK'
  BY <1>3, <1>5, <1>6, <1>7, <1>9, TypesCarryOver
<1>11. SpendCommits'
  <2>1. CASE spends' = spends
    BY <2>1, CommitsCarryOver
  <2>2. CASE spends' = [spends EXCEPT ![t] = [branch |-> "Slash", ids |-> {IdIn(signed', att)}]]
    <3>1. PICK id : id = IdIn(signed', att)
      OBVIOUS
    <3>2. IsFiniteSet({id}) /\ Cardinality({id}) = 1
      BY FS_Singleton
    <3>3. spends' = [spends EXCEPT ![t] = [branch |-> "Slash", ids |-> {id}]]
      BY <2>2, <3>1
    <3> QED BY <3>2, <3>3 DEF Inductive, TypeOK, SpendCommits
  <2> QED BY <1>6, <2>1, <2>2
<1> QED BY <1>6, <1>7, <1>10, <1>11, LinksCarryOver DEF Inductive

\* Nothing happens.
LEMMA StutterInductive ==
  ASSUME Inductive, UNCHANGED vars
  PROVE  Inductive'
<1>1. UNCHANGED <<partials, signed, chains, spends>>
  BY DEF vars
<1>2. Grows /\ Log' /\ Ids' = Ids
  BY <1>1, LenProperties DEF Grows, Inductive, Log, Ids
<1>3. TypeOK'
  BY <1>1, <1>2, TypesCarryOver
<1> QED BY <1>1, <1>2, <1>3, LinksCarryOver, CommitsCarryOver DEF Inductive

\* Whichever operation it is.
LEMMA NextInductive == Inductive /\ [Next]_vars => Inductive'
<1> SUFFICES ASSUME Inductive, [Next]_vars PROVE Inductive'
  OBVIOUS
<1>1. ASSUME NEW p \in Pseudonyms, NEW q \in Pseudonyms, NEW t \in Trades,
             NEW outcome \in Chosen, Create(p, q, t, outcome)
      PROVE  Inductive'
  BY <1>1, CreateInductive
<1>2. ASSUME NEW b \in partials, NEW mirrored \in BOOLEAN, Countersign(b, mirrored)
      PROVE  Inductive'
  BY <1>2, CountersignInductive
<1>3. ASSUME NEW p \in Pseudonyms, NEW id \in Ids, AppendTo(p, id)
      PROVE  Inductive'
  BY <1>3, AppendInductive
<1>4. ASSUME NEW t \in Trades, NEW ids \in Payloads,
             Settle(t, ids) \/ Resolve(t, ids) \/ \E branch \in Branches : EndByHand(t, branch, ids)
      PROVE  Inductive'
  BY <1>4, SpendInductive DEF Branches
<1>5. ASSUME NEW t \in Trades, NEW q \in Pseudonyms, NEW submit \in BOOLEAN, Slash(t, q, submit)
      PROVE  Inductive'
  BY <1>5, SlashInductive
<1>6. ASSUME NEW p \in Pseudonyms, NEW t \in Trades, NEW branch \in Branches,
             NEW q \in Pseudonyms \ {p}, NEW outcome \in Chosen \ {"Success"},
             WriteWitnessed(p, q, t, outcome, branch)
      PROVE  Inductive'
  BY <1>6, WriteInductive
<1> QED BY <1>1, <1>2, <1>3, <1>4, <1>5, <1>6, StutterInductive DEF Next

\* The invariant holds in every state.
LEMMA AlwaysInductive == Spec => []Inductive
<1> QED BY InitInductive, NextInductive, PTL DEF Spec

-----------------------------------------------------------------------------
(* Theorems *)

\* Types, whatever the bounds: positions and heads stay within the log, so an
\* index is never beyond the attestations there are.
THEOREM ChainsTypeCorrect == Spec => []TypeOK
<1>1. Inductive => TypeOK
  BY DEF Inductive
<1> QED BY <1>1, AlwaysInductive, PTL

\* What a prefix of a sequence is, and what its own prefixes are.
LEMMA PrefixOfPrefix ==
  ASSUME NEW S, NEW s \in Seq(S), NEW k \in 0..Len(s)
  PROVE  /\ SubSeq(s, 1, k) \in Seq(S) /\ Len(SubSeq(s, 1, k)) = k
         /\ \A i \in 1..k : SubSeq(s, 1, k)[i] = s[i]
         /\ \A j \in 0..k : SubSeq(SubSeq(s, 1, k), 1, j) = SubSeq(s, 1, j)
<1>1. /\ Len(s) \in Nat /\ k \in Nat /\ k <= Len(s)
      /\ \A i \in 1..Len(s) : s[i] \in S
  BY LenProperties, ElementOfSeq
<1>2. \A j \in 0..k : /\ SubSeq(s, 1, j) \in Seq(S) /\ Len(SubSeq(s, 1, j)) = j
                      /\ \A i \in 1..j : SubSeq(s, 1, j)[i] = s[i]
  <2> SUFFICES ASSUME NEW j \in 0..k
               PROVE  /\ SubSeq(s, 1, j) \in Seq(S) /\ Len(SubSeq(s, 1, j)) = j
                      /\ \A i \in 1..j : SubSeq(s, 1, j)[i] = s[i]
    OBVIOUS
  <2>1. j \in Nat /\ \A i \in 1..j : s[i] \in S
    BY <1>1
  <2> QED BY <2>1, SubSeqProperties
<1> DEFINE r == SubSeq(s, 1, k)
<1>3. /\ r \in Seq(S) /\ Len(r) = k /\ \A i \in 1..k : r[i] = s[i]
  BY <1>1, <1>2
<1> HIDE DEF r
<1>4. ASSUME NEW j \in 0..k PROVE SubSeq(r, 1, j) = SubSeq(s, 1, j)
  <2>1. j \in Nat /\ \A i \in 1..j : r[i] \in S /\ r[i] = s[i]
    BY <1>1, <1>3
  <2>2. /\ SubSeq(r, 1, j) \in Seq(S) /\ Len(SubSeq(r, 1, j)) = j
        /\ \A i \in 1..j : SubSeq(r, 1, j)[i] = r[i]
    BY <2>1, SubSeqProperties
  <2> QED BY <1>2, <2>1, <2>2, SeqEqual
<1> QED BY <1>3, <1>4 DEF r

\* Of the selections and orders of a chain's entries only its prefixes verify: an
\* entry that verifies at a position has the index of that position, in the
\* selection as in the chain, and a chain has one entry of each index.
LEMMA SelectionsThatVerify ==
  ASSUME Inductive, NEW p \in Pseudonyms, NEW n \in 0..Len(chains[p]),
         NEW s \in [1..n -> {chains[p][i] : i \in 1..Len(chains[p])}],
         Verify(p, s)
  PROVE  s = SubSeq(chains[p], 1, n)
<1> DEFINE chain == chains[p]
<1>1. chain \in Seq(Ids) /\ Len(chain) \in Nat /\ n \in Nat /\ n <= Len(chain)
  BY LenProperties DEF Inductive, TypeOK
<1>2. \A i \in 1..Len(chain) : chain[i] \in Ids
  BY <1>1, ElementOfSeq
<1>3. s \in [1..n -> Ids]
  BY <1>2
<1>4. s \in Seq(Ids) /\ Len(s) = n
  BY <1>1, <1>3
<1>5. \A i \in 1..n : signed[s[i]].body.index = i - 1
  BY <1>4, LinkedEntriesAreNumbered DEF Verify
<1>6. \A i \in 1..Len(chain) : signed[chain[i]].body.index = i - 1
  BY <1>1, LinkedEntriesAreNumbered DEF Inductive, AppendedChainsLink
<1>7. ASSUME NEW i \in 1..n PROVE s[i] = chain[i]
  <2>1. PICK j \in 1..Len(chain) : s[i] = chain[j]
    OBVIOUS
  <2>2. i - 1 = j - 1
    BY <1>5, <1>6, <2>1
  <2>3. i = j
    BY <1>1, <2>2
  <2> QED BY <2>1, <2>3
<1>8. /\ SubSeq(chain, 1, n) \in Seq(Ids) /\ Len(SubSeq(chain, 1, n)) = n
      /\ \A i \in 1..n : SubSeq(chain, 1, n)[i] = chain[i]
  BY <1>1, PrefixOfPrefix
<1> QED BY <1>4, <1>7, <1>8, SeqEqual

\* Nothing in verify looks past the entry it is at.
LEMMA PrefixesVerify ==
  ASSUME NEW p, NEW S, NEW chain \in Seq(S), Verify(p, chain), NEW k \in 0..Len(chain)
  PROVE  Verify(p, SubSeq(chain, 1, k))
<1> DEFINE s == SubSeq(chain, 1, k)
<1>1. Len(chain) \in Nat /\ k \in Nat /\ k <= Len(chain)
  BY LenProperties
<1>2. /\ Len(s) = k /\ \A i \in 1..k : s[i] = chain[i]
      /\ \A j \in 0..k : SubSeq(s, 1, j) = SubSeq(chain, 1, j)
  BY PrefixOfPrefix
<1> HIDE DEF s
<1> SUFFICES ASSUME NEW i \in 1..k
             PROVE  /\ Links(p, SubSeq(s, 1, i - 1), s[i])
                    /\ i > 1 => signed[s[i]].body.ts >= signed[s[i - 1]].body.ts
  BY <1>2 DEF Verify, s
<1>3. i \in 1..Len(chain) /\ i - 1 \in 0..k /\ (i > 1 => i - 1 \in 1..k)
  BY <1>1
<1> QED BY <1>2, <1>3 DEF Verify

\* No selection of a chain's entries but its prefixes passes `krep verify`, with
\* a node or without, and a chain that passes does so with every prefix.
THEOREM OmissionsShow == Spec => []OnlyPrefixesVerify
<1>1. Inductive => OnlyPrefixesVerify
  <2> SUFFICES ASSUME Inductive, NEW p \in Pseudonyms
               PROVE  LET chain == chains[p]
                          Selections == UNION {[1..n -> {chain[i] : i \in 1..Len(chain)}] :
                                                   n \in 0..Len(chain)}
                          Prefixes == {SubSeq(chain, 1, k) : k \in 0..Len(chain)}
                      IN  /\ \A s \in Selections :
                                 Label(p, s, TRUE) # "error" \/ Verdict(p, s) # "structure" =>
                                     s \in Prefixes
                          /\ Verify(p, chain) => \A s \in Prefixes : Verify(p, s)
    BY DEF OnlyPrefixesVerify
  <2> DEFINE chain == chains[p]
  <2>1. ASSUME NEW n \in 0..Len(chain), NEW s \in [1..n -> {chain[i] : i \in 1..Len(chain)}],
               Label(p, s, TRUE) # "error" \/ Verdict(p, s) # "structure"
        PROVE  s = SubSeq(chain, 1, n)
    <3>1. Verify(p, s)
      BY <2>1 DEF Label, Verdict
    <3> QED BY <3>1, SelectionsThatVerify
  <2>2. chain \in Seq(Ids)
    BY DEF Inductive, TypeOK
  <2>3. ASSUME Verify(p, chain), NEW k \in 0..Len(chain)
        PROVE  Verify(p, SubSeq(chain, 1, k))
    BY <2>2, <2>3, PrefixesVerify
  <2> QED BY <2>1, <2>3
<1> QED BY <1>1, AlwaysInductive, PTL

\* What can be presented as p's chain is a sequence of attestations.
LEMMA PresentableAreSequences ==
  ASSUME NEW p, NEW s \in Presentable(p), Len(signed) \in Nat
  PROVE  /\ s \in Seq(Ids) /\ Len(s) \in Nat
         /\ \A i \in 1..Len(s) : s[i] \in Ids /\ signed[s[i]].body.owner = p
<1> DEFINE own == {id \in Ids : signed[id].body.owner = p}
<1>1. IsFiniteSet(own)
  <2>1. IsFiniteSet(Ids)
    BY CountTo DEF Ids
  <2> QED BY <2>1, FS_Subset
<1>2. Cardinality(own) \in Nat
  BY <1>1, FS_CardinalityType
<1>3. PICK n \in 0..Cardinality(own) : s \in [1..n -> own]
  BY DEF Presentable
<1>4. n \in Nat
  BY <1>2
<1>5. s \in Seq(own) /\ Len(s) = n
  BY <1>3, <1>4
<1>6. s \in Seq(Ids)
  BY <1>3, <1>4
<1> QED BY <1>3, <1>4, <1>5, <1>6

\* Entries that verify are numbered, each names the one before it, and the first
\* none.
LEMMA VerifiedEntriesLink ==
  ASSUME NEW p, NEW S, NEW s \in Seq(S), Verify(p, s), NEW i \in 1..Len(s)
  PROVE  /\ signed[s[i]].body.index = i - 1
         /\ signed[s[i]].body.owner = p
         /\ Authorised(signed[s[i]])
         /\ i > 1 => signed[s[i]].body.prev = s[i - 1]
<1>1. Links(p, SubSeq(s, 1, i - 1), s[i])
  BY DEF Verify
<1>2. signed[s[i]].body.index = i - 1
  BY <1>1, LinkedEntriesAreNumbered
<1>3. ASSUME i > 1 PROVE signed[s[i]].body.prev = s[i - 1]
  <2>1. Len(s) \in Nat /\ i \in Nat /\ i <= Len(s) /\ i - 1 \in 0..Len(s) /\ i - 1 \in Nat
    BY LenProperties
  <2>2. /\ SubSeq(s, 1, i - 1) \in Seq(S) /\ Len(SubSeq(s, 1, i - 1)) = i - 1
        /\ \A j \in 1..(i - 1) : SubSeq(s, 1, i - 1)[j] = s[j]
    BY <2>1, PrefixOfPrefix
  <2>3. SubSeq(s, 1, i - 1) # <<>>
    BY <1>3, <2>1, <2>2, EmptySeq
  <2>4. SubSeq(s, 1, i - 1)[i - 1] = s[i - 1]
    BY <1>3, <2>1, <2>2
  <2> QED BY <1>1, <2>2, <2>3, <2>4 DEF Links, HeadOf
<1> QED BY <1>1, <1>2, <1>3 DEF Links

\* Two chains of one owner that verify and end in the same entry are one.  The
\* entry is numbered by its place, so they are equally long; were they different,
\* take the last place where they are: the entry after it, or the end, is the same
\* in both, and names the one before it.
LEMMA OneChainPerHead ==
  ASSUME NEW p, NEW S, NEW s \in Seq(S), NEW r \in Seq(S), s # <<>>, r # <<>>,
         Verify(p, s), Verify(p, r), HeadOf(s) = HeadOf(r)
  PROVE  s = r
<1>1. /\ Len(s) \in Nat /\ Len(r) \in Nat /\ Len(s) # 0 /\ Len(r) # 0
      /\ Len(s) \in 1..Len(s) /\ Len(r) \in 1..Len(r)
  BY LenProperties, EmptySeq
<1>2. s[Len(s)] = r[Len(r)]
  BY DEF HeadOf
<1>3. Len(s) = Len(r)
  <2>1. signed[s[Len(s)]].body.index = Len(s) - 1 /\ signed[r[Len(r)]].body.index = Len(r) - 1
    BY <1>1, VerifiedEntriesLink
  <2> QED BY <1>1, <1>2, <2>1
<1> DEFINE Differs == {d \in 0..(Len(s) - 1) : s[Len(s) - d] # r[Len(s) - d]}
<1>4. Differs = {}
  <2> SUFFICES ASSUME Differs # {} PROVE FALSE
    OBVIOUS
  <2>1. Differs \subseteq Nat
    BY <1>1
  <2>2. PICK d \in Differs : \A e \in Differs : <<e, d>> \notin OpToRel(<, Nat)
    BY <2>1, NatLessThanWellFounded, WFMin
  <2>3. \A e \in Differs : ~(e < d)
    BY <2>1, <2>2 DEF OpToRel
  <2>4. d \in Nat /\ d <= Len(s) - 1 /\ d # 0
    BY <1>1, <1>2, <1>3
  <2>5. d - 1 \in 0..(Len(s) - 1) /\ d - 1 < d
    BY <1>1, <2>4
  <2>6. s[Len(s) - (d - 1)] = r[Len(s) - (d - 1)]
    BY <2>3, <2>5
  <2>7. PICK i : i = Len(s) - (d - 1)
    OBVIOUS
  <2>8. i \in 1..Len(s) /\ i \in 1..Len(r) /\ i > 1 /\ i - 1 = Len(s) - d
    BY <1>1, <1>3, <2>4, <2>7
  <2>9. signed[s[i]].body.prev = s[i - 1] /\ signed[r[i]].body.prev = r[i - 1]
    BY <2>8, VerifiedEntriesLink
  <2> QED BY <2>2, <2>6, <2>7, <2>8, <2>9
<1>5. ASSUME NEW i \in 1..Len(s) PROVE s[i] = r[i]
  <2>1. Len(s) - i \in 0..(Len(s) - 1) /\ Len(s) - (Len(s) - i) = i
    BY <1>1
  <2>2. Len(s) - i \notin Differs
    BY <1>4
  <2> QED BY <2>1, <2>2
<1> QED BY <1>1, <1>3, <1>5, SeqEqual

\* The head of a chain fixes the history below it, however many chains could be
\* put together from what was signed and written.
THEOREM HeadsDetermineChains == Spec => []HeadDeterminesChain
<1>1. Inductive => HeadDeterminesChain
  <2> SUFFICES ASSUME Inductive, NEW p \in Pseudonyms,
                      NEW s \in Presentable(p), NEW r \in Presentable(p),
                      s # <<>>, r # <<>>, Verify(p, s), Verify(p, r), HeadOf(s) = HeadOf(r)
               PROVE  s = r
    BY DEF HeadDeterminesChain
  <2>1. Len(signed) \in Nat
    BY LenProperties DEF Inductive, Log
  <2>2. s \in Seq(Ids) /\ r \in Seq(Ids)
    BY <2>1, PresentableAreSequences
  <2> QED BY <2>2, OneChainPerHead
<1> QED BY <1>1, AlwaysInductive, PTL

\* What a chain labelled as verified can say of a trade: each entry's id is in
\* what the one spend of its outpoint committed, different entries have different
\* ids, and an ending commits two at most.
THEOREM VerifiedEntriesHappened == Spec => []EntryMatchesSpend
<1>1. Inductive => EntryMatchesSpend
  <2> SUFFICES ASSUME Inductive, NEW p \in Pseudonyms, NEW s \in Presentable(p),
                      Label(p, s, FALSE) = "verified", NEW t \in Trades, About(s, t) # {}
               PROVE  /\ spends[t].branch # "Unspent"
                      /\ Cardinality(About(s, t)) <= 2
                      /\ \A i \in About(s, t) :
                             signed[s[i]].auth # CoSigned =>
                                 /\ signed[s[i]].body.outcome # "Success"
                                 /\ signed[s[i]].auth = spends[t].branch
                                 /\ p \in Named[t]
    BY DEF EntryMatchesSpend
  <2>1. Verify(p, s) /\ VerifyAnchored(p, s)
    BY DEF Label, VerifyAnchored
  <2>2. Len(signed) \in Nat
    BY LenProperties DEF Inductive, Log
  <2>3. s \in Seq(Ids) /\ Len(s) \in Nat
    BY <2>2, PresentableAreSequences
  <2>4. About(s, t) \subseteq 1..Len(s)
    BY DEF About
  <2>5. \A i \in About(s, t) : s[i] \in spends[t].ids
    BY <2>1, <2>4 DEF VerifyAnchored, IsAnchored, About
  <2>6. spends[t].branch # "Unspent"
    BY <2>5 DEF Inductive, SpendCommits
  <2>7. Cardinality(About(s, t)) <= 2
    <3>1. \A i, j \in About(s, t) : s[i] = s[j] => i = j
      <4> SUFFICES ASSUME NEW i \in About(s, t), NEW j \in About(s, t), s[i] = s[j]
                   PROVE  i = j
        OBVIOUS
      <4>1. i \in 1..Len(s) /\ j \in 1..Len(s)
        BY <2>4
      <4>2. i - 1 = j - 1
        BY <2>1, <2>3, <4>1, VerifiedEntriesLink
      <4> QED BY <2>3, <4>1, <4>2
    <3>2. IsFiniteSet(About(s, t))
      BY <2>3, <2>4, CountTo, FS_Subset
    <3> DEFINE id == [i \in About(s, t) |-> s[i]]
    <3>3. id \in Injection(About(s, t), spends[t].ids)
      BY <2>5, <3>1 DEF Injection, IsInjective
    <3>4. IsFiniteSet(spends[t].ids) /\ Cardinality(spends[t].ids) <= 2
      BY DEF Inductive, SpendCommits
    <3>5. Cardinality(About(s, t)) <= Cardinality(spends[t].ids)
      BY <3>3, <3>4, FS_Injection
    <3> QED BY <3>2, <3>4, <3>5, FS_CardinalityType
  <2>8. ASSUME NEW i \in About(s, t), signed[s[i]].auth # CoSigned
        PROVE  /\ signed[s[i]].body.outcome # "Success"
               /\ signed[s[i]].auth = spends[t].branch
               /\ p \in Named[t]
    <3>1. i \in 1..Len(s) /\ signed[s[i]].body.anchor = t
      BY <2>4 DEF About
    <3>2. signed[s[i]].body.owner = p /\ Authorised(signed[s[i]])
      BY <2>1, <2>3, <3>1, VerifiedEntriesLink
    <3>3. CovenantWitnessed(s[i])
      BY <2>1, <2>8, <3>1 DEF VerifyAnchored
    <3> QED BY <2>8, <3>1, <3>2, <3>3 DEF Authorised, CovenantWitnessed
  <2> QED BY <2>6, <2>7, <2>8
<1> QED BY <1>1, AlwaysInductive, PTL
=============================================================================
