--------------------------- MODULE JobBoardProofs ---------------------------
(***************************************************************************)
(* Proofs about JobBoard, for any number of relays, honest or not, asked   *)
(* in any order, for every limit of a reply and whatever is signed.        *)
(***************************************************************************)
EXTENDS JobBoard, FiniteSetTheorems, TLAPS

-----------------------------------------------------------------------------
(* Facts about replies *)

\* At least as many others that match q as fit a reply, and none older than e.
CrowdedOut(q, e, events) ==
    Cardinality({f \in Matching(q, events) \ {e} : f.at >= e.at}) >= Limit

\* What was crowded out remains so when more is signed.
LEMMA CrowdsGrow ==
  ASSUME NEW q, NEW e, NEW S, NEW T, IsFiniteSet(T), S \subseteq T, CrowdedOut(q, e, S)
  PROVE  CrowdedOut(q, e, T)
<1> DEFINE Rivals(events) == {f \in Matching(q, events) \ {e} : f.at >= e.at}
<1>1. Rivals(S) \subseteq Rivals(T) /\ Rivals(T) \subseteq T
  BY DEF Matching
<1>2. IsFiniteSet(Rivals(T))
  BY <1>1, FS_Subset
<1>3. Cardinality(Rivals(S)) <= Cardinality(Rivals(T))
  BY <1>1, <1>2, FS_Subset
<1>4. Cardinality(Rivals(S)) \in Nat /\ Cardinality(Rivals(T)) \in Nat
  BY <1>1, <1>2, FS_Subset, FS_CardinalityType
<1>5. Cardinality(Rivals(S)) >= Limit /\ Limit \in Nat
  BY BoardAssumption DEF CrowdedOut
<1>6. Cardinality(Rivals(T)) >= Limit
  BY <1>3, <1>4, <1>5
<1> QED BY <1>6 DEF CrowdedOut

\* A full reply of an honest relay leaves out only what is crowded out.
LEMMA FullRepliesMissLittle ==
  ASSUME NEW q, NEW S, NEW T, IsFiniteSet(T), S \subseteq T,
         NEW reply \in Newest(Matching(q, S)), NEW e \in Matching(q, S)
  PROVE  e \in reply \/ CrowdedOut(q, e, T)
<1> DEFINE M == Matching(q, S)
           Rivals == {f \in Matching(q, T) \ {e} : f.at >= e.at}
<1>1. M \subseteq T /\ Matching(q, T) \subseteq T /\ M \subseteq Matching(q, T)
  BY DEF Matching
<1>2. IsFiniteSet(M) /\ IsFiniteSet(Rivals)
  BY <1>1, FS_Subset
<1>3. /\ reply \subseteq M
      /\ Cardinality(reply) = IF Cardinality(M) < Limit THEN Cardinality(M) ELSE Limit
      /\ \A f \in reply, g \in M \ reply : f.at >= g.at
  BY DEF Newest
<1>4. CASE Cardinality(M) < Limit
  <2>1. reply = M
    BY <1>2, <1>3, <1>4, FS_Subset
  <2> QED BY <2>1
<1>5. CASE ~(Cardinality(M) < Limit) /\ e \notin reply
  <2>1. reply \subseteq Rivals
    BY <1>1, <1>3, <1>5
  <2>2. Cardinality(reply) <= Cardinality(Rivals) /\ Cardinality(reply) = Limit
    BY <1>2, <1>3, <1>5, <2>1, FS_Subset
  <2>3. Cardinality(Rivals) \in Nat /\ Limit \in Nat
    BY <1>2, FS_CardinalityType, BoardAssumption
  <2>4. Cardinality(Rivals) >= Limit
    BY <2>2, <2>3
  <2> QED BY <2>4 DEF CrowdedOut
<1> QED BY <1>4, <1>5

-----------------------------------------------------------------------------
(* The inductive invariant *)

\* What a question under way has in hand: of what an honest relay held when it
\* began, what the relay answered in full was received or crowded out.
Asking ==
    read.at = "asking" =>
        /\ read = [at |-> "asking", q |-> read.q, left |-> read.left, got |-> read.got,
                   due |-> read.due, before |-> read.before]
        /\ \A r \in Honest : read.before[r] \subseteq Matching(read.q, stored[r])
        /\ \A e \in read.due :
               /\ e \in Matching(read.q, signed)
               /\ e \in read.got \/ CrowdedOut(read.q, e, signed)

\* What the answers promise.
Promises ==
    /\ ListsAreRegular
    /\ VerifiedPostingStands
    /\ AwardIsTheBuyersLast
    /\ ClaimsAreComplete
    /\ InboxIsAuthentic

Inductive == TypeOK /\ IsFiniteSet(signed) /\ Asking /\ Promises

\* At first nothing is signed and nobody has asked.
LEMMA InitInductive == Init => Inductive
BY BoardAssumption, FS_EmptySet
DEF Init, Inductive, TypeOK, Asking, Promises, Quiet, Asked, ListsAreRegular,
    VerifiedPostingStands, AwardIsTheBuyersLast, ClaimsAreComplete, InboxIsAuthentic

-----------------------------------------------------------------------------
(* Steps that leave the question alone *)

\* More events, in the world or on a relay, hide nothing that was shown and owe
\* the reader nothing more.
LEMMA MoreEvents ==
  ASSUME Inductive, read' = read, signed \subseteq signed', IsFiniteSet(signed'),
         \A r \in Honest : stored[r] \subseteq stored'[r]
  PROVE  Asking' /\ Promises'
<1>1. \A e : CrowdedOut(read.q, e, signed) => CrowdedOut(read.q, e, signed')
  BY CrowdsGrow
<1>2. \A e : Crowded(e) => Crowded(e)'
  BY <1>1 DEF Crowded, CrowdedOut
<1>3. \A q, S, T : S \subseteq T => Matching(q, S) \subseteq Matching(q, T)
  BY DEF Matching
<1>4. Asking'
  <2> SUFFICES ASSUME read.at = "asking"
               PROVE  /\ \A r \in Honest : read.before[r] \subseteq Matching(read.q, stored'[r])
                      /\ \A e \in read.due :
                             /\ e \in Matching(read.q, signed')
                             /\ e \in read.got \/ CrowdedOut(read.q, e, signed')
    BY DEF Inductive, Asking
  <2> QED BY <1>1, <1>3 DEF Inductive, Asking
<1>5. ListsAreRegular'
  BY <1>2 DEF Inductive, Promises, ListsAreRegular, Asked
<1>6. VerifiedPostingStands'
  BY <1>2 DEF Inductive, Promises, VerifiedPostingStands, Asked
<1>7. AwardIsTheBuyersLast'
  BY <1>2 DEF Inductive, Promises, AwardIsTheBuyersLast, Asked
<1>8. ClaimsAreComplete'
  BY <1>2 DEF Inductive, Promises, ClaimsAreComplete, Asked
<1>9. InboxIsAuthentic'
  BY <1>2 DEF Inductive, Promises, InboxIsAuthentic, Asked
<1> QED BY <1>4, <1>5, <1>6, <1>7, <1>8, <1>9 DEF Promises

\* An event is signed.
LEMMA SignInductive ==
  ASSUME Inductive, NEW e \in Events, Sign(e)
  PROVE  Inductive'
<1>1. /\ signed' = signed \cup {e} /\ e \notin signed /\ UNCHANGED <<now, stored, read>>
      /\ Cardinality(signed) < MaxEvents
  BY DEF Sign
<1>2. IsFiniteSet(signed') /\ Cardinality(signed') = Cardinality(signed) + 1
  BY <1>1, FS_AddElement DEF Inductive
<1>3. Cardinality(signed) \in Nat /\ MaxEvents \in Nat
  BY FS_CardinalityType, BoardAssumption DEF Inductive
<1>4. Cardinality(signed') <= MaxEvents
  BY <1>1, <1>2, <1>3
<1>5. SUBSET signed \subseteq SUBSET signed'
  BY <1>1
<1>6. TypeOK'
  BY <1>1, <1>4, <1>5 DEF Inductive, TypeOK
<1> QED BY <1>1, <1>2, <1>6, MoreEvents DEF Inductive

\* A relay takes one.
LEMMA TakeInductive ==
  ASSUME Inductive, NEW r \in Honest, NEW e \in signed, Take(r, e)
  PROVE  Inductive'
<1>1. stored' = [stored EXCEPT ![r] = @ \cup {e}] /\ UNCHANGED <<now, signed, read>>
  BY DEF Take
<1>2. stored \in [Honest -> SUBSET signed]
  BY DEF Inductive, TypeOK
<1>3. stored' \in [Honest -> SUBSET signed'] /\ \A s \in Honest : stored[s] \subseteq stored'[s]
  BY <1>1, <1>2
<1>4. TypeOK'
  BY <1>1, <1>3 DEF Inductive, TypeOK
<1> QED BY <1>1, <1>3, <1>4, MoreEvents DEF Inductive

\* The clock ticks, or nothing happens.
LEMMA TickInductive ==
  ASSUME Inductive, Tick \/ UNCHANGED vars
  PROVE  Inductive'
<1>1. UNCHANGED <<signed, stored, read>> /\ now' \in 0..MaxTime
  BY BoardAssumption DEF Tick, vars, Inductive, TypeOK
<1>2. TypeOK'
  BY <1>1 DEF Inductive, TypeOK
<1> QED BY <1>1, <1>2, MoreEvents DEF Inductive

-----------------------------------------------------------------------------
(* Steps of a question *)

\* No answer is promised while a question is under way.
LEMMA NothingPromised ==
  ASSUME read'.at = "asking"
  PROVE  Promises'
BY DEF Promises, Asked, ListsAreRegular, VerifiedPostingStands, AwardIsTheBuyersLast,
       ClaimsAreComplete, InboxIsAuthentic

\* A question begins with nothing received and nothing owed.
LEMMA AskInductive ==
  ASSUME Inductive, NEW q \in Questions, Ask(q)
  PROVE  Inductive'
<1>1. /\ read' = [at |-> "asking", q |-> q, left |-> Relays, got |-> {}, due |-> {},
                 before |-> [r \in Honest |-> Matching(q, stored[r])]]
      /\ UNCHANGED <<now, signed, stored>>
  BY DEF Ask
<1>2. \A r \in Honest : Matching(q, stored[r]) \subseteq signed
  BY DEF Inductive, TypeOK, Matching
<1>3. TypeOK'
  BY <1>1, <1>2 DEF Inductive, TypeOK
<1>4. Asking'
  BY <1>1 DEF Asking
<1> QED BY <1>1, <1>3, <1>4, NothingPromised DEF Inductive

\* A relay has replied, or failed to.
LEMMA QueryInductive ==
  ASSUME Inductive, Query
  PROVE  Inductive'
<1> DEFINE r == Head(read.left)
<1>1. /\ read.at = "asking" /\ UNCHANGED <<now, signed, stored>>
      /\ read = [at |-> "asking", q |-> read.q, left |-> read.left, got |-> read.got,
                due |-> read.due, before |-> read.before]
  BY DEF Query, Inductive, Asking
<1>2. /\ read.q \in Questions /\ read.got \cup read.due \subseteq signed
      /\ read.before \in [Honest -> SUBSET signed]
  BY <1>1 DEF Inductive, TypeOK, Quiet
<1>3. ASSUME NEW reply \in SUBSET signed, NEW due \in SUBSET signed,
             read' = [read EXCEPT !.left = Tail(@), !.got = @ \cup reply, !.due = due],
             \A e \in due : /\ e \in Matching(read.q, signed)
                            /\ e \in read.got \cup reply \/ CrowdedOut(read.q, e, signed)
      PROVE  Inductive'
  <2>1. read' = [at |-> "asking", q |-> read.q, left |-> Tail(read.left),
                 got |-> read.got \cup reply, due |-> due, before |-> read.before]
    BY <1>1, <1>3
  <2>2. /\ read'.at = "asking" /\ read'.q = read.q /\ read'.got = read.got \cup reply
        /\ read'.left = Tail(read.left) /\ read'.due = due /\ read'.before = read.before
    BY <2>1
  <2>3. TypeOK'
    BY <1>1, <1>2, <2>2 DEF Inductive, TypeOK
  <2>4. Asking'
    BY <1>1, <1>3, <2>1, <2>2 DEF Inductive, Asking
  <2> QED BY <1>1, <2>2, <2>3, <2>4, NothingPromised DEF Inductive
<1>4. ASSUME r \in Honest,
             NEW reply \in Newest(Matching(read.q, stored[r])),
             read' = [read EXCEPT !.left = Tail(@), !.got = @ \cup reply,
                                  !.due = @ \cup read.before[r]]
      PROVE  Inductive'
  <2> DEFINE due == read.due \cup read.before[r]
  <2>1. stored[r] \subseteq signed /\ read.before[r] \subseteq Matching(read.q, stored[r])
    BY <1>1, <1>4 DEF Inductive, TypeOK, Asking
  <2>2. /\ reply \subseteq signed /\ due \subseteq signed
        /\ Matching(read.q, stored[r]) \subseteq Matching(read.q, signed)
    BY <1>2, <2>1 DEF Newest, Matching
  <2>3. ASSUME NEW e \in due
        PROVE  /\ e \in Matching(read.q, signed)
               /\ e \in read.got \cup reply \/ CrowdedOut(read.q, e, signed)
    <3>1. CASE e \in read.due
      BY <1>1, <3>1 DEF Inductive, Asking
    <3>2. CASE e \in read.before[r]
      BY <2>1, <2>2, <3>2, FullRepliesMissLittle DEF Inductive
    <3> QED BY <3>1, <3>2
  <2>4. read' = [read EXCEPT !.left = Tail(@), !.got = @ \cup reply, !.due = due]
    BY <1>4
  <2> HIDE DEF due
  <2> QED BY <1>3, <2>2, <2>3, <2>4
<1>5. ASSUME NEW reply \in SUBSET signed,
             read' = [read EXCEPT !.left = Tail(@), !.got = @ \cup reply]
      PROVE  Inductive'
  <2>1. read' = [read EXCEPT !.left = Tail(@), !.got = @ \cup reply, !.due = read.due]
    BY <1>1, <1>5
  <2>2. \A e \in read.due : /\ e \in Matching(read.q, signed)
                            /\ e \in read.got \cup reply \/ CrowdedOut(read.q, e, signed)
    BY <1>1 DEF Inductive, Asking
  <2> QED BY <1>2, <1>3, <2>1, <2>2
<1>6. r \in Honest => Matching(read.q, stored[r]) \subseteq signed
  BY DEF Inductive, TypeOK, Matching
<1> QED BY <1>4, <1>5, <1>6 DEF Query

-----------------------------------------------------------------------------
(* What is made of the replies *)

\* A list shows no revision older than one that was received, and one of the
\* same address unless a revision as new is unreadable or elsewhere.
LEMMA ListsShowTheNewest ==
  ASSUME NEW kind, NEW region, NEW events, NEW answer \in List(kind, region, events),
         NEW e \in events, e.kind = kind
  PROVE  /\ \A f \in answer : SameAddress(e, f) => f.at >= e.at
         /\ \/ \E f \in answer : SameAddress(e, f)
            \/ \E f \in events : /\ SameAddress(e, f) /\ f.at >= e.at
                                 /\ ~Readable(f) \/ region \notin {NoRegion, f.body.region}
<1>1. PICK kept \in NewestPerAddress(events) :
        answer = {f \in kept : f.kind = kind /\ Readable(f) /\ region \in {NoRegion, f.body.region}}
  BY DEF List
<1>2. /\ kept \subseteq events
      /\ \A f, g \in kept : SameAddress(f, g) => f = g
      /\ \A g \in events : \E f \in kept : SameAddress(g, f) /\ f.at >= g.at
  BY DEF NewestPerAddress
<1>3. PICK g \in kept : SameAddress(e, g) /\ g.at >= e.at
  BY <1>2
<1>4. g.kind = kind
  BY <1>3 DEF SameAddress
<1>5. ASSUME NEW f \in answer, SameAddress(e, f) PROVE f.at >= e.at
  <2>1. SameAddress(f, g)
    BY <1>3, <1>5 DEF SameAddress
  <2>2. f = g
    BY <1>1, <1>2, <2>1
  <2> QED BY <1>3, <2>2
<1>6. CASE Readable(g) /\ region \in {NoRegion, g.body.region}
  <2>1. g \in answer
    BY <1>1, <1>4, <1>6
  <2> QED BY <1>3, <1>5, <2>1
<1>7. CASE ~Readable(g) \/ region \notin {NoRegion, g.body.region}
  BY <1>2, <1>3, <1>5, <1>7
<1> QED BY <1>6, <1>7

\* A list shows what was received, of its kind.
LEMMA ListsAreReceived ==
  ASSUME NEW kind, NEW region, NEW events, NEW answer \in List(kind, region, events)
  PROVE  answer \subseteq {f \in events : f.kind = kind}
BY DEF List, NewestPerAddress

\* An event is a wrap or of another kind, and an addressable one was signed by the
\* author its address names.
LEMMA EventForms ==
  ASSUME NEW e \in Events
  PROVE  /\ e.at \in Nat
         /\ e.kind = "Wrap" => e \in Wraps
         /\ e.kind = "Job" => e.author = e.job.author
<1> DEFINE OfKind(k) == [kind : {k}, author : Pseudonyms, job : Jobs, at : 0..MaxTime,
                         body : Contents(k)]
<1>1. MaxTime \in Nat
  BY BoardAssumption
<1>2. CASE e \in Wraps
  BY <1>1, <1>2 DEF Wraps
<1>3. CASE e \notin Wraps
  <2>1. e \in UNION {{f \in OfKind(k) : k \in Addressable => f.job.author = f.author} :
                       k \in Kinds \ {"Wrap"}}
    BY <1>3, Zenon DEF Events
  <2>2. PICK k \in Kinds \ {"Wrap"} :
          e \in OfKind(k) /\ (k \in Addressable => e.job.author = e.author)
    BY <2>1, Zenon
  <2>3. e.kind = k /\ e.at \in 0..MaxTime
    BY <2>2
  <2> QED BY <1>1, <2>2, <2>3 DEF Addressable
<1> QED BY <1>2, <1>3

\* What opens is a letter to the reader from whoever sealed it.
LEMMA OpenedIsALetter ==
  ASSUME NEW me \in Pseudonyms, NEW e \in Events, Opens(me, e)
  PROVE  \E p \in Pseudonyms : e.body = Letter(p, me)
<1> DEFINE SealedBy(p) == [author : {p}, key : {ConversationKey(p, q) : q \in Pseudonyms},
                           rumor : Pseudonyms \cup {Garbage}]
<1>1. e.body \in Seals /\ e.body # Garbage
  BY EventForms DEF Opens, Wraps
<1>2. PICK p \in Pseudonyms : e.body \in SealedBy(p)
  BY <1>1, Zenon DEF Seals
<1>3. e.body = [author |-> e.body.author, key |-> e.body.key, rumor |-> e.body.rumor]
  BY <1>2
<1>4. e.body.author = p
  BY <1>2
<1>5. e.body.key = ConversationKey(p, me) /\ e.body.rumor = p
  BY <1>4 DEF Opens, Decrypts, ConversationKey
<1>6. e.body = Letter(p, me)
  BY <1>3, <1>4, <1>5 DEF Letter
<1> QED BY <1>6

\* A letter to the reader opens.
LEMMA LettersOpen ==
  ASSUME NEW me \in Pseudonyms, NEW p \in Pseudonyms, NEW e,
         e.kind = "Wrap", e.to = me, e.body = Letter(p, me)
  PROVE  Opens(me, e)
BY GarbageAssumption DEF Opens, Letter, Decrypts, ConversationKey

\* Every answer keeps what it promises.
LEMMA ConcludeInductive ==
  ASSUME Inductive, Conclude
  PROVE  Inductive'
<1> DEFINE q == read.q
           got == read.got
           due == read.due
<1>1. PICK answer \in Answers(q, got) :
        read' = [at |-> "answered", q |-> q, due |-> due, answer |-> answer]
  BY DEF Conclude
<1>2. read.at = "asking" /\ UNCHANGED <<now, signed, stored>>
  BY DEF Conclude
<1>3. q \in Questions /\ got \cup due \subseteq signed /\ signed \subseteq Events
  BY <1>2 DEF Inductive, TypeOK, Quiet
<1>4. \A e \in due : Matches(q, e) /\ (e \in got \/ CrowdedOut(q, e, signed))
  BY <1>2 DEF Inductive, Asking, Matching
<1>5. /\ read'.at = "answered" /\ read'.q = q /\ read'.due = due /\ read'.answer = answer
      /\ \A e : Crowded(e)' = CrowdedOut(q, e, signed)
  BY <1>1, <1>2 DEF Crowded, CrowdedOut
<1> HIDE DEF q, got, due
<1>6. answer \subseteq got
  <2>1. \A kind, region : \A listed \in List(kind, region, got) : listed \subseteq got
    BY ListsAreReceived
  <2>2. CASE q.what \in {"jobs", "offers", "verify"}
    BY <1>1, <2>1, <2>2 DEF Answers, Verified
  <2>3. CASE q.what \in {"claims", "inbox", "award"}
    BY <1>1, <2>3 DEF Answers, ClaimsFor, Inbox, Award
  <2> QED BY <1>3, <2>2, <2>3 DEF Questions
<1>7. TypeOK'
  BY <1>2, <1>3, <1>5, <1>6 DEF Inductive, TypeOK
<1>8. Asking'
  BY <1>5 DEF Asking
<1>9. ListsAreRegular'
  <2> SUFFICES ASSUME q.what \in {"jobs", "offers"}, NEW e \in due, ~CrowdedOut(q, e, signed)
               PROVE  /\ \A f \in answer : SameAddress(e, f) => f.at >= e.at
                      /\ \/ \E f \in answer : SameAddress(e, f)
                         \/ \E f \in signed :
                               /\ SameAddress(e, f) /\ f.at >= e.at
                               /\ ~Readable(f) \/ q.region \notin {NoRegion, f.body.region}
    BY <1>2, <1>5 DEF ListsAreRegular, Asked
  <2>1. e \in got /\ e.kind = KindOf(q)
    BY <1>4 DEF Matches
  <2>2. answer \in List(KindOf(q), q.region, got)
    BY <1>1 DEF Answers, KindOf
  <2> QED BY <1>3, <2>1, <2>2, ListsShowTheNewest
<1>10. VerifiedPostingStands'
  <2> SUFFICES ASSUME q.what = "verify", NEW e \in answer
               PROVE  /\ e.kind = "Job" /\ e.author = q.job.author
                      /\ e.body.template = q.terms /\ e.body.numbers = q.terms
                      /\ \A f \in due : SameAddress(e, f) => f.at <= e.at \/ CrowdedOut(q, f, signed)
    BY <1>5 DEF VerifiedPostingStands, Asked
  <2>1. PICK listed \in List("Job", NoRegion, got) :
          answer = {f \in listed : f.job = q.job /\ MatchesEscrow(f, q.terms)}
    BY <1>1 DEF Answers, Verified
  <2>2. e \in listed /\ e.kind = "Job" /\ e \in Events /\ e.job = q.job
    BY <1>3, <1>6, <2>1, ListsAreReceived
  <2>3. e.author = q.job.author
    BY <2>2, EventForms
  <2>4. ASSUME NEW f \in due, SameAddress(e, f), ~CrowdedOut(q, f, signed)
        PROVE  f.at <= e.at
    <3>1. f \in got /\ f.kind = "Job" /\ SameAddress(f, e)
      BY <1>4, <2>2, <2>4 DEF SameAddress
    <3>2. e.at >= f.at
      BY <2>2, <3>1, ListsShowTheNewest
    <3>3. e.at \in Nat /\ f.at \in Nat
      BY <1>3, <2>2, <3>1, EventForms
    <3> QED BY <3>2, <3>3
  <2> QED BY <2>1, <2>2, <2>3, <2>4 DEF MatchesEscrow
<1>11. AwardIsTheBuyersLast'
  <2> SUFFICES ASSUME q.what = "award"
               PROVE  /\ \A e \in answer : e.kind = "Accept" /\ e.author = q.job.author
                      /\ \A f \in due :
                             f.author = q.job.author =>
                                 CrowdedOut(q, f, signed) \/ \E e \in answer : e.at >= f.at
    BY <1>5 DEF AwardIsTheBuyersLast, Asked
  <2> DEFINE own == {e \in got : e.kind = "Accept" /\ e.author = q.job.author}
  <2>1. answer \in IF own = {} THEN {{}}
                  ELSE {{e} : e \in {f \in own : \A g \in own : g.at <= f.at}}
    BY <1>1 DEF Answers, Award
  <2>2. answer \subseteq own
    BY <2>1
  <2>3. ASSUME NEW f \in due, f.author = q.job.author, ~CrowdedOut(q, f, signed)
        PROVE  \E e \in answer : e.at >= f.at
    <3>1. f \in own
      BY <1>4, <2>3 DEF Matches, KindOf
    <3>2. PICK e \in own : answer = {e} /\ f.at <= e.at
      BY <2>1, <3>1
    <3>3. e.at \in Nat /\ f.at \in Nat
      BY <1>3, <3>1, EventForms
    <3> QED BY <3>2, <3>3
  <2> QED BY <2>2, <2>3
<1>12. ClaimsAreComplete'
  <2> SUFFICES ASSUME q.what = "claims"
               PROVE  /\ \A e \in answer : e.kind = "Claim" /\ e.job = q.job
                      /\ \A f \in due : f \in answer \/ CrowdedOut(q, f, signed)
    BY <1>5 DEF ClaimsAreComplete, Asked
  <2>1. answer = {e \in got : e.kind = "Claim" /\ e.job = q.job}
    BY <1>1 DEF Answers, ClaimsFor
  <2> QED BY <1>4, <2>1 DEF Matches, KindOf
<1>13. InboxIsAuthentic'
  <2> SUFFICES ASSUME q.what = "inbox"
               PROVE  /\ \A e \in answer : \E p \in Pseudonyms : e.body = Letter(p, q.me)
                      /\ \A f \in due, p \in Pseudonyms :
                             f.body = Letter(p, q.me) => f \in answer \/ CrowdedOut(q, f, signed)
    BY <1>5 DEF InboxIsAuthentic, Asked
  <2>1. answer = {e \in got : Opens(q.me, e)}
    BY <1>1 DEF Answers, Inbox
  <2>2. q.me \in Pseudonyms
    BY <1>3 DEF Questions
  <2>3. \A e \in answer : \E p \in Pseudonyms : e.body = Letter(p, q.me)
    BY <1>3, <1>6, <2>1, <2>2, OpenedIsALetter
  <2>4. ASSUME NEW f \in due, NEW p \in Pseudonyms, f.body = Letter(p, q.me),
               ~CrowdedOut(q, f, signed)
        PROVE  f \in answer
    <3>1. f \in got /\ f.kind = "Wrap" /\ f.to = q.me
      BY <1>4, <2>4 DEF Matches, KindOf
    <3> QED BY <2>1, <2>2, <2>4, <3>1, LettersOpen
  <2> QED BY <2>3, <2>4
<1> QED
  BY <1>2, <1>7, <1>8, <1>9, <1>10, <1>11, <1>12, <1>13 DEF Inductive, Promises

-----------------------------------------------------------------------------
(* Theorems *)

\* Whatever happens next.
LEMMA NextInductive == Inductive /\ [Next]_vars => Inductive'
<1> SUFFICES ASSUME Inductive, [Next]_vars PROVE Inductive'
  OBVIOUS
<1>1. ASSUME NEW e \in Events, Sign(e) PROVE Inductive'
  BY <1>1, SignInductive
<1>2. ASSUME NEW r \in Honest, NEW e \in signed, Take(r, e) PROVE Inductive'
  BY <1>2, TakeInductive
<1>3. ASSUME NEW q \in Questions, Ask(q) PROVE Inductive'
  BY <1>3, AskInductive
<1> QED BY <1>1, <1>2, <1>3, TickInductive, QueryInductive, ConcludeInductive DEF Next

\* The invariant holds in every state.
LEMMA AlwaysInductive == Spec => []Inductive
<1> QED BY InitInductive, NextInductive, PTL DEF Spec

\* Types: what is stored, received, owed and shown was signed.
THEOREM BoardTypeCorrect == Spec => []TypeOK
<1>1. Inductive => TypeOK
  BY DEF Inductive
<1> QED BY <1>1, AlwaysInductive, PTL

\* An address is a regular register, whoever the other relays are.
THEOREM ListsAreAlwaysRegular == Spec => []ListsAreRegular
<1>1. Inductive => ListsAreRegular
  BY DEF Inductive, Promises
<1> QED BY <1>1, AlwaysInductive, PTL

\* A verified posting is its author's, and the newest an honest relay answered.
THEOREM VerifiedPostingsStand == Spec => []VerifiedPostingStands
<1>1. Inductive => VerifiedPostingStands
  BY DEF Inductive, Promises
<1> QED BY <1>1, AlwaysInductive, PTL

\* An award is the buyer's own, and the last an honest relay answered.
THEOREM AwardsAreTheBuyersLast == Spec => []AwardIsTheBuyersLast
<1>1. Inductive => AwardIsTheBuyersLast
  BY DEF Inductive, Promises
<1> QED BY <1>1, AlwaysInductive, PTL

\* The claims on a job are all an honest relay answered, and no others'.
THEOREM ClaimsAreAlwaysComplete == Spec => []ClaimsAreComplete
<1>1. Inductive => ClaimsAreComplete
  BY DEF Inductive, Promises
<1> QED BY <1>1, AlwaysInductive, PTL

\* An inbox shows letters under their authors' names, and every one an honest
\* relay answered.
THEOREM InboxIsAlwaysAuthentic == Spec => []InboxIsAuthentic
<1>1. Inductive => InboxIsAuthentic
  BY DEF Inductive, Promises
<1> QED BY <1>1, AlwaysInductive, PTL
=============================================================================
