------------------------------ MODULE JobBoard ------------------------------
(***************************************************************************)
(* The job board over Nostr relays (krep-board/src/{event,job,offer,       *)
(* relay,nip17,nip44}.rs, krep-cli/src/board.rs and the job and offer      *)
(* commands of krep-cli/src/main.rs).                                      *)
(*                                                                         *)
(* Everything is a signed event.  Postings and offers are addressable: of  *)
(* several with one author and one d tag the newest counts.  Claims and    *)
(* acceptances name the address of a job.  A private message is a wrap     *)
(* addressed to its reader: it holds what its author sealed for two keys.  *)
(* An event is sent to one relay after the other, each of which may take   *)
(* it or not; a question is asked of one relay after the other and the     *)
(* replies are merged.  An event's id is a hash of all of it, so an event  *)
(* is its own id, and the check of id and signature on arrival means that  *)
(* a relay can only hand out what somebody signed.                         *)
(*                                                                         *)
(* A relay that is not honest stores what it likes and answers any         *)
(* question with any signed events.  An honest one keeps what it took,     *)
(* answers with the newest events that match, but its reply may be cut     *)
(* short by the timeout, which the reader does not notice.                 *)
(***************************************************************************)
EXTENDS Naturals, Sequences, FiniteSets

CONSTANTS
    Pseudonyms,     \* the keys that sign events
    JobIds,         \* d tags
    Terms,          \* the escrows postings are about
    Regions,        \* the facet a list may ask for
    NoRegion,       \* none asked for
    Garbage,        \* content that does not parse
    Relays,         \* the relays the commands are given, in their order
    Honest,         \* those that behave
    Kinds,          \* the kinds of events signed
    Limit,          \* the events a relay returns at most
    MaxTime,        \* bound on the clock
    MaxEvents       \* bound on the events signed

AllKinds == {"Job", "Offer", "Claim", "Accept", "Wrap"}
Addressable == {"Job", "Offer"}

ASSUME BoardAssumption ==
    /\ Kinds \subseteq AllKinds
    /\ Limit \in Nat \ {0} /\ MaxTime \in Nat /\ MaxEvents \in Nat

VARIABLES
    now,        \* the clock events are stamped with
    signed,     \* every event that was ever signed
    stored,     \* what each honest relay holds
    read        \* the question under way, or the last one and its answer

vars == <<now, signed, stored, read>>

----------------------------------------------------------------------------
(* Events *)

\* job_address: a job is its author and its d tag.
Jobs == [author : Pseudonyms, id : JobIds]

\* What an event of each kind may say.  A posting made by `krep job post` has
\* the template and the numbers of one escrow, an offer made by `krep offer`
\* the record of its author; other programs sign what they like.
Contents(kind) ==
    CASE kind = "Job"   -> [template : Terms, numbers : Terms, region : Regions] \cup {Garbage}
      [] kind = "Offer" -> [owner : Pseudonyms, region : Regions]
      [] kind = "Claim" -> {"claim"}
      [] OTHER          -> {"acceptance"}

\* conversation_key: either of the two derives it, from its own secret and the
\* other's public key, and nobody else.
ConversationKey(secret, peer) == {secret, peer}

\* decrypt: the message authentication fails under any other key.
Decrypts(secret, peer, key) == key = ConversationKey(secret, peer)

\* wrap: what the sender seals, a message that names the sender.
Letter(sender, to) ==
    [author |-> sender, key |-> ConversationKey(sender, to), rumor |-> sender]

\* Content that does not parse is no message.
ASSUME GarbageAssumption == \A p, q \in Pseudonyms : Letter(p, q) # Garbage

\* What a wrap may hold: what somebody sealed for somebody, attributed to
\* anybody, or something that is no message; or nothing its addressee can open.
Seals ==
    (UNION {[author : {p}, key : {ConversationKey(p, q) : q \in Pseudonyms},
             rumor : Pseudonyms \cup {Garbage}] : p \in Pseudonyms}) \cup {Garbage}

\* A wrap is signed by a key that is thrown away, so that it has an author, and
\* an address, of its own.
Wraps == [kind : {"Wrap"}, to : Pseudonyms, at : 0..MaxTime, body : Seals]

\* An addressable event's tags name a job of its author, those of a claim or
\* an acceptance the job of anybody.
Events ==
    (UNION {{e \in [kind : {k}, author : Pseudonyms, job : Jobs, at : 0..MaxTime,
                    body : Contents(k)] :
                 k \in Addressable => e.job.author = e.author} : k \in Kinds \ {"Wrap"}})
        \cup IF "Wrap" \in Kinds THEN Wraps ELSE {}

SameAddress(e, f) ==
    e.kind = f.kind /\ IF e.kind = "Wrap" THEN e = f ELSE e.job = f.job

----------------------------------------------------------------------------
(* Publishing *)

\* job post, claim, accept and dm, offer post: an event is stamped and signed,
\* a wrap with a time in the past.
Sign(e) ==
    /\ Cardinality(signed) < MaxEvents
    /\ IF e.kind = "Wrap" THEN e.at <= now ELSE e.at = now
    /\ e \notin signed
    /\ signed' = signed \cup {e}
    /\ UNCHANGED <<now, stored, read>>

\* publish_all: a relay takes the event, when its turn comes or when somebody
\* sends it again; a relay that refuses or does not answer changes nothing.
Take(r, e) ==
    /\ e \in signed \ stored[r]
    /\ stored' = [stored EXCEPT ![r] = @ \cup {e}]
    /\ UNCHANGED <<now, signed, read>>

Tick ==
    /\ now < MaxTime
    /\ now' = now + 1
    /\ UNCHANGED <<signed, stored, read>>

----------------------------------------------------------------------------
(* Asking *)

\* The commands that read, with what they are given.
Questions ==
    [what : {"jobs", "offers"}, region : Regions \cup {NoRegion}]
        \cup [what : {"claims", "award"}, job : Jobs]
        \cup [what : {"verify"}, job : Jobs, terms : Terms]
        \cup [what : {"inbox"}, me : Pseudonyms]

KindOf(q) ==
    CASE q.what \in {"jobs", "verify"} -> "Job"
      [] q.what = "offers"             -> "Offer"
      [] q.what = "claims"             -> "Claim"
      [] q.what = "inbox"              -> "Wrap"
      [] OTHER                         -> "Accept"

\* The filter sent to the relays.
Matches(q, e) ==
    /\ e.kind = KindOf(q)
    /\ q.what \in {"claims", "award"} => e.job = q.job
    /\ q.what = "inbox" => e.to = q.me

Matching(q, events) == {e \in events : Matches(q, e)}

\* The newest of a relay's events, at most Limit.
Newest(events) ==
    {kept \in SUBSET events :
        /\ Cardinality(kept) = IF Cardinality(events) < Limit
                               THEN Cardinality(events) ELSE Limit
        /\ \A e \in kept, f \in events \ kept : e.at >= f.at}

Quiet == [at |-> "quiet"]

\* query_all begins.
Ask(q) ==
    /\ read.at # "asking"
    /\ read' = [at |-> "asking", q |-> q, left |-> Relays, got |-> {}, due |-> {},
                before |-> [r \in Honest |-> Matching(q, stored[r])]]
    /\ UNCHANGED <<now, signed, stored>>

\* Deviation: signatures are not checked, so that a relay can make events up.
QueryUnverified ==
    /\ read.at = "asking" /\ read.left # <<>>
    /\ \E e \in Events :
          read' = [read EXCEPT !.left = Tail(@), !.got = @ \cup {e}]
    /\ UNCHANGED <<now, signed, stored>>

\* query: an honest relay answers in full, or is unreachable or cut short by
\* the timeout; another one returns anything that was signed.
Query ==
    /\ read.at = "asking" /\ read.left # <<>>
    /\ LET r == Head(read.left)
       IN  \/ /\ r \in Honest
              /\ \E reply \in Newest(Matching(read.q, stored[r])) :
                    read' = [read EXCEPT !.left = Tail(@), !.got = @ \cup reply,
                                         !.due = @ \cup read.before[r]]
           \/ \E reply \in SUBSET IF r \in Honest THEN Matching(read.q, stored[r]) ELSE signed :
                 read' = [read EXCEPT !.left = Tail(@), !.got = @ \cup reply]
    /\ UNCHANGED <<now, signed, stored>>

\* Deviation: the last one met replaces the others.
AnyRevision(events) ==
    {kept \in SUBSET events :
        /\ \A e, f \in kept : SameAddress(e, f) => e = f
        /\ \A e \in events : \E f \in kept : SameAddress(e, f)}

\* newest_per_address: of the events of an address one of the newest; which one
\* of several depends on the order of a hash map.
NewestPerAddress(events) ==
    {kept \in SUBSET events :
        /\ \A e, f \in kept : SameAddress(e, f) => e = f
        /\ \A e \in events : \E f \in kept : SameAddress(e, f) /\ f.at >= e.at}

\* JobPost::from_event and Offer::from_event.
Readable(e) ==
    \/ e.kind = "Job" /\ e.body # Garbage
    \/ e.kind = "Offer" /\ e.body.owner = e.author

\* Deviation: the newest of what fits the facets.
FacetsFirst(kind, region, events) ==
    NewestPerAddress({e \in events : e.kind = kind /\ Readable(e)
                                       /\ region \in {NoRegion, e.body.region}})

\* board::list and board::list_offers.
List(kind, region, events) ==
    {{e \in kept : e.kind = kind /\ Readable(e) /\ region \in {NoRegion, e.body.region}} :
        kept \in NewestPerAddress(events)}

\* Deviation: the numbers are not compared.
MatchesTemplate(e, terms) == e.body.template = terms

\* matches_escrow.
MatchesEscrow(e, terms) == e.body.template = terms /\ e.body.numbers = terms

\* job verify: the posting at the address, if it agrees with the escrow.
Verified(q, events) ==
    {{e \in listed : e.job = q.job /\ MatchesEscrow(e, q.terms)} :
        listed \in List("Job", NoRegion, events)}

\* Deviation: the relay is believed about what a claim is for.
ClaimsAsReturned(job, events) == {e \in events : e.kind = "Claim"}

\* claims_for.
ClaimsFor(job, events) == {e \in events : e.kind = "Claim" /\ e.job = job}

\* Deviation: the newest acceptance of whoever accepts.
AnybodysAward(job, events) ==
    LET all == {e \in events : e.kind = "Accept"}
    IN  IF all = {} THEN {{}} ELSE {{e} : e \in {f \in all : \A g \in all : g.at <= f.at}}

\* acceptance_for: the newest acceptance of the buyer the address names; for
\* which job it is was left to the relay's filter.
Award(job, events) ==
    LET own == {e \in events : e.kind = "Accept" /\ e.author = job.author}
    IN  IF own = {} THEN {{}}
        ELSE {{e} : e \in {f \in own : \A g \in own : g.at <= f.at}}

\* Deviation: whoever sealed a message is not compared with whom it names.
OpensAttributed(me, gift) ==
    /\ gift.kind = "Wrap" /\ gift.to = me /\ gift.body # Garbage
    /\ Decrypts(me, gift.body.author, gift.body.key)
    /\ gift.body.rumor # Garbage

\* unwrap: the reader opens the wrap, and the seal with the key it shares with
\* the seal's signer, and finds a message that names this signer.
Opens(me, gift) ==
    /\ gift.kind = "Wrap" /\ gift.to = me /\ gift.body # Garbage
    /\ Decrypts(me, gift.body.author, gift.body.key)
    /\ gift.body.rumor = gift.body.author

\* dm_inbox: an entry stands for the wrap it was opened from; what does not
\* open is passed over.
Inbox(me, events) == {e \in events : Opens(me, e)}

\* What a command may make of the merged replies.
Answers(q, events) ==
    CASE q.what = "jobs"   -> List("Job", q.region, events)
      [] q.what = "offers" -> List("Offer", q.region, events)
      [] q.what = "verify" -> Verified(q, events)
      [] q.what = "claims" -> {ClaimsFor(q.job, events)}
      [] q.what = "inbox"  -> {Inbox(q.me, events)}
      [] OTHER             -> Award(q.job, events)

Conclude ==
    /\ read.at = "asking" /\ read.left = <<>>
    /\ \E answer \in Answers(read.q, read.got) :
          read' = [at |-> "answered", q |-> read.q, due |-> read.due, answer |-> answer]
    /\ UNCHANGED <<now, signed, stored>>

----------------------------------------------------------------------------

Init ==
    /\ now = 0
    /\ signed = {}
    /\ stored = [r \in Honest |-> {}]
    /\ read = Quiet

Next ==
    \/ \E e \in Events : Sign(e)
    \/ \E r \in Honest, e \in signed : Take(r, e)
    \/ Tick
    \/ \E q \in Questions : Ask(q)
    \/ Query \/ Conclude

Spec == Init /\ [][Next]_vars

----------------------------------------------------------------------------
(* Properties *)

TypeOK ==
    /\ now \in 0..MaxTime
    /\ signed \subseteq Events /\ Cardinality(signed) <= MaxEvents
    /\ stored \in [Honest -> SUBSET signed]
    /\ \/ read = Quiet
       \/ /\ read.at = "asking" /\ read.q \in Questions
          /\ read.got \cup read.due \subseteq signed
          /\ read.before \in [Honest -> SUBSET signed]
       \/ /\ read.at = "answered" /\ read.q \in Questions
          /\ read.answer \cup read.due \subseteq signed

\* The limit of a relay's reply can leave an event out only for as many that
\* are not older.
Crowded(e) ==
    Cardinality({f \in Matching(read.q, signed) \ {e} : f.at >= e.at}) >= Limit

Asked(what) == read.at = "answered" /\ read.q.what \in what

\* An address is a regular register: whatever the other relays omit, replay or
\* make up, a list shows no revision older than what an honest relay had and
\* answered, under no facet either; and what it had is shown, unless a revision
\* at least as new hides it.
ListsAreRegular ==
    Asked({"jobs", "offers"}) =>
        \A e \in read.due : Crowded(e) \/
            /\ \A f \in read.answer : SameAddress(e, f) => f.at >= e.at
            /\ \/ \E f \in read.answer : SameAddress(e, f)
               \/ \E f \in signed : /\ SameAddress(e, f) /\ f.at >= e.at
                                    /\ ~Readable(f) \/ read.q.region \notin {NoRegion, f.body.region}

\* A posting that was verified against an escrow is one its author signed for
\* that escrow, and no revision an honest relay had and answered replaces it.
VerifiedPostingStands ==
    Asked({"verify"}) =>
        \A e \in read.answer :
            /\ e.kind = "Job" /\ e.author = read.q.job.author
            /\ e.body.template = read.q.terms /\ e.body.numbers = read.q.terms
            /\ \A f \in read.due : SameAddress(e, f) => f.at <= e.at \/ Crowded(f)

\* An award is the buyer's own, and the last one of those an honest relay had
\* and answered; strangers neither award a job nor hide that it was awarded
\* unless they crowd it out.
AwardIsTheBuyersLast ==
    Asked({"award"}) =>
        /\ \A e \in read.answer : e.kind = "Accept" /\ e.author = read.q.job.author
        /\ \A f \in read.due :
               f.author = read.q.job.author =>
                   Crowded(f) \/ \E e \in read.answer : e.at >= f.at

\* The claims on a job are claims on that job, and all an honest relay had.
ClaimsAreComplete ==
    Asked({"claims"}) =>
        /\ \A e \in read.answer : e.kind = "Claim" /\ e.job = read.q.job
        /\ \A f \in read.due : f \in read.answer \/ Crowded(f)

\* An inbox shows letters only, under the name of whoever wrote them to its
\* owner, whatever others wrap, seal, attribute or pass on; and every letter an
\* honest relay had and answered, unless wraps whose random times are no older
\* crowd it out.
InboxIsAuthentic ==
    Asked({"inbox"}) =>
        /\ \A e \in read.answer : \E p \in Pseudonyms : e.body = Letter(p, read.q.me)
        /\ \A f \in read.due, p \in Pseudonyms :
               f.body = Letter(p, read.q.me) => f \in read.answer \/ Crowded(f)
=============================================================================
