SPECIFICATION Spec
CONSTANTS
    buyer = buyer
    maker = maker
    honest = honest
    other = other
    job1 = job1
    terms1 = terms1
    terms2 = terms2
    europe = europe
    asia = asia
    Pseudonyms = {buyer, maker}
    JobIds = {job1}
    Terms = {terms1, terms2}
    Regions = {europe, asia}
    NoRegion = NoRegion
    Garbage = Garbage
    Relays <- InOrder
    Honest = {honest}
    Kinds = {"Job", "Offer", "Claim", "Accept", "Wrap"}
    Limit = 1
    MaxTime = 1
    MaxEvents = 2
SYMMETRY Symmetry
INVARIANTS
    TypeOK
    ListsAreRegular
    VerifiedPostingStands
    AwardIsTheBuyersLast
    ClaimsAreComplete
    InboxIsAuthentic
