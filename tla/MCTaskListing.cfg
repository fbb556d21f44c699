CONSTANTS
    plan = plan
    plan2 = plan2
    old = old
    Procs = {p1, p2}
    Slugs = {plan, plan2}
    Ids = {plan, plan2}
    Candidates <- MCCandidates
    NumFiles = 2
    None = None
    Foreign <- MCForeign
    MaxSaves = 2
SPECIFICATION ListingSpec
INVARIANTS
    PublishedWhole
    AnswersAreOwn
    ListingIsFaithful
PROPERTIES
    CreationEnds
