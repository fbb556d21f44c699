CONSTANTS
    thalam = thalam
    scout = scout
    researcher = researcher
    legacy = legacy
    helper = helper
    m1 = m1
    m2 = m2
    daily = daily
    Approved = {thalam, scout, researcher}
    Thalam = thalam
    Scout = scout
    Researcher = researcher
    Legacy = legacy
    Models = {m1, m2}
    Names = {daily}
    MaxProfiles = 1
    OldProfiles <- MCOldProfiles
    Editors = {e1}
    Assignments <- MCAssignments
    None = None
    Services = {s1, s2}
    Configs <- MCConfigs
    Saved <- MCSaved
    Broken = Broken
    Unset = Unset
    NotAnObject = NotAnObject
    Unmanaged = {helper}
    Contents <- MCContents
    Bare = "bare"
    Notes <- MCContents
    NoNotes = "bare"
    Lifetime = 0
    MaxTime = 1
    MaxEdits = 1
    MaxTokens = 2
SPECIFICATION ApplySpec
INVARIANTS
    OutcomeIsTrue
    PreviewForesees
PROPERTIES
    AppliedAsConfirmed
    NothingLost
    ChangesAsShown
SYMMETRY ServiceSymmetry
