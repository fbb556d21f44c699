CONSTANTS
    Sessions = {s1, s2}
    NoSession = NoSession
    MaxToken = 6
    key = key
    q1 = q1
    q2 = q2
    high = high
    Settings <- MCSettings
    Keys = {key, blank}
    Blank = blank
    Questions = {q1, q2}
    Options <- MCOptions
    NoneApplies = none_of_the_above
    Bodies <- MCBodies
    MaxBytes = 1
    Nothing = Nothing
SPECIFICATION Spec
INVARIANTS
    ShowsThisSession
    VerdictIsTheProviders
PROPERTIES
    RequestIsBounded
CHECK_DEADLOCK FALSE
