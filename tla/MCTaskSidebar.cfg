CONSTANTS
    Calls = {c1, c2, c3}
    Tasks = {t1, t2}
    NoTask = NoTask
    NoCall = NoCall
    Off = {2}
    MaxVersion = 2
    MaxRestarts = 1
SPECIFICATION Spec
SYMMETRY Symmetry
INVARIANTS
    MutationIsSeen
    BindingKept
    SettledIsCurrent
    NoCircularWait
    GateReadsFresh
CHECK_DEADLOCK FALSE
