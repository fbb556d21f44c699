CONSTANTS
    Procs = {p1, p2}
    MaxSteps = 2
    Bodies = {b1, b2}
    Drafts <- MCDrafts
    Reasons = {r1}
    NoReason = NoReason
    Checkpoints = {}
    NoCheckpoint = NoCheckpoint
    Revisions = {1}
    NoFile = NoFile
    NoWork = NoWork
    MaxRevision = 3
SPECIFICATION Spec
INVARIANTS
    NoDanglingInstruction
    ReaderSeesItsStep
PROPERTIES
    CallerFence
    ImplementsAtomic
SYMMETRY Symmetry
CHECK_DEADLOCK FALSE
