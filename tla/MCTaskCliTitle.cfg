CONSTANTS
    MaxSteps = 3
    Bodies <- MCBodies
    Drafts <- MCDrafts
    Reasons <- MCTexts
    NoReason = NoReason
    Checkpoints <- MCCheckpoints
    NoCheckpoint = NoCheckpoint
    Revisions = {2, 3}
    MaxRevision = 4
    MaxBlockers = 2
    MaxTitle = 3
    MaxText = 4
    MaxRefs = 1
    UnknownFlags = {"--bogus"}
    Lines <- MCPaddedLines
    TaskHere = "t"
    MalformedIds = {"-h"}
    Unsluggable = {"???"}
    StepNamed <- MCStepNamed
    NumberNamed <- MCNumberNamed
    PairNamed <- MCPairNamed
    CheckpointNamed <- MCCheckpointNamed
    FileNamed <- MCFileNamed
    TextOf <- MCTextOf
SPECIFICATION CliSpec
INVARIANT SavedTaskOpens
CHECK_DEADLOCK FALSE
