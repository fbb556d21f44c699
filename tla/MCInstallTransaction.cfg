CONSTANTS
    config = config
    plugin = plugin
    agent = agent
    base = base
    full = full
    v1 = v1
    v2 = v2
    Procs = {t1, t2}
    Paths = {config, plugin, agent}
    Config = config
    Contents = {base, full, v1, v2}
    Registers <- MCRegisters
    UserContents = {base}
    Unregistered <- MCUnregistered
    Releases <- Lifecycle
    None = None
    Uncaptured = Uncaptured
    MaxEdits = 1
SPECIFICATION Spec
INVARIANTS
    Recoverable
    RegisteredFilesExist
PROPERTIES
    AllOrNothing
    StalePlansStop
    CommitIsFenced
SYMMETRY Symmetry
CHECK_DEADLOCK FALSE
