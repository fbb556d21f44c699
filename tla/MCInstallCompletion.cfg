CONSTANTS
    config = config
    plugin = plugin
    agent = agent
    base = base
    full = full
    v1 = v1
    v2 = v2
    Procs = {t1}
    Paths = {config, plugin}
    Config = config
    Contents = {base, full, v1, v2}
    Registers <- MCRegisters
    UserContents = {base}
    Unregistered <- MCUnregistered
    Releases <- OneRelease
    None = None
    Uncaptured = Uncaptured
    MaxEdits = 0
SPECIFICATION Spec
INVARIANTS
    CompletionIsFinal
CHECK_DEADLOCK FALSE
