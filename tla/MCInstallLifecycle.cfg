CONSTANTS
    agent = agent
    plugin = plugin
    mine = mine
    top = top
    sub = sub
    leaf = leaf
    other = other
    Config = config
    Paths = {agent, plugin}
    Component <- MCComponent
    Releases <- MCReleases
    Policy <- MCPolicy
    Plugins = {plugin}
    EmptyConfig <- MCEmptyConfig
    None = None
    Selections = {{"configuration", "agents", "skills", "plugins"}, {"agents"}}
    Mine = {mine}
    Found <- MCFound
    MaxEdits = 2
    Dirs = {top, sub, leaf, other}
    Above <- MCAbove
    Linked = {other}
    Overrides <- MCOverrides
    Global = Global
    Nowhere = Nowhere
    x = x
    y = y
    policy = policy
    stray = stray
    Manifests <- MCManifests
    ProperPaths = {x, y, policy, stray, "opencode.json", "opencode.jsonc"}
    Bundled = {x, y, policy, stray}
    Versions = {"1", "2"}
    LockWords = {"1", "2", "A", "B", "C", "opencode-config"}
    Scope = "global"
    ConfigNames = {"opencode.json", "opencode.jsonc"}
    ConfigId = "opencode-config"
    MaxSteps = 4
SPECIFICATION MCSpec
INVARIANTS
    LockKnowsTheFile
    RegisteredOnce
    OwnershipReadsBack
PROPERTIES
    EditsSurviveUpdates
    RegistrationsFollowFiles
    TasksStayFound
CHECK_DEADLOCK FALSE
