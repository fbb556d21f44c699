------------------------------- MODULE Places -------------------------------
(***************************************************************************)
(* Where a command of skynex works.  `skynex task` looks upwards from the  *)
(* working directory for a project root and keeps the tasks under it;      *)
(* `install`, `update` and `uninstall` choose an installation, global or   *)
(* of a project, and one of the two names the OpenCode configuration may   *)
(* have.  The two meet in .skynex: a project's lock lives there, and its   *)
(* presence is what makes a directory a project root.                      *)
(*                                                                         *)
(* What a command does at its place is the subject of the other modules;   *)
(* here it succeeds whole or changes nothing.                              *)
(***************************************************************************)
EXTENDS Naturals, FiniteSets

CONSTANTS
    Dirs,           \* the directories there are
    Above,          \* Above[d]: d and the directories over it
    Linked,         \* directories whose .skynex is a symbolic link
    Overrides,      \* the paths given to --tasks-root
    Global,         \* the place of the global installation
    Nowhere,        \* no directory, no option, no file, no lock
    MaxSteps        \* bound on the commands and edits

PathAssumption ==
    \A d \in Dirs :
        /\ d \in Above[d] /\ Above[d] \subseteq Dirs
        /\ \A over \in Above[d] : Above[over] \subseteq Above[d]
        /\ \A over \in Above[d] : d \in Above[over] => over = d
        /\ \A S \in SUBSET Above[d] : S # {} => \E lowest \in S : S \subseteq Above[lowest]

Formats == {"json", "jsonc"}

Sites == Dirs \cup {Global}

\* `real`: where the path leads; `own`: it is the .skynex/tasks there;
\* `direct`: no component of it is a link.
OverridePaths == [real : Dirs \cup {Nowhere}, own : BOOLEAN, direct : BOOLEAN]

\* What a lock says of the configuration.
SiteLocks == [config : Formats \cup {Nowhere}, whole : BOOLEAN]

ASSUME PlacesAssumption ==
    /\ PathAssumption
    /\ Linked \subseteq Dirs
    /\ Overrides \subseteq OverridePaths
    /\ Global \notin Dirs
    /\ Nowhere \notin Sites \cup Formats \cup SiteLocks \cup Overrides

VARIABLES
    git,            \* directories with a .git
    skynex,         \* directories with a .skynex
    roots,          \* tasks roots that hold tasks
    locks,          \* lock.json of each installation, or Nowhere
    configs,        \* the configurations that exist at each site
    parts,          \* those of them that hold Skynex's part
    stranded,       \* history: sites uninstalled without their configuration
    named,          \* history: the directory the last step was told to make its own
    steps

placesVars == <<git, skynex, roots, locks, configs, parts, stranded, named, steps>>

PlacesInit ==
    /\ git = {} /\ skynex = Linked /\ roots = {}
    /\ locks = [s \in Sites |-> Nowhere]
    /\ configs = [s \in Sites |-> {}]
    /\ parts = [s \in Sites |-> {}]
    /\ stranded = {} /\ named = Nowhere /\ steps = 0

Step(name) == steps < MaxSteps /\ steps' = steps + 1 /\ named' = name

-----------------------------------------------------------------------------
(* The tasks root. *)

Markers == git \cup skynex

Lowest(S) == CHOOSE d \in S : S \subseteq Above[d]

\* Faulty: the outermost project wins.
OutermostRoot(cwd) ==
    LET marked == Markers \cap Above[cwd]
    IN  IF marked = {} THEN cwd ELSE CHOOSE d \in marked : \A other \in marked : d \in Above[other]

ResolveProjectRoot(cwd) ==
    LET marked == Markers \cap Above[cwd]
    IN  IF marked = {} THEN cwd ELSE Lowest(marked)

\* `own` tells the .skynex/tasks of a directory from any other directory in it.
OwnRoot(d) == [dir |-> d, own |-> TRUE]

\* An override must really lie in the project, whatever links lead to it.
Contained(override, cwd) ==
    override.real \in Dirs /\ ResolveProjectRoot(cwd) \in Above[override.real]

ResolveTasksRoot(override, cwd) ==
    IF override = Nowhere THEN OwnRoot(ResolveProjectRoot(cwd))
    ELSE [dir |-> override.real, own |-> override.own]

\* No component of a root may be a link.
SafeRoot(override, root) ==
    /\ override # Nowhere => override.direct
    /\ root.own => root.dir \notin Linked

\* What a command without --tasks-root finds.
FoundFrom(cwd) == OwnRoot(ResolveProjectRoot(cwd))

\* `skynex task init`: the root is created with its parents.
TaskInit(cwd, override) ==
    LET root == ResolveTasksRoot(override, cwd)
    IN  /\ override # Nowhere => Contained(override, cwd)
        /\ SafeRoot(override, root)
        /\ Step(IF override # Nowhere /\ root.own THEN root.dir ELSE Nowhere)
        /\ roots' = roots \cup {root}
        /\ skynex' = IF root.own THEN skynex \cup {root.dir} ELSE skynex
        /\ UNCHANGED <<git, locks, configs, parts, stranded>>

-----------------------------------------------------------------------------
(* The installation. *)

Installed(site) == locks[site] # Nowhere

\* The sites the command may turn to; more than one when it asks.
Chosen(command, where, yes, cwd) ==
    IF where # Nowhere THEN {where}
    ELSE IF command = "update" /\ Installed(Global) # Installed(cwd)
         THEN {site \in {Global, cwd} : Installed(site)}
    ELSE IF yes THEN {Global} ELSE {Global, cwd}

\* The configuration the lock lists; an install does not look there.
LockConfig(command, site) ==
    IF command = "install" \/ ~Installed(site) THEN Nowhere ELSE locks[site].config

Preferred(command, site, asked, yes) ==
    LET listed == LockConfig(command, site)
    IN  IF listed # Nowhere THEN {listed} \cap (IF asked = Nowhere THEN Formats ELSE {asked})
        ELSE IF asked # Nowhere THEN {asked}
        ELSE IF configs[site] = Formats THEN IF yes THEN {} ELSE Formats
        ELSE IF configs[site] # {} THEN configs[site] ELSE {"jsonc"}

\* Faulty: the lock is read without the catalog.
AnyIdentity(site, format) == TRUE

\* readInstallLock: what the lock calls opencode-config is at the path wanted now.
SameIdentity(site, format) == Installed(site) => locks[site].config \in {Nowhere, format}

\* The configuration was installed, and is gone or lost Skynex's part since.
Meddled(site, format) ==
    Installed(site) /\ locks[site].config = format /\ format \notin parts[site]

\* Only a person who is asked brings the part back, and only where the file is.
PartRefused(command, site, format, yes) ==
    /\ Meddled(site, format)
    /\ command = "install" \/ yes \/ format \notin configs[site]

Lock(site, format, whole) ==
    [config |-> IF whole THEN format ELSE IF Installed(site) THEN locks[site].config ELSE Nowhere,
     whole  |-> whole]

\* No component of the target or of the state directory may be a link.
SafeSite(site) == site \notin Linked

\* install and update.  `whole`: every component, or the agents alone.
Bring(command, site, format, whole, yes) ==
    /\ SafeSite(site)
    /\ command = "update" => Installed(site)
    /\ SameIdentity(site, format)
    /\ whole => ~PartRefused(command, site, format, yes)
    /\ Step(IF site = Global THEN Nowhere ELSE site)
    /\ locks' = [locks EXCEPT ![site] = Lock(site, format, whole)]
    /\ configs' = [configs EXCEPT ![site] = IF whole THEN @ \cup {format} ELSE @]
    /\ parts' = [parts EXCEPT ![site] = IF whole THEN @ \cup {format} ELSE @]
    /\ skynex' = skynex \cup ({site} \cap Dirs)
    /\ UNCHANGED <<git, roots, stranded>>

\* The part goes as far as the lock's components say it is Skynex's.
UninstallAt(site) ==
    LET listed == locks[site].config
    IN  /\ Installed(site)
        /\ listed # Nowhere /\ listed \in configs[site]
        /\ Step(Nowhere)
        /\ locks' = [locks EXCEPT ![site].config = Nowhere]
        /\ parts' = [parts EXCEPT ![site] = IF locks[site].whole THEN @ \ {listed} ELSE @]
        /\ stranded' = IF locks[site].whole THEN stranded ELSE stranded \cup {site}
        /\ UNCHANGED <<git, skynex, roots, configs>>

RunInstaller(cwd, where, asked, yes) ==
    \/ \E command \in {"install", "update"}, whole \in BOOLEAN :
        \E site \in Chosen(command, where, yes, cwd) :
            \E format \in Preferred(command, site, asked, yes) :
                Bring(command, site, format, whole, yes)
    \/ \E site \in Chosen("uninstall", where, yes, cwd) :
        /\ Preferred("uninstall", site, asked, yes) # {}
        /\ UninstallAt(site)

-----------------------------------------------------------------------------
(* A person. *)

GitInit(d) ==
    /\ d \notin git
    /\ Step(d)
    /\ git' = git \cup {d}
    /\ UNCHANGED <<skynex, roots, locks, configs, parts, stranded>>

WriteConfig(site, format) ==
    /\ format \notin configs[site]
    /\ Step(Nowhere)
    /\ configs' = [configs EXCEPT ![site] = @ \cup {format}]
    /\ UNCHANGED <<git, skynex, roots, locks, parts, stranded>>

DeleteConfig(site, format) ==
    /\ format \in configs[site]
    /\ Step(Nowhere)
    /\ configs' = [configs EXCEPT ![site] = @ \ {format}]
    /\ parts' = [parts EXCEPT ![site] = @ \ {format}]
    /\ UNCHANGED <<git, skynex, roots, locks, stranded>>

PlacesNext ==
    \/ \E cwd \in Dirs, override \in Overrides \cup {Nowhere} : TaskInit(cwd, override)
    \/ \E cwd \in Dirs, where \in Sites \cup {Nowhere}, asked \in Formats \cup {Nowhere}, yes \in BOOLEAN :
          RunInstaller(cwd, where, asked, yes)
    \/ \E d \in Dirs : GitInit(d)
    \/ \E site \in Sites, format \in Formats : WriteConfig(site, format) \/ DeleteConfig(site, format)

PlacesSpec == PlacesInit /\ [][PlacesNext]_placesVars

-----------------------------------------------------------------------------
\* Tasks stay where they were found: no command in any other directory, inside
\* or outside a project, changes where a directory looks for its tasks once it
\* finds some there.  Only a directory a person names does, to those under it:
\* by `git init`, a project installation, or a --tasks-root that is the
\* .skynex/tasks of that directory.
TasksStayFound ==
    [][\A d \in Dirs :
          FoundFrom(d) \in roots => \/ FoundFrom(d)' = FoundFrom(d)
                                \/ named' \in Above[d]]_placesVars

\* One configuration at a site holds Skynex's part, whatever commands, options
\* and answers brought it there and whatever the person added and deleted.  A
\* site uninstalled after `install --components agents` is excepted: the lock no
\* longer says that the part is Skynex's, and it stays.
RegisteredOnce == \A site \in Sites \ stranded : Cardinality(parts[site]) <= 1
===============================================================================
