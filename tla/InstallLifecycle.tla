--------------------------- MODULE InstallLifecycle ---------------------------
(***************************************************************************)
(* The life of an installation: `skynex install`, `update` and `uninstall` *)
(* of changing releases, one after the other, on files that a person edits *)
(* and deletes in between (apps/cli/src/index.ts).                         *)
(*                                                                         *)
(* A command plans, asks, and carries its plan out in one step here: what  *)
(* happens between planning and committing, and during it, is the subject  *)
(* of InstallTransaction.  A dry run, a refusal and a cancelled prompt     *)
(* write nothing and are steps that change nothing.                        *)
(***************************************************************************)
EXTENDS InstallPlanner

CONSTANTS
    Selections,     \* the --components asked for
    Mine,           \* the contents a person writes
    Found,          \* the files there may be before the first command
    MaxEdits        \* bound on the person's edits

VARIABLES
    files,          \* the content at each path, or None
    lock,           \* lock.json, or None
    edits,
    last,           \* history: the last command, and the paths the person gave up in it
    touched         \* history: the paths a person changed since a command recorded them

vars == <<files, lock, edits, last, touched>>

AllPaths == Paths \cup {Config}

\* What releases ship, and what the configuration may be.
Upstream == UNION {{Releases[r][p] : p \in DOMAIN Releases[r]} : r \in DOMAIN Releases}

Configurations ==
    [registered : SUBSET Plugins,
     policy     : {0} \cup {Policy[r] : r \in DOMAIN Releases},
     own        : Mine \cup {EmptyConfig.own}]

Offered(p) == IF p = Config THEN Configurations ELSE Upstream

Contents(p) == Offered(p) \cup IF p = Config THEN {} ELSE Mine

LockEntries(p) == [source : Offered(p), installed : Contents(p), pending : Offered(p) \cup {None}]

\* What a person wrote is what no release ships.  Every release ships the
\* plugins that its configuration registers.
ASSUME LifecycleAssumption ==
    /\ None \notin Upstream \cup Mine \cup Configurations \cup KeptAside \cup {"accept-upstream"}
    /\ Upstream \cap Mine = {}
    /\ \A p \in AllPaths : None \notin LockEntries(p)
    /\ EmptyConfig \in Configurations /\ EmptyConfig.registered = {}
    /\ \A p \in Plugins : Component[p] = "plugins"
    /\ \A r \in DOMAIN Releases : Plugins \subseteq DOMAIN Releases[r]
    /\ \A found \in Found : /\ DOMAIN found = AllPaths /\ found = [p \in AllPaths |-> found[p]]
                            /\ \A p \in AllPaths : found[p] \in Contents(p) \cup {None}

Init ==
    /\ files \in Found
    /\ lock = None
    /\ edits = 0
    /\ last = [command |-> "none", given |-> {}]
    /\ touched = {}

-----------------------------------------------------------------------------
\* The lock names a newer release than this CLI is of.
TooOld(r) == lock # None /\ lock.version > r

NewLock(r, components, resources) ==
    [version |-> r, components |-> components, resources |-> resources]

CarryOut(command, plan, update, r, components, given) ==
    /\ ~Refuses(plan, lock, update)
    /\ files' = FilesAfter(plan, files)
    /\ lock' = NewLock(r, components, ResourcesAfter(plan, lock))
    /\ last' = [command |-> command, given |-> given]
    /\ touched' = touched \ DOMAIN plan
    /\ UNCHANGED edits

\* --yes brings executable code only with --allow-executable-plugins.
BringsCode(plan) ==
    \E p \in DOMAIN plan : ComponentOf(p) = "plugins" /\ plan[p].kind # "unchanged"

\* Without questions: no collision, and code only where it is allowed.
InstallYes(r, components, allowed) ==
    LET plan == CreatePlan(r, components, files, lock)
    IN  /\ ~TooOld(r)
        /\ OfKind(plan, "conflict") = {}
        /\ BringsCode(plan) => allowed
        /\ CarryOut("install", plan, FALSE, r, components, {})

InstallAsking(r, components) ==
    LET plan == CreatePlan(r, components, files, lock)
    IN  /\ ~TooOld(r)
        /\ \E overwritten \in SUBSET OfKind(plan, "conflict") :
              CarryOut("install", Resolved(plan, overwritten), FALSE, r, components, overwritten)

-----------------------------------------------------------------------------
Unasked == [p \in AllPaths |-> None]

\* An update is of what was installed last, unless --components says otherwise.
UpdateYes(r, components, allowed) ==
    LET base == CreatePlan(r, components, files, lock)
        plan == PreparedForUpdate(base, lock, Unasked)
    IN  /\ lock # None /\ ~TooOld(r)
        /\ OfKind(base, "conflict") = {}
        /\ ~MissingResource(base, lock)
        /\ OfKind(plan, "conflict") = {}
        /\ BringsCode(plan) => allowed
        /\ CarryOut("update", plan, TRUE, r, components, {})

Reviewable(plan) ==
    OfKind(plan, "conflict")
        \cup {p \in OfKind(plan, "replace") :
                plan[p].previous # None /\ ComponentOf(p) \in {"agents", "skills"}}

\* Once a question is asked, what is not asked about is kept as it is.
Answered(answers) ==
    [p \in AllPaths |->
        IF answers = <<>> THEN None
        ELSE IF p \in DOMAIN answers THEN answers[p] ELSE "keep-local"]

UpdateAsking(r, components) ==
    LET base == CreatePlan(r, components, files, lock)
    IN  /\ lock # None /\ ~TooOld(r)
        /\ ~MissingResource(base, lock)
        /\ \E overwritten \in SUBSET OfKind(base, "conflict") :
              LET resolved == Resolved(base, overwritten)
                  asked    == Reviewable(PreparedForUpdate(resolved, lock, Unasked))
              IN  \E answers \in [asked -> {"keep-local", "skip", "accept-upstream"}] :
                    CarryOut("update", PreparedForUpdate(resolved, lock, Answered(answers)), TRUE, r, components,
                             overwritten \cup {p \in asked : answers[p] = "accept-upstream"})

-----------------------------------------------------------------------------
\* The descriptor of the configuration is there when the lock lists it.
OwnsConfig == Config \in DOMAIN lock.resources

\* The transaction compares every file with what the lock says was installed.
UninstallRefuses ==
    \/ lock = None
    \/ \E p \in DOMAIN lock.resources :
        IF p = Config THEN files[p] = None ELSE files[p] # lock.resources[p].installed

Uninstall(r) ==
    /\ ~UninstallRefuses
    /\ files' = [p \in AllPaths |->
                    IF p \notin DOMAIN lock.resources THEN files[p]
                    ELSE IF p = Config THEN Unmerged(files[p], r, lock.components)
                    ELSE None]
    /\ lock' = [lock EXCEPT !.resources = <<>>]
    /\ last' = [command |-> "uninstall", given |-> {}]
    /\ touched' = touched \ DOMAIN lock.resources
    /\ UNCHANGED edits

-----------------------------------------------------------------------------
\* A person changes or deletes a file, the configuration by its own part.
Edit(p, content) ==
    /\ edits < MaxEdits
    /\ content # files[p]
    /\ files' = [files EXCEPT ![p] = content]
    /\ edits' = edits + 1
    /\ last' = [command |-> "person", given |-> {p}]
    /\ touched' = touched \cup {p}
    /\ UNCHANGED lock

\* Their own content, or that of a release once more.
Written(p) ==
    {None} \cup IF p # Config THEN Mine \cup {Releases[r][p] : r \in {q \in DOMAIN Releases : p \in DOMAIN Releases[q]}}
                ELSE IF files[p] = None THEN {}
                ELSE {[files[p] EXCEPT !.own = own] : own \in Mine}

Next ==
    \/ \E r \in DOMAIN Releases :
        \/ \E components \in Selections :
            \/ \E allowed \in BOOLEAN : InstallYes(r, components, allowed)
            \/ InstallAsking(r, components)
        \/ lock # None /\ \E components \in Selections \cup {lock.components} :
            \/ \E allowed \in BOOLEAN : UpdateYes(r, components, allowed)
            \/ UpdateAsking(r, components)
        \/ Uninstall(r)
    \/ \E p \in AllPaths : \E content \in Written(p) : Edit(p, content)

Spec == Init /\ [][Next]_vars

-----------------------------------------------------------------------------
IsMine(p, content) == p # Config /\ content \in Mine

(* Neither an install nor an update takes away what a person wrote into a  *)
(* resource the release ships, whatever was kept, skipped, installed again *)
(* or left out in between, unless this person gives it up in this command. *)
EditsSurviveUpdates ==
    [][last'.command \in {"install", "update"} =>
        \A p \in Paths :
            (IsMine(p, files[p]) /\ files'[p] # files[p]) =>
                \/ p \in last'.given
                \/ p \notin DOMAIN Releases[lock'.version]]_vars

(* Nor does anything else, an uninstall included.                          *)
EditsSurvive ==
    [][last'.command # "person" =>
        \A p \in Paths : (IsMine(p, files[p]) /\ files'[p] # files[p]) => p \in last'.given]_vars

(* The lock says of every file what a command last saw or left there: a    *)
(* file differs from it only if a person changed it since.  Excepted is an *)
(* update put off while the file was what its release had shipped: its     *)
(* entry keeps the digest of an edit taken back before (index.ts:150), and *)
(* the file is still what was shipped.                                     *)
LockKnowsTheFile ==
    \A p \in DOMAIN Resources(lock) \ touched :
        \/ files[p] = lock.resources[p].installed
        \/ files[p] = lock.resources[p].source /\ lock.resources[p].pending # None

\* The last command took fewer components than the lock still lists.
Narrowed == lock # None /\ \E p \in DOMAIN lock.resources : ComponentOf(p) \notin lock.components

Dangling(content) ==
    IF content[Config] = None THEN {}
    ELSE {p \in content[Config].registered : content[p] = None}

(* No command leaves a plugin registered whose file is not there, unless   *)
(* the lock's components no longer cover its resources.                    *)
RegistrationsFollowFiles ==
    [][(last'.command # "person" /\ ~Narrowed) => Dangling(files') \subseteq Dangling(files)]_vars
===============================================================================
