------------------------------- MODULE Catalog -------------------------------
(***************************************************************************)
(* From a release's manifest to the ownership lock.json records: what a    *)
(* manifest must satisfy (catalog/src/schema.ts), what its directory must  *)
(* hold (load-catalog.ts), which artifacts it yields (compile.ts, the      *)
(* OpenCode transformer and target), and how the identities of the         *)
(* resources - an id and a path each - pass from one release to the next   *)
(* (installer/src/index.ts, state-store.ts).                               *)
(*                                                                         *)
(* InstallPlanner decides about contents and takes a path for the whole    *)
(* identity of a resource; here contents are left out, and a release may   *)
(* give a path to another id, or an id another path.                       *)
(***************************************************************************)
EXTENDS Naturals, Sequences, FiniteSets

CONSTANTS
    Manifests,      \* the releases: a version, resources, and the tree beside them
    ProperPaths,    \* paths without "..", backslash, leading slash ...
    Bundled,        \* the paths under canonical/ and native/
    Versions,       \* what a manifest admits as a version
    LockWords,      \* what lock.json admits as an id or a version
    Scope,          \* "global" or "project"
    ConfigNames,    \* the paths of opencode.json and opencode.jsonc
    ConfigId        \* "opencode-config"

ASSUME CatalogAssumption ==
    /\ Scope \in {"global", "project"}
    /\ ConfigId \in LockWords /\ ConfigNames \subseteq ProperPaths

VARIABLES
    owned,          \* the resources of lock.json
    basis           \* history: the artifacts the last command trusted

catalogVars == <<owned, basis>>

-----------------------------------------------------------------------------
(* The manifest. *)

Kinds == {"agent", "skill", "command", "hook", "mcp", "configuration", "native"}

Components == {"configuration", "agents", "skills", "commands", "plugins"}

ValidEntry(entry) ==
    /\ entry.id \in LockWords
    /\ entry.version \in Versions
    /\ entry.kind \in Kinds /\ entry.component \in Components
    /\ entry.origin \in {"canonical", "native"}
    /\ entry.kind = "native" => entry.origin = "native"
    /\ entry.source \in ProperPaths
    /\ entry.outputs # <<>>
    /\ \A i \in DOMAIN entry.outputs : entry.outputs[i] \in ProperPaths

Entries(manifest) == {manifest.resources[i] : i \in DOMAIN manifest.resources}

\* No id and no destination twice, in one resource or in two.
ValidManifest(manifest) ==
    LET listed == manifest.resources
    IN  /\ manifest.version \in Versions
        /\ \A entry \in Entries(manifest) : ValidEntry(entry)
        /\ \A i, j \in DOMAIN listed :
            /\ listed[i].id = listed[j].id => i = j
            /\ \A a \in DOMAIN listed[i].outputs, b \in DOMAIN listed[j].outputs :
                listed[i].outputs[a] = listed[j].outputs[b] => i = j /\ a = b

\* Every leaf under the bundled directories is a plain file.
OnlyFiles(tree) == \A path \in DOMAIN tree \cap Bundled : tree[path] = "file"

\* The files are the declared ones, and the declared ones are files.
Loads(manifest) ==
    LET declared == {entry.source : entry \in Entries(manifest)}
    IN  /\ ValidManifest(manifest)
        /\ OnlyFiles(manifest.tree)
        /\ DOMAIN manifest.tree \cap Bundled \subseteq declared
        /\ \A path \in declared : path \in DOMAIN manifest.tree /\ manifest.tree[path] = "file"

-----------------------------------------------------------------------------
(* The artifacts. *)

\* The policy resource is merged into the configuration, not copied.
Transform(entry, selected) ==
    IF entry.component \notin selected \/ entry.kind = "configuration" THEN {}
    ELSE {[id |-> entry.id, version |-> entry.version, path |-> entry.outputs[i]] :
            i \in DOMAIN entry.outputs}

Compiled(manifest, selected) == UNION {Transform(entry, selected) : entry \in Entries(manifest)}

ConfigArtifact(manifest, name) == [id |-> ConfigId, version |-> manifest.version, path |-> name]

DesiredArtifacts(manifest, selected, name) ==
    Compiled(manifest, selected)
        \cup (IF selected \cap {"configuration", "plugins"} = {} THEN {}
              ELSE {ConfigArtifact(manifest, name)})

\* What a command means without --components: commands are in neither list.
WholeScope == {"configuration", "agents", "skills"} \cup (IF Scope = "project" THEN {} ELSE {"plugins"})

\* "Duplicate catalog resource", "Duplicate catalog destination".
Unambiguous(artifacts) ==
    \A a, b \in artifacts : a.id = b.id \/ a.path = b.path => a = b

-----------------------------------------------------------------------------
(* The lock. *)

WellFormedEntry(r) ==
    /\ r.id \in LockWords /\ r.version \in LockWords
    /\ r.path \in ProperPaths

\* Faulty: only what the lock says itself is checked.
NotCompared(lock, trusted) == TRUE

\* The identity the lock records is the catalog's, if the catalog has the id.
SameOwner(lock, trusted) == \A r \in lock, a \in trusted : r.id = a.id => r.path = a.path

LockReads(lock, trusted) ==
    /\ \A r \in lock : WellFormedEntry(r)
    /\ Unambiguous(lock)
    /\ SameOwner(lock, trusted)

PathsIn(artifacts) == {a.path : a \in artifacts}

\* A file stands at the path, and not as this resource: only a collision on a
\* path the lock does not list can be agreed to.
Blocked(a, present) ==
    /\ a.path \in present /\ a.path \notin ConfigNames
    /\ \E r \in owned : r.path = a.path /\ r.id # a.id

\* An unchanged resource keeps the entry it has.
EntriesFor(a) == {a} \cup {r \in owned : r.path = a.path /\ r.id = a.id}

\* install and update.  present: the paths where a file stands; preserved: the
\* person's own files that stay.
InstallRelease(manifest, selected, name, present, preserved) ==
    LET trusted  == DesiredArtifacts(manifest, WholeScope, name)
        desired  == DesiredArtifacts(manifest, selected, name)
        foreign  == PathsIn(desired) \ (PathsIn(owned) \cup ConfigNames)
        dropped  == PathsIn(owned) \ (PathsIn(trusted) \cup PathsIn(desired))
        recorded == {a \in desired : a.path \notin preserved}
    IN  /\ Loads(manifest)
        /\ Unambiguous(trusted)
        /\ LockReads(owned, trusted)
        /\ preserved \subseteq foreign \cap present
        /\ \A a \in desired : ~Blocked(a, present)
        /\ \E entry \in [recorded -> recorded \cup owned] :
            /\ \A a \in recorded : entry[a] \in EntriesFor(a)
            /\ owned' = {r \in owned : r.path \notin PathsIn(recorded) \cup dropped}
                            \cup {entry[a] : a \in recorded}
        /\ basis' = trusted

\* The lock stays, with no resource in it.
UninstallRelease(manifest, selected, name) ==
    LET trusted == DesiredArtifacts(manifest, selected, name)
    IN  /\ owned # {}
        /\ Loads(manifest)
        /\ LockReads(owned, trusted)
        /\ \A r \in owned : r.id = ConfigId => r.path = name
        /\ owned' = {}
        /\ basis' = trusted

CatalogInit == owned = {} /\ basis = {}

\* --components admits commands in both scopes, and plugins in the global one.
Selectable == SUBSET (WholeScope \cup {"commands"})

CatalogNext ==
    \E manifest \in Manifests, selected \in Selectable, name \in ConfigNames :
        \/ \E present, preserved \in SUBSET PathsIn(DesiredArtifacts(manifest, selected, name)) :
            InstallRelease(manifest, selected, name, present, preserved)
        \/ UninstallRelease(manifest, selected, name)

CatalogSpec == CatalogInit /\ [][CatalogNext]_catalogVars

-----------------------------------------------------------------------------
\* What the releases published so far satisfy, and nothing checks: a version the
\* lock admits (no capitals), and no commands.
AsPublished ==
    \A manifest \in Manifests :
        /\ manifest.version \in LockWords
        /\ \A entry \in Entries(manifest) : entry.version \in LockWords /\ entry.component # "commands"

(* Whatever releases were installed, narrowed, kept aside and removed, in   *)
(* any order, the next command of the same release can read the lock: no    *)
(* entry malformed, no id and no path owned twice, and no id at another     *)
(* path than its release gives it (readInstallLockSnapshot).                *)
OwnershipReadsBack == LockReads(owned, basis)
==============================================================================
