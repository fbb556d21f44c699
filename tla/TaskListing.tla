----------------------------- MODULE TaskListing -----------------------------
(***************************************************************************)
(* `skynex task list` and the sidebar's board: a walk over the tasks root  *)
(* while other processes create tasks (TaskCreation) and save them.        *)
(*                                                                         *)
(* A save replaces task.json by a rename, so an opened file never changes  *)
(* under its reader; but the walk looks at a path before it opens it, and  *)
(* refuses the file when a rename came in between.  The number of saves a  *)
(* task has seen stands for its revision and for the inode of task.json.   *)
(***************************************************************************)
EXTENDS TaskCreation, FiniteSets

CONSTANTS
    Foreign,        \* Foreign[n]: what else stands in the tasks root under the name n
    MaxSaves        \* bound on the saves of one task

\* A directory holds finitely many names, and the slugs of at most 80 characters are finitely many.
ASSUME ListingAssumption ==
    /\ DOMAIN Foreign \cap Ids = {}
    /\ IsFiniteSet(Ids) /\ IsFiniteSet(DOMAIN Foreign)
    /\ None \notin Nat
    /\ MaxSaves \in Nat

VARIABLES
    saves,          \* how often each task was saved
    since,          \* the saves of each task when the walk began, or None where there was none
    todo,           \* names of the directory listing not looked at yet
    looked,         \* the task whose file was inspected and is about to be opened, or None
    inode,          \* what the inspection found
    listed          \* the entries of the walk so far

listVars == <<saves, since, todo, looked, inode, listed>>
allVars  == <<vars, listVars>>

Published(id) == root[id] # None

\* What a name that is no task of this program is listed as.
ForeignFormat(name) == IF Foreign[name] = "status.json only" THEN "legacy" ELSE "unknown"

\* A task is listed with its revision, which fixes everything else in the entry.
Summary(id) == [name |-> id, format |-> "task", revision |-> saves[id]]

UnknownEntry(name, format) == [name |-> name, format |-> format, revision |-> 0]

ListingInit ==
    /\ Init
    /\ saves = [id \in Ids |-> 0]
    /\ since = [id \in Ids |-> None]
    /\ todo = {}
    /\ looked = None
    /\ inode = 0
    /\ listed = {}

-----------------------------------------------------------------------------
\* Some command saves a published task.
Save(id) ==
    /\ Published(id)
    /\ saves[id] < MaxSaves
    /\ saves' = [saves EXCEPT ![id] = @ + 1]
    /\ UNCHANGED <<vars, since, todo, looked, inode, listed>>

\* readdir: the names of one moment.
StartWalk ==
    /\ todo = {} /\ looked = None
    /\ todo' = {id \in Ids : Published(id)} \cup DOMAIN Foreign
    /\ since' = [id \in Ids |-> IF Published(id) THEN saves[id] ELSE None]
    /\ listed' = {}
    /\ UNCHANGED <<vars, saves, looked, inode>>

\* A name with no readable task.json is listed for what it is.
ListForeign(name) ==
    /\ looked = None
    /\ name \in todo \cap DOMAIN Foreign
    /\ todo' = todo \ {name}
    /\ listed' = listed \cup {UnknownEntry(name, ForeignFormat(name))}
    /\ UNCHANGED <<vars, saves, since, looked, inode>>

\* lstat and realpath of task.json.
Inspect(id) ==
    /\ looked = None
    /\ id \in todo \cap Ids
    /\ todo' = todo \ {id}
    /\ looked' = id
    /\ inode' = saves[id]
    /\ UNCHANGED <<vars, saves, since, listed>>

\* The opened file is the inspected one: its content is this revision.
OpenInspected ==
    /\ looked # None
    /\ saves[looked] = inode
    /\ listed' = listed \cup {Summary(looked)}
    /\ looked' = None
    /\ UNCHANGED <<vars, saves, since, todo, inode>>

\* Faulty: the walk ends with the first file it cannot read.
StopWalk ==
    /\ looked # None
    /\ saves[looked] # inode
    /\ looked' = None
    /\ todo' = {}
    /\ UNCHANGED <<vars, saves, since, inode, listed>>

\* "File changed while opening": the entry is unreadable, the walk goes on.
OpenReplaced ==
    /\ looked # None
    /\ saves[looked] # inode
    /\ listed' = listed \cup {UnknownEntry(looked, "unknown")}
    /\ looked' = None
    /\ UNCHANGED <<vars, saves, since, todo, inode>>

Walk == \/ StartWalk
        \/ \E name \in DOMAIN Foreign : ListForeign(name)
        \/ \E id \in Ids : Inspect(id)
        \/ OpenInspected
        \/ OpenReplaced

ListingNext == \/ Next /\ UNCHANGED listVars
               \/ \E id \in Ids : Save(id)
               \/ Walk

ListingSpec == ListingInit /\ [][ListingNext]_allVars /\ \A p \in Procs : WF_vars(Proceed(p))

-----------------------------------------------------------------------------
IsTaskSummary(entry) == entry.format = "task"

\* createTaskBoardView: the tasks, and how many entries are none.
Board(entries) ==
    LET tasks == {e \in entries : IsTaskSummary(e)}
    IN  [tasks |-> tasks, omitted |-> Cardinality(entries) - Cardinality(tasks)]

\* A listing loses nothing and invents nothing, though it belongs to no single
\* moment: every task that was there when the walk began is on the board, unless a
\* save crossed its reading; the revision it shows was current at some moment of
\* the walk; no foreign directory shows as a task; and what the board leaves out is
\* what is no task and what a save crossed.
ListingIsFaithful ==
    LET board == Board(listed)
        shown == {e.name : e \in board.tasks}
    IN  /\ \A e \in board.tasks :
               /\ e.name \in Ids
               /\ since[e.name] # None
               /\ e.revision \in since[e.name]..saves[e.name]
        /\ todo = {} /\ looked = None /\ listed # {} =>
               /\ \A id \in Ids \ shown : since[id] # None => saves[id] > since[id]
               /\ board.omitted = Cardinality(DOMAIN Foreign)
                                     + Cardinality({id \in Ids \ shown : since[id] # None})
=============================================================================
