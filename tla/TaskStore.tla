------------------------------- MODULE TaskStore -------------------------------
(***************************************************************************)
(* One task directory shared by concurrent CLI processes.  A command reads *)
(* task.json, computes the next document, and saves it: it creates         *)
(* .task.lock with O_EXCL, reads task.json again, compares revisions,      *)
(* writes the new step's instruction document, renames the new task.json   *)
(* over the old one, and removes the lock.  Nothing waits: a command that  *)
(* finds the lock taken, or the revision moved, fails.                     *)
(*                                                                         *)
(* A process may die between any two of these steps and leaves its lock    *)
(* behind; a person removes it, as the LOCKED message asks, only once no   *)
(* other process is writing.  A read or a write may fail and is reported.  *)
(* atomicWrite publishes by rename, so a file is seen whole or not at all; *)
(* its temporary siblings are never read and are left out.                 *)
(***************************************************************************)
EXTENDS TaskDomain

CONSTANTS
    Procs,          \* CLI processes
    NoFile,         \* a path with no file
    NoWork,         \* a process with no command
    MaxRevision     \* bound on the revisions explored

ASSUME StoreAssumption ==
    /\ NoFile \notin Bodies
    /\ MaxRevision \in Nat

VARIABLES
    index,          \* task.json
    instructions,   \* instructions/step-NNN.md: the body each was rendered from
    lock,           \* whether .task.lock exists
    pc,             \* where each process is
    work            \* the command each process carries out

vars == <<index, instructions, lock, pc, work>>

ReadRequest == [op : {"read"}, step : StepIds]

\* `base` is the document the command read, `next` the one it wants to save,
\* `ok` whether it has been saved.
SaveWork == [request : Request, base : Task, next : Task, ok : BOOLEAN]
ReadWork == [request : ReadRequest, base : Task]

\* The processes between open(lock, "wx") and rm(lock).
Writing == {p \in Procs : pc[p] \in {"compare", "document", "index", "unlock"}}

Init ==
    /\ \E drafts \in UNION {[1..n -> Drafts] : n \in 0..MaxSteps}, mode \in ReviewMode :
          /\ CreatableDrafts(drafts)
          /\ index = CreatedTask(drafts, mode)
          /\ instructions = [s \in StepIds |->
                                IF s \in DOMAIN drafts THEN drafts[s].body ELSE NoFile]
    /\ lock = FALSE
    /\ pc = [p \in Procs |-> "idle"]
    /\ work = [p \in Procs |-> NoWork]

Goto(p, where) == pc' = [pc EXCEPT ![p] = where]

\* The command answers, or dies; the process is free for another one.
Quit(p) == Goto(p, "idle") /\ work' = [work EXCEPT ![p] = NoWork]

-----------------------------------------------------------------------------
(* A command that changes the task. *)

\* store.read, the service's checks, and the document to save.  A command that
\* is rejected or finds nothing to change ends here and leaves no trace.
Load(p) ==
    /\ pc[p] = "idle"
    /\ index.revision < MaxRevision
    /\ StructureParses(index)
    /\ \E r \in Request :
          /\ Accepts(index, r)
          /\ work' = [work EXCEPT ![p] = [request |-> r, base |-> index,
                                          next |-> Result(index, r), ok |-> FALSE]]
    /\ Goto(p, "lock")
    /\ UNCHANGED <<index, instructions, lock>>

Acquire(p) ==
    /\ pc[p] = "lock"
    /\ ~ lock
    /\ lock' = TRUE
    /\ Goto(p, "compare")
    /\ UNCHANGED <<index, instructions, work>>

\* EEXIST: the command fails with LOCKED.
FindLocked(p) ==
    /\ pc[p] = "lock"
    /\ lock
    /\ Quit(p)
    /\ UNCHANGED <<index, instructions, lock>>

\* Faulty: the revision compared with itself.
CompareNothing(p) ==
    /\ pc[p] = "compare"
    /\ Goto(p, IF work[p].request.op = "add" THEN "document" ELSE "index")
    /\ UNCHANGED <<index, instructions, lock, work>>

\* Faulty: the index is published without the new document.
CompareSkippingDocument(p) ==
    /\ pc[p] = "compare"
    /\ Goto(p, IF index.revision # work[p].base.revision THEN "unlock" ELSE "index")
    /\ UNCHANGED <<index, instructions, lock, work>>

\* The second read, under the lock.
Compare(p) ==
    /\ pc[p] = "compare"
    /\ Goto(p, IF index.revision # work[p].base.revision THEN "unlock"
               ELSE IF work[p].request.op = "add" THEN "document"
               ELSE "index")
    /\ UNCHANGED <<index, instructions, lock, work>>

WriteDocument(p) ==
    /\ pc[p] = "document"
    /\ instructions' = [instructions EXCEPT ![NewStepId(work[p].base)] = work[p].request.draft.body]
    /\ Goto(p, "index")
    /\ UNCHANGED <<index, lock, work>>

WriteIndex(p) ==
    /\ pc[p] = "index"
    /\ index' = work[p].next
    /\ work' = [work EXCEPT ![p].ok = TRUE]
    /\ Goto(p, "unlock")
    /\ UNCHANGED <<instructions, lock>>

\* A read, a size check or a write under the lock fails; what was being
\* written is not published.
FailSave(p) ==
    /\ pc[p] \in {"compare", "document", "index"}
    /\ Goto(p, "unlock")
    /\ UNCHANGED <<index, instructions, lock, work>>

\* The finally block.  A failure to remove the lock is ignored: the command
\* answers all the same and the lock stays.
Unlock(p) ==
    /\ pc[p] = "unlock"
    /\ lock' \in {FALSE, lock}
    /\ Quit(p)
    /\ UNCHANGED <<index, instructions>>

-----------------------------------------------------------------------------
(* readStepInstruction: the index first, the document in a second step. *)

LoadForReading(p) ==
    /\ pc[p] = "idle"
    /\ StructureParses(index)
    /\ \E s \in DOMAIN index.steps :
          work' = [work EXCEPT ![p] = [request |-> [op |-> "read", step |-> s], base |-> index]]
    /\ Goto(p, "read")
    /\ UNCHANGED <<index, instructions, lock>>

ReadDocument(p) ==
    /\ pc[p] = "read"
    /\ Quit(p)
    /\ UNCHANGED <<index, instructions, lock>>

-----------------------------------------------------------------------------
(* Death of a process, and the person who cleans up after it. *)

Crash(p) ==
    /\ pc[p] # "idle"
    /\ Quit(p)
    /\ UNCHANGED <<index, instructions, lock>>

RemoveStaleLock ==
    /\ lock
    /\ Writing = {}
    /\ lock' = FALSE
    /\ UNCHANGED <<index, instructions, pc, work>>

-----------------------------------------------------------------------------
\* What a process does by itself once its command has started.
Proceed(p) ==
    \/ Acquire(p)
    \/ FindLocked(p)
    \/ Compare(p)
    \/ WriteDocument(p)
    \/ WriteIndex(p)
    \/ FailSave(p)
    \/ Unlock(p)
    \/ ReadDocument(p)

Next ==
    \/ \E p \in Procs : Load(p) \/ LoadForReading(p) \/ Proceed(p) \/ Crash(p)
    \/ RemoveStaleLock

Spec == Init /\ [][Next]_vars

-----------------------------------------------------------------------------
(* Correctness. *)

TypeOK ==
    /\ index \in Task
    /\ instructions \in [StepIds -> Bodies \cup {NoFile}]
    /\ lock \in BOOLEAN
    /\ pc \in [Procs -> {"idle", "lock", "compare", "document", "index", "unlock", "read"}]
    /\ work \in [Procs -> SaveWork \cup ReadWork \cup {NoWork}]

\* The lock file excludes: one process at most is past its creation, also
\* after crashes, failed removals and clean-ups by hand.
OneWriter ==
    /\ \A p, q \in Writing : p = q
    /\ Writing # {} => lock

\* From the comparison of revisions to the rename the task cannot move, and
\* until it unlocks a command that will report success still sees its own
\* document in place: no update is lost.
SaveIsFenced ==
    \A p \in Procs :
        /\ pc[p] \in {"document", "index"} => work[p].base = index
        /\ pc[p] = "unlock" /\ work[p].ok => work[p].next = index

\* The index never names an instruction document that is missing or that was
\* written for another attempt at the same step number: the document goes
\* first, and an orphan left by a crash is replaced before its number is used.
NoDanglingInstruction ==
    \A s \in DOMAIN index.steps : instructions[s] = index.steps[s].body

\* A reader that takes the index and then opens the step's document, with any
\* number of saves in between, opens the document of the step it saw.
ReaderSeesItsStep ==
    \A p \in Procs :
        pc[p] = "read" =>
            LET s == work[p].request.step
            IN  instructions[s] = work[p].base.steps[s].body

\* The revision a caller insisted on is the one its command replaced, however
\* long ago the command read the task.
CallerFence ==
    [][\A p \in Procs :
          pc[p] = "index" /\ pc'[p] = "unlock" /\ work'[p].ok =>
              RevisionMatches(index, work[p].request)]_vars

\* Seen through task.json alone, the concurrent processes are one user who
\* executes whole commands one after the other.
Atomic == INSTANCE TaskAtomic WITH task <- index

ImplementsAtomic == Atomic!Spec

=============================================================================
