------------------------------ MODULE TaskAtomic ------------------------------
(***************************************************************************)
(* What the task notebook promises its users: a task that changes only by  *)
(* whole commands, one at a time, each computed from the document that the *)
(* command before it left.  TaskStore shows how concurrent processes that  *)
(* read, lock, compare and rename files keep that promise.                 *)
(***************************************************************************)
EXTENDS TaskDomain

CONSTANT MaxRevision    \* bound on the revisions explored

VARIABLE task       \* the document

\* createTask published any list of drafts it admits.
Init == \E drafts \in UNION {[1..n -> Drafts] : n \in 0..MaxSteps}, mode \in ReviewMode :
            /\ CreatableDrafts(drafts)
            /\ task = CreatedTask(drafts, mode)

Commit(r) ==
    /\ task.revision < MaxRevision
    /\ Accepts(task, r)
    /\ task' = Result(task, r)

StartStep     == \E r \in StartRequest : Commit(r)
BlockStep     == \E r \in BlockRequest : Commit(r)
MarkStepDone  == \E r \in DoneRequest : Commit(r)
AddStep       == \E r \in AddRequest : Commit(r)
SetCheckpoint == \E r \in CheckpointRequest : Commit(r)
SetReviews    == \E r \in ReviewsRequest : Commit(r)

Next == \/ StartStep
        \/ BlockStep
        \/ MarkStepDone
        \/ AddStep
        \/ SetCheckpoint
        \/ SetReviews

Spec == Init /\ [][Next]_task

-----------------------------------------------------------------------------
(* Correctness. *)

TypeOK == task \in Task

\* Every command leaves a document whose structure parseTask accepts, whatever
\* order the commands come in.
StructureParsesBack == StructureParses(task)

\* A step with children is done exactly when all of its children are: marking
\* a host done completes its children, the last child done completes its host,
\* and no child joins a host already done.
HostDoneWithChildren ==
    \A h \in DOMAIN task.steps :
        ChildrenOf(task.steps, h) # {} =>
            (IsDone(task.steps, h) <=> OpenUnder(task.steps, h) = {})

\* `status` and `next` agree: there is no next step exactly when the task has
\* no steps or shows as done, and the next step is open work with no open work
\* beneath it.
NextStepFindsWork ==
    LET next == ComputeNextStepId(task.steps)
    IN  /\ next = NoStep <=> (task.steps = <<>> \/ task.status = "done")
        /\ next # NoStep => /\ ~ IsDone(task.steps, next)
                            /\ OpenUnder(task.steps, next) = {}

\* A block reason stands with every blocked step and with no other; a done
\* stamp stands with every done step and with no other, also for the steps
\* completed along with another one.
AnnotationsMatchStatus ==
    \A s \in DOMAIN task.steps :
        /\ task.steps[s].status = "blocked" <=> task.steps[s].blockReason # NoReason
        /\ IsDone(task.steps, s) <=> task.steps[s].declaredDoneAt # 0

\* A declaration of done is final: no later command, a checkpoint attached to
\* the same step included, reopens the step, restamps it or drops it.
DoneIsFinal ==
    [][\A s \in DOMAIN task.steps :
          IsDone(task.steps, s) =>
              s \in DOMAIN task'.steps /\ task'.steps[s] = task.steps[s]]_task
=============================================================================
