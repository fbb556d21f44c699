------------------------------ MODULE TaskDomain ------------------------------
(***************************************************************************)
(* The task notebook as data: one task document (task.json), its steps,    *)
(* and what every command of the task service makes of a document it read. *)
(*                                                                         *)
(* A request is the argument list of one command.  For each operation this *)
(* module says when the service has a new document to save (Accepts) and   *)
(* which document that is (Result).  A command that is rejected, or that   *)
(* finds nothing to change, saves nothing: it only answers, so it is not   *)
(* represented here.                                                       *)
(*                                                                         *)
(* Step ids are positions: step-001 is step 1.  createTask and addStep are *)
(* the only sources of ids, both number steps by their place in the list,  *)
(* and no operation removes or moves a step.  Titles, scope, criteria and  *)
(* the instruction text of a step are one opaque value, its body.  Times   *)
(* are the revision whose save stamped them.                               *)
(***************************************************************************)
EXTENDS Naturals, Sequences

CONSTANTS
    MaxSteps,       \* MAX_STEPS
    Bodies,         \* the texts a step can carry
    Drafts,         \* the step drafts callers submit
    Reasons,        \* the reasons a step can be blocked for
    NoReason,       \* blockReason absent
    Checkpoints,    \* recovery checkpoints that pass parseCheckpoint
    NoCheckpoint,   \* checkpoint absent
    Revisions       \* the revisions a caller may put in expectedRevision

NoParent   == 0     \* parent absent
NoRevision == 0     \* expectedRevision absent (revisions start at 1)
NoStep     == 0     \* computeNextStepId returned null

StepIds      == 1..MaxSteps
StepStatus   == {"pending", "in_progress", "done", "blocked"}
TaskStatus   == {"open", "in_progress", "done", "blocked"}
ReviewMode   == {"on", "off", "auto"}

\* What the caller of createTask and addStep says of a step.
StepDraft == [body      : Bodies,
              parent    : StepIds \cup {NoParent},
              dependsOn : SUBSET StepIds]

ASSUME DomainAssumption ==
    /\ MaxSteps \in Nat \ {0}
    /\ Drafts \subseteq StepDraft
    /\ NoReason \notin Reasons
    /\ NoCheckpoint \notin Checkpoints
    /\ Revisions \subseteq Nat \ {NoRevision}

Step == [body           : Bodies,
         parent         : StepIds \cup {NoParent},
         dependsOn      : SUBSET StepIds,
         status         : StepStatus,
         blockReason    : Reasons \cup {NoReason},
         declaredDoneAt : Nat]

\* An absent reviews object reads as security "auto" (resolveReviews).
Task == [schemaVersion : {1, 2},
         status        : TaskStatus,
         revision      : Nat \ {0},
         steps         : Seq(Step),
         security      : ReviewMode,
         checkpoint    : Checkpoints \cup {NoCheckpoint}]

-----------------------------------------------------------------------------
(* Reading a list of steps. *)

IsDone(steps, s) == steps[s].status = "done"

DeriveTaskStatus(steps) ==
    LET Some(status) == \E s \in DOMAIN steps : steps[s].status = status
        AllDone      == \A s \in DOMAIN steps : IsDone(steps, s)
    IN  IF Some("blocked")                       THEN "blocked"
        ELSE IF steps # <<>> /\ AllDone          THEN "done"
        ELSE IF Some("in_progress") \/ Some("done") THEN "in_progress"
        ELSE "open"

ChildrenOf(steps, h) == {s \in DOMAIN steps : steps[s].parent = h}

\* Top-level steps are the "children" of NoParent.
OpenUnder(steps, h) == {s \in ChildrenOf(steps, h) : ~ IsDone(steps, s)}

FirstOf(S) == CHOOSE s \in S : \A other \in S : s <= other

\* Faulty: the first child, done or not.
NextIsFirstChild(steps) ==
    LET top  == OpenUnder(steps, NoParent)
        next == FirstOf(top)
        kids == ChildrenOf(steps, next)
    IN  IF top = {} THEN NoStep ELSE IF kids = {} THEN next ELSE FirstOf(kids)

ComputeNextStepId(steps) ==
    LET top  == OpenUnder(steps, NoParent)
        next == FirstOf(top)
        kids == OpenUnder(steps, next)
    IN  IF top = {} THEN NoStep ELSE IF kids = {} THEN next ELSE FirstOf(kids)

\* assertParentRelation: one level of nesting, hosted by one of `available`.
ParentRelation(id, parent, available) ==
    /\ parent # id
    /\ parent \in DOMAIN available
    /\ available[parent].parent = NoParent

\* What parseTask demands of the structure of a document it reads back: its
\* revision, how many steps there are, who hosts whom, and no checkpoint under
\* the first schema.  parseStep's demands on the texts of a step are TaskCli's.
StructureParses(task) ==
    /\ task.revision >= 1
    /\ Len(task.steps) <= MaxSteps
    /\ \A s \in DOMAIN task.steps :
          task.steps[s].parent # NoParent =>
              ParentRelation(s, task.steps[s].parent, task.steps)
    /\ task.checkpoint # NoCheckpoint => task.schemaVersion = 2

-----------------------------------------------------------------------------
(* Building documents. *)

BuildPendingStep(draft) ==
    [body           |-> draft.body,
     parent         |-> draft.parent,
     dependsOn      |-> draft.dependsOn,
     status         |-> "pending",
     blockReason    |-> NoReason,
     declaredDoneAt |-> 0]

MarkDone(step, now) ==
    [step EXCEPT !.status = "done", !.blockReason = NoReason, !.declaredDoneAt = now]

WithCheckpoint(task, checkpoint) ==
    IF checkpoint = NoCheckpoint
    THEN task
    ELSE [task EXCEPT !.schemaVersion = 2, !.checkpoint = checkpoint]

CheckpointChanged(task, checkpoint) ==
    checkpoint # NoCheckpoint /\ task.checkpoint # checkpoint

\* The document a save publishes: its steps, the status they derive, and the
\* revision after the one it was computed from.
Amended(task, steps) ==
    [task EXCEPT !.steps = steps, !.status = DeriveTaskStatus(steps), !.revision = @ + 1]

\* createTask: a draft's parent is one of the drafts before it, and a draft
\* depends on ids of the same list, its own and later ones included.
CreatableDrafts(drafts) ==
    /\ Len(drafts) <= MaxSteps
    /\ \A i \in DOMAIN drafts :
        /\ drafts[i].parent # NoParent =>
               ParentRelation(i, drafts[i].parent, SubSeq(drafts, 1, i - 1))
        /\ drafts[i].dependsOn \subseteq DOMAIN drafts

CreatedTask(drafts, security) ==
    LET steps == [i \in DOMAIN drafts |-> BuildPendingStep(drafts[i])]
    IN  [schemaVersion |-> 1,
         status        |-> DeriveTaskStatus(steps),
         revision      |-> 1,
         steps         |-> steps,
         security      |-> security,
         checkpoint    |-> NoCheckpoint]

-----------------------------------------------------------------------------
(* Requests: the commands that can change a document. *)

MaybeCheckpoint == Checkpoints \cup {NoCheckpoint}
MaybeRevision   == Revisions \cup {NoRevision}

StartRequest == [op : {"start"}, step : StepIds, reason : {NoReason},
                 checkpoint : MaybeCheckpoint, expected : MaybeRevision]

BlockRequest == [op : {"block"}, step : StepIds, reason : Reasons,
                 checkpoint : MaybeCheckpoint, expected : MaybeRevision]

DoneRequest == [op : {"done"}, step : StepIds,
                checkpoint : MaybeCheckpoint, expected : MaybeRevision]

AddRequest == [op : {"add"}, draft : Drafts, expected : MaybeRevision]

CheckpointRequest == [op : {"checkpoint"}, checkpoint : Checkpoints, expected : MaybeRevision]

ReviewsRequest == [op : {"reviews"}, security : ReviewMode, expected : MaybeRevision]

Request == StartRequest \cup BlockRequest \cup DoneRequest \cup AddRequest
               \cup CheckpointRequest \cup ReviewsRequest

\* assertRevision: a caller that names no revision is not fenced.
RevisionMatches(task, r) == r.expected \in {NoRevision, task.revision}

-----------------------------------------------------------------------------
(* transition: startStep and blockStep. *)

TargetStatus(r) == IF r.op = "start" THEN "in_progress" ELSE "blocked"

AcceptsTransition(task, r) ==
    /\ RevisionMatches(task, r)
    /\ r.step \in DOMAIN task.steps
    /\ ~ IsDone(task.steps, r.step)
    /\ \/ task.steps[r.step].status # TargetStatus(r)
       \/ task.steps[r.step].blockReason # r.reason
       \/ CheckpointChanged(task, r.checkpoint)

TransitionResult(task, r) ==
    Amended(WithCheckpoint(task, r.checkpoint),
            [task.steps EXCEPT ![r.step].status = TargetStatus(r),
                               ![r.step].blockReason = r.reason])

-----------------------------------------------------------------------------
(* markStepDone: completion spreads between a host and its children. *)

AcceptsDone(task, r) ==
    /\ r.step \in DOMAIN task.steps
    /\ ~ IsDone(task.steps, r.step) \/ CheckpointChanged(task, r.checkpoint)
    /\ RevisionMatches(task, r)

\* The host completes with its last open child.
HostCompletedBy(steps, s) ==
    {h \in DOMAIN steps : /\ h = steps[s].parent
                         /\ OpenUnder(steps, h) \subseteq {s}
                         /\ ~ IsDone(steps, h)}

\* Faulty: the last open child leaves its host open.
CompleteWithoutHost(steps, s) ==
    IF IsDone(steps, s) THEN {} ELSE {s} \cup OpenUnder(steps, s)

\* Faulty: a checkpoint for a step already done stamps it anew.
CompleteAgain(steps, s) ==
    {s} \cup IF steps[s].parent = NoParent THEN OpenUnder(steps, s) ELSE HostCompletedBy(steps, s)

\* A step already done keeps its stamp when only the checkpoint changes.
ToComplete(steps, s) ==
    IF IsDone(steps, s) THEN {}
    ELSE {s} \cup IF steps[s].parent = NoParent
                  THEN OpenUnder(steps, s)
                  ELSE HostCompletedBy(steps, s)

DoneResult(task, r) ==
    LET completed == ToComplete(task.steps, r.step)
        now       == task.revision + 1
    IN  Amended(WithCheckpoint(task, r.checkpoint),
                [s \in DOMAIN task.steps |->
                    IF s \in completed THEN MarkDone(task.steps[s], now) ELSE task.steps[s]])

-----------------------------------------------------------------------------
(* addStep, setCheckpoint and setReviews. *)

\* Faulty: the number of the last step.
LastStepId(task) == Len(task.steps)

NewStepId(task) == Len(task.steps) + 1

\* Faulty: any open step hosts children, a child of another step included.
AddUnderChild(task, r) ==
    /\ Len(task.steps) < MaxSteps
    /\ r.draft.dependsOn \subseteq DOMAIN task.steps
    /\ r.draft.parent # NoParent =>
           r.draft.parent \in DOMAIN task.steps /\ ~ IsDone(task.steps, r.draft.parent)
    /\ RevisionMatches(task, r)

AcceptsAdd(task, r) ==
    /\ Len(task.steps) < MaxSteps
    /\ r.draft.dependsOn \subseteq DOMAIN task.steps
    /\ r.draft.parent # NoParent =>
           /\ ParentRelation(NewStepId(task), r.draft.parent, task.steps)
           /\ ~ IsDone(task.steps, r.draft.parent)
    /\ RevisionMatches(task, r)

AddResult(task, r) == Amended(task, Append(task.steps, BuildPendingStep(r.draft)))

AcceptsCheckpoint(task, r) ==
    RevisionMatches(task, r) /\ CheckpointChanged(task, r.checkpoint)

CheckpointResult(task, r) ==
    [WithCheckpoint(task, r.checkpoint) EXCEPT !.revision = @ + 1]

\* Faulty: the revision the caller expects is not looked at.
ReviewsUnfenced(task, r) == r.security \in ReviewMode

AcceptsReviews(task, r) == RevisionMatches(task, r)

ReviewsResult(task, r) == [task EXCEPT !.security = r.security, !.revision = @ + 1]

-----------------------------------------------------------------------------
(* Any request. *)

Accepts(task, r) ==
    CASE r.op \in {"start", "block"} -> AcceptsTransition(task, r)
      [] r.op = "done"               -> AcceptsDone(task, r)
      [] r.op = "add"                -> AcceptsAdd(task, r)
      [] r.op = "checkpoint"         -> AcceptsCheckpoint(task, r)
      [] r.op = "reviews"            -> AcceptsReviews(task, r)

Result(task, r) ==
    CASE r.op \in {"start", "block"} -> TransitionResult(task, r)
      [] r.op = "done"               -> DoneResult(task, r)
      [] r.op = "add"                -> AddResult(task, r)
      [] r.op = "checkpoint"         -> CheckpointResult(task, r)
      [] r.op = "reviews"            -> ReviewsResult(task, r)
=============================================================================
