--------------------------- MODULE TaskDomainProofs ---------------------------
(***************************************************************************)
(* What every command preserves in a task document, whatever the document  *)
(* and the command.                                                        *)
(***************************************************************************)
EXTENDS TaskDomain, WellFoundedInduction, TLAPS

\* The properties of a list of steps that the commands maintain.
WellNested(steps) ==
    \A s \in DOMAIN steps :
        steps[s].parent # NoParent => ParentRelation(s, steps[s].parent, steps)

HostsFollowChildren(steps) ==
    \A h \in DOMAIN steps :
        ChildrenOf(steps, h) # {} => (IsDone(steps, h) <=> OpenUnder(steps, h) = {})

Annotated(steps) ==
    \A s \in DOMAIN steps :
        /\ steps[s].status = "blocked" <=> steps[s].blockReason # NoReason
        /\ IsDone(steps, s) <=> steps[s].declaredDoneAt # 0

\* Requests with any draft, whichever callers submit.
AnyAddition == [op : {"add"}, draft : StepDraft, expected : MaybeRevision]
AnyRequest  == StartRequest \cup BlockRequest \cup DoneRequest \cup AnyAddition
                   \cup CheckpointRequest \cup ReviewsRequest

SoundSteps(steps) == WellNested(steps) /\ HostsFollowChildren(steps) /\ Annotated(steps)

-----------------------------------------------------------------------------
\* Sequences as the prover sees them.
LEMMA StepsAreIndexed ==
    ASSUME NEW steps \in Seq(Step)
    PROVE  /\ Len(steps) \in Nat
           /\ DOMAIN steps = 1..Len(steps)
           /\ \A s \in DOMAIN steps : steps[s] \in Step
OBVIOUS

LEMMA StepsFromFunction ==
    ASSUME NEW n \in Nat, NEW f \in [1..n -> Step]
    PROVE  f \in Seq(Step) /\ Len(f) = n
OBVIOUS

-----------------------------------------------------------------------------
TransitionSteps(task, r) ==
    [task.steps EXCEPT ![r.step].status = TargetStatus(r), ![r.step].blockReason = r.reason]

LEMMA ChangedStepTyped ==
    ASSUME NEW step \in Step, NEW status \in StepStatus, NEW reason \in Reasons \cup {NoReason}
    PROVE  LET changed == [step EXCEPT !.status = status, !.blockReason = reason]
           IN  /\ changed \in Step
               /\ changed.status = status
               /\ changed.blockReason = reason
               /\ changed.parent = step.parent
               /\ changed.declaredDoneAt = step.declaredDoneAt
BY DEF Step

LEMMA TransitionTyped ==
    ASSUME NEW task \in Task, NEW r \in StartRequest \cup BlockRequest, AcceptsTransition(task, r)
    PROVE  /\ TransitionSteps(task, r) \in Seq(Step)
           /\ Len(TransitionSteps(task, r)) = Len(task.steps)
<1> DEFINE old == task.steps
           new == TransitionSteps(task, r)
<1>1. /\ old \in Seq(Step)
      /\ r.step \in DOMAIN old
  BY DEF Task, AcceptsTransition
<1>2. /\ TargetStatus(r) \in StepStatus
      /\ r.reason \in Reasons \cup {NoReason}
  BY DEF TargetStatus, StartRequest, BlockRequest, StepStatus
<1>3. new = [s \in 1..Len(old) |->
                IF s = r.step
                THEN [old[s] EXCEPT !.status = TargetStatus(r), !.blockReason = r.reason]
                ELSE old[s]]
  BY <1>1, StepsAreIndexed DEF TransitionSteps
<1>4. ASSUME NEW s \in 1..Len(old)
      PROVE  [old[s] EXCEPT !.status = TargetStatus(r), !.blockReason = r.reason] \in Step
  <2>1. old[s] \in Step
    BY <1>1, StepsAreIndexed
  <2> HIDE DEF old, new
  <2> QED
    BY <1>2, <2>1, ChangedStepTyped
<1>5. new \in [1..Len(old) -> Step]
  BY <1>1, <1>3, <1>4, StepsAreIndexed
<1> QED
  BY <1>1, <1>5, StepsAreIndexed, StepsFromFunction

LEMMA TransitionSound ==
    ASSUME NEW task \in Task, NEW r \in StartRequest \cup BlockRequest, AcceptsTransition(task, r),
           DomainAssumption, SoundSteps(task.steps)
    PROVE  SoundSteps(TransitionSteps(task, r))
<1> DEFINE old == task.steps
           new == TransitionSteps(task, r)
<1>1. old \in Seq(Step)
  BY DEF Task
<1>2. /\ DOMAIN new = DOMAIN old
      /\ \A s \in DOMAIN old : new[s].parent = old[s].parent /\ (IsDone(new, s) <=> IsDone(old, s))
      /\ \A s \in DOMAIN old : new[s].declaredDoneAt = old[s].declaredDoneAt
  BY <1>1, StepsAreIndexed DEF TransitionSteps, AcceptsTransition, TargetStatus, IsDone, Step
<1>3. WellNested(new)
  BY <1>2 DEF SoundSteps, WellNested, ParentRelation
<1>4. HostsFollowChildren(new)
  BY <1>2 DEF SoundSteps, HostsFollowChildren, ChildrenOf, OpenUnder
<1>5. Annotated(new)
  <2>1. /\ r.step \in DOMAIN old
        /\ ~ IsDone(old, r.step)
        /\ TargetStatus(r) \in StepStatus \ {"done"}
        /\ r.reason \in Reasons \cup {NoReason}
        /\ TargetStatus(r) = "blocked" <=> r.reason # NoReason
    BY DEF AcceptsTransition, TargetStatus, StartRequest, BlockRequest, StepStatus, DomainAssumption
  <2>2. /\ new[r.step].status = TargetStatus(r)
        /\ new[r.step].blockReason = r.reason
        /\ \A s \in DOMAIN old : s # r.step => new[s] = old[s]
    <3>1. /\ r.step \in 1..Len(old)
          /\ old[r.step] \in Step
          /\ new[r.step] = [old[r.step] EXCEPT !.status = TargetStatus(r), !.blockReason = r.reason]
          /\ \A s \in DOMAIN old : s # r.step => new[s] = old[s]
      BY <2>1, <1>1, StepsAreIndexed DEF TransitionSteps
    <3> QED
      BY <3>1 DEF Step
  <2> QED
    BY <2>1, <2>2, <1>2 DEF SoundSteps, Annotated, IsDone
<1> QED
  BY <1>3, <1>4, <1>5 DEF SoundSteps

-----------------------------------------------------------------------------
CompletedSteps(task, r) ==
    [s \in DOMAIN task.steps |->
        IF s \in ToComplete(task.steps, r.step)
        THEN MarkDone(task.steps[s], task.revision + 1)
        ELSE task.steps[s]]

LEMMA MarkDoneTyped ==
    ASSUME NEW step \in Step, NEW now \in Nat
    PROVE  /\ MarkDone(step, now) \in Step
           /\ MarkDone(step, now).parent = step.parent
           /\ MarkDone(step, now).status = "done"
           /\ MarkDone(step, now).blockReason = NoReason
           /\ MarkDone(step, now).declaredDoneAt = now
BY DEF MarkDone, Step, StepStatus

LEMMA DoneTyped ==
    ASSUME NEW task \in Task, NEW r \in DoneRequest, AcceptsDone(task, r)
    PROVE  /\ CompletedSteps(task, r) \in Seq(Step)
           /\ Len(CompletedSteps(task, r)) = Len(task.steps)
<1> DEFINE old == task.steps
           new == CompletedSteps(task, r)
<1>1. /\ old \in Seq(Step)
      /\ task.revision + 1 \in Nat
  BY DEF Task
<1>2. new \in [1..Len(old) -> Step]
  BY <1>1, MarkDoneTyped, StepsAreIndexed DEF CompletedSteps
<1> QED
  BY <1>1, <1>2, StepsAreIndexed, StepsFromFunction

\* The heart of the matter: completion keeps every host in step with its
\* children.
LEMMA DoneSound ==
    ASSUME NEW task \in Task, NEW r \in DoneRequest, AcceptsDone(task, r),
           SoundSteps(task.steps)
    PROVE  SoundSteps(CompletedSteps(task, r))
<1> DEFINE old == task.steps
           new == CompletedSteps(task, r)
           c   == r.step
           all == ToComplete(old, c)
<1>1. /\ old \in Seq(Step)
      /\ task.revision + 1 \in Nat \ {0}
      /\ c \in DOMAIN old
  BY DEF Task, AcceptsDone
<1>2. /\ DOMAIN new = DOMAIN old
      /\ \A s \in DOMAIN old : new[s].parent = old[s].parent
      /\ \A s \in DOMAIN old : IsDone(new, s) <=> (IsDone(old, s) \/ s \in all)
  BY <1>1, MarkDoneTyped, StepsAreIndexed DEF CompletedSteps, IsDone
<1>3. \A s \in DOMAIN old :
         IF s \in all
         THEN /\ new[s].status = "done"
              /\ new[s].blockReason = NoReason
              /\ new[s].declaredDoneAt = task.revision + 1
         ELSE new[s] = old[s]
  BY <1>1, MarkDoneTyped, StepsAreIndexed DEF CompletedSteps
<1>4. WellNested(new)
  BY <1>2 DEF SoundSteps, WellNested, ParentRelation
<1>5. Annotated(new)
  BY <1>1, <1>2, <1>3 DEF SoundSteps, Annotated, IsDone
<1>6. HostsFollowChildren(new)
  <2> SUFFICES ASSUME NEW h \in DOMAIN old, ChildrenOf(new, h) # {}
               PROVE  IsDone(new, h) <=> OpenUnder(new, h) = {}
    BY <1>2 DEF HostsFollowChildren
  <2>1. /\ ChildrenOf(old, h) # {}
        /\ IsDone(old, h) <=> OpenUnder(old, h) = {}
    BY <1>2 DEF ChildrenOf, SoundSteps, HostsFollowChildren
  <2>2. OpenUnder(new, h) = OpenUnder(old, h) \ all
    BY <1>2 DEF OpenUnder, ChildrenOf
  <2>3. old[h].parent = NoParent
    BY <1>1, <2>1, StepsAreIndexed DEF ChildrenOf, SoundSteps, WellNested, ParentRelation, NoParent
  <2>4. CASE IsDone(old, c)
    BY <2>4, <1>2, <2>1, <2>2 DEF ToComplete
  <2>5. CASE ~ IsDone(old, c) /\ old[c].parent = NoParent
    <3>1. all = {c} \cup OpenUnder(old, c)
      BY <2>5 DEF ToComplete
    <3>2. CASE h = c
      BY <3>1, <3>2, <1>2, <2>2
    <3>3. CASE h # c
      <4>1. h \notin all
        BY <3>1, <3>3, <2>3, <1>1, StepsAreIndexed DEF OpenUnder, ChildrenOf, NoParent
      <4>2. OpenUnder(old, h) \cap all = {}
        BY <3>1, <3>3, <2>5, <1>1, StepsAreIndexed DEF OpenUnder, ChildrenOf, NoParent
      <4> QED
        BY <4>1, <4>2, <1>2, <2>1, <2>2
    <3> QED
      BY <3>2, <3>3
  <2>6. CASE ~ IsDone(old, c) /\ old[c].parent # NoParent
    <3>1. all = {c} \cup HostCompletedBy(old, c)
      BY <2>6 DEF ToComplete
    <3>2. h # c
      BY <2>3, <2>6
    <3>3. CASE h = old[c].parent
      <4>1. OpenUnder(old, h) \cap HostCompletedBy(old, c) = {}
        BY <3>3, <2>3, <1>1, StepsAreIndexed DEF OpenUnder, ChildrenOf, HostCompletedBy, NoParent
      <4>2. c \in OpenUnder(old, h)
        BY <3>3, <2>6, <1>1 DEF OpenUnder, ChildrenOf
      <4>3. h \in all <=> OpenUnder(old, h) \subseteq {c}
        BY <3>1, <3>2, <3>3, <4>2, <2>1 DEF HostCompletedBy
      <4> QED
        BY <3>1, <4>1, <4>2, <4>3, <1>2, <2>1, <2>2
    <3>4. CASE h # old[c].parent
      <4>1. h \notin all
        BY <3>1, <3>2, <3>4 DEF HostCompletedBy
      <4>2. \A g \in HostCompletedBy(old, c) : g # h /\ old[g].parent = NoParent
        BY <3>4, <2>6, <1>1 DEF HostCompletedBy, SoundSteps, WellNested, ParentRelation
      <4>3. OpenUnder(old, h) \cap all = {}
        BY <3>1, <3>4, <4>2, <1>1, StepsAreIndexed DEF OpenUnder, ChildrenOf, NoParent
      <4> QED
        BY <4>1, <4>3, <1>2, <2>1, <2>2
    <3> QED
      BY <3>3, <3>4
  <2> QED
    BY <2>4, <2>5, <2>6
<1> QED
  BY <1>4, <1>5, <1>6 DEF SoundSteps

-----------------------------------------------------------------------------
ExtendedSteps(task, r) == Append(task.steps, BuildPendingStep(r.draft))

LEMMA PendingStepTyped ==
    ASSUME NEW draft \in StepDraft
    PROVE  BuildPendingStep(draft) \in Step
BY DEF BuildPendingStep, StepDraft, Step, StepStatus

LEMMA AddTyped ==
    ASSUME NEW task \in Task, NEW r \in AnyAddition, DomainAssumption
    PROVE  /\ ExtendedSteps(task, r) \in Seq(Step)
           /\ Len(ExtendedSteps(task, r)) = Len(task.steps) + 1
<1>1. BuildPendingStep(r.draft) \in Step
  BY PendingStepTyped DEF AnyAddition
<1>2. task.steps \in Seq(Step)
  BY DEF Task
<1> QED
  BY <1>1, <1>2 DEF ExtendedSteps

LEMMA AddSound ==
    ASSUME NEW task \in Task, NEW r \in AnyAddition, AcceptsAdd(task, r),
           DomainAssumption, SoundSteps(task.steps)
    PROVE  SoundSteps(ExtendedSteps(task, r))
<1> DEFINE old  == task.steps
           new  == ExtendedSteps(task, r)
           id   == Len(old) + 1
           host == r.draft.parent
<1>1. /\ old \in Seq(Step)
      /\ new \in Seq(Step)
      /\ id \in Nat \ {0}
      /\ id \notin DOMAIN old
      /\ DOMAIN new = DOMAIN old \cup {id}
      /\ \A s \in DOMAIN old : new[s] = old[s]
      /\ new[id] = BuildPendingStep(r.draft)
  <2>1. old \in Seq(Step)
    BY DEF Task
  <2>2. BuildPendingStep(r.draft) \in Step
    BY PendingStepTyped DEF AnyAddition
  <2>3. new \in Seq(Step) /\ Len(new) = id
    BY AddTyped
  <2>4. id \in Nat \ {0} /\ DOMAIN old = 1..(id - 1) /\ DOMAIN new = 1..id
    BY <2>1, <2>3, StepsAreIndexed
  <2>5. /\ \A s \in 1..(id - 1) : new[s] = old[s]
        /\ new[id] = BuildPendingStep(r.draft)
    BY <2>1, <2>2 DEF ExtendedSteps
  <2> QED
    BY <2>1, <2>3, <2>4, <2>5
<1>2. /\ new[id].parent = host
      /\ ~ IsDone(new, id)
      /\ new[id].status = "pending"
      /\ new[id].blockReason = NoReason
      /\ new[id].declaredDoneAt = 0
      /\ \A s \in DOMAIN old : IsDone(new, s) <=> IsDone(old, s)
  BY <1>1 DEF BuildPendingStep, IsDone
<1>3. host # NoParent =>
         /\ host \in DOMAIN old
         /\ old[host].parent = NoParent
         /\ ~ IsDone(old, host)
  BY DEF AcceptsAdd, ParentRelation
<1>4. \A s \in DOMAIN old : old[s].parent # id
  BY <1>1, StepsAreIndexed DEF SoundSteps, WellNested, ParentRelation, NoParent
<1>5. WellNested(new)
  BY <1>1, <1>2, <1>3 DEF SoundSteps, WellNested, ParentRelation
<1>6. HostsFollowChildren(new)
  <2> SUFFICES ASSUME NEW h \in DOMAIN new, ChildrenOf(new, h) # {}
               PROVE  IsDone(new, h) <=> OpenUnder(new, h) = {}
    BY DEF HostsFollowChildren
  <2>1. h \in DOMAIN old
    BY <1>1, <1>2, <1>3, <1>4 DEF ChildrenOf, NoParent
  <2>2. CASE h = host
    BY <2>1, <2>2, <1>1, <1>2, <1>3, StepsAreIndexed DEF OpenUnder, ChildrenOf, NoParent
  <2>3. CASE h # host
    <3>1. /\ ChildrenOf(new, h) = ChildrenOf(old, h)
          /\ OpenUnder(new, h) = OpenUnder(old, h)
      BY <2>3, <1>1, <1>2 DEF OpenUnder, ChildrenOf
    <3> QED
      BY <2>1, <3>1, <1>2 DEF SoundSteps, HostsFollowChildren
  <2> QED
    BY <2>2, <2>3
<1>7. Annotated(new)
  BY <1>1, <1>2 DEF SoundSteps, Annotated
<1> QED
  BY <1>5, <1>6, <1>7 DEF SoundSteps

-----------------------------------------------------------------------------
\* A document and its steps, as every save leaves them.
SoundTask(task) ==
    /\ Len(task.steps) <= MaxSteps
    /\ SoundSteps(task.steps)
    /\ task.status = DeriveTaskStatus(task.steps)
    /\ task.checkpoint # NoCheckpoint => task.schemaVersion = 2

LEMMA StatusTyped ==
    ASSUME NEW steps
    PROVE  DeriveTaskStatus(steps) \in TaskStatus
BY DEF DeriveTaskStatus, TaskStatus

LEMMA CheckpointTyped ==
    ASSUME NEW task \in Task, NEW checkpoint \in MaybeCheckpoint
    PROVE  /\ WithCheckpoint(task, checkpoint) \in Task
           /\ WithCheckpoint(task, checkpoint).steps = task.steps
           /\ WithCheckpoint(task, checkpoint).status = task.status
           /\ WithCheckpoint(task, checkpoint).revision = task.revision
           /\ (task.checkpoint # NoCheckpoint => task.schemaVersion = 2) =>
                 (WithCheckpoint(task, checkpoint).checkpoint # NoCheckpoint =>
                      WithCheckpoint(task, checkpoint).schemaVersion = 2)
BY DEF WithCheckpoint, Task, MaybeCheckpoint

LEMMA AmendedTyped ==
    ASSUME NEW task \in Task, NEW steps \in Seq(Step)
    PROVE  /\ Amended(task, steps) \in Task
           /\ Amended(task, steps).steps = steps
           /\ Amended(task, steps).status = DeriveTaskStatus(steps)
           /\ Amended(task, steps).revision = task.revision + 1
           /\ Amended(task, steps).checkpoint = task.checkpoint
           /\ Amended(task, steps).schemaVersion = task.schemaVersion
<1>1. task.revision + 1 \in Nat \ {0}
  BY DEF Task
<1>2. DeriveTaskStatus(steps) \in TaskStatus
  BY StatusTyped
<1> QED
  BY <1>1, <1>2 DEF Amended, Task

\* Whatever the command, the document it saves is typed, sound and one
\* revision later.
LEMMA AnyResultSound ==
    ASSUME NEW task \in Task, NEW r \in AnyRequest, Accepts(task, r), DomainAssumption
    PROVE  /\ Result(task, r) \in Task
           /\ Result(task, r).revision = task.revision + 1
           /\ SoundTask(task) => SoundTask(Result(task, r))
<1>1. CASE r \in StartRequest \cup BlockRequest
  <2>1. /\ r.op \in {"start", "block"}
        /\ r.checkpoint \in MaybeCheckpoint
    BY <1>1 DEF StartRequest, BlockRequest
  <2>2. /\ AcceptsTransition(task, r)
        /\ Result(task, r) = Amended(WithCheckpoint(task, r.checkpoint), TransitionSteps(task, r))
    BY <2>1 DEF Accepts, Result, TransitionResult, TransitionSteps
  <2>3. TransitionSteps(task, r) \in Seq(Step) /\ Len(TransitionSteps(task, r)) = Len(task.steps)
    BY <1>1, <2>2, TransitionTyped
  <2>4. SoundSteps(task.steps) => SoundSteps(TransitionSteps(task, r))
    BY <1>1, <2>2, TransitionSound
  <2> QED
    BY <2>1, <2>2, <2>3, <2>4, CheckpointTyped, AmendedTyped DEF SoundTask
<1>2. CASE r \in DoneRequest
  <2>1. r.op = "done" /\ r.checkpoint \in MaybeCheckpoint
    BY <1>2 DEF DoneRequest
  <2>2. /\ AcceptsDone(task, r)
        /\ Result(task, r) = Amended(WithCheckpoint(task, r.checkpoint), CompletedSteps(task, r))
    BY <2>1 DEF Accepts, Result, DoneResult, CompletedSteps
  <2>3. CompletedSteps(task, r) \in Seq(Step) /\ Len(CompletedSteps(task, r)) = Len(task.steps)
    BY <1>2, <2>2, DoneTyped
  <2>4. SoundSteps(task.steps) => SoundSteps(CompletedSteps(task, r))
    BY <1>2, <2>2, DoneSound
  <2> QED
    BY <2>1, <2>2, <2>3, <2>4, CheckpointTyped, AmendedTyped DEF SoundTask
<1>3. CASE r \in AnyAddition
  <2>1. /\ AcceptsAdd(task, r)
        /\ Result(task, r) = Amended(task, ExtendedSteps(task, r))
    BY <1>3 DEF AnyAddition, Accepts, Result, AddResult, ExtendedSteps
  <2>2. Len(task.steps) \in Nat /\ Len(task.steps) < MaxSteps /\ MaxSteps \in Nat
    BY <2>1, StepsAreIndexed DEF AcceptsAdd, Task, DomainAssumption
  <2>3. /\ ExtendedSteps(task, r) \in Seq(Step)
        /\ Len(ExtendedSteps(task, r)) = Len(task.steps) + 1
    BY <1>3, AddTyped
  <2>4. SoundSteps(task.steps) => SoundSteps(ExtendedSteps(task, r))
    BY <1>3, <2>1, AddSound
  <2> QED
    BY <2>1, <2>2, <2>3, <2>4, AmendedTyped DEF SoundTask
<1>4. CASE r \in CheckpointRequest
  <2>1. /\ r.checkpoint \in MaybeCheckpoint
        /\ Result(task, r) = [WithCheckpoint(task, r.checkpoint) EXCEPT !.revision = @ + 1]
    BY <1>4 DEF CheckpointRequest, MaybeCheckpoint, Result, CheckpointResult
  <2>2. /\ Result(task, r) \in Task
        /\ Result(task, r).revision = task.revision + 1
        /\ Result(task, r).steps = task.steps
        /\ Result(task, r).status = task.status
        /\ Result(task, r).checkpoint = WithCheckpoint(task, r.checkpoint).checkpoint
        /\ Result(task, r).schemaVersion = WithCheckpoint(task, r.checkpoint).schemaVersion
    BY <2>1, CheckpointTyped DEF Task
  <2> QED
    BY <2>1, <2>2, CheckpointTyped DEF SoundTask
<1>5. CASE r \in ReviewsRequest
  <2>1. /\ r.security \in ReviewMode
        /\ Result(task, r) = [task EXCEPT !.security = r.security, !.revision = @ + 1]
    BY <1>5 DEF ReviewsRequest, Result, ReviewsResult
  <2>2. task.revision + 1 \in Nat \ {0}
    BY DEF Task
  <2>3. /\ Result(task, r) \in Task
        /\ Result(task, r).revision = task.revision + 1
        /\ Result(task, r).steps = task.steps
        /\ Result(task, r).status = task.status
        /\ Result(task, r).checkpoint = task.checkpoint
        /\ Result(task, r).schemaVersion = task.schemaVersion
    BY <2>1, <2>2 DEF Task
  <2> QED
    BY <2>3 DEF SoundTask
<1> QED
  BY <1>1, <1>2, <1>3, <1>4, <1>5 DEF AnyRequest

-----------------------------------------------------------------------------
\* What a command leaves as it was: a done step keeps every field, a step keeps
\* its body, and only addStep makes the list longer.
LEMMA AnyResultKeeps ==
    ASSUME NEW task \in Task, NEW r \in AnyRequest, Accepts(task, r), DomainAssumption
    PROVE  /\ \A s \in DOMAIN task.steps :
                 /\ s \in DOMAIN Result(task, r).steps
                 /\ Result(task, r).steps[s].body = task.steps[s].body
                 /\ IsDone(task.steps, s) => Result(task, r).steps[s] = task.steps[s]
           /\ IF r \in AnyAddition
              THEN /\ DOMAIN Result(task, r).steps = DOMAIN task.steps \cup {NewStepId(task)}
                   /\ Result(task, r).steps[NewStepId(task)].body = r.draft.body
              ELSE DOMAIN Result(task, r).steps = DOMAIN task.steps
<1>1. task.steps \in Seq(Step)
  BY DEF Task
<1>2. CASE r \in StartRequest \cup BlockRequest
  <2>1. /\ r.op \in {"start", "block"}
        /\ r \notin AnyAddition
        /\ r.checkpoint \in MaybeCheckpoint
    BY <1>2 DEF StartRequest, BlockRequest, AnyAddition
  <2>2. /\ AcceptsTransition(task, r)
        /\ Result(task, r) = Amended(WithCheckpoint(task, r.checkpoint), TransitionSteps(task, r))
    BY <2>1 DEF Accepts, Result, TransitionResult, TransitionSteps
  <2>3. TransitionSteps(task, r) \in Seq(Step)
    BY <1>2, <2>2, TransitionTyped
  <2>4. Result(task, r).steps = TransitionSteps(task, r)
    BY <2>1, <2>2, <2>3, CheckpointTyped, AmendedTyped
  <2>5. r.step \in DOMAIN task.steps /\ ~ IsDone(task.steps, r.step)
    BY <2>2 DEF AcceptsTransition
  <2>6. /\ DOMAIN TransitionSteps(task, r) = DOMAIN task.steps
        /\ \A s \in DOMAIN task.steps :
              /\ TransitionSteps(task, r)[s].body = task.steps[s].body
              /\ s # r.step => TransitionSteps(task, r)[s] = task.steps[s]
    BY <1>1, <2>5, StepsAreIndexed DEF TransitionSteps, Step
  <2> QED
    BY <2>1, <2>4, <2>5, <2>6
<1>3. CASE r \in DoneRequest
  <2>1. /\ r.op = "done"
        /\ r \notin AnyAddition
        /\ r.checkpoint \in MaybeCheckpoint
    BY <1>3 DEF DoneRequest, AnyAddition
  <2>2. /\ AcceptsDone(task, r)
        /\ Result(task, r) = Amended(WithCheckpoint(task, r.checkpoint), CompletedSteps(task, r))
    BY <2>1 DEF Accepts, Result, DoneResult, CompletedSteps
  <2>3. CompletedSteps(task, r) \in Seq(Step)
    BY <1>3, <2>2, DoneTyped
  <2>4. Result(task, r).steps = CompletedSteps(task, r)
    BY <2>1, <2>2, <2>3, CheckpointTyped, AmendedTyped
  <2>5. \A s \in ToComplete(task.steps, r.step) : ~ IsDone(task.steps, s)
    BY <2>2 DEF AcceptsDone, ToComplete, OpenUnder, HostCompletedBy
  <2>6. \A s \in DOMAIN task.steps : MarkDone(task.steps[s], task.revision + 1).body = task.steps[s].body
    BY <1>1, StepsAreIndexed DEF MarkDone, Step
  <2>7. /\ DOMAIN CompletedSteps(task, r) = DOMAIN task.steps
        /\ \A s \in DOMAIN task.steps :
              /\ CompletedSteps(task, r)[s].body = task.steps[s].body
              /\ IsDone(task.steps, s) => CompletedSteps(task, r)[s] = task.steps[s]
    BY <2>5, <2>6 DEF CompletedSteps
  <2> QED
    BY <2>1, <2>4, <2>7
<1>4. CASE r \in AnyAddition
  <2>1. Result(task, r) = Amended(task, ExtendedSteps(task, r))
    BY <1>4 DEF AnyAddition, Result, AddResult, ExtendedSteps
  <2>2. /\ ExtendedSteps(task, r) \in Seq(Step)
        /\ Len(ExtendedSteps(task, r)) = Len(task.steps) + 1
    BY <1>4, AddTyped
  <2>3. Result(task, r).steps = ExtendedSteps(task, r)
    BY <2>1, <2>2, AmendedTyped
  <2>4. DOMAIN ExtendedSteps(task, r) = DOMAIN task.steps \cup {NewStepId(task)}
    <3>1. /\ Len(task.steps) \in Nat
          /\ DOMAIN task.steps = 1..Len(task.steps)
          /\ DOMAIN ExtendedSteps(task, r) = 1..(Len(task.steps) + 1)
      BY <1>1, <2>2, StepsAreIndexed
    <3> QED
      BY <3>1 DEF NewStepId
  <2>5. BuildPendingStep(r.draft) \in Step /\ BuildPendingStep(r.draft).body = r.draft.body
    BY <1>4, PendingStepTyped DEF AnyAddition, BuildPendingStep
  <2>6. /\ \A s \in DOMAIN task.steps : ExtendedSteps(task, r)[s] = task.steps[s]
        /\ ExtendedSteps(task, r)[NewStepId(task)] = BuildPendingStep(r.draft)
    BY <1>1, <2>5, StepsAreIndexed DEF ExtendedSteps, NewStepId
  <2> QED
    BY <1>4, <2>3, <2>4, <2>5, <2>6
<1>5. CASE r \in CheckpointRequest
  <2>1. /\ r \notin AnyAddition
        /\ r.checkpoint \in MaybeCheckpoint
        /\ Result(task, r) = [WithCheckpoint(task, r.checkpoint) EXCEPT !.revision = @ + 1]
    BY <1>5 DEF CheckpointRequest, AnyAddition, MaybeCheckpoint, Result, CheckpointResult
  <2>2. Result(task, r).steps = task.steps
    BY <2>1, CheckpointTyped DEF Task
  <2> QED
    BY <2>1, <2>2
<1>6. CASE r \in ReviewsRequest
  <2>1. /\ r \notin AnyAddition
        /\ Result(task, r) = [task EXCEPT !.security = r.security, !.revision = @ + 1]
    BY <1>6 DEF ReviewsRequest, AnyAddition, Result, ReviewsResult
  <2>2. Result(task, r).steps = task.steps
    BY <2>1 DEF Task
  <2> QED
    BY <2>1, <2>2
<1> QED
  BY <1>2, <1>3, <1>4, <1>5, <1>6 DEF AnyRequest

\* Both hold of the requests with the drafts that callers submit.
LEMMA RequestsAreAny ==
    ASSUME DomainAssumption, NEW r \in Request
    PROVE  r \in AnyRequest /\ (r \in AddRequest <=> r \in AnyAddition)
BY DEF DomainAssumption, Request, AnyRequest, StartRequest, BlockRequest, DoneRequest, AddRequest,
       AnyAddition, CheckpointRequest, ReviewsRequest

LEMMA ResultSound ==
    ASSUME NEW task \in Task, NEW r \in Request, Accepts(task, r), DomainAssumption
    PROVE  /\ Result(task, r) \in Task
           /\ Result(task, r).revision = task.revision + 1
           /\ SoundTask(task) => SoundTask(Result(task, r))
BY RequestsAreAny, AnyResultSound

LEMMA ResultKeeps ==
    ASSUME NEW task \in Task, NEW r \in Request, Accepts(task, r), DomainAssumption
    PROVE  /\ \A s \in DOMAIN task.steps :
                 /\ s \in DOMAIN Result(task, r).steps
                 /\ Result(task, r).steps[s].body = task.steps[s].body
                 /\ IsDone(task.steps, s) => Result(task, r).steps[s] = task.steps[s]
           /\ IF r \in AddRequest
              THEN /\ DOMAIN Result(task, r).steps = DOMAIN task.steps \cup {NewStepId(task)}
                   /\ Result(task, r).steps[NewStepId(task)].body = r.draft.body
              ELSE DOMAIN Result(task, r).steps = DOMAIN task.steps
BY RequestsAreAny, AnyResultKeeps

-----------------------------------------------------------------------------
\* createTask publishes a sound document.
LEMMA CreatedSound ==
    ASSUME NEW n \in 0..MaxSteps, NEW drafts \in [1..n -> Drafts], CreatableDrafts(drafts),
           NEW mode \in ReviewMode, DomainAssumption
    PROVE  /\ CreatedTask(drafts, mode) \in Task
           /\ SoundTask(CreatedTask(drafts, mode))
           /\ CreatedTask(drafts, mode).revision = 1
           /\ DOMAIN CreatedTask(drafts, mode).steps = DOMAIN drafts
           /\ \A s \in DOMAIN drafts : CreatedTask(drafts, mode).steps[s].body = drafts[s].body
<1> DEFINE steps == [i \in DOMAIN drafts |-> BuildPendingStep(drafts[i])]
<1>1. /\ n \in Nat
      /\ n <= MaxSteps
      /\ DOMAIN drafts = 1..n
      /\ \A s \in 1..n : drafts[s] \in StepDraft
  BY DEF DomainAssumption
<1>2. steps \in Seq(Step) /\ Len(steps) = n /\ DOMAIN steps = 1..n
  <2>1. steps \in [1..n -> Step]
    BY <1>1, PendingStepTyped
  <2> QED
    BY <2>1, <1>1, StepsFromFunction
<1>3. \A s \in 1..n : /\ steps[s].body = drafts[s].body
                      /\ steps[s].parent = drafts[s].parent
                      /\ steps[s].status = "pending"
                      /\ steps[s].blockReason = NoReason
                      /\ steps[s].declaredDoneAt = 0
  BY <1>1 DEF BuildPendingStep
<1>4. WellNested(steps)
  <2> SUFFICES ASSUME NEW s \in 1..n, drafts[s].parent # NoParent
               PROVE  ParentRelation(s, drafts[s].parent, steps)
    BY <1>2, <1>3 DEF WellNested
  <2>1. ParentRelation(s, drafts[s].parent, SubSeq(drafts, 1, s - 1))
    BY <1>1 DEF CreatableDrafts
  <2>2. drafts \in Seq(StepDraft) /\ Len(drafts) = n
    BY <1>1
  <2>3. /\ DOMAIN SubSeq(drafts, 1, s - 1) = 1..(s - 1)
        /\ \A i \in 1..(s - 1) : SubSeq(drafts, 1, s - 1)[i] = drafts[i]
    BY <1>1, <2>2
  <2> QED
    BY <2>1, <2>3, <1>1, <1>2, <1>3 DEF ParentRelation
<1>5. HostsFollowChildren(steps)
  BY <1>2, <1>3 DEF HostsFollowChildren, OpenUnder, ChildrenOf, IsDone
<1>6. Annotated(steps)
  BY <1>2, <1>3 DEF Annotated, IsDone
<1>7. /\ CreatedTask(drafts, mode).steps = steps
      /\ CreatedTask(drafts, mode).status = DeriveTaskStatus(steps)
      /\ CreatedTask(drafts, mode).revision = 1
      /\ CreatedTask(drafts, mode).checkpoint = NoCheckpoint
      /\ CreatedTask(drafts, mode) \in Task
  BY <1>2, StatusTyped DEF CreatedTask, Task
<1> QED
  BY <1>1, <1>2, <1>3, <1>4, <1>5, <1>6, <1>7 DEF SoundTask, SoundSteps

-----------------------------------------------------------------------------
\* The next step of a sound list.
LEMMA FirstOfIsFirst ==
    ASSUME NEW S \in SUBSET Nat, S # {}
    PROVE  FirstOf(S) \in S /\ \A other \in S : FirstOf(S) <= other
<1> DEFINE Below == {pair \in Nat \X Nat : pair[1] < pair[2]}
<1>1. IsWellFoundedOn(Below, Nat)
  BY NatLessThanWellFounded, Zenon DEF OpToRel
<1> HIDE DEF Below
<1>2. PICK s \in S : \A other \in S : <<other, s>> \notin Below
  BY <1>1, WFMin, Zenon
<1>3. \A other \in S : s <= other
  <2> SUFFICES ASSUME NEW other \in S
               PROVE  s <= other
    OBVIOUS
  <2>1. <<other, s>> \in Nat \X Nat /\ <<other, s>>[1] = other /\ <<other, s>>[2] = s
    OBVIOUS
  <2>2. ~ (other < s)
    BY <1>2, <2>1 DEF Below
  <2> QED
    BY <2>2
<1> QED
  BY <1>3 DEF FirstOf

LEMMA NextStepOfSound ==
    ASSUME NEW steps \in Seq(Step), WellNested(steps), HostsFollowChildren(steps)
    PROVE  LET next == ComputeNextStepId(steps)
           IN  /\ next = NoStep <=> (steps = <<>> \/ DeriveTaskStatus(steps) = "done")
               /\ next # NoStep => ~ IsDone(steps, next) /\ OpenUnder(steps, next) = {}
<1> DEFINE top  == OpenUnder(steps, NoParent)
           first == FirstOf(top)
           kids == OpenUnder(steps, first)
           next == ComputeNextStepId(steps)
<1>1. /\ Len(steps) \in Nat
      /\ DOMAIN steps = 1..Len(steps)
      /\ \A s \in DOMAIN steps : steps[s] \in Step
  BY StepsAreIndexed
<1>2. /\ NoStep \notin DOMAIN steps
      /\ \A h : OpenUnder(steps, h) \in SUBSET Nat
      /\ \A h : OpenUnder(steps, h) \subseteq DOMAIN steps
  BY <1>1 DEF NoStep, OpenUnder, ChildrenOf
<1>3. \A h \in DOMAIN steps : \A k \in ChildrenOf(steps, h) : ChildrenOf(steps, k) = {}
  BY <1>1 DEF ChildrenOf, WellNested, ParentRelation, NoParent
<1>4. CASE top = {}
  <2>1. next = NoStep
    BY <1>4 DEF ComputeNextStepId
  <2>2. \A s \in DOMAIN steps : IsDone(steps, s)
    <3> SUFFICES ASSUME NEW s \in DOMAIN steps, ~ IsDone(steps, s)
                 PROVE  FALSE
      OBVIOUS
    <3>1. steps[s].parent # NoParent
      BY <1>4 DEF OpenUnder, ChildrenOf
    <3>2. /\ steps[s].parent \in DOMAIN steps
          /\ steps[steps[s].parent].parent = NoParent
          /\ s \in OpenUnder(steps, steps[s].parent)
      BY <3>1 DEF WellNested, ParentRelation, OpenUnder, ChildrenOf
    <3>3. ~ IsDone(steps, steps[s].parent)
      BY <3>2 DEF HostsFollowChildren, OpenUnder
    <3> QED
      BY <3>2, <3>3, <1>4 DEF OpenUnder, ChildrenOf
  <2>3. steps = <<>> \/ DeriveTaskStatus(steps) = "done"
    BY <2>2 DEF DeriveTaskStatus, IsDone
  <2> QED
    BY <2>1, <2>3
<1>5. CASE top # {}
  <2>1. /\ first \in DOMAIN steps
        /\ ~ IsDone(steps, first)
    <3>1. first \in top
      BY <1>2, <1>5, FirstOfIsFirst
    <3> QED
      BY <3>1 DEF OpenUnder, ChildrenOf
  <2>2. /\ steps # <<>>
        /\ DeriveTaskStatus(steps) # "done"
    BY <2>1 DEF DeriveTaskStatus
  <2>3. CASE kids = {}
    <3>1. next = first
      BY <2>3, <1>5 DEF ComputeNextStepId
    <3> QED
      BY <3>1, <2>1, <2>2, <2>3, <1>2
  <2>4. CASE kids # {}
    <3>1. next = FirstOf(kids)
      BY <2>4, <1>5 DEF ComputeNextStepId
    <3>2. next \in kids
      BY <3>1, <2>4, <1>2, FirstOfIsFirst
    <3>3. next \in DOMAIN steps /\ ~ IsDone(steps, next) /\ ChildrenOf(steps, next) = {}
      BY <3>2, <2>1, <1>3 DEF OpenUnder, ChildrenOf
    <3> QED
      BY <3>3, <2>2, <1>2 DEF OpenUnder
  <2> QED
    BY <2>3, <2>4
<1> QED
  BY <1>4, <1>5
=============================================================================
