--------------------------- MODULE TaskProjection ---------------------------
(***************************************************************************)
(* What a person sees of a task in the sidebar: `skynex task status` gives *)
(* the document, readTask (review-gate.ts) reduces it, projection          *)
(* (snapshot.ts) accepts or refuses the reduction on both sides of the     *)
(* RPC, and the view (tui.tsx) lays it out.  Four pieces of code read the  *)
(* same parent, status and counters without sharing any of them.           *)
(***************************************************************************)
EXTENDS TaskDomain, InOrder, SequencesExt

CONSTANT MaxBlockers    \* blockers a projection may carry

ASSUME ProjectionAssumption == MaxBlockers \in Nat \ {0}

-----------------------------------------------------------------------------
(* createTaskStatusView, what the command answers. *)

ToStatusStep(steps, s) ==
    [id |-> s, status |-> steps[s].status, dependsOn |-> steps[s].dependsOn,
     blockReason |-> steps[s].blockReason, parent |-> steps[s].parent]

StatusView(task) ==
    [status   |-> task.status,
     revision |-> task.revision,
     next     |-> ComputeNextStepId(task.steps),
     blocked  |-> {s \in DOMAIN task.steps : task.steps[s].status = "blocked"},
     steps    |-> [s \in DOMAIN task.steps |-> ToStatusStep(task.steps, s)]]

-----------------------------------------------------------------------------
(* readTask.  Ids are positions; null is NoStep. *)

Listed(view) == [s \in DOMAIN view.steps |-> [id     |-> view.steps[s].id,
                                              status |-> view.steps[s].status,
                                              parent |-> view.steps[s].parent]]

StartedStep(view) ==
    LET started == {s \in DOMAIN view.steps : view.steps[s].status = "in_progress"}
    IN  IF started = {} THEN NoStep ELSE FirstOf(started)

FewestBlockers(view) == {s \in view.blocked : Cardinality({b \in view.blocked : b < s}) < MaxBlockers}

ReducedTo(view, counted, security) ==
    [status    |-> view.status,
     steps     |-> Listed(view),
     total     |-> Cardinality(counted),
     doneCount |-> Cardinality({s \in counted : IsDone(view.steps, s)}),
     current   |-> StartedStep(view),
     next      |-> view.next,
     blockers  |-> FewestBlockers(view),
     security  |-> security]

\* Faulty: the counters are those of every step.
ReducedCountingAll(task) ==
    LET view == StatusView(task) IN ReducedTo(view, DOMAIN view.steps, task.security)

\* The counters are those of the top-level steps.
Reduced(task) ==
    LET view == StatusView(task) IN ReducedTo(view, ChildrenOf(view.steps, NoParent), task.security)

-----------------------------------------------------------------------------
(* projection: what either side of the RPC accepts. *)

ListAccepted(steps) ==
    /\ Len(steps) <= MaxSteps
    /\ \A s, other \in DOMAIN steps : steps[s].id = steps[other].id => s = other
    /\ \A s \in DOMAIN steps :
        /\ steps[s].status \in StepStatus
        /\ steps[s].parent # NoParent =>
            \E host \in DOMAIN steps :
                /\ steps[host].id = steps[s].parent
                /\ steps[host].id # steps[s].id
                /\ steps[host].parent = NoParent

\* The review marker of the view depends on it, so nothing but a mode passes.
ReviewsAccepted(security) == security \in ReviewMode

Accepted(p) ==
    LET top == {s \in DOMAIN p.steps : p.steps[s].parent = NoParent}
    IN  /\ p.status \in TaskStatus
        /\ ReviewsAccepted(p.security)
        /\ p.doneCount <= p.total
        /\ Cardinality(p.blockers) <= MaxBlockers
        /\ ListAccepted(p.steps)
        /\ Cardinality(p.blockers) <= Len(p.steps)
        /\ Cardinality(top) = p.total
        /\ Cardinality({s \in top : p.steps[s].status = "done"}) = p.doneCount

-----------------------------------------------------------------------------
(* The view. *)

\* "n pendientes" in the heading.
Pending(p) == p.total - p.doneCount

\* childrenOf; the steps without a parent are those under NoParent.
Under(p, id) == At(p.steps, {s \in DOMAIN p.steps : p.steps[s].parent = id})

Block(p, collapsed, top) ==
    LET kids == Under(p, top.id)
    IN  <<top.id>> \o IF top.id \in collapsed THEN <<>> ELSE [i \in DOMAIN kids |-> kids[i].id]

Rows(p, collapsed) ==
    LET tops == Under(p, NoParent)
    IN  FlattenSeq([i \in DOMAIN tops |-> Block(p, collapsed, tops[i])])

\* The "(1/2)" behind a collapsed step.
Progress(p, id) ==
    LET kids == {s \in DOMAIN p.steps : p.steps[s].parent = id}
    IN  <<Cardinality({s \in kids : p.steps[s].status = "done"}), Cardinality(kids)>>

\* The row in bold, or NoStep.
Active(p) == IF p.current # NoStep THEN p.current ELSE p.next

\* A click on a step that has children folds it.
Foldable(p) == {s \in DOMAIN p.steps : Progress(p, s)[2] > 0}
=============================================================================
