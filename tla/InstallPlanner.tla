---------------------------- MODULE InstallPlanner ----------------------------
(***************************************************************************)
(* What install and update decide to do to each file, and when they refuse *)
(* (packages/installer/src/index.ts), over the artifacts the OpenCode      *)
(* target wants (targets/opencode/src).                                    *)
(*                                                                         *)
(* A content is a value and stands for its digest: two digests are equal   *)
(* exactly when the contents are.  A resource's identity is its path.  The *)
(* shared configuration is the one file both Skynex and the user write: it *)
(* is a record of the plugins registered, the agent policy in it (0: none) *)
(* and everything else, which is the user's own.                           *)
(***************************************************************************)
EXTENDS Naturals, FiniteSets

CONSTANTS
    Config,         \* the path of opencode.json or opencode.jsonc
    Paths,          \* every other path
    Component,      \* Component[p]: "agents", "skills" or "plugins"
    Releases,       \* Releases[r]: what release r ships, path -> content
    Policy,         \* Policy[r]: the agent policy of release r
    Plugins,        \* MANAGED_PLUGINS: the paths the configuration registers
    EmptyConfig,    \* "{}"
    None

ASSUME PlannerAssumption ==
    /\ Config \notin Paths
    /\ Plugins \subseteq Paths
    /\ \A r \in DOMAIN Releases : DOMAIN Releases[r] \subseteq Paths

AllComponents == {"configuration", "agents", "skills", "plugins"}

ComponentOf(p) == IF p = Config THEN "configuration" ELSE Component[p]

-----------------------------------------------------------------------------
(* The target: the configuration is merged, everything else is shipped.    *)

Base(content) == IF content = None THEN EmptyConfig ELSE content

\* mergeConfig adds what is missing and overwrites the policy of its agents.
Merged(content, r, components) ==
    [Base(content) EXCEPT
        !.registered = IF "plugins" \in components THEN @ \cup Plugins ELSE @,
        !.policy     = IF "configuration" \in components THEN Policy[r] ELSE @]

\* Faulty: only the agents are taken out.
UnmergedAgents(content, r, components) ==
    [content EXCEPT !.policy = IF "configuration" \in components /\ @ = Policy[r] THEN 0 ELSE @]

\* removeManagedPlugin takes out what it recognises: a policy of another
\* release stays, and so does everything of the user.
Unmerged(content, r, components) ==
    [content EXCEPT
        !.registered = IF "plugins" \in components THEN @ \ Plugins ELSE @,
        !.policy     = IF "configuration" \in components /\ @ = Policy[r] THEN 0 ELSE @]

Artifacts(r, components) ==
    {p \in DOMAIN Releases[r] : Component[p] \in components}
        \cup (IF components \cap {"configuration", "plugins"} = {} THEN {} ELSE {Config})

Desired(p, r, components, current) ==
    IF p = Config THEN Merged(current, r, components) ELSE Releases[r][p]

-----------------------------------------------------------------------------
(* createInstallPlan.  A plan maps each path to one operation.             *)

Resources(lock) == IF lock = None THEN <<>> ELSE lock.resources

Prior(lock, p) == IF p \in DOMAIN Resources(lock) THEN lock.resources[p] ELSE None

Kind(p, current, desired, prior) ==
    IF current # None /\ prior = None /\ p # Config THEN "conflict"
    ELSE IF current = None THEN "create"
    ELSE IF current = desired THEN "unchanged"
    ELSE "replace"

Operation(p, r, components, files, lock) ==
    LET desired == Desired(p, r, components, files[p])
    IN  [kind |-> Kind(p, files[p], desired, Prior(lock, p)), current |-> files[p],
         desired |-> desired, previous |-> Prior(lock, p), decision |-> None]

\* A resource the whole catalog no longer ships is removed.
Dropped(r, lock) == DOMAIN Resources(lock) \ (DOMAIN Releases[r] \cup {Config})

Removal(p, files) ==
    [kind |-> "remove", current |-> files[p], desired |-> None, previous |-> None, decision |-> None]

CreatePlan(r, components, files, lock) ==
    [p \in Artifacts(r, components) \cup Dropped(r, lock) |->
        IF p \in Dropped(r, lock) THEN Removal(p, files)
        ELSE Operation(p, r, components, files, lock)]

OfKind(plan, kind) == {p \in DOMAIN plan : plan[p].kind = kind}

\* resolveInstallCollisions: the person overwrites some, and preserves the rest.
Resolved(plan, overwritten) ==
    [p \in DOMAIN plan |->
        IF plan[p].kind # "conflict" THEN plan[p]
        ELSE IF p \in overwritten
             THEN [plan[p] EXCEPT !.kind = "replace", !.decision = "accept-upstream"]
             ELSE [plan[p] EXCEPT !.kind = "preserve", !.decision = "preserve"]]

-----------------------------------------------------------------------------
(* prepareUpdatePlan: what the release changed against what the user did.  *)

Converged(prior, desired) == [prior EXCEPT !.source = desired, !.installed = desired, !.pending = None]

KeptAside == {"keep-local", "skip"}

Decided(op, prior, decision) ==
    [op EXCEPT !.decision = decision, !.previous = prior,
               !.kind = IF decision \in KeptAside THEN "unchanged"
                        ELSE IF decision = "accept-upstream" THEN "replace" ELSE "conflict"]

\* changed: whether the person is taken to have edited the resource.
Review(op, prior, decision, changed) ==
    LET pending == prior.pending # None
        kept    == [prior EXCEPT !.pending   = op.desired,
                                 !.installed = IF changed \/ pending THEN op.current ELSE @]
    IN  IF op.desired = prior.source /\ ~pending
        THEN [op EXCEPT !.kind = "unchanged",
                        !.decision = IF changed THEN "preserve" ELSE @,
                        !.previous = IF changed THEN [prior EXCEPT !.installed = op.current] ELSE prior]
        ELSE IF op.current = op.desired
        THEN [op EXCEPT !.kind = "unchanged", !.previous = Converged(prior, op.desired)]
        ELSE IF ~changed /\ ~pending /\ decision = None
        THEN [op EXCEPT !.previous = prior]
        ELSE Decided(op, IF decision \in KeptAside THEN kept ELSE prior, decision)

\* Faulty: an edit is what differs from the installed digest.
ReviewedByInstalled(op, prior, decision) == Review(op, prior, decision, op.current # prior.installed)

Reviewed(op, prior, decision) == Review(op, prior, decision, op.current # prior.source)

\* decisions[p] is None where the person was not asked.
PreparedForUpdate(plan, lock, decisions) ==
    [p \in DOMAIN plan |->
        IF plan[p].kind = "remove" \/ Prior(lock, p) = None THEN plan[p]
        ELSE Reviewed(plan[p], Prior(lock, p), decisions[p])]

\* "Managed resource is missing": update refuses.
MissingResource(plan, lock) ==
    \E p \in DOMAIN plan :
        plan[p].kind # "remove" /\ Prior(lock, p) # None /\ plan[p].current = None

-----------------------------------------------------------------------------
(* applyInstallPlan.                                                       *)

\* An operation the plan must not carry out, with the lock as it is.
Refused(p, op, lock, update) ==
    LET owned    == Prior(lock, p)
        reviewed == update /\ op.decision # None
        agreed   == op.decision # None /\ op.kind \in {"replace", "preserve"}
    IN  \/ op.kind = "conflict"
        \/ op.current # None /\ owned = None /\ p # Config /\ ~agreed
        \/ /\ owned # None
           /\ op.kind = "remove" \/ op.current # op.desired
           /\ \/ op.current # owned.installed /\ ~reviewed
              \/ ~update /\ (owned.pending # None \/ op.current # owned.source)

Refuses(plan, lock, update) == \E p \in DOMAIN plan : Refused(p, plan[p], lock, update)

\* Faulty: an unchanged resource keeps its entry.
RecordedAsBefore(op) ==
    IF op.previous # None /\ op.kind = "unchanged" THEN op.previous
    ELSE [source |-> op.desired, installed |-> op.desired, pending |-> None]

Recorded(op) ==
    IF op.previous # None /\ op.kind = "unchanged"
    THEN IF op.current = op.desired THEN Converged(op.previous, op.desired) ELSE op.previous
    ELSE [source |-> op.desired, installed |-> op.desired, pending |-> None]

FilesAfter(plan, files) ==
    [p \in DOMAIN files |->
        IF p \notin DOMAIN plan \/ plan[p].kind \in {"unchanged", "preserve"} THEN files[p]
        ELSE plan[p].desired]

ResourcesAfter(plan, lock) ==
    LET owned  == DOMAIN plan \ OfKind(plan, "preserve")
        listed == owned \ OfKind(plan, "remove")
    IN  [p \in (DOMAIN Resources(lock) \ owned) \cup listed |->
            IF p \in listed THEN Recorded(plan[p]) ELSE lock.resources[p]]
===============================================================================
