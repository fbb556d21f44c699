------------------------- MODULE InstallLifecycleProofs -------------------------
(***************************************************************************)
(* For any releases, selections, answers and edits: the lock knows the     *)
(* files, a person's edits stay, and what is registered is there.  For any *)
(* tree of directories, overrides and links: tasks that a directory finds  *)
(* stay found, and one configuration at a site holds Skynex's part.  For   *)
(* any releases that follow one another: the lock they leave can be read.  *)
(*                                                                         *)
(* The three share no state: each has its own invariant.                   *)
(***************************************************************************)
EXTENDS InstallLifecycle, Places, Catalog, TLAPS, FiniteSetTheorems

-----------------------------------------------------------------------------
(* Installations. *)

Typed ==
    /\ DOMAIN files = AllPaths
    /\ \A p \in AllPaths : files[p] \in Contents(p) \cup {None}
    /\ lock = None \/ lock = NewLock(lock.version, lock.components, lock.resources)
    /\ DOMAIN Resources(lock) \subseteq AllPaths
    /\ \A p \in DOMAIN Resources(lock) : lock.resources[p] \in LockEntries(p)

\* Who lists a plugin lists the configuration that registers it.
ConfigOwned == DOMAIN Resources(lock) \cap Plugins # {} => Config \in DOMAIN Resources(lock)

LifeInv == Typed /\ ConfigOwned /\ LockKnowsTheFile

LEMMA PriorIs ==
    ASSUME Typed, NEW p \in AllPaths
    PROVE  \/ p \notin DOMAIN Resources(lock) /\ Prior(lock, p) = None
           \/ /\ p \in DOMAIN Resources(lock) /\ Prior(lock, p) = lock.resources[p]
              /\ Prior(lock, p) \in LockEntries(p) /\ Prior(lock, p) # None
BY LifecycleAssumption DEF Prior, Typed

LEMMA ArtifactsArePaths ==
    ASSUME NEW r \in DOMAIN Releases, NEW components
    PROVE  Artifacts(r, components) \subseteq AllPaths
BY PlannerAssumption DEF Artifacts, AllPaths

\* Whatever the configuration is, it stays one.
LEMMA DesiredIsOffered ==
    ASSUME Typed, NEW r \in DOMAIN Releases, NEW components, NEW p \in Artifacts(r, components)
    PROVE  /\ Desired(p, r, components, files[p]) \in Offered(p)
           /\ Desired(p, r, components, files[p]) # None
<1>1. CASE p = Config
    <2> DEFINE base == Base(files[p])
    <2>1. base \in Configurations
        BY <1>1, LifecycleAssumption DEF Base, Typed, Contents, Offered, AllPaths
    <2>2. Policy[r] \in {0} \cup {Policy[q] : q \in DOMAIN Releases}
        OBVIOUS
    <2> HIDE DEF base
    <2>3. [base EXCEPT !.registered = IF "plugins" \in components THEN @ \cup Plugins ELSE @,
                       !.policy     = IF "configuration" \in components THEN Policy[r] ELSE @]
            \in Configurations
        BY <2>1, <2>2 DEF Configurations
    <2>4. Desired(p, r, components, files[p]) \in Configurations
        BY <1>1, <2>3 DEF Desired, Merged, base
    <2> QED BY <1>1, <2>4, LifecycleAssumption DEF Offered
<1>2. CASE p # Config
    <2>1. p \in DOMAIN Releases[r]
        BY <1>2 DEF Artifacts
    <2>2. Releases[r][p] \in Upstream
        BY <2>1 DEF Upstream
    <2> QED BY <1>2, <2>2, LifecycleAssumption DEF Desired, Offered
<1> QED BY <1>1, <1>2

-----------------------------------------------------------------------------
(* One operation of a plan that is carried out. *)

\* How it came about: a removal; a resource nobody owns, which the person may
\* have decided about; an owned one that is installed again; an owned one that
\* an update reviewed.
Drawn(p, op, r, components, update, given) ==
    LET prior == Prior(lock, p)
        drawn == Operation(p, r, components, files, lock)
    IN  \/ p \in Dropped(r, lock) /\ op = Removal(p, files)
        \/ /\ p \in Artifacts(r, components) \ Dropped(r, lock)
           /\ \/ prior = None /\ op = drawn
              \/ prior = None /\ drawn.kind = "conflict" /\ p \in given
                    /\ op = [drawn EXCEPT !.kind = "replace", !.decision = "accept-upstream"]
              \/ prior = None /\ drawn.kind = "conflict"
                    /\ op = [drawn EXCEPT !.kind = "preserve", !.decision = "preserve"]
              \/ prior # None /\ ~update /\ op = drawn
              \/ /\ prior # None /\ update /\ files[p] # None
                 /\ \E decision \in {None, "keep-local", "skip", "accept-upstream"} :
                       /\ op = Reviewed(drawn, prior, decision)
                       /\ decision = "accept-upstream" => p \in given

\* What it leaves in the file, and does not take.
Leaves(op) == IF op.kind \in {"unchanged", "preserve"} THEN op.current ELSE op.desired

Faithful(entry, content) ==
    entry.installed = content \/ (entry.source = content /\ entry.pending # None)

Done(p, op, r, components, given) ==
    /\ op.current = files[p]
    /\ p \in Dropped(r, lock) => op.kind = "remove" /\ op.desired = None
    /\ p \notin Dropped(r, lock) =>
        /\ op.kind \in {"create", "unchanged", "replace", "preserve"}
        /\ op.desired = Desired(p, r, components, files[p])
        /\ op.kind \in {"unchanged", "preserve"} => files[p] # None
        /\ op.kind = "preserve" => p \notin DOMAIN Resources(lock) /\ p # Config
        /\ op.kind # "preserve" => Recorded(op) \in LockEntries(p) /\ Faithful(Recorded(op), Leaves(op))
        /\ (p # Config /\ files[p] \in Mine /\ op.kind \notin {"unchanged", "preserve"}) => p \in given

LEMMA OperationIs ==
    ASSUME NEW p, NEW r, NEW components
    PROVE  LET op == Operation(p, r, components, files, lock)
           IN  /\ op = [kind |-> Kind(p, files[p], Desired(p, r, components, files[p]), Prior(lock, p)),
                        current |-> files[p], desired |-> Desired(p, r, components, files[p]),
                        previous |-> Prior(lock, p), decision |-> None]
               /\ op.kind = Kind(p, files[p], Desired(p, r, components, files[p]), Prior(lock, p))
               /\ op.current = files[p] /\ op.desired = Desired(p, r, components, files[p])
               /\ op.previous = Prior(lock, p) /\ op.decision = None
BY DEF Operation

\* A freshly recorded resource.
LEMMA FreshIs ==
    ASSUME NEW p \in AllPaths, NEW op, op.desired \in Offered(p),
           op.previous = None \/ op.kind # "unchanged"
    PROVE  /\ Recorded(op) \in LockEntries(p)
           /\ Recorded(op).installed = op.desired
BY DEF Recorded, LockEntries, Contents

\* One that has come to be what the release ships.
LEMMA ConvergedIs ==
    ASSUME NEW p \in AllPaths, NEW entry \in LockEntries(p), NEW desired \in Offered(p)
    PROVE  /\ Converged(entry, desired) \in LockEntries(p)
           /\ Converged(entry, desired).installed = desired
<1>1. entry = [source |-> entry.source, installed |-> entry.installed, pending |-> entry.pending]
    BY DEF LockEntries
<1>2. Converged(entry, desired) \in [source : {desired}, installed : {desired}, pending : {None}]
    BY <1>1 DEF Converged
<1> QED BY <1>2 DEF LockEntries, Contents

\* What an update makes of an operation on an owned resource.
Settled(p, op, new, prior, decision) ==
    /\ new.current = op.current /\ new.desired = op.desired
    /\ new.kind \in {"conflict", "unchanged", "replace"}
    /\ new.kind # "conflict" =>
        Recorded(new) \in LockEntries(p) /\ Faithful(Recorded(new), Leaves(new))
    /\ (new.kind = "replace" /\ op.current # prior.source) => decision = "accept-upstream"

LEMMA ReviewIs ==
    ASSUME NEW p \in AllPaths, NEW prior \in LockEntries(p), NEW op,
           op = [kind |-> op.kind, current |-> op.current, desired |-> op.desired,
                 previous |-> op.previous, decision |-> op.decision],
           op.desired \in Offered(p), op.desired # None,
           op.current \in Contents(p), op.current # None,
           op.kind = IF op.current = op.desired THEN "unchanged" ELSE "replace",
           NEW decision \in {None, "keep-local", "skip", "accept-upstream"}
    PROVE  Settled(p, op, Reviewed(op, prior, decision), prior, decision)
<1> DEFINE new     == Reviewed(op, prior, decision)
           changed == op.current # prior.source
           pending == prior.pending # None
           seen    == [prior EXCEPT !.installed = op.current]
           kept    == [prior EXCEPT !.pending   = op.desired,
                                    !.installed = IF changed \/ pending THEN op.current ELSE @]
<1> SUFFICES Settled(p, op, new, prior, decision)
    OBVIOUS
<1>1. /\ prior = [source |-> prior.source, installed |-> prior.installed, pending |-> prior.pending]
      /\ prior.source \in Offered(p) /\ prior.installed \in Contents(p)
      /\ prior.pending \in Offered(p) \cup {None} /\ prior # None
    BY LifecycleAssumption DEF LockEntries
<1>2. /\ seen \in LockEntries(p) /\ seen # None
      /\ seen.installed = op.current /\ seen.source = prior.source /\ seen.pending = prior.pending
    <2>1. seen = [source |-> prior.source, installed |-> op.current, pending |-> prior.pending]
        BY <1>1
    <2> QED BY <1>1, <2>1, LifecycleAssumption DEF LockEntries
<1>3. /\ kept \in LockEntries(p) /\ kept # None
      /\ kept.source = prior.source /\ kept.pending = op.desired
      /\ changed \/ pending => kept.installed = op.current
    <2> DEFINE here == IF changed \/ pending THEN op.current ELSE prior.installed
    <2>1. here \in Contents(p)
        BY <1>1
    <2>2. kept \in [source : {prior.source}, installed : {here}, pending : {op.desired}]
        BY <1>1
    <2>3. changed \/ pending => here = op.current
        OBVIOUS
    <2> HIDE DEF here, kept
    <2> QED BY <1>1, <2>1, <2>2, <2>3, LifecycleAssumption DEF LockEntries
<1>4. \A entry \in LockEntries(p) : /\ Converged(entry, op.desired) \in LockEntries(p)
                                    /\ Converged(entry, op.desired).installed = op.desired
    BY ConvergedIs
<1>5. \* what is left unchanged is recorded as it was found
      ASSUME NEW entry \in LockEntries(p), entry # None,
             new.kind = "unchanged", new.previous = entry, new.current = op.current, new.desired = op.desired,
             op.current = op.desired \/ Faithful(entry, op.current)
      PROVE  Recorded(new) \in LockEntries(p) /\ Faithful(Recorded(new), Leaves(new))
    <2> HIDE DEF new
    <2>1. Leaves(new) = op.current
        BY <1>5 DEF Leaves
    <2>2. CASE op.current = op.desired
        <3>1. Recorded(new) = Converged(entry, op.desired)
            BY <1>5, <2>2 DEF Recorded
        <3> QED BY <1>4, <2>1, <2>2, <3>1 DEF Faithful
    <2>3. CASE op.current # op.desired
        <3>1. Recorded(new) = entry
            BY <1>5, <2>3 DEF Recorded
        <3> QED BY <1>5, <2>1, <2>3, <3>1
    <2> QED BY <2>2, <2>3
<1>6. \* and what is replaced, as the release has it
      ASSUME new.kind = "replace", new.current = op.current, new.desired = op.desired
      PROVE  Recorded(new) \in LockEntries(p) /\ Faithful(Recorded(new), Leaves(new))
    <2> HIDE DEF new
    <2>1. Leaves(new) = new.desired
        BY <1>6 DEF Leaves
    <2> QED BY <1>6, <2>1, FreshIs DEF Faithful
<1> HIDE DEF seen, kept
<1>7. CASE op.desired = prior.source /\ ~pending
    <2>1. CASE changed
        <3>1. new = [op EXCEPT !.kind = "unchanged", !.decision = "preserve", !.previous = seen]
            BY <1>7, <2>1 DEF Reviewed, Review, seen
        <3>2. new.kind = "unchanged" /\ new.previous = seen /\ new.current = op.current /\ new.desired = op.desired
            BY <3>1
        <3> HIDE DEF new
        <3>3. Faithful(seen, op.current)
            BY <1>2 DEF Faithful
        <3> QED BY <1>2, <1>5, <3>2, <3>3 DEF Settled
    <2>2. CASE ~changed
        <3>1. new = [op EXCEPT !.kind = "unchanged", !.decision = @, !.previous = prior]
            BY <1>7, <2>2 DEF Reviewed, Review
        <3>2. new.kind = "unchanged" /\ new.previous = prior /\ new.current = op.current /\ new.desired = op.desired
            BY <3>1
        <3> HIDE DEF new
        <3>3. op.current = op.desired
            BY <1>7, <2>2
        <3> QED BY <1>1, <1>5, <3>2, <3>3 DEF Settled
    <2> QED BY <2>1, <2>2
<1>8. CASE ~(op.desired = prior.source /\ ~pending) /\ op.current = op.desired
    <2>1. new = [op EXCEPT !.kind = "unchanged", !.previous = Converged(prior, op.desired)]
        BY <1>8 DEF Reviewed, Review
    <2>2. /\ new.kind = "unchanged" /\ new.previous = Converged(prior, op.desired)
          /\ new.current = op.current /\ new.desired = op.desired
        BY <2>1
    <2> HIDE DEF new
    <2> QED BY <1>4, <1>5, <1>8, <2>2, LifecycleAssumption DEF Settled
<1>9. CASE /\ ~(op.desired = prior.source /\ ~pending) /\ op.current # op.desired
           /\ ~changed /\ ~pending /\ decision = None
    <2>1. new = [op EXCEPT !.previous = prior]
        BY <1>9 DEF Reviewed, Review
    <2>2. new.kind = "replace" /\ new.current = op.current /\ new.desired = op.desired
        BY <1>9, <2>1
    <2> HIDE DEF new
    <2> QED BY <1>6, <1>9, <2>2 DEF Settled
<1>10. CASE /\ ~(op.desired = prior.source /\ ~pending) /\ op.current # op.desired
            /\ ~(~changed /\ ~pending /\ decision = None)
    <2> DEFINE base == IF decision \in KeptAside THEN kept ELSE prior
    <2>1. new = Decided(op, base, decision)
        BY <1>10 DEF Reviewed, Review, kept
    <2> HIDE DEF base
    <2>2. /\ new.current = op.current /\ new.desired = op.desired /\ new.previous = base
          /\ new.kind = IF decision \in KeptAside THEN "unchanged"
                        ELSE IF decision = "accept-upstream" THEN "replace" ELSE "conflict"
        BY <2>1 DEF Decided
    <2> HIDE DEF new
    <2>3. CASE decision \in KeptAside
        <3>1. new.kind = "unchanged" /\ new.previous = kept
            BY <2>2, <2>3 DEF base
        <3>2. Faithful(kept, op.current)
            BY <1>3 DEF Faithful
        <3> QED BY <1>3, <1>5, <2>2, <3>1, <3>2 DEF Settled
    <2>4. CASE decision \notin KeptAside
        BY <1>6, <2>2, <2>4 DEF Settled
    <2> QED BY <2>3, <2>4
<1> QED BY <1>7, <1>8, <1>9, <1>10

\* Every operation that is carried out is one that may be.
LEMMA DrawnIsDone ==
    ASSUME Typed, NEW r \in DOMAIN Releases, NEW components, NEW update \in BOOLEAN, NEW given,
           NEW p, NEW op, Drawn(p, op, r, components, update, given), ~Refused(p, op, lock, update)
    PROVE  Done(p, op, r, components, given)
<1> DEFINE prior   == Prior(lock, p)
           drawn   == Operation(p, r, components, files, lock)
           desired == Desired(p, r, components, files[p])
<1>1. CASE p \in Dropped(r, lock)
    <2>1. op = Removal(p, files)
        BY <1>1 DEF Drawn
    <2> QED BY <1>1, <2>1 DEF Done, Removal
<1>2. CASE p \notin Dropped(r, lock)
    <2>1. p \in Artifacts(r, components) /\ p \in AllPaths
        BY <1>2, ArtifactsArePaths DEF Drawn
    <2>2. /\ desired \in Offered(p) /\ desired # None
          /\ files[p] \in Contents(p) \cup {None}
        BY <2>1, DesiredIsOffered DEF Typed
    <2>3. /\ drawn = [kind |-> Kind(p, files[p], desired, prior), current |-> files[p],
                      desired |-> desired, previous |-> prior, decision |-> None]
          /\ drawn.kind = Kind(p, files[p], desired, prior)
          /\ drawn.current = files[p] /\ drawn.desired = desired
          /\ drawn.previous = prior /\ drawn.decision = None
        BY OperationIs
    <2>4. \/ p \notin DOMAIN Resources(lock) /\ prior = None
          \/ p \in DOMAIN Resources(lock) /\ prior \in LockEntries(p) /\ prior # None
        BY <2>1, PriorIs
    <2>5. op.kind # "conflict"
        BY DEF Refused
    <2>6. (p # Config /\ files[p] \in Mine) => files[p] \notin Offered(p) /\ files[p] # None
        BY LifecycleAssumption DEF Offered
    <2>7. CASE prior = None /\ op = drawn
        <3>1. /\ op.kind = Kind(p, files[p], desired, prior) /\ op.current = files[p]
              /\ op.desired = desired /\ op.previous = None
            BY <2>3, <2>7
        <3>2. /\ op.kind \in {"create", "unchanged", "replace"}
              /\ op.kind = "create" => files[p] = None
              /\ op.kind = "unchanged" => files[p] # None /\ files[p] = desired
              /\ op.kind = "replace" => p = Config
            BY <2>5, <2>7, <3>1 DEF Kind
        <3>3. Recorded(op) \in LockEntries(p) /\ Recorded(op).installed = desired
            BY <2>1, <2>2, <3>1, FreshIs
        <3>4. Leaves(op) = desired
            BY <3>1, <3>2 DEF Leaves
        <3> QED BY <1>2, <2>6, <3>1, <3>2, <3>3, <3>4 DEF Done, Faithful
    <2>8. CASE /\ prior = None /\ drawn.kind = "conflict"
               /\ p \in given /\ op = [drawn EXCEPT !.kind = "replace", !.decision = "accept-upstream"]
        <3>1. /\ op.kind = "replace" /\ op.current = files[p] /\ op.desired = desired
            BY <2>3, <2>8
        <3>2. Recorded(op) \in LockEntries(p) /\ Recorded(op).installed = desired
            BY <2>1, <2>2, <3>1, FreshIs
        <3>3. Leaves(op) = desired
            BY <3>1 DEF Leaves
        <3> QED BY <1>2, <2>8, <3>1, <3>2, <3>3 DEF Done, Faithful
    <2>9. CASE /\ prior = None /\ drawn.kind = "conflict"
               /\ op = [drawn EXCEPT !.kind = "preserve", !.decision = "preserve"]
        <3>1. op.kind = "preserve" /\ op.current = files[p] /\ op.desired = desired
            BY <2>3, <2>9
        <3>2. files[p] # None /\ p # Config
            BY <2>3, <2>9 DEF Kind
        <3> QED BY <1>2, <2>4, <2>9, <3>1, <3>2 DEF Done
    <2>10. CASE prior # None /\ ~update /\ op = drawn
        <3>1. /\ op.kind = Kind(p, files[p], desired, prior) /\ op.current = files[p]
              /\ op.desired = desired /\ op.previous = prior
            BY <2>3, <2>10
        <3>2. /\ op.kind \in {"create", "unchanged", "replace"}
              /\ op.kind = "create" => files[p] = None
              /\ op.kind = "unchanged" => files[p] # None /\ files[p] = desired
              /\ op.kind = "replace" => files[p] # desired
            BY <2>10, <3>1 DEF Kind
        <3>3. op.kind = "replace" => files[p] = prior.source
            BY <2>10, <3>1, <3>2 DEF Refused
        <3>4. (p # Config /\ files[p] \in Mine) => op.kind = "unchanged"
            <4>1. prior.source \in Offered(p)
                BY <2>4, <2>10 DEF LockEntries
            <4> QED BY <2>6, <3>2, <3>3, <4>1
        <3>5. Recorded(op) \in LockEntries(p) /\ Recorded(op).installed = desired
            <4>1. CASE op.kind = "unchanged"
                <5>1. Recorded(op) = Converged(prior, desired)
                    BY <2>10, <3>1, <3>2, <4>1 DEF Recorded
                <5> QED BY <2>1, <2>2, <2>4, <2>10, <5>1, ConvergedIs
            <4>2. CASE op.kind # "unchanged"
                BY <2>1, <2>2, <3>1, <4>2, FreshIs
            <4> QED BY <4>1, <4>2
        <3>6. Leaves(op) = desired
            BY <3>1, <3>2 DEF Leaves
        <3> QED BY <1>2, <3>1, <3>2, <3>4, <3>5, <3>6 DEF Done, Faithful
    <2>11. CASE /\ prior # None /\ update /\ files[p] # None
                /\ \E decision \in {None, "keep-local", "skip", "accept-upstream"} :
                      /\ op = Reviewed(drawn, prior, decision)
                      /\ decision = "accept-upstream" => p \in given
        <3>1. PICK decision \in {None, "keep-local", "skip", "accept-upstream"} :
                  /\ op = Reviewed(drawn, prior, decision)
                  /\ decision = "accept-upstream" => p \in given
            BY <2>11
        <3>2. drawn.kind = IF drawn.current = drawn.desired THEN "unchanged" ELSE "replace"
            BY <2>3, <2>11 DEF Kind
        <3>3. drawn = [kind |-> drawn.kind, current |-> drawn.current, desired |-> drawn.desired,
                       previous |-> drawn.previous, decision |-> drawn.decision]
            BY <2>3
        <3>4. prior \in LockEntries(p) /\ prior.source \in Offered(p)
            BY <2>4, <2>11 DEF LockEntries
        <3>5. /\ drawn.desired \in Offered(p) /\ drawn.desired # None
              /\ drawn.current \in Contents(p) /\ drawn.current # None
            BY <2>2, <2>3, <2>11
        <3> HIDE DEF drawn, prior, desired
        <3>6. Settled(p, drawn, op, prior, decision)
            BY <2>1, <3>1, <3>2, <3>3, <3>4, <3>5, ReviewIs
        <3>7. /\ op.current = files[p] /\ op.desired = desired
              /\ op.kind \in {"unchanged", "replace"}
              /\ Recorded(op) \in LockEntries(p) /\ Faithful(Recorded(op), Leaves(op))
              /\ (op.kind = "replace" /\ files[p] # prior.source) => decision = "accept-upstream"
            BY <2>3, <2>5, <3>6 DEF Settled
        <3> QED BY <1>2, <2>6, <2>11, <3>1, <3>4, <3>7 DEF Done, desired
    <2> HIDE DEF prior, drawn, desired
    <2>12. \/ prior = None /\ op = drawn
           \/ prior = None /\ drawn.kind = "conflict" /\ p \in given
                 /\ op = [drawn EXCEPT !.kind = "replace", !.decision = "accept-upstream"]
           \/ prior = None /\ drawn.kind = "conflict"
                 /\ op = [drawn EXCEPT !.kind = "preserve", !.decision = "preserve"]
           \/ prior # None /\ ~update /\ op = drawn
           \/ /\ prior # None /\ update /\ files[p] # None
              /\ \E decision \in {None, "keep-local", "skip", "accept-upstream"} :
                    /\ op = Reviewed(drawn, prior, decision)
                    /\ decision = "accept-upstream" => p \in given
        BY <1>2 DEF Drawn, prior, drawn
    <2> QED BY <2>7, <2>8, <2>9, <2>10, <2>11, <2>12
<1> QED BY <1>1, <1>2

-----------------------------------------------------------------------------
(* The plans of the commands. *)

Commanded(plan, r, components, update, given) ==
    /\ DOMAIN plan = Artifacts(r, components) \cup Dropped(r, lock)
    /\ \A p \in DOMAIN plan : Drawn(p, plan[p], r, components, update, given)

\* A plan as it is created: who owns a resource has no collision on it.
LEMMA BaseIs ==
    ASSUME NEW r, NEW components
    PROVE  LET base == CreatePlan(r, components, files, lock)
           IN  /\ DOMAIN base = Artifacts(r, components) \cup Dropped(r, lock)
               /\ \A p \in DOMAIN base :
                    \/ /\ p \in Dropped(r, lock) /\ base[p] = Removal(p, files)
                       /\ base[p].kind = "remove"
                    \/ /\ p \in Artifacts(r, components) \ Dropped(r, lock)
                       /\ base[p] = Operation(p, r, components, files, lock)
                       /\ base[p].current = files[p]
                       /\ base[p].kind \in {"conflict", "create", "unchanged", "replace"}
                       /\ base[p].kind = "conflict" => Prior(lock, p) = None
BY DEF CreatePlan, Removal, Operation, Kind

Answers(op, resolved, overwrite) ==
    \/ op.kind # "conflict" /\ resolved = op
    \/ /\ op.kind = "conflict" /\ overwrite
       /\ resolved = [op EXCEPT !.kind = "replace", !.decision = "accept-upstream"]
    \/ /\ op.kind = "conflict" /\ ~overwrite
       /\ resolved = [op EXCEPT !.kind = "preserve", !.decision = "preserve"]

LEMMA ResolvedIs ==
    ASSUME NEW plan, NEW overwritten
    PROVE  /\ DOMAIN Resolved(plan, overwritten) = DOMAIN plan
           /\ \A p \in DOMAIN plan : Answers(plan[p], Resolved(plan, overwritten)[p], p \in overwritten)
BY DEF Resolved, Answers

LEMMA InstallsAreDrawn ==
    ASSUME NEW r \in DOMAIN Releases, NEW components, NEW overwritten
    PROVE  LET base == CreatePlan(r, components, files, lock)
           IN  /\ Commanded(base, r, components, FALSE, {})
               /\ Commanded(Resolved(base, overwritten), r, components, FALSE, overwritten)
<1> DEFINE base == CreatePlan(r, components, files, lock)
           resolved == Resolved(base, overwritten)
<1>1. /\ DOMAIN base = Artifacts(r, components) \cup Dropped(r, lock)
      /\ \A p \in DOMAIN base :
            \/ /\ p \in Dropped(r, lock) /\ base[p] = Removal(p, files)
               /\ base[p].kind = "remove"
            \/ /\ p \in Artifacts(r, components) \ Dropped(r, lock)
               /\ base[p] = Operation(p, r, components, files, lock)
               /\ base[p].current = files[p]
               /\ base[p].kind \in {"conflict", "create", "unchanged", "replace"}
               /\ base[p].kind = "conflict" => Prior(lock, p) = None
    BY BaseIs
<1>2. /\ DOMAIN resolved = DOMAIN base
      /\ \A p \in DOMAIN base : Answers(base[p], resolved[p], p \in overwritten)
    BY ResolvedIs
<1> HIDE DEF base, resolved
<1>3. ASSUME NEW p \in DOMAIN base, NEW given PROVE Drawn(p, base[p], r, components, FALSE, given)
    BY <1>1 DEF Drawn
<1>4. ASSUME NEW p \in DOMAIN base PROVE Drawn(p, resolved[p], r, components, FALSE, overwritten)
    <2>1. CASE resolved[p] = base[p]
        BY <1>3, <2>1
    <2>2. CASE resolved[p] # base[p]
        BY <1>1, <1>2, <2>2 DEF Drawn, Answers
    <2> QED BY <2>1, <2>2
<1>5. Commanded(base, r, components, FALSE, {}) /\ Commanded(resolved, r, components, FALSE, overwritten)
    BY <1>1, <1>2, <1>3, <1>4 DEF Commanded
<1> QED BY <1>5 DEF base, resolved

\* An update reviews the owned resources of a plan, resolved or not.
LEMMA UpdatesAreDrawn ==
    ASSUME NEW r \in DOMAIN Releases, NEW components, NEW plan, NEW decisions, NEW given,
           \/ plan = CreatePlan(r, components, files, lock)
           \/ \E overwritten \in SUBSET given : plan = Resolved(CreatePlan(r, components, files, lock), overwritten),
           ~MissingResource(CreatePlan(r, components, files, lock), lock),
           \A p \in AllPaths : /\ decisions[p] \in {None, "keep-local", "skip", "accept-upstream"}
                               /\ decisions[p] = "accept-upstream" => p \in given
    PROVE  Commanded(PreparedForUpdate(plan, lock, decisions), r, components, TRUE, given)
<1> DEFINE base == CreatePlan(r, components, files, lock)
           prepared == PreparedForUpdate(plan, lock, decisions)
<1>1. /\ DOMAIN base = Artifacts(r, components) \cup Dropped(r, lock)
      /\ \A p \in DOMAIN base :
            \/ /\ p \in Dropped(r, lock) /\ base[p] = Removal(p, files)
               /\ base[p].kind = "remove"
            \/ /\ p \in Artifacts(r, components) \ Dropped(r, lock)
               /\ base[p] = Operation(p, r, components, files, lock)
               /\ base[p].current = files[p]
               /\ base[p].kind \in {"conflict", "create", "unchanged", "replace"}
               /\ base[p].kind = "conflict" => Prior(lock, p) = None
    BY BaseIs
<1>2. /\ DOMAIN plan = DOMAIN base
      /\ \A p \in DOMAIN base : \/ plan[p] = base[p]
                               \/ \E overwrite \in BOOLEAN : /\ Answers(base[p], plan[p], overwrite)
                                                             /\ overwrite => p \in given
    <2>1. CASE plan = base
        BY <2>1
    <2>2. CASE \E overwritten \in SUBSET given : plan = Resolved(base, overwritten)
        <3>1. PICK overwritten \in SUBSET given : plan = Resolved(base, overwritten)
            BY <2>2
        <3>2. DOMAIN plan = DOMAIN base /\ \A p \in DOMAIN base : Answers(base[p], plan[p], p \in overwritten)
            BY <3>1, ResolvedIs
        <3>3. ASSUME NEW p \in DOMAIN base
              PROVE  \E overwrite \in BOOLEAN : Answers(base[p], plan[p], overwrite) /\ (overwrite => p \in given)
            <4>1. (p \in overwritten) \in BOOLEAN /\ Answers(base[p], plan[p], p \in overwritten)
                BY <3>2
            <4>2. p \in overwritten => p \in given
                BY <3>1
            <4> WITNESS (p \in overwritten) \in BOOLEAN
            <4> QED BY <4>1, <4>2
        <3> QED BY <3>2, <3>3
    <2> QED BY <2>1, <2>2
<1>3. \A p \in DOMAIN base : base[p].kind # "remove" /\ Prior(lock, p) # None => base[p].current # None
    BY DEF MissingResource
<1>4. /\ DOMAIN prepared = DOMAIN plan
      /\ \A p \in DOMAIN plan :
            prepared[p] = IF plan[p].kind = "remove" \/ Prior(lock, p) = None THEN plan[p]
                          ELSE Reviewed(plan[p], Prior(lock, p), decisions[p])
    BY DEF PreparedForUpdate
<1> HIDE DEF base, prepared
<1>5. ASSUME NEW p \in DOMAIN base PROVE Drawn(p, prepared[p], r, components, TRUE, given)
    <2>1. CASE p \in Dropped(r, lock)
        <3>1. base[p] = Removal(p, files) /\ base[p].kind = "remove"
            BY <1>1, <2>1
        <3>2. plan[p] = base[p]
            BY <1>2, <3>1 DEF Answers
        <3> QED BY <1>2, <1>4, <2>1, <3>1, <3>2 DEF Drawn
    <2>2. CASE p \notin Dropped(r, lock) /\ Prior(lock, p) # None
        <3>1. /\ p \in Artifacts(r, components) /\ p \in AllPaths
              /\ base[p] = Operation(p, r, components, files, lock)
              /\ base[p].kind \notin {"conflict", "remove"} /\ base[p].current = files[p]
            BY <1>1, <2>2, ArtifactsArePaths
        <3>2. plan[p] = base[p] /\ files[p] # None
            BY <1>2, <1>3, <2>2, <3>1 DEF Answers
        <3>3. prepared[p] = Reviewed(base[p], Prior(lock, p), decisions[p])
            BY <1>2, <1>4, <2>2, <3>1, <3>2
        <3> QED BY <2>2, <3>1, <3>2, <3>3 DEF Drawn
    <2>3. CASE p \notin Dropped(r, lock) /\ Prior(lock, p) = None
        <3>1. prepared[p] = plan[p]
            BY <1>2, <1>4, <2>3
        <3>2. /\ p \in Artifacts(r, components)
              /\ base[p] = Operation(p, r, components, files, lock)
            BY <1>1, <2>3
        <3> QED BY <1>2, <2>3, <3>1, <3>2 DEF Drawn, Answers
    <2> QED BY <2>1, <2>2, <2>3
<1>6. Commanded(prepared, r, components, TRUE, given)
    BY <1>1, <1>2, <1>4, <1>5 DEF Commanded
<1> QED BY <1>6 DEF prepared

\* Every command carries out a plan like that.
LEMMA CommandsAreDrawn ==
    ASSUME NEW r \in DOMAIN Releases, NEW components,
           \/ \E allowed \in BOOLEAN : InstallYes(r, components, allowed) \/ UpdateYes(r, components, allowed)
           \/ InstallAsking(r, components) \/ UpdateAsking(r, components)
    PROVE  \E command, plan, given : \E update \in BOOLEAN :
              /\ Commanded(plan, r, components, update, given)
              /\ CarryOut(command, plan, update, r, components, given)
<1> DEFINE base == CreatePlan(r, components, files, lock)
<1>1. ASSUME NEW allowed \in BOOLEAN, InstallYes(r, components, allowed)
      PROVE  Commanded(base, r, components, FALSE, {}) /\ CarryOut("install", base, FALSE, r, components, {})
    BY <1>1, InstallsAreDrawn DEF InstallYes
<1>2. ASSUME NEW overwritten, CarryOut("install", Resolved(base, overwritten), FALSE, r, components, overwritten)
      PROVE  /\ Commanded(Resolved(base, overwritten), r, components, FALSE, overwritten)
             /\ CarryOut("install", Resolved(base, overwritten), FALSE, r, components, overwritten)
    BY <1>2, InstallsAreDrawn
<1>3. ASSUME NEW allowed \in BOOLEAN, UpdateYes(r, components, allowed)
      PROVE  /\ Commanded(PreparedForUpdate(base, lock, Unasked), r, components, TRUE, {})
             /\ CarryOut("update", PreparedForUpdate(base, lock, Unasked), TRUE, r, components, {})
    <2>1. \A p \in AllPaths : Unasked[p] = None /\ None # "accept-upstream"
        BY LifecycleAssumption DEF Unasked
    <2>2. ~MissingResource(base, lock)
        BY <1>3 DEF UpdateYes
    <2>3. \A p \in AllPaths : /\ Unasked[p] \in {None, "keep-local", "skip", "accept-upstream"}
                              /\ Unasked[p] = "accept-upstream" => p \in {}
        BY <2>1
    <2>4. Commanded(PreparedForUpdate(base, lock, Unasked), r, components, TRUE, {})
        BY <2>2, <2>3, UpdatesAreDrawn
    <2> QED BY <1>3, <2>4 DEF UpdateYes
<1>4. ASSUME UpdateAsking(r, components)
      PROVE  \E plan, given : /\ Commanded(plan, r, components, TRUE, given)
                              /\ CarryOut("update", plan, TRUE, r, components, given)
    <2> DEFINE choices == {"keep-local", "skip", "accept-upstream"}
               asked(overwritten) == Reviewable(PreparedForUpdate(Resolved(base, overwritten), lock, Unasked))
               plan(overwritten, answers) == PreparedForUpdate(Resolved(base, overwritten), lock, Answered(answers))
               given(overwritten, answers) ==
                   overwritten \cup {p \in asked(overwritten) : answers[p] = "accept-upstream"}
    <2>1. ~MissingResource(base, lock)
        BY <1>4 DEF UpdateAsking
    <2>2. PICK overwritten \in SUBSET OfKind(base, "conflict") :
            \E answers \in [asked(overwritten) -> choices] :
                CarryOut("update", plan(overwritten, answers), TRUE, r, components, given(overwritten, answers))
        BY <1>4 DEF UpdateAsking
    <2> HIDE DEF asked
    <2>3. PICK answers \in [asked(overwritten) -> choices] :
            CarryOut("update", plan(overwritten, answers), TRUE, r, components, given(overwritten, answers))
        BY <2>2
    <2>4. \A p \in AllPaths :
            /\ Answered(answers)[p] \in {None, "keep-local", "skip", "accept-upstream"}
            /\ Answered(answers)[p] = "accept-upstream" => p \in given(overwritten, answers)
        <3> SUFFICES ASSUME NEW p \in AllPaths
                     PROVE  /\ Answered(answers)[p] \in {None, "keep-local", "skip", "accept-upstream"}
                            /\ Answered(answers)[p] = "accept-upstream" => p \in given(overwritten, answers)
            OBVIOUS
        <3>1. CASE answers = <<>>
            BY <3>1, LifecycleAssumption DEF Answered
        <3>2. CASE answers # <<>> /\ p \in asked(overwritten)
            <4>1. Answered(answers)[p] = answers[p] /\ answers[p] \in choices
                BY <2>3, <3>2 DEF Answered
            <4> QED BY <3>2, <4>1
        <3>3. CASE answers # <<>> /\ p \notin asked(overwritten)
            BY <2>3, <3>3 DEF Answered
        <3> QED BY <3>1, <3>2, <3>3
    <2>5. overwritten \subseteq given(overwritten, answers)
        OBVIOUS
    <2> DEFINE resolved == Resolved(base, overwritten)
               decisions == Answered(answers)
               all == given(overwritten, answers)
    <2>6. /\ \A p \in AllPaths : /\ decisions[p] \in {None, "keep-local", "skip", "accept-upstream"}
                                 /\ decisions[p] = "accept-upstream" => p \in all
          /\ overwritten \subseteq all
          /\ CarryOut("update", PreparedForUpdate(resolved, lock, decisions), TRUE, r, components, all)
        BY <2>3, <2>4, <2>5
    <2> HIDE DEF decisions, all
    <2>7. Commanded(PreparedForUpdate(resolved, lock, decisions), r, components, TRUE, all)
        BY <2>1, <2>6, UpdatesAreDrawn
    <2> QED BY <2>6, <2>7
<1>5. CASE \E allowed \in BOOLEAN : InstallYes(r, components, allowed) \/ UpdateYes(r, components, allowed)
    BY <1>1, <1>3, <1>5
<1>6. CASE InstallAsking(r, components)
    <2>1. PICK overwritten \in SUBSET OfKind(base, "conflict") :
            CarryOut("install", Resolved(base, overwritten), FALSE, r, components, overwritten)
        BY <1>6 DEF InstallAsking
    <2> QED BY <1>2, <2>1
<1> QED BY <1>4, <1>5, <1>6

-----------------------------------------------------------------------------
(* A plan carried out. *)

\* Where everything is after a command.
Result(plan, r, components, given) ==
    /\ DOMAIN plan = Artifacts(r, components) \cup Dropped(r, lock)
    /\ \A p \in DOMAIN plan : Done(p, plan[p], r, components, given)
    /\ DOMAIN files' = AllPaths
    /\ \A p \in AllPaths \cap DOMAIN plan : files'[p] = Leaves(plan[p])
    /\ \A p \in AllPaths \ DOMAIN plan : files'[p] = files[p]
    /\ lock' = NewLock(r, components, ResourcesAfter(plan, lock))
    /\ touched' = touched \ DOMAIN plan
    /\ last'.given = given

LEMMA ResultIs ==
    ASSUME Typed, NEW r \in DOMAIN Releases, NEW components, NEW update \in BOOLEAN, NEW given,
           NEW plan, NEW command, Commanded(plan, r, components, update, given),
           CarryOut(command, plan, update, r, components, given)
    PROVE  Result(plan, r, components, given)
<1>1. \A p \in DOMAIN plan : ~Refused(p, plan[p], lock, update)
    BY DEF CarryOut, Refuses
<1>2. \A p \in DOMAIN plan : Done(p, plan[p], r, components, given)
    BY <1>1, DrawnIsDone DEF Commanded
<1>3. DOMAIN files' = AllPaths
    BY DEF CarryOut, FilesAfter, Typed
<1>4. ASSUME NEW p \in AllPaths \cap DOMAIN plan PROVE files'[p] = Leaves(plan[p])
    <2>1. plan[p].current = files[p]
        BY <1>2 DEF Done
    <2> QED BY <2>1 DEF CarryOut, FilesAfter, Typed, Leaves
<1>5. \A p \in AllPaths \ DOMAIN plan : files'[p] = files[p]
    BY DEF CarryOut, FilesAfter, Typed
<1> QED BY <1>2, <1>3, <1>4, <1>5 DEF Result, Commanded, CarryOut

\* What the lock lists afterwards, and why.
LEMMA LockAfter ==
    ASSUME Typed, NEW r \in DOMAIN Releases, NEW components, NEW given, NEW plan,
           Result(plan, r, components, given)
    PROVE  LET listed == DOMAIN plan \ (OfKind(plan, "preserve") \cup OfKind(plan, "remove"))
           IN  /\ DOMAIN ResourcesAfter(plan, lock) =
                    (DOMAIN Resources(lock) \ (DOMAIN plan \ OfKind(plan, "preserve"))) \cup listed
               /\ \A p \in listed : /\ ResourcesAfter(plan, lock)[p] = Recorded(plan[p])
                                    /\ p \in Artifacts(r, components) \ Dropped(r, lock)
               /\ \A p \in DOMAIN ResourcesAfter(plan, lock) \ listed :
                    /\ p \in DOMAIN Resources(lock) \ DOMAIN plan
                    /\ ResourcesAfter(plan, lock)[p] = lock.resources[p]
<1> DEFINE taken  == DOMAIN plan \ OfKind(plan, "preserve")
           listed == DOMAIN plan \ (OfKind(plan, "preserve") \cup OfKind(plan, "remove"))
           after  == ResourcesAfter(plan, lock)
<1>1. listed = taken \ OfKind(plan, "remove")
    OBVIOUS
<1>2. after = [p \in (DOMAIN Resources(lock) \ taken) \cup listed |->
                 IF p \in listed THEN Recorded(plan[p]) ELSE lock.resources[p]]
    BY <1>1 DEF ResourcesAfter
<1> HIDE DEF after
<1>3. \A p \in listed : p \in Artifacts(r, components) \ Dropped(r, lock)
    BY DEF Result, Done, OfKind
<1>4. ASSUME NEW p \in DOMAIN Resources(lock), p \notin taken PROVE p \notin DOMAIN plan
    <2>1. p \in DOMAIN plan => plan[p].kind = "preserve"
        BY <1>4 DEF OfKind
    <2>2. p \in DOMAIN plan /\ plan[p].kind = "preserve" => p \notin DOMAIN Resources(lock)
        BY DEF Result, Done
    <2> QED BY <2>1, <2>2
<1> QED BY <1>2, <1>3, <1>4 DEF after

LEMMA CommandKeeps ==
    ASSUME LifeInv, NEW r \in DOMAIN Releases, NEW components, NEW given, NEW plan,
           Result(plan, r, components, given)
    PROVE  LifeInv'
<1> DEFINE listed == DOMAIN plan \ (OfKind(plan, "preserve") \cup OfKind(plan, "remove"))
           after  == ResourcesAfter(plan, lock)
<1>1. Typed /\ DOMAIN plan \subseteq AllPaths
    BY ArtifactsArePaths DEF LifeInv, Typed, Result, Dropped
<1>2. /\ DOMAIN after = (DOMAIN Resources(lock) \ (DOMAIN plan \ OfKind(plan, "preserve"))) \cup listed
      /\ \A p \in listed : after[p] = Recorded(plan[p]) /\ p \in Artifacts(r, components) \ Dropped(r, lock)
      /\ \A p \in DOMAIN after \ listed : /\ p \in DOMAIN Resources(lock) \ DOMAIN plan
                                          /\ after[p] = lock.resources[p]
    BY <1>1, LockAfter
<1>3. /\ DOMAIN Resources(lock)' = DOMAIN after \/ DOMAIN Resources(lock)' = {}
      /\ lock'.resources = after
    BY DEF Result, NewLock, Resources
<1> HIDE DEF after
<1>4. ASSUME NEW p \in listed
      PROVE  /\ Recorded(plan[p]) \in LockEntries(p)
             /\ Faithful(Recorded(plan[p]), files'[p])
    <2>1. /\ plan[p].kind # "preserve" /\ p \notin Dropped(r, lock)
          /\ files'[p] = Leaves(plan[p])
        BY <1>1, <1>2 DEF OfKind, Result
    <2> QED BY <2>1 DEF Result, Done
<1>5. Typed'
    <2>1. ASSUME NEW p \in AllPaths PROVE files'[p] \in Contents(p) \cup {None}
        <3>1. CASE p \notin DOMAIN plan
            BY <1>1, <3>1 DEF Result, Typed
        <3>2. CASE p \in Dropped(r, lock) /\ p \in DOMAIN plan
            BY <3>2 DEF Result, Done, Leaves
        <3>3. CASE p \in DOMAIN plan /\ p \notin Dropped(r, lock)
            <4>1. /\ files'[p] \in {plan[p].current, plan[p].desired} /\ plan[p].current = files[p]
                  /\ plan[p].desired = Desired(p, r, components, files[p])
                  /\ p \in Artifacts(r, components)
                BY <3>3 DEF Result, Done, Leaves
            <4>2. Desired(p, r, components, files[p]) \in Offered(p)
                BY <1>1, <4>1, DesiredIsOffered
            <4> QED BY <1>1, <4>1, <4>2 DEF Typed, Contents
        <3> QED BY <3>1, <3>2, <3>3
    <2>2. DOMAIN after \subseteq AllPaths
        BY <1>1, <1>2 DEF Typed
    <2>3. \A p \in DOMAIN after : after[p] \in LockEntries(p)
        BY <1>1, <1>2, <1>4 DEF Typed
    <2>4. lock' = NewLock(lock'.version, lock'.components, lock'.resources)
        BY DEF Result, NewLock
    <2> QED BY <1>3, <2>1, <2>2, <2>3, <2>4 DEF Typed, Result
<1>6. ConfigOwned'
    <2> SUFFICES ASSUME DOMAIN Resources(lock)' \cap Plugins # {}
                 PROVE  Config \in DOMAIN Resources(lock)'
        BY DEF ConfigOwned
    <2>1. PICK p \in DOMAIN after : p \in Plugins /\ DOMAIN Resources(lock)' = DOMAIN after
        BY <1>3
    <2>2. Config \in DOMAIN plan => Config \in listed
        <3>1. Config \notin Dropped(r, lock)
            BY DEF Dropped
        <3>2. Config \in DOMAIN plan => plan[Config].kind \in {"create", "unchanged", "replace"}
            BY <3>1 DEF Result, Done
        <3> QED BY <3>2 DEF OfKind
    <2>3. CASE p \in listed
        <3>1. p \in Artifacts(r, components) /\ p # Config /\ Component[p] = "plugins"
            BY <1>2, <2>1, <2>3, PlannerAssumption, LifecycleAssumption
        <3>2. Config \in Artifacts(r, components)
            BY <3>1 DEF Artifacts
        <3> QED BY <1>2, <2>1, <2>2, <3>2 DEF Result
    <2>4. CASE p \notin listed
        <3>1. Config \in DOMAIN Resources(lock)
            BY <1>2, <2>1, <2>4 DEF LifeInv, ConfigOwned
        <3> QED BY <1>2, <2>1, <2>2, <3>1
    <2> QED BY <2>3, <2>4
<1>7. LockKnowsTheFile'
    <2> SUFFICES ASSUME NEW p \in DOMAIN after, p \notin touched'
                 PROVE  Faithful(after[p], files'[p])
        BY <1>3 DEF LockKnowsTheFile, Faithful
    <2>1. CASE p \in listed
        BY <1>2, <1>4, <2>1
    <2>2. CASE p \notin listed
        <3>1. p \in DOMAIN Resources(lock) \ DOMAIN plan /\ after[p] = lock.resources[p]
            BY <1>2, <2>2
        <3>2. p \notin touched /\ files'[p] = files[p]
            BY <1>1, <3>1 DEF Result, Typed
        <3> QED BY <3>1, <3>2 DEF LifeInv, LockKnowsTheFile, Faithful
    <2> QED BY <2>1, <2>2
<1> QED BY <1>5, <1>6, <1>7 DEF LifeInv

LEMMA UninstallKeeps ==
    ASSUME LifeInv, NEW r \in DOMAIN Releases, Uninstall(r)
    PROVE  LifeInv'
<1>1. lock' = NewLock(lock.version, lock.components, <<>>)
    BY DEF Uninstall, UninstallRefuses, LifeInv, Typed, NewLock
<1>2. DOMAIN Resources(lock)' = {}
    BY <1>1 DEF Resources, NewLock
<1>3. lock' = NewLock(lock'.version, lock'.components, lock'.resources)
    BY <1>1 DEF NewLock
<1>4. DOMAIN files' = AllPaths /\ \A p \in AllPaths : files'[p] \in Contents(p) \cup {None}
    <2>1. /\ DOMAIN files' = AllPaths
          /\ \A p \in AllPaths : files'[p] \in {files[p], None} \/ p = Config
        BY DEF Uninstall
    <2>2. files'[Config] \in Contents(Config) \cup {None}
        <3> DEFINE old == files[Config]
        <3>1. \/ files'[Config] = old
              \/ old # None /\ files'[Config] = Unmerged(old, r, lock.components)
            BY DEF Uninstall, UninstallRefuses, LifeInv, Typed, AllPaths, Resources
        <3>2. old \in Configurations \cup {None}
            BY DEF LifeInv, Typed, Contents, Offered, AllPaths
        <3> HIDE DEF old
        <3>3. old # None => Unmerged(old, r, lock.components) \in Configurations
            BY <3>2 DEF Unmerged, Configurations
        <3> QED BY <3>1, <3>2, <3>3 DEF Contents, Offered
    <2> QED BY <2>1, <2>2 DEF LifeInv, Typed
<1> QED BY <1>2, <1>3, <1>4 DEF LifeInv, Typed, ConfigOwned, LockKnowsTheFile

LEMMA EditKeeps ==
    ASSUME LifeInv, NEW p \in AllPaths, NEW content \in Written(p), Edit(p, content)
    PROVE  LifeInv'
<1>1. /\ files' = [files EXCEPT ![p] = content] /\ lock' = lock
      /\ touched' = touched \cup {p}
    BY DEF Edit
<1>2. content \in Contents(p) \cup {None}
    <2>1. CASE p # Config
        <3>1. content \in {None} \cup Mine \cup Upstream
            BY <2>1 DEF Written, Upstream
        <3> QED BY <2>1, <3>1 DEF Contents, Offered
    <2>2. CASE p = Config /\ content # None
        <3>1. PICK own \in Mine : content = [files[Config] EXCEPT !.own = own]
            BY <2>2 DEF Written
        <3>2. files[Config] \in Configurations
            BY <2>2 DEF Written, LifeInv, Typed, Contents, Offered
        <3>3. content \in Configurations
            BY <3>1, <3>2 DEF Configurations
        <3> QED BY <2>2, <3>3 DEF Contents, Offered
    <2> QED BY <2>1, <2>2
<1>3. Typed'
    BY <1>1, <1>2 DEF LifeInv, Typed, Resources
<1>4. ConfigOwned' /\ LockKnowsTheFile'
    BY <1>1 DEF LifeInv, Typed, ConfigOwned, LockKnowsTheFile, Resources
<1> QED BY <1>3, <1>4 DEF LifeInv

\* Every step is a command that carries a drawn plan out, an uninstall or an edit.
LEMMA StepIs ==
    ASSUME LifeInv, Next
    PROVE  \/ \E r \in DOMAIN Releases : \E components, plan, given : Result(plan, r, components, given)
           \/ \E r \in DOMAIN Releases : Uninstall(r)
           \/ \E p \in AllPaths : \E content \in Written(p) : Edit(p, content)
<1>1. ASSUME NEW r \in DOMAIN Releases, NEW components,
             \/ \E allowed \in BOOLEAN : InstallYes(r, components, allowed) \/ UpdateYes(r, components, allowed)
             \/ InstallAsking(r, components) \/ UpdateAsking(r, components)
      PROVE  \E plan, given : Result(plan, r, components, given)
    <2>1. PICK command, plan, given : \E update \in BOOLEAN :
              /\ Commanded(plan, r, components, update, given)
              /\ CarryOut(command, plan, update, r, components, given)
        BY <1>1, CommandsAreDrawn
    <2> QED BY <2>1, ResultIs DEF LifeInv
<1> QED BY <1>1 DEF Next

(* Whatever releases are installed, updated to and uninstalled, and        *)
(* whatever the person edits and answers: the lock lists the configuration *)
(* with every plugin, and knows every file nobody has touched since.       *)
THEOREM LifeInvariance == Spec => []LifeInv
<1>1. Init => LifeInv
    <2> SUFFICES ASSUME Init PROVE LifeInv
        OBVIOUS
    <2>1. Resources(lock) = <<>> /\ DOMAIN Resources(lock) = {} /\ lock = None
        BY DEF Init, Resources
    <2>2. DOMAIN files = AllPaths /\ \A p \in AllPaths : files[p] \in Contents(p) \cup {None}
        BY LifecycleAssumption DEF Init
    <2> QED BY <2>1, <2>2 DEF LifeInv, Typed, ConfigOwned, LockKnowsTheFile
<1>2. LifeInv /\ [Next]_vars => LifeInv'
    <2>1. CASE UNCHANGED vars
        BY <2>1 DEF vars, LifeInv, Typed, ConfigOwned, LockKnowsTheFile
    <2> QED BY <2>1, StepIs, CommandKeeps, UninstallKeeps, EditKeeps
<1> QED BY <1>1, <1>2, PTL DEF Spec

\* Whatever was kept, put off, taken back or left out: an untouched file is what
\* the lock says, or still what its release had shipped.
THEOREM LockFollowsFiles == Spec => []LockKnowsTheFile
<1>1. LifeInv => LockKnowsTheFile
    BY DEF LifeInv
<1> QED BY <1>1, LifeInvariance, PTL

\* For any releases, selections and answers, what a person wrote stays, unless
\* this person gives it up.
THEOREM EditsAreKept == Spec => EditsSurviveUpdates
<1>1. ASSUME LifeInv, NEW r \in DOMAIN Releases, NEW components, NEW plan, NEW given,
             Result(plan, r, components, given),
             NEW p \in Paths, IsMine(p, files[p]), files'[p] # files[p]
      PROVE  p \in last'.given \/ p \notin DOMAIN Releases[lock'.version]
    <2>1. /\ p \in AllPaths /\ p # Config /\ files[p] \in Mine
          /\ lock'.version = r /\ last'.given = given
        BY <1>1, PlannerAssumption DEF AllPaths, IsMine, Result, NewLock
    <2>2. /\ p \in DOMAIN plan /\ files'[p] = Leaves(plan[p]) /\ plan[p].current = files[p]
        BY <1>1, <2>1 DEF Result, Done
    <2>3. plan[p].kind \notin {"unchanged", "preserve"}
        BY <1>1, <2>2 DEF Leaves
    <2>4. CASE p \in Dropped(r, lock)
        BY <2>1, <2>4 DEF Dropped
    <2>5. CASE p \notin Dropped(r, lock)
        BY <1>1, <2>1, <2>2, <2>3, <2>5 DEF Result, Done
    <2> QED BY <2>4, <2>5
<1>2. LifeInv /\ [Next]_vars =>
        [last'.command \in {"install", "update"} =>
            \A p \in Paths :
                (IsMine(p, files[p]) /\ files'[p] # files[p]) =>
                    \/ p \in last'.given
                    \/ p \notin DOMAIN Releases[lock'.version]]_vars
    <2> SUFFICES ASSUME LifeInv, Next, last'.command \in {"install", "update"},
                        NEW p \in Paths, IsMine(p, files[p]), files'[p] # files[p]
                 PROVE  p \in last'.given \/ p \notin DOMAIN Releases[lock'.version]
        OBVIOUS
    <2>1. \A r \in DOMAIN Releases : ~Uninstall(r)
        BY DEF Uninstall
    <2>2. \A q \in AllPaths : \A content \in Written(q) : ~Edit(q, content)
        BY DEF Edit
    <2> QED BY <1>1, <2>1, <2>2, StepIs
<1> QED BY <1>2, LifeInvariance, PTL DEF Spec, EditsSurviveUpdates

\* For any releases: what a command leaves registered is there, if it was before.
THEOREM PluginsAreThere == Spec => RegistrationsFollowFiles
<1> DEFINE gone == {p \in Plugins : files'[Config] # None /\ p \in files'[Config].registered /\ files'[p] = None}
<1>1. ASSUME LifeInv, LifeInv'
      PROVE  /\ Dangling(files') \subseteq gone
             /\ \A p \in gone : (files[Config] # None /\ p \in files[Config].registered /\ files[p] = None)
                                    => p \in Dangling(files)
    <2>1. files'[Config] # None => files'[Config].registered \subseteq Plugins
        BY <1>1 DEF LifeInv, Typed, Contents, Offered, Configurations, AllPaths
    <2> QED BY <2>1 DEF Dangling
<1>2. ASSUME LifeInv, NEW r \in DOMAIN Releases, NEW components, NEW plan, NEW given,
             Result(plan, r, components, given), NEW p \in gone
      PROVE  files[Config] # None /\ p \in files[Config].registered /\ files[p] = None
    <2>1. /\ p \in AllPaths /\ Config \in AllPaths /\ p # Config /\ Typed
          /\ p \in DOMAIN Releases[r] /\ Component[p] = "plugins"
        BY <1>2, PlannerAssumption, LifecycleAssumption DEF AllPaths, LifeInv
    <2>2. p \notin Dropped(r, lock) /\ Config \notin Dropped(r, lock)
        BY <2>1 DEF Dropped
    <2>3. ASSUME p \in DOMAIN plan PROVE FALSE
        <3>1. /\ p \in Artifacts(r, components) /\ files'[p] = Leaves(plan[p])
              /\ plan[p].current = files[p] /\ plan[p].desired = Desired(p, r, components, files[p])
              /\ plan[p].kind \in {"unchanged", "preserve"} => files[p] # None
            BY <1>2, <2>1, <2>2, <2>3 DEF Result, Done
        <3>2. plan[p].desired # None
            BY <2>1, <3>1, DesiredIsOffered
        <3> QED BY <3>1, <3>2 DEF Leaves
    <2>4. files'[p] = files[p] /\ "plugins" \notin components
        BY <1>2, <2>1, <2>3 DEF Result, Artifacts
    <2>5. CASE Config \notin DOMAIN plan
        BY <1>2, <2>1, <2>4, <2>5 DEF Result
    <2>6. CASE Config \in DOMAIN plan
        <3>1. /\ files'[Config] \in {files[Config], Merged(files[Config], r, components)}
              /\ Config \in Artifacts(r, components)
            BY <1>2, <2>1, <2>2, <2>6 DEF Result, Done, Leaves, Desired
        <3>2. CASE files'[Config] = files[Config]
            BY <2>4, <3>2
        <3>3. CASE files'[Config] = Merged(files[Config], r, components)
            <4> DEFINE base == Base(files[Config])
            <4>1. base \in Configurations
                BY <2>1, LifecycleAssumption DEF Base, Typed, Contents, Offered
            <4>2. p \in files'[Config].registered
                OBVIOUS
            <4> HIDE DEF base
            <4>3. Merged(files[Config], r, components).registered = base.registered
                BY <2>4, <4>1 DEF Merged, base, Configurations
            <4>4. p \in base.registered
                BY <3>3, <4>2, <4>3
            <4>5. files[Config] # None /\ p \in files[Config].registered
                BY <4>4, LifecycleAssumption DEF base, Base
            <4> QED BY <2>4, <4>5
        <3> QED BY <3>1, <3>2, <3>3
    <2> QED BY <2>5, <2>6
<1>3. ASSUME LifeInv, NEW r \in DOMAIN Releases, Uninstall(r), ~Narrowed, NEW p \in gone
      PROVE  files[Config] # None /\ p \in files[Config].registered /\ files[p] = None
    <2>1. /\ p \in AllPaths /\ Config \in AllPaths /\ p # Config /\ ComponentOf(p) = "plugins"
          /\ Resources(lock) = lock.resources /\ lock # None
        BY <1>3, PlannerAssumption, LifecycleAssumption
            DEF AllPaths, ComponentOf, Uninstall, UninstallRefuses, Resources
    <2>2. CASE p \in DOMAIN lock.resources
        <3>1. Config \in DOMAIN lock.resources /\ "plugins" \in lock.components
            BY <1>3, <2>1, <2>2 DEF LifeInv, ConfigOwned, Narrowed
        <3>2. files'[Config] = Unmerged(files[Config], r, lock.components) /\ files[Config] # None
            BY <1>3, <2>1, <3>1 DEF Uninstall, UninstallRefuses
        <3>3. files[Config] \in Configurations
            BY <1>3, <2>1, <3>2 DEF LifeInv, Typed, Contents, Offered
        <3>4. files'[Config].registered = files[Config].registered \ Plugins
            BY <3>1, <3>2, <3>3 DEF Unmerged, Configurations
        <3> QED BY <3>4
    <2>3. CASE p \notin DOMAIN lock.resources
        <3>1. files'[p] = files[p]
            BY <1>3, <2>1, <2>3 DEF Uninstall
        <3>2. CASE Config \notin DOMAIN lock.resources
            BY <1>3, <2>1, <3>1, <3>2 DEF Uninstall
        <3>3. CASE Config \in DOMAIN lock.resources
            <4>1. files'[Config] = Unmerged(files[Config], r, lock.components) /\ files[Config] # None
                BY <1>3, <2>1, <3>3 DEF Uninstall, UninstallRefuses
            <4>2. files[Config] \in Configurations
                BY <1>3, <2>1, <4>1 DEF LifeInv, Typed, Contents, Offered
            <4>3. files'[Config].registered \subseteq files[Config].registered
                BY <4>1, <4>2 DEF Unmerged, Configurations
            <4> QED BY <3>1, <4>1, <4>3
        <3> QED BY <3>2, <3>3
    <2> QED BY <2>2, <2>3
<1> HIDE DEF gone
<1>4. LifeInv /\ LifeInv' /\ [Next]_vars =>
        [(last'.command # "person" /\ ~Narrowed) => Dangling(files') \subseteq Dangling(files)]_vars
    <2> SUFFICES ASSUME LifeInv, LifeInv', Next, last'.command # "person", ~Narrowed, NEW p \in gone
                 PROVE  files[Config] # None /\ p \in files[Config].registered /\ files[p] = None
        BY <1>1
    <2>1. \A q \in AllPaths : \A content \in Written(q) : ~Edit(q, content)
        BY DEF Edit
    <2> QED BY <1>2, <1>3, <2>1, StepIs
<1> QED BY <1>4, LifeInvariance, PTL DEF Spec, RegistrationsFollowFiles

-----------------------------------------------------------------------------
(* Roots of projects. *)

\* The .skynex/tasks that holds tasks stands in a .skynex.
RootsMarked ==
    /\ git \subseteq Dirs /\ skynex \subseteq Dirs
    /\ \A root \in roots : root.own => root.dir \in skynex

\* A nonempty set of directories over one has exactly one lowest.
LEMMA LowestIs ==
    ASSUME NEW d \in Dirs, NEW S \in SUBSET Above[d], S # {}
    PROVE  /\ Lowest(S) \in S /\ S \subseteq Above[Lowest(S)]
           /\ \A n \in S : S \subseteq Above[n] => Lowest(S) = n
<1>1. \E lowest \in S : S \subseteq Above[lowest]
    BY PlacesAssumption DEF PathAssumption
<1>2. Lowest(S) \in S /\ S \subseteq Above[Lowest(S)]
    BY <1>1 DEF Lowest
<1>3. ASSUME NEW n \in S, S \subseteq Above[n] PROVE Lowest(S) = n
    <2>1. Lowest(S) \in Above[n] /\ n \in Above[Lowest(S)] /\ n \in Dirs
        BY <1>2, <1>3, PlacesAssumption DEF PathAssumption
    <2> QED BY <2>1, PlacesAssumption DEF PathAssumption
<1> QED BY <1>2, <1>3

LEMMA ProjectRootIs ==
    ASSUME NEW d \in Dirs
    PROVE  /\ ResolveProjectRoot(d) \in Above[d]
           /\ ResolveProjectRoot(d) \in Dirs
           /\ Markers \cap Above[d] = {} => ResolveProjectRoot(d) = d
           /\ Markers \cap Above[d] # {} => /\ ResolveProjectRoot(d) = Lowest(Markers \cap Above[d])
                                           /\ ResolveProjectRoot(d) \in Markers
<1>1. d \in Above[d] /\ Above[d] \subseteq Dirs
    BY PlacesAssumption DEF PathAssumption
<1>2. CASE Markers \cap Above[d] = {}
    BY <1>1, <1>2 DEF ResolveProjectRoot
<1>3. CASE Markers \cap Above[d] # {}
    <2>1. Lowest(Markers \cap Above[d]) \in Markers \cap Above[d]
        BY <1>3, LowestIs
    <2> QED BY <1>1, <1>3, <2>1 DEF ResolveProjectRoot
<1> QED BY <1>2, <1>3

\* The one new marker of a step: it is named, or the command that made it found
\* no marker over it.
Marks(new) ==
    /\ new \in Dirs
    /\ named' = new \/ Markers \cap Above[new] = {}
    /\ Markers' = Markers \cup {new}

LEMMA MarkerKeepsRoots ==
    ASSUME RootsMarked, NEW new, Marks(new),
           NEW d \in Dirs, FoundFrom(d) \in roots
    PROVE  FoundFrom(d)' = FoundFrom(d) \/ named' \in Above[d]
<1> DEFINE n == ResolveProjectRoot(d)
           marked == Markers \cap Above[d]
<1>1. n \in skynex /\ n \in Above[d]
    BY ProjectRootIs DEF FoundFrom, OwnRoot, RootsMarked
<1>2. n \in marked
    BY <1>1 DEF Markers
<1>3. n = Lowest(marked) /\ marked \subseteq Above[n]
    BY <1>2, ProjectRootIs, LowestIs
<1>4. SUFFICES ASSUME new \in Above[d], named' # new, new \notin Markers PROVE FoundFrom(d)' = FoundFrom(d)
    <2>1. CASE new \notin Above[d] \/ new \in Markers
        <3>1. Markers' \cap Above[d] = Markers \cap Above[d]
            BY <2>1 DEF Marks
        <3> QED BY <3>1 DEF FoundFrom, ResolveProjectRoot
    <2> QED BY <1>4, <2>1 DEF Marks
<1>5. Markers \cap Above[new] = {}
    BY <1>4 DEF Marks
<1>6. n \notin Above[new]
    BY <1>1, <1>5 DEF Markers
<1>7. new \in Above[n]
    <2> DEFINE pair == {n, new}
    <2>1. PICK lowest \in pair : pair \subseteq Above[lowest]
        <3>1. pair \in SUBSET Above[d] /\ pair # {}
            BY <1>1, <1>4
        <3> HIDE DEF pair
        <3>2. \A S \in SUBSET Above[d] : S # {} => \E lowest \in S : S \subseteq Above[lowest]
            BY PlacesAssumption DEF PathAssumption
        <3> QED BY <3>1, <3>2
    <2> QED BY <1>6, <2>1
<1>8. Markers' \cap Above[d] = marked \cup {new}
    BY <1>4 DEF Marks
<1>9. marked \cup {new} \in SUBSET Above[d] /\ n \in marked \cup {new} /\ marked \cup {new} \subseteq Above[n]
    BY <1>2, <1>3, <1>4, <1>7
<1>10. Lowest(marked \cup {new}) = n
    BY <1>9, LowestIs
<1>11. ResolveProjectRoot(d)' = n
    BY <1>8, <1>9, <1>10 DEF ResolveProjectRoot, Lowest
<1> QED BY <1>11 DEF FoundFrom, OwnRoot

\* Every step marks one directory, in one of the two ways, or none.
LEMMA StepsMark ==
    ASSUME RootsMarked, PlacesNext
    PROVE  Markers' = Markers \/ \E new \in Dirs : Marks(new)
<1>1. ASSUME NEW cwd \in Dirs, NEW override \in Overrides \cup {Nowhere}, TaskInit(cwd, override)
      PROVE  Markers' = Markers \/ \E new \in Dirs : Marks(new)
    <2> DEFINE root == ResolveTasksRoot(override, cwd)
    <2>1. CASE ~root.own
        BY <1>1, <2>1 DEF TaskInit, Markers
    <2>2. CASE root.own /\ override = Nowhere
        <3>1. root.dir = ResolveProjectRoot(cwd) /\ root.dir \in Dirs
            BY <2>2, ProjectRootIs DEF ResolveTasksRoot, OwnRoot
        <3>2. Markers' = Markers \cup {root.dir}
            BY <1>1, <2>2 DEF TaskInit, Markers
        <3>3. CASE root.dir \in Markers
            BY <3>2, <3>3
        <3>4. CASE root.dir \notin Markers
            <4>1. Markers \cap Above[cwd] = {}
                BY <3>1, <3>4, ProjectRootIs
            <4>2. root.dir = cwd
                BY <3>1, <4>1, ProjectRootIs
            <4> QED BY <3>1, <3>2, <4>1, <4>2 DEF Marks
        <3> QED BY <3>3, <3>4
    <2>3. CASE root.own /\ override # Nowhere
        <3>1. root.dir = override.real /\ override.real \in Dirs
            BY <1>1, <2>3 DEF TaskInit, Contained, ResolveTasksRoot
        <3>2. Markers' = Markers \cup {root.dir} /\ named' = root.dir
            BY <1>1, <2>3 DEF TaskInit, Markers, Step
        <3> QED BY <3>1, <3>2 DEF Marks
    <2> QED BY <2>1, <2>2, <2>3
<1>2. ASSUME NEW command, NEW site \in Sites, NEW format, NEW whole, NEW yes,
             Bring(command, site, format, whole, yes)
      PROVE  Markers' = Markers \/ \E new \in Dirs : Marks(new)
    <2>1. CASE site = Global
        BY <1>2, <2>1, PlacesAssumption DEF Bring, Markers
    <2>2. CASE site \in Dirs
        <3>1. named' = site /\ Markers' = Markers \cup {site}
            BY <1>2, <2>2, PlacesAssumption DEF Bring, Step, Markers
        <3> QED BY <2>2, <3>1 DEF Marks
    <2> QED BY <2>1, <2>2 DEF Sites
<1>3. ASSUME NEW cwd \in Dirs, NEW where \in Sites \cup {Nowhere}, NEW asked, NEW yes \in BOOLEAN,
             RunInstaller(cwd, where, asked, yes)
      PROVE  Markers' = Markers \/ \E new \in Dirs : Marks(new)
    <2>1. \A command : Chosen(command, where, yes, cwd) \subseteq Sites
        BY DEF Chosen, Sites
    <2>2. CASE \E site : UninstallAt(site)
        BY <2>2 DEF UninstallAt, Markers
    <2> QED BY <1>2, <1>3, <2>1, <2>2 DEF RunInstaller
<1>4. ASSUME NEW d \in Dirs, GitInit(d) PROVE \E new \in Dirs : Marks(new)
    BY <1>4 DEF GitInit, Step, Markers, Marks
<1>5. ASSUME NEW site, NEW format, WriteConfig(site, format) \/ DeleteConfig(site, format)
      PROVE  Markers' = Markers
    BY <1>5 DEF WriteConfig, DeleteConfig, Markers
<1> QED BY <1>1, <1>3, <1>4, <1>5 DEF PlacesNext

LEMMA RootsStayMarked == PlacesSpec => []RootsMarked
<1>1. PlacesInit => RootsMarked
    BY PlacesAssumption DEF PlacesInit, RootsMarked
<1>2. RootsMarked /\ [PlacesNext]_placesVars => RootsMarked'
    <2> SUFFICES ASSUME RootsMarked, [PlacesNext]_placesVars PROVE RootsMarked'
        OBVIOUS
    <2>1. ASSUME NEW cwd \in Dirs, NEW override \in Overrides \cup {Nowhere}, TaskInit(cwd, override)
          PROVE  RootsMarked'
        <3> DEFINE root == ResolveTasksRoot(override, cwd)
        <3>1. root.own => root.dir \in Dirs
            BY <2>1, ProjectRootIs DEF TaskInit, Contained, ResolveTasksRoot, OwnRoot
        <3>2. git' = git /\ roots' = roots \cup {root}
              /\ skynex' = IF root.own THEN skynex \cup {root.dir} ELSE skynex
            BY <2>1 DEF TaskInit
        <3> HIDE DEF root
        <3> QED BY <3>1, <3>2 DEF RootsMarked
    <2>2. ASSUME NEW command, NEW site, NEW format, NEW whole, NEW yes,
                 Bring(command, site, format, whole, yes)
          PROVE  RootsMarked'
        BY <2>2 DEF Bring, RootsMarked
    <2>3. ASSUME NEW site, UninstallAt(site) PROVE RootsMarked'
        BY <2>3 DEF UninstallAt, RootsMarked
    <2>4. ASSUME NEW cwd, NEW where, NEW asked, NEW yes, RunInstaller(cwd, where, asked, yes)
          PROVE  RootsMarked'
        BY <2>2, <2>3, <2>4 DEF RunInstaller
    <2>5. ASSUME NEW d \in Dirs, GitInit(d) PROVE RootsMarked'
        BY <2>5 DEF GitInit, RootsMarked
    <2>6. ASSUME NEW site, NEW format, WriteConfig(site, format) \/ DeleteConfig(site, format)
          PROVE  RootsMarked'
        BY <2>6 DEF WriteConfig, DeleteConfig, RootsMarked
    <2>7. CASE UNCHANGED placesVars
        BY <2>7 DEF placesVars, RootsMarked
    <2> QED BY <2>1, <2>4, <2>5, <2>6, <2>7 DEF PlacesNext
<1> QED BY <1>1, <1>2, PTL DEF PlacesSpec

\* However directories nest, whatever is linked and wherever a command runs: a
\* directory that finds tasks goes on finding them at the same place, unless a
\* person names a directory between, or one that is nearer.
THEOREM TasksAreKept == PlacesSpec => TasksStayFound
<1>1. RootsMarked /\ [PlacesNext]_placesVars =>
        [\A d \in Dirs :
            FoundFrom(d) \in roots => \/ FoundFrom(d)' = FoundFrom(d)
                                  \/ named' \in Above[d]]_placesVars
    <2> SUFFICES ASSUME RootsMarked, PlacesNext, NEW d \in Dirs, FoundFrom(d) \in roots
                 PROVE  FoundFrom(d)' = FoundFrom(d) \/ named' \in Above[d]
        OBVIOUS
    <2>1. CASE Markers' = Markers
        BY <2>1 DEF FoundFrom, OwnRoot, ResolveProjectRoot
    <2>2. CASE \E new \in Dirs : Marks(new)
        BY <2>2, MarkerKeepsRoots
    <2> QED BY <2>1, <2>2, StepsMark
<1> QED BY <1>1, RootsStayMarked, PTL DEF PlacesSpec, TasksStayFound

-----------------------------------------------------------------------------
(* Configurations. *)

\* The one configuration that may hold Skynex's part is the one in the lock.
OnlyListed(site) == IF Installed(site) THEN {locks[site].config} ELSE {}

PartsListed ==
    /\ locks \in [Sites -> SiteLocks \cup {Nowhere}]
    /\ configs \in [Sites -> SUBSET Formats] /\ parts \in [Sites -> SUBSET Formats]
    /\ \A site \in Sites \ stranded : parts[site] \subseteq OnlyListed(site)

LEMMA BringListsPart ==
    ASSUME PartsListed, NEW command, NEW site \in Sites, NEW format \in Formats,
           NEW whole \in BOOLEAN, NEW yes, Bring(command, site, format, whole, yes)
    PROVE  PartsListed'
<1>1. Lock(site, format, whole) \in SiteLocks
    BY DEF Lock, SiteLocks, PartsListed, Installed
<1>2. locks' = [locks EXCEPT ![site] = Lock(site, format, whole)]
      /\ parts' = [parts EXCEPT ![site] = IF whole THEN @ \cup {format} ELSE @]
      /\ configs' = [configs EXCEPT ![site] = IF whole THEN @ \cup {format} ELSE @]
      /\ stranded' = stranded
    BY DEF Bring
<1>3. locks' \in [Sites -> SiteLocks \cup {Nowhere}] /\ parts' \in [Sites -> SUBSET Formats] /\ configs' \in [Sites -> SUBSET Formats]
    BY <1>1, <1>2 DEF PartsListed
<1>4. ASSUME site \notin stranded PROVE parts'[site] \subseteq OnlyListed(site)'
    <2>1. locks'[site] = Lock(site, format, whole) /\ locks'[site] # Nowhere
        BY <1>1, <1>2, PlacesAssumption DEF PartsListed
    <2>2. parts[site] \subseteq OnlyListed(site)
        BY <1>4 DEF PartsListed
    <2>3. CASE whole
        <3>1. locks'[site].config = format
            BY <2>1, <2>3 DEF Lock
        <3>2. parts[site] \subseteq {format}
            <4>1. Installed(site) => locks[site].config \in {Nowhere, format}
                BY DEF Bring, SameIdentity
            <4>2. Nowhere \notin parts[site]
                BY PlacesAssumption DEF PartsListed
            <4> QED BY <2>2, <4>1, <4>2 DEF OnlyListed
        <3>3. parts'[site] = parts[site] \cup {format}
            BY <1>2, <2>3 DEF PartsListed
        <3> QED BY <2>1, <3>1, <3>2, <3>3 DEF OnlyListed, Installed
    <2>4. CASE ~whole
        <3>1. locks'[site].config = IF Installed(site) THEN locks[site].config ELSE Nowhere
            BY <2>1, <2>4 DEF Lock
        <3>2. parts'[site] = parts[site]
            BY <1>2, <2>4 DEF PartsListed
        <3> QED BY <2>1, <2>2, <3>1, <3>2 DEF OnlyListed, Installed
    <2> QED BY <2>3, <2>4
<1>5. ASSUME NEW s \in Sites \ stranded, s # site PROVE parts'[s] \subseteq OnlyListed(s)'
    BY <1>2, <1>5 DEF PartsListed, OnlyListed, Installed
<1> QED BY <1>2, <1>3, <1>4, <1>5 DEF PartsListed

LEMMA UninstallListsPart ==
    ASSUME PartsListed, NEW site \in Sites, UninstallAt(site)
    PROVE  PartsListed'
<1>1. locks' = [locks EXCEPT ![site].config = Nowhere] /\ configs' = configs
    BY DEF UninstallAt
<1>2. parts' = [parts EXCEPT ![site] = IF locks[site].whole THEN @ \ {locks[site].config} ELSE @]
    BY DEF UninstallAt
<1>3. stranded' = IF locks[site].whole THEN stranded ELSE stranded \cup {site}
    BY DEF UninstallAt
<1>4. locks[site] \in SiteLocks /\ Installed(site)
    BY DEF UninstallAt, Installed, PartsListed
<1>5. locks' \in [Sites -> SiteLocks \cup {Nowhere}]
    <2>1. [locks[site] EXCEPT !.config = Nowhere] \in SiteLocks
        BY <1>4 DEF SiteLocks
    <2>2. locks' = [locks EXCEPT ![site] = [locks[site] EXCEPT !.config = Nowhere]]
        BY <1>1
    <2> QED BY <2>1, <2>2 DEF PartsListed
<1>6. parts' \in [Sites -> SUBSET Formats] /\ configs' \in [Sites -> SUBSET Formats]
    BY <1>1, <1>2 DEF PartsListed
<1>7. ASSUME site \notin stranded' PROVE parts'[site] = {}
    <2>1. CASE locks[site].whole
        <3>1. parts[site] \subseteq {locks[site].config}
            BY <1>3, <1>4, <1>7, <2>1 DEF PartsListed, OnlyListed
        <3> QED BY <1>2, <2>1, <3>1 DEF PartsListed
    <2>2. CASE ~locks[site].whole
        BY <1>3, <1>7, <2>2
    <2> QED BY <2>1, <2>2
<1>8. ASSUME NEW s \in Sites \ stranded', s # site PROVE parts'[s] \subseteq OnlyListed(s)'
    <2>1. s \notin stranded
        BY <1>3, <1>8
    <2>2. locks'[s] = locks[s] /\ parts'[s] = parts[s]
        BY <1>1, <1>2, <1>8 DEF PartsListed
    <2> QED BY <2>1, <2>2 DEF PartsListed, OnlyListed, Installed
<1> QED BY <1>5, <1>6, <1>7, <1>8 DEF PartsListed

LEMMA PartsStayListed == PlacesSpec => []PartsListed
<1>1. PlacesInit => PartsListed
    BY DEF PlacesInit, PartsListed
<1>2. PartsListed /\ [PlacesNext]_placesVars => PartsListed'
    <2> SUFFICES ASSUME PartsListed, [PlacesNext]_placesVars PROVE PartsListed'
        OBVIOUS
    <2>1. ASSUME NEW cwd \in Dirs, NEW override, TaskInit(cwd, override) PROVE PartsListed'
        BY <2>1 DEF TaskInit, PartsListed, OnlyListed, Installed
    <2>2. ASSUME NEW cwd \in Dirs, NEW where \in Sites \cup {Nowhere},
                 NEW asked \in Formats \cup {Nowhere}, NEW yes \in BOOLEAN,
                 RunInstaller(cwd, where, asked, yes)
          PROVE  PartsListed'
        <3>1. \A command : Chosen(command, where, yes, cwd) \subseteq Sites
            BY DEF Chosen, Sites
        <3>2. ASSUME NEW command, NEW site \in Sites, configs[site] \subseteq Formats
              PROVE  Preferred(command, site, asked, yes) \subseteq Formats
            BY <3>2 DEF Preferred, Formats
        <3>3. \A site \in Sites : configs[site] \subseteq Formats
            BY DEF PartsListed
        <3>4. CASE \E command \in {"install", "update"}, whole \in BOOLEAN :
                    \E site \in Chosen(command, where, yes, cwd) :
                        \E format \in Preferred(command, site, asked, yes) :
                            Bring(command, site, format, whole, yes)
            <4>1. PICK command \in {"install", "update"} : \E whole \in BOOLEAN :
                    \E site \in Chosen(command, where, yes, cwd) :
                        \E format \in Preferred(command, site, asked, yes) :
                            Bring(command, site, format, whole, yes)
                BY <3>4
            <4>2. PICK whole \in BOOLEAN : \E site \in Chosen(command, where, yes, cwd) :
                    \E format \in Preferred(command, site, asked, yes) :
                        Bring(command, site, format, whole, yes)
                BY <4>1
            <4>3. PICK site \in Chosen(command, where, yes, cwd) :
                    \E format \in Preferred(command, site, asked, yes) :
                        Bring(command, site, format, whole, yes)
                BY <4>2
            <4>4. PICK format \in Preferred(command, site, asked, yes) :
                    Bring(command, site, format, whole, yes)
                BY <4>3
            <4>5. site \in Sites
                BY <3>1
            <4>6. format \in Formats
                BY <3>2, <3>3, <4>5
            <4> QED BY <4>4, <4>5, <4>6, BringListsPart
        <3>5. CASE \E site \in Sites : UninstallAt(site)
            BY <3>5, UninstallListsPart
        <3> QED BY <2>2, <3>1, <3>4, <3>5 DEF RunInstaller
    <2>3. ASSUME NEW d \in Dirs, GitInit(d) PROVE PartsListed'
        BY <2>3 DEF GitInit, PartsListed, OnlyListed, Installed
    <2>4. ASSUME NEW site \in Sites, NEW format \in Formats, WriteConfig(site, format) PROVE PartsListed'
        BY <2>4 DEF WriteConfig, PartsListed, OnlyListed, Installed
    <2>5. ASSUME NEW site \in Sites, NEW format \in Formats, DeleteConfig(site, format) PROVE PartsListed'
        BY <2>5 DEF DeleteConfig, PartsListed, OnlyListed, Installed
    <2>6. CASE UNCHANGED placesVars
        BY <2>6 DEF placesVars, PartsListed, OnlyListed, Installed
    <2> QED BY <2>1, <2>2, <2>3, <2>4, <2>5, <2>6 DEF PlacesNext
<1> QED BY <1>1, <1>2, PTL DEF PlacesSpec

\* At every site, through any sequence of commands, options and edits, one
\* configuration at the most holds Skynex's part, unless it was uninstalled
\* without it.
THEOREM OneConfiguration == PlacesSpec => []RegisteredOnce
<1>1. PartsListed => RegisteredOnce
    <2> SUFFICES ASSUME PartsListed, NEW site \in Sites \ stranded PROVE Cardinality(parts[site]) <= 1
        BY DEF RegisteredOnce
    <2>1. PICK one : parts[site] \subseteq {one}
        BY DEF PartsListed, OnlyListed
    <2>2. parts[site] = {} \/ parts[site] = {one}
        BY <2>1
    <2> QED BY <2>2, FS_EmptySet, FS_Singleton
<1> QED BY <1>1, PartsStayListed, PTL

-----------------------------------------------------------------------------
(* Ownership over releases.  What is needed beyond the code is AsPublished: *)
(* no check of the manifest keeps out a version that the lock refuses, or a *)
(* resource outside the catalog the planner trusts.                         *)

\* Without commands, what is asked for is part of what is trusted, so the checks
\* of the trusted artifacts hold of it too.
LEMMA DesiredIsTrusted ==
    ASSUME NEW manifest \in Manifests, AsPublished, NEW selected \in Selectable, NEW name
    PROVE  DesiredArtifacts(manifest, selected, name) \subseteq DesiredArtifacts(manifest, WholeScope, name)
<1>1. Compiled(manifest, selected) \subseteq Compiled(manifest, WholeScope)
    <2>1. ASSUME NEW entry \in Entries(manifest)
          PROVE  Transform(entry, selected) \subseteq Transform(entry, WholeScope)
        <3>1. entry.component # "commands"
            BY DEF AsPublished
        <3>2. entry.component \in selected => entry.component \in WholeScope
            BY <3>1 DEF Selectable
        <3> QED BY <3>2 DEF Transform
    <2> QED BY <2>1 DEF Compiled
<1>2. "configuration" \in WholeScope
    BY DEF WholeScope
<1> QED BY <1>1, <1>2 DEF DesiredArtifacts

\* What a catalog that loads hands out can be recorded in a lock.
LEMMA ArtifactsAreWellFormed ==
    ASSUME NEW manifest \in Manifests, AsPublished, Loads(manifest),
           NEW selected, NEW name \in ConfigNames,
           NEW a \in DesiredArtifacts(manifest, selected, name)
    PROVE  WellFormedEntry(a)
<1>1. CASE a = ConfigArtifact(manifest, name)
    BY <1>1, CatalogAssumption DEF ConfigArtifact, AsPublished, WellFormedEntry
<1>2. CASE a \in Compiled(manifest, selected)
    <2>1. PICK entry \in Entries(manifest) : a \in Transform(entry, selected)
        BY <1>2 DEF Compiled
    <2>2. PICK i \in DOMAIN entry.outputs :
            a = [id |-> entry.id, version |-> entry.version, path |-> entry.outputs[i]]
        BY <2>1 DEF Transform
    <2>3. ValidEntry(entry)
        BY DEF Loads, ValidManifest
    <2>4. entry.version \in LockWords
        BY DEF AsPublished
    <2> QED BY <2>2, <2>3, <2>4 DEF ValidEntry, WellFormedEntry
<1> QED BY <1>1, <1>2 DEF DesiredArtifacts

\* One install or update: the entries it keeps and those it writes go together.
LEMMA InstallReadsBack ==
    ASSUME AsPublished, NEW manifest \in Manifests, NEW selected \in Selectable,
           NEW name \in ConfigNames, NEW present, NEW preserved,
           InstallRelease(manifest, selected, name, present, preserved)
    PROVE  OwnershipReadsBack'
<1> DEFINE trusted  == DesiredArtifacts(manifest, WholeScope, name)
           desired  == DesiredArtifacts(manifest, selected, name)
           dropped  == PathsIn(owned) \ (PathsIn(trusted) \cup PathsIn(desired))
           recorded == {a \in desired : a.path \notin preserved}
           kept     == {r \in owned : r.path \notin PathsIn(recorded) \cup dropped}
<1>1. Loads(manifest) /\ Unambiguous(trusted) /\ LockReads(owned, trusted) /\ basis' = trusted
    BY DEF InstallRelease
<1>2. PICK entry \in [recorded -> recorded \cup owned] :
        /\ \A a \in recorded : entry[a] \in EntriesFor(a)
        /\ owned' = kept \cup {entry[a] : a \in recorded}
    BY DEF InstallRelease
<1>3. recorded \subseteq trusted
    BY DesiredIsTrusted
<1>4. \A a \in recorded : entry[a].id = a.id /\ entry[a].path = a.path
    BY <1>2 DEF EntriesFor
<1>5. \A a \in recorded : WellFormedEntry(entry[a])
    <2> SUFFICES ASSUME NEW a \in recorded PROVE WellFormedEntry(entry[a])
        OBVIOUS
    <2>1. WellFormedEntry(a)
        BY <1>1, ArtifactsAreWellFormed
    <2>2. \A r \in owned : WellFormedEntry(r)
        BY <1>1 DEF LockReads
    <2> QED BY <1>2, <2>1, <2>2 DEF EntriesFor
<1>6. \A r \in owned' : WellFormedEntry(r)
    BY <1>1, <1>2, <1>5 DEF LockReads
<1>7. Unambiguous(owned')
    <2> SUFFICES ASSUME NEW r \in owned', NEW s \in owned', r.id = s.id \/ r.path = s.path
                 PROVE  r = s
        BY DEF Unambiguous
    <2>1. CASE r \in kept /\ s \in kept
        BY <1>1, <2>1 DEF LockReads, Unambiguous
    <2>2. ASSUME NEW t \in kept, NEW a \in recorded PROVE t.id # a.id /\ t.path # a.path
        <3>1. t.path # a.path
            BY DEF PathsIn
        <3>2. t.id = a.id => t.path = a.path
            BY <1>1, <1>3 DEF LockReads, SameOwner
        <3> QED BY <3>1, <3>2
    <2>3. CASE r \in kept /\ s \notin kept
        <3>1. PICK a \in recorded : s = entry[a]
            BY <1>2, <2>3
        <3> QED BY <1>4, <2>2, <2>3, <3>1
    <2>4. CASE s \in kept /\ r \notin kept
        <3>1. PICK a \in recorded : r = entry[a]
            BY <1>2, <2>4
        <3> QED BY <1>4, <2>2, <2>4, <3>1
    <2>5. CASE r \notin kept /\ s \notin kept
        <3>1. PICK a \in recorded, b \in recorded : r = entry[a] /\ s = entry[b]
            BY <1>2, <2>5
        <3>2. a = b
            BY <1>1, <1>3, <1>4, <3>1 DEF Unambiguous
        <3> QED BY <3>1, <3>2
    <2> QED BY <2>1, <2>3, <2>4, <2>5
<1>8. SameOwner(owned', trusted)
    <2> SUFFICES ASSUME NEW r \in owned', NEW b \in trusted, r.id = b.id PROVE r.path = b.path
        BY DEF SameOwner
    <2>1. CASE r \in kept
        BY <1>1, <2>1 DEF LockReads, SameOwner
    <2>2. CASE r \notin kept
        <3>1. PICK a \in recorded : r = entry[a]
            BY <1>2, <2>2
        <3> QED BY <1>1, <1>3, <1>4, <3>1 DEF Unambiguous
    <2> QED BY <2>1, <2>2
<1> QED BY <1>1, <1>6, <1>7, <1>8 DEF OwnershipReadsBack, LockReads

\* The lock the last command left reads back with the catalog it trusted, for
\* any releases like the published ones, in any order, narrowed in any way.
THEOREM OwnershipIsKept == ASSUME AsPublished PROVE CatalogSpec => []OwnershipReadsBack
<1>1. CatalogInit => OwnershipReadsBack
    BY DEF CatalogInit, OwnershipReadsBack, LockReads, Unambiguous, SameOwner
<1>2. OwnershipReadsBack /\ [CatalogNext]_catalogVars => OwnershipReadsBack'
    <2> SUFFICES ASSUME OwnershipReadsBack, [CatalogNext]_catalogVars PROVE OwnershipReadsBack'
        OBVIOUS
    <2>1. CASE UNCHANGED catalogVars
        BY <2>1 DEF OwnershipReadsBack, catalogVars
    <2>2. CASE CatalogNext
        <3>1. PICK manifest \in Manifests, selected \in Selectable, name \in ConfigNames :
                \/ \E present, preserved \in SUBSET PathsIn(DesiredArtifacts(manifest, selected, name)) :
                    InstallRelease(manifest, selected, name, present, preserved)
                \/ UninstallRelease(manifest, selected, name)
            BY <2>2 DEF CatalogNext
        <3>2. CASE \E present, preserved \in SUBSET PathsIn(DesiredArtifacts(manifest, selected, name)) :
                    InstallRelease(manifest, selected, name, present, preserved)
            BY <3>2, InstallReadsBack
        <3>3. CASE UninstallRelease(manifest, selected, name)
            BY <3>3 DEF UninstallRelease, OwnershipReadsBack, LockReads, Unambiguous, SameOwner
        <3> QED BY <3>1, <3>2, <3>3
    <2> QED BY <2>1, <2>2
<1> QED BY <1>1, <1>2, PTL DEF CatalogSpec
================================================================================
