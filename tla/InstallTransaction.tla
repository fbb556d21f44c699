--------------------------- MODULE InstallTransaction ---------------------------
(***************************************************************************)
(* Install, update, uninstall and restore: a plan, the questions the person *)
(* is asked, the entry into its apply, and executeTransaction, in which all *)
(* of them end.  Under one lease file that checks the files and lock.json,  *)
(* writes a backup and its manifest, changes the files one by one, verifies *)
(* them, writes lock.json and a completion record, and releases the lease;  *)
(* a failure on the way undoes the changes in reverse.                      *)
(*                                                                         *)
(* A process runs one transaction, so it stands for the transaction id and *)
(* for the lock.json it writes.  Contents are model values: a digest       *)
(* equals another exactly when the contents do.  A failure after a rename  *)
(* (the directory sync) is the rename followed by Fail.                    *)
(*                                                                         *)
(* Meanwhile people edit and delete the files, and clean up behind a       *)
(* transaction that died or could not undo everything.                     *)
(***************************************************************************)
EXTENDS Naturals, Sequences, FiniteSets, Functions

CONSTANTS
    Procs,          \* installer processes
    Paths,          \* managed paths under the target root
    Config,         \* the one that holds the OpenCode configuration
    Contents,       \* what a file can hold
    Registers,      \* Registers[c]: the plugin files a configuration c loads
    UserContents,   \* what people write
    Unregistered,   \* Unregistered[parts][c]: configuration c without what these parts put there
    Releases,       \* the catalogs that may be installed, by selected components
    None,           \* no file, no lock, no lease
    Uncaptured,     \* the prior lock has not been read
    MaxEdits        \* bound on the files people change, each once

MaybeContent == Contents \cup {None}

\* What a plan, or the manifest of a backup, says of some of the paths.
Outlook == UNION {[S -> MaybeContent] : S \in SUBSET Paths}

\* The components that have a share in the configuration.
Parts == {"configuration", "plugins"}

\* lock.json: the transaction it names, the components that this one selected
\* and the installed digest of each resource.
Lock      == [by : Procs, components : SUBSET Parts, installed : Outlook]
MaybeLock == Lock \cup {None}

\* What a catalog ships, and what the selected components want of it.
Catalog == [wants      : UNION {[S -> Contents] : S \in SUBSET Paths},
            ships      : SUBSET Paths,
            components : SUBSET Parts]

ASSUME InstallAssumption ==
    /\ IsFiniteSet(Paths)
    /\ Config \in Paths
    /\ Registers \in [MaybeContent -> SUBSET Paths]
    /\ UserContents \subseteq Contents
    /\ Unregistered \in [SUBSET Parts -> [Contents -> Contents]]
    /\ \A release \in Releases : release \in Catalog /\ DOMAIN release.wants \subseteq release.ships
    /\ None \notin Contents \cup Procs \cup Lock
    /\ Uncaptured \notin MaybeLock
    /\ MaxEdits \in Nat

VARIABLES
    files,          \* the managed files
    lock,           \* lock.json
    lease,          \* .installer.lock: the transaction that created it
    backups,        \* backups/<transaction>
    tx,             \* what each process is doing
    meddled         \* the paths people have changed

vars == <<files, lock, lease, backups, tx, meddled>>

Asking   == {"planned", "looked"}
Forward  == {"lock", "check", "apply", "commit", "complete", "release"}
Backward == {"undo", "record", "free"}
Over     == {"committed", "failed", "dead"}

\* `current` and `desired` are the plan, `changes` the operations that are not
\* "unchanged" or "preserve", `expected` and `goal` the lock the transaction
\* starts from and the lock it leaves.  `wants` is what the release has for the
\* files planned, `overwritten` and `preserved` are the answers about files that
\* nobody manages.  `stale` is the history of edits made after the transaction
\* looked: no process can read it.
Transaction ==
    [pc           : {"new"} \cup Asking \cup {"ready"} \cup Forward \cup Backward \cup Over,
     kind         : {"none", "install", "update", "uninstall", "restore"},
     components   : SUBSET Parts,
     wants        : Outlook,
     current      : Outlook,
     desired      : Outlook,
     overwritten  : SUBSET Paths,
     preserved    : SUBSET Paths,
     changes      : SUBSET Paths,
     expected     : MaybeLock,
     goal         : MaybeLock,
     prior        : MaybeLock \cup {Uncaptured},
     checked      : SUBSET Paths,
     stale        : SUBSET Paths,
     applied      : Seq(Paths),
     todo         : Seq(Paths),
     lockChanged  : BOOLEAN,
     unreconciled : SUBSET (Paths \cup {"lock.json", "recovery.json"})]

\* `manifest` says whether manifest.json exists; before it does, the rest says
\* nothing.
Backup ==
    [manifest   : BOOLEAN,
     before     : Outlook,
     after      : Outlook,
     priorLock  : MaybeLock,
     resultLock : MaybeLock,
     completed  : BOOLEAN,
     recovery   : {"none", "rolled-back", "recovery-required"}]

NoFiles  == [x \in {} |-> None]
NoBackup == [manifest |-> FALSE, before |-> NoFiles, after |-> NoFiles,
             priorLock |-> None, resultLock |-> None,
             completed |-> FALSE, recovery |-> "none"]
NewTransaction ==
    [pc |-> "new", kind |-> "none", components |-> {}, wants |-> NoFiles,
     current |-> NoFiles, desired |-> NoFiles,
     overwritten |-> {}, preserved |-> {}, changes |-> {},
     expected |-> None, goal |-> None, prior |-> Uncaptured,
     checked |-> {}, stale |-> {}, applied |-> <<>>, todo |-> <<>>,
     lockChanged |-> FALSE, unreconciled |-> {}]

\* Nothing is installed; people may have a configuration of their own.
Init ==
    /\ files \in {[x \in Paths |-> IF x = Config THEN c ELSE None] : c \in UserContents \cup {None}}
    /\ lock = None
    /\ lease = None
    /\ backups = [p \in Procs |-> NoBackup]
    /\ tx = [p \in Procs |-> NewTransaction]
    /\ meddled = {}

In(p, where)   == tx[p].pc = where
Goto(p, where) == tx' = [tx EXCEPT ![p].pc = where]
Planned(p)     == DOMAIN tx[p].current

\* The process ends, and what it knew with it.
End(p, how) == tx' = [tx EXCEPT ![p] = [NewTransaction EXCEPT !.pc = how]]

-----------------------------------------------------------------------------
(* Planning and asking. *)

Installed == IF lock = None THEN NoFiles ELSE lock.installed

Draft(p, transaction) ==
    /\ tx' = [tx EXCEPT ![p] = transaction]
    /\ UNCHANGED <<files, lock, lease, backups, meddled>>

\* createInstallPlan, and the answers about the files in the way that nobody
\* manages: a preserved one stays unmanaged.  What lock.json lists and the
\* catalog no longer ships is to go.
PlanInstall(p) ==
    /\ In(p, "new")
    /\ \E release \in Releases :
        LET wants      == release.wants
            dropped    == DOMAIN Installed \ release.ships
            collisions == {x \in DOMAIN wants \ DOMAIN Installed : x # Config /\ files[x] # None}
        IN  \E preserved \in SUBSET collisions :
                LET desired     == [x \in DOMAIN wants \cup dropped |->
                                       IF x \in dropped THEN None
                                       ELSE IF x \in preserved THEN files[x] ELSE wants[x]]
                    overwritten == collisions \ preserved
                IN  Draft(p, [tx[p] EXCEPT
                        !.pc          = "planned",
                        !.kind        = "install",
                        !.components  = release.components,
                        !.wants       = wants,
                        !.current     = Restrict(files, DOMAIN desired),
                        !.desired     = desired,
                        !.overwritten = overwritten,
                        !.preserved   = preserved,
                        !.changes     = dropped \cup overwritten
                                           \cup {x \in DOMAIN wants : files[x] # desired[x]}])

\* prepareUpdatePlan turns it into an update: it reads lock.json again, which
\* is the one its commit will demand, wants every managed file there, and keeps
\* those that the person, or the comparison with the last release, keeps.
PrepareUpdate(p) ==
    /\ In(p, "planned")
    /\ tx[p].kind = "install"
    /\ lock # None
    /\ LET current == tx[p].current
           wants   == tx[p].wants
           owned   == DOMAIN wants \cap DOMAIN Installed
           differs == {x \in owned : current[x] # wants[x]}
       IN  /\ \A x \in owned : current[x] # None
           /\ \E kept \in SUBSET differs :
                Draft(p, [tx[p] EXCEPT
                    !.kind        = "update",
                    !.desired     = [x \in DOMAIN current |-> IF x \in kept THEN current[x]
                                                             ELSE IF x \in owned THEN wants[x]
                                                             ELSE tx[p].desired[x]],
                    !.overwritten = @ \ owned,
                    !.preserved   = @ \ owned,
                    !.changes     = (@ \ owned) \cup (differs \ kept),
                    !.expected    = lock])

\* `skynex uninstall` reads lock.json and asks whether to remove what it lists,
\* which must be as it was installed.
PlanUninstall(p) ==
    /\ In(p, "new")
    /\ lock # None
    /\ Draft(p, [tx[p] EXCEPT !.pc         = "planned",
                              !.kind       = "uninstall",
                              !.components = lock.components,
                              !.current    = Installed,
                              !.desired    = [x \in DOMAIN Installed |-> None],
                              !.changes    = DOMAIN Installed])

\* restoreBackup: only files of the running release, and only over exactly
\* what the backed-up transaction left.
PlanRestore(p) ==
    /\ In(p, "new")
    /\ \E b \in Procs, release \in Releases :
          /\ backups[b].manifest
          /\ DOMAIN backups[b].after \subseteq release.ships
          /\ \A x \in DOMAIN backups[b].after : files[x] = backups[b].after[x]
          /\ Draft(p, [tx[p] EXCEPT !.pc       = "ready",
                                    !.kind     = "restore",
                                    !.current  = backups[b].after,
                                    !.desired  = backups[b].before,
                                    !.changes  = DOMAIN backups[b].after,
                                    !.expected = backups[b].resultLock,
                                    !.goal     = backups[b].priorLock])

-----------------------------------------------------------------------------
(* The entry into the apply, once every question is answered. *)

Fails(p) == Draft(p, [NewTransaction EXCEPT !.pc = "failed"])

\* applyInstallPlan: "Target changed after planning".
Recheck(p) ==
    /\ In(p, "planned")
    /\ tx[p].kind \in {"install", "update"}
    /\ IF \A x \in Planned(p) : files[x] = tx[p].current[x]
       THEN Draft(p, [tx[p] EXCEPT !.pc = "looked"])
       ELSE Fails(p)

\* The configuration is not removed but written without the parts that the
\* lock.json asked about says are installed.
ReadConfig(p) ==
    /\ In(p, "planned")
    /\ tx[p].kind = "uninstall"
    /\ IF Config \notin Planned(p) THEN Draft(p, [tx[p] EXCEPT !.pc = "looked"])
       ELSE IF files[Config] = None THEN Fails(p)
       ELSE Draft(p, [tx[p] EXCEPT
                !.pc      = "looked",
                !.current = [@ EXCEPT ![Config] = files[Config]],
                !.desired = [@ EXCEPT ![Config] = Unregistered[tx[p].components][files[Config]]]])

\* What the apply asks of lock.json as it is now.  A file in its way must have
\* been asked about or be managed, and a managed one be as installed or as
\* wanted, unless an update has reviewed it.  What it refuses besides, and the
\* source and pending digests of kept edits, are in InstallPlanner.
Allowed(p) ==
    IF tx[p].kind = "uninstall" THEN lock # None
    ELSE \A x \in Planned(p) :
            IF x \in DOMAIN Installed
            THEN \/ tx[p].current[x] = Installed[x]
                 \/ /\ x \in DOMAIN tx[p].wants
                    /\ tx[p].kind = "update" \/ tx[p].current[x] = tx[p].wants[x]
            ELSE \/ tx[p].current[x] = None
                 \/ x \in {Config} \cup tx[p].overwritten \cup tx[p].preserved

\* An uninstall leaves no resource listed.  The others carry over what they do
\* not plan, or preserve.
Listed(p) ==
    LET owned == Planned(p) \ tx[p].preserved
        stays == {x \in owned : tx[p].desired[x] # None}
    IN  IF tx[p].kind = "uninstall" THEN NoFiles
        ELSE [x \in (DOMAIN Installed \ owned) \cup stays |->
                 IF x \in stays THEN tx[p].desired[x] ELSE Installed[x]]

NewLock(p) ==
    [by         |-> p,
     components |-> IF tx[p].kind = "uninstall" THEN lock.components ELSE tx[p].components,
     installed  |-> Listed(p)]

\* lock.json is read once more.  Only an update demands the one of its plan.
Enter(p) ==
    /\ In(p, "looked")
    /\ IF Allowed(p)
       THEN Draft(p, [tx[p] EXCEPT !.pc       = "ready",
                                   !.expected = IF tx[p].kind = "update" THEN @ ELSE lock,
                                   !.goal     = NewLock(p)])
       ELSE Fails(p)

-----------------------------------------------------------------------------
(* Prepare. *)

Acquire(p) ==
    /\ In(p, "ready")
    /\ lease = None
    /\ lease' = p
    /\ Goto(p, "lock")
    /\ UNCHANGED <<files, lock, backups, meddled>>

\* "Another installer transaction is active", or the lease of a dead one.
Contend(p) ==
    /\ In(p, "ready")
    /\ lease # None
    /\ End(p, "failed")
    /\ UNCHANGED <<files, lock, lease, backups, meddled>>

\* Whatever throws on the way forward ends in the catch block, which starts
\* from the end of what has been applied.
Throw(p) == tx' = [tx EXCEPT ![p].pc = "undo", ![p].todo = tx[p].applied]

\* Faulty: the lock is kept for the rollback but not compared.
ReadLockOnly(p) ==
    /\ In(p, "lock")
    /\ tx' = [tx EXCEPT ![p].prior = lock, ![p].pc = "check"]
    /\ UNCHANGED <<files, lock, lease, backups, meddled>>

ReadLock(p) ==
    /\ In(p, "lock")
    /\ tx' = [tx EXCEPT ![p].prior = lock,
                        ![p].pc = IF lock = tx[p].expected THEN "check" ELSE "undo"]
    /\ UNCHANGED <<files, lock, lease, backups, meddled>>

\* Faulty: the digests of the plan are taken for granted.
CheckNothing(p) ==
    /\ In(p, "check")
    /\ \E x \in Planned(p) \ tx[p].checked : tx' = [tx EXCEPT ![p].checked = @ \cup {x}]
    /\ UNCHANGED <<files, lock, lease, backups, meddled>>

CheckFile(p) ==
    /\ In(p, "check")
    /\ \E x \in Planned(p) \ tx[p].checked :
          IF files[x] = tx[p].current[x]
          THEN tx' = [tx EXCEPT ![p].checked = @ \cup {x}]
          ELSE Throw(p)
    /\ UNCHANGED <<files, lock, lease, backups, meddled>>

Changed(p) == tx[p].changes

\* Faulty: the manifest only lists the files that have a snapshot.
PrepareSnapshots(p) ==
    /\ In(p, "check")
    /\ tx[p].checked = Planned(p)
    /\ LET saved == {x \in Changed(p) : tx[p].current[x] # None}
       IN  backups' = [backups EXCEPT ![p] =
                          [NoBackup EXCEPT !.manifest   = TRUE,
                                           !.before     = Restrict(tx[p].current, saved),
                                           !.after      = Restrict(tx[p].desired, saved),
                                           !.priorLock  = tx[p].prior,
                                           !.resultLock = tx[p].goal]]
    /\ Goto(p, "apply")
    /\ UNCHANGED <<files, lock, lease, meddled>>

\* The snapshots, then the manifest, all before the first change.
Prepare(p) ==
    /\ In(p, "check")
    /\ tx[p].checked = Planned(p)
    /\ backups' = [backups EXCEPT ![p] =
                      [NoBackup EXCEPT !.manifest   = TRUE,
                                       !.before     = Restrict(tx[p].current, Changed(p)),
                                       !.after      = Restrict(tx[p].desired, Changed(p)),
                                       !.priorLock  = tx[p].prior,
                                       !.resultLock = tx[p].goal]]
    /\ Goto(p, "apply")
    /\ UNCHANGED <<files, lock, lease, meddled>>

-----------------------------------------------------------------------------
(* Apply, verify, commit. *)

Remaining(p) == Changed(p) \ Range(tx[p].applied)

RemovesFiles(p) == \E x \in Changed(p) : tx[p].desired[x] = None

\* Faulty: the order of the plan.
AnyOrder(p) == Remaining(p)

\* applyOrder: the configuration last, or first if anything is removed.
NextInOrder(p) ==
    IF RemovesFiles(p) /\ Config \in Remaining(p) THEN {Config}
    ELSE IF Remaining(p) = {Config} THEN {Config}
    ELSE Remaining(p) \ {Config}

ApplyFile(p) ==
    /\ In(p, "apply")
    /\ \E x \in NextInOrder(p) :
          /\ files' = [files EXCEPT ![x] = tx[p].desired[x]]
          /\ tx' = [tx EXCEPT ![p].applied = Append(@, x)]
    /\ UNCHANGED <<lock, lease, backups, meddled>>

\* Removals are not looked at again.
Verify(p) ==
    /\ In(p, "apply")
    /\ Remaining(p) = {}
    /\ IF \A x \in Changed(p) : tx[p].desired[x] \in {None, files[x]}
       THEN Goto(p, "commit")
       ELSE Throw(p)
    /\ UNCHANGED <<files, lock, lease, backups, meddled>>

CommitLock(p) ==
    /\ In(p, "commit")
    /\ lock' = tx[p].goal
    /\ tx' = [tx EXCEPT ![p].pc = "complete",
                        ![p].lockChanged = tx[p].goal # None \/ tx[p].prior # None]
    /\ UNCHANGED <<files, lease, backups, meddled>>

Complete(p) ==
    /\ In(p, "complete")
    /\ backups' = [backups EXCEPT ![p].completed = TRUE]
    /\ Goto(p, "release")
    /\ UNCHANGED <<files, lock, lease, meddled>>

Release(p) ==
    /\ In(p, "release")
    /\ lease' = None
    /\ End(p, "committed")
    /\ UNCHANGED <<files, lock, backups, meddled>>

-----------------------------------------------------------------------------
(* The catch block. *)

\* An input or output error, or the caller's verify().
Fail(p) ==
    /\ tx[p].pc \in Forward
    /\ Throw(p)
    /\ UNCHANGED <<files, lock, lease, backups, meddled>>

Undone(p) == tx[p].todo[Len(tx[p].todo)]
AllButLast(s) == SubSeq(s, 1, Len(s) - 1)

UndoFile(p) ==
    /\ In(p, "undo")
    /\ tx[p].todo # <<>>
    /\ files' = [files EXCEPT ![Undone(p)] = tx[p].current[Undone(p)]]
    /\ tx' = [tx EXCEPT ![p].todo = AllButLast(@)]
    /\ UNCHANGED <<lock, lease, backups, meddled>>

\* The error may come before or after the file is back.
UndoFileFails(p) ==
    /\ In(p, "undo")
    /\ tx[p].todo # <<>>
    /\ files' \in {files, [files EXCEPT ![Undone(p)] = tx[p].current[Undone(p)]]}
    /\ tx' = [tx EXCEPT ![p].todo = AllButLast(@),
                        ![p].unreconciled = @ \cup {Undone(p)}]
    /\ UNCHANGED <<lock, lease, backups, meddled>>

UndoLock(p) ==
    /\ In(p, "undo")
    /\ tx[p].todo = <<>>
    /\ lock' = IF tx[p].lockChanged THEN tx[p].prior ELSE lock
    /\ Goto(p, "record")
    /\ UNCHANGED <<files, lease, backups, meddled>>

UndoLockFails(p) ==
    /\ In(p, "undo")
    /\ tx[p].todo = <<>>
    /\ tx[p].lockChanged
    /\ lock' \in {lock, tx[p].prior}
    /\ tx' = [tx EXCEPT ![p].pc = "record", ![p].unreconciled = @ \cup {"lock.json"}]
    /\ UNCHANGED <<files, lease, backups, meddled>>

HasMutated(p) == tx[p].applied # <<>> \/ tx[p].lockChanged

RecoveryStatus(p) == IF tx[p].unreconciled = {} THEN "rolled-back" ELSE "recovery-required"

\* recovery.json, once something has been changed.
Record(p) ==
    /\ In(p, "record")
    /\ backups' = IF HasMutated(p)
                  THEN [backups EXCEPT ![p].recovery = RecoveryStatus(p)]
                  ELSE backups
    /\ Goto(p, "free")
    /\ UNCHANGED <<files, lock, lease, meddled>>

\* As with a file, the record may be there in spite of the error.
RecordFails(p) ==
    /\ In(p, "record")
    /\ HasMutated(p)
    /\ backups' \in {backups, [backups EXCEPT ![p].recovery = RecoveryStatus(p)]}
    /\ tx' = [tx EXCEPT ![p].pc = "free", ![p].unreconciled = @ \cup {"recovery.json"}]
    /\ UNCHANGED <<files, lock, lease, meddled>>

\* Faulty: the lease goes in any case.
FreeAlways(p) ==
    /\ In(p, "free")
    /\ lease' = None
    /\ End(p, "failed")
    /\ UNCHANGED <<files, lock, backups, meddled>>

\* The lease is kept when anything is left unreconciled.  A failure to remove
\* it is ignored.
Free(p) ==
    /\ In(p, "free")
    /\ \/ /\ tx[p].unreconciled = {}
          /\ lease' = None
          /\ End(p, "failed")
       \/ /\ lease' = lease
          /\ Goto(p, "failed")
    /\ UNCHANGED <<files, lock, backups, meddled>>

-----------------------------------------------------------------------------
(* Death, people. *)

Crash(p) ==
    /\ tx[p].pc \in Forward \cup Backward
    /\ Goto(p, "dead")
    /\ UNCHANGED <<files, lock, lease, backups, meddled>>

Edit(x, c) ==
    /\ x \notin meddled
    /\ Cardinality(meddled) < MaxEdits
    /\ c # files[x]
    /\ files' = [files EXCEPT ![x] = c]
    /\ meddled' = meddled \cup {x}
    /\ tx' = [p \in Procs |-> [tx[p] EXCEPT !.stale = @ \cup ({x} \cap tx[p].checked)]]
    /\ UNCHANGED <<lock, lease, backups>>

\* What docs/security-model.md asks of the person who finds a lease: put back
\* the snapshots and the exact prior lock, then release.  Without a manifest
\* nothing has been changed.
Reconcile(p) ==
    /\ lease = p
    /\ tx[p].pc \in Over
    /\ files' = [x \in Paths |-> IF x \in DOMAIN backups[p].before
                                THEN backups[p].before[x] ELSE files[x]]
    /\ lock' = IF backups[p].manifest THEN backups[p].priorLock ELSE lock
    /\ lease' = None
    /\ End(p, tx[p].pc)
    /\ UNCHANGED <<backups, meddled>>

-----------------------------------------------------------------------------
Proceed(p) ==
    \/ Acquire(p)      \/ Contend(p)
    \/ ReadLock(p)     \/ CheckFile(p)     \/ Prepare(p)
    \/ ApplyFile(p)    \/ Verify(p)
    \/ CommitLock(p)   \/ Complete(p)      \/ Release(p)
    \/ Fail(p)
    \/ UndoFile(p)     \/ UndoFileFails(p)
    \/ UndoLock(p)     \/ UndoLockFails(p)
    \/ Record(p)       \/ RecordFails(p)
    \/ Free(p)

People == \/ \E x \in Paths, c \in UserContents \cup {None} : Edit(x, c)
          \/ \E p \in Procs : Reconcile(p)

Ask(p) ==
    \/ PlanInstall(p) \/ PrepareUpdate(p) \/ PlanUninstall(p) \/ PlanRestore(p)
    \/ Recheck(p)     \/ ReadConfig(p)    \/ Enter(p)

Next == \/ \E p \in Procs : Ask(p) \/ Proceed(p) \/ Crash(p)
        \/ People

Spec == Init /\ [][Next]_vars

-----------------------------------------------------------------------------
(* Correctness. *)

TypeOK ==
    /\ files \in [Paths -> MaybeContent]
    /\ lock \in MaybeLock
    /\ lease \in Procs \cup {None}
    /\ backups \in [Procs -> Backup]
    /\ tx \in [Procs -> Transaction]
    /\ meddled \subseteq Paths

\* The lease file excludes: the one transaction between its creation and its
\* removal is the one it names, after crashes and clean-ups too.
OneInstaller ==
    \A p \in Procs : tx[p].pc \in Forward \cup Backward => lease = p

\* The files a transaction has checked and nobody has touched since.
Trusted(p) == tx[p].checked \ tx[p].stale

Whole(p, f, l)   == (\A x \in Trusted(p) : f[x] = tx[p].desired[x]) /\ l = tx[p].goal
Nothing(p, f, l) == /\ \A x \in Trusted(p) : f[x] = tx[p].current[x]
                    /\ tx[p].prior # Uncaptured => l = tx[p].prior

\* When the lease goes, the files and lock.json are all as the transaction
\* wants them and it says so, or all as it found them, whichever steps failed,
\* whether the executor or a person cleaned up.  Only files that people changed
\* after the check are excepted.
AllOrNothing ==
    [][\A p \in Procs :
          lease = p /\ lease' # p =>
              IF tx'[p].pc = "committed"
              THEN Whole(p, files', lock')
              ELSE Nothing(p, files', lock')]_vars

\* At every moment a file or lock.json that differs from what the transaction
\* found is in its manifest with what was there: a process that dies here leaves
\* enough on disk to put everything back.
Recoverable ==
    \A p \in Procs :
        lease = p =>
            /\ \A x \in Trusted(p) :
                  files[x] # tx[p].current[x] =>
                      /\ backups[p].manifest
                      /\ x \in DOMAIN backups[p].before
                      /\ backups[p].before[x] = tx[p].current[x]
            /\ tx[p].prior \notin {Uncaptured, lock} =>
                  backups[p].manifest /\ backups[p].priorLock = tx[p].prior

\* A file is only overwritten with the content its plan was made for still in
\* it: an edit, or another transaction, between the plan and the check stops
\* the transaction.  What people change after the check is not seen.
StalePlansStop ==
    [][\A p \in Procs, x \in Paths :
          tx'[p].applied = Append(tx[p].applied, x) =>
              files[x] = tx[p].current[x] \/ x \in tx[p].stale]_vars

\* However many other transactions ran since, the lock.json a commit replaces is
\* the one it was computed for: of an update the one that it was prepared from,
\* of a restore the one that the backup left, of an install and an uninstall the
\* one read when their apply began.  What was committed while an install asked
\* its questions is carried over: it forgets nothing that it does not plan.  An
\* uninstall does forget what was installed while it asked.
CommitIsFenced ==
    [][\A p \in Procs :
          In(p, "commit") /\ tx'[p].pc = "complete" =>
              /\ lock = tx[p].expected
              /\ tx[p].kind = "install" =>
                    \A x \in DOMAIN Installed \ Planned(p) :
                        x \in DOMAIN lock'.installed /\ lock'.installed[x] = Installed[x]]_vars

\* The files that some configuration names.
Registrable == UNION {Registers[c] : c \in MaybeContent}

\* A lock.json that lists such files while the components last selected leave
\* out the plugins: an uninstall that starts from it removes the files and
\* leaves their registrations (apps/cli/src/index.ts:242-245).
Narrowed(l) == /\ l # None
               /\ "plugins" \notin l.components
               /\ DOMAIN l.installed \cap Registrable # {}

EverNarrowed == \E p \in Procs : backups[p].manifest /\ Narrowed(backups[p].resultLock)

\* OpenCode watches its configuration and loads what it registers at once: at
\* no step of a transaction or of its rollback does the configuration name a
\* plugin file that is missing.  Excepted are people's own changes, rollbacks
\* reported as incomplete, and all that follows a transaction which narrowed
\* the components and left the plugins in lock.json.
RegisteredFilesExist ==
    \/ Config \in meddled
    \/ lease # None /\ tx[lease].unreconciled # {}
    \/ EverNarrowed
    \/ \A x \in Registers[files[Config]] : files[x] # None \/ x \in meddled

\* Where it holds: every release ships what any other installs, whoever selects
\* the plugins also gets the configuration, which registers files of its own
\* release, the configurations people write register none, and an uninstall that
\* takes the plugins out takes out all registrations, and else adds none.  A
\* release that drops files while it brings others makes applyOrder write the
\* configuration first, before the files it names.
SteadyCatalog ==
    /\ \A release \in Releases, other \in Releases : DOMAIN release.wants \subseteq other.ships
    /\ \A release \in Releases :
          /\ DOMAIN release.wants \cap Registrable # {} => Config \in DOMAIN release.wants
          /\ Config \in DOMAIN release.wants => Registers[release.wants[Config]] \subseteq DOMAIN release.wants
    /\ \A c \in UserContents \cup {None} : Registers[c] = {}
    /\ \A parts \in SUBSET Parts, c \in Contents :
          Registers[Unregistered[parts][c]] \subseteq IF "plugins" \in parts THEN {} ELSE Registers[c]

\* A completion record says committed, and it stays true.
CompletionIsFinal ==
    \A p \in Procs : backups[p].completed => tx[p].pc \notin Backward \cup {"failed"}

=============================================================================
