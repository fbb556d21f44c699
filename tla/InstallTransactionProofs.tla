------------------------ MODULE InstallTransactionProofs ------------------------
(***************************************************************************)
(* The lease and the comparison of lock.json serialise transactions, for   *)
(* any number of processes, any set of files and any catalogs; and where   *)
(* no release drops a file, the configuration never names a missing one.   *)
(***************************************************************************)
EXTENDS InstallTransaction, TLAPS

Leased == Forward \cup Backward

\* The lock that a transaction leaves lists what it does not plan as it was.
CarriedOver(r, installed) ==
    \A x \in DOMAIN installed \ DOMAIN r.current :
        x \in DOMAIN r.goal.installed /\ r.goal.installed[x] = installed[x]

\* What is true of a transaction and its backup whether it holds the lease or
\* not: it looks at what it planned, and starts with nothing done.
Orderly(r, b) ==
    /\ DOMAIN r.desired = DOMAIN r.current
    /\ r.changes \subseteq DOMAIN r.current
    /\ \A x \in DOMAIN r.current \ r.changes : r.desired[x] = r.current[x]
    /\ r.checked \subseteq DOMAIN r.current
    /\ r.pc \in {"new", "planned", "looked", "ready", "lock", "check"} =>
           b = NoBackup /\ r.applied = <<>> /\ ~ r.lockChanged /\ r.unreconciled = {}
    /\ r.pc \in {"new", "planned", "looked", "ready", "lock"} => r.prior = Uncaptured
    /\ r.pc \in {"new", "planned", "looked", "ready"} => r.checked = {} /\ r.todo = <<>>
    /\ r.pc = "new" => r.expected = None
    /\ r.pc \in {"planned", "looked"} /\ r.kind \in {"install", "update"} =>
           DOMAIN r.wants \subseteq DOMAIN r.current
    /\ r.pc = "planned" /\ r.kind = "uninstall" => r.changes = DOMAIN r.current
    /\ r.kind = "install" /\ r.expected # None => CarriedOver(r, r.expected.installed)
    /\ DOMAIN b.before = DOMAIN b.after

\* How far the transaction that holds the lease has come: what of the files
\* and of lock.json is as it found it, and what as it wants it.
FilesSound(r, f) ==
    \A x \in r.checked \ r.stale :
        /\ x \notin Range(r.applied) => f[x] = r.current[x]
        /\ r.pc \in Forward /\ x \in Range(r.applied) => f[x] = r.desired[x]
        /\ r.pc \in Backward \cup {"failed"} /\ x \notin Range(r.todo) =>
               f[x] = r.current[x] \/ x \in r.unreconciled

LockSound(r, l) ==
    /\ r.prior # Uncaptured /\ ~ r.lockChanged => l = r.prior
    /\ r.pc \in {"check", "apply", "commit"} => ~ r.lockChanged
    /\ r.pc \in {"check", "apply", "commit", "complete", "release"} =>
           r.prior = r.expected /\ r.prior # Uncaptured
    /\ r.pc \in {"complete", "release"} => l = r.goal
    /\ r.pc \in {"record", "free", "failed"} /\ r.prior # Uncaptured =>
           l = r.prior \/ "lock.json" \in r.unreconciled

BackupSound(r, b) ==
    /\ b.manifest => /\ r.checked = DOMAIN r.current
                     /\ r.prior # Uncaptured
                     /\ b.before = Restrict(r.current, r.changes)
                     /\ b.priorLock = r.prior
    /\ ~ b.manifest => DOMAIN b.before = {} /\ r.applied = <<>> /\ ~ r.lockChanged
    /\ r.pc \in {"apply", "commit", "complete", "release"} => b.manifest

Sound(r, b, f, l) ==
    /\ r.pc \in Leased \cup {"failed", "dead"}
    /\ Range(r.applied) \cup Range(r.todo) \subseteq r.changes
    /\ r.pc \in {"commit", "complete", "release"} => r.changes \subseteq Range(r.applied)
    /\ r.pc \in {"record", "free", "failed"} => r.todo = <<>>
    /\ FilesSound(r, f)
    /\ LockSound(r, l)
    /\ BackupSound(r, b)

IInv ==
    /\ TypeOK
    /\ OneInstaller
    /\ \A p \in Procs : /\ Orderly(tx[p], backups[p])
                        /\ lease = p => Sound(tx[p], backups[p], files, lock)

-----------------------------------------------------------------------------
(* What records and outlooks are made of. *)

LEMMA RestrictTyped ==
    ASSUME NEW outlook \in Outlook, NEW S \in SUBSET DOMAIN outlook
    PROVE  Restrict(outlook, S) \in Outlook
<1>1. PICK D \in SUBSET Paths : outlook \in [D -> MaybeContent]
  BY DEF Outlook
<1>2. S \in SUBSET Paths /\ Restrict(outlook, S) \in [S -> MaybeContent]
  BY <1>1 DEF Restrict
<1> QED
  BY <1>2 DEF Outlook

LEMMA OutlookApply ==
    ASSUME NEW outlook \in Outlook
    PROVE  /\ DOMAIN outlook \subseteq Paths
           /\ \A x \in DOMAIN outlook : outlook[x] \in MaybeContent
BY DEF Outlook

LEMMA OutlookMake ==
    ASSUME NEW S \in SUBSET Paths, NEW f, f \in [S -> MaybeContent]
    PROVE  f \in Outlook
BY DEF Outlook

LEMMA NewTyped == NewTransaction \in Transaction /\ NoBackup \in Backup /\ NoFiles \in Outlook
<1>1. NoFiles \in [{} -> MaybeContent] /\ {} \in SUBSET Paths
  BY DEF NoFiles
<1>2. NoFiles \in Outlook
  BY <1>1 DEF Outlook
<1>3. <<>> \in Seq(Paths)
  OBVIOUS
<1> QED
  BY <1>2, <1>3 DEF NewTransaction, Transaction, NoBackup, Backup, MaybeLock

LEMMA Appended ==
    ASSUME NEW s \in Seq(Paths), NEW x \in Paths
    PROVE  Append(s, x) \in Seq(Paths) /\ Range(Append(s, x)) = Range(s) \cup {x}
<1> DEFINE t == Append(s, x)
<1>1. /\ t \in Seq(Paths)
      /\ DOMAIN t = 1..(Len(s) + 1) /\ DOMAIN s = 1..Len(s) /\ Len(s) \in Nat
      /\ t[Len(s) + 1] = x
      /\ \A i \in 1..Len(s) : t[i] = s[i]
  OBVIOUS
<1>2. \A i \in DOMAIN t : i = Len(s) + 1 \/ i \in DOMAIN s
  BY <1>1
<1>3. Len(s) + 1 \in DOMAIN t /\ \A i \in DOMAIN s : i \in DOMAIN t
  BY <1>1
<1> HIDE DEF t
<1>4. Range(t) = Range(s) \cup {x}
  BY <1>1, <1>2, <1>3 DEF Range
<1> QED
  BY <1>1, <1>4 DEF t

LEMMA Popped ==
    ASSUME NEW s \in Seq(Paths), s # <<>>
    PROVE  /\ AllButLast(s) \in Seq(Paths)
           /\ s[Len(s)] \in Range(s)
           /\ Range(s) = Range(AllButLast(s)) \cup {s[Len(s)]}
<1> DEFINE t == AllButLast(s)
<1>1. /\ t \in Seq(Paths)
      /\ DOMAIN t = 1..(Len(s) - 1) /\ DOMAIN s = 1..Len(s) /\ Len(s) \in Nat \ {0}
      /\ \A i \in 1..(Len(s) - 1) : t[i] = s[i]
  BY DEF AllButLast
<1>2. \A i \in DOMAIN s : i = Len(s) \/ i \in DOMAIN t
  BY <1>1
<1>3. Len(s) \in DOMAIN s /\ \A i \in DOMAIN t : i \in DOMAIN s
  BY <1>1
<1> HIDE DEF t
<1>4. Range(s) = Range(t) \cup {s[Len(s)]} /\ s[Len(s)] \in Range(s)
  BY <1>1, <1>2, <1>3 DEF Range
<1> QED
  BY <1>1, <1>4 DEF t

-----------------------------------------------------------------------------
\* A step of one process keeps the invariant if it keeps the types, the lease
\* keeps excluding, and the process leaves its own work in order.
LEMMA StepHolds ==
    ASSUME IInv, NEW p \in Procs, NEW r \in Transaction, NEW b \in Backup,
           tx' = [tx EXCEPT ![p] = r],
           backups' = [backups EXCEPT ![p] = b],
           files' \in [Paths -> MaybeContent], lock' \in MaybeLock, meddled' = meddled,
           \/ lease' = lease /\ (r.pc \in Leased => lease = p)
           \/ lease' = p /\ lease = None
           \/ lease' = None /\ lease = p /\ r.pc \notin Leased,
           (files' = files /\ lock' = lock) \/ lease = p,
           Orderly(r, b),
           lease' = p => Sound(r, b, files', lock')
    PROVE  IInv'
<1>1. /\ tx'[p] = r /\ backups'[p] = b
      /\ \A q \in Procs \ {p} : tx'[q] = tx[q] /\ backups'[q] = backups[q]
  BY DEF IInv, TypeOK
<1>2. None \notin Procs
  BY InstallAssumption
<1>3. TypeOK'
  BY DEF IInv, TypeOK
<1>4. OneInstaller'
  BY <1>1, <1>2 DEF IInv, OneInstaller, Leased
<1>5. ASSUME NEW q \in Procs
      PROVE  /\ Orderly(tx'[q], backups'[q])
             /\ lease' = q => Sound(tx'[q], backups'[q], files', lock')
  <2>1. CASE q = p
    BY <1>1, <2>1
  <2>2. CASE q # p
    <3>1. Orderly(tx'[q], backups'[q])
      BY <1>1, <2>2 DEF IInv
    <3>2. lease' = q => lease = q /\ files' = files /\ lock' = lock
      BY <1>2, <2>2
    <3> QED
      BY <1>1, <2>2, <3>1, <3>2 DEF IInv
  <2> QED
    BY <2>1, <2>2
<1> QED
  BY <1>3, <1>4, <1>5 DEF IInv

-----------------------------------------------------------------------------
\* What is known of a transaction about to take a step.
LEMMA Known ==
    ASSUME IInv, NEW p \in Procs
    PROVE  /\ tx[p] \in Transaction /\ backups[p] \in Backup
           /\ tx \in [Procs -> Transaction] /\ backups \in [Procs -> Backup]
           /\ files \in [Paths -> MaybeContent] /\ lock \in MaybeLock
           /\ tx[p].pc \in Leased => lease = p
           /\ Orderly(tx[p], backups[p])
           /\ lease = p => Sound(tx[p], backups[p], files, lock)
           /\ DOMAIN tx[p].current \subseteq Paths
           /\ tx[p].changes \subseteq DOMAIN tx[p].current
           /\ \A x \in DOMAIN tx[p].current : tx[p].current[x] \in MaybeContent
           /\ \A x \in DOMAIN tx[p].current : tx[p].desired[x] \in MaybeContent
<1>1. tx[p] \in Transaction /\ tx[p].current \in Outlook /\ tx[p].desired \in Outlook
  BY DEF IInv, TypeOK, Transaction
<1>2. Orderly(tx[p], backups[p])
  BY DEF IInv
<1> QED
  BY <1>1, <1>2, OutlookApply DEF IInv, TypeOK, OneInstaller, Leased, Orderly

LEMMA ApplyFileHolds ==
    ASSUME IInv, NEW p \in Procs, ApplyFile(p)
    PROVE  IInv'
<1>1. PICK x \in NextInOrder(p) :
         /\ files' = [files EXCEPT ![x] = tx[p].desired[x]]
         /\ tx' = [tx EXCEPT ![p].applied = Append(@, x)]
  BY DEF ApplyFile
<1> DEFINE r == [tx[p] EXCEPT !.applied = Append(@, x)]
<1>2. /\ tx[p].pc = "apply" /\ lease = p
      /\ UNCHANGED <<lock, lease, backups, meddled>>
  BY Known DEF ApplyFile, In, Leased, Forward
<1>3. x \in tx[p].changes /\ x \notin Range(tx[p].applied)
  BY <1>1 DEF NextInOrder, Remaining, Changed, Planned
<1>4. x \in Paths /\ x \in DOMAIN tx[p].current /\ tx[p].desired[x] \in MaybeContent
  BY <1>3, Known
<1>5. tx[p] \in Transaction /\ tx[p].applied \in Seq(Paths)
  BY Known DEF Transaction
<1>6. /\ r \in Transaction
      /\ tx' = [tx EXCEPT ![p] = r]
      /\ Range(r.applied) = Range(tx[p].applied) \cup {x}
  <2>1. /\ Append(tx[p].applied, x) \in Seq(Paths)
        /\ Range(Append(tx[p].applied, x)) = Range(tx[p].applied) \cup {x}
    BY <1>4, <1>5, Appended
  <2> QED
    BY <2>1, <1>1, <1>5, Known DEF Transaction
<1>7. /\ \A f \in {"pc", "kind", "current", "desired", "changes", "expected", "goal", "prior", "checked", "stale",
                    "todo", "lockChanged", "unreconciled"} : r[f] = tx[p][f]
  BY <1>5 DEF Transaction
<1>8. Sound(tx[p], backups[p], files, lock) /\ Orderly(tx[p], backups[p])
  BY <1>2, Known
<1>9. Orderly(r, backups[p])
  BY <1>2, <1>7, <1>8 DEF Orderly, CarriedOver
<1>10. FilesSound(r, files')
  BY <1>1, <1>2, <1>3, <1>4, <1>6, <1>7, <1>8, Known DEF Sound, FilesSound, Forward, Backward
<1>11. Sound(r, backups[p], files', lock')
  <2>1. r.changes = tx[p].changes
    BY <1>7
  <2>2. LockSound(r, lock') /\ BackupSound(r, backups[p])
    BY <1>2, <1>7, <1>8, <2>1 DEF Sound, LockSound, BackupSound
  <2> QED
    BY <1>2, <1>3, <1>6, <1>7, <1>8, <1>10, <2>1, <2>2 DEF Sound
<1>12. files' \in [Paths -> MaybeContent]
  BY <1>1, <1>4, Known
<1> QED
  BY <1>2, <1>6, <1>7, <1>9, <1>11, <1>12, Known, StepHolds

\* The process ends without the lease, or gives it up.
LEMMA EndHolds ==
    ASSUME IInv, NEW p \in Procs, NEW how \in Over, End(p, how),
           UNCHANGED <<backups, meddled>>,
           files' \in [Paths -> MaybeContent], lock' \in MaybeLock,
           \/ UNCHANGED <<files, lock, lease>> /\ lease # p
           \/ lease = p /\ lease' = None
    PROVE  IInv'
<1> DEFINE r == [NewTransaction EXCEPT !.pc = how]
<1>1. r \in Transaction /\ r.pc = how /\ r.pc \notin Leased
  BY NewTyped DEF Transaction, NewTransaction, Over, Leased, Forward, Backward
<1>2. tx' = [tx EXCEPT ![p] = r] /\ backups' = [backups EXCEPT ![p] = backups[p]]
  BY Known DEF End
<1>3. Orderly(r, backups[p])
  BY <1>1, Known DEF Orderly, CarriedOver, NewTransaction, NoFiles, Over
<1>4. lease' # p
  BY InstallAssumption
<1> QED
  BY <1>1, <1>2, <1>3, <1>4, Known, StepHolds

\* The catch block starts from the end of what was applied.
LEMMA ThrowHolds ==
    ASSUME IInv, NEW p \in Procs, tx[p].pc \in Forward, Throw(p),
           UNCHANGED <<files, lock, lease, backups, meddled>>
    PROVE  IInv'
<1> DEFINE r == [tx[p] EXCEPT !.pc = "undo", !.todo = tx[p].applied]
<1>1. /\ lease = p /\ tx[p] \in Transaction
      /\ Orderly(tx[p], backups[p])
      /\ Sound(tx[p], backups[p], files, lock)
  BY Known DEF Leased
<1>2. r \in Transaction /\ tx' = [tx EXCEPT ![p] = r]
  BY <1>1, Known DEF Throw, Transaction, Backward
<1>3. /\ r.pc = "undo" /\ r.todo = tx[p].applied
      /\ \A f \in {"kind", "current", "desired", "changes", "expected", "goal", "prior", "checked", "stale",
                  "applied", "lockChanged", "unreconciled"} : r[f] = tx[p][f]
  BY <1>1 DEF Transaction
<1>4. Orderly(r, backups[p])
  BY <1>1, <1>3 DEF Orderly, CarriedOver
<1>5. FilesSound(r, files) /\ LockSound(r, lock) /\ BackupSound(r, backups[p])
  <2>1. r.changes = tx[p].changes
    BY <1>3
  <2>2. FilesSound(r, files)
    BY <1>1, <1>3 DEF Sound, FilesSound, Forward
  <2> QED
    BY <1>1, <1>3, <2>1, <2>2 DEF Sound, LockSound, BackupSound
<1>6. Sound(r, backups[p], files, lock)
  BY <1>1, <1>3, <1>5 DEF Sound, Leased, Backward
<1> QED
  BY <1>1, <1>2, <1>3, <1>4, <1>6, Known, StepHolds

LEMMA AcquireHolds ==
    ASSUME IInv, NEW p \in Procs, Acquire(p)
    PROVE  IInv'
<1> DEFINE r == [tx[p] EXCEPT !.pc = "lock"]
<1>1. /\ tx[p].pc = "ready" /\ tx[p] \in Transaction /\ Orderly(tx[p], backups[p])
      /\ lease' = p /\ lease = None
      /\ UNCHANGED <<files, lock, backups, meddled>>
  BY Known DEF Acquire, In
<1>2. r \in Transaction /\ tx' = [tx EXCEPT ![p] = r]
  BY <1>1, Known DEF Acquire, Goto, Transaction, Forward
<1>3. /\ r.pc = "lock"
      /\ \A f \in {"kind", "current", "desired", "changes", "expected", "goal", "prior", "checked", "stale",
                  "applied", "todo", "lockChanged", "unreconciled"} : r[f] = tx[p][f]
  BY <1>1 DEF Transaction
<1>4. Orderly(r, backups[p])
  BY <1>1, <1>3 DEF Orderly, CarriedOver
<1>5. r.checked = {} /\ r.todo = <<>> /\ r.applied = <<>> /\ ~ r.lockChanged /\ r.prior = Uncaptured
  BY <1>1, <1>3 DEF Orderly
<1>6. Range(<<>>) = {}
  BY DEF Range
<1>7. backups[p] = NoBackup /\ DOMAIN NoBackup.before = {} /\ ~ NoBackup.manifest
  BY <1>1 DEF Orderly, NoBackup, NoFiles
<1>8. Sound(r, backups[p], files, lock)
  <2>1. FilesSound(r, files) /\ LockSound(r, lock) /\ BackupSound(r, backups[p])
    BY <1>3, <1>5, <1>7 DEF FilesSound, LockSound, BackupSound
  <2> QED
    BY <1>3, <1>5, <1>6, <2>1 DEF Sound, Leased, Forward
<1> QED
  BY <1>1, <1>2, <1>3, <1>4, <1>8, Known, StepHolds

LEMMA ContendHolds ==
    ASSUME IInv, NEW p \in Procs, Contend(p)
    PROVE  IInv'
<1>1. lease # p
  BY Known, InstallAssumption DEF Contend, In, IInv, Sound, Leased, Forward, Backward
<1> QED
  BY <1>1, EndHolds, Known DEF Contend, Over

LEMMA ReadLockHolds ==
    ASSUME IInv, NEW p \in Procs, ReadLock(p)
    PROVE  IInv'
<1> DEFINE there == IF lock = tx[p].expected THEN "check" ELSE "undo"
           r     == [tx[p] EXCEPT !.prior = lock, !.pc = there]
<1>1. /\ tx[p].pc = "lock" /\ tx[p] \in Transaction /\ lease = p /\ lock \in MaybeLock
      /\ Orderly(tx[p], backups[p]) /\ Sound(tx[p], backups[p], files, lock)
      /\ UNCHANGED <<files, lock, lease, backups, meddled>>
  BY Known DEF ReadLock, In, Leased, Forward
<1>2. r \in Transaction /\ tx' = [tx EXCEPT ![p] = r]
  BY <1>1, Known DEF ReadLock, Transaction, Forward, Backward
<1>3. /\ r.pc = there /\ there \in {"check", "undo"} /\ r.prior = lock
      /\ \A f \in {"kind", "current", "desired", "changes", "expected", "goal", "checked", "stale",
                  "applied", "todo", "lockChanged", "unreconciled"} : r[f] = tx[p][f]
  BY <1>1 DEF Transaction
<1> HIDE DEF r
<1>4. Orderly(r, backups[p])
  BY <1>1, <1>3 DEF Orderly, CarriedOver
<1>5. Range(<<>>) = {} /\ tx[p].applied = <<>> /\ ~ tx[p].lockChanged /\ backups[p] = NoBackup
  BY <1>1 DEF Orderly, Range
<1>6. Sound(r, backups[p], files, lock)
  <2>1. r.changes = tx[p].changes
    BY <1>3
  <2>2. FilesSound(r, files)
    BY <1>1, <1>3, <1>5 DEF Sound, FilesSound
  <2>3. LockSound(r, lock)
    <3>1. there = "check" => lock = tx[p].expected
      OBVIOUS
    <3> QED
      BY <1>1, <1>3, <1>5, <3>1, InstallAssumption DEF LockSound
  <2>4. BackupSound(r, backups[p])
    BY <1>1, <1>3, <1>5, <2>1 DEF Sound, BackupSound, NoBackup
  <2> QED
    BY <1>1, <1>3, <2>1, <2>2, <2>3, <2>4 DEF Sound, Leased, Forward, Backward
<1>7. lease' = p /\ tx'[p] = r
  BY <1>1, <1>2, Known
<1> QED
  BY <1>1, <1>2, <1>3, <1>4, <1>6, Known, StepHolds

LEMMA CheckFileHolds ==
    ASSUME IInv, NEW p \in Procs, CheckFile(p)
    PROVE  IInv'
<1>1. PICK x \in Planned(p) \ tx[p].checked :
         IF files[x] = tx[p].current[x]
         THEN tx' = [tx EXCEPT ![p].checked = @ \cup {x}]
         ELSE Throw(p)
  BY DEF CheckFile
<1>2. /\ tx[p].pc = "check" /\ tx[p] \in Transaction /\ lease = p
      /\ Orderly(tx[p], backups[p]) /\ Sound(tx[p], backups[p], files, lock)
      /\ UNCHANGED <<files, lock, lease, backups, meddled>>
  BY Known DEF CheckFile, In, Leased, Forward
<1>3. CASE files[x] # tx[p].current[x]
  BY <1>1, <1>2, <1>3, ThrowHolds DEF Forward
<1>4. CASE files[x] = tx[p].current[x]
  <2> DEFINE r == [tx[p] EXCEPT !.checked = @ \cup {x}]
  <2>1. x \in DOMAIN tx[p].current /\ x \in Paths
    BY <1>1, Known DEF Planned
  <2>2. r \in Transaction /\ tx' = [tx EXCEPT ![p] = r]
    BY <1>1, <1>2, <1>4, <2>1, Known DEF Transaction
  <2>3. /\ r.checked = tx[p].checked \cup {x}
        /\ \A f \in {"pc", "kind", "current", "desired", "changes", "expected", "goal", "prior", "stale",
                    "applied", "todo", "lockChanged", "unreconciled"} : r[f] = tx[p][f]
    BY <1>2 DEF Transaction
  <2> HIDE DEF r
  <2>4. Orderly(r, backups[p])
    BY <1>2, <2>1, <2>3 DEF Orderly, CarriedOver
  <2>5. Range(<<>>) = {} /\ tx[p].applied = <<>> /\ ~ backups[p].manifest
    BY <1>2 DEF Orderly, Range, NoBackup
  <2>6. Sound(r, backups[p], files, lock)
    <3>1. r.changes = tx[p].changes
      BY <2>3
    <3>2. FilesSound(r, files)
      BY <1>2, <1>4, <2>3, <2>5 DEF Sound, FilesSound, Backward
    <3>3. LockSound(r, lock) /\ BackupSound(r, backups[p])
      BY <1>2, <2>3, <2>5 DEF Sound, LockSound, BackupSound
    <3> QED
      BY <1>2, <2>3, <3>1, <3>2, <3>3 DEF Sound
  <2> QED
    BY <1>2, <2>2, <2>3, <2>4, <2>6, Known, StepHolds
<1> QED
  BY <1>3, <1>4

LEMMA PrepareHolds ==
    ASSUME IInv, NEW p \in Procs, Prepare(p)
    PROVE  IInv'
<1> DEFINE r == [tx[p] EXCEPT !.pc = "apply"]
           b == [NoBackup EXCEPT !.manifest   = TRUE,
                                 !.before     = Restrict(tx[p].current, Changed(p)),
                                 !.after      = Restrict(tx[p].desired, Changed(p)),
                                 !.priorLock  = tx[p].prior,
                                 !.resultLock = tx[p].goal]
<1>1. /\ tx[p].pc = "check" /\ tx[p] \in Transaction /\ lease = p
      /\ tx[p].checked = DOMAIN tx[p].current
      /\ Orderly(tx[p], backups[p]) /\ Sound(tx[p], backups[p], files, lock)
      /\ UNCHANGED <<files, lock, lease, meddled>>
  BY Known DEF Prepare, In, Leased, Forward, Planned
<1>2. r \in Transaction /\ tx' = [tx EXCEPT ![p] = r]
  BY <1>1, Known DEF Prepare, Goto, Transaction, Forward
<1>3. /\ r.pc = "apply"
      /\ \A f \in {"kind", "current", "desired", "changes", "expected", "goal", "prior", "checked", "stale",
                  "applied", "todo", "lockChanged", "unreconciled"} : r[f] = tx[p][f]
  BY <1>1 DEF Transaction
<1>4. tx[p].prior # Uncaptured /\ tx[p].prior \in MaybeLock
  BY <1>1 DEF Sound, LockSound, Transaction
<1>5. /\ b.manifest /\ b.priorLock = tx[p].prior
      /\ b.before = Restrict(tx[p].current, Changed(p))
      /\ b.after = Restrict(tx[p].desired, Changed(p))
  BY DEF NoBackup
<1>6. b \in Backup
  <2>1. Changed(p) \subseteq DOMAIN tx[p].current /\ DOMAIN tx[p].current = DOMAIN tx[p].desired
    BY <1>1 DEF Changed, Planned, Orderly
  <2>2. tx[p].current \in Outlook /\ tx[p].desired \in Outlook
    BY <1>1 DEF Transaction
  <2>3. /\ Restrict(tx[p].current, Changed(p)) \in Outlook
        /\ Restrict(tx[p].desired, Changed(p)) \in Outlook
    BY <2>1, <2>2, RestrictTyped
  <2> QED
    BY <1>1, <1>4, <2>3, NewTyped DEF Backup, Transaction
<1>7. backups' = [backups EXCEPT ![p] = b]
  BY DEF Prepare
<1>8. r.changes = Changed(p) /\ r.changes = tx[p].changes
  BY <1>3 DEF Changed, Planned
<1> HIDE DEF r, b
<1>9. Orderly(r, b)
  BY <1>1, <1>3, <1>5 DEF Orderly, CarriedOver, Restrict
<1>10. Sound(r, b, files, lock)
  <2>1. FilesSound(r, files) /\ LockSound(r, lock)
    BY <1>1, <1>3 DEF Sound, FilesSound, LockSound, Forward, Backward
  <2>2. BackupSound(r, b)
    BY <1>1, <1>3, <1>4, <1>5, <1>8 DEF BackupSound
  <2> QED
    BY <1>1, <1>3, <1>8, <2>1, <2>2 DEF Sound, Leased, Forward
<1> QED
  BY <1>1, <1>2, <1>3, <1>6, <1>7, <1>9, <1>10, Known, StepHolds

LEMMA VerifyHolds ==
    ASSUME IInv, NEW p \in Procs, Verify(p)
    PROVE  IInv'
<1> DEFINE r == [tx[p] EXCEPT !.pc = "commit"]
<1>1. /\ tx[p].pc = "apply" /\ tx[p] \in Transaction /\ lease = p
      /\ Remaining(p) = {}
      /\ Orderly(tx[p], backups[p]) /\ Sound(tx[p], backups[p], files, lock)
      /\ UNCHANGED <<files, lock, lease, backups, meddled>>
      /\ Goto(p, "commit") \/ Throw(p)
  BY Known DEF Verify, In, Leased, Forward
<1>2. CASE Throw(p)
  BY <1>1, <1>2, ThrowHolds DEF Forward
<1>3. CASE Goto(p, "commit")
  <2>1. r \in Transaction /\ tx' = [tx EXCEPT ![p] = r]
    BY <1>1, <1>3, Known DEF Goto, Transaction, Forward
  <2>2. /\ r.pc = "commit"
        /\ \A f \in {"kind", "current", "desired", "changes", "expected", "goal", "prior", "checked", "stale",
                    "applied", "todo", "lockChanged", "unreconciled"} : r[f] = tx[p][f]
    BY <1>1 DEF Transaction
  <2> HIDE DEF r
  <2>3. r.changes = tx[p].changes /\ r.changes \subseteq Range(r.applied)
    BY <1>1, <2>2 DEF Remaining, Changed, Planned
  <2>4. Orderly(r, backups[p])
    BY <1>1, <2>2 DEF Orderly, CarriedOver
  <2>5. FilesSound(r, files) /\ LockSound(r, lock) /\ BackupSound(r, backups[p])
    BY <1>1, <2>2, <2>3 DEF Sound, FilesSound, LockSound, BackupSound, Forward, Backward
  <2>6. Sound(r, backups[p], files, lock)
    BY <1>1, <2>2, <2>3, <2>5 DEF Sound, Leased, Forward
  <2> QED
    BY <1>1, <2>1, <2>2, <2>4, <2>6, Known, StepHolds
<1> QED
  BY <1>1, <1>2, <1>3

LEMMA CommitLockHolds ==
    ASSUME IInv, NEW p \in Procs, CommitLock(p)
    PROVE  IInv'
<1> DEFINE written == tx[p].goal # None \/ tx[p].prior # None
           r       == [tx[p] EXCEPT !.pc = "complete", !.lockChanged = written]
<1>1. /\ tx[p].pc = "commit" /\ tx[p] \in Transaction /\ lease = p
      /\ lock' = tx[p].goal
      /\ Orderly(tx[p], backups[p]) /\ Sound(tx[p], backups[p], files, lock)
      /\ UNCHANGED <<files, lease, backups, meddled>>
  BY Known DEF CommitLock, In, Leased, Forward
<1>2. r \in Transaction /\ tx' = [tx EXCEPT ![p] = r]
  BY <1>1, Known DEF CommitLock, Transaction, Forward
<1>3. /\ r.pc = "complete" /\ r.lockChanged = written
      /\ \A f \in {"kind", "current", "desired", "changes", "expected", "goal", "prior", "checked", "stale",
                  "applied", "todo", "unreconciled"} : r[f] = tx[p][f]
  BY <1>1 DEF Transaction
<1>4. lock' \in MaybeLock
  BY <1>1 DEF Transaction
<1>5. ~ written => tx[p].goal = tx[p].prior
  OBVIOUS
<1> HIDE DEF r, written
<1>6. r.changes = tx[p].changes
  BY <1>3
<1>7. Orderly(r, backups[p])
  BY <1>1, <1>3 DEF Orderly, CarriedOver
<1>8. FilesSound(r, files) /\ LockSound(r, lock') /\ BackupSound(r, backups[p])
  BY <1>1, <1>3, <1>5, <1>6 DEF Sound, FilesSound, LockSound, BackupSound, Forward, Backward
<1>9. Sound(r, backups[p], files, lock')
  BY <1>1, <1>3, <1>6, <1>8 DEF Sound, Leased, Forward
<1> QED
  BY <1>1, <1>2, <1>3, <1>4, <1>7, <1>9, Known, StepHolds

LEMMA CompleteHolds ==
    ASSUME IInv, NEW p \in Procs, Complete(p)
    PROVE  IInv'
<1> DEFINE r == [tx[p] EXCEPT !.pc = "release"]
           b == [backups[p] EXCEPT !.completed = TRUE]
<1>1. /\ tx[p].pc = "complete" /\ tx[p] \in Transaction /\ lease = p /\ backups[p] \in Backup
      /\ Orderly(tx[p], backups[p]) /\ Sound(tx[p], backups[p], files, lock)
      /\ UNCHANGED <<files, lock, lease, meddled>>
  BY Known DEF Complete, In, Leased, Forward
<1>2. r \in Transaction /\ tx' = [tx EXCEPT ![p] = r]
  BY <1>1, Known DEF Complete, Goto, Transaction, Forward
<1>3. b \in Backup /\ backups' = [backups EXCEPT ![p] = b]
  BY <1>1, Known DEF Complete, Backup
<1>4. /\ r.pc = "release"
      /\ \A f \in {"kind", "current", "desired", "changes", "expected", "goal", "prior", "checked", "stale",
                  "applied", "todo", "lockChanged", "unreconciled"} : r[f] = tx[p][f]
      /\ \A f \in {"manifest", "before", "after", "priorLock"} : b[f] = backups[p][f]
  BY <1>1 DEF Transaction, Backup
<1> HIDE DEF r, b
<1>5. r.changes = tx[p].changes
  BY <1>4
<1>6. Orderly(r, b)
  BY <1>1, <1>4 DEF Orderly, CarriedOver
<1>7. FilesSound(r, files) /\ LockSound(r, lock) /\ BackupSound(r, b)
  BY <1>1, <1>4, <1>5 DEF Sound, FilesSound, LockSound, BackupSound, Forward, Backward
<1>8. Sound(r, b, files, lock)
  BY <1>1, <1>4, <1>5, <1>7 DEF Sound, Leased, Forward
<1> QED
  BY <1>1, <1>2, <1>3, <1>4, <1>6, <1>8, Known, StepHolds

LEMMA ReleaseHolds ==
    ASSUME IInv, NEW p \in Procs, Release(p)
    PROVE  IInv'
BY Known, EndHolds DEF Release, In, Leased, Forward, Over

LEMMA FailHolds ==
    ASSUME IInv, NEW p \in Procs, Fail(p)
    PROVE  IInv'
BY ThrowHolds DEF Fail

\* What the last of the files still to be undone is.
LEMMA LastToUndo ==
    ASSUME IInv, NEW p \in Procs, tx[p].pc = "undo", tx[p].todo # <<>>
    PROVE  /\ Undone(p) \in DOMAIN tx[p].current /\ Undone(p) \in Paths
           /\ tx[p].current[Undone(p)] \in MaybeContent
           /\ AllButLast(tx[p].todo) \in Seq(Paths)
           /\ Range(tx[p].todo) = Range(AllButLast(tx[p].todo)) \cup {Undone(p)}
<1>1. tx[p] \in Transaction /\ Sound(tx[p], backups[p], files, lock)
  BY Known DEF Leased, Backward
<1>2. tx[p].todo \in Seq(Paths)
  BY <1>1 DEF Transaction
<1>3. Undone(p) \in Range(tx[p].todo)
  BY <1>2, Popped DEF Undone
<1>4. Undone(p) \in tx[p].changes
  BY <1>1, <1>3 DEF Sound
<1> QED
  BY <1>2, <1>4, Known, Popped DEF Undone

LEMMA UndoFileHolds ==
    ASSUME IInv, NEW p \in Procs, UndoFile(p)
    PROVE  IInv'
<1> DEFINE x == Undone(p)
           r == [tx[p] EXCEPT !.todo = AllButLast(@)]
<1>1. /\ tx[p].pc = "undo" /\ tx[p].todo # <<>>
      /\ tx[p] \in Transaction /\ lease = p
      /\ Orderly(tx[p], backups[p]) /\ Sound(tx[p], backups[p], files, lock)
      /\ files' = [files EXCEPT ![x] = tx[p].current[x]]
      /\ UNCHANGED <<lock, lease, backups, meddled>>
  BY Known DEF UndoFile, In, Leased, Backward
<1>2. r \in Transaction /\ tx' = [tx EXCEPT ![p] = r]
  BY <1>1, Known, LastToUndo DEF UndoFile, Transaction
<1>3. /\ r.todo = AllButLast(tx[p].todo)
      /\ \A f \in {"pc", "kind", "current", "desired", "changes", "expected", "goal", "prior", "checked", "stale",
                  "applied", "lockChanged", "unreconciled"} : r[f] = tx[p][f]
  BY <1>1 DEF Transaction
<1>4. /\ x \in Paths /\ tx[p].current[x] \in MaybeContent
      /\ Range(tx[p].todo) = Range(r.todo) \cup {x}
  BY <1>1, <1>3, LastToUndo
<1>5. files' \in [Paths -> MaybeContent]
  BY <1>1, <1>4, Known
<1> HIDE DEF r, x
<1>6. r.changes = tx[p].changes
  BY <1>3
<1>7. Orderly(r, backups[p])
  BY <1>1, <1>3 DEF Orderly, CarriedOver
<1>8. FilesSound(r, files')
  BY <1>1, <1>3, <1>4, Known DEF Sound, FilesSound, Orderly, Forward
<1>9. Sound(r, backups[p], files', lock)
  <2>1. LockSound(r, lock) /\ BackupSound(r, backups[p])
    BY <1>1, <1>3, <1>6 DEF Sound, LockSound, BackupSound
  <2> QED
    BY <1>1, <1>3, <1>4, <1>6, <1>8, <2>1 DEF Sound
<1> QED
  BY <1>1, <1>2, <1>3, <1>5, <1>7, <1>9, Known, StepHolds

LEMMA UndoFileFailsHolds ==
    ASSUME IInv, NEW p \in Procs, UndoFileFails(p)
    PROVE  IInv'
<1> DEFINE x == Undone(p)
           r == [tx[p] EXCEPT !.todo = AllButLast(@), !.unreconciled = @ \cup {x}]
<1>1. /\ tx[p].pc = "undo" /\ tx[p].todo # <<>>
      /\ tx[p] \in Transaction /\ lease = p
      /\ Orderly(tx[p], backups[p]) /\ Sound(tx[p], backups[p], files, lock)
      /\ files' \in {files, [files EXCEPT ![x] = tx[p].current[x]]}
      /\ UNCHANGED <<lock, lease, backups, meddled>>
  BY Known DEF UndoFileFails, In, Leased, Backward
<1>2. r \in Transaction /\ tx' = [tx EXCEPT ![p] = r]
  <2>1. /\ AllButLast(tx[p].todo) \in Seq(Paths)
        /\ tx[p].unreconciled \cup {x} \in SUBSET (Paths \cup {"lock.json", "recovery.json"})
    BY <1>1, LastToUndo DEF Transaction
  <2>2. r \in Transaction
    BY <1>1, <2>1 DEF Transaction
  <2>3. tx' = [tx EXCEPT ![p] = r]
    BY Known DEF UndoFileFails
  <2> QED
    BY <2>2, <2>3
<1>3. /\ r.todo = AllButLast(tx[p].todo)
      /\ r.unreconciled = tx[p].unreconciled \cup {x}
      /\ \A f \in {"pc", "kind", "current", "desired", "changes", "expected", "goal", "prior", "checked", "stale",
                  "applied", "lockChanged"} : r[f] = tx[p][f]
  BY <1>1 DEF Transaction
<1>4. /\ x \in Paths /\ tx[p].current[x] \in MaybeContent
      /\ Range(tx[p].todo) = Range(r.todo) \cup {x}
  BY <1>1, <1>3, LastToUndo
<1>5. /\ files' \in [Paths -> MaybeContent]
      /\ \A y \in Paths : files'[y] = files[y] \/ files'[y] = tx[p].current[y]
      /\ \A y \in Paths \ {x} : files'[y] = files[y]
  BY <1>1, <1>4, Known
<1> HIDE DEF r, x
<1>6. r.changes = tx[p].changes
  BY <1>3
<1>7. Orderly(r, backups[p])
  BY <1>1, <1>3 DEF Orderly, CarriedOver
<1>8. FilesSound(r, files')
  BY <1>1, <1>3, <1>4, <1>5, Known DEF Sound, FilesSound, Orderly, Forward
<1>9. Sound(r, backups[p], files', lock)
  <2>1. LockSound(r, lock) /\ BackupSound(r, backups[p])
    BY <1>1, <1>3, <1>6 DEF Sound, LockSound, BackupSound
  <2> QED
    BY <1>1, <1>3, <1>4, <1>6, <1>8, <2>1 DEF Sound
<1> QED
  BY <1>1, <1>2, <1>3, <1>5, <1>7, <1>9, Known, StepHolds

\* Once the files are undone lock.json follows, or is named as unreconciled.
LEMMA LockUndone ==
    ASSUME IInv, NEW p \in Procs, In(p, "undo"), tx[p].todo = <<>>,
           NEW r \in Transaction, tx' = [tx EXCEPT ![p] = r],
           r.pc = "record", tx[p].unreconciled \subseteq r.unreconciled,
           \A f \in {"kind", "current", "desired", "changes", "expected", "goal", "prior", "checked", "stale",
                     "applied", "todo", "lockChanged"} : r[f] = tx[p][f],
           lock' = lock \/ (tx[p].lockChanged /\ lock' = tx[p].prior),
           tx[p].lockChanged => lock' = tx[p].prior \/ "lock.json" \in r.unreconciled,
           UNCHANGED <<files, lease, backups, meddled>>
    PROVE  IInv'
<1>1. /\ tx[p].pc = "undo" /\ tx[p] \in Transaction /\ lease = p
      /\ Orderly(tx[p], backups[p]) /\ Sound(tx[p], backups[p], files, lock)
  BY Known DEF In, Leased, Backward
<1>2. tx[p].lockChanged => tx[p].prior # Uncaptured
  BY <1>1 DEF Sound, BackupSound
<1>3. lock' \in MaybeLock
  BY <1>1, <1>2, Known DEF Transaction
<1>4. r.changes = tx[p].changes
  OBVIOUS
<1>5. Orderly(r, backups[p])
  BY <1>1 DEF Orderly, CarriedOver
<1>6. FilesSound(r, files)
  BY <1>1 DEF Sound, FilesSound, Backward, Forward
<1>7. LockSound(r, lock') /\ BackupSound(r, backups[p])
  BY <1>1, <1>4 DEF Sound, LockSound, BackupSound
<1>8. Sound(r, backups[p], files, lock')
  BY <1>1, <1>4, <1>6, <1>7 DEF Sound, Leased, Backward
<1> QED
  BY <1>1, <1>3, <1>5, <1>8, Known, StepHolds

LEMMA UndoLockHolds ==
    ASSUME IInv, NEW p \in Procs, UndoLock(p)
    PROVE  IInv'
<1> DEFINE r == [tx[p] EXCEPT !.pc = "record"]
<1>1. tx[p] \in Transaction
  BY Known
<1>2. r \in Transaction /\ tx' = [tx EXCEPT ![p] = r]
  BY <1>1, Known DEF UndoLock, Goto, Transaction, Backward
<1>3. /\ r.pc = "record"
      /\ \A f \in {"kind", "current", "desired", "changes", "expected", "goal", "prior", "checked", "stale",
                  "applied", "todo", "lockChanged", "unreconciled"} : r[f] = tx[p][f]
  BY <1>1 DEF Transaction
<1> HIDE DEF r
<1>4. /\ In(p, "undo") /\ tx[p].todo = <<>>
      /\ UNCHANGED <<files, lease, backups, meddled>>
  BY DEF UndoLock
<1>5. lock' = lock \/ (tx[p].lockChanged /\ lock' = tx[p].prior)
  BY <1>1 DEF UndoLock, Transaction
<1>6. tx[p].lockChanged => lock' = tx[p].prior \/ "lock.json" \in r.unreconciled
  BY <1>3 DEF UndoLock
<1> QED
  BY <1>2, <1>3, <1>4, <1>5, <1>6, LockUndone

LEMMA UndoLockFailsHolds ==
    ASSUME IInv, NEW p \in Procs, UndoLockFails(p)
    PROVE  IInv'
<1> DEFINE r == [tx[p] EXCEPT !.pc = "record", !.unreconciled = @ \cup {"lock.json"}]
<1>1. tx[p] \in Transaction
  BY Known
<1>2. r \in Transaction /\ tx' = [tx EXCEPT ![p] = r]
  BY <1>1, Known DEF UndoLockFails, Transaction, Backward
<1>3. /\ r.pc = "record" /\ r.unreconciled = tx[p].unreconciled \cup {"lock.json"}
      /\ \A f \in {"kind", "current", "desired", "changes", "expected", "goal", "prior", "checked", "stale",
                  "applied", "todo", "lockChanged"} : r[f] = tx[p][f]
  BY <1>1 DEF Transaction
<1> HIDE DEF r
<1>4. /\ In(p, "undo") /\ tx[p].todo = <<>>
      /\ UNCHANGED <<files, lease, backups, meddled>>
  BY DEF UndoLockFails
<1>5. lock' = lock \/ (tx[p].lockChanged /\ lock' = tx[p].prior)
  BY <1>1 DEF UndoLockFails, Transaction
<1>6. tx[p].lockChanged => lock' = tx[p].prior \/ "lock.json" \in r.unreconciled
  BY <1>3 DEF UndoLockFails
<1> QED
  BY <1>2, <1>3, <1>4, <1>5, <1>6, LockUndone

\* recovery.json has been tried; only this and `pc` and `unreconciled` change.
LEMMA Recorded ==
    ASSUME IInv, NEW p \in Procs, In(p, "record"),
           NEW r \in Transaction, tx' = [tx EXCEPT ![p] = r],
           r.pc = "free", tx[p].unreconciled \subseteq r.unreconciled,
           \A f \in {"kind", "current", "desired", "changes", "expected", "goal", "prior", "checked", "stale",
                     "applied", "todo", "lockChanged"} : r[f] = tx[p][f],
           \/ backups' = backups
           \/ HasMutated(p) /\ backups' = [backups EXCEPT ![p].recovery = RecoveryStatus(p)],
           UNCHANGED <<files, lock, lease, meddled>>
    PROVE  IInv'
<1>1. /\ tx[p].pc = "record" /\ tx[p] \in Transaction /\ lease = p
      /\ backups[p] \in Backup
      /\ Orderly(tx[p], backups[p]) /\ Sound(tx[p], backups[p], files, lock)
  BY Known DEF In, Leased, Backward
<1>2. PICK b \in Backup :
         /\ backups' = [backups EXCEPT ![p] = b]
         /\ \A f \in {"manifest", "before", "after", "priorLock"} : b[f] = backups[p][f]
  <2>1. CASE backups' = backups
    BY <1>1, <2>1, Known
  <2>2. CASE backups' = [backups EXCEPT ![p].recovery = RecoveryStatus(p)]
    <3> DEFINE b == [backups[p] EXCEPT !.recovery = RecoveryStatus(p)]
    <3>1. b \in Backup /\ backups' = [backups EXCEPT ![p] = b]
      BY <1>1, <2>2, Known DEF Backup, RecoveryStatus
    <3>2. \A f \in {"manifest", "before", "after", "priorLock"} : b[f] = backups[p][f]
      BY <1>1 DEF Backup
    <3> QED
      BY <3>1, <3>2
  <2> QED
    BY <2>1, <2>2
<1>3. r.changes = tx[p].changes
  OBVIOUS
<1>4. Orderly(r, b)
  BY <1>1, <1>2 DEF Orderly, CarriedOver
<1>5. FilesSound(r, files)
  BY <1>1 DEF Sound, FilesSound, Backward, Forward
<1>6. LockSound(r, lock) /\ BackupSound(r, b)
  BY <1>1, <1>2, <1>3 DEF Sound, LockSound, BackupSound
<1>7. Sound(r, b, files, lock)
  BY <1>1, <1>3, <1>5, <1>6 DEF Sound, Leased, Backward
<1> QED
  BY <1>1, <1>2, <1>4, <1>7, Known, StepHolds

LEMMA RecordHolds ==
    ASSUME IInv, NEW p \in Procs, Record(p)
    PROVE  IInv'
<1> DEFINE r == [tx[p] EXCEPT !.pc = "free"]
<1>1. tx[p] \in Transaction
  BY Known
<1>2. r \in Transaction /\ tx' = [tx EXCEPT ![p] = r]
  BY <1>1, Known DEF Record, Goto, Transaction, Backward
<1>3. /\ r.pc = "free"
      /\ \A f \in {"kind", "current", "desired", "changes", "expected", "goal", "prior", "checked", "stale",
                  "applied", "todo", "lockChanged", "unreconciled"} : r[f] = tx[p][f]
  BY <1>1 DEF Transaction
<1> QED
  BY <1>2, <1>3, Recorded DEF Record

LEMMA RecordFailsHolds ==
    ASSUME IInv, NEW p \in Procs, RecordFails(p)
    PROVE  IInv'
<1> DEFINE r == [tx[p] EXCEPT !.pc = "free", !.unreconciled = @ \cup {"recovery.json"}]
<1>1. tx[p] \in Transaction
  BY Known
<1>2. r \in Transaction /\ tx' = [tx EXCEPT ![p] = r]
  BY <1>1, Known DEF RecordFails, Transaction, Backward
<1>3. /\ r.pc = "free" /\ r.unreconciled = tx[p].unreconciled \cup {"recovery.json"}
      /\ \A f \in {"kind", "current", "desired", "changes", "expected", "goal", "prior", "checked", "stale",
                  "applied", "todo", "lockChanged"} : r[f] = tx[p][f]
  BY <1>1 DEF Transaction
<1> QED
  BY <1>2, <1>3, Recorded DEF RecordFails

\* A process that stops where it is, failed or dead.
LEMMA StopHolds ==
    ASSUME IInv, NEW p \in Procs, NEW how \in {"failed", "dead"}, Goto(p, how),
           tx[p].pc \in Leased, how = "failed" => tx[p].pc = "free",
           UNCHANGED <<files, lock, lease, backups, meddled>>
    PROVE  IInv'
<1> DEFINE r == [tx[p] EXCEPT !.pc = how]
<1>1. /\ tx[p] \in Transaction /\ lease = p
      /\ Orderly(tx[p], backups[p]) /\ Sound(tx[p], backups[p], files, lock)
  BY Known
<1>2. r \in Transaction /\ tx' = [tx EXCEPT ![p] = r]
  BY <1>1, Known DEF Goto, Transaction, Over
<1>3. /\ r.pc = how
      /\ \A f \in {"kind", "current", "desired", "changes", "expected", "goal", "prior", "checked", "stale",
                  "applied", "todo", "lockChanged", "unreconciled"} : r[f] = tx[p][f]
  BY <1>1 DEF Transaction
<1> HIDE DEF r
<1>4. r.changes = tx[p].changes
  BY <1>3
<1>5. Orderly(r, backups[p])
  BY <1>1, <1>3 DEF Orderly, CarriedOver
<1>6. FilesSound(r, files)
  BY <1>1, <1>3 DEF Sound, FilesSound, Backward, Forward
<1>7. LockSound(r, lock) /\ BackupSound(r, backups[p])
  BY <1>1, <1>3, <1>4 DEF Sound, LockSound, BackupSound
<1>8. Sound(r, backups[p], files, lock)
  BY <1>1, <1>3, <1>4, <1>6, <1>7 DEF Sound, Leased
<1> QED
  BY <1>1, <1>2, <1>3, <1>5, <1>8, Known, StepHolds DEF Leased, Forward, Backward

LEMMA FreeHolds ==
    ASSUME IInv, NEW p \in Procs, Free(p)
    PROVE  IInv'
<1>1. In(p, "free") /\ tx[p].pc \in Leased /\ lease = p
  BY Known DEF Free, In, Leased, Backward
<1>2. CASE lease' = None /\ End(p, "failed")
  BY <1>1, <1>2, Known, EndHolds DEF Free, Over
<1>3. CASE lease' = lease /\ Goto(p, "failed")
  BY <1>1, <1>3, Known, StopHolds DEF Free, In
<1> QED
  BY <1>2, <1>3 DEF Free

LEMMA CrashHolds ==
    ASSUME IInv, NEW p \in Procs, Crash(p)
    PROVE  IInv'
BY Known, StopHolds DEF Crash, Leased

-----------------------------------------------------------------------------
\* A transaction that has not entered its apply is about the same files before
\* and after, and has done nothing.
LEMMA DraftHolds ==
    ASSUME IInv, NEW p \in Procs, tx[p].pc \in {"new"} \cup Asking,
           NEW r \in Transaction, Draft(p, r), r.pc \in Asking \cup {"ready"},
           DOMAIN r.desired = DOMAIN r.current, r.changes \subseteq DOMAIN r.current,
           \A x \in DOMAIN r.current \ r.changes : r.desired[x] = r.current[x],
           \A f \in {"prior", "checked", "applied", "todo", "lockChanged", "unreconciled"} :
              r[f] = tx[p][f],
           r.pc \in Asking /\ r.kind \in {"install", "update"} => DOMAIN r.wants \subseteq DOMAIN r.current,
           r.pc = "planned" /\ r.kind = "uninstall" => r.changes = DOMAIN r.current,
           r.kind = "install" /\ r.expected # None => CarriedOver(r, r.expected.installed)
    PROVE  IInv'
<1>1. tx[p] \in Transaction /\ Orderly(tx[p], backups[p])
  BY Known
<1>2. tx' = [tx EXCEPT ![p] = r] /\ UNCHANGED <<files, lock, lease, backups, meddled>>
  BY DEF Draft
<1>3. Orderly(r, backups[p])
  BY <1>1 DEF Orderly, Asking
<1>4. lease # p
  BY Known DEF IInv, Sound, Leased, Forward, Backward, Asking
<1>5. r.pc \notin Leased
  BY DEF Leased, Forward, Backward, Asking
<1> QED
  BY <1>2, <1>3, <1>4, <1>5, Known, StepHolds

LEMMA FailsHolds ==
    ASSUME IInv, NEW p \in Procs, tx[p].pc \in Asking, Fails(p)
    PROVE  IInv'
<1>1. lease # p
  BY Known DEF IInv, Sound, Leased, Forward, Backward, Asking
<1>2. End(p, "failed") /\ UNCHANGED <<files, lock, lease, backups, meddled>>
  BY DEF Fails, Draft, End
<1> QED
  BY <1>1, <1>2, EndHolds, Known DEF Over

LEMMA InstalledTyped ==
    ASSUME IInv
    PROVE  /\ Installed \in Outlook /\ DOMAIN Installed \subseteq Paths
           /\ \A x \in DOMAIN Installed : Installed[x] \in MaybeContent
<1>1. Installed \in Outlook
  BY NewTyped DEF IInv, TypeOK, MaybeLock, Lock, Installed
<1> QED
  BY <1>1, OutlookApply

LEMMA CatalogTyped ==
    ASSUME NEW release \in Releases
    PROVE  /\ release.wants \in Outlook /\ release.components \in SUBSET Parts
           /\ DOMAIN release.wants \subseteq Paths /\ DOMAIN release.wants \subseteq release.ships
           /\ \A x \in DOMAIN release.wants : release.wants[x] \in Contents /\ release.wants[x] # None
<1>1. release \in Catalog /\ None \notin Contents /\ DOMAIN release.wants \subseteq release.ships
  BY InstallAssumption
<1>2. PICK S \in SUBSET Paths : release.wants \in [S -> Contents]
  BY <1>1 DEF Catalog
<1>3. release.wants \in [S -> MaybeContent]
  BY <1>2 DEF MaybeContent
<1> QED
  BY <1>1, <1>2, <1>3, OutlookMake DEF Catalog

LEMMA PlanInstallHolds ==
    ASSUME IInv, NEW p \in Procs, PlanInstall(p)
    PROVE  IInv'
<1> DEFINE dropped(release)    == DOMAIN Installed \ release.ships
           collisions(release) == {x \in DOMAIN release.wants \ DOMAIN Installed : x # Config /\ files[x] # None}
           desired(release, preserved) ==
               [x \in DOMAIN release.wants \cup dropped(release) |->
                   IF x \in dropped(release) THEN None
                   ELSE IF x \in preserved THEN files[x] ELSE release.wants[x]]
           draft(release, preserved) ==
               [tx[p] EXCEPT
                  !.pc          = "planned",
                  !.kind        = "install",
                  !.components  = release.components,
                  !.wants       = release.wants,
                  !.current     = Restrict(files, DOMAIN desired(release, preserved)),
                  !.desired     = desired(release, preserved),
                  !.overwritten = collisions(release) \ preserved,
                  !.preserved   = preserved,
                  !.changes     = dropped(release) \cup (collisions(release) \ preserved)
                                     \cup {x \in DOMAIN release.wants : files[x] # desired(release, preserved)[x]}]
<1>1. PICK release \in Releases : \E preserved \in SUBSET collisions(release) : Draft(p, draft(release, preserved))
  BY DEF PlanInstall
<1>2. PICK preserved \in SUBSET collisions(release) : Draft(p, draft(release, preserved))
  BY <1>1
<1> DEFINE all     == DOMAIN release.wants \cup dropped(release)
           then    == desired(release, preserved)
           now     == Restrict(files, all)
           over    == collisions(release) \ preserved
           changes == dropped(release) \cup over \cup {x \in DOMAIN release.wants : files[x] # then[x]}
           r       == draft(release, preserved)
<1>3. tx[p] \in Transaction /\ tx[p].pc = "new" /\ tx[p].expected = None
  BY Known DEF PlanInstall, In, Orderly
<1>4. all \subseteq Paths /\ files \in [Paths -> MaybeContent] /\ None \in MaybeContent
  BY CatalogTyped, InstalledTyped, Known DEF MaybeContent
<1>5. then \in [all -> MaybeContent]
  BY <1>4, CatalogTyped DEF MaybeContent
<1>6. now \in [all -> MaybeContent] /\ \A x \in all : now[x] = files[x]
  BY <1>4 DEF Restrict
<1>7. DOMAIN then = all /\ now \in Outlook /\ then \in Outlook
  BY <1>4, <1>5, <1>6, OutlookMake
<1>8. /\ over \subseteq all /\ changes \subseteq all /\ preserved \subseteq all
      /\ DOMAIN release.wants \subseteq all
      /\ \A x \in all \ changes : then[x] = now[x]
  BY <1>6, <1>7
<1>9. /\ r.pc = "planned" /\ r.kind = "install" /\ r.components = release.components
      /\ r.wants = release.wants /\ r.current = now /\ r.desired = then
      /\ r.overwritten = over /\ r.preserved = preserved /\ r.changes = changes
      /\ \A f \in {"expected", "goal", "prior", "checked", "stale", "applied", "todo",
                   "lockChanged", "unreconciled"} : r[f] = tx[p][f]
  BY <1>3, <1>7 DEF Transaction
<1>10. r \in Transaction
  <2>1. /\ release.components \in SUBSET Parts /\ release.wants \in Outlook
        /\ over \in SUBSET Paths /\ preserved \in SUBSET Paths /\ changes \in SUBSET Paths
    BY <1>4, <1>8, CatalogTyped
  <2> HIDE DEF over, changes, dropped, collisions
  <2>2. Restrict(files, DOMAIN desired(release, preserved)) \in Outlook
    BY <1>7
  <2>3. /\ collisions(release) \ preserved \in SUBSET Paths
        /\ dropped(release) \cup (collisions(release) \ preserved)
              \cup {x \in DOMAIN release.wants : files[x] # desired(release, preserved)[x]} \in SUBSET Paths
    BY <2>1 DEF over, changes
  <2> HIDE DEF desired
  <2> QED
    BY <1>3, <1>7, <2>1, <2>2, <2>3 DEF Transaction, Asking
<1>11. Draft(p, r)
  BY <1>2
<1> HIDE DEF r, now, then, changes, over, all
<1> QED
  BY <1>3, <1>6, <1>7, <1>8, <1>9, <1>10, <1>11, DraftHolds DEF Asking

LEMMA PrepareUpdateHolds ==
    ASSUME IInv, NEW p \in Procs, PrepareUpdate(p)
    PROVE  IInv'
<1> DEFINE t       == tx[p]
           owned   == DOMAIN t.wants \cap DOMAIN Installed
           differs == {x \in owned : t.current[x] # t.wants[x]}
           then(kept) == [x \in DOMAIN t.current |-> IF x \in kept THEN t.current[x]
                                                   ELSE IF x \in owned THEN t.wants[x]
                                                   ELSE t.desired[x]]
           draft(kept) == [t EXCEPT !.kind        = "update",
                                    !.desired     = then(kept),
                                    !.overwritten = @ \ owned,
                                    !.preserved   = @ \ owned,
                                    !.changes     = (@ \ owned) \cup (differs \ kept),
                                    !.expected    = lock]
<1>1. PICK kept \in SUBSET differs : Draft(p, draft(kept))
  BY DEF PrepareUpdate
<1> DEFINE r == draft(kept)
<1>2. /\ t \in Transaction /\ t.pc = "planned" /\ lock \in MaybeLock
      /\ Orderly(t, backups[p]) /\ DOMAIN t.current \subseteq Paths
      /\ \A x \in DOMAIN t.current : t.current[x] \in MaybeContent /\ t.desired[x] \in MaybeContent
      /\ \A x \in DOMAIN t.wants : t.wants[x] \in MaybeContent
  BY Known, OutlookApply DEF PrepareUpdate, In, Transaction
<1>3. /\ r.pc = "planned" /\ r.kind = "update" /\ r.current = t.current /\ r.desired = then(kept)
      /\ r.changes = (t.changes \ owned) \cup (differs \ kept)
      /\ \A f \in {"wants", "prior", "checked", "applied", "todo", "lockChanged", "unreconciled"} : r[f] = t[f]
  BY <1>2 DEF Transaction
<1>4. then(kept) \in [DOMAIN t.current -> MaybeContent]
  BY <1>2
<1>5. then(kept) \in Outlook /\ DOMAIN then(kept) = DOMAIN t.current
  BY <1>2, <1>4, OutlookMake
<1>6. differs \subseteq DOMAIN t.current
  BY <1>2 DEF Orderly, PrepareUpdate
<1>7. /\ (t.changes \ owned) \cup (differs \ kept) \subseteq DOMAIN t.current
      /\ \A x \in DOMAIN t.current \ ((t.changes \ owned) \cup (differs \ kept)) : then(kept)[x] = t.current[x]
  BY <1>2, <1>6 DEF Orderly
<1>8. r \in Transaction
  <2>1. /\ t.overwritten \ owned \in SUBSET Paths /\ t.preserved \ owned \in SUBSET Paths
        /\ (t.changes \ owned) \cup (differs \ kept) \in SUBSET Paths
    BY <1>2, <1>7 DEF Transaction
  <2> HIDE DEF owned, differs, then
  <2> QED
    BY <1>2, <1>5, <2>1 DEF Transaction
<1>9. DOMAIN r.wants \subseteq DOMAIN r.current /\ tx[p].pc \in {"new"} \cup Asking
  BY <1>2, <1>3 DEF Orderly, PrepareUpdate, Asking
<1>10. \A f \in {"prior", "checked", "applied", "todo", "lockChanged", "unreconciled"} : r[f] = tx[p][f]
  BY <1>3
<1>11. Draft(p, r) /\ r.pc \in Asking \cup {"ready"} /\ r.kind = "update"
  BY <1>1, <1>3 DEF Asking
<1>12. /\ DOMAIN r.desired = DOMAIN r.current /\ r.changes \subseteq DOMAIN r.current
       /\ \A x \in DOMAIN r.current \ r.changes : r.desired[x] = r.current[x]
  BY <1>3, <1>5, <1>7
<1> HIDE DEF r
<1> QED
  BY <1>8, <1>9, <1>10, <1>11, <1>12, DraftHolds

LEMMA PlanUninstallHolds ==
    ASSUME IInv, NEW p \in Procs, PlanUninstall(p)
    PROVE  IInv'
<1> DEFINE then == [x \in DOMAIN Installed |-> None]
           r    == [tx[p] EXCEPT !.pc = "planned", !.kind = "uninstall", !.components = lock.components,
                                 !.current = Installed, !.desired = then, !.changes = DOMAIN Installed]
<1>1. tx[p] \in Transaction /\ tx[p].pc = "new" /\ Draft(p, r) /\ lock \in Lock
  BY Known DEF PlanUninstall, In, MaybeLock
<1>2. then \in Outlook /\ DOMAIN then = DOMAIN Installed
  <2>1. then \in [DOMAIN Installed -> MaybeContent]
    BY DEF MaybeContent
  <2> QED
    BY <2>1, InstalledTyped, OutlookMake
<1>3. /\ r.pc = "planned" /\ r.kind = "uninstall" /\ r.current = Installed /\ r.desired = then
      /\ r.changes = DOMAIN Installed
      /\ \A f \in {"prior", "checked", "applied", "todo", "lockChanged", "unreconciled"} : r[f] = tx[p][f]
  BY <1>1 DEF Transaction
<1>4. r \in Transaction
  <2>1. lock.components \in SUBSET Parts /\ DOMAIN Installed \in SUBSET Paths
    BY <1>1, InstalledTyped DEF Lock
  <2> HIDE DEF then
  <2> QED
    BY <1>1, <1>2, <2>1, InstalledTyped DEF Transaction, Asking
<1> HIDE DEF r, then
<1> QED
  BY <1>1, <1>2, <1>3, <1>4, DraftHolds DEF Asking

LEMMA PlanRestoreHolds ==
    ASSUME IInv, NEW p \in Procs, PlanRestore(p)
    PROVE  IInv'
<1> DEFINE draft(b) == [tx[p] EXCEPT !.pc = "ready", !.kind = "restore",
                                     !.current = backups[b].after, !.desired = backups[b].before,
                                     !.changes = DOMAIN backups[b].after,
                                     !.expected = backups[b].resultLock, !.goal = backups[b].priorLock]
<1>1. PICK b \in Procs : Draft(p, draft(b))
  BY DEF PlanRestore
<1> DEFINE r == draft(b)
<1>2. /\ backups[b].after \in Outlook /\ backups[b].before \in Outlook
      /\ backups[b].resultLock \in MaybeLock /\ backups[b].priorLock \in MaybeLock
      /\ DOMAIN backups[b].before = DOMAIN backups[b].after
      /\ DOMAIN backups[b].after \in SUBSET Paths
  BY Known, OutlookApply DEF Backup, Orderly
<1>3. tx[p] \in Transaction /\ tx[p].pc = "new"
  BY Known DEF PlanRestore, In
<1>4. /\ r.pc = "ready" /\ r.kind = "restore" /\ r.current = backups[b].after
      /\ r.desired = backups[b].before /\ r.changes = DOMAIN backups[b].after
      /\ \A f \in {"prior", "checked", "applied", "todo", "lockChanged", "unreconciled"} : r[f] = tx[p][f]
  BY <1>3 DEF Transaction
<1>5. r \in Transaction
  BY <1>2, <1>3 DEF Transaction
<1>6. Draft(p, r)
  BY <1>1
<1> HIDE DEF r
<1> QED
  BY <1>2, <1>3, <1>4, <1>5, <1>6, DraftHolds

\* It has looked at the files once more.
LEMMA RecheckHolds ==
    ASSUME IInv, NEW p \in Procs, Recheck(p)
    PROVE  IInv'
<1> DEFINE r == [tx[p] EXCEPT !.pc = "looked"]
<1>1. tx[p] \in Transaction /\ tx[p].pc = "planned" /\ Orderly(tx[p], backups[p])
  BY Known DEF Recheck, In
<1>2. CASE Fails(p)
  BY <1>1, <1>2, FailsHolds DEF Asking
<1>3. CASE Draft(p, r)
  <2>1. /\ r \in Transaction /\ r.pc = "looked"
        /\ \A f \in {"kind", "wants", "current", "desired", "changes", "expected", "goal", "prior", "checked",
                     "applied", "todo", "lockChanged", "unreconciled"} : r[f] = tx[p][f]
    BY <1>1 DEF Transaction, Asking
  <2> HIDE DEF r
  <2> QED
    BY <1>1, <1>3, <2>1, DraftHolds DEF Orderly, CarriedOver, Asking
<1> QED
  BY <1>2, <1>3 DEF Recheck

LEMMA ReadConfigHolds ==
    ASSUME IInv, NEW p \in Procs, ReadConfig(p)
    PROVE  IInv'
<1> DEFINE t      == tx[p]
           now    == [t.current EXCEPT ![Config] = files[Config]]
           left   == Unregistered[t.components][files[Config]]
           then   == [t.desired EXCEPT ![Config] = left]
           looked == [t EXCEPT !.pc = "looked"]
           r      == [t EXCEPT !.pc = "looked", !.current = now, !.desired = then]
<1>1. /\ t \in Transaction /\ t.pc = "planned" /\ t.kind = "uninstall" /\ Orderly(t, backups[p])
      /\ files \in [Paths -> MaybeContent]
      /\ \A x \in DOMAIN t.current : t.current[x] \in MaybeContent /\ t.desired[x] \in MaybeContent
      /\ DOMAIN t.current \subseteq Paths /\ DOMAIN t.desired = DOMAIN t.current
  BY Known DEF ReadConfig, In, Orderly
<1>2. CASE Fails(p)
  BY <1>1, <1>2, FailsHolds DEF Asking
<1>3. CASE Draft(p, looked)
  <2>1. /\ looked \in Transaction /\ looked.pc = "looked"
        /\ \A f \in {"kind", "current", "desired", "changes", "expected", "goal", "prior", "checked",
                     "applied", "todo", "lockChanged", "unreconciled"} : looked[f] = t[f]
    BY <1>1 DEF Transaction, Asking
  <2> HIDE DEF looked
  <2> QED
    BY <1>1, <1>3, <2>1, DraftHolds DEF Orderly, CarriedOver, Asking
<1>4. CASE Config \in DOMAIN t.current /\ files[Config] # None /\ Draft(p, r)
  <2>1. left \in MaybeContent
    BY <1>1, <1>4, InstallAssumption DEF Transaction, MaybeContent
  <2>2. now \in [DOMAIN t.current -> MaybeContent] /\ then \in [DOMAIN t.current -> MaybeContent]
    <3>1. t.current \in Outlook /\ t.desired \in Outlook
      BY <1>1 DEF Transaction
    <3>2. t.current = [x \in DOMAIN t.current |-> t.current[x]] /\ t.desired = [x \in DOMAIN t.current |-> t.desired[x]]
      BY <1>1, <3>1 DEF Outlook
    <3> QED
      BY <1>1, <2>1, <3>2, InstallAssumption
  <2>3. now \in Outlook /\ then \in Outlook
    BY <1>1, <2>2, OutlookMake
  <2>4. \A x \in DOMAIN t.current \ {Config} : now[x] = t.current[x] /\ then[x] = t.desired[x]
    OBVIOUS
  <2>5. Config \in t.changes
    BY <1>1, <1>4 DEF Orderly
  <2>6. /\ r.pc = "looked" /\ r.kind = "uninstall" /\ r.current = now /\ r.desired = then
        /\ \A f \in {"changes", "prior", "checked", "applied", "todo", "lockChanged", "unreconciled"} : r[f] = t[f]
    BY <1>1 DEF Transaction
  <2>7. r \in Transaction
    <3> HIDE DEF now, then
    <3> QED
      BY <1>1, <2>3 DEF Transaction, Asking
  <2> HIDE DEF r, now, then
  <2>8. DOMAIN now = DOMAIN t.current /\ DOMAIN then = DOMAIN t.current
    BY <2>2
  <2> QED
    BY <1>1, <1>4, <2>4, <2>5, <2>6, <2>7, <2>8, DraftHolds DEF Orderly, Asking
<1> QED
  BY <1>2, <1>3, <1>4 DEF ReadConfig, Planned

\* The lock that a transaction leaves is typed, and an installation carries over
\* what it does not plan.
LEMMA NewLockTyped ==
    ASSUME IInv, NEW p \in Procs, tx[p].kind = "uninstall" => lock # None
    PROVE  /\ NewLock(p) \in Lock
           /\ tx[p].kind # "uninstall" => CarriedOver([tx[p] EXCEPT !.goal = NewLock(p)], Installed)
<1> DEFINE t     == tx[p]
           owned == DOMAIN t.current \ t.preserved
           stays == {x \in owned : t.desired[x] # None}
           all   == (DOMAIN Installed \ owned) \cup stays
           list  == [x \in all |-> IF x \in stays THEN t.desired[x] ELSE Installed[x]]
<1>1. /\ t \in Transaction /\ DOMAIN t.current \subseteq Paths
      /\ \A x \in DOMAIN t.current : t.desired[x] \in MaybeContent
  BY Known
<1>2. all \subseteq Paths /\ \A x \in all : list[x] \in MaybeContent
  BY <1>1, InstalledTyped
<1>3. list \in Outlook
  BY <1>2, OutlookMake
<1>4. Listed(p) = IF t.kind = "uninstall" THEN NoFiles ELSE list
  BY DEF Listed, Planned
<1>5. Listed(p) \in Outlook
  BY <1>3, <1>4, NewTyped
<1>6. (IF t.kind = "uninstall" THEN lock.components ELSE t.components) \in SUBSET Parts
  BY <1>1, Known DEF Transaction, MaybeLock, Lock
<1>7. NewLock(p) \in Lock
  BY <1>5, <1>6 DEF NewLock, Lock
<1>8. ASSUME t.kind # "uninstall"
      PROVE  CarriedOver([t EXCEPT !.goal = NewLock(p)], Installed)
  <2>1. NewLock(p).installed = list
    BY <1>4, <1>8 DEF NewLock
  <2>2. /\ [t EXCEPT !.goal = NewLock(p)].goal.installed = list
        /\ [t EXCEPT !.goal = NewLock(p)].current = t.current
    BY <1>1, <2>1 DEF Transaction
  <2>3. \A x \in DOMAIN Installed \ DOMAIN t.current : x \in DOMAIN list /\ list[x] = Installed[x]
    OBVIOUS
  <2> QED
    BY <2>2, <2>3 DEF CarriedOver
<1> QED
  BY <1>7, <1>8

LEMMA EnterHolds ==
    ASSUME IInv, NEW p \in Procs, Enter(p)
    PROVE  IInv'
<1> DEFINE t       == tx[p]
           awaited == IF t.kind = "update" THEN t.expected ELSE lock
           r       == [t EXCEPT !.pc = "ready", !.expected = awaited, !.goal = NewLock(p)]
<1>1. /\ t \in Transaction /\ t.pc = "looked" /\ Orderly(t, backups[p]) /\ lock \in MaybeLock
  BY Known DEF Enter, In
<1>2. CASE Fails(p)
  BY <1>1, <1>2, FailsHolds DEF Asking
<1>3. CASE Allowed(p) /\ Draft(p, r)
  <2>1. t.kind = "uninstall" => lock # None
    BY <1>3 DEF Allowed
  <2>2. NewLock(p) \in Lock /\ NewLock(p) \in MaybeLock
    BY <2>1, NewLockTyped DEF MaybeLock
  <2>3. awaited \in MaybeLock
    BY <1>1 DEF Transaction
  <2>4. /\ r.pc = "ready" /\ r.expected = awaited /\ r.goal = NewLock(p)
        /\ \A f \in {"kind", "current", "desired", "changes", "prior", "checked",
                     "applied", "todo", "lockChanged", "unreconciled"} : r[f] = t[f]
    BY <1>1 DEF Transaction
  <2>5. r \in Transaction
    <3> HIDE DEF awaited
    <3> QED
      BY <1>1, <2>2, <2>3 DEF Transaction
  <2>6. r.kind = "install" /\ r.expected # None => CarriedOver(r, r.expected.installed)
    <3>1. [t EXCEPT !.goal = NewLock(p)].goal = NewLock(p) /\ [t EXCEPT !.goal = NewLock(p)].current = t.current
      BY <1>1 DEF Transaction
    <3>2. t.kind = "install" /\ awaited # None => awaited = lock /\ lock.installed = Installed
      BY DEF Installed
    <3> QED
      BY <2>1, <2>4, <3>1, <3>2, NewLockTyped DEF CarriedOver
  <2> HIDE DEF r
  <2> QED
    BY <1>1, <1>3, <2>4, <2>5, <2>6, DraftHolds DEF Orderly, Asking
<1> QED
  BY <1>2, <1>3 DEF Enter

LEMMA AskHolds ==
    ASSUME IInv, NEW p \in Procs, Ask(p)
    PROVE  IInv'
BY PlanInstallHolds, PrepareUpdateHolds, PlanUninstallHolds, PlanRestoreHolds,
   RecheckHolds, ReadConfigHolds, EnterHolds DEF Ask

-----------------------------------------------------------------------------
\* An edit takes its path out of what every transaction has checked.
LEMMA EditHolds ==
    ASSUME IInv, NEW x \in Paths, NEW c \in UserContents \cup {None}, Edit(x, c)
    PROVE  IInv'
<1>1. /\ files' = [files EXCEPT ![x] = c] /\ meddled' = meddled \cup {x}
      /\ UNCHANGED <<lock, lease, backups>>
  BY DEF Edit
<1>2. ASSUME NEW p \in Procs
      PROVE  /\ tx'[p] \in Transaction
             /\ tx'[p].stale = tx[p].stale \cup ({x} \cap tx[p].checked)
             /\ \A f \in {"pc", "kind", "wants", "current", "desired", "changes", "expected", "goal", "prior", "checked",
                         "applied", "todo", "lockChanged", "unreconciled"} : tx'[p][f] = tx[p][f]
  <2>1. tx'[p] = [tx[p] EXCEPT !.stale = @ \cup ({x} \cap tx[p].checked)]
    BY DEF Edit
  <2>2. tx[p] \in Transaction
    BY Known
  <2> QED
    BY <2>1, <2>2 DEF Transaction
<1>3. TypeOK'
  <2>1. tx' \in [Procs -> Transaction]
    BY <1>2 DEF Edit
  <2>2. files' \in [Paths -> MaybeContent]
    BY <1>1, InstallAssumption DEF IInv, TypeOK, MaybeContent
  <2> QED
    BY <1>1, <2>1, <2>2 DEF IInv, TypeOK
<1>4. OneInstaller'
  BY <1>1, <1>2 DEF IInv, OneInstaller
<1>5. ASSUME NEW p \in Procs
      PROVE  /\ Orderly(tx'[p], backups'[p])
             /\ lease' = p => Sound(tx'[p], backups'[p], files', lock')
  <2>1. Orderly(tx'[p], backups'[p])
    BY <1>1, <1>2, Known DEF Orderly, CarriedOver
  <2>2. ASSUME lease = p
        PROVE  Sound(tx'[p], backups[p], files', lock)
    <3>1. Sound(tx[p], backups[p], files, lock)
      BY <2>2, Known
    <3>2. tx'[p].changes = tx[p].changes
      BY <1>2
    <3>3. \A y \in tx'[p].checked \ tx'[p].stale :
             y \in tx[p].checked \ tx[p].stale /\ files'[y] = files[y]
      <4>1. tx[p].checked \subseteq Paths
        BY Known DEF Transaction
      <4> QED
        BY <1>1, <1>2, <4>1, Known
    <3>4. FilesSound(tx'[p], files')
      BY <1>2, <3>1, <3>3 DEF Sound, FilesSound
    <3>5. LockSound(tx'[p], lock) /\ BackupSound(tx'[p], backups[p])
      BY <1>2, <3>1, <3>2 DEF Sound, LockSound, BackupSound
    <3> QED
      BY <1>2, <3>1, <3>2, <3>4, <3>5 DEF Sound
  <2> QED
    BY <1>1, <2>1, <2>2
<1> QED
  BY <1>3, <1>4, <1>5 DEF IInv

LEMMA ReconcileHolds ==
    ASSUME IInv, NEW p \in Procs, Reconcile(p)
    PROVE  IInv'
<1>1. /\ backups[p] \in Backup /\ lock \in MaybeLock
      /\ files \in [Paths -> MaybeContent]
  BY Known
<1>2. /\ backups[p].priorLock \in MaybeLock
      /\ \A x \in DOMAIN backups[p].before : backups[p].before[x] \in MaybeContent
  BY <1>1, OutlookApply DEF Backup
<1>3. lock' \in MaybeLock /\ files' \in [Paths -> MaybeContent]
  BY <1>1, <1>2 DEF Reconcile
<1> QED
  BY <1>3, EndHolds DEF Reconcile

LEMMA InitHolds == Init => IInv
<1> SUFFICES ASSUME Init PROVE IInv
  OBVIOUS
<1>1. TypeOK
  <2>1. None \in MaybeContent /\ UserContents \subseteq MaybeContent
    BY InstallAssumption DEF MaybeContent
  <2>2. files \in [Paths -> MaybeContent]
    BY <2>1 DEF Init
  <2> QED
    BY <2>2, NewTyped DEF Init, TypeOK, MaybeLock
<1>2. \A p \in Procs : tx[p].pc = "new" /\ Orderly(tx[p], backups[p])
  BY DEF Init, Orderly, NewTransaction, NoBackup, NoFiles
<1>3. \A p \in Procs : lease # p
  BY InstallAssumption DEF Init
<1>4. OneInstaller
  BY <1>2 DEF OneInstaller, Forward, Backward
<1> QED
  BY <1>1, <1>2, <1>3, <1>4 DEF IInv

LEMMA NextHolds == IInv /\ [Next]_vars => IInv'
<1> SUFFICES ASSUME IInv, [Next]_vars PROVE IInv'
  OBVIOUS
<1>1. CASE UNCHANGED vars
  BY <1>1 DEF vars, IInv, TypeOK, OneInstaller
<1>2. ASSUME NEW p \in Procs, Proceed(p)
      PROVE  IInv'
  BY <1>2, AcquireHolds, ContendHolds, ReadLockHolds, CheckFileHolds, PrepareHolds,
     ApplyFileHolds, VerifyHolds, CommitLockHolds, CompleteHolds, ReleaseHolds, FailHolds,
     UndoFileHolds, UndoFileFailsHolds, UndoLockHolds, UndoLockFailsHolds,
     RecordHolds, RecordFailsHolds, FreeHolds DEF Proceed
<1>3. ASSUME NEW p \in Procs, Ask(p) \/ Crash(p)
      PROVE  IInv'
  BY <1>3, AskHolds, CrashHolds
<1>4. CASE People
  BY <1>4, EditHolds, ReconcileHolds DEF People
<1> QED
  BY <1>1, <1>2, <1>3, <1>4 DEF Next

-----------------------------------------------------------------------------
\* The strengthened invariant holds of every behaviour.
THEOREM Invariance == Spec => []IInv
<1> QED
  BY InitHolds, NextHolds, PTL DEF Spec

\* TypeOK for any processes, files, contents and catalogs.
THEOREM TypeCorrect == Spec => []TypeOK
<1>1. IInv => TypeOK
  BY DEF IInv
<1> QED
  BY <1>1, Invariance, PTL

\* The lease excludes, through crashes, failed releases and clean-ups: whoever
\* is between the creation of the lease and its removal is whom it names.
THEOREM LeaseExcludes == Spec => []OneInstaller
<1>1. IInv => OneInstaller
  BY DEF IInv
<1> QED
  BY <1>1, Invariance, PTL

\* Wherever a transaction dies, the manifest says how to put things back.
THEOREM AlwaysRecoverable == Spec => []Recoverable
<1>1. ASSUME IInv PROVE Recoverable
  <2>1. ASSUME NEW p \in Procs, lease = p
        PROVE  /\ \A x \in Trusted(p) :
                     files[x] # tx[p].current[x] =>
                         /\ backups[p].manifest
                         /\ x \in DOMAIN backups[p].before
                         /\ backups[p].before[x] = tx[p].current[x]
               /\ tx[p].prior \notin {Uncaptured, lock} =>
                     backups[p].manifest /\ backups[p].priorLock = tx[p].prior
    <3>1. Sound(tx[p], backups[p], files, lock)
      BY <1>1, <2>1, Known
    <3>2. ASSUME NEW x \in Trusted(p), files[x] # tx[p].current[x]
          PROVE  /\ backups[p].manifest
                 /\ x \in DOMAIN backups[p].before
                 /\ backups[p].before[x] = tx[p].current[x]
      <4>1. x \in Range(tx[p].applied)
        BY <3>1, <3>2 DEF Sound, FilesSound, Trusted
      <4>2. x \in tx[p].changes /\ tx[p].applied # <<>>
        BY <3>1, <4>1 DEF Sound, Range
      <4>3. backups[p].manifest /\ backups[p].before = Restrict(tx[p].current, tx[p].changes)
        BY <3>1, <4>2, Known DEF Sound, BackupSound, Backup
      <4> QED
        BY <4>2, <4>3 DEF Restrict
    <3>3. tx[p].prior \notin {Uncaptured, lock} =>
             backups[p].manifest /\ backups[p].priorLock = tx[p].prior
      BY <1>1, <3>1, Known DEF Sound, LockSound, BackupSound, Backup
    <3> QED
      BY <3>2, <3>3
  <2> QED
    BY <2>1 DEF Recoverable
<1> QED
  BY <1>1, Invariance, PTL

\* Whoever plans, asks or enters its apply changes nothing but its own draft.
LEMMA AskDrafts ==
    ASSUME IInv, NEW p \in Procs, Ask(p)
    PROVE  /\ tx[p].pc \in {"new"} \cup Asking
           /\ \E r : Draft(p, r) /\ r.applied \in {tx[p].applied, <<>>}
<1>1. tx[p] \in Transaction
  BY Known
<1>2. ASSUME Fails(p)
      PROVE  \E r : Draft(p, r) /\ r.applied \in {tx[p].applied, <<>>}
  BY <1>2 DEF Fails, NewTransaction
<1>3. ASSUME NEW r, Draft(p, r), r.applied = tx[p].applied
      PROVE  \E s : Draft(p, s) /\ s.applied \in {tx[p].applied, <<>>}
  BY <1>3
<1>4. CASE PlanInstall(p)
  <2>1. PICK components, wants, current, desired, overwritten, preserved, changes :
           Draft(p, [tx[p] EXCEPT !.pc = "planned", !.kind = "install", !.components = components,
                                  !.wants = wants, !.current = current, !.desired = desired,
                                  !.overwritten = overwritten, !.preserved = preserved,
                                  !.changes = changes])
    BY <1>4, Zenon DEF PlanInstall
  <2> QED
    BY <1>1, <1>3, <1>4, <2>1 DEF PlanInstall, In, Transaction
<1>5. CASE PrepareUpdate(p)
  <2>1. PICK desired, overwritten, preserved, changes :
           Draft(p, [tx[p] EXCEPT !.kind = "update", !.desired = desired, !.overwritten = overwritten,
                                  !.preserved = preserved, !.changes = changes, !.expected = lock])
    BY <1>5, Zenon DEF PrepareUpdate
  <2> QED
    BY <1>1, <1>3, <1>5, <2>1 DEF PrepareUpdate, In, Transaction, Asking
<1>6. CASE PlanUninstall(p)
  BY <1>1, <1>3, <1>6 DEF PlanUninstall, In, Transaction
<1>7. CASE PlanRestore(p)
  BY <1>1, <1>3, <1>7 DEF PlanRestore, In, Transaction
<1>8. CASE Recheck(p)
  BY <1>1, <1>2, <1>3, <1>8 DEF Recheck, In, Transaction, Asking
<1>9. CASE ReadConfig(p)
  BY <1>1, <1>2, <1>3, <1>9 DEF ReadConfig, In, Transaction, Asking
<1>10. CASE Enter(p)
  BY <1>1, <1>2, <1>3, <1>10 DEF Enter, In, Transaction, Asking
<1> QED
  BY <1>4, <1>5, <1>6, <1>7, <1>8, <1>9, <1>10 DEF Ask

\* A process changes nothing of what another is doing.
LEMMA OthersStay ==
    ASSUME IInv, NEW p \in Procs, NEW q \in Procs \ {p}, Ask(q) \/ Proceed(q) \/ Crash(q)
    PROVE  tx'[p] = tx[p]
<1>1. tx \in [Procs -> Transaction]
  BY Known
<1>2. CASE Ask(q)
  <2>1. PICK r : Draft(q, r)
    BY <1>2, AskDrafts
  <2> QED
    BY <1>1, <2>1 DEF Draft
<1>3. CASE Throw(q) \/ (\E where : Goto(q, where)) \/ (\E how : End(q, how))
  BY <1>1, <1>3 DEF Throw, Goto, End
<1>4. CASE \/ Acquire(q) \/ Contend(q) \/ Prepare(q) \/ Verify(q) \/ Complete(q) \/ Release(q)
           \/ Fail(q) \/ UndoLock(q) \/ Record(q) \/ Free(q) \/ Crash(q)
  BY <1>3, <1>4 DEF Acquire, Contend, Prepare, Verify, Complete, Release, Fail, UndoLock, Record, Free, Crash
<1>5. CASE CheckFile(q)
  <2>1. CASE \E x \in Planned(q) : tx' = [tx EXCEPT ![q].checked = @ \cup {x}]
    BY <1>1, <2>1
  <2> QED
    BY <1>3, <1>5, <2>1 DEF CheckFile
<1>6. CASE ReadLock(q) \/ ApplyFile(q) \/ CommitLock(q)
  BY <1>1, <1>6 DEF ReadLock, ApplyFile, CommitLock
<1>7. CASE UndoFile(q) \/ UndoFileFails(q) \/ UndoLockFails(q) \/ RecordFails(q)
  BY <1>1, <1>7 DEF UndoFile, UndoFileFails, UndoLockFails, RecordFails
<1> QED
  BY <1>2, <1>4, <1>5, <1>6, <1>7 DEF Proceed

\* Only CommitLock leads from the end of the changes to the completion record.
LEMMA CommitStep ==
    ASSUME IInv, [Next]_vars, NEW p \in Procs, In(p, "commit"), tx'[p].pc = "complete"
    PROVE  CommitLock(p)
<1>1. tx \in [Procs -> Transaction] /\ tx[p].pc = "commit" /\ tx[p] \in Transaction
  BY Known DEF In
<1>2. tx'[p] # tx[p]
  BY <1>1
<1>3. CASE UNCHANGED vars
  BY <1>2, <1>3 DEF vars
<1>4. ASSUME NEW q \in Procs, Ask(q) \/ Proceed(q) \/ Crash(q)
      PROVE  CommitLock(p)
  <2>1. q = p
    BY <1>2, <1>4, OthersStay
  <2>2. ~ Ask(p)
    BY <1>1, AskDrafts DEF Asking
  <2>3. Throw(p) => tx'[p] = [tx[p] EXCEPT !.pc = "undo", !.todo = tx[p].applied]
    BY <1>1 DEF Throw
  <2>4. Goto(p, "dead") => tx'[p] = [tx[p] EXCEPT !.pc = "dead"]
    BY <1>1 DEF Goto
  <2>5. tx'[p].pc \notin {"undo", "dead"}
    BY <1>1
  <2>6. ~ Fail(p) /\ ~ Crash(p)
    BY <1>1, <2>3, <2>4, <2>5 DEF Fail, Crash, Transaction
  <2> QED
    BY <1>1, <1>4, <2>1, <2>2, <2>6
       DEF Proceed, In, Acquire, Contend, ReadLock, CheckFile, Prepare, ApplyFile, Verify, Complete, Release,
           UndoFile, UndoFileFails, UndoLock, UndoLockFails, Record, RecordFails, Free
<1>5. CASE People
  <2>1. ASSUME NEW x \in Paths, NEW c, Edit(x, c)
        PROVE  tx'[p].pc = tx[p].pc
    <3>1. tx'[p] = [tx[p] EXCEPT !.stale = @ \cup ({x} \cap tx[p].checked)]
      BY <2>1 DEF Edit
    <3> QED
      BY <1>1, <3>1 DEF Transaction
  <2>2. ASSUME NEW q \in Procs, Reconcile(q)
        PROVE  tx'[p].pc = tx[p].pc
    BY <1>1, <2>2 DEF Reconcile, End, NewTransaction
  <2> QED
    BY <1>1, <1>5, <2>1, <2>2 DEF People
<1> QED
  BY <1>3, <1>4, <1>5 DEF Next

\* The lock.json that a commit replaces is the one the transaction was entered
\* with, or prepared or backed up from; and an installation carries over what of
\* it it does not plan.
THEOREM CommitFenced == Spec => CommitIsFenced
<1>1. ASSUME IInv, [Next]_vars, NEW p \in Procs, In(p, "commit"), tx'[p].pc = "complete"
      PROVE  /\ lock = tx[p].expected
             /\ tx[p].kind = "install" =>
                   \A x \in DOMAIN Installed \ Planned(p) :
                       x \in DOMAIN lock'.installed /\ lock'.installed[x] = Installed[x]
  <2>1. Sound(tx[p], backups[p], files, lock) /\ tx[p].pc = "commit" /\ Orderly(tx[p], backups[p])
    BY <1>1, Known DEF In, Leased, Forward
  <2>2. lock = tx[p].expected
    BY <2>1 DEF Sound, LockSound
  <2>3. lock' = tx[p].goal
    BY <1>1, CommitStep DEF CommitLock
  <2>4. CASE lock = None
    BY <2>2, <2>4 DEF Installed, NoFiles
  <2>5. CASE lock # None
    BY <2>1, <2>2, <2>3, <2>5 DEF Orderly, CarriedOver, Installed, Planned
  <2> QED
    BY <2>2, <2>4, <2>5
<1>2. IInv /\ [Next]_vars =>
         [\A p \in Procs :
            In(p, "commit") /\ tx'[p].pc = "complete" =>
                /\ lock = tx[p].expected
                /\ tx[p].kind = "install" =>
                      \A x \in DOMAIN Installed \ Planned(p) :
                          x \in DOMAIN lock'.installed /\ lock'.installed[x] = Installed[x]]_vars
  BY <1>1
<1> QED
  BY <1>2, Invariance, PTL DEF Spec, CommitIsFenced

\* Of a process only ApplyFile extends what it has applied.
LEMMA AppliedGrows ==
    ASSUME IInv, [Next]_vars, NEW p \in Procs
    PROVE  ApplyFile(p) \/ tx'[p].applied \in {tx[p].applied, <<>>}
<1>1. /\ tx \in [Procs -> Transaction]
      /\ \A q \in Procs : "applied" \in DOMAIN tx[q]
  BY Known DEF Transaction
<1>2. CASE UNCHANGED vars
  BY <1>2 DEF vars
<1>3. ASSUME NEW q \in Procs, Proceed(q) PROVE ApplyFile(p) \/ tx'[p].applied \in {tx[p].applied, <<>>}
  <2>1. CASE ApplyFile(q)
    BY <1>1, <2>1 DEF ApplyFile
  <2>2. CASE Contend(q) \/ Release(q) \/ Free(q)
    <3>1. (\E how \in Over : End(q, how)) \/ Goto(q, "failed")
      BY <2>2 DEF Contend, Release, Free, Over
    <3>2. ASSUME NEW how \in Over, End(q, how) PROVE tx'[p].applied \in {tx[p].applied, <<>>}
      BY <1>1, <3>2 DEF End, NewTransaction
    <3>3. CASE Goto(q, "failed")
      BY <1>1, <3>3 DEF Goto
    <3> QED
      BY <3>1, <3>2, <3>3
  <2>3. CASE \/ Acquire(q) \/ ReadLock(q) \/ CheckFile(q) \/ Prepare(q) \/ Verify(q)
             \/ CommitLock(q) \/ Complete(q) \/ Fail(q)
    <3>1. CASE Throw(q) \/ \E pc \in Forward : Goto(q, pc)
      BY <1>1, <3>1 DEF Throw, Goto
    <3>2. CASE ReadLock(q)
      BY <1>1, <3>2 DEF ReadLock
    <3>3. CASE CheckFile(q)
      <4>1. CASE Throw(q)
        BY <3>1, <4>1
      <4>2. CASE \E x \in Planned(q) : tx' = [tx EXCEPT ![q].checked = @ \cup {x}]
        BY <1>1, <4>2
      <4> QED
        BY <3>3, <4>1, <4>2 DEF CheckFile
    <3>4. CASE CommitLock(q)
      BY <1>1, <3>4 DEF CommitLock
    <3>5. CASE Acquire(q) \/ Prepare(q) \/ Verify(q) \/ Complete(q) \/ Fail(q)
      BY <3>1, <3>5 DEF Acquire, Prepare, Verify, Complete, Fail, Forward
    <3> QED
      BY <2>3, <3>2, <3>3, <3>4, <3>5
  <2>4. CASE \/ UndoFile(q) \/ UndoFileFails(q) \/ UndoLock(q) \/ UndoLockFails(q)
             \/ Record(q) \/ RecordFails(q)
    <3>1. CASE UndoFile(q)
      BY <1>1, <3>1 DEF UndoFile
    <3>2. CASE UndoFileFails(q)
      BY <1>1, <3>2 DEF UndoFileFails
    <3>3. CASE UndoLock(q) \/ Record(q)
      <4>1. \E pc \in Backward : Goto(q, pc)
        BY <3>3 DEF UndoLock, Record, Backward
      <4> QED
        BY <1>1, <4>1 DEF Goto
    <3>4. CASE UndoLockFails(q)
      BY <1>1, <3>4 DEF UndoLockFails
    <3>5. CASE RecordFails(q)
      BY <1>1, <3>5 DEF RecordFails
    <3> QED
      BY <2>4, <3>1, <3>2, <3>3, <3>4, <3>5
  <2> QED
    BY <1>3, <2>1, <2>2, <2>3, <2>4 DEF Proceed
<1>4. ASSUME NEW q \in Procs, Ask(q) \/ Crash(q)
      PROVE  tx'[p].applied \in {tx[p].applied, <<>>}
  <2>1. CASE Crash(q)
    BY <1>1, <2>1 DEF Crash, Goto
  <2>2. CASE Ask(q)
    <3>1. PICK r : Draft(q, r) /\ r.applied \in {tx[q].applied, <<>>}
      BY <2>2, AskDrafts
    <3> QED
      BY <1>1, <3>1 DEF Draft
  <2> QED
    BY <1>4, <2>1, <2>2
<1>5. CASE People
  <2>1. CASE \E x \in Paths, c \in UserContents \cup {None} : Edit(x, c)
    BY <1>1, <2>1 DEF Edit
  <2>2. CASE \E q \in Procs : Reconcile(q)
    BY <1>1, <2>2 DEF Reconcile, End, NewTransaction
  <2> QED
    BY <1>5, <2>1, <2>2 DEF People
<1> QED
  BY <1>2, <1>3, <1>4, <1>5 DEF Next

\* No file is overwritten that is not as it was planned from, except those
\* that people changed after the check.
THEOREM StaleStops == Spec => StalePlansStop
<1>1. ASSUME IInv, [Next]_vars, NEW p \in Procs, NEW x \in Paths,
             tx'[p].applied = Append(tx[p].applied, x)
      PROVE  files[x] = tx[p].current[x] \/ x \in tx[p].stale
  <2>1. tx[p].applied \in Seq(Paths)
    BY <1>1, Known DEF Transaction
  <2>2. ApplyFile(p)
    BY <1>1, <2>1, AppliedGrows
  <2>3. PICK y \in NextInOrder(p) : tx' = [tx EXCEPT ![p].applied = Append(@, y)]
    BY <2>2 DEF ApplyFile
  <2>4. Append(tx[p].applied, x) = Append(tx[p].applied, y)
    BY <1>1, <2>3, Known DEF Transaction
  <2>5. x = y
    <3>1. /\ Append(tx[p].applied, x)[Len(tx[p].applied) + 1] = x
          /\ Append(tx[p].applied, y)[Len(tx[p].applied) + 1] = y
      BY <2>1
    <3> QED
      BY <2>4, <3>1
  <2>6. x \in tx[p].changes /\ x \notin Range(tx[p].applied)
    BY <2>3, <2>5 DEF NextInOrder, Remaining, Changed, Planned
  <2>7. Sound(tx[p], backups[p], files, lock) /\ tx[p].pc = "apply"
    BY <1>1, <2>2, Known DEF ApplyFile, In, Leased, Forward
  <2>8. x \in tx[p].checked
    BY <1>1, <2>6, <2>7, Known DEF Sound, BackupSound
  <2> QED
    BY <2>6, <2>7, <2>8 DEF Sound, FilesSound
<1>2. IInv /\ [Next]_vars =>
         [\A p \in Procs, x \in Paths :
            tx'[p].applied = Append(tx[p].applied, x) =>
                files[x] = tx[p].current[x] \/ x \in tx[p].stale]_vars
  BY <1>1
<1> QED
  BY <1>2, Invariance, PTL DEF Spec, StalePlansStop

\* Only the holder of the lease and the person who cleans up give it up.
LEMMA LeaseEnds ==
    ASSUME IInv, [Next]_vars, NEW p \in Procs, lease = p, lease' # p
    PROVE  Release(p) \/ (Free(p) /\ lease' = None) \/ Reconcile(p)
<1>1. p # None
  BY InstallAssumption
<1>2. CASE UNCHANGED vars
  BY <1>2 DEF vars
<1>3. ASSUME NEW q \in Procs, Proceed(q)
      PROVE  Release(p) \/ (Free(p) /\ lease' = None)
  <2>1. CASE \/ Acquire(q) \/ Contend(q) \/ ReadLock(q) \/ CheckFile(q) \/ Prepare(q)
             \/ ApplyFile(q) \/ Verify(q) \/ CommitLock(q) \/ Complete(q) \/ Fail(q)
    BY <1>1, <2>1 DEF Acquire, Contend, ReadLock, CheckFile, Prepare, ApplyFile, Verify,
                      CommitLock, Complete, Fail
  <2>2. CASE \/ UndoFile(q) \/ UndoFileFails(q) \/ UndoLock(q) \/ UndoLockFails(q)
             \/ Record(q) \/ RecordFails(q)
    BY <2>2 DEF UndoFile, UndoFileFails, UndoLock, UndoLockFails, Record, RecordFails
  <2>3. CASE Release(q) \/ Free(q)
    <3>1. tx[q].pc \in Leased
      BY <2>3 DEF Release, Free, In, Leased, Forward, Backward
    <3>2. q = p
      BY <3>1, Known
    <3> QED
      BY <2>3, <3>2 DEF Free
  <2> QED
    BY <1>3, <2>1, <2>2, <2>3 DEF Proceed
<1>4. ASSUME NEW q \in Procs, Ask(q) \/ Crash(q)
      PROVE  FALSE
  BY <1>4, AskDrafts DEF Draft, Crash
<1>5. CASE People
  BY <1>5 DEF People, Edit, Reconcile
<1> QED
  BY <1>2, <1>3, <1>4, <1>5 DEF Next

\* When the lease goes the transaction has happened as a whole or not at all.
THEOREM AllOrNothingHolds == Spec => AllOrNothing
<1>1. ASSUME IInv, [Next]_vars, NEW p \in Procs, lease = p, lease' # p
      PROVE  IF tx'[p].pc = "committed"
             THEN Whole(p, files', lock')
             ELSE Nothing(p, files', lock')
  <2>1. /\ tx \in [Procs -> Transaction] /\ backups[p] \in Backup
        /\ Sound(tx[p], backups[p], files, lock) /\ Orderly(tx[p], backups[p])
    BY <1>1, Known
  <2>2. Trusted(p) \subseteq DOMAIN tx[p].current /\ Trusted(p) \subseteq Paths
    BY <2>1, <1>1, Known DEF Trusted, Orderly
  <2>3. CASE Release(p)
    <3>1. tx[p].pc = "release" /\ tx'[p].pc = "committed" /\ files' = files /\ lock' = lock
      BY <2>1, <2>3 DEF Release, In, End, NewTransaction
    <3>2. Whole(p, files, lock)
      BY <2>1, <2>2, <3>1 DEF Whole, Sound, FilesSound, LockSound, Orderly, Trusted, Forward
    <3> QED
      BY <3>1, <3>2
  <2>4. CASE Free(p) /\ lease' = None
    <3>1. /\ tx[p].pc = "free" /\ files' = files /\ lock' = lock
          /\ tx[p].unreconciled = {} /\ End(p, "failed")
      BY <1>1, <2>4 DEF Free, In
    <3>2. tx'[p].pc = "failed"
      BY <2>1, <3>1 DEF End, NewTransaction
    <3>3. Nothing(p, files, lock)
      BY <2>1, <3>1 DEF Nothing, Sound, FilesSound, LockSound, Trusted, Backward, Range
    <3> QED
      BY <3>1, <3>2, <3>3
  <2>5. CASE Reconcile(p)
    <3>1. tx[p].pc \in {"failed", "dead"} /\ tx'[p].pc = tx[p].pc
      BY <2>1, <2>5 DEF Reconcile, End, NewTransaction, Sound, Over, Leased, Forward, Backward
    <3>2. /\ files' = [x \in Paths |-> IF x \in DOMAIN backups[p].before
                                       THEN backups[p].before[x] ELSE files[x]]
          /\ lock' = IF backups[p].manifest THEN backups[p].priorLock ELSE lock
      BY <2>5 DEF Reconcile
    <3>3. backups[p].manifest \in BOOLEAN
      BY <2>1 DEF Backup
    <3>4. CASE backups[p].manifest
      <4>1. /\ backups[p].before = Restrict(tx[p].current, tx[p].changes)
            /\ backups[p].priorLock = tx[p].prior
        BY <2>1, <3>4 DEF Sound, BackupSound
      <4>2. \A x \in Trusted(p) : files'[x] = tx[p].current[x]
        <5>1. \A x \in Trusted(p) \ tx[p].changes : files[x] = tx[p].current[x]
          BY <2>1 DEF Sound, FilesSound, Trusted
        <5>2. DOMAIN backups[p].before = tx[p].changes
          BY <4>1 DEF Restrict
        <5>3. \A x \in tx[p].changes : backups[p].before[x] = tx[p].current[x]
          BY <4>1 DEF Restrict
        <5> QED
          BY <2>2, <3>2, <5>1, <5>2, <5>3
      <4> QED
        BY <3>1, <3>2, <3>4, <4>1, <4>2 DEF Nothing
    <3>5. CASE ~ backups[p].manifest
      <4>1. DOMAIN backups[p].before = {} /\ tx[p].applied = <<>> /\ ~ tx[p].lockChanged
        BY <2>1, <3>5 DEF Sound, BackupSound
      <4>2. Range(<<>>) = {}
        BY DEF Range
      <4>3. \A x \in Trusted(p) : files'[x] = tx[p].current[x]
        BY <2>1, <2>2, <3>2, <4>1, <4>2 DEF Sound, FilesSound, Trusted
      <4>4. tx[p].prior # Uncaptured => lock' = tx[p].prior
        BY <2>1, <3>2, <3>5, <4>1 DEF Sound, LockSound
      <4> QED
        BY <3>1, <4>3, <4>4 DEF Nothing
    <3> QED
      BY <3>3, <3>4, <3>5
  <2> QED
    BY <1>1, <2>3, <2>4, <2>5, LeaseEnds
<1>2. IInv /\ [Next]_vars =>
         [\A p \in Procs :
            lease = p /\ lease' # p =>
                IF tx'[p].pc = "committed"
                THEN Whole(p, files', lock')
                ELSE Nothing(p, files', lock')]_vars
  BY <1>1
<1> QED
  BY <1>2, Invariance, PTL DEF Spec, AllOrNothing

-----------------------------------------------------------------------------
(* What the configuration registers exists.  Take F[p] for the files that  *)
(* the transaction of p leaves, F[None] for those before any.  They are    *)
(* settled when p writes its manifest; lock.json says which of them are    *)
(* there, and no transaction both brings files and takes some away.        *)

Histories == [Procs \cup {None} -> [Paths -> MaybeContent]]

Writer(l) == IF l = None THEN None ELSE l.by

\* A lock.json whose files are settled: the manifest of its writer is there.
Vouched(bs, l) == l = None \/ (bs[l.by].manifest /\ bs[l.by].resultLock = l)

\* Two states of the files differ only where people have been.
Agree(m, f, g) == \A x \in Paths \ m : f[x] = g[x]

Loadable(m, f) == \A x \in Registers[f[Config]] : f[x] # None \/ x \in m

\* What a lock.json lists: files that every catalog ships, and the configuration
\* with those that it may name.
Closed(installed) ==
    /\ \A x \in DOMAIN installed :
          installed[x] # None /\ \A release \in Releases : x \in release.ships
    /\ DOMAIN installed \cap Registrable # {} => Config \in DOMAIN installed

\* What holds of a lock.json and of the files that go with it.
Accounted(m, f, l) ==
    /\ Loadable(m, f)
    /\ l # None => Closed(l.installed)

\* From one state of the files to the other, over D.
Turns(m, D, now, then, f, g) ==
    \A x \in Paths \ m : IF x \in D THEN now[x] = f[x] /\ then[x] = g[x] ELSE f[x] = g[x]

\* Files are only brought, or only taken away.
OneWay(D, now, then) == (\A x \in D : then[x] # None) \/ (\A x \in D : now[x] # None)

BackupTrue(F, m, bs, b) ==
    /\ Vouched(bs, b.priorLock) /\ Vouched(bs, b.resultLock)
    /\ Turns(m, DOMAIN b.before, b.before, b.after, F[Writer(b.priorLock)], F[Writer(b.resultLock)])
    /\ OneWay(DOMAIN b.before, b.before, b.after)
    /\ Accounted(m, F[Writer(b.resultLock)], b.resultLock)

\* A restore goes back from one state that is settled to another.
Returns(F, m, bs, r) ==
    /\ Vouched(bs, r.goal)
    /\ Turns(m, r.changes, r.current, r.desired, F[Writer(r.expected)], F[Writer(r.goal)])

\* An installation or its removal leaves a state of its own.
Advances(p, r) ==
    /\ r.goal # None /\ r.goal.by = p
    /\ Closed(r.goal.installed)
    /\ Config \in r.changes =>
          \A x \in Registers[r.desired[Config]] :
              \/ x \in DOMAIN r.current /\ r.desired[x] # None
              \/ x \in Registers[r.current[Config]] \ r.changes
    /\ Config \notin r.changes =>
          \A x \in r.changes : r.desired[x] # None \/ x \notin Registrable

PlanTrue(F, m, bs, p, r) ==
    /\ Vouched(bs, r.expected)
    /\ OneWay(r.changes, r.current, r.desired)
    /\ Returns(F, m, bs, r) \/ Advances(p, r)

\* Before its apply, an installation or an update only brings files, and a
\* configuration with all that it names.
Bringing(bs, r) ==
    /\ r.kind \in {"install", "update"}
    /\ DOMAIN r.current = DOMAIN r.wants
    /\ \A x \in DOMAIN r.wants : /\ r.wants[x] # None /\ r.desired[x] # None
                                /\ \A release \in Releases : x \in release.ships
    /\ Config \in DOMAIN r.wants => Registers[r.wants[Config]] \subseteq DOMAIN r.wants
    /\ Config \in r.changes => Registers[r.desired[Config]] \subseteq DOMAIN r.wants
    /\ DOMAIN r.wants \cap Registrable # {} => Config \in DOMAIN r.wants
    /\ Config \notin r.preserved
    /\ r.kind = "update" => Vouched(bs, r.expected)

\* An uninstall only takes files away, and what it takes it unregisters.
Taking(r) ==
    /\ r.kind = "uninstall"
    /\ \A x \in DOMAIN r.current : r.current[x] # None
    /\ r.changes \cap Registrable # {} => "plugins" \in r.components /\ Config \in r.changes
    /\ r.pc = "looked" /\ Config \in r.changes =>
          Registers[r.desired[Config]] \subseteq
             IF "plugins" \in r.components THEN {} ELSE Registers[r.current[Config]]

Outlined(bs, r) == Bringing(bs, r) \/ Taking(r)

Removing(r) == \E x \in r.changes : r.desired[x] = None

\* The order of the changes: nothing twice, the configuration at its end.
Placed(r, s) ==
    /\ \A i \in DOMAIN s, j \in DOMAIN s : s[i] = s[j] => i = j
    /\ Removing(r) /\ Config \in r.changes /\ s # <<>> => s[1] = Config
    /\ ~ Removing(r) => \A i \in DOMAIN s : s[i] = Config => i = Len(s) /\ r.changes \subseteq Range(s)

\* The changes done and not undone, in that order.
Admissible(r, A) ==
    IF Removing(r) THEN Config \in r.changes => A = {} \/ Config \in A
                   ELSE Config \in A => A = r.changes

Partly(m, r, f, A) == \A x \in r.changes \ m : f[x] = IF x \in A THEN r.desired[x] ELSE r.current[x]

Underway(F, m, r, b, f, l) ==
    IF ~ b.manifest THEN r.todo = <<>> /\ Agree(m, f, F[Writer(l)])
    ELSE /\ b.after = Restrict(r.desired, r.changes) /\ b.resultLock = r.goal
         /\ l \in {b.priorLock, b.resultLock}
         /\ \A x \in (Paths \ m) \ r.changes : f[x] = F[Writer(b.priorLock)][x]
         /\ Placed(r, r.applied) /\ Placed(r, r.todo)
         /\ r.pc \in Forward => r.unreconciled = {}
         /\ r.unreconciled = {} =>
               \E A \in SUBSET r.changes :
                   /\ Admissible(r, A) /\ Partly(m, r, f, A)
                   /\ r.pc \in Forward => A = Range(r.applied)
                   /\ r.pc \in Backward \cup {"failed"} => A = Range(r.todo)

History(F, m, bs, ts) ==
    /\ Accounted(m, F[None], None)
    /\ \A p \in Procs : /\ bs[p].manifest => BackupTrue(F, m, bs, bs[p])
                        /\ ts[p].pc \in Asking => Outlined(bs, ts[p])
                        /\ ts[p].pc \in {"ready", "lock", "check"} => PlanTrue(F, m, bs, p, ts[p])
                        /\ ts[p].stale \subseteq m

Present(F, m, bs, ts, f, l, holder) ==
    /\ Vouched(bs, l)
    /\ IF holder = None THEN Agree(m, f, F[Writer(l)])
       ELSE Underway(F, m, ts[holder], bs[holder], f, l)

Told(F) == History(F, meddled, backups, tx) /\ Present(F, meddled, backups, tx, files, lock, lease)

HistoryInv == Config \in meddled \/ EverNarrowed \/ \E F \in Histories : Told(F)

-----------------------------------------------------------------------------
LEMMA WriterTyped ==
    ASSUME NEW l \in MaybeLock
    PROVE  /\ Writer(l) \in Procs \cup {None}
           /\ l # None => Writer(l) = l.by /\ l.by \in Procs /\ l.by # None /\ DOMAIN l.installed \subseteq Paths
           /\ \A F \in Histories : F[Writer(l)] \in [Paths -> MaybeContent]
<1>1. l # None => l \in Lock /\ l.by \in Procs /\ l.installed \in Outlook
  BY DEF MaybeLock, Lock
<1>2. l # None => Writer(l) = l.by /\ l.by \in Procs /\ l.by # None /\ DOMAIN l.installed \subseteq Paths
  BY <1>1, OutlookApply, InstallAssumption DEF Writer
<1>3. Writer(l) \in Procs \cup {None}
  BY <1>2 DEF Writer
<1> QED
  BY <1>2, <1>3 DEF Histories

\* What is settled is accounted for.
LEMMA SettledIsAccounted ==
    ASSUME NEW F, NEW l \in MaybeLock, History(F, meddled, backups, tx), Vouched(backups, l)
    PROVE  Accounted(meddled, F[Writer(l)], l)
<1>1. CASE l = None
  BY <1>1 DEF History, Writer
<1>2. CASE l # None
  <2>1. l.by \in Procs /\ backups[l.by].manifest /\ backups[l.by].resultLock = l
    BY <1>2, WriterTyped DEF Vouched
  <2> QED
    BY <2>1 DEF History, BackupTrue
<1> QED
  BY <1>1, <1>2

\* Half way between two states of the files that can be loaded, in the order
\* of applyOrder, what the configuration names is there too.
LEMMA Between ==
    ASSUME NEW m, NEW r, NEW A \in SUBSET r.changes,
           NEW f \in [Paths -> MaybeContent], NEW g \in [Paths -> MaybeContent],
           NEW h \in [Paths -> MaybeContent],
           Config \notin m,
           Loadable(m, g), Loadable(m, h),
           Turns(m, r.changes, r.current, r.desired, g, h),
           OneWay(r.changes, r.current, r.desired),
           Admissible(r, A), Partly(m, r, f, A),
           \A x \in (Paths \ m) \ r.changes : f[x] = g[x]
    PROVE  Loadable(m, f)
<1> DEFINE names(e) == Registers[e[Config]]
<1>1. Config \in Paths \ m
  BY InstallAssumption
<1>2. \A e \in [Paths -> MaybeContent] : names(e) \subseteq Paths
  BY <1>1, InstallAssumption
<1>3. \A x \in Paths \ m : f[x] \in {g[x], h[x]} /\ (x \in A => f[x] = h[x]) /\ (x \notin A => f[x] = g[x])
  BY DEF Turns, Partly
<1>4. CASE ~ Removing(r)
  <2>1. \A x \in Paths \ m : g[x] # None => h[x] # None
    BY <1>4 DEF Removing, Turns
  <2>2. CASE Config \in A
    <3>1. \A x \in Paths \ m : f[x] = h[x]
      BY <1>3, <1>4, <2>2 DEF Admissible, Turns
    <3> QED
      BY <1>1, <1>2, <3>1 DEF Loadable
  <2>3. CASE Config \notin A
    <3>1. f[Config] = g[Config]
      BY <1>1, <1>3, <2>3
    <3>2. \A x \in Paths \ m : g[x] # None => f[x] # None
      BY <1>3, <2>1
    <3> QED
      BY <1>1, <1>2, <3>1, <3>2 DEF Loadable
  <2> QED
    BY <2>2, <2>3
<1>5. CASE Removing(r)
  <2>1. \A x \in Paths \ m : h[x] # None => g[x] # None
    BY <1>5 DEF Removing, OneWay, Turns
  <2>2. CASE Config \in A
    <3>1. f[Config] = h[Config]
      BY <1>1, <1>3, <2>2
    <3>2. \A x \in Paths \ m : h[x] # None => f[x] # None
      BY <1>3, <2>1
    <3> QED
      BY <1>1, <1>2, <3>1, <3>2 DEF Loadable
  <2>3. CASE Config \notin A /\ Config \in r.changes
    <3>1. \A x \in Paths \ m : f[x] = g[x]
      BY <1>3, <1>5, <2>3 DEF Admissible
    <3> QED
      BY <1>1, <1>2, <3>1 DEF Loadable
  <2>4. CASE Config \notin A /\ Config \notin r.changes
    <3>1. f[Config] = g[Config] /\ f[Config] = h[Config]
      BY <1>1, <1>3, <2>4 DEF Turns
    <3> QED
      BY <1>1, <1>2, <1>3, <3>1 DEF Loadable
  <2> QED
    BY <2>2, <2>3, <2>4
<1> QED
  BY <1>4, <1>5

\* The invariant says what is to be proved.
LEMMA ToldLoads ==
    ASSUME IInv, NEW F \in Histories, Told(F), Config \notin meddled
    PROVE  RegisteredFilesExist
<1>1. /\ files \in [Paths -> MaybeContent] /\ lock \in MaybeLock
      /\ lease \in Procs \cup {None} /\ None \notin Procs
      /\ History(F, meddled, backups, tx) /\ Vouched(backups, lock)
  BY InstallAssumption DEF IInv, TypeOK, Told, Present
<1>2. Loadable(meddled, F[Writer(lock)]) /\ F[Writer(lock)] \in [Paths -> MaybeContent]
  BY <1>1, SettledIsAccounted, WriterTyped DEF Accounted
<1>3. ASSUME Agree(meddled, files, F[Writer(lock)])
      PROVE  Loadable(meddled, files)
  <2>1. files[Config] = F[Writer(lock)][Config] /\ Registers[files[Config]] \subseteq Paths
    BY <1>1, <1>3, InstallAssumption DEF Agree
  <2> QED
    BY <1>2, <1>3, <2>1 DEF Agree, Loadable
<1>4. ASSUME NEW p \in Procs, lease = p, backups[p].manifest, tx[p].unreconciled = {}
      PROVE  Loadable(meddled, files)
  <2> DEFINE b == backups[p]
             r == tx[p]
  <2>1. /\ Sound(r, b, files, lock) /\ Orderly(r, b) /\ b \in Backup /\ r \in Transaction
        /\ Underway(F, meddled, r, b, files, lock) /\ BackupTrue(F, meddled, backups, b)
    BY <1>1, <1>4, Known DEF History, Told, Present
  <2>2. /\ b.after = Restrict(r.desired, r.changes) /\ b.before = Restrict(r.current, r.changes)
        /\ DOMAIN b.before = r.changes
    BY <1>4, <2>1 DEF Underway, Sound, BackupSound, Restrict
  <2> DEFINE g == F[Writer(b.priorLock)]
             h == F[Writer(b.resultLock)]
  <2>3. b.priorLock \in MaybeLock /\ b.resultLock \in MaybeLock
    BY <2>1 DEF Backup
  <2>4. /\ g \in [Paths -> MaybeContent] /\ h \in [Paths -> MaybeContent]
        /\ Loadable(meddled, g) /\ Loadable(meddled, h)
    <3>1. Vouched(backups, b.priorLock) /\ Vouched(backups, b.resultLock)
      BY <2>1 DEF BackupTrue
    <3> QED
      BY <1>1, <2>3, <3>1, SettledIsAccounted, WriterTyped DEF Accounted
  <2>5. /\ Turns(meddled, r.changes, r.current, r.desired, g, h)
        /\ OneWay(r.changes, r.current, r.desired)
    <3>1. \A x \in r.changes : b.before[x] = r.current[x] /\ b.after[x] = r.desired[x]
      BY <2>2 DEF Restrict
    <3> QED
      BY <2>1, <2>2, <3>1 DEF BackupTrue, Turns, OneWay
  <2>6. PICK A \in SUBSET r.changes : Admissible(r, A) /\ Partly(meddled, r, files, A)
    BY <1>4, <2>1 DEF Underway
  <2>7. \A x \in (Paths \ meddled) \ r.changes : files[x] = g[x]
    BY <1>4, <2>1 DEF Underway
  <2> HIDE DEF g, h, r, b
  <2> QED
    BY <1>1, <2>4, <2>5, <2>6, <2>7, Between
<1>5. CASE lease = None
  BY <1>1, <1>3, <1>5 DEF Told, Present, Loadable, RegisteredFilesExist
<1>6. CASE lease \in Procs /\ ~ backups[lease].manifest
  BY <1>1, <1>3, <1>6 DEF Told, Present, Underway, Loadable, RegisteredFilesExist
<1>7. CASE lease \in Procs /\ backups[lease].manifest
  BY <1>1, <1>4, <1>7 DEF Loadable, RegisteredFilesExist
<1> QED
  BY <1>1, <1>5, <1>6, <1>7

-----------------------------------------------------------------------------
\* What a backup says, whether it is completed and recovered or not.
SameBooks(b, c) ==
    /\ b.manifest = c.manifest /\ b.before = c.before /\ b.after = c.after
    /\ b.priorLock = c.priorLock /\ b.resultLock = c.resultLock

Planning == {"ready", "lock", "check"}
Drafted  == Asking \cup Planning

SameChanges(r, s) ==
    /\ r.changes = s.changes /\ r.current = s.current /\ r.desired = s.desired
    /\ r.expected = s.expected /\ r.goal = s.goal
    /\ r.kind = s.kind /\ r.components = s.components /\ r.wants = s.wants
    /\ r.preserved = s.preserved

SamePlan(r, s) == SameChanges(r, s) /\ r.stale = s.stale

LEMMA SamePlanTrue ==
    ASSUME NEW F, NEW m, NEW bs, NEW p, NEW r, NEW s, SameChanges(r, s), PlanTrue(F, m, bs, p, s)
    PROVE  PlanTrue(F, m, bs, p, r)
BY DEF SameChanges, PlanTrue, Returns, Advances

LEMMA SameOutlined ==
    ASSUME NEW bs, NEW r, NEW s, SameChanges(r, s), r.pc = s.pc, Outlined(bs, s)
    PROVE  Outlined(bs, r)
BY DEF SameChanges, Outlined, Bringing, Taking

\* A step of one process leaves what is told of the others as it is.
LEMMA ToldStep ==
    ASSUME IInv, NEW F \in Histories, Told(F), NEW p \in Procs, NEW r, NEW b,
           tx' = [tx EXCEPT ![p] = r], backups' = [backups EXCEPT ![p] = b], meddled' = meddled,
           SameBooks(b, backups[p]),
           r.pc \in Planning => PlanTrue(F, meddled, backups, p, r),
           r.pc \in Asking => Outlined(backups, r),
           r.stale \subseteq meddled,
           \/ UNCHANGED <<files, lock, lease>> /\ lease # p
           \/ /\ lease' = p
              /\ Vouched(backups, lock') /\ lock' \in MaybeLock
              /\ Underway(F, meddled, r, b, files', lock')
           \/ /\ lease' = None
              /\ Vouched(backups, lock') /\ lock' \in MaybeLock
              /\ Agree(meddled, files', F[Writer(lock')])
    PROVE  Told(F)'
<1>1. /\ tx'[p] = r /\ backups'[p] = b
      /\ \A q \in Procs \ {p} : tx'[q] = tx[q] /\ backups'[q] = backups[q]
      /\ \A q \in Procs : SameBooks(backups'[q], backups[q])
  BY DEF IInv, TypeOK, SameBooks
<1>2. ASSUME NEW l \in MaybeLock
      PROVE  Vouched(backups', l) <=> Vouched(backups, l)
  <2>1. l # None => l.by \in Procs
    BY WriterTyped
  <2> QED
    BY <1>1, <2>1 DEF Vouched, SameBooks
<1>3. History(F, meddled, backups, tx) /\ lease \in Procs \cup {None} /\ lock \in MaybeLock
  BY DEF Told, IInv, TypeOK
<1>4. ASSUME NEW q \in Procs, backups'[q].manifest
      PROVE  BackupTrue(F, meddled, backups', backups'[q])
  <2>1. BackupTrue(F, meddled, backups, backups[q]) /\ SameBooks(backups'[q], backups[q])
    BY <1>1, <1>3, <1>4 DEF History, SameBooks
  <2>2. backups[q].priorLock \in MaybeLock /\ backups[q].resultLock \in MaybeLock
    BY DEF IInv, TypeOK, Backup
  <2> QED
    BY <1>2, <2>1, <2>2 DEF BackupTrue, SameBooks
<1>5. ASSUME NEW l, Vouched(backups, l)
      PROVE  Vouched(backups', l)
  <2>1. CASE l = None
    BY <2>1 DEF Vouched
  <2>2. CASE l # None /\ l.by \in Procs
    BY <1>1, <1>5, <2>2 DEF Vouched, SameBooks
  <2>3. CASE l # None /\ l.by \notin Procs
    <3>1. backups'[l.by] = backups[l.by]
      BY <1>1, <2>3 DEF IInv, TypeOK
    <3> QED
      BY <1>5, <3>1 DEF Vouched
  <2> QED
    BY <2>1, <2>2, <2>3
<1>10. ASSUME NEW q \in Procs, tx'[q].pc \in Planning
      PROVE  PlanTrue(F, meddled, backups', q, tx'[q])
  <2>1. PlanTrue(F, meddled, backups, q, tx'[q])
    BY <1>1, <1>3, <1>10 DEF History, Planning
  <2> QED
    BY <1>5, <2>1 DEF PlanTrue, Returns
<1>9. ASSUME NEW q \in Procs, tx'[q].pc \in Asking
      PROVE  Outlined(backups', tx'[q])
  <2>1. Outlined(backups, tx'[q])
    BY <1>1, <1>3, <1>9 DEF History
  <2> QED
    BY <1>5, <2>1 DEF Outlined, Bringing
<1>6. \A q \in Procs : tx'[q].stale \subseteq meddled
  BY <1>1, <1>3 DEF History
<1>7. History(F, meddled', backups', tx')
  BY <1>3, <1>4, <1>6, <1>9, <1>10 DEF History, Planning
<1>8. Present(F, meddled', backups', tx', files', lock', lease')
  <2>1. CASE UNCHANGED <<files, lock, lease>> /\ lease # p
    <3>1. Vouched(backups', lock') /\ Present(F, meddled, backups, tx, files, lock, lease)
      BY <1>2, <1>3, <2>1 DEF Told, Present
    <3>2. lease # None => SameBooks(backups'[lease], backups[lease]) /\ tx'[lease] = tx[lease]
                          /\ backups'[lease] = backups[lease]
      BY <1>1, <1>3, <2>1
    <3> QED
      BY <2>1, <3>1, <3>2 DEF Present
  <2>2. CASE lease' = p /\ Vouched(backups, lock') /\ lock' \in MaybeLock
             /\ Underway(F, meddled, r, b, files', lock')
    BY <1>1, <1>2, <2>2, InstallAssumption DEF Present
  <2>3. CASE lease' = None /\ Vouched(backups, lock') /\ lock' \in MaybeLock
             /\ Agree(meddled, files', F[Writer(lock')])
    BY <1>2, <2>3 DEF Present
  <2> QED
    BY <2>1, <2>2, <2>3
<1> QED
  BY <1>7, <1>8 DEF Told

\* What is told of the transaction that holds the lease.
LEMMA Holder ==
    ASSUME IInv, NEW F, Told(F), NEW p \in Procs
    PROVE  /\ History(F, meddled, backups, tx) /\ Vouched(backups, lock)
           /\ tx[p].stale \subseteq meddled
           /\ tx[p].pc \in Asking => Outlined(backups, tx[p])
           /\ tx[p].pc \in Planning => PlanTrue(F, meddled, backups, p, tx[p])
           /\ lease = p => Underway(F, meddled, tx[p], backups[p], files, lock)
           /\ lease = None => Agree(meddled, files, F[Writer(lock)])
           /\ p # None
           /\ backups[p].manifest => BackupTrue(F, meddled, backups, backups[p])
           /\ backups[p].manifest \in BOOLEAN
           /\ backups[p] \in Backup
BY Known, InstallAssumption DEF Told, History, Present, Planning, Drafted, Asking, Backup

\* Before the manifest is written: the files and lock.json are as they were.
LEMMA EarlyTold ==
    ASSUME IInv, NEW F \in Histories, Told(F), NEW p \in Procs, NEW r,
           ~ backups[p].manifest,
           tx' = [tx EXCEPT ![p] = r], UNCHANGED <<files, lock, backups, meddled>>,
           lease' = p, lease \in {p, None},
           r.pc \notin Asking, r.pc \in Planning => tx[p].pc \in Planning,
           SamePlan(r, tx[p]), r.todo = <<>>
    PROVE  Told(F)'
<1>1. r.pc \in Planning => PlanTrue(F, meddled, backups, p, r)
  BY Holder, SamePlanTrue DEF SamePlan, SameChanges
<1>2. r.stale \subseteq meddled
  BY Holder DEF SamePlan, SameChanges
<1>3. Vouched(backups, lock') /\ lock' \in MaybeLock
  BY Holder DEF IInv, TypeOK
<1>4. Agree(meddled, files, F[Writer(lock)])
  BY Holder DEF Underway
<1>5. Underway(F, meddled, r, backups[p], files', lock')
  BY <1>4 DEF Underway
<1>6. backups' = [backups EXCEPT ![p] = backups[p]] /\ SameBooks(backups[p], backups[p])
  BY Known DEF SameBooks
<1> QED
  BY <1>1, <1>2, <1>3, <1>5, <1>6, ToldStep

\* After: a step that leaves the files and the order of the changes alone.
LEMMA OnwardTold ==
    ASSUME IInv, NEW F \in Histories, Told(F), NEW p \in Procs, NEW r, NEW b,
           backups[p].manifest, SameBooks(b, backups[p]),
           tx' = [tx EXCEPT ![p] = r], backups' = [backups EXCEPT ![p] = b],
           UNCHANGED <<files, lease, meddled>>, lease = p,
           lock' \in {lock, backups[p].priorLock, backups[p].resultLock},
           SamePlan(r, tx[p]), r.applied = tx[p].applied, r.todo = tx[p].todo,
           r.pc \notin Drafted,
           r.unreconciled = {} => tx[p].unreconciled = {},
           r.pc \in Forward => tx[p].pc \in Forward /\ r.unreconciled = tx[p].unreconciled,
           r.pc \in Backward \cup {"failed"} => tx[p].pc \in Backward \cup {"failed"}
    PROVE  Told(F)'
<1>1. r.stale \subseteq meddled
  BY Holder DEF SamePlan, SameChanges
<1>2. /\ Underway(F, meddled, tx[p], backups[p], files, lock)
      /\ Vouched(backups, lock) /\ BackupTrue(F, meddled, backups, backups[p])
      /\ backups[p] \in Backup
  BY Holder
<1>3. lock' \in {backups[p].priorLock, backups[p].resultLock}
  BY <1>2 DEF Underway
<1>4. lock' \in MaybeLock /\ Vouched(backups, lock')
  BY <1>2, <1>3 DEF BackupTrue, Backup
<1>5. Underway(F, meddled, r, b, files', lock')
  <2>1. Placed(r, r.applied) /\ Placed(r, r.todo)
    BY <1>2 DEF Underway, Placed, Removing, SamePlan, SameChanges
  <2>2. ASSUME r.unreconciled = {}
        PROVE  \E A \in SUBSET r.changes :
                   /\ Admissible(r, A) /\ Partly(meddled, r, files, A)
                   /\ r.pc \in Forward => A = Range(r.applied)
                   /\ r.pc \in Backward \cup {"failed"} => A = Range(r.todo)
    <3>1. PICK A \in SUBSET tx[p].changes :
                   /\ Admissible(tx[p], A) /\ Partly(meddled, tx[p], files, A)
                   /\ tx[p].pc \in Forward => A = Range(tx[p].applied)
                   /\ tx[p].pc \in Backward \cup {"failed"} => A = Range(tx[p].todo)
      BY <1>2, <2>2 DEF Underway
    <3>2. Admissible(r, A) /\ Partly(meddled, r, files, A) /\ A \in SUBSET r.changes
      BY <3>1 DEF Admissible, Removing, Partly, SamePlan, SameChanges
    <3> QED
      BY <3>1, <3>2
  <2>3. r.pc \in Forward => r.unreconciled = {}
    BY <1>2 DEF Underway
  <2> QED
    BY <1>2, <1>3, <2>1, <2>2, <2>3 DEF Underway, SamePlan, SameChanges, SameBooks
<1> QED
  BY <1>1, <1>4, <1>5, ToldStep DEF Drafted

-----------------------------------------------------------------------------
(* The steps. *)

LEMMA NothingPlaced ==
    ASSUME NEW r
    PROVE  Placed(r, <<>>) /\ Admissible(r, {}) /\ Range(<<>>) = {}
<1>1. Range(<<>>) = {} /\ DOMAIN <<>> = {}
  BY DEF Range
<1> QED
  BY <1>1 DEF Placed, Admissible

LEMMA AcquireTold ==
    ASSUME IInv, NEW F \in Histories, Told(F), NEW p \in Procs, Acquire(p)
    PROVE  Told(F)'
<1> DEFINE r == [tx[p] EXCEPT !.pc = "lock"]
<1>1. /\ tx[p].pc = "ready" /\ tx[p] \in Transaction /\ ~ backups[p].manifest
      /\ tx[p].todo = <<>>
  BY Known DEF Acquire, In, Orderly, NoBackup
<1>2. SamePlan(r, tx[p]) /\ r.todo = <<>> /\ r.pc = "lock"
  BY <1>1 DEF SamePlan, SameChanges, Transaction
<1>3. tx' = [tx EXCEPT ![p] = r]
  BY Known DEF Acquire, Goto
<1> HIDE DEF r
<1> QED
  BY <1>1, <1>2, <1>3, EarlyTold DEF Acquire, Planning, Asking

\* A process that ends, and does not hold the lease any more.
LEMMA EndTold ==
    ASSUME IInv, NEW F \in Histories, Told(F), NEW p \in Procs, NEW how \in Over, End(p, how),
           UNCHANGED <<backups, meddled>>,
           \/ UNCHANGED <<files, lock, lease>> /\ lease # p
           \/ /\ lease' = None
              /\ Vouched(backups, lock') /\ lock' \in MaybeLock
              /\ Agree(meddled, files', F[Writer(lock')])
    PROVE  Told(F)'
<1> DEFINE r == [NewTransaction EXCEPT !.pc = how]
<1>1. r.pc \notin Drafted /\ r.stale = {}
  BY DEF Planning, Drafted, Asking, Over, NewTransaction
<1>2. tx' = [tx EXCEPT ![p] = r] /\ backups' = [backups EXCEPT ![p] = backups[p]]
  BY Known DEF End
<1>3. SameBooks(backups[p], backups[p])
  BY DEF SameBooks
<1> HIDE DEF r
<1> QED
  BY <1>1, <1>2, <1>3, ToldStep DEF Drafted

LEMMA ContendTold ==
    ASSUME IInv, NEW F \in Histories, Told(F), NEW p \in Procs, Contend(p)
    PROVE  Told(F)'
<1>1. lease # p
  BY Known, InstallAssumption DEF Contend, In, IInv, Sound, Leased, Forward, Backward
<1> QED
  BY <1>1, EndTold DEF Contend, Over

LEMMA ReadLockTold ==
    ASSUME IInv, NEW F \in Histories, Told(F), NEW p \in Procs, ReadLock(p)
    PROVE  Told(F)'
<1> DEFINE there == IF lock = tx[p].expected THEN "check" ELSE "undo"
           r     == [tx[p] EXCEPT !.prior = lock, !.pc = there]
<1>1. tx[p].pc = "lock" /\ tx[p] \in Transaction /\ lease = p /\ ~ backups[p].manifest
  BY Known DEF ReadLock, In, Orderly, NoBackup, Leased, Forward
<1>2. SamePlan(r, tx[p]) /\ r.pc = there /\ r.todo = tx[p].todo
  BY <1>1 DEF SamePlan, SameChanges, Transaction
<1>3. tx' = [tx EXCEPT ![p] = r]
  BY Known DEF ReadLock
<1>4. tx[p].pc \in Planning /\ tx[p].todo = <<>>
  BY <1>1, Holder DEF Planning, Drafted, Asking, Underway
<1> HIDE DEF r
<1> QED
  BY <1>1, <1>2, <1>3, <1>4, EarlyTold DEF ReadLock, Asking

\* The catch block starts from what has been applied.
LEMMA ThrowTold ==
    ASSUME IInv, NEW F \in Histories, Told(F), NEW p \in Procs, tx[p].pc \in Forward, Throw(p),
           UNCHANGED <<files, lock, lease, backups, meddled>>
    PROVE  Told(F)'
<1> DEFINE r == [tx[p] EXCEPT !.pc = "undo", !.todo = tx[p].applied]
<1>1. tx[p] \in Transaction /\ lease = p
  BY Known DEF Leased
<1>2. /\ SamePlan(r, tx[p]) /\ r.pc = "undo" /\ r.todo = tx[p].applied /\ r.applied = tx[p].applied
      /\ r.unreconciled = tx[p].unreconciled
  BY <1>1 DEF SamePlan, SameChanges, Transaction
<1>3. tx' = [tx EXCEPT ![p] = r]
  BY Known DEF Throw
<1>4. r.pc \notin Drafted
  BY <1>2 DEF Planning, Drafted, Asking
<1> HIDE DEF r
<1>5. CASE ~ backups[p].manifest
  <2>1. tx[p].applied = <<>>
    BY <1>1, <1>5, Known DEF Sound, BackupSound
  <2> QED
    BY <1>1, <1>2, <1>3, <1>4, <1>5, <2>1, EarlyTold DEF Drafted
<1>6. CASE backups[p].manifest
  <2>1. Underway(F, meddled, tx[p], backups[p], files, lock) /\ Vouched(backups, lock)
        /\ r.stale \subseteq meddled
    BY <1>1, <1>2, Holder DEF SamePlan, SameChanges
  <2>2. PICK A \in SUBSET tx[p].changes :
           Admissible(tx[p], A) /\ Partly(meddled, tx[p], files, A) /\ A = Range(tx[p].applied)
    BY <1>6, <2>1 DEF Underway
  <2>3. Admissible(r, A) /\ Partly(meddled, r, files, A) /\ A \in SUBSET r.changes /\ A = Range(r.todo)
    BY <1>2, <2>2 DEF Admissible, Removing, Partly, SamePlan, SameChanges
  <2>4. Placed(r, r.applied) /\ Placed(r, r.todo)
    BY <1>2, <1>6, <2>1 DEF Underway, Placed, Removing, SamePlan, SameChanges
  <2>5. r.pc \notin Forward
    BY <1>2 DEF Forward
  <2>6. Underway(F, meddled, r, backups[p], files', lock')
    BY <1>2, <1>6, <2>1, <2>3, <2>4, <2>5 DEF Underway, SamePlan, SameChanges
  <2>7. backups' = [backups EXCEPT ![p] = backups[p]] /\ SameBooks(backups[p], backups[p])
        /\ lock' \in MaybeLock
    BY Known DEF SameBooks
  <2> QED
    BY <1>1, <1>3, <1>4, <2>1, <2>6, <2>7, ToldStep DEF Drafted
<1> QED
  BY <1>5, <1>6, Holder

LEMMA CheckFileTold ==
    ASSUME IInv, NEW F \in Histories, Told(F), NEW p \in Procs, CheckFile(p)
    PROVE  Told(F)'
<1>1. PICK x \in Planned(p) \ tx[p].checked :
         IF files[x] = tx[p].current[x]
         THEN tx' = [tx EXCEPT ![p].checked = @ \cup {x}]
         ELSE Throw(p)
  BY DEF CheckFile
<1>2. /\ tx[p].pc = "check" /\ tx[p] \in Transaction /\ lease = p /\ ~ backups[p].manifest
      /\ UNCHANGED <<files, lock, lease, backups, meddled>>
  BY Known DEF CheckFile, In, Orderly, NoBackup, Leased, Forward
<1>3. CASE files[x] # tx[p].current[x]
  BY <1>1, <1>2, <1>3, ThrowTold DEF Forward
<1>4. CASE files[x] = tx[p].current[x]
  <2> DEFINE r == [tx[p] EXCEPT !.checked = @ \cup {x}]
  <2>1. SamePlan(r, tx[p]) /\ r.pc = tx[p].pc /\ r.todo = <<>>
    BY <1>2, Holder DEF SamePlan, SameChanges, Transaction, Underway
  <2>2. tx' = [tx EXCEPT ![p] = r]
    BY <1>1, <1>4, Known
  <2> HIDE DEF r
  <2> QED
    BY <1>2, <2>1, <2>2, EarlyTold DEF Asking
<1> QED
  BY <1>3, <1>4

\* One more change, in the order of applyOrder.
LEMMA PlacedNext ==
    ASSUME NEW r, NEW s \in Seq(Paths), NEW x \in r.changes \ Range(s), x \in Paths,
           Range(s) \subseteq r.changes, Placed(r, s),
           Removing(r) /\ Config \in r.changes \ Range(s) => x = Config,
           ~ Removing(r) /\ x = Config => r.changes \ Range(s) = {Config}
    PROVE  Placed(r, Append(s, x)) /\ Admissible(r, Range(Append(s, x)))
<1> DEFINE t == Append(s, x)
<1>1. /\ DOMAIN t = 1..(Len(s) + 1) /\ DOMAIN s = 1..Len(s) /\ Len(s) \in Nat /\ Len(t) = Len(s) + 1
      /\ t[Len(s) + 1] = x /\ \A i \in 1..Len(s) : t[i] = s[i]
      /\ t # <<>>
  OBVIOUS
<1>2. Range(t) = Range(s) \cup {x}
  BY Appended
<1>3. \A i \in 1..Len(s) : s[i] \in Range(s)
  BY <1>1 DEF Range
<1> HIDE DEF t
<1>4. \A i \in DOMAIN t : i = Len(s) + 1 \/ i \in DOMAIN s
  BY <1>1
<1>5. \A i \in DOMAIN t, j \in DOMAIN t : t[i] = t[j] => i = j
  BY <1>1, <1>3, <1>4 DEF Placed
<1>6. ASSUME Removing(r), Config \in r.changes
      PROVE  t[1] = Config /\ Config \in Range(t)
  <2>1. CASE s = <<>>
    <3>1. Len(s) = 0 /\ Range(s) = {}
      BY <2>1 DEF Range
    <3> QED
      BY <1>1, <1>2, <1>6, <3>1
  <2>2. CASE s # <<>>
    <3>1. 1 \in 1..Len(s)
      BY <2>2, <1>1
    <3> QED
      BY <1>1, <1>2, <1>3, <1>6, <2>2, <3>1 DEF Placed
  <2> QED
    BY <2>1, <2>2
<1>7. ASSUME ~ Removing(r), NEW i \in DOMAIN t, t[i] = Config
      PROVE  i = Len(t) /\ r.changes \subseteq Range(t)
  <2>1. CASE i = Len(s) + 1
    BY <1>1, <1>2, <1>7, <2>1
  <2>2. CASE i \in DOMAIN s
    BY <1>1, <1>7, <2>2 DEF Placed
  <2> QED
    BY <1>4, <2>1, <2>2
<1>8. Placed(r, t)
  BY <1>5, <1>6, <1>7 DEF Placed
<1>9. Admissible(r, Range(t))
  <2>1. \A y \in Range(t) : \E i \in DOMAIN t : t[i] = y
    BY DEF Range
  <2> QED
    BY <1>2, <1>6, <1>7, <2>1 DEF Admissible
<1> QED
  BY <1>8, <1>9 DEF t

LEMMA ApplyFileTold ==
    ASSUME IInv, NEW F \in Histories, Told(F), NEW p \in Procs, ApplyFile(p)
    PROVE  Told(F)'
<1>1. PICK x \in NextInOrder(p) :
         /\ files' = [files EXCEPT ![x] = tx[p].desired[x]]
         /\ tx' = [tx EXCEPT ![p].applied = Append(@, x)]
  BY DEF ApplyFile
<1> DEFINE r == [tx[p] EXCEPT !.applied = Append(@, x)]
<1>2. /\ tx[p].pc = "apply" /\ lease = p /\ tx[p] \in Transaction /\ files \in [Paths -> MaybeContent]
      /\ UNCHANGED <<lock, lease, backups, meddled>> /\ lock \in MaybeLock
      /\ Sound(tx[p], backups[p], files, lock)
      /\ tx[p].changes \subseteq Paths
  BY Known DEF ApplyFile, In, Leased, Forward
<1>3. backups[p].manifest /\ Range(tx[p].applied) \subseteq tx[p].changes
  BY <1>2 DEF Sound, BackupSound
<1>4. /\ SamePlan(r, tx[p]) /\ r.pc = "apply" /\ r.todo = tx[p].todo
      /\ r.applied = Append(tx[p].applied, x) /\ r.unreconciled = tx[p].unreconciled
  BY <1>2 DEF SamePlan, SameChanges, Transaction
<1>5. tx' = [tx EXCEPT ![p] = r]
  BY <1>1, Known
<1> HIDE DEF r
<1>6. /\ Underway(F, meddled, tx[p], backups[p], files, lock) /\ Vouched(backups, lock)
      /\ r.stale \subseteq meddled
  BY <1>2, <1>4, Holder DEF SamePlan, SameChanges
<1>7. /\ x \in tx[p].changes \ Range(tx[p].applied)
      /\ Removing(tx[p]) /\ Config \in tx[p].changes \ Range(tx[p].applied) => x = Config
      /\ ~ Removing(tx[p]) /\ x = Config => tx[p].changes \ Range(tx[p].applied) = {Config}
  BY <1>1 DEF NextInOrder, Remaining, Changed, RemovesFiles, Removing
<1>8. /\ tx[p].applied \in Seq(Paths) /\ x \in Paths
      /\ Placed(tx[p], tx[p].applied) /\ Placed(tx[p], tx[p].todo)
  BY <1>2, <1>3, <1>6, <1>7 DEF Transaction, Underway
<1>9. /\ Placed(tx[p], r.applied) /\ Admissible(tx[p], Range(r.applied))
      /\ Range(r.applied) = Range(tx[p].applied) \cup {x}
  BY <1>3, <1>4, <1>7, <1>8, PlacedNext, Appended
<1>10. Placed(r, r.applied) /\ Placed(r, r.todo) /\ Admissible(r, Range(r.applied))
  BY <1>4, <1>8, <1>9 DEF Placed, Admissible, Removing, SamePlan, SameChanges
<1>11. tx[p].unreconciled = {} /\ Partly(meddled, tx[p], files, Range(tx[p].applied))
  BY <1>2, <1>3, <1>6 DEF Underway, Forward
<1>12. Partly(meddled, r, files', Range(r.applied))
  BY <1>1, <1>2, <1>4, <1>8, <1>9, <1>11 DEF Partly, SamePlan, SameChanges
<1>13. \A y \in (Paths \ meddled) \ r.changes : files'[y] = F[Writer(backups[p].priorLock)][y]
  BY <1>1, <1>2, <1>3, <1>4, <1>6, <1>7 DEF Underway, SamePlan, SameChanges
<1>14. Range(r.applied) \in SUBSET r.changes /\ r.pc \notin Drafted /\ r.pc \notin Backward \cup {"failed"}
  BY <1>3, <1>4, <1>7, <1>9 DEF SamePlan, SameChanges, Planning, Drafted, Asking, Backward
<1>15. Underway(F, meddled, r, backups[p], files', lock')
  <2>1. \E A \in SUBSET r.changes :
                   /\ Admissible(r, A) /\ Partly(meddled, r, files', A)
                   /\ r.pc \in Forward => A = Range(r.applied)
                   /\ r.pc \in Backward \cup {"failed"} => A = Range(r.todo)
    BY <1>10, <1>12, <1>14
  <2> QED
    BY <1>2, <1>3, <1>4, <1>6, <1>10, <1>11, <1>13, <2>1 DEF Underway, SamePlan, SameChanges
<1>16. backups' = [backups EXCEPT ![p] = backups[p]] /\ SameBooks(backups[p], backups[p])
  BY <1>2, Known DEF SameBooks
<1> QED
  BY <1>2, <1>5, <1>6, <1>14, <1>15, <1>16, ToldStep DEF Drafted

LEMMA FailTold ==
    ASSUME IInv, NEW F \in Histories, Told(F), NEW p \in Procs, Fail(p)
    PROVE  Told(F)'
BY ThrowTold DEF Fail

\* The holder of the lease goes on to another point of its work.
LEMMA GotoTold ==
    ASSUME IInv, NEW F \in Histories, Told(F), NEW p \in Procs, NEW where, Goto(p, where),
           backups[p].manifest, lease = p,
           NEW b, SameBooks(b, backups[p]), backups' = [backups EXCEPT ![p] = b],
           UNCHANGED <<files, lock, lease, meddled>>,
           where \notin Drafted,
           where \in Forward => tx[p].pc \in Forward,
           where \in Backward \cup {"failed"} => tx[p].pc \in Backward \cup {"failed"}
    PROVE  Told(F)'
<1> DEFINE r == [tx[p] EXCEPT !.pc = where]
<1>1. tx[p] \in Transaction
  BY Known
<1>2. /\ SamePlan(r, tx[p]) /\ r.pc = where /\ r.todo = tx[p].todo /\ r.applied = tx[p].applied
      /\ r.unreconciled = tx[p].unreconciled
  BY <1>1 DEF SamePlan, SameChanges, Transaction
<1>3. tx' = [tx EXCEPT ![p] = r]
  BY Known DEF Goto
<1> HIDE DEF r
<1> QED
  BY <1>2, <1>3, OnwardTold

LEMMA VerifyTold ==
    ASSUME IInv, NEW F \in Histories, Told(F), NEW p \in Procs, Verify(p)
    PROVE  Told(F)'
<1>1. /\ tx[p].pc = "apply" /\ lease = p /\ backups[p].manifest
      /\ UNCHANGED <<files, lock, lease, backups, meddled>>
  BY Known DEF Verify, In, Leased, Forward, Sound, BackupSound
<1>2. CASE Throw(p)
  BY <1>1, <1>2, ThrowTold DEF Forward
<1>3. CASE Goto(p, "commit")
  <2>1. backups' = [backups EXCEPT ![p] = backups[p]] /\ SameBooks(backups[p], backups[p])
    BY <1>1, Known DEF SameBooks
  <2>2. /\ "commit" \notin Drafted /\ tx[p].pc \in Forward
        /\ "commit" \notin Backward \cup {"failed"}
    BY <1>1 DEF Planning, Drafted, Asking, Forward, Backward
  <2> QED
    BY <1>1, <1>3, <2>1, <2>2, GotoTold
<1> QED
  BY <1>2, <1>3 DEF Verify

LEMMA CommitLockTold ==
    ASSUME IInv, NEW F \in Histories, Told(F), NEW p \in Procs, CommitLock(p)
    PROVE  Told(F)'
<1> DEFINE changed == tx[p].goal # None \/ tx[p].prior # None
           r       == [tx[p] EXCEPT !.pc = "complete", !.lockChanged = changed]
<1>1. /\ tx[p].pc = "commit" /\ lease = p /\ backups[p].manifest /\ tx[p] \in Transaction
      /\ UNCHANGED <<files, lease, backups, meddled>>
  BY Known DEF CommitLock, In, Leased, Forward, Sound, BackupSound
<1>2. /\ SamePlan(r, tx[p]) /\ r.pc = "complete" /\ r.todo = tx[p].todo /\ r.applied = tx[p].applied
      /\ r.unreconciled = tx[p].unreconciled
  BY <1>1 DEF SamePlan, SameChanges, Transaction
<1>3. tx' = [tx EXCEPT ![p] = r]
  BY Known DEF CommitLock
<1> HIDE DEF r
<1>4. lock' = backups[p].resultLock
  BY <1>1, Holder DEF Underway, CommitLock
<1>5. backups' = [backups EXCEPT ![p] = backups[p]] /\ SameBooks(backups[p], backups[p])
  BY <1>1, Known DEF SameBooks
<1> QED
  BY <1>1, <1>2, <1>3, <1>4, <1>5, OnwardTold DEF Planning, Drafted, Asking, Forward, Backward

LEMMA CompleteTold ==
    ASSUME IInv, NEW F \in Histories, Told(F), NEW p \in Procs, Complete(p)
    PROVE  Told(F)'
<1> DEFINE b == [backups[p] EXCEPT !.completed = TRUE]
<1>1. /\ tx[p].pc = "complete" /\ lease = p /\ backups[p].manifest
  BY Known DEF Complete, In, Leased, Forward, Sound, BackupSound
<1>2. SameBooks(b, backups[p])
  BY Known DEF SameBooks, Backup
<1>3. backups' = [backups EXCEPT ![p] = b]
  BY Known DEF Complete
<1> HIDE DEF b
<1>4. Goto(p, "release") /\ UNCHANGED <<files, lock, lease, meddled>>
  BY DEF Complete
<1>5. /\ "release" \notin Drafted /\ tx[p].pc \in Forward
      /\ "release" \notin Backward \cup {"failed"}
  BY <1>1 DEF Planning, Drafted, Asking, Forward, Backward
<1> QED
  BY <1>1, <1>2, <1>3, <1>4, <1>5, GotoTold

\* All is applied and lock.json says so: the files are those it left.
LEMMA ReleaseTold ==
    ASSUME IInv, NEW F \in Histories, Told(F), NEW p \in Procs, Release(p)
    PROVE  Told(F)'
<1>1. /\ tx[p].pc = "release" /\ lease = p /\ backups[p].manifest
      /\ UNCHANGED <<files, lock, backups, meddled>> /\ lease' = None
      /\ lock = tx[p].goal /\ Range(tx[p].applied) = tx[p].changes /\ tx[p].changes \subseteq Paths
      /\ backups[p].before = Restrict(tx[p].current, tx[p].changes)
      /\ lock \in MaybeLock
  BY Known DEF Release, In, Leased, Forward, Sound, BackupSound, LockSound
<1>2. /\ Underway(F, meddled, tx[p], backups[p], files, lock) /\ Vouched(backups, lock)
      /\ BackupTrue(F, meddled, backups, backups[p])
  BY <1>1, Holder
<1>3. Partly(meddled, tx[p], files, tx[p].changes) /\ backups[p].resultLock = lock
      /\ backups[p].after = Restrict(tx[p].desired, tx[p].changes)
      /\ \A x \in (Paths \ meddled) \ tx[p].changes : files[x] = F[Writer(backups[p].priorLock)][x]
  BY <1>1, <1>2 DEF Underway, Forward
<1>4. DOMAIN backups[p].before = tx[p].changes
      /\ \A x \in tx[p].changes : backups[p].after[x] = tx[p].desired[x]
  BY <1>1, <1>3 DEF Restrict
<1>5. Agree(meddled, files, F[Writer(lock)])
  BY <1>2, <1>3, <1>4 DEF Agree, Partly, BackupTrue, Turns
<1> QED
  BY <1>1, <1>2, <1>5, EndTold DEF Release, Over

\* The last change still to be undone.
LEMMA PlacedLess ==
    ASSUME NEW r, NEW s \in Seq(Paths), s # <<>>, Placed(r, s)
    PROVE  /\ Placed(r, AllButLast(s)) /\ Admissible(r, Range(AllButLast(s)))
           /\ s[Len(s)] \notin Range(AllButLast(s))
           /\ Range(s) = Range(AllButLast(s)) \cup {s[Len(s)]}
<1> DEFINE t == AllButLast(s)
<1>0. Len(s) \in Nat \ {0} /\ DOMAIN s = 1..Len(s)
  OBVIOUS
<1>1. /\ t \in Seq(Paths)
      /\ DOMAIN t = 1..(Len(s) - 1) /\ DOMAIN s = 1..Len(s) /\ Len(s) \in Nat \ {0}
      /\ \A i \in 1..(Len(s) - 1) : t[i] = s[i]
  BY <1>0 DEF AllButLast
<1>2. /\ \A y \in Range(t) : \E i \in DOMAIN t : t[i] = y
      /\ \A i \in DOMAIN t : t[i] \in Range(t)
  BY DEF Range
<1>3. t = <<>> => Range(t) = {}
  BY DEF Range
<1>4. Range(s) = Range(t) \cup {s[Len(s)]}
  BY Popped
<1> HIDE DEF t
<1>5. \A i \in DOMAIN t, j \in DOMAIN t : t[i] = t[j] => i = j
  BY <1>1 DEF Placed
<1>6. s[Len(s)] \notin Range(t)
  <2> SUFFICES ASSUME NEW i \in DOMAIN t, t[i] = s[Len(s)] PROVE FALSE
    BY <1>2
  <2>1. i \in DOMAIN s /\ Len(s) \in DOMAIN s /\ s[i] = s[Len(s)] /\ i # Len(s)
    BY <1>1
  <2> QED
    BY <2>1 DEF Placed
<1>7. ASSUME Removing(r), Config \in r.changes, t # <<>>
      PROVE  t[1] = Config /\ Config \in Range(t)
  <2>1. 1 \in DOMAIN t
    BY <1>1, <1>7
  <2>2. t[1] = s[1] /\ s # <<>>
    BY <1>1, <2>1
  <2> QED
    BY <1>2, <1>7, <2>1, <2>2 DEF Placed
<1>8. ASSUME ~ Removing(r), NEW i \in DOMAIN t, t[i] = Config
      PROVE  FALSE
  <2>1. i \in DOMAIN s /\ s[i] = Config /\ i # Len(s)
    BY <1>1, <1>8
  <2> QED
    BY <1>8, <2>1 DEF Placed
<1>9. Placed(r, t)
  BY <1>5, <1>7, <1>8 DEF Placed
<1>10. Admissible(r, Range(t))
  BY <1>2, <1>3, <1>7, <1>8 DEF Admissible
<1> QED
  BY <1>4, <1>6, <1>9, <1>10 DEF t

\* One change undone, or not: then the rollback is no longer complete.
LEMMA UndoTold ==
    ASSUME IInv, NEW F \in Histories, Told(F), NEW p \in Procs, UndoFile(p) \/ UndoFileFails(p)
    PROVE  Told(F)'
<1> DEFINE y == Undone(p)
           less == AllButLast(tx[p].todo)
           left == IF UndoFile(p) THEN tx[p].unreconciled ELSE tx[p].unreconciled \cup {y}
           r == [tx[p] EXCEPT !.todo = less, !.unreconciled = left]
<1>1. /\ tx[p].pc = "undo" /\ lease = p /\ tx[p].todo # <<>>
      /\ tx[p] \in Transaction /\ files \in [Paths -> MaybeContent] /\ lock \in MaybeLock
      /\ UNCHANGED <<lock, lease, backups, meddled>>
      /\ tx[p].changes \subseteq Paths
      /\ Sound(tx[p], backups[p], files, lock) /\ tx[p].todo \in Seq(Paths)
      /\ backups[p].manifest \in BOOLEAN
  BY Known DEF UndoFile, UndoFileFails, In, Leased, Backward, Transaction, Backup
<1>2. y \in tx[p].changes /\ y \in Paths /\ Range(tx[p].todo) \subseteq tx[p].changes
  BY <1>1, Popped DEF Undone, Sound
<1>3. /\ SamePlan(r, tx[p]) /\ r.pc = "undo" /\ r.todo = less /\ r.applied = tx[p].applied
      /\ r.unreconciled = left
  BY <1>1 DEF SamePlan, SameChanges, Transaction
<1>4. tx' = [tx EXCEPT ![p] = r]
  <2>1. CASE UndoFile(p)
    BY <2>1, <1>1, Known DEF UndoFile, Transaction
  <2>2. CASE UndoFileFails(p) /\ ~ UndoFile(p)
    BY <2>2, Known DEF UndoFileFails
  <2> QED
    BY <2>1, <2>2
<1>5. /\ \A x \in Paths \ {y} : files'[x] = files[x]
      /\ left = {} => files'[y] = tx[p].current[y] /\ tx[p].unreconciled = {}
  BY <1>1, <1>2 DEF UndoFile, UndoFileFails
<1> HIDE DEF r, left
<1>6. /\ Underway(F, meddled, tx[p], backups[p], files, lock) /\ Vouched(backups, lock)
      /\ r.stale \subseteq meddled
  BY <1>1, <1>3, Holder DEF SamePlan, SameChanges
<1>7. backups' = [backups EXCEPT ![p] = backups[p]] /\ SameBooks(backups[p], backups[p])
  BY <1>1, Known DEF SameBooks
<1>8. backups[p].manifest
  BY <1>1, <1>6 DEF Underway
<1>9. /\ Placed(tx[p], less) /\ Admissible(tx[p], Range(less)) /\ y \notin Range(less)
      /\ Range(tx[p].todo) = Range(less) \cup {y}
  BY <1>1, <1>6, <1>8, PlacedLess DEF Underway, Undone
<1>10. Placed(r, r.applied) /\ Placed(r, r.todo) /\ Admissible(r, Range(r.todo))
  BY <1>3, <1>6, <1>8, <1>9 DEF Placed, Admissible, Removing, SamePlan, SameChanges, Underway
<1>11. ASSUME r.unreconciled = {}
       PROVE  Partly(meddled, r, files', Range(r.todo))
  <2>1. Partly(meddled, tx[p], files, Range(tx[p].todo))
    BY <1>1, <1>3, <1>5, <1>6, <1>8, <1>11 DEF Underway, Backward
  <2> QED
    BY <1>1, <1>2, <1>3, <1>5, <1>9, <1>11, <2>1 DEF Partly, SamePlan, SameChanges
<1>12. \A x \in (Paths \ meddled) \ r.changes : files'[x] = F[Writer(backups[p].priorLock)][x]
  BY <1>2, <1>3, <1>5, <1>6, <1>8 DEF Underway, SamePlan, SameChanges
<1>13. Range(r.todo) \in SUBSET r.changes /\ r.pc \notin Drafted /\ r.pc \notin Forward
  BY <1>2, <1>3, <1>9 DEF SamePlan, SameChanges, Planning, Drafted, Asking, Forward
<1>14. Underway(F, meddled, r, backups[p], files', lock')
  <2>1. r.unreconciled = {} =>
          \E A \in SUBSET r.changes :
                   /\ Admissible(r, A) /\ Partly(meddled, r, files', A)
                   /\ r.pc \in Forward => A = Range(r.applied)
                   /\ r.pc \in Backward \cup {"failed"} => A = Range(r.todo)
    BY <1>10, <1>11, <1>13
  <2> QED
    BY <1>1, <1>3, <1>6, <1>8, <1>10, <1>12, <1>13, <2>1 DEF Underway, SamePlan, SameChanges
<1> QED
  BY <1>1, <1>4, <1>6, <1>7, <1>13, <1>14, ToldStep DEF Drafted

\* A step of the rollback, or a death, that leaves the files alone.
LEMMA MoveTold ==
    ASSUME IInv, NEW F \in Histories, Told(F), NEW p \in Procs, NEW r, NEW b,
           tx' = [tx EXCEPT ![p] = r], backups' = [backups EXCEPT ![p] = b],
           SameBooks(b, backups[p]), lease = p,
           UNCHANGED <<files, lease, meddled>>,
           lock' = lock \/ (backups[p].manifest /\ lock' = backups[p].priorLock),
           SamePlan(r, tx[p]), r.applied = tx[p].applied, r.todo = tx[p].todo,
           r.pc \notin Drafted \cup Forward,
           r.unreconciled = {} => tx[p].unreconciled = {},
           r.pc \in Backward \cup {"failed"} => tx[p].pc \in Backward \cup {"failed"}
    PROVE  Told(F)'
<1>1. CASE backups[p].manifest
  BY <1>1, OnwardTold
<1>2. CASE ~ backups[p].manifest
  <2>1. tx[p].todo = <<>> /\ Agree(meddled, files, F[Writer(lock)])
    BY <1>2, Holder DEF Underway
  <2>2. Underway(F, meddled, r, b, files', lock')
    BY <1>2, <2>1 DEF Underway, SameBooks
  <2>3. r.stale \subseteq meddled /\ Vouched(backups, lock') /\ lock' \in MaybeLock
    BY <1>2, Holder, Known DEF SamePlan, SameChanges
  <2> QED
    BY <2>2, <2>3, ToldStep DEF Drafted
<1> QED
  BY <1>1, <1>2, Holder

LEMMA UndoLockTold ==
    ASSUME IInv, NEW F \in Histories, Told(F), NEW p \in Procs, UndoLock(p) \/ UndoLockFails(p)
    PROVE  Told(F)'
<1> DEFINE left == IF UndoLock(p) THEN tx[p].unreconciled ELSE tx[p].unreconciled \cup {"lock.json"}
           r == [tx[p] EXCEPT !.pc = "record", !.unreconciled = left]
<1>1. /\ tx[p].pc = "undo" /\ lease = p /\ tx[p] \in Transaction
      /\ UNCHANGED <<files, lease, backups, meddled>>
      /\ Sound(tx[p], backups[p], files, lock)
      /\ tx[p].lockChanged \in BOOLEAN /\ backups[p].manifest \in BOOLEAN
  BY Known DEF UndoLock, UndoLockFails, In, Leased, Backward, Transaction, Backup
<1>2. tx[p].lockChanged => backups[p].manifest /\ backups[p].priorLock = tx[p].prior
  BY <1>1 DEF Sound, BackupSound
<1>3. lock' = lock \/ (backups[p].manifest /\ lock' = backups[p].priorLock)
  BY <1>1, <1>2 DEF UndoLock, UndoLockFails
<1>4. /\ SamePlan(r, tx[p]) /\ r.pc = "record" /\ r.todo = tx[p].todo /\ r.applied = tx[p].applied
      /\ r.unreconciled = left
  BY <1>1 DEF SamePlan, SameChanges, Transaction
<1>5. tx' = [tx EXCEPT ![p] = r]
  <2>1. CASE UndoLock(p)
    BY <2>1, <1>1, Known DEF UndoLock, Goto, Transaction
  <2>2. CASE UndoLockFails(p) /\ ~ UndoLock(p)
    BY <2>2, Known DEF UndoLockFails
  <2> QED
    BY <2>1, <2>2
<1>6. left = {} => tx[p].unreconciled = {}
  OBVIOUS
<1>7. backups' = [backups EXCEPT ![p] = backups[p]] /\ SameBooks(backups[p], backups[p])
  BY <1>1, Known DEF SameBooks
<1>8. "record" \notin Drafted \cup Forward /\ tx[p].pc \in Backward \cup {"failed"}
  BY <1>1 DEF Planning, Drafted, Asking, Forward, Backward
<1> HIDE DEF r, left
<1> QED
  BY <1>1, <1>3, <1>4, <1>5, <1>6, <1>7, <1>8, MoveTold

LEMMA RecordTold ==
    ASSUME IInv, NEW F \in Histories, Told(F), NEW p \in Procs, Record(p) \/ RecordFails(p)
    PROVE  Told(F)'
<1> DEFINE left == IF Record(p) THEN tx[p].unreconciled ELSE tx[p].unreconciled \cup {"recovery.json"}
           r == [tx[p] EXCEPT !.pc = "free", !.unreconciled = left]
<1>1. /\ tx[p].pc = "record" /\ lease = p /\ tx[p] \in Transaction
      /\ UNCHANGED <<files, lock, lease, meddled>>
      /\ backups[p] \in Backup
  BY Known DEF Record, RecordFails, In, Leased, Backward
<1>2. PICK b : backups' = [backups EXCEPT ![p] = b] /\ SameBooks(b, backups[p])
  <2> DEFINE c == [backups[p] EXCEPT !.recovery = RecoveryStatus(p)]
  <2>1. SameBooks(c, backups[p]) /\ SameBooks(backups[p], backups[p])
    BY <1>1 DEF SameBooks, Backup
  <2>2. backups = [backups EXCEPT ![p] = backups[p]]
        /\ [backups EXCEPT ![p].recovery = RecoveryStatus(p)] = [backups EXCEPT ![p] = c]
    BY Known
  <2>3. backups' \in {backups, [backups EXCEPT ![p].recovery = RecoveryStatus(p)]}
    BY DEF Record, RecordFails
  <2> HIDE DEF c
  <2> QED
    BY <2>1, <2>2, <2>3
<1>3. /\ SamePlan(r, tx[p]) /\ r.pc = "free" /\ r.todo = tx[p].todo /\ r.applied = tx[p].applied
      /\ r.unreconciled = left
  BY <1>1 DEF SamePlan, SameChanges, Transaction
<1>4. tx' = [tx EXCEPT ![p] = r]
  <2>1. CASE Record(p)
    BY <2>1, <1>1, Known DEF Record, Goto, Transaction
  <2>2. CASE RecordFails(p) /\ ~ Record(p)
    BY <2>2, Known DEF RecordFails
  <2> QED
    BY <2>1, <2>2
<1>5. left = {} => tx[p].unreconciled = {}
  OBVIOUS
<1>6. "free" \notin Drafted \cup Forward /\ tx[p].pc \in Backward \cup {"failed"}
  BY <1>1 DEF Planning, Drafted, Asking, Forward, Backward
<1> HIDE DEF r, left
<1> QED
  BY <1>1, <1>2, <1>3, <1>4, <1>5, <1>6, MoveTold

\* It stops where it is, and the lease stays.
LEMMA StopTold ==
    ASSUME IInv, NEW F \in Histories, Told(F), NEW p \in Procs, NEW where \in {"failed", "dead"},
           Goto(p, where), lease = p, UNCHANGED <<files, lock, lease, backups, meddled>>,
           where = "failed" => tx[p].pc \in Backward
    PROVE  Told(F)'
<1> DEFINE r == [tx[p] EXCEPT !.pc = where]
<1>1. tx[p] \in Transaction
  BY Known
<1>2. /\ SamePlan(r, tx[p]) /\ r.pc = where /\ r.todo = tx[p].todo /\ r.applied = tx[p].applied
      /\ r.unreconciled = tx[p].unreconciled
  BY <1>1 DEF SamePlan, SameChanges, Transaction
<1>3. tx' = [tx EXCEPT ![p] = r]
  BY Known DEF Goto
<1>4. backups' = [backups EXCEPT ![p] = backups[p]] /\ SameBooks(backups[p], backups[p])
  BY Known DEF SameBooks
<1>5. /\ where \notin Drafted \cup Forward
      /\ where \in Backward \cup {"failed"} => tx[p].pc \in Backward \cup {"failed"}
  BY DEF Planning, Drafted, Asking, Forward, Backward
<1> HIDE DEF r
<1> QED
  BY <1>2, <1>3, <1>4, <1>5, MoveTold

LEMMA CrashTold ==
    ASSUME IInv, NEW F \in Histories, Told(F), NEW p \in Procs, Crash(p)
    PROVE  Told(F)'
<1>1. lease = p
  BY Known DEF Crash, Leased
<1> QED
  BY <1>1, StopTold DEF Crash

\* Everything is back where it was, when the lease goes.
LEMMA FreeTold ==
    ASSUME IInv, NEW F \in Histories, Told(F), NEW p \in Procs, Free(p)
    PROVE  Told(F)'
<1>1. /\ tx[p].pc = "free" /\ lease = p /\ UNCHANGED <<files, lock, backups, meddled>>
      /\ Sound(tx[p], backups[p], files, lock) /\ lock \in MaybeLock
  BY Known DEF Free, In, Leased, Backward
<1>2. CASE lease' = lease /\ Goto(p, "failed")
  BY <1>1, <1>2, StopTold DEF Backward
<1>3. CASE tx[p].unreconciled = {} /\ lease' = None /\ End(p, "failed")
  <2>1. /\ Underway(F, meddled, tx[p], backups[p], files, lock) /\ Vouched(backups, lock)
        /\ backups[p].manifest => BackupTrue(F, meddled, backups, backups[p])
        /\ backups[p].manifest \in BOOLEAN
    BY <1>1, Holder
  <2>2. CASE ~ backups[p].manifest
    BY <1>1, <1>3, <2>1, <2>2, EndTold DEF Underway, Over
  <2>3. CASE backups[p].manifest
    <3>1. /\ backups[p].before = Restrict(tx[p].current, tx[p].changes)
          /\ lock = backups[p].priorLock /\ tx[p].todo = <<>>
      BY <1>1, <1>3, <2>3 DEF Sound, BackupSound, LockSound
    <3>2. Partly(meddled, tx[p], files, {})
      BY <1>1, <1>3, <2>1, <2>3, <3>1, NothingPlaced DEF Underway, Backward
    <3>3. /\ DOMAIN backups[p].before = tx[p].changes
          /\ \A x \in tx[p].changes : backups[p].before[x] = tx[p].current[x]
      BY <3>1 DEF Restrict
    <3>4. \A x \in (Paths \ meddled) \ tx[p].changes : files[x] = F[Writer(lock)][x]
      BY <2>1, <2>3, <3>1 DEF Underway
    <3>5. Agree(meddled, files, F[Writer(lock)])
      BY <2>1, <2>3, <3>1, <3>2, <3>3, <3>4 DEF Agree, Partly, BackupTrue, Turns
    <3> QED
      BY <1>1, <1>3, <2>1, <3>5, EndTold DEF Over
  <2> QED
    BY <2>1, <2>2, <2>3
<1> QED
  BY <1>2, <1>3 DEF Free

\* The person puts back the snapshots and the lock of the manifest.
LEMMA ReconcileTold ==
    ASSUME IInv, NEW F \in Histories, Told(F), NEW p \in Procs, Reconcile(p)
    PROVE  Told(F)'
<1>1. /\ lease = p /\ lease' = None /\ tx[p].pc \in Over /\ End(p, tx[p].pc)
      /\ UNCHANGED <<backups, meddled>>
      /\ files' = [x \in Paths |-> IF x \in DOMAIN backups[p].before
                                  THEN backups[p].before[x] ELSE files[x]]
      /\ lock' = IF backups[p].manifest THEN backups[p].priorLock ELSE lock
      /\ lock \in MaybeLock /\ Sound(tx[p], backups[p], files, lock)
  BY Known DEF Reconcile
<1>2. /\ Underway(F, meddled, tx[p], backups[p], files, lock) /\ Vouched(backups, lock)
      /\ backups[p].manifest => BackupTrue(F, meddled, backups, backups[p])
      /\ backups[p].manifest \in BOOLEAN /\ backups[p] \in Backup
  BY <1>1, Holder
<1>3. CASE ~ backups[p].manifest
  <2>1. DOMAIN backups[p].before = {}
    BY <1>1, <1>3 DEF Sound, BackupSound
  <2>2. Agree(meddled, files', F[Writer(lock')])
    BY <1>1, <1>2, <1>3, <2>1 DEF Underway, Agree
  <2> QED
    BY <1>1, <1>2, <1>3, <2>2, EndTold
<1>4. CASE backups[p].manifest
  <2>1. lock' \in MaybeLock /\ Vouched(backups, lock') /\ lock' = backups[p].priorLock
    BY <1>1, <1>2, <1>4 DEF BackupTrue, Backup
  <2>2. DOMAIN backups[p].before = tx[p].changes
    BY <1>1, <1>4 DEF Sound, BackupSound, Restrict
  <2>3. Agree(meddled, files', F[Writer(lock')])
    BY <1>1, <1>2, <1>4, <2>1, <2>2 DEF Underway, Agree, BackupTrue, Turns
  <2> QED
    BY <1>1, <2>1, <2>3, EndTold
<1> QED
  BY <1>2, <1>3, <1>4

-----------------------------------------------------------------------------
(* Planning. *)

\* A step of the planning, and the entry into the apply.
LEMMA DraftTold ==
    ASSUME IInv, NEW F \in Histories, Told(F), NEW p \in Procs, tx[p].pc \in {"new"} \cup Asking,
           NEW r, Draft(p, r), r.stale = tx[p].stale,
           r.pc \in Planning => PlanTrue(F, meddled, backups, p, r),
           r.pc \in Asking => Outlined(backups, r)
    PROVE  Told(F)'
<1>1. lease # p
  BY Known DEF IInv, Sound, Leased, Forward, Backward, Asking
<1>2. tx' = [tx EXCEPT ![p] = r] /\ UNCHANGED <<files, lock, lease, backups, meddled>>
  BY DEF Draft
<1>3. backups' = [backups EXCEPT ![p] = backups[p]] /\ SameBooks(backups[p], backups[p])
  BY <1>2, Known DEF SameBooks
<1>4. r.stale \subseteq meddled
  BY Holder
<1> QED
  BY <1>1, <1>2, <1>3, <1>4, ToldStep

LEMMA FailsTold ==
    ASSUME IInv, NEW F \in Histories, Told(F), NEW p \in Procs, tx[p].pc \in Asking, Fails(p)
    PROVE  Told(F)'
<1>1. lease # p
  BY Known DEF IInv, Sound, Leased, Forward, Backward, Asking
<1>2. End(p, "failed") /\ UNCHANGED <<files, lock, lease, backups, meddled>>
  BY DEF Fails, Draft, End
<1> QED
  BY <1>1, <1>2, EndTold DEF Over

\* What is in lock.json has a digest, every catalog ships it, and the plugins
\* in it are among its components unless that was ever narrowed.
LEMMA InstalledAccounted ==
    ASSUME IInv, NEW F \in Histories, Told(F)
    PROVE  /\ Closed(Installed) /\ DOMAIN Installed \subseteq Paths
           /\ lock # None => Installed = lock.installed
           /\ Vouched(backups, lock) /\ lock \in MaybeLock
           /\ ~ EverNarrowed => ~ Narrowed(lock)
<1>1. lock \in MaybeLock /\ Vouched(backups, lock) /\ History(F, meddled, backups, tx)
  BY DEF IInv, TypeOK, Told, Present
<1>2. Accounted(meddled, F[Writer(lock)], lock)
  BY <1>1, SettledIsAccounted
<1>3. DOMAIN Installed \subseteq Paths
  BY InstalledTyped
<1>4. Closed(Installed) /\ (lock # None => Installed = lock.installed)
  BY <1>2 DEF Accounted, Installed, NoFiles, Closed
<1>5. ASSUME Narrowed(lock)
      PROVE  EverNarrowed
  BY <1>1, <1>5, WriterTyped DEF Narrowed, EverNarrowed, Vouched
<1> QED
  BY <1>1, <1>3, <1>4, <1>5

LEMMA PlanInstallTold ==
    ASSUME SteadyCatalog, IInv, NEW F \in Histories, Told(F), NEW p \in Procs, PlanInstall(p)
    PROVE  Told(F)'
<1> DEFINE dropped(release)    == DOMAIN Installed \ release.ships
           collisions(release) == {x \in DOMAIN release.wants \ DOMAIN Installed : x # Config /\ files[x] # None}
           desired(release, preserved) ==
               [x \in DOMAIN release.wants \cup dropped(release) |->
                   IF x \in dropped(release) THEN None
                   ELSE IF x \in preserved THEN files[x] ELSE release.wants[x]]
           draft(release, preserved) ==
               [tx[p] EXCEPT
                  !.pc          = "planned",
                  !.kind        = "install",
                  !.components  = release.components,
                  !.wants       = release.wants,
                  !.current     = Restrict(files, DOMAIN desired(release, preserved)),
                  !.desired     = desired(release, preserved),
                  !.overwritten = collisions(release) \ preserved,
                  !.preserved   = preserved,
                  !.changes     = dropped(release) \cup (collisions(release) \ preserved)
                                     \cup {x \in DOMAIN release.wants : files[x] # desired(release, preserved)[x]}]
<1>1. PICK release \in Releases : \E preserved \in SUBSET collisions(release) : Draft(p, draft(release, preserved))
  BY DEF PlanInstall
<1>2. PICK preserved \in SUBSET collisions(release) : Draft(p, draft(release, preserved))
  BY <1>1
<1> DEFINE wants == release.wants
           then  == desired(release, preserved)
           r     == draft(release, preserved)
<1>3. tx[p] \in Transaction /\ tx[p].pc = "new"
  BY Known DEF PlanInstall, In
<1>4. dropped(release) = {}
  BY InstalledAccounted DEF Closed
<1>5. DOMAIN then = DOMAIN wants /\ \A x \in DOMAIN wants : then[x] = IF x \in preserved THEN files[x] ELSE wants[x]
  BY <1>4
<1>6. /\ Config \notin preserved
      /\ \A x \in DOMAIN wants : wants[x] # None /\ then[x] # None /\ \A other \in Releases : x \in other.ships
  BY <1>5, CatalogTyped DEF SteadyCatalog
<1>7. /\ Config \in DOMAIN wants => Registers[wants[Config]] \subseteq DOMAIN wants
      /\ DOMAIN wants \cap Registrable # {} => Config \in DOMAIN wants
  BY DEF SteadyCatalog
<1>8. /\ r.pc = "planned" /\ r.kind = "install" /\ r.wants = wants
      /\ r.current = Restrict(files, DOMAIN then) /\ r.desired = then
      /\ r.preserved = preserved /\ r.stale = tx[p].stale
      /\ r.changes \subseteq DOMAIN wants
  BY <1>3, <1>4, <1>5 DEF Transaction
<1>9. DOMAIN r.current = DOMAIN wants
  BY <1>5, <1>8 DEF Restrict
<1>10. Draft(p, r)
  BY <1>2
<1> HIDE DEF r, then, wants
<1>11. Config \in r.changes => Registers[r.desired[Config]] \subseteq DOMAIN wants
  BY <1>5, <1>6, <1>7, <1>8
<1>12. Bringing(backups, r)
  BY <1>6, <1>7, <1>8, <1>9, <1>11 DEF Bringing
<1> QED
  BY <1>3, <1>8, <1>10, <1>12, DraftTold DEF Outlined, Planning

LEMMA PrepareUpdateTold ==
    ASSUME IInv, NEW F \in Histories, Told(F), NEW p \in Procs, PrepareUpdate(p)
    PROVE  Told(F)'
<1> DEFINE t       == tx[p]
           owned   == DOMAIN t.wants \cap DOMAIN Installed
           differs == {x \in owned : t.current[x] # t.wants[x]}
           then(kept) == [x \in DOMAIN t.current |-> IF x \in kept THEN t.current[x]
                                                   ELSE IF x \in owned THEN t.wants[x]
                                                   ELSE t.desired[x]]
           draft(kept) == [t EXCEPT !.kind        = "update",
                                    !.desired     = then(kept),
                                    !.overwritten = @ \ owned,
                                    !.preserved   = @ \ owned,
                                    !.changes     = (@ \ owned) \cup (differs \ kept),
                                    !.expected    = lock]
<1>1. PICK kept \in SUBSET differs : Draft(p, draft(kept))
  BY DEF PrepareUpdate
<1> DEFINE r == draft(kept)
<1>2. /\ t \in Transaction /\ t.pc = "planned" /\ t.kind = "install" /\ Vouched(backups, lock)
      /\ \A x \in owned : t.current[x] # None
      /\ t.changes \subseteq DOMAIN t.current
  BY Known, Holder DEF PrepareUpdate, In
<1>3. Bringing(backups, t)
  BY <1>2, Holder DEF Outlined, Taking, Asking
<1>4. /\ r.pc = "planned" /\ r.kind = "update" /\ r.current = t.current /\ r.desired = then(kept)
      /\ r.wants = t.wants /\ r.changes = (t.changes \ owned) \cup (differs \ kept)
      /\ r.preserved = t.preserved \ owned /\ r.expected = lock /\ r.stale = t.stale
  BY <1>2 DEF Transaction
<1>5. DOMAIN t.current = DOMAIN t.wants
  BY <1>3 DEF Bringing
<1>6. \A x \in DOMAIN t.wants : r.desired[x] = IF x \in kept THEN t.current[x]
                                              ELSE IF x \in owned THEN t.wants[x] ELSE t.desired[x]
  BY <1>4, <1>5
<1>7. Draft(p, r)
  BY <1>1
<1> HIDE DEF r
<1>8. Config \in r.changes => Registers[r.desired[Config]] \subseteq DOMAIN r.wants
  BY <1>2, <1>3, <1>4, <1>5, <1>6 DEF Bringing
<1>9. \A x \in DOMAIN t.wants : r.desired[x] # None
  BY <1>2, <1>3, <1>6 DEF Bringing
<1>10. Bringing(backups, r)
  BY <1>2, <1>3, <1>4, <1>8, <1>9 DEF Bringing
<1> QED
  BY <1>2, <1>4, <1>7, <1>10, DraftTold DEF Outlined, Planning, Asking

LEMMA PlanUninstallTold ==
    ASSUME IInv, NEW F \in Histories, Told(F), ~ EverNarrowed, NEW p \in Procs, PlanUninstall(p)
    PROVE  Told(F)'
<1> DEFINE r == [tx[p] EXCEPT !.pc = "planned", !.kind = "uninstall", !.components = lock.components,
                              !.current = Installed, !.desired = [x \in DOMAIN Installed |-> None],
                              !.changes = DOMAIN Installed]
<1>1. tx[p] \in Transaction /\ tx[p].pc = "new" /\ Draft(p, r) /\ lock # None
  BY Known DEF PlanUninstall, In
<1>2. /\ r.pc = "planned" /\ r.kind = "uninstall" /\ r.current = Installed
      /\ r.components = lock.components /\ r.changes = DOMAIN Installed /\ r.stale = tx[p].stale
  BY <1>1 DEF Transaction
<1> HIDE DEF r
<1>3. /\ \A x \in DOMAIN Installed : Installed[x] # None
      /\ DOMAIN Installed \cap Registrable # {} => "plugins" \in lock.components /\ Config \in DOMAIN Installed
  BY <1>1, InstalledAccounted DEF Closed, Narrowed
<1>4. Taking(r)
  BY <1>2, <1>3 DEF Taking
<1> QED
  BY <1>1, <1>2, <1>4, DraftTold DEF Outlined, Planning

LEMMA PlanRestoreTold ==
    ASSUME IInv, NEW F \in Histories, Told(F), NEW p \in Procs, PlanRestore(p)
    PROVE  Told(F)'
<1> DEFINE draft(b) == [tx[p] EXCEPT !.pc = "ready", !.kind = "restore",
                                     !.current = backups[b].after, !.desired = backups[b].before,
                                     !.changes = DOMAIN backups[b].after,
                                     !.expected = backups[b].resultLock, !.goal = backups[b].priorLock]
<1>1. PICK b \in Procs : backups[b].manifest /\ Draft(p, draft(b))
  BY DEF PlanRestore
<1> DEFINE r == draft(b)
<1>2. BackupTrue(F, meddled, backups, backups[b]) /\ DOMAIN backups[b].before = DOMAIN backups[b].after
  BY <1>1, Holder, Known DEF Orderly
<1>3. tx[p] \in Transaction /\ tx[p].pc = "new"
  BY Known DEF PlanRestore, In
<1>4. /\ r.pc = "ready" /\ r.current = backups[b].after /\ r.desired = backups[b].before
      /\ r.changes = DOMAIN backups[b].after /\ r.stale = tx[p].stale
      /\ r.expected = backups[b].resultLock /\ r.goal = backups[b].priorLock
  BY <1>3 DEF Transaction
<1>5. Draft(p, r)
  BY <1>1
<1> HIDE DEF r
<1>6. Returns(F, meddled, backups, r)
  BY <1>2, <1>4 DEF BackupTrue, Returns, Turns
<1>7. PlanTrue(F, meddled, backups, p, r)
  BY <1>2, <1>4, <1>6 DEF BackupTrue, PlanTrue, OneWay
<1> QED
  BY <1>3, <1>4, <1>5, <1>7, DraftTold DEF Asking

LEMMA RecheckTold ==
    ASSUME IInv, NEW F \in Histories, Told(F), NEW p \in Procs, Recheck(p)
    PROVE  Told(F)'
<1> DEFINE r == [tx[p] EXCEPT !.pc = "looked"]
<1>1. /\ tx[p] \in Transaction /\ tx[p].pc = "planned" /\ tx[p].kind \in {"install", "update"}
      /\ Outlined(backups, tx[p])
  BY Known, Holder DEF Recheck, In, Asking
<1>2. CASE Fails(p)
  BY <1>1, <1>2, FailsTold DEF Asking
<1>3. CASE Draft(p, r)
  <2>1. SameChanges(r, tx[p]) /\ r.pc = "looked" /\ r.stale = tx[p].stale
    BY <1>1 DEF Transaction, SameChanges
  <2> HIDE DEF r
  <2>2. Outlined(backups, r)
    BY <1>1, <2>1 DEF Outlined, Bringing, Taking, SameChanges
  <2> QED
    BY <1>1, <1>3, <2>1, <2>2, DraftTold DEF Planning, Asking
<1> QED
  BY <1>2, <1>3 DEF Recheck

LEMMA ReadConfigTold ==
    ASSUME SteadyCatalog, IInv, NEW F \in Histories, Told(F), NEW p \in Procs, ReadConfig(p)
    PROVE  Told(F)'
<1> DEFINE t      == tx[p]
           now    == [t.current EXCEPT ![Config] = files[Config]]
           left   == Unregistered[t.components][files[Config]]
           then   == [t.desired EXCEPT ![Config] = left]
           looked == [t EXCEPT !.pc = "looked"]
           r      == [t EXCEPT !.pc = "looked", !.current = now, !.desired = then]
<1>1. /\ t \in Transaction /\ t.pc = "planned" /\ t.kind = "uninstall" /\ Orderly(t, backups[p])
      /\ files \in [Paths -> MaybeContent] /\ Outlined(backups, t)
      /\ t.components \in SUBSET Parts
  BY Known, Holder DEF ReadConfig, In, Asking, Transaction
<1>2. Taking(t) /\ t.changes = DOMAIN t.current /\ DOMAIN t.desired = DOMAIN t.current
  BY <1>1 DEF Outlined, Bringing, Orderly
<1>3. CASE Fails(p)
  BY <1>1, <1>3, FailsTold DEF Asking
<1>4. CASE Config \notin DOMAIN t.current /\ Draft(p, looked)
  <2>1. SameChanges(looked, t) /\ looked.pc = "looked" /\ looked.stale = t.stale
    BY <1>1 DEF Transaction, SameChanges
  <2> HIDE DEF looked
  <2>2. Taking(looked)
    BY <1>2, <1>4, <2>1 DEF Taking, SameChanges
  <2> QED
    BY <1>1, <1>4, <2>1, <2>2, DraftTold DEF Planning, Asking, Outlined
<1>5. CASE Config \in DOMAIN t.current /\ files[Config] # None /\ Draft(p, r)
  <2>1. Registers[left] \subseteq IF "plugins" \in t.components THEN {} ELSE Registers[files[Config]]
    BY <1>1, <1>5, InstallAssumption DEF SteadyCatalog, MaybeContent
  <2>2. DOMAIN now = DOMAIN t.current /\ now[Config] = files[Config] /\ then[Config] = left
    BY <1>2, <1>5
  <2>3. \A x \in DOMAIN t.current : now[x] # None
    BY <1>2, <1>5 DEF Taking
  <2>4. /\ r.pc = "looked" /\ r.kind = "uninstall" /\ r.current = now /\ r.desired = then
        /\ r.changes = t.changes /\ r.components = t.components /\ r.stale = t.stale
    BY <1>1 DEF Transaction
  <2> HIDE DEF r, now, then, left
  <2>5. Taking(r)
    BY <1>2, <2>1, <2>2, <2>3, <2>4 DEF Taking
  <2> QED
    BY <1>1, <1>5, <2>4, <2>5, DraftTold DEF Planning, Asking, Outlined
<1> QED
  BY <1>3, <1>4, <1>5 DEF ReadConfig, Planned

\* Entering the apply, an installation adds to what is in lock.json and an
\* uninstall leaves nothing there.
LEMMA EnterTold ==
    ASSUME IInv, NEW F \in Histories, Told(F), NEW p \in Procs, Enter(p)
    PROVE  Told(F)'
<1> DEFINE t       == tx[p]
           awaited == IF t.kind = "update" THEN t.expected ELSE lock
           r       == [t EXCEPT !.pc = "ready", !.expected = awaited, !.goal = NewLock(p)]
<1>1. /\ t \in Transaction /\ t.pc = "looked" /\ Outlined(backups, t) /\ Vouched(backups, lock)
      /\ t.changes \subseteq DOMAIN t.current
  BY Known, Holder DEF Enter, In, Asking
<1>2. CASE Fails(p)
  BY <1>1, <1>2, FailsTold DEF Asking
<1>3. CASE Allowed(p) /\ Draft(p, r)
  <2>1. /\ SameChanges(r, [t EXCEPT !.expected = awaited, !.goal = NewLock(p)])
        /\ r.pc = "ready" /\ r.stale = t.stale /\ r.expected = awaited /\ r.goal = NewLock(p)
        /\ r.current = t.current /\ r.desired = t.desired /\ r.changes = t.changes
    BY <1>1 DEF Transaction, SameChanges
  <2>2. t.kind = "uninstall" => lock # None
    BY <1>3 DEF Allowed
  <2>3. NewLock(p).by = p /\ NewLock(p).installed = Listed(p) /\ NewLock(p) # None
    BY <2>2, NewLockTyped, InstallAssumption DEF NewLock
  <2> HIDE DEF r
  <2>4. Vouched(backups, awaited)
    BY <1>1 DEF Outlined, Bringing, Taking
  <2>5. ASSUME Taking(t)
        PROVE  PlanTrue(F, meddled, backups, p, r)
    <3>1. Listed(p) = NoFiles
      BY <2>5 DEF Taking, Listed
    <3>2. Closed(Listed(p))
      BY <3>1 DEF Closed, NoFiles
    <3>3. ASSUME Config \in t.changes, NEW x \in Registers[t.desired[Config]]
          PROVE  x \in Registers[t.current[Config]] \ t.changes
      <4>1. "plugins" \notin t.components /\ x \in Registers[t.current[Config]]
        BY <1>1, <2>5, <3>3 DEF Taking
      <4>2. t.current[Config] \in MaybeContent
        BY <1>1, <3>3, Known
      <4>3. x \in Registrable
        BY <4>1, <4>2 DEF Registrable
      <4> QED
        BY <2>5, <4>1, <4>3 DEF Taking
    <3>4. Config \notin t.changes => \A x \in t.changes : x \notin Registrable
      BY <2>5 DEF Taking
    <3>5. Advances(p, r)
      BY <2>1, <2>3, <3>2, <3>3, <3>4 DEF Advances
    <3>6. OneWay(r.changes, r.current, r.desired)
      BY <1>1, <2>1, <2>5 DEF Taking, OneWay
    <3> QED
      BY <2>1, <2>4, <3>5, <3>6 DEF PlanTrue
  <2>6. ASSUME Bringing(backups, t)
        PROVE  PlanTrue(F, meddled, backups, p, r)
    <3> DEFINE owned == DOMAIN t.current \ t.preserved
               stays == {x \in owned : t.desired[x] # None}
               all   == (DOMAIN Installed \ owned) \cup stays
               list  == [x \in all |-> IF x \in stays THEN t.desired[x] ELSE Installed[x]]
    <3>1. Listed(p) = list
      BY <2>6 DEF Bringing, Listed, Planned
    <3>2. stays = owned /\ owned \subseteq DOMAIN t.wants /\ all = DOMAIN Installed \cup owned
      BY <2>6 DEF Bringing
    <3>3. Closed(Installed)
      BY InstalledAccounted
    <3>4. \A x \in all : list[x] # None /\ \A release \in Releases : x \in release.ships
      BY <2>6, <3>2, <3>3 DEF Bringing, Closed
    <3>5. all \cap Registrable # {} => Config \in all
      BY <2>6, <3>2, <3>3 DEF Bringing, Closed
    <3>6. DOMAIN list = all
      OBVIOUS
    <3> HIDE DEF list, all, stays, owned
    <3>7. Closed(NewLock(p).installed)
      BY <2>3, <3>1, <3>4, <3>5, <3>6 DEF Closed
    <3>8. \A x \in t.changes : t.desired[x] # None
      BY <1>1, <2>6 DEF Bringing
    <3>9. Config \in t.changes => \A x \in Registers[t.desired[Config]] : x \in DOMAIN t.current /\ t.desired[x] # None
      BY <2>6 DEF Bringing
    <3>10. Advances(p, r)
      BY <2>1, <2>3, <3>7, <3>8, <3>9 DEF Advances
    <3>11. OneWay(r.changes, r.current, r.desired)
      BY <2>1, <3>8 DEF OneWay
    <3> QED
      BY <2>1, <2>4, <3>10, <3>11 DEF PlanTrue
  <2>7. PlanTrue(F, meddled, backups, p, r)
    BY <1>1, <2>5, <2>6 DEF Outlined
  <2> QED
    BY <1>1, <1>3, <2>1, <2>7, DraftTold DEF Asking
<1> QED
  BY <1>2, <1>3 DEF Enter

-----------------------------------------------------------------------------
\* The manifest settles what the transaction will leave.
LEMMA Settles ==
    ASSUME IInv, NEW F \in Histories, Told(F), NEW p \in Procs, Prepare(p),
           NEW G \in Histories,
           \A l \in MaybeLock : Vouched(backups, l) => G[Writer(l)] = F[Writer(l)],
           Turns(meddled, tx[p].changes, tx[p].current, tx[p].desired,
                 G[Writer(lock)], G[Writer(tx[p].goal)]),
           Accounted(meddled, G[Writer(tx[p].goal)], tx[p].goal),
           Vouched(backups', tx[p].goal)
    PROVE  Told(G)'
<1> DEFINE r == [tx[p] EXCEPT !.pc = "apply"]
           b == [NoBackup EXCEPT !.manifest   = TRUE,
                                 !.before     = Restrict(tx[p].current, Changed(p)),
                                 !.after      = Restrict(tx[p].desired, Changed(p)),
                                 !.priorLock  = tx[p].prior,
                                 !.resultLock = tx[p].goal]
<1>1. /\ tx[p].pc = "check" /\ tx[p] \in Transaction /\ lease = p
      /\ tx[p].checked = DOMAIN tx[p].current
      /\ Orderly(tx[p], backups[p]) /\ Sound(tx[p], backups[p], files, lock)
      /\ UNCHANGED <<files, lock, lease, meddled>>
      /\ lock \in MaybeLock /\ tx[p].goal \in MaybeLock
  BY Known DEF Prepare, In, Leased, Forward, Planned, Transaction
<1>2. /\ SamePlan(r, tx[p]) /\ SameChanges(r, tx[p]) /\ r.pc = "apply"
      /\ r.applied = <<>> /\ r.todo = tx[p].todo /\ r.unreconciled = {}
  BY <1>1 DEF SamePlan, SameChanges, Transaction, Orderly
<1>3. tx' = [tx EXCEPT ![p] = r] /\ backups' = [backups EXCEPT ![p] = b]
  BY Known DEF Prepare, Goto
<1>4. /\ b.manifest /\ b.priorLock = lock /\ b.resultLock = tx[p].goal
      /\ b.before = Restrict(tx[p].current, tx[p].changes)
      /\ b.after = Restrict(tx[p].desired, tx[p].changes)
  BY <1>1 DEF NoBackup, Changed, Sound, LockSound
<1> HIDE DEF r, b
<1>5. /\ tx'[p] = r /\ backups'[p] = b
      /\ \A q \in Procs \ {p} : tx'[q] = tx[q] /\ backups'[q] = backups[q]
  BY <1>3, Known
<1>6. /\ History(F, meddled, backups, tx) /\ Vouched(backups, lock)
      /\ Underway(F, meddled, tx[p], backups[p], files, lock)
      /\ PlanTrue(F, meddled, backups, p, tx[p]) /\ tx[p].stale \subseteq meddled
      /\ ~ backups[p].manifest
  BY <1>1, Holder DEF Planning, Drafted, Asking, Orderly, NoBackup
<1>7. ASSUME NEW l, Vouched(backups, l)
      PROVE  Vouched(backups', l)
  <2>1. CASE l = None
    BY <2>1 DEF Vouched
  <2>2. CASE l # None
    <3>1. l.by # p
      BY <1>6, <1>7, <2>2 DEF Vouched
    <3>2. backups'[l.by] = backups[l.by]
      BY <1>3, <3>1 DEF IInv, TypeOK
    <3> QED
      BY <1>7, <2>2, <3>2 DEF Vouched
  <2> QED
    BY <2>1, <2>2
<1>8. /\ DOMAIN b.before = tx[p].changes
      /\ \A x \in tx[p].changes : b.before[x] = tx[p].current[x] /\ b.after[x] = tx[p].desired[x]
  BY <1>4 DEF Restrict
<1>9. BackupTrue(G, meddled, backups', b)
  BY <1>4, <1>6, <1>7, <1>8 DEF BackupTrue, Turns, OneWay, PlanTrue
<1>10. ASSUME NEW q \in Procs \ {p}, backups[q].manifest
       PROVE  BackupTrue(G, meddled, backups', backups[q])
  <2>1. BackupTrue(F, meddled, backups, backups[q])
    BY <1>6, <1>10 DEF History
  <2>2. backups[q].priorLock \in MaybeLock /\ backups[q].resultLock \in MaybeLock
    BY DEF IInv, TypeOK, Backup
  <2>3. /\ Vouched(backups, backups[q].priorLock) /\ Vouched(backups, backups[q].resultLock)
    BY <2>1 DEF BackupTrue
  <2>4. /\ G[Writer(backups[q].priorLock)] = F[Writer(backups[q].priorLock)]
        /\ G[Writer(backups[q].resultLock)] = F[Writer(backups[q].resultLock)]
    BY <2>2, <2>3
  <2> QED
    BY <1>7, <2>1, <2>3, <2>4 DEF BackupTrue
<1>11. ASSUME NEW q \in Procs \ {p}, tx[q].pc \in Planning
       PROVE  PlanTrue(G, meddled, backups', q, tx[q])
  <2>1. PlanTrue(F, meddled, backups, q, tx[q])
    BY <1>6, <1>11 DEF History, Planning, Drafted, Asking
  <2>2. tx[q].expected \in MaybeLock /\ tx[q].goal \in MaybeLock
    BY DEF IInv, TypeOK, Transaction
  <2>3. Vouched(backups, tx[q].expected)
    BY <2>1 DEF PlanTrue
  <2>4. Returns(F, meddled, backups, tx[q]) => Returns(G, meddled, backups', tx[q])
    <3> SUFFICES ASSUME Returns(F, meddled, backups, tx[q])
                 PROVE  Returns(G, meddled, backups', tx[q])
      OBVIOUS
    <3>1. Vouched(backups, tx[q].goal)
      BY DEF Returns
    <3>2. /\ G[Writer(tx[q].expected)] = F[Writer(tx[q].expected)]
          /\ G[Writer(tx[q].goal)] = F[Writer(tx[q].goal)]
      BY <2>2, <2>3, <3>1
    <3> QED
      BY <1>7, <3>1, <3>2 DEF Returns
  <2> QED
    BY <1>7, <2>1, <2>3, <2>4 DEF PlanTrue
<1>12. Accounted(meddled, G[None], None)
  <2>1. G[Writer(None)] = F[Writer(None)]
    BY DEF Vouched, MaybeLock
  <2> QED
    BY <1>6, <2>1 DEF History, Writer
<1>13. r.pc \notin Drafted /\ r.stale \subseteq meddled
  BY <1>2, <1>6 DEF Planning, Drafted, Asking, SamePlan
<1>18. ASSUME NEW q \in Procs \ {p}, tx[q].pc \in Asking
       PROVE  Outlined(backups', tx[q])
  BY <1>6, <1>7, <1>18 DEF History, Outlined, Bringing
<1>14. History(G, meddled', backups', tx')
  <2>1. ASSUME NEW q \in Procs
        PROVE  /\ backups'[q].manifest => BackupTrue(G, meddled, backups', backups'[q])
               /\ tx'[q].pc \in Asking => Outlined(backups', tx'[q])
               /\ tx'[q].pc \in Planning => PlanTrue(G, meddled, backups', q, tx'[q])
               /\ tx'[q].stale \subseteq meddled
    <3>1. CASE q = p
      BY <1>5, <1>9, <1>13, <3>1 DEF Drafted
    <3>2. CASE q # p
      BY <1>5, <1>6, <1>10, <1>11, <1>18, <3>2 DEF History
    <3> QED
      BY <3>1, <3>2
  <2> QED
    BY <1>1, <1>12, <2>1 DEF History, Planning, Drafted, Asking
<1>15. ASSUME NEW x \in Paths \ meddled
       PROVE  /\ files[x] = G[Writer(lock)][x]
              /\ x \in tx[p].changes => files[x] = tx[p].current[x]
  <2>1. files[x] = F[Writer(lock)][x]
    BY <1>6 DEF Underway, Agree
  <2>2. G[Writer(lock)] = F[Writer(lock)]
    BY <1>1, <1>6
  <2>3. x \in tx[p].changes => x \in tx[p].checked \ tx[p].stale /\ x \notin Range(tx[p].applied)
    BY <1>1, <1>6, NothingPlaced DEF Orderly
  <2> QED
    BY <1>1, <2>1, <2>2, <2>3 DEF Sound, FilesSound
<1>16. Underway(G, meddled, r, b, files, lock)
  <2>1. r.todo = <<>> /\ r.changes = tx[p].changes /\ r.desired = tx[p].desired
        /\ r.current = tx[p].current /\ r.goal = tx[p].goal
    BY <1>2, <1>6 DEF Underway, SameChanges
  <2>2. Partly(meddled, r, files, {})
    BY <1>1, <1>15, <2>1, Known DEF Partly
  <2>3. /\ Placed(r, r.applied) /\ Placed(r, r.todo)
        /\ Admissible(r, {}) /\ Range(r.applied) = {} /\ Range(r.todo) = {} /\ {} \in SUBSET r.changes
    BY <1>2, <2>1, NothingPlaced
  <2>4. \A x \in (Paths \ meddled) \ r.changes : files[x] = G[Writer(b.priorLock)][x]
    BY <1>4, <1>15
  <2>5. \E A \in SUBSET r.changes :
                   /\ Admissible(r, A) /\ Partly(meddled, r, files, A)
                   /\ r.pc \in Forward => A = Range(r.applied)
                   /\ r.pc \in Backward \cup {"failed"} => A = Range(r.todo)
    BY <2>2, <2>3
  <2> QED
    BY <1>2, <1>4, <2>1, <2>3, <2>4, <2>5 DEF Underway
<1>17. Present(G, meddled', backups', tx', files', lock', lease')
  BY <1>1, <1>5, <1>6, <1>7, <1>16, InstallAssumption DEF Present
<1> QED
  BY <1>14, <1>17 DEF Told

LEMMA PrepareTold ==
    ASSUME IInv, NEW F \in Histories, Told(F), NEW p \in Procs, Prepare(p), Config \notin meddled
    PROVE  \E G \in Histories : Told(G)'
<1> DEFINE r == tx[p]
           f == F[Writer(lock)]
           next == [x \in Paths |-> IF x \in r.changes THEN r.desired[x] ELSE f[x]]
           G == [F EXCEPT ![p] = next]
<1>1. /\ r.pc = "check" /\ r \in Transaction /\ lease = p
      /\ r.checked = DOMAIN r.current
      /\ Orderly(r, backups[p]) /\ Sound(r, backups[p], files, lock)
      /\ lock \in MaybeLock /\ r.goal \in MaybeLock /\ DOMAIN r.current \subseteq Paths
      /\ \A x \in DOMAIN r.current : r.desired[x] \in MaybeContent
      /\ files \in [Paths -> MaybeContent]
  BY Known DEF Prepare, In, Leased, Forward, Planned, Transaction
<1>2. /\ History(F, meddled, backups, tx) /\ Vouched(backups, lock)
      /\ Underway(F, meddled, r, backups[p], files, lock)
      /\ PlanTrue(F, meddled, backups, p, r) /\ r.stale \subseteq meddled
      /\ ~ backups[p].manifest
  BY <1>1, Holder DEF Planning, Drafted, Asking, Orderly, NoBackup
<1>3. r.expected = lock /\ r.changes \subseteq DOMAIN r.current
  BY <1>1 DEF Sound, LockSound, Orderly
<1>4. Accounted(meddled, f, lock) /\ f \in [Paths -> MaybeContent]
  BY <1>1, <1>2, SettledIsAccounted, WriterTyped
<1>5. /\ backups'[p].manifest /\ backups'[p].resultLock = r.goal
      /\ \A q : q # p => backups'[q] = backups[q]
  BY Known DEF Prepare, NoBackup
<1>6. CASE Returns(F, meddled, backups, r)
  <2>1. Vouched(backups, r.goal)
    BY <1>6 DEF Returns
  <2>2. Accounted(meddled, F[Writer(r.goal)], r.goal)
    BY <1>1, <1>2, <2>1, SettledIsAccounted
  <2>3. Vouched(backups', r.goal)
    <3>1. CASE r.goal = None
      BY <3>1 DEF Vouched
    <3>2. CASE r.goal # None
      <4>1. r.goal.by # p
        BY <1>2, <2>1, <3>2 DEF Vouched
      <4> QED
        BY <1>5, <2>1, <4>1 DEF Vouched
    <3> QED
      BY <3>1, <3>2
  <2>4. Turns(meddled, r.changes, r.current, r.desired, F[Writer(lock)], F[Writer(r.goal)])
    BY <1>3, <1>6 DEF Returns
  <2> QED
    BY <2>2, <2>3, <2>4, Settles
<1>7. CASE Advances(p, r)
  <2>1. r.goal # None /\ r.goal.by = p /\ Writer(r.goal) = p
    BY <1>7 DEF Advances, Writer
  <2>2. \A x \in Paths : next[x] \in MaybeContent
    BY <1>1, <1>3, <1>4
  <2>3. next \in [Paths -> MaybeContent] /\ \A x \in Paths : next[x] = IF x \in r.changes THEN r.desired[x] ELSE f[x]
    BY <2>2
  <2> HIDE DEF next
  <2>4. G \in Histories /\ G[p] = next /\ \A q \in Procs \cup {None} : q # p => G[q] = F[q]
    BY <2>3 DEF Histories
  <2> HIDE DEF G
  <2>5. ASSUME NEW l \in MaybeLock, Vouched(backups, l)
        PROVE  G[Writer(l)] = F[Writer(l)]
    <3>1. Writer(l) \in Procs \cup {None}
      BY WriterTyped
    <3>2. Writer(l) # p
      BY <1>2, <2>5, InstallAssumption DEF Writer, Vouched
    <3> QED
      BY <2>4, <3>1, <3>2
  <2>6. ASSUME NEW x \in DOMAIN r.current \ meddled
        PROVE  files[x] = r.current[x] /\ files[x] = f[x] /\ x \in Paths
    <3>1. x \in r.checked \ r.stale /\ x \notin Range(r.applied)
      BY <1>1, <1>2, NothingPlaced DEF Orderly
    <3> QED
      BY <1>1, <1>2, <3>1 DEF Sound, FilesSound, Underway, Agree
  <2>7. Turns(meddled, r.changes, r.current, r.desired, f, next)
    BY <1>3, <2>3, <2>6 DEF Turns
  <2>8. \A x \in DOMAIN r.current \ r.changes : r.desired[x] = r.current[x]
    BY <1>1 DEF Orderly
  <2>9. Config \in Paths /\ Registers[f[Config]] \subseteq Paths
    BY <1>4, InstallAssumption
  <2>10. ASSUME NEW x \in Registers[next[Config]]
         PROVE  next[x] # None \/ x \in meddled
    <3>1. CASE Config \in r.changes
      <4>1. next[Config] = r.desired[Config] /\ Registers[next[Config]] \subseteq Paths
        BY <2>3, <2>9, <3>1, InstallAssumption
      <4>2. CASE x \in DOMAIN r.current /\ r.desired[x] # None
        BY <1>1, <2>3, <2>6, <2>8, <4>2
      <4>3. CASE x \in Registers[r.current[Config]] \ r.changes
        <5>1. r.current[Config] = f[Config]
          BY <1>3, <2>6, <3>1
        <5>2. f[x] # None \/ x \in meddled
          BY <1>4, <4>3, <5>1 DEF Accounted, Loadable
        <5> QED
          BY <2>3, <2>10, <4>1, <4>3, <5>2
      <4> QED
        BY <1>7, <2>10, <3>1, <4>1, <4>2, <4>3 DEF Advances
    <3>2. CASE Config \notin r.changes
      <4>1. next[Config] = f[Config]
        BY <2>3, <2>9, <3>2
      <4>2. (f[x] # None \/ x \in meddled) /\ x \in Paths
        BY <1>4, <2>9, <2>10, <4>1 DEF Accounted, Loadable
      <4>3. x \in Registrable
        BY <1>4, <2>9, <2>10, <4>1 DEF Registrable
      <4>4. x \in r.changes => r.desired[x] # None
        BY <1>7, <3>2, <4>3 DEF Advances
      <4> QED
        BY <2>3, <4>2, <4>4
    <3> QED
      BY <3>1, <3>2
  <2>11. Accounted(meddled, next, r.goal)
    BY <1>7, <2>10 DEF Accounted, Loadable, Advances
  <2> QED
    BY <1>1, <1>2, <1>5, <2>1, <2>4, <2>5, <2>7, <2>11, Settles DEF Vouched
<1> QED
  BY <1>2, <1>6, <1>7 DEF PlanTrue

\* People only take paths out of what is told.
LEMMA EditTold ==
    ASSUME IInv, NEW F \in Histories, Told(F), NEW x \in Paths, NEW c \in UserContents \cup {None},
           Edit(x, c), x # Config
    PROVE  Told(F)'
<1> DEFINE n == meddled \cup {x}
<1>1. /\ files' = [files EXCEPT ![x] = c] /\ meddled' = n
      /\ UNCHANGED <<lock, lease, backups>>
      /\ files \in [Paths -> MaybeContent] /\ lease \in Procs \cup {None} /\ lock \in MaybeLock
  BY Known DEF Edit, IInv, TypeOK
<1>2. ASSUME NEW p \in Procs
      PROVE  /\ tx'[p].stale \subseteq tx[p].stale \cup {x}
             /\ SameChanges(tx'[p], tx[p]) /\ tx'[p].pc = tx[p].pc /\ tx'[p].applied = tx[p].applied
             /\ tx'[p].todo = tx[p].todo /\ tx'[p].unreconciled = tx[p].unreconciled
  <2>1. tx'[p] = [tx[p] EXCEPT !.stale = @ \cup ({x} \cap tx[p].checked)]
    BY DEF Edit
  <2>2. tx[p] \in Transaction
    BY Known
  <2> QED
    BY <2>1, <2>2 DEF Transaction, SameChanges
<1>3. \A y \in Paths \ n : y \in Paths \ meddled /\ files'[y] = files[y]
  BY <1>1
<1> HIDE DEF n
<1>4. meddled \subseteq n
  BY DEF n
<1>5. ASSUME NEW f, NEW l, Accounted(meddled, f, l)
      PROVE  Accounted(n, f, l)
  BY <1>4, <1>5 DEF Accounted, Loadable
<1>6. ASSUME NEW D, NEW now, NEW then, NEW f, NEW g, Turns(meddled, D, now, then, f, g)
      PROVE  Turns(n, D, now, then, f, g)
  BY <1>3, <1>6 DEF Turns
<1>7. History(F, meddled, backups, tx) /\ Present(F, meddled, backups, tx, files, lock, lease)
  BY DEF Told
<1>8. ASSUME NEW p \in Procs
      PROVE  /\ backups[p].manifest => BackupTrue(F, n, backups, backups[p])
             /\ tx'[p].pc \in Asking => Outlined(backups, tx'[p])
             /\ tx'[p].pc \in Planning => PlanTrue(F, n, backups, p, tx'[p])
             /\ tx'[p].stale \subseteq n
  <2>1. backups[p].manifest => BackupTrue(F, n, backups, backups[p])
    BY <1>5, <1>6, <1>7 DEF History, BackupTrue
  <2>2. ASSUME tx'[p].pc \in Planning
        PROVE  PlanTrue(F, n, backups, p, tx'[p])
    <3>1. PlanTrue(F, meddled, backups, p, tx[p])
      BY <1>2, <1>7, <2>2 DEF History, Planning, Drafted, Asking
    <3>2. Returns(F, meddled, backups, tx[p]) => Returns(F, n, backups, tx[p])
      BY <1>6 DEF Returns
    <3>3. PlanTrue(F, n, backups, p, tx[p])
      BY <3>1, <3>2 DEF PlanTrue
    <3> QED
      BY <1>2, <3>3, SamePlanTrue
  <2>3. tx'[p].stale \subseteq n
    BY <1>2, <1>7 DEF History, n
  <2>4. tx'[p].pc \in Asking => Outlined(backups, tx'[p])
    BY <1>2, <1>7, SameOutlined DEF History
  <2> QED
    BY <2>1, <2>2, <2>3, <2>4
<1>9. History(F, meddled', backups', tx')
  BY <1>1, <1>5, <1>7, <1>8 DEF History, Planning, Drafted, Asking
<1>10. ASSUME NEW p \in Procs, Underway(F, meddled, tx[p], backups[p], files, lock)
       PROVE  Underway(F, n, tx'[p], backups[p], files', lock)
  <2> DEFINE r == tx[p]
             s == tx'[p]
  <2>1. /\ SameChanges(s, r) /\ s.pc = r.pc /\ s.applied = r.applied
        /\ s.todo = r.todo /\ s.unreconciled = r.unreconciled
        /\ Underway(F, meddled, r, backups[p], files, lock)
    BY <1>2, <1>10
  <2> SUFFICES Underway(F, n, s, backups[p], files', lock)
    OBVIOUS
  <2> HIDE DEF r, s
  <2>2. CASE ~ backups[p].manifest
    BY <1>3, <2>1, <2>2 DEF Underway, Agree
  <2>3. CASE backups[p].manifest
    <3>1. Placed(s, s.applied) /\ Placed(s, s.todo)
      BY <2>1, <2>3 DEF Underway, Placed, Removing, SameChanges
    <3>2. ASSUME s.unreconciled = {}
          PROVE  \E A \in SUBSET s.changes :
                   /\ Admissible(s, A) /\ Partly(n, s, files', A)
                   /\ s.pc \in Forward => A = Range(s.applied)
                   /\ s.pc \in Backward \cup {"failed"} => A = Range(s.todo)
      <4>1. PICK A \in SUBSET r.changes :
                   /\ Admissible(r, A) /\ Partly(meddled, r, files, A)
                   /\ r.pc \in Forward => A = Range(r.applied)
                   /\ r.pc \in Backward \cup {"failed"} => A = Range(r.todo)
        BY <2>1, <2>3, <3>2 DEF Underway
      <4>2. Admissible(s, A) /\ A \in SUBSET s.changes
        BY <2>1, <4>1 DEF Admissible, Removing, SameChanges
      <4>3. Partly(n, s, files', A)
        <5>1. r.changes \subseteq Paths
          BY Known DEF r
        <5> QED
          BY <1>3, <1>4, <2>1, <4>1, <5>1 DEF Partly, SameChanges
      <4> QED
        BY <2>1, <4>1, <4>2, <4>3
    <3>3. \A y \in (Paths \ n) \ s.changes : files'[y] = F[Writer(backups[p].priorLock)][y]
      BY <1>3, <2>1, <2>3 DEF Underway, SameChanges
    <3> QED
      BY <2>1, <2>3, <3>1, <3>2, <3>3 DEF Underway, SameChanges
  <2> QED
    BY <2>2, <2>3, Holder
<1>11. Present(F, meddled', backups', tx', files', lock', lease')
  <2>1. CASE lease = None
    BY <1>1, <1>3, <1>7, <2>1 DEF Present, Agree
  <2>2. CASE lease # None
    BY <1>1, <1>7, <1>10, <2>2 DEF Present
  <2> QED
    BY <2>1, <2>2
<1> QED
  BY <1>9, <1>11 DEF Told

LEMMA InitTold == SteadyCatalog /\ Init => HistoryInv
<1> SUFFICES ASSUME SteadyCatalog, Init PROVE HistoryInv
  OBVIOUS
<1>1. IInv
  BY InitHolds
<1>2. files \in [Paths -> MaybeContent]
  BY <1>1, Known DEF IInv, TypeOK
<1> DEFINE F == [q \in Procs \cup {None} |-> files]
<1>3. F \in Histories /\ F[None] = files
  BY <1>2 DEF Histories
<1> HIDE DEF F
<1>4. Registers[files[Config]] = {}
  <2>1. files[Config] \in UserContents \cup {None}
    BY InstallAssumption DEF Init
  <2> QED
    BY <2>1 DEF SteadyCatalog
<1>5. Accounted(meddled, files, None)
  BY <1>4 DEF Accounted, Loadable
<1>6. ASSUME NEW p \in Procs
      PROVE  ~ backups[p].manifest /\ tx[p].pc = "new" /\ tx[p].stale = {}
  BY DEF Init, NoBackup, NewTransaction
<1>7. History(F, meddled, backups, tx)
  BY <1>3, <1>5, <1>6 DEF History, Asking
<1>8. Present(F, meddled, backups, tx, files, lock, lease)
  BY <1>3 DEF Init, Present, Vouched, Agree, Writer
<1> QED
  BY <1>3, <1>7, <1>8 DEF HistoryInv, Told

\* What a manifest says stays, and so does that a lock.json was narrowed.
LEMMA NarrowedStays ==
    ASSUME IInv, [Next]_vars, EverNarrowed
    PROVE  EverNarrowed'
<1>1. PICK q \in Procs : backups[q].manifest /\ Narrowed(backups[q].resultLock)
  BY DEF EverNarrowed
<1>2. ASSUME NEW p \in Procs, NEW b, b.manifest = backups[p].manifest, b.resultLock = backups[p].resultLock,
             backups' = [backups EXCEPT ![p] = b]
      PROVE  EverNarrowed'
  <2>1. backups'[q].manifest /\ backups'[q].resultLock = backups[q].resultLock
    BY <1>1, <1>2, Known
  <2> QED
    BY <1>1, <2>1 DEF EverNarrowed, Narrowed
<1>3. CASE UNCHANGED backups
  BY <1>1, <1>3 DEF EverNarrowed, Narrowed
<1>4. ASSUME NEW p \in Procs, Prepare(p)
      PROVE  EverNarrowed'
  <2>1. ~ backups[p].manifest
    BY <1>4, Known DEF Prepare, In, Orderly, NoBackup
  <2>2. backups'[q] = backups[q]
    BY <1>1, <1>4, <2>1, Known DEF Prepare
  <2> QED
    BY <1>1, <2>2 DEF EverNarrowed, Narrowed
<1>5. ASSUME NEW p \in Procs, Complete(p)
      PROVE  EverNarrowed'
  <2> DEFINE b == [backups[p] EXCEPT !.completed = TRUE]
  <2>1. b.manifest = backups[p].manifest /\ b.resultLock = backups[p].resultLock
    BY Known DEF Backup
  <2>2. backups' = [backups EXCEPT ![p] = b]
    BY <1>5, Known DEF Complete
  <2> QED
    BY <1>2, <2>1, <2>2
<1>6. ASSUME NEW p \in Procs, Record(p) \/ RecordFails(p)
      PROVE  EverNarrowed'
  <2> DEFINE b == [backups[p] EXCEPT !.recovery = RecoveryStatus(p)]
  <2>1. b.manifest = backups[p].manifest /\ b.resultLock = backups[p].resultLock
    BY Known DEF Backup
  <2>2. backups' = [backups EXCEPT ![p] = b] \/ UNCHANGED backups
    BY <1>6, Known DEF Record, RecordFails
  <2> QED
    BY <1>2, <1>3, <2>1, <2>2
<1>7. ASSUME NEW p \in Procs, Ask(p)
      PROVE  UNCHANGED backups
  BY <1>7, AskDrafts DEF Draft
<1>8. ASSUME NEW p \in Procs, Proceed(p) \/ Crash(p)
      PROVE  EverNarrowed'
  BY <1>3, <1>4, <1>5, <1>6, <1>8
  DEF Proceed, Crash, Acquire, Contend, ReadLock, CheckFile, ApplyFile, Verify, CommitLock,
      Release, Fail, UndoFile, UndoFileFails, UndoLock, UndoLockFails, Free
<1>9. ASSUME People
      PROVE  UNCHANGED backups
  BY <1>9 DEF People, Edit, Reconcile
<1> QED
  BY <1>3, <1>7, <1>8, <1>9 DEF Next, vars

LEMMA AskTold ==
    ASSUME SteadyCatalog, IInv, NEW F \in Histories, Told(F), ~ EverNarrowed, NEW p \in Procs, Ask(p)
    PROVE  Told(F)'
BY PlanInstallTold, PrepareUpdateTold, PlanUninstallTold, PlanRestoreTold,
   RecheckTold, ReadConfigTold, EnterTold DEF Ask

LEMMA NextTold == SteadyCatalog /\ IInv /\ HistoryInv /\ [Next]_vars => HistoryInv'
<1> SUFFICES ASSUME SteadyCatalog, IInv, HistoryInv, [Next]_vars PROVE HistoryInv'
  OBVIOUS
<1>1. meddled \subseteq meddled'
  <2>1. ASSUME NEW p \in Procs, Proceed(p) \/ Crash(p) \/ Reconcile(p)
        PROVE  meddled' = meddled
    BY <2>1 DEF Proceed, Crash, Reconcile, Acquire, Contend, ReadLock, CheckFile, Prepare, ApplyFile, Verify,
                CommitLock, Complete, Release, Fail, UndoFile, UndoFileFails, UndoLock, UndoLockFails,
                Record, RecordFails, Free
  <2>2. ASSUME NEW p \in Procs, Ask(p)
        PROVE  meddled' = meddled
    BY <2>2, AskDrafts DEF Draft
  <2>3. ASSUME NEW x \in Paths, NEW c \in UserContents \cup {None}, Edit(x, c)
        PROVE  meddled \subseteq meddled'
    BY <2>3 DEF Edit
  <2>4. UNCHANGED vars => meddled' = meddled
    BY DEF vars
  <2> QED
    BY <2>1, <2>2, <2>3, <2>4 DEF Next, People
<1>2. CASE Config \in meddled' \/ EverNarrowed'
  BY <1>2 DEF HistoryInv
<1>3. CASE Config \notin meddled' /\ ~ EverNarrowed'
  <2>1. Config \notin meddled /\ ~ EverNarrowed
    BY <1>1, <1>3, NarrowedStays
  <2>2. PICK F \in Histories : Told(F)
    BY <2>1 DEF HistoryInv
  <2>3. ASSUME NEW p \in Procs, Proceed(p)
        PROVE  \E G \in Histories : Told(G)'
    <3>1. CASE Prepare(p)
      BY <2>1, <2>2, <3>1, PrepareTold
    <3>2. CASE \/ Acquire(p) \/ Contend(p) \/ ReadLock(p) \/ CheckFile(p) \/ ApplyFile(p) \/ Verify(p)
               \/ CommitLock(p) \/ Complete(p) \/ Release(p) \/ Fail(p)
      BY <2>2, <3>2, AcquireTold, ContendTold, ReadLockTold, CheckFileTold, ApplyFileTold, VerifyTold,
         CommitLockTold, CompleteTold, ReleaseTold, FailTold
    <3>3. CASE \/ UndoFile(p) \/ UndoFileFails(p) \/ UndoLock(p) \/ UndoLockFails(p)
               \/ Record(p) \/ RecordFails(p) \/ Free(p)
      BY <2>2, <3>3, UndoTold, UndoLockTold, RecordTold, FreeTold
    <3> QED
      BY <2>3, <3>1, <3>2, <3>3 DEF Proceed
  <2>4. ASSUME NEW p \in Procs, Ask(p) \/ Crash(p)
        PROVE  Told(F)'
    BY <2>1, <2>2, <2>4, AskTold, CrashTold
  <2>5. ASSUME People
        PROVE  Told(F)'
    <3>1. ASSUME NEW x \in Paths, NEW c \in UserContents \cup {None}, Edit(x, c)
          PROVE  Told(F)'
      <4>1. x # Config
        BY <1>3, <3>1 DEF Edit
      <4> QED
        BY <2>2, <3>1, <4>1, EditTold
    <3>2. ASSUME NEW p \in Procs, Reconcile(p)
          PROVE  Told(F)'
      BY <2>2, <3>2, ReconcileTold
    <3> QED
      BY <2>5, <3>1, <3>2 DEF People
  <2>6. ASSUME UNCHANGED vars
        PROVE  Told(F)'
    BY <2>2, <2>6 DEF vars, Told
  <2>7. \E G \in Histories : Told(G)'
    BY <2>2, <2>3, <2>4, <2>5, <2>6 DEF Next
  <2> QED
    BY <2>7 DEF HistoryInv
<1> QED
  BY <1>2, <1>3

\* OpenCode finds what its configuration names, whatever the order in which
\* any number of installations, updates, removals, restores, failures, deaths
\* and clean-ups come, under SteadyCatalog: every release ships what any other
\* installs; whoever gets plugins gets the configuration; the configuration of a
\* release registers files of that release, those that people write register
\* none; and an uninstall takes out all registrations when the plugins are among
\* the components of the lock.json it starts from, and adds none when not.  With
\* a release that drops a file it fails (the run Upgrade).  The property excepts
\* what follows a lock.json that lists plugins outside its components.
THEOREM RegistrationsLoad == ASSUME SteadyCatalog PROVE Spec => []RegisteredFilesExist
<1>1. Init => HistoryInv
  BY InitTold
<1>2. IInv /\ HistoryInv /\ [Next]_vars => HistoryInv'
  BY NextTold
<1>3. ASSUME IInv, HistoryInv
      PROVE  RegisteredFilesExist
  <2>1. CASE Config \in meddled \/ EverNarrowed
    BY <2>1 DEF RegisteredFilesExist
  <2>2. CASE Config \notin meddled /\ ~ EverNarrowed
    BY <1>3, <2>2, ToldLoads DEF HistoryInv
  <2> QED
    BY <2>1, <2>2
<1>4. Spec => []IInv
  BY Invariance
<1> QED
  BY <1>1, <1>2, <1>3, <1>4, PTL DEF Spec

=============================================================================
