---------------------------- MODULE TaskStoreProofs ----------------------------
(***************************************************************************)
(* The lock and the comparison of revisions make concurrent processes      *)
(* behave as one, for any number of processes, steps and revisions.        *)
(***************************************************************************)
EXTENDS TaskStore, TaskDomainProofs

Places == {"idle", "lock", "compare", "document", "index", "unlock", "read"}
Saving == {"lock", "compare", "document", "index", "unlock"}

\* What a command keeps true of the document it read and the one it wants to
\* save, while task.json holds `doc`.  Documents with equal revisions are the
\* same document as long as the command has not saved: that is what makes
\* comparing revisions enough.
SavePlan(what, doc) ==
    /\ what \in SaveWork
    /\ Accepts(what.base, what.request)
    /\ what.next = Result(what.base, what.request)
    /\ what.base.revision < MaxRevision
    /\ what.base.revision <= doc.revision
    /\ what.base.revision = doc.revision => what.base = doc

\* A reader's document has not lost a step since, and no step changed its body.
ReadPlan(what, doc) ==
    /\ what \in ReadWork
    /\ what.request.step \in DOMAIN what.base.steps
    /\ \A s \in DOMAIN what.base.steps : /\ s \in DOMAIN doc.steps
                                         /\ doc.steps[s].body = what.base.steps[s].body

Plan(where, what, doc, docs) ==
    /\ where \in Saving => SavePlan(what, doc)
    /\ where = "read" => ReadPlan(what, doc)
    /\ where \in Saving /\ what.ok => where = "unlock"
    /\ where \in {"document", "index"} => what.base = doc
    /\ where = "unlock" /\ what.ok => what.next = doc
    /\ where = "document" => what.request \in AddRequest
    /\ where = "index" /\ what.request \in AddRequest =>
           docs[NewStepId(what.base)] = what.request.draft.body

Plans == \A p \in Procs : Plan(pc[p], work[p], index, instructions)

IInv ==
    /\ TypeOK
    /\ SoundTask(index)
    /\ OneWriter
    /\ NoDanglingInstruction
    /\ Plans

-----------------------------------------------------------------------------
LEMMA InitHolds == Init => IInv
<1> SUFFICES ASSUME NEW n \in 0..MaxSteps, NEW drafts \in [1..n -> Drafts],
                    NEW mode \in ReviewMode, CreatableDrafts(drafts),
                    index = CreatedTask(drafts, mode),
                    instructions = [s \in StepIds |->
                                       IF s \in DOMAIN drafts THEN drafts[s].body ELSE NoFile],
                    lock = FALSE,
                    pc = [p \in Procs |-> "idle"],
                    work = [p \in Procs |-> NoWork]
             PROVE  IInv
  BY DEF Init
<1>1. /\ index \in Task
      /\ SoundTask(index)
      /\ DOMAIN index.steps = DOMAIN drafts
      /\ \A s \in DOMAIN drafts : index.steps[s].body = drafts[s].body
  BY CreatedSound, DomainAssumption
<1>2. /\ DOMAIN drafts \subseteq StepIds
      /\ \A s \in DOMAIN drafts : drafts[s].body \in Bodies
  BY DomainAssumption DEF StepIds, StepDraft
<1>3. TypeOK
  BY <1>1, <1>2 DEF TypeOK
<1>4. NoDanglingInstruction
  BY <1>1, <1>2 DEF NoDanglingInstruction
<1>5. OneWriter /\ Plans
  BY DEF OneWriter, Plans, Plan, Writing, Saving
<1> QED
  BY <1>1, <1>3, <1>4, <1>5 DEF IInv

-----------------------------------------------------------------------------
\* Most steps leave the task and its instructions alone; they preserve the
\* invariant as soon as they keep the locals of one process right.
LEMMA QuietStep ==
    ASSUME IInv, NEW p \in Procs, NEW where, NEW what,
           index' = index, instructions' = instructions, lock' \in BOOLEAN,
           where \in Places, pc' = [pc EXCEPT ![p] = where],
           what \in SaveWork \cup ReadWork \cup {NoWork}, work' = [work EXCEPT ![p] = what],
           OneWriter',
           Plan(where, what, index, instructions)
    PROVE  IInv'
<1>1. TypeOK'
  BY DEF IInv, TypeOK, Places
<1>2. /\ pc'[p] = where /\ work'[p] = what
      /\ \A q \in Procs \ {p} : pc'[q] = pc[q] /\ work'[q] = work[q]
  BY DEF IInv, TypeOK
<1>3. Plans'
  BY <1>2 DEF IInv, Plans
<1>4. NoDanglingInstruction' /\ SoundTask(index)'
  BY DEF IInv, NoDanglingInstruction
<1> QED
  BY <1>1, <1>3, <1>4 DEF IInv

\* Leaving the critical section, or never having entered it, keeps exclusion.
LEMMA StillOneWriter ==
    ASSUME IInv, NEW p \in Procs, NEW where,
           pc' = [pc EXCEPT ![p] = where],
           where \in {"compare", "document", "index", "unlock"} => p \in Writing,
           \/ lock' = lock
           \/ p \in Writing /\ where = "idle"
    PROVE  OneWriter'
<1>1. pc'[p] = where /\ \A q \in Procs \ {p} : pc'[q] = pc[q]
  BY DEF IInv, TypeOK
<1>2. Writing' \subseteq Writing
  BY <1>1 DEF Writing
<1>3. p \in Writing /\ where = "idle" => Writing' = {}
  BY <1>1, <1>2 DEF IInv, OneWriter, Writing
<1> QED
  BY <1>2, <1>3 DEF IInv, OneWriter

LEMMA QuitHolds ==
    ASSUME IInv, NEW p \in Procs, Quit(p), UNCHANGED <<index, instructions>>,
           \/ lock' = lock
           \/ p \in Writing /\ lock' \in BOOLEAN
    PROVE  IInv'
<1>1. pc' = [pc EXCEPT ![p] = "idle"] /\ work' = [work EXCEPT ![p] = NoWork]
  BY DEF Quit, Goto
<1>2. Plan("idle", NoWork, index, instructions)
  BY DEF Plan, Saving
<1>3. OneWriter'
  BY <1>1, StillOneWriter
<1>4. lock' \in BOOLEAN
  BY DEF IInv, TypeOK
<1> QED
  BY <1>1, <1>2, <1>3, <1>4, QuietStep DEF Places

-----------------------------------------------------------------------------
LEMMA LoadHolds ==
    ASSUME IInv, NEW p \in Procs, Load(p)
    PROVE  IInv'
<1>1. PICK r \in Request :
         /\ Accepts(index, r)
         /\ work' = [work EXCEPT ![p] = [request |-> r, base |-> index,
                                         next |-> Result(index, r), ok |-> FALSE]]
  BY DEF Load
<1> DEFINE what == [request |-> r, base |-> index, next |-> Result(index, r), ok |-> FALSE]
<1>2. /\ pc' = [pc EXCEPT ![p] = "lock"]
      /\ UNCHANGED <<index, instructions, lock>>
      /\ index.revision < MaxRevision
      /\ index \in Task
      /\ index.revision \in Nat
      /\ pc \in [Procs -> {"idle", "lock", "compare", "document", "index", "unlock", "read"}]
      /\ work \in [Procs -> SaveWork \cup ReadWork \cup {NoWork}]
      /\ lock \in BOOLEAN
  BY DEF Load, Goto, IInv, TypeOK, Task
<1>3. Result(index, r) \in Task
  BY <1>1, <1>2, ResultSound, DomainAssumption
<1>4. what \in SaveWork
  BY <1>2, <1>3 DEF SaveWork
<1>5. SavePlan(what, index)
  BY <1>1, <1>2, <1>4 DEF SavePlan
<1>6. Plan("lock", what, index, instructions)
  BY <1>5 DEF Plan
<1>7. OneWriter'
  BY <1>2, StillOneWriter
<1> QED
  BY <1>1, <1>2, <1>4, <1>6, <1>7, QuietStep DEF Places

LEMMA LoadForReadingHolds ==
    ASSUME IInv, NEW p \in Procs, LoadForReading(p)
    PROVE  IInv'
<1>1. PICK s \in DOMAIN index.steps :
         work' = [work EXCEPT ![p] = [request |-> [op |-> "read", step |-> s], base |-> index]]
  BY DEF LoadForReading
<1> DEFINE what == [request |-> [op |-> "read", step |-> s], base |-> index]
<1>2. /\ pc' = [pc EXCEPT ![p] = "read"]
      /\ UNCHANGED <<index, instructions, lock>>
      /\ index \in Task
      /\ pc \in [Procs -> {"idle", "lock", "compare", "document", "index", "unlock", "read"}]
      /\ work \in [Procs -> SaveWork \cup ReadWork \cup {NoWork}]
      /\ lock \in BOOLEAN
  BY DEF LoadForReading, Goto, IInv, TypeOK
<1>3. s \in StepIds
  <2>1. index.steps \in Seq(Step) /\ Len(index.steps) <= MaxSteps /\ MaxSteps \in Nat
    BY <1>2, DomainAssumption DEF Task, IInv, SoundTask
  <2> QED
    BY <2>1, StepsAreIndexed DEF StepIds
<1>4. what \in ReadWork
  BY <1>2, <1>3 DEF ReadWork, ReadRequest
<1>5. Plan("read", what, index, instructions)
  BY <1>4 DEF Plan, ReadPlan, Saving
<1>6. OneWriter'
  BY <1>2, StillOneWriter
<1> QED
  BY <1>1, <1>2, <1>4, <1>5, <1>6, QuietStep DEF Places

LEMMA AcquireHolds ==
    ASSUME IInv, NEW p \in Procs, Acquire(p)
    PROVE  IInv'
<1>1. /\ pc[p] = "lock"
      /\ ~ lock
      /\ lock' = TRUE
      /\ pc' = [pc EXCEPT ![p] = "compare"]
      /\ UNCHANGED <<index, instructions, work>>
      /\ pc \in [Procs -> {"idle", "lock", "compare", "document", "index", "unlock", "read"}]
      /\ work \in [Procs -> SaveWork \cup ReadWork \cup {NoWork}]
  BY DEF Acquire, Goto, IInv, TypeOK
<1>2. pc'[p] = "compare" /\ \A q \in Procs \ {p} : pc'[q] = pc[q]
  BY <1>1
<1>3. Writing = {}
  BY <1>1 DEF IInv, OneWriter
<1>4. OneWriter'
  BY <1>1, <1>2, <1>3 DEF OneWriter, Writing
<1>5. Plan("lock", work[p], index, instructions)
  BY <1>1 DEF IInv, Plans
<1>6. Plan("compare", work[p], index, instructions) /\ work[p] \in SaveWork
  BY <1>5 DEF Plan, SavePlan, Saving
<1>7. work' = [work EXCEPT ![p] = work[p]]
  BY <1>1
<1> QED
  BY <1>1, <1>4, <1>6, <1>7, QuietStep DEF Places

LEMMA CompareHolds ==
    ASSUME IInv, NEW p \in Procs, Compare(p)
    PROVE  IInv'
<1> DEFINE where == IF index.revision # work[p].base.revision THEN "unlock"
                    ELSE IF work[p].request.op = "add" THEN "document"
                    ELSE "index"
<1>1. /\ pc[p] = "compare"
      /\ pc' = [pc EXCEPT ![p] = where]
      /\ UNCHANGED <<index, instructions, lock, work>>
      /\ pc \in [Procs -> {"idle", "lock", "compare", "document", "index", "unlock", "read"}]
      /\ work \in [Procs -> SaveWork \cup ReadWork \cup {NoWork}]
      /\ lock \in BOOLEAN
  BY DEF Compare, Goto, IInv, TypeOK
<1>2. pc'[p] = where /\ where \in {"document", "index", "unlock"}
  BY <1>1
<1>3. SavePlan(work[p], index) /\ ~ work[p].ok /\ work[p] \in SaveWork
  BY <1>1 DEF IInv, Plans, Plan, Saving, SavePlan
<1>4. work[p].request \in AddRequest <=> work[p].request.op = "add"
  BY <1>3 DEF SavePlan, SaveWork, Request, StartRequest, BlockRequest, DoneRequest, AddRequest,
              CheckpointRequest, ReviewsRequest
<1>5. where \in {"document", "index"} => work[p].base = index
  BY <1>3 DEF SavePlan
<1>6. Plan(where, work[p], index, instructions)
  BY <1>2, <1>3, <1>4, <1>5 DEF Plan, Saving
<1>7. OneWriter'
  BY <1>1, <1>2, StillOneWriter DEF Writing
<1>8. work' = [work EXCEPT ![p] = work[p]]
  BY <1>1
<1> HIDE DEF where
<1> QED
  BY <1>1, <1>2, <1>3, <1>6, <1>7, <1>8, QuietStep DEF Places

LEMMA FailSaveHolds ==
    ASSUME IInv, NEW p \in Procs, FailSave(p)
    PROVE  IInv'
<1>1. /\ pc[p] \in {"compare", "document", "index"}
      /\ pc' = [pc EXCEPT ![p] = "unlock"]
      /\ UNCHANGED <<index, instructions, lock, work>>
      /\ pc \in [Procs -> {"idle", "lock", "compare", "document", "index", "unlock", "read"}]
      /\ work \in [Procs -> SaveWork \cup ReadWork \cup {NoWork}]
      /\ lock \in BOOLEAN
  BY DEF FailSave, Goto, IInv, TypeOK
<1>2. pc'[p] = "unlock"
  BY <1>1
<1>3. SavePlan(work[p], index) /\ ~ work[p].ok /\ work[p] \in SaveWork
  BY <1>1 DEF IInv, Plans, Plan, Saving, SavePlan
<1>4. Plan("unlock", work[p], index, instructions)
  BY <1>3 DEF Plan, Saving
<1>5. OneWriter'
  BY <1>1, StillOneWriter DEF Writing
<1>6. work' = [work EXCEPT ![p] = work[p]]
  BY <1>1
<1> QED
  BY <1>1, <1>3, <1>4, <1>5, <1>6, QuietStep DEF Places

-----------------------------------------------------------------------------
\* No other process is in its critical section while p writes.
LEMMA Alone ==
    ASSUME IInv, NEW p \in Procs, p \in Writing
    PROVE  \A q \in Procs \ {p} : pc[q] \in {"idle", "lock", "read"}
BY DEF IInv, TypeOK, OneWriter, Writing

LEMMA WriteDocumentHolds ==
    ASSUME IInv, NEW p \in Procs, WriteDocument(p)
    PROVE  IInv'
<1> DEFINE new == NewStepId(index)
           request == work[p].request
<1>1. /\ pc[p] = "document"
      /\ Plan("document", work[p], index, instructions)
      /\ \A q \in Procs : Plan(pc[q], work[q], index, instructions)
      /\ \A q \in Procs \ {p} : pc[q] \in {"idle", "lock", "read"}
      /\ index \in Task
      /\ pc \in [Procs -> Places]
      /\ work \in [Procs -> SaveWork \cup ReadWork \cup {NoWork}]
      /\ instructions \in [StepIds -> Bodies \cup {NoFile}]
  BY Alone DEF WriteDocument, Writing, IInv, Plans, TypeOK, Places
<1>2. /\ SavePlan(work[p], index)
      /\ work[p].base = index
      /\ request \in AddRequest
      /\ ~ work[p].ok
  BY <1>1 DEF Plan, Saving
<1>3. /\ instructions' = [instructions EXCEPT ![new] = request.draft.body]
      /\ pc' = [pc EXCEPT ![p] = "index"]
      /\ index' = index /\ lock' = lock /\ work' = work
  BY <1>2 DEF WriteDocument, Goto
<1>4. /\ new \in StepIds
      /\ new \notin DOMAIN index.steps
      /\ request.draft.body \in Bodies
  <2>1. AcceptsAdd(index, request)
    BY <1>2 DEF SavePlan, Accepts, AddRequest
  <2>2. /\ Len(index.steps) \in Nat
        /\ Len(index.steps) < MaxSteps
        /\ MaxSteps \in Nat
        /\ DOMAIN index.steps = 1..Len(index.steps)
    BY <2>1, <1>1, StepsAreIndexed, DomainAssumption DEF AcceptsAdd, Task
  <2>3. request.draft \in StepDraft
    BY <1>2, DomainAssumption DEF AddRequest
  <2> QED
    BY <2>2, <2>3 DEF NewStepId, StepIds, StepDraft
<1>5. /\ instructions'[new] = request.draft.body
      /\ \A s \in DOMAIN index.steps : instructions'[s] = instructions[s]
      /\ instructions' \in [StepIds -> Bodies \cup {NoFile}]
  <2>1. DOMAIN index.steps \subseteq StepIds
    BY <1>1, StepsAreIndexed, DomainAssumption DEF IInv, SoundTask, Task, StepIds
  <2> QED
    BY <2>1, <1>1, <1>3, <1>4
<1>6. TypeOK'
  BY <1>3, <1>5 DEF IInv, TypeOK
<1>7. NoDanglingInstruction'
  BY <1>3, <1>5 DEF IInv, NoDanglingInstruction
<1>8. /\ pc'[p] = "index"
      /\ \A q \in Procs \ {p} : pc'[q] = pc[q]
  BY <1>1, <1>3
<1>9. OneWriter'
  BY <1>1, <1>3, StillOneWriter DEF Writing
<1>10. Plans'
  <2>1. Plan("index", work[p], index, instructions')
    BY <1>2, <1>5 DEF Plan, Saving
  <2>2. \A q \in Procs \ {p} : Plan(pc[q], work[q], index, instructions')
    BY <1>1 DEF Plan
  <2> QED
    BY <2>1, <2>2, <1>3, <1>8 DEF Plans
<1> QED
  BY <1>3, <1>6, <1>7, <1>9, <1>10 DEF IInv

\* The rename that publishes the new task.json.
LEMMA WriteIndexHolds ==
    ASSUME IInv, NEW p \in Procs, WriteIndex(p)
    PROVE  /\ IInv'
           /\ Accepts(index, work[p].request)
           /\ index' = Result(index, work[p].request)
           /\ index.revision < MaxRevision
           /\ work[p].request \in Request
<1> DEFINE request == work[p].request
<1>1. /\ pc[p] = "index"
      /\ Plan("index", work[p], index, instructions)
      /\ \A q \in Procs : Plan(pc[q], work[q], index, instructions)
      /\ \A q \in Procs \ {p} : pc[q] \in {"idle", "lock", "read"}
      /\ index \in Task
      /\ index.revision \in Nat
      /\ SoundTask(index)
      /\ pc \in [Procs -> Places]
      /\ work \in [Procs -> SaveWork \cup ReadWork \cup {NoWork}]
  BY Alone DEF WriteIndex, Writing, IInv, Plans, TypeOK, Places, Task
<1>2. /\ SavePlan(work[p], index)
      /\ work[p].base = index
      /\ work[p] \in SaveWork
      /\ request \in Request
      /\ Accepts(index, request)
      /\ index.revision < MaxRevision
      /\ request \in AddRequest => instructions[NewStepId(index)] = request.draft.body
  BY <1>1 DEF Plan, Saving, SavePlan, SaveWork
<1>3. /\ index' = Result(index, request)
      /\ work' = [work EXCEPT ![p] = [work[p] EXCEPT !.ok = TRUE]]
      /\ pc' = [pc EXCEPT ![p] = "unlock"]
      /\ instructions' = instructions /\ lock' = lock
  BY <1>1, <1>2 DEF WriteIndex, Goto, SavePlan
<1>4. /\ index' \in Task
      /\ index'.revision = index.revision + 1
      /\ SoundTask(index')
  BY <1>1, <1>2, <1>3, ResultSound, DomainAssumption
<1>5. /\ \A s \in DOMAIN index.steps : /\ s \in DOMAIN index'.steps
                                       /\ index'.steps[s].body = index.steps[s].body
      /\ IF request \in AddRequest
         THEN /\ DOMAIN index'.steps = DOMAIN index.steps \cup {NewStepId(index)}
              /\ index'.steps[NewStepId(index)].body = request.draft.body
         ELSE DOMAIN index'.steps = DOMAIN index.steps
  BY <1>1, <1>2, <1>3, ResultKeeps, DomainAssumption
<1> DEFINE what == [work[p] EXCEPT !.ok = TRUE]
<1>6. /\ what \in SaveWork
      /\ what.base = index /\ what.next = index' /\ what.request = request
      /\ what.next = Result(index, request)
  BY <1>2, <1>3 DEF SaveWork, SavePlan
<1>7. TypeOK'
  BY <1>3, <1>4, <1>6 DEF IInv, TypeOK
<1>8. NoDanglingInstruction'
  BY <1>2, <1>3, <1>5 DEF IInv, NoDanglingInstruction
<1>9. OneWriter'
  BY <1>1, <1>3, StillOneWriter DEF Writing
<1>10. /\ pc'[p] = "unlock" /\ work'[p] = what
       /\ \A q \in Procs \ {p} : pc'[q] = pc[q] /\ work'[q] = work[q]
  BY <1>1, <1>3
<1> HIDE DEF what
<1>11. Plans'
  <2>1. Plan("unlock", what, index', instructions)
    <3>1. SavePlan(what, index')
      BY <1>1, <1>2, <1>4, <1>6 DEF SavePlan
    <3> QED
      BY <3>1, <1>6 DEF Plan
  <2>2. ASSUME NEW q \in Procs \ {p}
        PROVE  Plan(pc[q], work[q], index', instructions)
    <3>1. Plan(pc[q], work[q], index, instructions) /\ pc[q] \in {"idle", "lock", "read"}
      BY <1>1
    <3>2. CASE pc[q] = "lock"
      <4>1. SavePlan(work[q], index) /\ ~ work[q].ok
        BY <3>1, <3>2 DEF Plan, Saving
      <4>2. work[q].base.revision \in Nat
        BY <4>1 DEF SavePlan, SaveWork, Task
      <4>3. SavePlan(work[q], index')
        BY <4>1, <4>2, <1>1, <1>4 DEF SavePlan
      <4> QED
        BY <4>1, <4>3, <3>2 DEF Plan
    <3>3. CASE pc[q] = "read"
      BY <3>1, <3>3, <1>5 DEF Plan, ReadPlan, Saving
    <3>4. CASE pc[q] = "idle"
      BY <3>4 DEF Plan, Saving
    <3> QED
      BY <3>1, <3>2, <3>3, <3>4
  <2> QED
    BY <2>1, <2>2, <1>3, <1>10 DEF Plans
<1> QED
  BY <1>2, <1>3, <1>4, <1>7, <1>8, <1>9, <1>11 DEF IInv

LEMMA RemoveStaleLockHolds ==
    ASSUME IInv, RemoveStaleLock
    PROVE  IInv'
<1>1. TypeOK'
  BY DEF RemoveStaleLock, IInv, TypeOK
<1>2. OneWriter'
  BY DEF RemoveStaleLock, OneWriter, Writing
<1>3. NoDanglingInstruction' /\ SoundTask(index)' /\ Plans'
  BY DEF RemoveStaleLock, IInv, NoDanglingInstruction, Plans
<1> QED
  BY <1>1, <1>2, <1>3 DEF IInv

-----------------------------------------------------------------------------
LEMMA NextHolds == IInv /\ [Next]_vars => IInv'
<1> SUFFICES ASSUME IInv, [Next]_vars
             PROVE  IInv'
  OBVIOUS
<1>1. ASSUME NEW p \in Procs, Load(p) PROVE IInv'
  BY <1>1, LoadHolds
<1>2. ASSUME NEW p \in Procs, LoadForReading(p) PROVE IInv'
  BY <1>2, LoadForReadingHolds
<1>3. ASSUME NEW p \in Procs, Acquire(p) PROVE IInv'
  BY <1>3, AcquireHolds
<1>4. ASSUME NEW p \in Procs, FindLocked(p) PROVE IInv'
  BY <1>4, QuitHolds DEF FindLocked
<1>5. ASSUME NEW p \in Procs, Compare(p) PROVE IInv'
  BY <1>5, CompareHolds
<1>6. ASSUME NEW p \in Procs, WriteDocument(p) PROVE IInv'
  BY <1>6, WriteDocumentHolds
<1>7. ASSUME NEW p \in Procs, WriteIndex(p) PROVE IInv'
  BY <1>7, WriteIndexHolds
<1>8. ASSUME NEW p \in Procs, FailSave(p) PROVE IInv'
  BY <1>8, FailSaveHolds
<1>9. ASSUME NEW p \in Procs, Unlock(p) PROVE IInv'
  <2>1. p \in Writing /\ lock' \in BOOLEAN
    BY <1>9 DEF Unlock, Writing, IInv, TypeOK
  <2> QED
    BY <1>9, <2>1, QuitHolds DEF Unlock
<1>10. ASSUME NEW p \in Procs, ReadDocument(p) PROVE IInv'
  BY <1>10, QuitHolds DEF ReadDocument
<1>11. ASSUME NEW p \in Procs, Crash(p) PROVE IInv'
  BY <1>11, QuitHolds DEF Crash
<1>12. CASE RemoveStaleLock
  BY <1>12, RemoveStaleLockHolds
<1>13. CASE UNCHANGED vars
  <2>1. /\ index' = index /\ instructions' = instructions /\ lock' = lock
        /\ pc' = pc /\ work' = work
    BY <1>13 DEF vars
  <2> QED
    BY <2>1 DEF IInv, TypeOK, OneWriter, Writing, NoDanglingInstruction, Plans
<1> QED
  BY <1>1, <1>2, <1>3, <1>4, <1>5, <1>6, <1>7, <1>8, <1>9, <1>10, <1>11, <1>12, <1>13
     DEF Next, Proceed

THEOREM Invariance == Spec => []IInv
<1> QED
  BY InitHolds, NextHolds, PTL DEF Spec

\* Index, instruction documents, lock and processes keep their types.
THEOREM TypeCorrect == Spec => []TypeOK
<1>1. IInv => TypeOK
  BY DEF IInv
<1> QED
  BY <1>1, Invariance, PTL

\* O_EXCL and the advice of the LOCKED message exclude concurrent savers.
THEOREM MutualExclusion == Spec => []OneWriter
<1>1. IInv => OneWriter
  BY DEF IInv
<1> QED
  BY <1>1, Invariance, PTL

\* The task does not move between the comparison of revisions and the rename.
THEOREM Fenced == Spec => []SaveIsFenced
<1>1. IInv => SaveIsFenced
  BY DEF IInv, Plans, Plan, SaveIsFenced
<1> QED
  BY <1>1, Invariance, PTL

\* Every step of the index has its own instruction document, crashes included.
THEOREM NoDangling == Spec => []NoDanglingInstruction
<1>1. IInv => NoDanglingInstruction
  BY DEF IInv
<1> QED
  BY <1>1, Invariance, PTL

\* A reader opens the document of the step it saw, whatever was saved since.
THEOREM ReadersAgree == Spec => []ReaderSeesItsStep
<1>1. IInv => ReaderSeesItsStep
  BY DEF IInv, Plans, Plan, ReadPlan, NoDanglingInstruction, ReaderSeesItsStep
<1> QED
  BY <1>1, Invariance, PTL

\* The --expected-revision of a command holds at the moment it publishes.
THEOREM CallersAreFenced == Spec => CallerFence
<1>1. IInv /\ [Next]_vars =>
        [\A p \in Procs :
            pc[p] = "index" /\ pc'[p] = "unlock" /\ work'[p].ok =>
                RevisionMatches(index, work[p].request)]_vars
  <2> SUFFICES ASSUME IInv, NEW p \in Procs, pc[p] = "index"
               PROVE  RevisionMatches(index, work[p].request)
    OBVIOUS
  <2>1. SavePlan(work[p], index) /\ work[p].base = index
    BY DEF IInv, Plans, Plan, Saving
  <2>2. Accepts(index, work[p].request) /\ work[p].request \in Request
    BY <2>1 DEF SavePlan, SaveWork
  <2> QED
    BY <2>2 DEF Accepts, AcceptsTransition, AcceptsDone, AcceptsAdd, AcceptsCheckpoint, AcceptsReviews,
                Request, StartRequest, BlockRequest, DoneRequest, AddRequest, CheckpointRequest,
                ReviewsRequest
<1> QED
  BY <1>1, Invariance, PTL DEF Spec, CallerFence

-----------------------------------------------------------------------------
(* TaskAtomic instantiates the same operators under its own names. *)

LEMMA SameRequests == Atomic!Request = Request
BY DEF Request, StartRequest, BlockRequest, DoneRequest, AddRequest, CheckpointRequest, ReviewsRequest,
       MaybeCheckpoint, MaybeRevision, StepIds, ReviewMode, NoRevision,
       Atomic!Request, Atomic!StartRequest, Atomic!BlockRequest, Atomic!DoneRequest, Atomic!AddRequest,
       Atomic!CheckpointRequest, Atomic!ReviewsRequest, Atomic!MaybeCheckpoint,
       Atomic!MaybeRevision, Atomic!StepIds, Atomic!ReviewMode, Atomic!NoRevision

LEMMA SameStatus ==
    ASSUME NEW steps
    PROVE  Atomic!DeriveTaskStatus(steps) = DeriveTaskStatus(steps)
BY DEF DeriveTaskStatus, IsDone, Atomic!DeriveTaskStatus, Atomic!IsDone

LEMMA SameCompletion ==
    ASSUME NEW steps, NEW s
    PROVE  Atomic!ToComplete(steps, s) = ToComplete(steps, s)
BY DEF ToComplete, HostCompletedBy, OpenUnder, ChildrenOf, IsDone, NoParent,
       Atomic!ToComplete, Atomic!HostCompletedBy, Atomic!OpenUnder, Atomic!ChildrenOf, Atomic!IsDone,
       Atomic!NoParent

LEMMA SameAccepts ==
    ASSUME NEW doc, NEW r
    PROVE  Atomic!Accepts(doc, r) <=> Accepts(doc, r)
BY DEF Accepts, AcceptsTransition, AcceptsDone, AcceptsAdd, AcceptsCheckpoint, AcceptsReviews,
       RevisionMatches, TargetStatus, CheckpointChanged, ParentRelation, NewStepId, IsDone,
       NoParent, NoRevision,
       Atomic!Accepts, Atomic!AcceptsTransition, Atomic!AcceptsDone, Atomic!AcceptsAdd,
       Atomic!AcceptsCheckpoint, Atomic!AcceptsReviews, Atomic!RevisionMatches, Atomic!TargetStatus,
       Atomic!CheckpointChanged, Atomic!ParentRelation, Atomic!NewStepId, Atomic!IsDone,
       Atomic!NoParent, Atomic!NoRevision

LEMMA SameResult ==
    ASSUME NEW doc, NEW r
    PROVE  Atomic!Result(doc, r) = Result(doc, r)
<1>1. \A steps : Atomic!DeriveTaskStatus(steps) = DeriveTaskStatus(steps)
  BY SameStatus
<1>2. \A steps, s : Atomic!ToComplete(steps, s) = ToComplete(steps, s)
  BY SameCompletion
<1>3. \A t, steps : Atomic!Amended(t, steps) = Amended(t, steps)
  BY <1>1 DEF Amended, Atomic!Amended
<1>4. \A t, checkpoint : Atomic!WithCheckpoint(t, checkpoint) = WithCheckpoint(t, checkpoint)
  BY DEF WithCheckpoint, Atomic!WithCheckpoint
<1>5. Atomic!TransitionResult(doc, r) = TransitionResult(doc, r)
  BY <1>3, <1>4 DEF TransitionResult, TargetStatus, Atomic!TransitionResult, Atomic!TargetStatus
<1>6. Atomic!DoneResult(doc, r) = DoneResult(doc, r)
  BY <1>2, <1>3, <1>4 DEF DoneResult, MarkDone, Atomic!DoneResult, Atomic!MarkDone
<1>7. Atomic!AddResult(doc, r) = AddResult(doc, r)
  BY <1>3 DEF AddResult, BuildPendingStep, Atomic!AddResult, Atomic!BuildPendingStep
<1>8. Atomic!CheckpointResult(doc, r) = CheckpointResult(doc, r)
  BY <1>4 DEF CheckpointResult, Atomic!CheckpointResult
<1>9. Atomic!ReviewsResult(doc, r) = ReviewsResult(doc, r)
  BY DEF ReviewsResult, Atomic!ReviewsResult
<1> QED
  BY <1>5, <1>6, <1>7, <1>8, <1>9 DEF Result, Atomic!Result

LEMMA InitImplements == Init => Atomic!Init
<1>1. \A drafts : Atomic!CreatableDrafts(drafts) <=> CreatableDrafts(drafts)
  BY DEF CreatableDrafts, ParentRelation, NoParent,
         Atomic!CreatableDrafts, Atomic!ParentRelation, Atomic!NoParent
<1>2. \A drafts, mode : Atomic!CreatedTask(drafts, mode) = CreatedTask(drafts, mode)
  BY SameStatus DEF CreatedTask, BuildPendingStep, Atomic!CreatedTask, Atomic!BuildPendingStep
<1>3. Atomic!ReviewMode = ReviewMode
  BY DEF ReviewMode, Atomic!ReviewMode
<1> QED
  BY <1>1, <1>2, <1>3 DEF Init, Atomic!Init

LEMMA CommitImplements ==
    ASSUME NEW r \in Request, Accepts(index, r), index' = Result(index, r),
           index.revision < MaxRevision
    PROVE  Atomic!Next
<1>1. Atomic!Commit(r)
  BY SameAccepts, SameResult DEF Atomic!Commit
<1>2. r \in Atomic!Request
  BY SameRequests
<1> QED
  BY <1>1, <1>2 DEF Atomic!Request, Atomic!Next, Atomic!StartStep, Atomic!BlockStep, Atomic!MarkStepDone,
                    Atomic!AddStep, Atomic!SetCheckpoint, Atomic!SetReviews

LEMMA NextImplements == IInv /\ [Next]_vars => [Atomic!Next]_index
<1> SUFFICES ASSUME IInv, [Next]_vars
             PROVE  [Atomic!Next]_index
  OBVIOUS
<1>1. ASSUME NEW p \in Procs, WriteIndex(p)
      PROVE  Atomic!Next
  BY <1>1, WriteIndexHolds, CommitImplements
<1>2. CASE \A p \in Procs : ~ WriteIndex(p)
  <2>1. index' = index
    BY <1>2 DEF Next, Proceed, Load, LoadForReading, Acquire, FindLocked, Compare, WriteDocument,
                FailSave, Unlock, ReadDocument, Crash, RemoveStaleLock, vars
  <2> QED
    BY <2>1
<1> QED
  BY <1>1, <1>2

\* Through task.json, any number of concurrent and crashing processes look like
\* one user executing whole commands in some order: TaskStore implements
\* TaskAtomic, step by step.
THEOREM StoreImplementsAtomic == Spec => ImplementsAtomic
<1> QED
  BY InitImplements, NextImplements, Invariance, PTL DEF Spec, ImplementsAtomic, Atomic!Spec
=============================================================================
