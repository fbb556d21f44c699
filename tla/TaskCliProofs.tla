---------------------------- MODULE TaskCliProofs ----------------------------
(***************************************************************************)
(* The promises of the task notebook, for every bound, every draft and     *)
(* every sequence of commands: of the service, whatever requests it gets,  *)
(* and of the command line, whatever lines are typed.                      *)
(***************************************************************************)
EXTENDS TaskCli, TaskDomainProofs, FiniteSetTheorems

\* What every document satisfies, and what the next one then satisfies too.
\* Nesting is needed beside HostDoneWithChildren: completion is only right
\* because the children of a host have no children of their own.
IInv == task \in Task /\ SoundTask(task)

LEMMA InitSound == Init => IInv
<1> SUFFICES ASSUME NEW n \in 0..MaxSteps, NEW drafts \in [1..n -> Drafts],
                    NEW mode \in ReviewMode, CreatableDrafts(drafts),
                    task = CreatedTask(drafts, mode)
             PROVE  IInv
  BY DEF Init
<1> QED
  BY CreatedSound, DomainAssumption DEF IInv

\* Each action is a commit of one request.
LEMMA NextCommits ==
    ASSUME Next
    PROVE  \E r \in Request : Commit(r)
BY DEF Next, StartStep, BlockStep, MarkStepDone, AddStep, SetCheckpoint, SetReviews, Request

LEMMA NextSound == IInv /\ [Next]_task => IInv'
<1> SUFFICES ASSUME IInv, [Next]_task
             PROVE  IInv'
  OBVIOUS
<1>1. CASE Next
  <2>1. PICK r \in Request : Commit(r)
    BY <1>1, NextCommits
  <2>2. Accepts(task, r) /\ task' = Result(task, r)
    BY <2>1 DEF Commit
  <2> QED
    BY <2>2, ResultSound, DomainAssumption DEF IInv
<1>2. CASE UNCHANGED task
  BY <1>2 DEF IInv
<1> QED
  BY <1>1, <1>2

THEOREM Invariance == Spec => []IInv
<1> QED
  BY InitSound, NextSound, PTL DEF Spec

-----------------------------------------------------------------------------
\* What a sound document promises its readers.
LEMMA SoundDocument ==
    ASSUME IInv
    PROVE  TypeOK /\ StructureParsesBack /\ HostDoneWithChildren /\ AnnotationsMatchStatus /\ NextStepFindsWork
<1>1. TypeOK
  BY DEF IInv, TypeOK
<1>2. StructureParsesBack
  BY DEF IInv, StructureParsesBack, SoundTask, SoundSteps, WellNested, StructureParses, Task
<1>3. HostDoneWithChildren
  BY DEF IInv, HostDoneWithChildren, SoundTask, SoundSteps, HostsFollowChildren
<1>4. AnnotationsMatchStatus
  BY DEF IInv, AnnotationsMatchStatus, SoundTask, SoundSteps, Annotated
<1>5. NextStepFindsWork
  <2>1. /\ task.steps \in Seq(Step)
        /\ WellNested(task.steps)
        /\ HostsFollowChildren(task.steps)
        /\ task.status = DeriveTaskStatus(task.steps)
    BY DEF IInv, SoundTask, SoundSteps, Task
  <2> QED
    BY <2>1, NextStepOfSound DEF NextStepFindsWork
<1> QED
  BY <1>1, <1>2, <1>3, <1>4, <1>5

\* Every reachable document has the shape the schema describes.
THEOREM TypeCorrect == Spec => []TypeOK
<1>1. IInv => TypeOK
  BY SoundDocument
<1> QED
  BY <1>1, Invariance, PTL

\* No sequence of commands leaves a structure that parseTask rejects: steps
\* beyond the limit, a host that is itself hosted, a checkpoint under schema 1.
THEOREM StructureIsKept == Spec => []StructureParsesBack
<1>1. IInv => StructureParsesBack
  BY SoundDocument
<1> QED
  BY <1>1, Invariance, PTL

\* markStepDone and addStep keep every host done exactly when its children are.
THEOREM HostsAgree == Spec => []HostDoneWithChildren
<1>1. IInv => HostDoneWithChildren
  BY SoundDocument
<1> QED
  BY <1>1, Invariance, PTL

\* Reasons and stamps stand exactly where the statuses call for them.
THEOREM AnnotationsAgree == Spec => []AnnotationsMatchStatus
<1>1. IInv => AnnotationsMatchStatus
  BY SoundDocument
<1> QED
  BY <1>1, Invariance, PTL

\* computeNextStepId finds open work as long as the task is not done, and work
\* that nothing under it holds up.
THEOREM NextStepIsWork == Spec => []NextStepFindsWork
<1>1. IInv => NextStepFindsWork
  BY SoundDocument
<1> QED
  BY <1>1, Invariance, PTL

\* No command reopens, restamps or drops a step declared done.
THEOREM DoneStaysDone == Spec => DoneIsFinal
<1>1. IInv /\ [Next]_task =>
        [\A s \in DOMAIN task.steps :
            IsDone(task.steps, s) =>
                s \in DOMAIN task'.steps /\ task'.steps[s] = task.steps[s]]_task
  <2> SUFFICES ASSUME IInv, Next
               PROVE  \A s \in DOMAIN task.steps :
                         IsDone(task.steps, s) =>
                             s \in DOMAIN task'.steps /\ task'.steps[s] = task.steps[s]
    OBVIOUS
  <2>1. PICK r \in Request : Commit(r)
    BY NextCommits
  <2>2. Accepts(task, r) /\ task' = Result(task, r)
    BY <2>1 DEF Commit
  <2> QED
    BY <2>2, ResultKeeps, DomainAssumption DEF IInv
<1> QED
  BY <1>1, Invariance, PTL DEF Spec, DoneIsFinal

-----------------------------------------------------------------------------
(* The command line.  What a line asks for is a request of the service, but  *)
(* for the reason that the line of a `next done` carries along.              *)

LEMMA RefusalIsFirst ==
    ASSUME NEW codes, DOMAIN codes \subseteq Nat
    PROVE  /\ FirstRefusal(codes) = "OK" <=> \A i \in DOMAIN codes : codes[i] = "OK"
           /\ FirstRefusal(codes) = "OK" \/ \E i \in DOMAIN codes : FirstRefusal(codes) = codes[i]
<1> DEFINE refusals == {i \in DOMAIN codes : codes[i] # "OK"}
<1>1. CASE refusals = {}
  BY <1>1 DEF FirstRefusal
<1>2. CASE refusals # {}
  <2>1. FirstOf(refusals) \in refusals
    <3> HIDE DEF refusals
    <3>1. refusals \in SUBSET Nat
      BY DEF refusals
    <3> QED
      BY <1>2, <3>1, FirstOfIsFirst
  <2>2. FirstRefusal(codes) = codes[FirstOf(refusals)]
    BY <1>2 DEF FirstRefusal
  <2> QED
    BY <2>1, <2>2
<1> QED
  BY <1>1, <1>2

LEMMA RefusalOfTwo ==
    ASSUME NEW a, NEW b
    PROVE  /\ FirstRefusal(<<a, b>>) = "OK" <=> (a = "OK" /\ b = "OK")
           /\ FirstRefusal(<<a, b>>) \in {"OK", a, b}
<1> DEFINE codes == <<a, b>>
<1>1. DOMAIN codes = 1..2 /\ codes[1] = a /\ codes[2] = b
  OBVIOUS
<1> HIDE DEF codes
<1>2. /\ FirstRefusal(codes) = "OK" <=> \A i \in DOMAIN codes : codes[i] = "OK"
      /\ FirstRefusal(codes) = "OK" \/ \E i \in DOMAIN codes : FirstRefusal(codes) = codes[i]
  BY <1>1, RefusalIsFirst
<1>3. /\ \A i \in DOMAIN codes : i = 1 \/ i = 2
      /\ 1 \in DOMAIN codes /\ 2 \in DOMAIN codes
  BY <1>1
<1>4. /\ FirstRefusal(codes) = "OK" <=> (a = "OK" /\ b = "OK")
      /\ FirstRefusal(codes) \in {"OK", a, b}
  BY <1>1, <1>2, <1>3, Zenon
<1> QED
  BY <1>4 DEF codes

LEMMA RefusalOfThree ==
    ASSUME NEW a, NEW b, NEW c
    PROVE  /\ FirstRefusal(<<a, b, c>>) = "OK" <=> (a = "OK" /\ b = "OK" /\ c = "OK")
           /\ FirstRefusal(<<a, b, c>>) \in {"OK", a, b, c}
<1> DEFINE codes == <<a, b, c>>
<1>1. DOMAIN codes = 1..3 /\ codes[1] = a /\ codes[2] = b /\ codes[3] = c
  OBVIOUS
<1> HIDE DEF codes
<1>2. /\ FirstRefusal(codes) = "OK" <=> \A i \in DOMAIN codes : codes[i] = "OK"
      /\ FirstRefusal(codes) = "OK" \/ \E i \in DOMAIN codes : FirstRefusal(codes) = codes[i]
  BY <1>1, RefusalIsFirst
<1>3. /\ \A i \in DOMAIN codes : i = 1 \/ i = 2 \/ i = 3
      /\ 1 \in DOMAIN codes /\ 2 \in DOMAIN codes /\ 3 \in DOMAIN codes
  BY <1>1
<1>4. /\ FirstRefusal(codes) = "OK" <=> (a = "OK" /\ b = "OK" /\ c = "OK")
      /\ FirstRefusal(codes) \in {"OK", a, b, c}
  BY <1>1, <1>2, <1>3, Zenon
<1> QED
  BY <1>4 DEF codes

LEMMA RefusalOfFour ==
    ASSUME NEW a, NEW b, NEW c, NEW d
    PROVE  /\ FirstRefusal(<<a, b, c, d>>) = "OK" <=> (a = "OK" /\ b = "OK" /\ c = "OK" /\ d = "OK")
           /\ FirstRefusal(<<a, b, c, d>>) \in {"OK", a, b, c, d}
<1> DEFINE codes == <<a, b, c, d>>
<1>1. DOMAIN codes = 1..4 /\ codes[1] = a /\ codes[2] = b /\ codes[3] = c /\ codes[4] = d
  OBVIOUS
<1> HIDE DEF codes
<1>2. /\ FirstRefusal(codes) = "OK" <=> \A i \in DOMAIN codes : codes[i] = "OK"
      /\ FirstRefusal(codes) = "OK" \/ \E i \in DOMAIN codes : FirstRefusal(codes) = codes[i]
  BY <1>1, RefusalIsFirst
<1>3. /\ \A i \in DOMAIN codes : i = 1 \/ i = 2 \/ i = 3 \/ i = 4
      /\ 1 \in DOMAIN codes /\ 2 \in DOMAIN codes /\ 3 \in DOMAIN codes /\ 4 \in DOMAIN codes
  BY <1>1
<1>4. /\ FirstRefusal(codes) = "OK" <=> (a = "OK" /\ b = "OK" /\ c = "OK" /\ d = "OK")
      /\ FirstRefusal(codes) \in {"OK", a, b, c, d}
  BY <1>1, <1>2, <1>3, Zenon
<1> QED
  BY <1>4 DEF codes

LEMMA RefusalOfFive ==
    ASSUME NEW a, NEW b, NEW c, NEW d, NEW e
    PROVE  /\ FirstRefusal(<<a, b, c, d, e>>) = "OK" <=> (a = "OK" /\ b = "OK" /\ c = "OK" /\ d = "OK" /\ e = "OK")
           /\ FirstRefusal(<<a, b, c, d, e>>) \in {"OK", a, b, c, d, e}
<1> DEFINE codes == <<a, b, c, d, e>>
<1>1. DOMAIN codes = 1..5 /\ codes[1] = a /\ codes[2] = b /\ codes[3] = c /\ codes[4] = d /\ codes[5] = e
  OBVIOUS
<1> HIDE DEF codes
<1>2. /\ FirstRefusal(codes) = "OK" <=> \A i \in DOMAIN codes : codes[i] = "OK"
      /\ FirstRefusal(codes) = "OK" \/ \E i \in DOMAIN codes : FirstRefusal(codes) = codes[i]
  BY <1>1, RefusalIsFirst
<1>3. /\ \A i \in DOMAIN codes : i = 1 \/ i = 2 \/ i = 3 \/ i = 4 \/ i = 5
      /\ 1 \in DOMAIN codes /\ 2 \in DOMAIN codes /\ 3 \in DOMAIN codes /\ 4 \in DOMAIN codes /\ 5 \in DOMAIN codes
  BY <1>1
<1>4. /\ FirstRefusal(codes) = "OK" <=> (a = "OK" /\ b = "OK" /\ c = "OK" /\ d = "OK" /\ e = "OK")
      /\ FirstRefusal(codes) \in {"OK", a, b, c, d, e}
  BY <1>1, <1>2, <1>3, Zenon
<1> QED
  BY <1>4 DEF codes

LEMMA DemandMet ==
    ASSUME NEW condition \in BOOLEAN
    PROVE  /\ Demand(condition) = "OK" <=> condition
           /\ Demand(condition) \in {"OK", "INVALID_ARGUMENT"}
BY DEF Demand

-----------------------------------------------------------------------------
\* The words at some places of a line are a sequence of as many.
LEMMA PlacesAreFinite ==
    ASSUME NEW words \in Seq(STRING), NEW where \in SUBSET (DOMAIN words)
    PROVE  IsFiniteSet(where)
<1>1. Len(words) \in Nat /\ DOMAIN words = 1..Len(words)
  OBVIOUS
<1>2. IsFiniteSet(1..Len(words))
  BY <1>1, FS_Interval
<1> QED
  BY <1>1, <1>2, FS_Subset

LEMMA LengthOfFunction ==
    ASSUME NEW n \in Nat, NEW f, f = [i \in 1..n |-> f[i]]
    PROVE  /\ f \in Seq({f[i] : i \in 1..n})
           /\ Len(f) = n
           /\ f = <<>> <=> n = 0
<1>1. f \in [1..n -> {f[i] : i \in 1..n}]
  OBVIOUS
<1>2. f \in Seq({f[i] : i \in 1..n}) /\ Len(f) = n
  BY <1>1
<1>3. n = 0 => f = <<>>
  BY <1>1, <1>2
<1> QED
  BY <1>2, <1>3

LEMMA AtIsSequence ==
    ASSUME NEW words, NEW where, IsFiniteSet(where)
    PROVE  /\ Cardinality(where) \in Nat
           /\ DOMAIN At(words, where) = 1..Cardinality(where)
           /\ Len(At(words, where)) = Cardinality(where)
           /\ At(words, where) = <<>> <=> where = {}
           /\ \A k \in 1..Cardinality(where) : At(words, where)[k] = words[Nth(where, k)]
<1> DEFINE n == Cardinality(where)
           f == At(words, where)
<1>1. n \in Nat /\ (n = 0 <=> where = {})
  BY FS_CardinalityType, FS_EmptySet
<1>2. f = [k \in 1..n |-> words[Nth(where, k)]]
  BY DEF At
<1> HIDE DEF n, f
<1>3. /\ DOMAIN f = 1..n
      /\ f = [k \in 1..n |-> f[k]]
      /\ \A k \in 1..n : f[k] = words[Nth(where, k)]
  BY <1>2
<1>4. Len(f) = n /\ (f = <<>> <=> n = 0)
  BY <1>1, <1>3, LengthOfFunction
<1> QED
  BY <1>1, <1>3, <1>4 DEF n, f

\* What the words of a line give as options is what requests are made of.
LEMMA WordsMean ==
    ASSUME NEW words, CliAssumption, VocabularyAssumption
    PROVE  /\ \A word : TextFor(word) \in Texts /\ NamedStep(word) \in Nat
           /\ RevisionSpelled(words) => Expected(words) \in MaybeRevision
           /\ CheckpointSpelled(words) = "OK" => Attached(words) \in MaybeCheckpoint
           /\ CheckpointSpelled(words) = "OK" /\ GivenCheckpoint(words) # Absent => Attached(words) \in Checkpoints
<1>1. ASSUME NEW word PROVE TextFor(word) \in Texts /\ NamedStep(word) \in Nat
  BY DEF TextFor, NamedStep, Meaning, Texts, CliAssumption, NoStep
<1>2. RevisionSpelled(words) => Expected(words) \in MaybeRevision
  BY DEF RevisionSpelled, Expected, Meaning, MaybeRevision, VocabularyAssumption
<1>3. CheckpointSpelled(words) = "OK" /\ GivenCheckpoint(words) # Absent => Attached(words) \in Checkpoints
  BY DEF CheckpointSpelled, Attached, VocabularyAssumption
<1>4. GivenCheckpoint(words) = Absent => Attached(words) = NoCheckpoint
  BY DEF Attached
<1> QED
  BY <1>1, <1>2, <1>3, <1>4 DEF MaybeCheckpoint

LEMMA AskingTells ==
    ASSUME NEW code, NEW request
    PROVE  /\ Asking(code, request).code = code
           /\ code = "OK" => Asking(code, request).request = request
BY DEF Asking

\* What a line can ask for, and what it asks for by a command that saves.
TransitionAsked ==
    [op : {"start", "done"}, step : Nat, reason : {NoReason},
     checkpoint : MaybeCheckpoint, expected : MaybeRevision]
    \cup [op : {"block"}, step : Nat, reason : {text \in Texts : FieldAdmitted(text)},
          checkpoint : MaybeCheckpoint, expected : MaybeRevision]

AdditionAsked ==
    {r \in [op : {"add"}, draft : [body : Bodies, parent : Nat, dependsOn : SUBSET Nat],
            expected : MaybeRevision] : DraftAdmitted(r.draft.body)}

MutationAsked == TransitionAsked \cup AdditionAsked \cup CheckpointRequest \cup ReviewsRequest

ReadingOps == {"help", "init", "list", "read", "show", "showNext"}

LEMMA StepAsked ==
    ASSUME NEW words, NEW op \in {"start", "block", "done"}, AskStep(op, words).code = "OK",
           CliAssumption, VocabularyAssumption
    PROVE  /\ AskStep(op, words).request \in TransitionAsked
           /\ AskStep(op, words).request.op = op
<1> DEFINE given   == Demand(Len(Positionals(words)) = 1 /\ RevisionSpelled(words))
           reasons == Demand(op = "block" =>
                         Reason(words) # Absent /\ FieldAdmitted(TextFor(Reason(words))))
           request == [op         |-> op,
                      step       |-> NamedStep(Positionals(words)[1]),
                      reason     |-> IF op = "block" THEN TextFor(Reason(words)) ELSE NoReason,
                      checkpoint |-> Attached(words),
                      expected   |-> Expected(words)]
           code    == FirstRefusal(<<given, CheckpointSpelled(words), reasons, Selected(words)>>)
<1>1. AskStep(op, words) = Asking(code, request)
  BY DEF AskStep
<1>2. code = "OK" /\ AskStep(op, words).request = request
  BY <1>1, AskingTells
<1>3. given = "OK" /\ CheckpointSpelled(words) = "OK" /\ reasons = "OK"
  <2> HIDE DEF given, reasons
  <2> QED
    BY <1>2, RefusalOfFour
<1>4. /\ RevisionSpelled(words)
      /\ op = "block" => FieldAdmitted(TextFor(Reason(words)))
  BY <1>3 DEF Demand
<1>5. /\ NamedStep(Positionals(words)[1]) \in Nat
      /\ TextFor(Reason(words)) \in Texts
      /\ Expected(words) \in MaybeRevision
      /\ Attached(words) \in MaybeCheckpoint
  BY <1>3, <1>4, WordsMean
<1> HIDE DEF code
<1>6. request \in TransitionAsked
  BY <1>4, <1>5 DEF TransitionAsked
<1> QED
  BY <1>2, <1>6

LEMMA AddAsked ==
    ASSUME NEW words, AskAdd(words).code = "OK", CliAssumption, VocabularyAssumption
    PROVE  AskAdd(words).request \in AdditionAsked
<1> DEFINE steps   == ValuesOf(words, "--depends-on") \o ValuesOf(words, "--parent")
           missing == IF Selected(words) = "NO_ACTIVE_TASK" THEN "NO_ACTIVE_TASK" ELSE "OK"
           drafted == Demand(DraftAdmitted(Body(words)) /\ ToSet(steps) \subseteq DOMAIN StepNamed)
           code    == IF ~ AddComplete(words) THEN "INVALID_ARGUMENT"
                      ELSE FirstRefusal(<<InstructionRead(words), Demand(RevisionSpelled(words)),
                                          missing, drafted, Selected(words)>>)
           needed  == {NamedStep(word) : word \in ToSet(ValuesOf(words, "--depends-on"))}
           draft   == [body      |-> Body(words),
                       parent    |-> NamedStep(LastValue(words, "--parent", Absent)),
                       dependsOn |-> needed]
           request == [op |-> "add", draft |-> draft, expected |-> Expected(words)]
<1>1. AskAdd(words) = Asking(code, request)
  BY DEF AskAdd
<1>2. code = "OK" /\ AskAdd(words).request = request
  BY <1>1, AskingTells
<1>3. Demand(RevisionSpelled(words)) = "OK" /\ drafted = "OK"
  <2>1. FirstRefusal(<<InstructionRead(words), Demand(RevisionSpelled(words)),
                       missing, drafted, Selected(words)>>) = "OK"
    BY <1>2
  <2> HIDE DEF missing, drafted
  <2> QED
    BY <2>1, RefusalOfFive
<1>4. Expected(words) \in MaybeRevision
  BY <1>3, WordsMean DEF Demand
<1>5. Body(words) \in Bodies
  <2>1. Body(words) \in [title : Texts, scope : Texts, doneWhen : Texts, expectedEvidence : Texts]
    BY WordsMean DEF Body
  <2> QED
    BY <2>1 DEF VocabularyAssumption
<1>6. /\ NamedStep(LastValue(words, "--parent", Absent)) \in Nat
      /\ needed \in SUBSET Nat
  <2>1. \A word : NamedStep(word) \in Nat
    BY WordsMean
  <2> QED
    BY <2>1
<1> HIDE DEF code, needed
<1>7. draft \in [body : Bodies, parent : Nat, dependsOn : SUBSET Nat]
  BY <1>5, <1>6
<1>8. DraftAdmitted(draft.body)
  BY <1>3 DEF Demand
<1> HIDE DEF draft
<1>9. request \in AdditionAsked
  BY <1>4, <1>7, <1>8 DEF AdditionAsked
<1> QED
  BY <1>2, <1>9

LEMMA CheckpointAsked ==
    ASSUME NEW words, AskCheckpoint(words).code = "OK", CliAssumption, VocabularyAssumption
    PROVE  AskCheckpoint(words).request \in CheckpointRequest
<1> DEFINE alone == Demand(Positionals(words) = <<>>)
           given == Demand(GivenCheckpoint(words) # Absent /\ RevisionSpelled(words))
           code  == FirstRefusal(<<alone, CheckpointSpelled(words), given, Selected(words)>>)
<1>1. AskCheckpoint(words) = Asking(code, [op         |-> "checkpoint",
                                           checkpoint |-> Attached(words),
                                           expected   |-> Expected(words)])
  BY DEF AskCheckpoint
<1>2. code = "OK" /\ AskCheckpoint(words).request = [op         |-> "checkpoint",
                                                     checkpoint |-> Attached(words),
                                                     expected   |-> Expected(words)]
  BY <1>1, AskingTells
<1>3. given = "OK" /\ CheckpointSpelled(words) = "OK"
  <2> HIDE DEF given, alone
  <2> QED
    BY <1>2, RefusalOfFour
<1>4. GivenCheckpoint(words) # Absent /\ RevisionSpelled(words)
  BY <1>3 DEF Demand
<1>5. Attached(words) \in Checkpoints /\ Expected(words) \in MaybeRevision
  BY <1>3, <1>4, WordsMean
<1> QED
  BY <1>2, <1>5 DEF CheckpointRequest

LEMMA ReviewsAsked ==
    ASSUME NEW words \in Seq(STRING), AskReviews(words).code = "OK", CliAssumption, VocabularyAssumption
    PROVE  AskReviews(words).request \in ReviewsRequest
<1> DEFINE pairs   == Positionals(words)
           spelled == Demand(PatchSpelled(pairs))
           code    == FirstRefusal(<<spelled, Demand(RevisionSpelled(words)), Selected(words)>>)
<1>1. AskReviews(words) = Asking(code, [op       |-> "reviews",
                                        security |-> Patch(pairs)["security"],
                                        expected |-> Expected(words)])
  BY DEF AskReviews
<1>2. code = "OK" /\ AskReviews(words).request = [op       |-> "reviews",
                                                  security |-> Patch(pairs)["security"],
                                                  expected |-> Expected(words)]
  BY <1>1, AskingTells
<1>3. spelled = "OK" /\ Demand(RevisionSpelled(words)) = "OK"
  <2> HIDE DEF spelled
  <2> QED
    BY <1>2, RefusalOfThree
<1>4. PatchSpelled(pairs) /\ RevisionSpelled(words)
  BY <1>3 DEF Demand
<1>5. Patch(pairs)["security"] \in ReviewMode
  <2>1. DOMAIN pairs # {}
    <3>1. pairs # <<>>
      BY <1>4 DEF PatchSpelled
    <3> DEFINE places == {i \in DOMAIN words : words[i] \notin Dashed /\ ~ IsValue(words, i)}
    <3>2. pairs = At(words, places)
      BY DEF Positionals
    <3>3. IsFiniteSet(places)
      BY PlacesAreFinite
    <3> HIDE DEF pairs, places
    <3> QED
      BY <3>1, <3>2, <3>3, AtIsSequence
  <2>2. PICK i \in DOMAIN pairs : TRUE
    BY <2>1
  <2>3. PairNamed[pairs[i]].key \in DOMAIN Patch(pairs)
    BY <2>2 DEF Patch, ToSet
  <2> QED
    BY <1>4, <2>3 DEF PatchSpelled, PatchAdmitted, ReviewKeys
<1>6. Expected(words) \in MaybeRevision
  BY <1>4, WordsMean
<1> QED
  BY <1>2, <1>5, <1>6 DEF ReviewsRequest

-----------------------------------------------------------------------------
LEMMA CommandsAreWords ==
    ASSUME NEW c \in Commands
    PROVE  /\ DOMAIN c = 1..Len(c) /\ Len(c) \in 1..2
           /\ \A i \in 1..Len(c) : c[i] \notin HelpFlags /\ c[i] \in UNION {ToSet(d) : d \in Commands}
<1>1. DOMAIN c = 1..Len(c) /\ Len(c) \in 1..2
  BY DEF Commands
<1>2. ASSUME NEW i \in 1..Len(c)
      PROVE  c[i] \in {"init", "list", "status", "next", "checkpoint", "reviews", "show", "add",
                       "done", "start", "block", "set"}
  BY <1>2 DEF Commands
<1>3. ASSUME NEW i \in 1..Len(c)
      PROVE  c[i] \in UNION {ToSet(d) : d \in Commands}
  BY <1>1, <1>3 DEF ToSet
<1> QED
  BY <1>1, <1>2, <1>3 DEF HelpFlags

\* A line that is not refused and does not ask for help runs one command.
LEMMA LineRuns ==
    ASSUME NEW argv \in Lines, Reading(argv) = "run", CliAssumption
    PROVE  LET command == ResolveCommand(argv)
               words   == WordsAfter(command, argv)
           IN  /\ argv \in Seq(STRING) /\ argv # <<>> /\ argv[1] \notin HelpFlags
               /\ command \in Commands /\ IsPrefix(command, argv)
               /\ words \in Seq(STRING) /\ WellFormed(words) /\ ~ AskedHelp(words)
<1> DEFINE command == ResolveCommand(argv)
           words   == WordsAfter(command, argv)
<1>1. /\ argv # <<>> /\ argv[1] \notin HelpFlags
      /\ command # Unresolved
      /\ WellFormed(words) /\ ~ AskedHelp(words)
  BY DEF Reading
<1>2. argv \in Seq(STRING)
  BY DEF CliAssumption
<1>3. command \in Commands /\ IsPrefix(command, argv)
  BY <1>1 DEF ResolveCommand
<1>4. words \in Seq(STRING)
  <2>1. Len(command) \in Nat
    BY <1>3, CommandsAreWords
  <2> HIDE DEF command
  <2> QED
    BY <2>1, <1>2 DEF WordsAfter
<1> QED
  BY <1>1, <1>2, <1>3, <1>4

LEMMA ReadingAsked ==
    ASSUME NEW words
    PROVE  /\ AskInit(words).code = "OK" => AskInit(words).request.op = "init"
           /\ AskList(words).code = "OK" => AskList(words).request.op = "list"
           /\ AskRead(words).code = "OK" => AskRead(words).request.op = "read"
           /\ AskShow(words).code = "OK" => AskShow(words).request.op \in {"show", "showNext"}
BY AskingTells DEF AskInit, AskList, AskRead, AskShow

\* The command that an asked operation comes from.
LEMMA AskedByCommand ==
    ASSUME NEW argv \in Lines, Asked[argv].code = "OK", CliAssumption, VocabularyAssumption
    PROVE  LET command == ResolveCommand(argv)
               words   == WordsAfter(command, argv)
               r       == Asked[argv].request
           IN  \/ r.op \in ReadingOps \ {"init"}
               \/ /\ Reading(argv) = "run"
                  /\ \/ r.op = "init" /\ command = <<"init">>
                     \/ /\ command \in {<<"next", op>> : op \in {"start", "block", "done"}}
                        /\ Asked[argv] = AskStep(command[2], words)
                        /\ r \in TransitionAsked /\ r.op = command[2]
                     \/ r \in AdditionAsked /\ command = <<"next", "add">>
                     \/ /\ r \in CheckpointRequest /\ command = <<"checkpoint", "set">>
                        /\ Asked[argv] = AskCheckpoint(words)
                     \/ r \in ReviewsRequest /\ command = <<"reviews", "set">>
<1> DEFINE command == ResolveCommand(argv)
           words   == WordsAfter(command, argv)
           r       == Asked[argv].request
<1>1. Asked[argv] = Ask(argv)
  BY DEF Asked
<1>2. CASE Reading(argv) = "help"
  BY <1>1, <1>2 DEF Ask, ReadingOps
<1>3. CASE Reading(argv) \notin {"help", "run"}
  <2>1. Reading(argv) = "INVALID_ARGUMENT"
    BY <1>3 DEF Reading
  <2> QED
    BY <1>1, <2>1 DEF Ask
<1>4. CASE Reading(argv) = "run"
  <2>1. command \in Commands /\ words \in Seq(STRING)
    BY <1>4, LineRuns
  <2>2. Asked[argv] =
           CASE command = <<"init">> -> AskInit(words)
             [] command = <<"list">> -> AskList(words)
             [] command \in {<<"status">>, <<"checkpoint", "show">>} -> AskRead(words)
             [] command = <<"next", "show">> -> AskShow(words)
             [] command = <<"next", "add">> -> AskAdd(words)
             [] command = <<"reviews", "set">> -> AskReviews(words)
             [] command = <<"checkpoint", "set">> -> AskCheckpoint(words)
             [] OTHER -> AskStep(command[2], words)
    BY <1>1, <1>4 DEF Ask
  <2> HIDE DEF command, words
  <2>3. \/ command = <<"init">> /\ Asked[argv] = AskInit(words)
        \/ command = <<"list">> /\ Asked[argv] = AskList(words)
        \/ command \in {<<"status">>, <<"checkpoint", "show">>} /\ Asked[argv] = AskRead(words)
        \/ command = <<"next", "show">> /\ Asked[argv] = AskShow(words)
        \/ command = <<"next", "add">> /\ Asked[argv] = AskAdd(words)
        \/ command = <<"reviews", "set">> /\ Asked[argv] = AskReviews(words)
        \/ command = <<"checkpoint", "set">> /\ Asked[argv] = AskCheckpoint(words)
        \/ command = <<"next", "start">> /\ Asked[argv] = AskStep("start", words)
        \/ command = <<"next", "block">> /\ Asked[argv] = AskStep("block", words)
        \/ command = <<"next", "done">> /\ Asked[argv] = AskStep("done", words)
    BY <2>1, <2>2 DEF Commands
  <2>4. CASE command = <<"init">> /\ Asked[argv] = AskInit(words)
    BY <1>4, <2>4, ReadingAsked DEF command, words
  <2>5. CASE \/ command = <<"list">> /\ Asked[argv] = AskList(words)
             \/ command \in {<<"status">>, <<"checkpoint", "show">>} /\ Asked[argv] = AskRead(words)
             \/ command = <<"next", "show">> /\ Asked[argv] = AskShow(words)
    <3>1. r.op \in {"list", "read", "show", "showNext"}
      BY <2>5, ReadingAsked
    <3> QED
      BY <3>1 DEF ReadingOps, command, words
  <2>6. CASE command = <<"next", "add">> /\ Asked[argv] = AskAdd(words)
    <3>1. r \in AdditionAsked
      BY <2>6, AddAsked
    <3> QED
      BY <3>1, <2>6, <1>4 DEF command, words
  <2>7. CASE command = <<"reviews", "set">> /\ Asked[argv] = AskReviews(words)
    <3>1. r \in ReviewsRequest
      BY <2>7, <2>1, ReviewsAsked
    <3> QED
      BY <3>1, <2>7, <1>4 DEF command, words
  <2>8. CASE command = <<"checkpoint", "set">> /\ Asked[argv] = AskCheckpoint(words)
    <3>1. r \in CheckpointRequest
      BY <2>8, CheckpointAsked
    <3> QED
      BY <3>1, <2>8, <1>4 DEF command, words
  <2>9. ASSUME NEW op \in {"start", "block", "done"},
               command = <<"next", op>>, Asked[argv] = AskStep(op, words)
        PROVE  /\ command \in {<<"next", o>> : o \in {"start", "block", "done"}}
               /\ Asked[argv] = AskStep(command[2], words)
               /\ r \in TransitionAsked /\ r.op = command[2]
    <3>1. command[2] = op
      BY <2>9
    <3>2. r \in TransitionAsked /\ r.op = op
      BY <2>9, StepAsked
    <3> QED
      BY <3>1, <3>2, <2>9
  <2>10. CASE \/ command = <<"next", "start">> /\ Asked[argv] = AskStep("start", words)
              \/ command = <<"next", "block">> /\ Asked[argv] = AskStep("block", words)
              \/ command = <<"next", "done">> /\ Asked[argv] = AskStep("done", words)
    <3>1. /\ command \in {<<"next", o>> : o \in {"start", "block", "done"}}
          /\ Asked[argv] = AskStep(command[2], words)
          /\ r \in TransitionAsked /\ r.op = command[2]
      BY <2>9, <2>10
    <3> QED
      BY <3>1, <1>4 DEF command, words
  <2> QED
    BY <2>3, <2>4, <2>5, <2>6, <2>7, <2>8, <2>10
<1> QED
  BY <1>2, <1>3, <1>4

-----------------------------------------------------------------------------
(* What a command saves is what the service makes of a request: the text of *)
(* a block is among the reasons, the step among the steps there are.        *)

LEMMA RequestAsked ==
    ASSUME NEW r \in Requests, CliAssumption, VocabularyAssumption
    PROVE  r.op \in ReadingOps \/ r \in MutationAsked
<1>1. PICK argv \in Lines : Asked[argv].code = "OK" /\ r = Asked[argv].request
  BY DEF Requests, RequestsOf
<1> QED
  BY <1>1, AskedByCommand DEF MutationAsked, ReadingOps

\* The request of the service: a done step has no reason.
Spoken(r) ==
    IF r.op = "done"
    THEN [op |-> r.op, step |-> r.step, checkpoint |-> r.checkpoint, expected |-> r.expected]
    ELSE r

\* A transition that the service accepts names one of its steps.
LEMMA AcceptedStep ==
    ASSUME NEW doc \in Task, SoundTask(doc), NEW r \in TransitionAsked, Accepts(doc, r),
           DomainAssumption, VocabularyAssumption
    PROVE  /\ r.op # "done" => r \in StartRequest \cup BlockRequest /\ AcceptsTransition(doc, r)
           /\ r.op = "done" => Spoken(r) \in DoneRequest /\ AcceptsDone(doc, Spoken(r))
<1>1. \A s \in DOMAIN doc.steps : s \in StepIds
  BY StepsAreIndexed DEF Task, SoundTask, StepIds, DomainAssumption
<1>2. CASE r.op # "done"
  <2>1. AcceptsTransition(doc, r)
    BY <1>2 DEF TransitionAsked, Accepts
  <2>2. r.step \in StepIds
    BY <2>1, <1>1 DEF AcceptsTransition
  <2>3. r \in StartRequest \cup BlockRequest
    BY <1>2, <2>2 DEF TransitionAsked, StartRequest, BlockRequest, VocabularyAssumption
  <2> QED
    BY <1>2, <2>1, <2>3
<1>3. CASE r.op = "done"
  <2> DEFINE q == Spoken(r)
  <2>1. AcceptsDone(doc, r)
    BY <1>3 DEF Accepts
  <2>2. r.step \in StepIds
    BY <2>1, <1>1 DEF AcceptsDone
  <2>3. q = [op |-> "done", step |-> r.step, checkpoint |-> r.checkpoint, expected |-> r.expected]
    BY <1>3 DEF Spoken
  <2> HIDE DEF q
  <2>4. q \in DoneRequest
    BY <1>3, <2>2, <2>3 DEF TransitionAsked, DoneRequest
  <2>5. AcceptsDone(doc, q)
    BY <2>1, <2>3 DEF AcceptsDone, RevisionMatches
  <2> QED
    BY <1>3, <2>4, <2>5 DEF q
<1> QED
  BY <1>2, <1>3

LEMMA AcceptedIsRequest ==
    ASSUME NEW doc \in Task, SoundTask(doc), NEW r \in MutationAsked, Accepts(doc, r),
           DomainAssumption, VocabularyAssumption
    PROVE  /\ Spoken(r) \in AnyRequest
           /\ Accepts(doc, Spoken(r))
           /\ Result(doc, Spoken(r)) = Result(doc, r)
<1>1. CASE r \in TransitionAsked /\ r.op # "done"
  <2>1. Spoken(r) = r
    BY <1>1 DEF Spoken
  <2> QED
    BY <2>1, <1>1, AcceptedStep DEF AnyRequest
<1>2. CASE r \in TransitionAsked /\ r.op = "done"
  <2>1. Spoken(r) \in DoneRequest /\ AcceptsDone(doc, Spoken(r))
    BY <1>2, AcceptedStep
  <2>2. /\ Spoken(r).op = "done" /\ Spoken(r).step = r.step
        /\ Spoken(r).checkpoint = r.checkpoint
    BY <1>2 DEF Spoken
  <2>3. Result(doc, Spoken(r)) = Result(doc, r)
    BY <1>2, <2>2 DEF Result, DoneResult
  <2> QED
    BY <2>1, <2>2, <2>3 DEF AnyRequest, Accepts
<1>3. CASE r \in AdditionAsked
  <2>1. AcceptsAdd(doc, r) /\ Spoken(r) = r
    BY <1>3 DEF AdditionAsked, Accepts, Spoken
  <2>2. \A s \in DOMAIN doc.steps : s \in StepIds
    BY StepsAreIndexed DEF Task, SoundTask, StepIds, DomainAssumption
  <2>3. r.draft.parent \in StepIds \cup {NoParent}
    BY <2>1, <2>2 DEF AcceptsAdd, ParentRelation
  <2>4. r.draft.dependsOn \in SUBSET StepIds
    BY <2>1, <2>2 DEF AcceptsAdd
  <2>5. r.draft \in StepDraft
    BY <1>3, <2>3, <2>4 DEF AdditionAsked, StepDraft
  <2>6. r \in AnyAddition
    BY <1>3, <2>5 DEF AdditionAsked, AnyAddition
  <2> QED
    BY <2>1, <2>6 DEF AnyRequest
<1>4. CASE r \in CheckpointRequest \cup ReviewsRequest
  <2>1. Spoken(r) = r
    BY <1>4 DEF Spoken, CheckpointRequest, ReviewsRequest
  <2> QED
    BY <1>4, <2>1 DEF AnyRequest
<1> QED
  BY <1>1, <1>2, <1>3, <1>4 DEF MutationAsked

LEMMA AcceptedIsSaved ==
    ASSUME NEW doc \in Task, SoundTask(doc), NEW r \in Requests,
           DomainAssumption, CliAssumption, VocabularyAssumption
    PROVE  /\ r.op \in Mutations => r \in MutationAsked
           /\ (Verdict(doc, r) = "OK" /\ r.op \in Mutations /\ Accepts(doc, r)) =>
                  Saved(doc, r) = {Result(doc, r)}
           /\ \A after \in Saved(doc, r) :
                 /\ Verdict(doc, r) = "OK" /\ r.op \in Mutations /\ Accepts(doc, r)
                 /\ after = Result(doc, r)
                 /\ after \in Task /\ SoundTask(after)
<1>1. r.op \in Mutations => r \in MutationAsked
  BY RequestAsked DEF Mutations, ReadingOps
<1>2. ASSUME r.op \in Mutations, Accepts(doc, r)
      PROVE  Result(doc, r) \in Task /\ SoundTask(Result(doc, r)) /\ Serializes(Result(doc, r))
  <2>1. Spoken(r) \in AnyRequest /\ Accepts(doc, Spoken(r)) /\ Result(doc, Spoken(r)) = Result(doc, r)
    BY <1>1, <1>2, AcceptedIsRequest
  <2>2. Result(doc, r) \in Task /\ SoundTask(Result(doc, r))
    BY <2>1, AnyResultSound
  <2> QED
    BY <2>2 DEF SoundTask, Serializes
<1>3. ASSUME Verdict(doc, r) = "OK", r.op \in Mutations, Accepts(doc, r)
      PROVE  Saved(doc, r) = {Result(doc, r)}
  <2>1. Saved(doc, r) = {after \in {Result(doc, r)} : Serializes(after)}
    BY <1>3 DEF Saved
  <2> QED
    BY <2>1, <1>2, <1>3
<1>4. ASSUME NEW after \in Saved(doc, r)
      PROVE  /\ Verdict(doc, r) = "OK" /\ r.op \in Mutations /\ Accepts(doc, r)
             /\ after = Result(doc, r)
  BY DEF Saved
<1> QED
  BY <1>1, <1>2, <1>3, <1>4

LEMMA SaveStep ==
    ASSUME NEW doc \in Task, SoundTask(doc), NEW r \in Requests, NEW after \in Saved(doc, r),
           DomainAssumption, CliAssumption, VocabularyAssumption
    PROVE  \E q \in AnyRequest : Accepts(doc, q) /\ after = Result(doc, q)
<1>1. /\ r \in MutationAsked
      /\ Accepts(doc, r)
      /\ after = Result(doc, r)
  BY AcceptedIsSaved
<1> QED
  BY <1>1, AcceptedIsRequest

LEMMA CliNextSound == IInv /\ [CliNext]_task => IInv'
<1> SUFFICES ASSUME IInv, CliNext
             PROVE  IInv'
  BY DEF IInv
<1>1. PICK r \in Requests : task' \in Saved(task, r)
  BY DEF CliNext, RunTaskCommand
<1>2. task' \in Task /\ SoundTask(task')
  BY <1>1, AcceptedIsSaved, DomainAssumption, CliAssumption, VocabularyAssumption DEF IInv
<1> QED
  BY <1>2 DEF IInv

\* Whatever lines are typed, the document has the shape of the schema and is
\* sound: hosts agree with their children, annotations with the statuses.
THEOREM CliInvariance == CliSpec => []IInv
<1> QED
  BY InitSound, CliNextSound, PTL DEF CliSpec

\* No sequence of lines leaves a host that disagrees with its children.
THEOREM CliHostsAgree == CliSpec => []HostDoneWithChildren
<1>1. IInv => HostDoneWithChildren
  BY SoundDocument
<1> QED
  BY <1>1, CliInvariance, PTL

\* After every sequence of lines `next show` finds open work until all is done.
THEOREM CliNextStepIsWork == CliSpec => []NextStepFindsWork
<1>1. IInv => NextStepFindsWork
  BY SoundDocument
<1> QED
  BY <1>1, CliInvariance, PTL

\* No line reopens, restamps or drops a step declared done.
THEOREM CliDoneStaysDone == CliSpec => DoneIsFinal
<1>1. IInv /\ [CliNext]_task =>
        [\A s \in DOMAIN task.steps :
            IsDone(task.steps, s) =>
                s \in DOMAIN task'.steps /\ task'.steps[s] = task.steps[s]]_task
  <2> SUFFICES ASSUME IInv, CliNext
               PROVE  \A s \in DOMAIN task.steps :
                         IsDone(task.steps, s) =>
                             s \in DOMAIN task'.steps /\ task'.steps[s] = task.steps[s]
    OBVIOUS
  <2>1. PICK r \in Requests : task' \in Saved(task, r)
    BY DEF CliNext, RunTaskCommand
  <2>2. PICK q \in AnyRequest : Accepts(task, q) /\ task' = Result(task, q)
    BY <2>1, SaveStep, DomainAssumption, CliAssumption, VocabularyAssumption DEF IInv
  <2> QED
    BY <2>2, AnyResultKeeps, DomainAssumption DEF IInv
<1> QED
  BY <1>1, CliInvariance, PTL DEF CliSpec, DoneIsFinal

-----------------------------------------------------------------------------
(* What the exit code says. *)

LEMMA VerdictIsCode ==
    ASSUME NEW doc, NEW r \in Requests, CliAssumption, VocabularyAssumption
    PROVE  Verdict(doc, r) \in {"OK", "INVALID_ARGUMENT", "STEP_NOT_FOUND", "REVISION_CONFLICT"}
<1> DEFINE codes == {"OK", "INVALID_ARGUMENT", "STEP_NOT_FOUND", "REVISION_CONFLICT"}
<1>1. Fence(doc, r) \in codes /\ \A step : Find(doc, step) \in codes
  BY DEF Fence, Find
<1>2. TransitionVerdict(doc, r) \in codes
  <2> DEFINE open == Demand(r.step \in DOMAIN doc.steps => ~ IsDone(doc.steps, r.step))
  <2>1. open \in codes
    BY DEF Demand
  <2>2. TransitionVerdict(doc, r) = FirstRefusal(<<Fence(doc, r), Find(doc, r.step), open>>)
    BY DEF TransitionVerdict
  <2> HIDE DEF open
  <2>3. TransitionVerdict(doc, r) \in {"OK", Fence(doc, r), Find(doc, r.step), open}
    BY <2>2, RefusalOfThree
  <2> QED
    BY <2>1, <2>3, <1>1
<1>3. DoneVerdict(doc, r) \in codes
  <2> DEFINE nothing == /\ r.step \in DOMAIN doc.steps
                        /\ IsDone(doc.steps, r.step) /\ ~ CheckpointChanged(doc, r.checkpoint)
             early   == IF r.checkpoint = NoCheckpoint THEN "OK" ELSE Fence(doc, r)
             late    == IF nothing THEN "OK" ELSE Fence(doc, r)
  <2>1. early \in codes /\ late \in codes
    BY <1>1
  <2>2. DoneVerdict(doc, r) = FirstRefusal(<<early, Find(doc, r.step), late>>)
    BY DEF DoneVerdict
  <2> HIDE DEF early, late
  <2>3. DoneVerdict(doc, r) \in {"OK", early, Find(doc, r.step), late}
    BY <2>2, RefusalOfThree
  <2> QED
    BY <2>1, <2>3, <1>1
<1>4. AddVerdict(doc, r) \in codes
  <2> DEFINE fits == Demand(AcceptsAdd(doc, [r EXCEPT !.expected = NoRevision]))
  <2>1. fits \in codes
    BY DEF Demand
  <2>2. AddVerdict(doc, r) = FirstRefusal(<<fits, Fence(doc, r)>>)
    BY DEF AddVerdict
  <2> HIDE DEF fits
  <2>3. AddVerdict(doc, r) \in {"OK", fits, Fence(doc, r)}
    BY <2>2, RefusalOfTwo
  <2> QED
    BY <2>1, <2>3, <1>1
<1>5. \/ r.op \in ReadingOps
      \/ r.op \in {"start", "block", "done", "add", "checkpoint", "reviews"}
  BY RequestAsked DEF MutationAsked, TransitionAsked, AdditionAsked, CheckpointRequest, ReviewsRequest
<1> HIDE DEF codes
<1>6. "OK" \in codes /\ "INVALID_ARGUMENT" \in codes
  BY DEF codes
<1>7. Verdict(doc, r) \in codes
  BY <1>1, <1>2, <1>3, <1>4, <1>5, <1>6 DEF Verdict, ReadingOps
<1> QED
  BY <1>7 DEF codes

\* What a verdict of OK says of the document.
LEMMA VerdictOk ==
    ASSUME NEW doc, NEW r, Verdict(doc, r) = "OK", r.op \in Mutations
    PROVE  /\ ReadsBack(doc)
           /\ r.op \in {"start", "block"} => /\ RevisionMatches(doc, r)
                                             /\ r.step \in DOMAIN doc.steps
                                             /\ ~ IsDone(doc.steps, r.step)
           /\ r.op = "done" => /\ r.step \in DOMAIN doc.steps
                               /\ \/ RevisionMatches(doc, r)
                                  \/ IsDone(doc.steps, r.step) /\ ~ CheckpointChanged(doc, r.checkpoint)
           /\ r.op \in {"checkpoint", "reviews"} => RevisionMatches(doc, r)
<1>1. /\ Fence(doc, r) = "OK" => RevisionMatches(doc, r)
      /\ Find(doc, r.step) = "OK" => r.step \in DOMAIN doc.steps
  BY DEF Fence, Find
<1>2. ReadsBack(doc)
  BY DEF Verdict, Mutations
<1>3. CASE r.op \in {"start", "block"}
  <2> DEFINE open == Demand(r.step \in DOMAIN doc.steps => ~ IsDone(doc.steps, r.step))
  <2>1. FirstRefusal(<<Fence(doc, r), Find(doc, r.step), open>>) = "OK"
    BY <1>2, <1>3 DEF Verdict, TransitionVerdict
  <2>2. Fence(doc, r) = "OK" /\ Find(doc, r.step) = "OK" /\ open = "OK"
    <3> HIDE DEF open
    <3> QED
      BY <2>1, RefusalOfThree
  <2> QED
    BY <1>1, <1>2, <1>3, <2>2 DEF Demand
<1>4. CASE r.op = "done"
  <2> DEFINE nothing == /\ r.step \in DOMAIN doc.steps
                        /\ IsDone(doc.steps, r.step) /\ ~ CheckpointChanged(doc, r.checkpoint)
             early   == IF r.checkpoint = NoCheckpoint THEN "OK" ELSE Fence(doc, r)
             late    == IF nothing THEN "OK" ELSE Fence(doc, r)
  <2>1. FirstRefusal(<<early, Find(doc, r.step), late>>) = "OK"
    BY <1>2, <1>4 DEF Verdict, DoneVerdict
  <2>2. Find(doc, r.step) = "OK" /\ late = "OK"
    <3> HIDE DEF early, late
    <3> QED
      BY <2>1, RefusalOfThree
  <2> QED
    BY <1>1, <1>2, <1>4, <2>2
<1>5. CASE r.op \in {"checkpoint", "reviews"}
  <2>1. Fence(doc, r) = "OK"
    BY <1>2, <1>5 DEF Verdict
  <2> QED
    BY <1>1, <1>2, <1>5, <2>1
<1>6. CASE r.op = "add"
  BY <1>2, <1>6
<1> QED
  BY <1>3, <1>4, <1>5, <1>6 DEF Mutations

\* What a request that is accepted makes of the document.
LEMMA CheckpointKept ==
    ASSUME NEW doc \in Task, NEW checkpoint \in MaybeCheckpoint
    PROVE  WithCheckpoint(doc, checkpoint).checkpoint =
               IF checkpoint = NoCheckpoint THEN doc.checkpoint ELSE checkpoint
BY DEF WithCheckpoint, Task

LEMMA TransitionEffect ==
    ASSUME NEW doc \in Task, NEW r \in StartRequest \cup BlockRequest, AcceptsTransition(doc, r)
    PROVE  LET after == Result(doc, r)
           IN  /\ DOMAIN after.steps = DOMAIN doc.steps
               /\ \A s \in DOMAIN doc.steps \ {r.step} : after.steps[s] = doc.steps[s]
               /\ after.steps[r.step].status = TargetStatus(r)
               /\ after.steps[r.step].blockReason = r.reason
               /\ after.steps[r.step].body = doc.steps[r.step].body
               /\ after.checkpoint = IF r.checkpoint = NoCheckpoint THEN doc.checkpoint ELSE r.checkpoint
<1> DEFINE after == Result(doc, r)
           with  == WithCheckpoint(doc, r.checkpoint)
           new   == TransitionSteps(doc, r)
<1>1. /\ r.op \in {"start", "block"}
      /\ r.checkpoint \in MaybeCheckpoint
  BY DEF StartRequest, BlockRequest
<1>2. after = Amended(with, new)
  BY <1>1 DEF Result, TransitionResult, TransitionSteps
<1>3. with \in Task /\ new \in Seq(Step)
  BY <1>1, CheckpointTyped, TransitionTyped
<1>4. after.steps = new /\ after.checkpoint = with.checkpoint
  <2> HIDE DEF with, new, after
  <2> QED
    BY <1>2, <1>3, AmendedTyped
<1>5. /\ r.step \in DOMAIN doc.steps
      /\ doc.steps[r.step] \in Step
      /\ DOMAIN new = DOMAIN doc.steps
      /\ \A s \in DOMAIN doc.steps \ {r.step} : new[s] = doc.steps[s]
      /\ new[r.step] = [doc.steps[r.step] EXCEPT !.status = TargetStatus(r), !.blockReason = r.reason]
  BY StepsAreIndexed DEF TransitionSteps, AcceptsTransition, Task
<1>6. /\ new[r.step].status = TargetStatus(r)
      /\ new[r.step].blockReason = r.reason
      /\ new[r.step].body = doc.steps[r.step].body
  <2> HIDE DEF new
  <2> QED
    BY <1>5 DEF Step
<1>7. with.checkpoint = IF r.checkpoint = NoCheckpoint THEN doc.checkpoint ELSE r.checkpoint
  BY <1>1, CheckpointKept
<1> HIDE DEF with, new, after
<1>8. /\ DOMAIN after.steps = DOMAIN doc.steps
      /\ \A s \in DOMAIN doc.steps \ {r.step} : after.steps[s] = doc.steps[s]
      /\ after.steps[r.step].status = TargetStatus(r)
      /\ after.steps[r.step].blockReason = r.reason
      /\ after.steps[r.step].body = doc.steps[r.step].body
      /\ after.checkpoint = IF r.checkpoint = NoCheckpoint THEN doc.checkpoint ELSE r.checkpoint
  BY <1>4, <1>5, <1>6, <1>7
<1> QED
  BY <1>8 DEF after

LEMMA DoneEffect ==
    ASSUME NEW doc \in Task, NEW r \in DoneRequest, AcceptsDone(doc, r)
    PROVE  LET after == Result(doc, r)
           IN  /\ DOMAIN after.steps = DOMAIN doc.steps
               /\ \A s \in DOMAIN doc.steps :
                     /\ after.steps[s].body = doc.steps[s].body
                     /\ \/ after.steps[s] = doc.steps[s]
                        \/ after.steps[s].blockReason = NoReason
               /\ IsDone(after.steps, r.step)
               /\ after.checkpoint = IF r.checkpoint = NoCheckpoint THEN doc.checkpoint ELSE r.checkpoint
<1> DEFINE after == Result(doc, r)
           with  == WithCheckpoint(doc, r.checkpoint)
           new   == CompletedSteps(doc, r)
<1>1. /\ r.op = "done"
      /\ r.checkpoint \in MaybeCheckpoint
  BY DEF DoneRequest
<1>2. after = Amended(with, new)
  BY <1>1 DEF Result, DoneResult, CompletedSteps
<1>3. with \in Task /\ new \in Seq(Step)
  BY <1>1, CheckpointTyped, DoneTyped
<1>4. after.steps = new /\ after.checkpoint = with.checkpoint
  <2> HIDE DEF with, new, after
  <2> QED
    BY <1>2, <1>3, AmendedTyped
<1>5. /\ DOMAIN new = DOMAIN doc.steps
      /\ \A s \in DOMAIN doc.steps :
            /\ doc.steps[s] \in Step
            /\ new[s] = IF s \in ToComplete(doc.steps, r.step)
                        THEN MarkDone(doc.steps[s], doc.revision + 1) ELSE doc.steps[s]
  BY StepsAreIndexed DEF CompletedSteps, Task
<1>6. doc.revision + 1 \in Nat
  BY DEF Task
<1>7. ASSUME NEW s \in DOMAIN doc.steps
      PROVE  /\ new[s].body = doc.steps[s].body
             /\ new[s] = doc.steps[s] \/ new[s].blockReason = NoReason
  <2>1. CASE s \in ToComplete(doc.steps, r.step)
    <3>1. new[s] = MarkDone(doc.steps[s], doc.revision + 1) /\ doc.steps[s] \in Step
      BY <2>1, <1>5
    <3> HIDE DEF new
    <3> QED
      BY <3>1, <1>6, MarkDoneTyped DEF MarkDone, Step
  <2>2. CASE s \notin ToComplete(doc.steps, r.step)
    BY <2>2, <1>5
  <2> QED
    BY <2>1, <2>2
<1>8. IsDone(new, r.step)
  <2>1. r.step \in DOMAIN doc.steps
    BY DEF AcceptsDone
  <2>2. CASE IsDone(doc.steps, r.step)
    <3>1. new[r.step] = doc.steps[r.step]
      BY <2>1, <2>2, <1>5 DEF ToComplete
    <3> QED
      BY <3>1, <2>2 DEF IsDone
  <2>3. CASE ~ IsDone(doc.steps, r.step)
    <3>1. new[r.step] = MarkDone(doc.steps[r.step], doc.revision + 1) /\ doc.steps[r.step] \in Step
      BY <2>1, <2>3, <1>5 DEF ToComplete
    <3> HIDE DEF new
    <3> QED
      BY <3>1, <1>6, MarkDoneTyped DEF IsDone
  <2> QED
    BY <2>2, <2>3
<1>9. with.checkpoint = IF r.checkpoint = NoCheckpoint THEN doc.checkpoint ELSE r.checkpoint
  BY <1>1, CheckpointKept
<1> HIDE DEF with, new, after
<1>10. /\ DOMAIN after.steps = DOMAIN doc.steps
       /\ \A s \in DOMAIN doc.steps :
             /\ after.steps[s].body = doc.steps[s].body
             /\ \/ after.steps[s] = doc.steps[s]
                \/ after.steps[s].blockReason = NoReason
       /\ IsDone(after.steps, r.step)
       /\ after.checkpoint = IF r.checkpoint = NoCheckpoint THEN doc.checkpoint ELSE r.checkpoint
  BY <1>4, <1>5, <1>7, <1>8, <1>9
<1> QED
  BY <1>10 DEF after

LEMMA RecordEffect ==
    ASSUME NEW doc \in Task
    PROVE  /\ \A r \in CheckpointRequest : /\ Result(doc, r).steps = doc.steps
                                           /\ AcceptsCheckpoint(doc, r) => Result(doc, r).checkpoint = r.checkpoint
           /\ \A r \in ReviewsRequest : Result(doc, r).security = r.security
<1>1. ASSUME NEW r \in CheckpointRequest
      PROVE  /\ Result(doc, r).steps = doc.steps
             /\ AcceptsCheckpoint(doc, r) => Result(doc, r).checkpoint = r.checkpoint
  <2>1. r.op = "checkpoint" /\ r.checkpoint \in MaybeCheckpoint
    BY DEF CheckpointRequest, MaybeCheckpoint
  <2>2. Result(doc, r) = [WithCheckpoint(doc, r.checkpoint) EXCEPT !.revision = @ + 1]
    BY <2>1 DEF Result, CheckpointResult
  <2>3. WithCheckpoint(doc, r.checkpoint) \in Task
    BY <2>1, CheckpointTyped
  <2>4. /\ Result(doc, r).steps = WithCheckpoint(doc, r.checkpoint).steps
        /\ Result(doc, r).checkpoint = WithCheckpoint(doc, r.checkpoint).checkpoint
    BY <2>2, <2>3 DEF Task
  <2>5. AcceptsCheckpoint(doc, r) => r.checkpoint # NoCheckpoint
    BY DEF AcceptsCheckpoint, CheckpointChanged
  <2> QED
    BY <2>1, <2>4, <2>5, CheckpointTyped, CheckpointKept
<1>2. ASSUME NEW r \in ReviewsRequest
      PROVE  Result(doc, r).security = r.security
  <2>1. Result(doc, r) = [doc EXCEPT !.security = r.security, !.revision = @ + 1]
    BY DEF ReviewsRequest, Result, ReviewsResult
  <2> QED
    BY <2>1 DEF Task
<1> QED
  BY <1>1, <1>2

\* Whatever was accepted holds afterwards, and a request that was not refused
\* and found nothing to do holds as it is.
LEMMA AcceptedHolds ==
    ASSUME NEW doc \in Task, SoundTask(doc), NEW r \in MutationAsked, Accepts(doc, r),
           DomainAssumption, VocabularyAssumption
    PROVE  Holds(Result(doc, r), r) /\ RevisionMatches(doc, r)
<1> DEFINE after == Result(doc, r)
<1>1. CASE r \in TransitionAsked /\ r.op # "done"
  <2>1. r \in StartRequest \cup BlockRequest /\ AcceptsTransition(doc, r)
    BY <1>1, AcceptedStep
  <2>2. r.op \in {"start", "block"}
    BY <1>1 DEF TransitionAsked
  <2>3. /\ after.steps[r.step].status = TargetStatus(r)
        /\ after.steps[r.step].blockReason = r.reason
        /\ after.checkpoint = IF r.checkpoint = NoCheckpoint THEN doc.checkpoint ELSE r.checkpoint
    BY <2>1, TransitionEffect
  <2> HIDE DEF after
  <2>4. Holds(after, r)
    BY <2>2, <2>3 DEF Holds
  <2> QED
    BY <2>1, <2>4 DEF AcceptsTransition, after
<1>2. CASE r \in TransitionAsked /\ r.op = "done"
  <2>1. Spoken(r) \in DoneRequest /\ AcceptsDone(doc, Spoken(r))
    BY <1>2, AcceptedStep
  <2>2. /\ Spoken(r).step = r.step /\ Spoken(r).checkpoint = r.checkpoint
        /\ Result(doc, Spoken(r)) = after
    BY <1>2, AcceptedIsRequest DEF Spoken, MutationAsked
  <2>3. /\ IsDone(after.steps, r.step)
        /\ after.checkpoint = IF r.checkpoint = NoCheckpoint THEN doc.checkpoint ELSE r.checkpoint
    BY <2>1, <2>2, DoneEffect
  <2>4. RevisionMatches(doc, r)
    BY <1>2 DEF Accepts, AcceptsDone
  <2> HIDE DEF after
  <2>5. Holds(after, r)
    BY <1>2, <2>3 DEF Holds
  <2> QED
    BY <2>4, <2>5 DEF after
<1>3. CASE r \in AdditionAsked
  <2>1. r.op = "add" /\ AcceptsAdd(doc, r)
    BY <1>3 DEF AdditionAsked, Accepts
  <2> QED
    BY <2>1 DEF Holds, AcceptsAdd, Repeatable
<1>4. CASE r \in CheckpointRequest
  <2>1. r.op = "checkpoint" /\ AcceptsCheckpoint(doc, r)
    BY <1>4 DEF CheckpointRequest, Accepts
  <2>2. after.checkpoint = r.checkpoint
    BY <1>4, <2>1, RecordEffect
  <2> HIDE DEF after
  <2>3. Holds(after, r)
    BY <2>1, <2>2 DEF Holds
  <2> QED
    BY <2>1, <2>3 DEF AcceptsCheckpoint, after
<1>5. CASE r \in ReviewsRequest
  <2>1. r.op = "reviews" /\ AcceptsReviews(doc, r)
    BY <1>5 DEF ReviewsRequest, Accepts
  <2>2. after.security = r.security
    BY <1>5, RecordEffect
  <2> HIDE DEF after
  <2>3. Holds(after, r)
    BY <2>1, <2>2 DEF Holds, Repeatable
  <2> QED
    BY <2>1, <2>3 DEF AcceptsReviews, after
<1> QED
  BY <1>1, <1>2, <1>3, <1>4, <1>5 DEF MutationAsked

LEMMA NothingToDoHolds ==
    ASSUME NEW doc, NEW r \in MutationAsked, Verdict(doc, r) = "OK", ~ Accepts(doc, r)
    PROVE  Holds(doc, r)
<1>0. r \in TransitionAsked => r.op \in {"start", "block", "done"}
  BY DEF TransitionAsked
<1>1. CASE r \in TransitionAsked /\ r.op \in {"start", "block"}
  <2>1. /\ RevisionMatches(doc, r)
        /\ r.step \in DOMAIN doc.steps
        /\ ~ IsDone(doc.steps, r.step)
    BY <1>1, VerdictOk DEF Mutations
  <2>2. ~ AcceptsTransition(doc, r)
    BY <1>1 DEF Accepts
  <2> QED
    BY <1>1, <2>1, <2>2 DEF AcceptsTransition, CheckpointChanged, Holds
<1>2. CASE r \in TransitionAsked /\ r.op = "done"
  <2>1. /\ r.step \in DOMAIN doc.steps
        /\ \/ RevisionMatches(doc, r)
           \/ IsDone(doc.steps, r.step) /\ ~ CheckpointChanged(doc, r.checkpoint)
    BY <1>2, VerdictOk DEF Mutations
  <2>2. ~ AcceptsDone(doc, r)
    BY <1>2 DEF Accepts
  <2> QED
    BY <1>2, <2>1, <2>2 DEF AcceptsDone, CheckpointChanged, Holds
<1>3. CASE r \in AdditionAsked
  BY <1>3 DEF AdditionAsked, Holds, Repeatable
<1>4. CASE r \in CheckpointRequest
  <2>1. r.op = "checkpoint"
    BY <1>4 DEF CheckpointRequest
  <2>2. RevisionMatches(doc, r)
    BY <2>1, VerdictOk DEF Mutations
  <2>3. ~ AcceptsCheckpoint(doc, r)
    BY <2>1 DEF Accepts
  <2> QED
    BY <2>1, <2>2, <2>3 DEF AcceptsCheckpoint, CheckpointChanged, Holds
<1>5. CASE r \in ReviewsRequest
  <2>1. r.op = "reviews"
    BY <1>5 DEF ReviewsRequest
  <2>2. RevisionMatches(doc, r)
    BY <2>1, VerdictOk DEF Mutations
  <2> QED
    BY <2>1, <2>2 DEF Accepts, AcceptsReviews
<1> QED
  BY <1>0, <1>1, <1>2, <1>3, <1>4, <1>5 DEF MutationAsked

\* Exit code 0 is given only where what the line asked for holds afterwards.
THEOREM ExitCodesAreTrue == CliSpec => []ExitTellsTheTruth
<1>1. IInv => ExitTellsTheTruth
  <2> SUFFICES ASSUME IInv, NEW r \in Requests, ExitCode(Verdict(task, r)) = 0
               PROVE  /\ \A after \in IF Saved(task, r) = {} THEN {task} ELSE Saved(task, r) : Holds(after, r)
                      /\ Saved(task, r) # {} => r.expected \in {NoRevision, task.revision}
    BY DEF ExitTellsTheTruth
  <2>1. Verdict(task, r) = "OK"
    BY VerdictIsCode, CliAssumption, VocabularyAssumption DEF ExitCode
  <2>2. task \in Task /\ SoundTask(task)
    BY DEF IInv
  <2>3. CASE r.op \notin Mutations
    <3>1. Saved(task, r) = {}
      BY <2>3 DEF Saved
    <3>2. Holds(task, r)
      BY <2>3 DEF Holds, Mutations, Repeatable
    <3> QED
      BY <3>1, <3>2
  <2>4. CASE r.op \in Mutations /\ Accepts(task, r)
    <3>1. r \in MutationAsked /\ Saved(task, r) = {Result(task, r)}
      BY <2>1, <2>2, <2>4, AcceptedIsSaved, DomainAssumption, CliAssumption, VocabularyAssumption
    <3>2. Holds(Result(task, r), r) /\ RevisionMatches(task, r)
      BY <3>1, <2>2, <2>4, AcceptedHolds, DomainAssumption, VocabularyAssumption
    <3> QED
      BY <3>1, <3>2 DEF RevisionMatches
  <2>5. CASE r.op \in Mutations /\ ~ Accepts(task, r)
    <3>1. r \in MutationAsked /\ Saved(task, r) = {}
      <4>1. r \in MutationAsked
        BY <2>2, <2>5, AcceptedIsSaved, DomainAssumption, CliAssumption, VocabularyAssumption
      <4>2. Saved(task, r) = {}
        BY <2>5 DEF Saved
      <4> QED
        BY <4>1, <4>2
    <3>2. Holds(task, r)
      BY <3>1, <2>1, <2>5, NothingToDoHolds
    <3> QED
      BY <3>1, <3>2
  <2> QED
    BY <2>3, <2>4, <2>5
<1> QED
  BY <1>1, CliInvariance, PTL

-----------------------------------------------------------------------------
(* What the plugin sees of a line. *)

\* Words of calls.
Words == STRING \cup {"cd", ";", "skynex", "task", "&", "ls"}

IsConcat(c, a, b) ==
    /\ Len(a) \in Nat /\ Len(b) \in Nat
    /\ Len(c) = Len(a) + Len(b)
    /\ \A i \in 1..Len(a) : c[i] = a[i]
    /\ \A i \in 1..Len(b) : c[i + Len(a)] = b[i]

LEMMA Concat ==
    ASSUME NEW W, NEW a \in Seq(W), NEW b \in Seq(W)
    PROVE  a \o b \in Seq(W) /\ IsConcat(a \o b, a, b)
BY DEF IsConcat

LEMMA Slice ==
    ASSUME NEW W, NEW a \in Seq(W), NEW m \in 1..Len(a), NEW n \in m..Len(a)
    PROVE  /\ SubSeq(a, m, n) \in Seq(W)
           /\ Len(SubSeq(a, m, n)) = n - m + 1
           /\ \A i \in 1..(n - m + 1) : SubSeq(a, m, n)[i] = a[i + m - 1]
OBVIOUS

LEMMA SameWords ==
    ASSUME NEW W, NEW a \in Seq(W), NEW b \in Seq(W), Len(a) = Len(b), \A i \in 1..Len(a) : a[i] = b[i]
    PROVE  a = b
OBVIOUS

LEMMA Widened ==
    ASSUME NEW S, NEW W, S \subseteq W, NEW a \in Seq(S)
    PROVE  a \in Seq(W)
OBVIOUS

LEMMA FewWords ==
    ASSUME NEW W, NEW a \in W, NEW b \in W, NEW c \in W, NEW d \in W
    PROVE  /\ <<a, b, c>> \in Seq(W) /\ Len(<<a, b, c>>) = 3
           /\ <<a, b, c, d>> \in Seq(W) /\ Len(<<a, b, c, d>>) = 4
OBVIOUS

\* The words of a call, place by place.
LEMMA CallWords ==
    ASSUME NEW argv \in Seq(STRING)
    PROVE  /\ \A i \in 1..4 : Call(argv)[i] = <<"cd", ";", "skynex", "task">>[i]
           /\ \A i \in 1..Len(argv) : Call(argv)[i + 4] = argv[i]
           /\ \A i \in 1..3 : Call(argv)[i + (Len(argv) + 4)] = <<"&", "&", "ls">>[i]
           /\ Len(argv) \in Nat
           /\ Len(Call(argv)) = Len(argv) + 7
           /\ Call(argv) \in Seq(Words)
<1> DEFINE pre  == <<"cd", ";", "skynex", "task">>
           post == <<"&", "&", "ls">>
           head == pre \o argv
           call == head \o post
           n    == Len(argv)
<1>1. "cd" \in Words /\ ";" \in Words /\ "skynex" \in Words /\ "task" \in Words /\ "&" \in Words /\ "ls" \in Words
  BY DEF Words
<1>2. argv \in Seq(Words)
  <2>1. STRING \subseteq Words
    BY DEF Words
  <2> QED
    BY <2>1, Widened, Zenon
<1>3. pre \in Seq(Words) /\ Len(pre) = 4
  BY <1>1, FewWords, Zenon
<1>4. post \in Seq(Words) /\ Len(post) = 3
  BY <1>1, FewWords, Zenon
<1> HIDE DEF pre, post
<1>0. head = pre \o argv /\ call = head \o post
  OBVIOUS
<1> HIDE DEF head, call
<1>5. head \in Seq(Words) /\ IsConcat(head, pre, argv)
  BY <1>0, <1>2, <1>3, Concat
<1>6. /\ n \in Nat
      /\ Len(head) = n + 4
  BY <1>3, <1>5 DEF IsConcat
<1>7. call \in Seq(Words) /\ IsConcat(call, head, post)
  BY <1>0, <1>4, <1>5, Concat
<1>8. Len(call) = n + 7
  BY <1>4, <1>6, <1>7 DEF IsConcat
<1>9. ASSUME NEW i \in 1..4
      PROVE  call[i] = pre[i]
  <2>1. i \in 1..Len(pre) /\ i \in 1..Len(head)
    BY <1>3, <1>6
  <2> QED
    BY <2>1, <1>5, <1>7 DEF IsConcat
<1>10. ASSUME NEW i \in 1..n
       PROVE  call[i + 4] = argv[i]
  <2>1. i + 4 \in 1..Len(head)
    BY <1>6
  <2>2. head[i + 4] = argv[i]
    BY <1>3, <1>5 DEF IsConcat
  <2> QED
    BY <2>1, <2>2, <1>7 DEF IsConcat
<1>11. ASSUME NEW i \in 1..3
       PROVE  call[i + (n + 4)] = post[i]
  BY <1>4, <1>6, <1>7 DEF IsConcat
<1>12. Call(argv) = call
  BY DEF Call, call, head, pre, post
<1> QED
  BY <1>6, <1>7, <1>8, <1>9, <1>10, <1>11, <1>12 DEF n, pre, post

LEMMA PairIsPrefix ==
    ASSUME NEW W, NEW a \in W, NEW b \in W,
           NEW line \in Seq(W), Len(line) >= 2, line[1] = a, line[2] = b
    PROVE  IsPrefix(<<a, b>>, line)
<1> DEFINE name  == <<a, b>>
           first == SubSeq(line, 1, 2)
           whole == SubSeq(name, 1, 2)
<1>1. name \in Seq(W) /\ Len(name) = 2 /\ name[1] = a /\ name[2] = b
  OBVIOUS
<1> HIDE DEF name
<1>2. Len(line) \in Nat
  OBVIOUS
<1>3. whole \in Seq(W) /\ Len(whole) = 2
  BY <1>1
<1>4. first \in Seq(W) /\ Len(first) = 2
  BY <1>2
<1>5. whole[1] = name[1] /\ whole[2] = name[2]
  BY <1>1
<1>6. first[1] = line[1] /\ first[2] = line[2]
  BY <1>2
<1> HIDE DEF first, whole
<1>7. \A i \in 1..2 : whole[i] = first[i]
  <2>1. \A i \in 1..2 : i = 1 \/ i = 2
    OBVIOUS
  <2> QED
    BY <2>1, <1>1, <1>5, <1>6
<1>8. whole = first
  BY <1>3, <1>4, <1>7, SameWords
<1>9. IsPrefix(name, line)
  BY <1>1, <1>8 DEF IsPrefix, whole, first
<1> QED
  BY <1>9 DEF name

\* The lexer finds in the call the line that mutates.
LEMMA CallMutates ==
    ASSUME NEW argv \in Seq(STRING), ToSet(argv) \cap (Separators \cup Unread) = {}, LineMutates(argv)
    PROVE  MutatesTask(Call(argv))
<1> DEFINE call == Call(argv)
           n    == Len(argv)
           last == n + 4
           line == SubSeq(call, 3, last)
<1>1. \A i \in 1..4 : call[i] = <<"cd", ";", "skynex", "task">>[i]
  BY CallWords
<1>2. \A i \in 1..n : call[i + 4] = argv[i]
  BY CallWords
<1>3. \A i \in 1..3 : call[i + last] = <<"&", "&", "ls">>[i]
  BY CallWords
<1>4. n \in Nat
  OBVIOUS
<1>5. Len(call) = n + 7 /\ call \in Seq(Words)
  BY CallWords
<1>6. \A i \in 1..n : argv[i] \notin Separators /\ argv[i] \notin Unread
  BY DEF ToSet
<1>7. argv \in Seq(Words)
  <2>1. STRING \subseteq Words
    BY DEF Words
  <2> QED
    BY <2>1, Widened, Zenon
<1> HIDE DEF call, n
<1>8. call[1] = "cd" /\ call[2] = ";" /\ call[3] = "skynex" /\ call[4] = "task"
  <2>1. 1 \in 1..4 /\ 2 \in 1..4 /\ 3 \in 1..4 /\ 4 \in 1..4
    OBVIOUS
  <2> QED
    BY <2>1, <1>1
<1>9. call[last + 1] = "&" /\ call[last + 2] = "&" /\ call[last + 3] = "ls"
  <2>1. 1 + last = last + 1 /\ 2 + last = last + 2 /\ 3 + last = last + 3
    BY <1>4
  <2>2. call[1 + last] = "&" /\ call[2 + last] = "&" /\ call[3 + last] = "ls"
    BY <1>3
  <2> QED
    BY <2>1, <2>2
<1>10. DOMAIN call = 1..(last + 3) /\ Len(call) = last + 3 /\ last \in Nat /\ last >= 4
  BY <1>4, <1>5
<1>11. ASSUME NEW i \in 5..last
       PROVE  call[i] \notin Separators /\ call[i] \notin Unread
  <2> DEFINE k == i - 4
  <2>1. k \in 1..n /\ i = k + 4
    BY <1>4
  <2> HIDE DEF k
  <2>2. call[i] = argv[k]
    BY <1>2, <2>1
  <2> QED
    BY <1>6, <2>1, <2>2
<1>12. 3 \in DOMAIN call /\ last \in DOMAIN call
  BY <1>10
<1>13. call[3 - 1] \in Separators /\ call[last + 1] \in Separators
  <2>1. 3 - 1 = 2
    OBVIOUS
  <2> QED
    BY <2>1, <1>8, <1>9 DEF Separators
<1>14. SubSeq(call, 3 + 2, last) = argv
  <2> DEFINE mid == SubSeq(call, 5, last)
  <2>1. CASE n = 0
    <3>1. mid = <<>>
      BY <2>1, <1>5
    <3>2. argv = <<>>
      BY <2>1 DEF n
    <3> QED
      BY <3>1, <3>2
  <2>2. CASE n > 0
    <3>1. 5 \in 1..Len(call) /\ last \in 5..Len(call) /\ last - 5 + 1 = n
      BY <2>2, <1>4, <1>10
    <3>2. /\ mid \in Seq(Words)
          /\ Len(mid) = last - 5 + 1
          /\ \A i \in 1..(last - 5 + 1) : mid[i] = call[i + 5 - 1]
      <4> HIDE DEF last
      <4> QED
        BY <3>1, <1>5, Slice
    <3> HIDE DEF mid
    <3>3. \A i \in 1..n : mid[i] = argv[i]
      <4> SUFFICES ASSUME NEW i \in 1..n
                   PROVE  mid[i] = argv[i]
        OBVIOUS
      <4>1. mid[i] = call[i + 5 - 1] /\ i + 5 - 1 = i + 4
        BY <3>1, <3>2, <1>4
      <4> QED
        BY <4>1, <1>2
    <3>4. mid = argv
      <4>1. Len(mid) = Len(argv) /\ \A i \in 1..Len(mid) : mid[i] = argv[i]
        BY <3>1, <3>2, <3>3 DEF n
      <4> QED
        BY <4>1, <3>2, <1>7, SameWords
    <3> QED
      BY <3>4 DEF mid
  <2> QED
    BY <2>1, <2>2, <1>4
<1>15. IsPrefix(<<"skynex", "task">>, line)
  <2>1. 3 \in 1..Len(call) /\ last \in 3..Len(call)
    BY <1>10
  <2>2. /\ line \in Seq(Words)
        /\ Len(line) = last - 3 + 1
        /\ \A i \in 1..(last - 3 + 1) : line[i] = call[i + 3 - 1]
    <3> HIDE DEF last
    <3> QED
      BY <2>1, <1>5, Slice
  <2> HIDE DEF line
  <2>3. Len(line) >= 2 /\ 1 \in 1..(last - 3 + 1) /\ 2 \in 1..(last - 3 + 1)
    BY <2>2, <1>10
  <2>4. line[1] = call[1 + 3 - 1] /\ line[2] = call[2 + 3 - 1]
    BY <2>2, <2>3
  <2>5. line[1] = "skynex" /\ line[2] = "task"
    <3>1. 1 + 3 - 1 = 3 /\ 2 + 3 - 1 = 4
      OBVIOUS
    <3> QED
      BY <3>1, <2>4, <1>8
  <2>6. "skynex" \in Words /\ "task" \in Words
    BY DEF Words
  <2> QED
    BY <2>2, <2>3, <2>5, <2>6, PairIsPrefix
<1>16. \A i \in 3..last : call[i] \notin Separators
  <2> SUFFICES ASSUME NEW i \in 3..last
               PROVE  call[i] \notin Separators
    OBVIOUS
  <2>1. i = 3 \/ i = 4 \/ i \in 5..last
    BY <1>10
  <2> QED
    BY <2>1, <1>8, <1>11 DEF Separators
<1>17. \A i \in DOMAIN call : call[i] \notin Unread
  <2> SUFFICES ASSUME NEW i \in DOMAIN call
               PROVE  call[i] \notin Unread
    OBVIOUS
  <2>1. \/ i = 1 \/ i = 2 \/ i = 3 \/ i = 4 \/ i \in 5..last
        \/ i = last + 1 \/ i = last + 2 \/ i = last + 3
    BY <1>10
  <2> QED
    BY <2>1, <1>8, <1>9, <1>11 DEF Unread
<1> HIDE DEF last
<1>18. MutatesTask(call)
  BY <1>12, <1>13, <1>14, <1>15, <1>16, <1>17 DEF MutatesTask, line
<1> QED
  BY <1>18 DEF call

\* The two sides agree on help: what the command does not take for a request for
\* help, the lexer does not either.
LEMMA NoHelpAt ==
    ASSUME NEW argv \in Lines, Reading(argv) = "run", NEW i \in 2..Len(argv), CliAssumption
    PROVE  ~ HelpAt(argv, i)
<1> DEFINE command == ResolveCommand(argv)
           words   == WordsAfter(command, argv)
           c       == Len(command)
<1>1. /\ argv \in Seq(STRING) /\ argv # <<>> /\ argv[1] \notin HelpFlags
      /\ command \in Commands /\ IsPrefix(command, argv)
      /\ words \in Seq(STRING) /\ WellFormed(words) /\ ~ AskedHelp(words)
  BY LineRuns
<1>2. /\ c \in 1..2 /\ DOMAIN command = 1..c
      /\ \A j \in 1..c : command[j] \notin HelpFlags
  BY <1>1, CommandsAreWords
<1>3. words = SubSeq(argv, c + 1, Len(argv))
  BY DEF WordsAfter
<1> HIDE DEF command, words, c
<1>4. /\ c <= Len(argv) /\ Len(argv) \in Nat
      /\ Len(words) = Len(argv) - c /\ DOMAIN words = 1..Len(words)
      /\ \A j \in 1..Len(words) : words[j] = argv[j + c]
  BY <1>1, <1>2, <1>3 DEF IsPrefix, c
<1>5. \A j \in 1..c : command[j] = argv[j]
  BY <1>1, <1>2 DEF IsPrefix, c
<1>6. CASE i <= c
  <2>1. i \in 1..c
    BY <1>2, <1>6
  <2> QED
    BY <2>1, <1>2, <1>5 DEF HelpAt
<1>7. CASE i > c /\ argv[i] \in HelpFlags
  <2> DEFINE j == i - c
  <2>1. j \in 1..Len(words) /\ words[j] = argv[i]
    BY <1>2, <1>4, <1>7
  <2>2. IsValue(words, j)
    <3>1. ~ Has(words, words[j])
      BY <2>1, <1>1, <1>7 DEF AskedHelp
    <3> QED
      BY <3>1, <2>1, <1>4 DEF Has
  <2>3. j > 1 /\ words[j - 1] \in ValueFlags
    BY <2>2 DEF IsValue
  <2>4. j - 1 \in 1..Len(words) /\ (j - 1) + c = i - 1 /\ (j - 1) + 1 = j
    BY <2>1, <2>3, <1>2, <1>4
  <2>5. words[j - 1] = argv[i - 1]
    BY <2>4, <1>4
  <2>6. words[j] \notin DoubleDashed
    <3> DEFINE k == j - 1
    <3>1. k \in DOMAIN words /\ words[k] \in ValueFlags /\ k + 1 = j
      BY <2>3, <2>4, <1>4
    <3> HIDE DEF k, j
    <3> QED
      BY <3>1, <1>1 DEF WellFormed
  <2>7. i > 2
    BY <2>3, <1>2
  <2> QED
    BY <2>1, <2>3, <2>5, <2>6, <2>7 DEF HelpAt
<1>8. CASE argv[i] \notin HelpFlags
  BY <1>8 DEF HelpAt
<1> QED
  BY <1>2, <1>6, <1>7, <1>8

LEMMA LastWordIn ==
    ASSUME NEW W, NEW a \in Seq(W), NEW w \in W
    PROVE  \E i \in DOMAIN (a \o <<w>>) : (a \o <<w>>)[i] = w
<1> DEFINE b == <<w>>
           c == a \o b
<1>1. b \in Seq(W) /\ Len(b) = 1 /\ b[1] = w
  OBVIOUS
<1> HIDE DEF b
<1>2. c \in Seq(W) /\ IsConcat(c, a, b)
  BY <1>1, Concat
<1> HIDE DEF c
<1>3. Len(c) = Len(a) + 1 /\ c[1 + Len(a)] = w
  BY <1>1, <1>2 DEF IsConcat
<1>4. DOMAIN c = 1..Len(c) /\ Len(a) \in Nat
  BY <1>2
<1>5. 1 + Len(a) \in DOMAIN c
  BY <1>3, <1>4
<1> QED
  BY <1>3, <1>5 DEF b, c

LEMMA TwoWords ==
    ASSUME NEW W, NEW a \in W, NEW b \in W
    PROVE  <<a, b>> \in Seq(W)
OBVIOUS

LEMMA RedirectionIsSeen ==
    ASSUME NEW argv \in Seq(STRING)
    PROVE  ToSet(Redirected(argv)) \cap Unread # {}
<1> DEFINE W    == STRING \cup {"skynex", "task", "redirection"}
           head == <<"skynex", "task">> \o argv
<1>1. "skynex" \in W /\ "task" \in W /\ "redirection" \in W
  OBVIOUS
<1>2. argv \in Seq(W)
  BY Widened
<1> HIDE DEF W
<1>3. <<"skynex", "task">> \in Seq(W)
  BY <1>1, TwoWords
<1>4. head \in Seq(W)
  BY <1>2, <1>3, Concat
<1>5. Redirected(argv) = head \o <<"redirection">>
  BY DEF Redirected
<1> HIDE DEF head
<1>6. \E i \in DOMAIN Redirected(argv) : Redirected(argv)[i] = "redirection"
  BY <1>1, <1>4, <1>5, LastWordIn
<1> QED
  BY <1>6 DEF ToSet, Unread

\* No line that saves escapes the plugin's lexer in a call that it reads.
THEOREM NoSaveIsMissed == CliSpec => []SavesAreRecognised
<1>1. SavesAreRecognised
  <2> SUFFICES ASSUME NEW argv \in Missed, Asked[argv].code = "OK"
               PROVE  /\ Asked[argv].request.op # "init"
                      /\ Saved(task, Asked[argv].request) = {}
    BY DEF SavesAreRecognised, RequestsOf
  <2> DEFINE r       == Asked[argv].request
             command == ResolveCommand(argv)
  <2>1. CASE r.op \in ReadingOps \ {"init"}
    BY <2>1 DEF ReadingOps, Mutations, Saved
  <2>2. CASE r.op \notin ReadingOps \ {"init"}
    <3>1. /\ Reading(argv) = "run"
          /\ \/ command = <<"init">>
             \/ command \in {<<"next", op>> : op \in {"start", "block", "done"}}
             \/ command = <<"next", "add">>
             \/ command = <<"checkpoint", "set">>
             \/ command = <<"reviews", "set">>
      BY <2>2, AskedByCommand, CliAssumption, VocabularyAssumption DEF Missed
    <3>2. command \in MutatingCommands
      BY <3>1 DEF MutatingCommands
    <3>3. argv \in Seq(STRING) /\ IsPrefix(command, argv)
      BY <3>1, LineRuns, CliAssumption DEF Missed
    <3>4. LineMutates(argv)
      BY <3>1, <3>2, <3>3, NoHelpAt, CliAssumption DEF LineMutates, Missed
    <3>5. MutatesTask(Call(argv))
      BY <3>3, <3>4, CallMutates, CliAssumption DEF CliAssumption, Missed
    <3>6. ToSet(Redirected(argv)) \cap Unread # {}
      BY <3>3, RedirectionIsSeen
    <3> QED
      BY <3>5, <3>6 DEF Missed
  <2> QED
    BY <2>1, <2>2
<1> QED
  BY <1>1, PTL

-----------------------------------------------------------------------------
(* Running a line again. *)

LEMMA NothingLeftToDo ==
    ASSUME NEW doc, NEW r, r.op \in Repeatable, Holds(doc, r)
    PROVE  ~ Accepts(doc, r)
<1>1. ~ CheckpointChanged(doc, r.checkpoint)
  BY DEF Holds, CheckpointChanged
<1>2. CASE r.op \in {"start", "block"}
  BY <1>1, <1>2 DEF Holds, Accepts, AcceptsTransition
<1>3. CASE r.op = "done"
  BY <1>1, <1>3 DEF Holds, Accepts, AcceptsDone
<1>4. CASE r.op = "checkpoint"
  BY <1>1, <1>4 DEF Accepts, AcceptsCheckpoint
<1> QED
  BY <1>2, <1>3, <1>4 DEF Repeatable

\* What a transition or a checkpoint does to the texts of the steps.
LEMMA TextsAfter ==
    ASSUME NEW doc \in Task, SoundTask(doc), NEW r \in TransitionAsked \cup CheckpointRequest, Accepts(doc, r),
           DomainAssumption, VocabularyAssumption
    PROVE  /\ DOMAIN Result(doc, r).steps = DOMAIN doc.steps
           /\ r \in TransitionAsked => r.step \in DOMAIN doc.steps
           /\ \A s \in DOMAIN doc.steps :
                 /\ Result(doc, r).steps[s].body = doc.steps[s].body
                 /\ \/ Result(doc, r).steps[s].blockReason \in {doc.steps[s].blockReason, NoReason}
                    \/ /\ r.op = "block"
                       /\ Result(doc, r).steps[s].blockReason = r.reason
<1> DEFINE after == Result(doc, r)
<1>1. CASE r \in TransitionAsked /\ r.op # "done"
  <2>1. r \in StartRequest \cup BlockRequest /\ AcceptsTransition(doc, r)
    BY <1>1, AcceptedStep
  <2>2. r.op = "block" \/ r.reason = NoReason
    BY <1>1 DEF TransitionAsked
  <2>3. /\ DOMAIN after.steps = DOMAIN doc.steps
        /\ \A s \in DOMAIN doc.steps \ {r.step} : after.steps[s] = doc.steps[s]
        /\ after.steps[r.step].blockReason = r.reason
        /\ after.steps[r.step].body = doc.steps[r.step].body
    BY <2>1, TransitionEffect
  <2>4. r.step \in DOMAIN doc.steps
    BY <2>1 DEF AcceptsTransition
  <2> HIDE DEF after
  <2>5. ASSUME NEW s \in DOMAIN doc.steps
        PROVE  /\ after.steps[s].body = doc.steps[s].body
               /\ \/ after.steps[s].blockReason \in {doc.steps[s].blockReason, NoReason}
                  \/ r.op = "block" /\ after.steps[s].blockReason = r.reason
    <3>1. CASE s = r.step
      BY <3>1, <2>2, <2>3
    <3>2. CASE s # r.step
      BY <3>2, <2>3
    <3> QED
      BY <3>1, <3>2
  <2> QED
    BY <2>3, <2>4, <2>5 DEF after
<1>2. CASE r \in TransitionAsked /\ r.op = "done"
  <2>1. Spoken(r) \in DoneRequest /\ AcceptsDone(doc, Spoken(r))
    BY <1>2, AcceptedStep
  <2>2. Result(doc, Spoken(r)) = after
    BY <1>2, AcceptedIsRequest DEF MutationAsked
  <2>3. /\ DOMAIN after.steps = DOMAIN doc.steps
        /\ \A s \in DOMAIN doc.steps :
              /\ after.steps[s].body = doc.steps[s].body
              /\ \/ after.steps[s] = doc.steps[s]
                 \/ after.steps[s].blockReason = NoReason
    BY <2>1, <2>2, DoneEffect
  <2>4. r.step \in DOMAIN doc.steps
    BY <1>2 DEF Accepts, AcceptsDone
  <2> HIDE DEF after
  <2>5. \A s \in DOMAIN doc.steps :
            /\ after.steps[s].body = doc.steps[s].body
            /\ after.steps[s].blockReason \in {doc.steps[s].blockReason, NoReason}
    BY <2>3
  <2> QED
    BY <2>3, <2>4, <2>5 DEF after
<1>3. CASE r \in CheckpointRequest
  <2>1. after.steps = doc.steps /\ r \notin TransitionAsked
    BY <1>3, RecordEffect DEF CheckpointRequest, TransitionAsked
  <2> QED
    BY <2>1
<1> QED
  BY <1>1, <1>2, <1>3

LEMMA SoundReads ==
    ASSUME NEW doc \in Task, NEW r \in TransitionAsked \cup CheckpointRequest, SoundTask(doc), Accepts(doc, r),
           ReadsBack(doc), DomainAssumption, CliAssumption, VocabularyAssumption
    PROVE  ReadsBack(Result(doc, r))
<1> DEFINE after == Result(doc, r)
<1>1. after \in Task /\ SoundTask(after)
  <2>1. r \in MutationAsked
    BY DEF MutationAsked
  <2>2. Spoken(r) \in AnyRequest /\ Accepts(doc, Spoken(r)) /\ Result(doc, Spoken(r)) = Result(doc, r)
    BY <2>1, AcceptedIsRequest
  <2> QED
    BY <2>2, AnyResultSound
<1>2. StructureParses(after)
  <2> HIDE DEF after
  <2> QED
    BY <1>1 DEF SoundTask, SoundSteps, WellNested, StructureParses, Task
<1>3. /\ DOMAIN after.steps = DOMAIN doc.steps
      /\ \A s \in DOMAIN doc.steps :
            /\ after.steps[s].body = doc.steps[s].body
            /\ \/ after.steps[s].blockReason \in {doc.steps[s].blockReason, NoReason}
               \/ r.op = "block" /\ after.steps[s].blockReason = r.reason
  BY TextsAfter
<1>4. r.op = "block" => ReasonReads(r.reason)
  BY DEF TransitionAsked, CheckpointRequest, FieldAdmitted, ReasonReads
<1> HIDE DEF after
<1>5. ASSUME NEW s \in DOMAIN after.steps
      PROVE  StepReads(after.steps[s])
  <2>1. StepReads(doc.steps[s])
    BY <1>3 DEF ReadsBack
  <2> QED
    BY <2>1, <1>3, <1>4 DEF StepReads
<1> QED
  BY <1>2, <1>5 DEF ReadsBack, after

LEMMA AgainOk ==
    ASSUME NEW doc, NEW r, ReadsBack(doc), r.op \in Repeatable, Holds(doc, r), r.expected = NoRevision,
           r.op # "checkpoint" => r.step \in DOMAIN doc.steps
    PROVE  Verdict(doc, r) = "OK"
<1>1. Fence(doc, r) = "OK"
  BY DEF Fence, RevisionMatches
<1>2. CASE r.op = "checkpoint"
  BY <1>1, <1>2 DEF Verdict
<1>3. CASE r.op \in {"start", "block"}
  <2> DEFINE open == Demand(r.step \in DOMAIN doc.steps => ~ IsDone(doc.steps, r.step))
  <2>1. Find(doc, r.step) = "OK"
    BY <1>3 DEF Find
  <2>2. open = "OK"
    BY <1>3 DEF Holds, IsDone, TargetStatus, Demand
  <2>3. TransitionVerdict(doc, r) = FirstRefusal(<<Fence(doc, r), Find(doc, r.step), open>>)
    BY DEF TransitionVerdict
  <2> HIDE DEF open
  <2>4. TransitionVerdict(doc, r) = "OK"
    BY <1>1, <2>1, <2>2, <2>3, RefusalOfThree
  <2> QED
    BY <2>4, <1>3 DEF Verdict
<1>4. CASE r.op = "done"
  <2> DEFINE nothing == /\ r.step \in DOMAIN doc.steps
                        /\ IsDone(doc.steps, r.step) /\ ~ CheckpointChanged(doc, r.checkpoint)
             early   == IF r.checkpoint = NoCheckpoint THEN "OK" ELSE Fence(doc, r)
             late    == IF nothing THEN "OK" ELSE Fence(doc, r)
  <2>1. Find(doc, r.step) = "OK"
    BY <1>4 DEF Find
  <2>2. early = "OK" /\ late = "OK"
    BY <1>1
  <2>3. DoneVerdict(doc, r) = FirstRefusal(<<early, Find(doc, r.step), late>>)
    BY DEF DoneVerdict
  <2> HIDE DEF early, late
  <2>4. DoneVerdict(doc, r) = "OK"
    BY <2>1, <2>2, <2>3, RefusalOfThree
  <2> QED
    BY <2>4, <1>4 DEF Verdict
<1> QED
  BY <1>2, <1>3, <1>4 DEF Repeatable

\* A repeatable request that was saved finds nothing to do, and nothing amiss.
LEMMA SavedOnce ==
    ASSUME NEW doc \in Task, SoundTask(doc), NEW r \in Requests, r.op \in Repeatable,
           NEW after \in Saved(doc, r), DomainAssumption, CliAssumption, VocabularyAssumption
    PROVE  /\ Saved(after, r) = {}
           /\ r.expected = NoRevision => Verdict(after, r) = "OK"
<1>1. /\ r \in MutationAsked /\ Verdict(doc, r) = "OK" /\ r.op \in Mutations /\ Accepts(doc, r)
      /\ after = Result(doc, r)
      /\ after \in Task /\ SoundTask(after)
  BY AcceptedIsSaved
<1>2. Holds(after, r)
  BY <1>1, AcceptedHolds
<1>3. Saved(after, r) = {}
  BY <1>2, NothingLeftToDo DEF Saved
<1>4. r \in TransitionAsked \cup CheckpointRequest
  BY <1>1 DEF MutationAsked, AdditionAsked, ReviewsRequest, Repeatable
<1>5. ReadsBack(doc)
  BY <1>1, VerdictOk
<1>6. ReadsBack(after)
  BY <1>1, <1>4, <1>5, SoundReads
<1>7. r.op # "checkpoint" => r.step \in DOMAIN after.steps
  <2>1. r.op # "checkpoint" => r \in TransitionAsked
    BY <1>4 DEF CheckpointRequest
  <2> QED
    BY <1>1, <1>4, <2>1, TextsAfter
<1> QED
  BY <1>2, <1>3, <1>6, <1>7, AgainOk

-----------------------------------------------------------------------------
(* Reading back what was saved. *)

\* The texts of every step are such as the commands admit.
TextsAdmitted(doc) == \A s \in DOMAIN doc.steps : ReadsButForBlanks(doc.steps[s])

\* A draft that assertStepDraft admits becomes a step that reads back, unless
\* the blanks around its title take it past the limit.
LEMMA AdmittedReads ==
    ASSUME NEW draft, DraftAdmitted(draft.body)
    PROVE  ReadsButForBlanks(BuildPendingStep(draft))
<1>1. /\ BuildPendingStep(draft).body = draft.body
      /\ BuildPendingStep(draft).blockReason = NoReason
  BY DEF BuildPendingStep
<1>2. TitleReads(draft.body) \/ PaddedTitle(draft.body.title)
  BY DEF DraftAdmitted, StepTitleAdmitted, TitleReads, PaddedTitle
<1>3. FieldsRead(draft.body)
  BY DEF DraftAdmitted, FieldAdmitted, FieldsRead
<1> QED
  BY <1>1, <1>2, <1>3 DEF ReadsButForBlanks

LEMMA CreatedTexts == VocabularyAssumption /\ Init => TextsAdmitted(task)
<1> SUFFICES ASSUME VocabularyAssumption, NEW n \in 0..MaxSteps, NEW drafts \in [1..n -> Drafts],
                    NEW mode \in ReviewMode, task = CreatedTask(drafts, mode)
             PROVE  TextsAdmitted(task)
  BY DEF Init
<1>1. task.steps = [i \in DOMAIN drafts |-> BuildPendingStep(drafts[i])]
  BY DEF CreatedTask
<1>2. ASSUME NEW i \in DOMAIN drafts
      PROVE  ReadsButForBlanks(BuildPendingStep(drafts[i]))
  BY AdmittedReads DEF VocabularyAssumption
<1> QED
  BY <1>1, <1>2 DEF TextsAdmitted

LEMMA SavedTexts ==
    ASSUME IInv, TextsAdmitted(task), CliNext,
           DomainAssumption, CliAssumption, VocabularyAssumption
    PROVE  TextsAdmitted(task')
<1>1. PICK r \in Requests : task' \in Saved(task, r)
  BY DEF CliNext, RunTaskCommand
<1> DEFINE after == Result(task, r)
<1>2. /\ r \in MutationAsked /\ Accepts(task, r)
      /\ task' = after
      /\ task \in Task /\ SoundTask(task)
  BY <1>1, AcceptedIsSaved DEF IInv
<1>3. CASE r \in TransitionAsked \cup CheckpointRequest
  <2>1. /\ DOMAIN after.steps = DOMAIN task.steps
        /\ \A s \in DOMAIN task.steps :
              /\ after.steps[s].body = task.steps[s].body
              /\ \/ after.steps[s].blockReason \in {task.steps[s].blockReason, NoReason}
                 \/ r.op = "block" /\ after.steps[s].blockReason = r.reason
    BY <1>2, <1>3, TextsAfter
  <2>2. r.op = "block" => ReasonReads(r.reason)
    BY <1>3 DEF TransitionAsked, CheckpointRequest, FieldAdmitted, ReasonReads
  <2> HIDE DEF after
  <2>3. ASSUME NEW s \in DOMAIN after.steps
        PROVE  ReadsButForBlanks(after.steps[s])
    <3>1. ReadsButForBlanks(task.steps[s])
      BY <2>1 DEF TextsAdmitted
    <3> QED
      BY <3>1, <2>1, <2>2 DEF ReadsButForBlanks
  <2> QED
    BY <1>2, <2>3 DEF TextsAdmitted
<1>4. CASE r \in ReviewsRequest
  <2>1. after.steps = task.steps
    BY <1>4 DEF ReviewsRequest, Result, ReviewsResult
  <2> QED
    BY <1>2, <2>1 DEF TextsAdmitted
<1>5. CASE r \in AdditionAsked
  <2> DEFINE new == BuildPendingStep(r.draft)
  <2>1. /\ r.op = "add"
        /\ ReadsButForBlanks(new)
    BY <1>5, AdmittedReads DEF AdditionAsked
  <2>2. after.steps = Append(task.steps, new)
    <3>1. after = Amended(task, Append(task.steps, new))
      BY <2>1 DEF Result, AddResult
    <3> HIDE DEF after, new
    <3> QED
      BY <3>1, <1>2 DEF Amended, Task
  <2>3. task.steps \in Seq(Step)
    BY <1>2 DEF Task
  <2> HIDE DEF after, new
  <2>4. \A s \in DOMAIN after.steps :
            (s \in DOMAIN task.steps /\ after.steps[s] = task.steps[s]) \/ after.steps[s] = new
    BY <2>2, <2>3
  <2> QED
    BY <1>2, <2>1, <2>4 DEF TextsAdmitted
<1> QED
  BY <1>2, <1>3, <1>4, <1>5 DEF MutationAsked

\* No sequence of lines makes task.json unreadable for the next command, but
\* for a step title whose blanks take it past the limit.
THEOREM SavesAreReadBack == CliSpec => []SavesReadBack
<1>1. Init => TextsAdmitted(task)
  BY CreatedTexts, VocabularyAssumption
<1>2. IInv /\ TextsAdmitted(task) /\ [CliNext]_task => TextsAdmitted(task)'
  BY SavedTexts, DomainAssumption, CliAssumption, VocabularyAssumption DEF TextsAdmitted
<1>3. IInv /\ TextsAdmitted(task) => SavesReadBack
  BY SoundDocument DEF SavesReadBack, TextsAdmitted, StructureParsesBack
<1> QED
  BY <1>1, <1>2, <1>3, CliInvariance, PTL DEF CliSpec


-----------------------------------------------------------------------------
(* Spelling a line again. *)

\* Words that are one, or spell one checkpoint.
Same(x, y) ==
    \/ x = y
    \/ /\ x \in DOMAIN CheckpointNamed /\ y \in DOMAIN CheckpointNamed
       /\ CheckpointNamed[x].keys \in {"canonical", "other"}
       /\ CheckpointNamed[y].keys \in {"canonical", "other"}
       /\ Canonical(CheckpointNamed[x]) = Canonical(CheckpointNamed[y])

Alike(u, v) ==
    /\ u \in Seq(STRING) /\ v \in Seq(STRING)
    /\ Len(u) = Len(v)
    /\ \A i \in 1..Len(u) : Same(u[i], v[i])

\* Words of which none spells a checkpoint.
Names == UNION ({Dashed, DOMAIN StepNamed, DOMAIN NumberNamed, DOMAIN TextOf, MalformedIds, {TaskHere, Absent}}
                    \cup {ToSet(c) : c \in Commands})

LEMMA SameName ==
    ASSUME NEW x, NEW y, Same(x, y), x \in Names \/ y \in Names, CliAssumption
    PROVE  x = y
<1>1. DOMAIN CheckpointNamed \cap Names = {}
  BY Zenon DEF CliAssumption, Names
<1> QED
  BY <1>1 DEF Same

LEMMA NamesAre ==
    /\ Dashed \subseteq Names /\ DOMAIN StepNamed \subseteq Names /\ DOMAIN NumberNamed \subseteq Names
    /\ DOMAIN TextOf \subseteq Names /\ MalformedIds \subseteq Names
    /\ TaskHere \in Names /\ Absent \in Names
    /\ \A c \in Commands : ToSet(c) \subseteq Names
<1>1. /\ Dashed \subseteq Names /\ DOMAIN StepNamed \subseteq Names /\ DOMAIN NumberNamed \subseteq Names
      /\ DOMAIN TextOf \subseteq Names /\ MalformedIds \subseteq Names
  BY Zenon DEF Names
<1>2. TaskHere \in Names /\ Absent \in Names
  BY Zenon DEF Names
<1>3. \A c \in Commands : ToSet(c) \subseteq Names
  BY Zenon DEF Names
<1> QED
  BY <1>1, <1>2, <1>3

LEMMA SenseIsAlike ==
    ASSUME NEW argv \in Lines, NEW l \in Lines, Sense(l) = Sense(argv), CliAssumption
    PROVE  Alike(argv, l)
<1>1. argv \in Seq(STRING) /\ l \in Seq(STRING)
  BY DEF CliAssumption
<1>2. DOMAIN Sense(argv) = 1..Len(argv) /\ DOMAIN Sense(l) = 1..Len(l)
  BY <1>1 DEF Sense
<1>3. Len(argv) = Len(l)
  <2>1. 1..Len(argv) = 1..Len(l) /\ Len(argv) \in Nat /\ Len(l) \in Nat
    BY <1>1, <1>2
  <2> QED
    BY <2>1
<1>4. ASSUME NEW i \in 1..Len(argv)
      PROVE  Same(argv[i], l[i])
  <2> DEFINE Spells(w) == w \in DOMAIN CheckpointNamed /\ CheckpointNamed[w].keys \in {"canonical", "other"}
             Sensed(w) == IF Spells(w) THEN <<"checkpoint", Canonical(CheckpointNamed[w])>> ELSE <<"word", w>>
  <2>1. Sensed(argv[i]) = Sensed(l[i])
    <3>1. i \in DOMAIN argv /\ i \in DOMAIN l
      BY <1>1, <1>3
    <3>2. Sense(argv)[i] = Sensed(argv[i]) /\ Sense(l)[i] = Sensed(l[i])
      BY <3>1 DEF Sense, Canonical
    <3> QED
      BY <3>2
  <2>2. \A a, b, c, d : <<a, b>> = <<c, d>> => a = c /\ b = d
    OBVIOUS
  <2>3. CASE Spells(argv[i]) /\ Spells(l[i])
    <3>1. <<"checkpoint", Canonical(CheckpointNamed[argv[i]])>> = <<"checkpoint", Canonical(CheckpointNamed[l[i]])>>
      BY <2>1, <2>3
    <3>2. Canonical(CheckpointNamed[argv[i]]) = Canonical(CheckpointNamed[l[i]])
      BY <3>1
    <3> QED
      BY <2>3, <3>2 DEF Same
  <2>4. CASE ~ Spells(argv[i]) /\ ~ Spells(l[i])
    <3>1. <<"word", argv[i]>> = <<"word", l[i]>>
      BY <2>1, <2>4
    <3> QED
      BY <3>1 DEF Same
  <2>5. CASE Spells(argv[i]) /\ ~ Spells(l[i])
    <3>1. <<"checkpoint", Canonical(CheckpointNamed[argv[i]])>> = <<"word", l[i]>>
      BY <2>1, <2>5
    <3> QED
      BY <3>1
  <2>6. CASE ~ Spells(argv[i]) /\ Spells(l[i])
    <3>1. <<"checkpoint", Canonical(CheckpointNamed[l[i]])>> = <<"word", argv[i]>>
      BY <2>1, <2>6
    <3> QED
      BY <3>1
  <2> QED
    BY <2>3, <2>4, <2>5, <2>6
<1> QED
  BY <1>1, <1>3, <1>4 DEF Alike

\* Lines that are alike are of one command.
LEMMA AlikeIsSymmetric ==
    ASSUME NEW u, NEW v, Alike(u, v)
    PROVE  Alike(v, u)
BY DEF Alike, Same

LEMMA PrefixIs ==
    ASSUME NEW c \in Commands, NEW u \in Seq(STRING)
    PROVE  IsPrefix(c, u) <=> Len(c) <= Len(u) /\ \A i \in 1..Len(c) : u[i] = c[i]
<1> DEFINE W == STRING \cup UNION {ToSet(d) : d \in Commands}
           n == Len(c)
<1>1. n \in 1..2 /\ DOMAIN c = 1..n
  BY CommandsAreWords
<1>2. c \in Seq(W)
  <2>1. \A i \in 1..n : c[i] \in W
    BY CommandsAreWords
  <2>2. c = [i \in 1..n |-> c[i]]
    BY <1>1 DEF Commands
  <2> HIDE DEF W, n
  <2> QED
    BY <1>1, <2>1, <2>2
<1>3. u \in Seq(W)
  <2>1. STRING \subseteq W
    OBVIOUS
  <2> HIDE DEF W
  <2> QED
    BY <2>1, Widened, Zenon
<1> HIDE DEF W
<1>4. SubSeq(c, 1, n) = c
  BY <1>1, <1>2
<1>5. ASSUME n <= Len(u)
      PROVE  /\ SubSeq(u, 1, n) \in Seq(W)
             /\ Len(SubSeq(u, 1, n)) = n
             /\ \A i \in 1..n : SubSeq(u, 1, n)[i] = u[i]
  <2>1. 1 \in 1..Len(u) /\ n \in 1..Len(u) /\ n - 1 + 1 = n
    BY <1>1, <1>3, <1>5
  <2> HIDE DEF n
  <2> QED
    BY <2>1, <1>1, <1>3
<1>6. ASSUME n <= Len(u), \A i \in 1..n : u[i] = c[i]
      PROVE  SubSeq(u, 1, n) = c
  BY <1>1, <1>2, <1>5, <1>6, SameWords
<1>7. ASSUME n <= Len(u), SubSeq(u, 1, n) = c
      PROVE  \A i \in 1..n : u[i] = c[i]
  BY <1>5, <1>7
<1> QED
  BY <1>4, <1>6, <1>7 DEF IsPrefix

LEMMA PrefixAlike ==
    ASSUME NEW u, NEW v, Alike(u, v), NEW c \in Commands, IsPrefix(c, u), CliAssumption
    PROVE  IsPrefix(c, v)
<1>1. u \in Seq(STRING) /\ v \in Seq(STRING) /\ Len(u) = Len(v)
  BY DEF Alike
<1>2. Len(c) <= Len(u) /\ \A i \in 1..Len(c) : u[i] = c[i]
  BY <1>1, PrefixIs
<1>3. ASSUME NEW i \in 1..Len(c)
      PROVE  v[i] = c[i]
  <2>1. Same(u[i], v[i]) /\ u[i] = c[i]
    BY <1>1, <1>2, CommandsAreWords DEF Alike
  <2>2. c[i] \in Names
    BY CommandsAreWords, NamesAre DEF ToSet
  <2> QED
    BY <2>1, <2>2, SameName
<1> QED
  BY <1>1, <1>2, <1>3, PrefixIs

LEMMA AlikeResolves ==
    ASSUME NEW u, NEW v, Alike(u, v), CliAssumption
    PROVE  ResolveCommand(u) = ResolveCommand(v)
<1>1. \A c \in Commands : IsPrefix(c, u) <=> IsPrefix(c, v)
  BY PrefixAlike, AlikeIsSymmetric
<1> DEFINE named(w) == {c \in Commands : IsPrefix(c, w)}
<1>2. named(u) = named(v)
  BY <1>1, Zenon
<1> DEFINE Chosen(S) == IF S = {} THEN Unresolved ELSE CHOOSE c \in S : TRUE
<1>3. ResolveCommand(u) = Chosen(named(u)) /\ ResolveCommand(v) = Chosen(named(v))
  BY DEF ResolveCommand
<1> HIDE DEF named, Chosen
<1> QED
  BY <1>2, <1>3, Zenon

LEMMA WordsAlike ==
    ASSUME NEW u, NEW v, Alike(u, v), NEW n \in 1..2, n <= Len(u)
    PROVE  Alike(SubSeq(u, n + 1, Len(u)), SubSeq(v, n + 1, Len(v)))
<1> DEFINE m == Len(u)
           x == SubSeq(u, n + 1, m)
           y == SubSeq(v, n + 1, m)
<1>1. u \in Seq(STRING) /\ v \in Seq(STRING) /\ Len(v) = m /\ m \in Nat
  BY DEF Alike
<1>2. \A i \in 1..m : Same(u[i], v[i])
  BY DEF Alike
<1>3. n + 1 \in Nat /\ m - (n + 1) + 1 = m - n /\ m - n \in Nat
  BY <1>1
<1> HIDE DEF m
<1>4. /\ x \in Seq(STRING) /\ Len(x) = m - n
      /\ \A i \in 1..(m - n) : x[i] = u[i + n]
  BY <1>1, <1>3 DEF m
<1>5. /\ y \in Seq(STRING) /\ Len(y) = m - n
      /\ \A i \in 1..(m - n) : y[i] = v[i + n]
  BY <1>1, <1>3 DEF m
<1>6. \A i \in 1..(m - n) : i + n \in 1..m
  BY <1>1
<1> HIDE DEF x, y
<1>7. \A i \in 1..Len(x) : Same(x[i], y[i])
  BY <1>2, <1>4, <1>5, <1>6
<1>8. Alike(x, y)
  BY <1>4, <1>5, <1>7 DEF Alike
<1> QED
  BY <1>1, <1>8 DEF x, y, m

LEMMA FlagsAlike ==
    ASSUME NEW u, NEW v, Alike(u, v), CliAssumption
    PROVE  /\ DOMAIN u = 1..Len(u) /\ DOMAIN v = DOMAIN u
           /\ \A i \in DOMAIN u : IsValue(u, i) <=> IsValue(v, i)
           /\ \A i \in DOMAIN u : (u[i] \in Dashed \/ v[i] \in Dashed) => u[i] = v[i]
<1>1. /\ u \in Seq(STRING) /\ v \in Seq(STRING) /\ Len(u) = Len(v) /\ Len(u) \in Nat
      /\ DOMAIN u = 1..Len(u) /\ DOMAIN v = 1..Len(u)
  BY DEF Alike
<1>2. ASSUME NEW i \in DOMAIN u
      PROVE  (u[i] \in Dashed \/ v[i] \in Dashed) => u[i] = v[i]
  <2>1. Same(u[i], v[i])
    BY <1>1 DEF Alike
  <2> QED
    BY <2>1, SameName, NamesAre
<1>3. ValueFlags \subseteq Dashed
  BY Zenon DEF Dashed, KnownFlags
<1>4. ASSUME NEW i \in DOMAIN u
      PROVE  IsValue(u, i) <=> IsValue(v, i)
  <2>1. CASE i > 1
    <3>1. i - 1 \in DOMAIN u
      BY <1>1, <2>1
    <3> QED
      BY <3>1, <1>2, <1>3 DEF IsValue
  <2>2. CASE ~ (i > 1)
    BY <2>2 DEF IsValue
  <2> QED
    BY <2>1, <2>2
<1> QED
  BY <1>1, <1>2, <1>4

\* The command reads both alike.
LEMMA ReadAlike ==
    ASSUME NEW u, NEW v, Alike(u, v), CliAssumption
    PROVE  /\ WellFormed(u) <=> WellFormed(v)
           /\ AskedHelp(u) <=> AskedHelp(v)
           /\ Flags(u) = Flags(v)
<1>1. /\ DOMAIN u = 1..Len(u) /\ DOMAIN v = DOMAIN u /\ Len(v) = Len(u) /\ Len(u) \in Nat
      /\ \A i \in DOMAIN u : IsValue(u, i) <=> IsValue(v, i)
      /\ \A i \in DOMAIN u : (u[i] \in Dashed \/ v[i] \in Dashed) => u[i] = v[i]
  BY FlagsAlike DEF Alike
<1>2. /\ UnknownFlags \subseteq Dashed /\ ValueFlags \subseteq Dashed
      /\ DoubleDashed \subseteq Dashed /\ HelpFlags \subseteq Dashed
  BY Zenon DEF Dashed, KnownFlags, DoubleDashed
<1>3. WellFormed(u) <=> WellFormed(v)
  <2>1. ASSUME NEW i \in DOMAIN u
        PROVE  /\ u[i] \in UnknownFlags <=> v[i] \in UnknownFlags
               /\ u[i] \in ValueFlags <=> v[i] \in ValueFlags
               /\ u[i] \in DoubleDashed <=> v[i] \in DoubleDashed
    BY <1>1, <1>2
  <2>2. ASSUME NEW i \in DOMAIN u, i < Len(u)
        PROVE  u[i + 1] \in DoubleDashed <=> v[i + 1] \in DoubleDashed
    <3>1. i + 1 \in DOMAIN u
      BY <1>1, <2>2
    <3> QED
      BY <3>1, <2>1
  <2> QED
    BY <1>1, <2>1, <2>2 DEF WellFormed
<1>4. ASSUME NEW flag \in HelpFlags
      PROVE  Has(u, flag) <=> Has(v, flag)
  BY <1>1, <1>2 DEF Has
<1>5. Flags(u) = Flags(v)
  BY <1>1 DEF Flags
<1> QED
  BY <1>3, <1>4, <1>5 DEF AskedHelp

-----------------------------------------------------------------------------
\* The last of finitely many places.
LEMMA LastPlace ==
    ASSUME NEW n \in Nat, NEW where \in SUBSET (1..n), where # {}
    PROVE  \E last \in where : {j \in where : j <= last} = where
<1> DEFINE bounds == {m \in Nat : \A j \in where : j <= m}
           top    == FirstOf(bounds)
<1>1. n \in bounds
  OBVIOUS
<1>2. top \in bounds /\ \A m \in bounds : top <= m
  <2>1. bounds \in SUBSET Nat /\ bounds # {}
    BY <1>1
  <2> HIDE DEF bounds
  <2> QED
    BY <2>1, FirstOfIsFirst
<1> HIDE DEF top
<1>3. top \in Nat /\ \A j \in where : j \in Nat /\ j <= top
  BY <1>2
<1>4. top \in where
  <2>1. SUFFICES ASSUME top \notin where
                 PROVE  FALSE
    OBVIOUS
  <2>2. \A j \in where : j < top
    BY <1>3, <2>1
  <2>3. top - 1 \in Nat
    <3>1. PICK j \in where : TRUE
      OBVIOUS
    <3> QED
      BY <1>3, <2>2, <3>1
  <2>4. top - 1 \in bounds
    BY <1>3, <2>2, <2>3
  <2> QED
    BY <1>2, <1>3, <2>4
<1> QED
  BY <1>3, <1>4

LEMMA NthIs ==
    ASSUME NEW n \in Nat, NEW where \in SUBSET (1..n), where # {}
    PROVE  /\ Nth(where, Cardinality(where)) \in where
           /\ Cardinality(where) = 1 => Nth(where, 1) \in where
<1>1. PICK last \in where : {j \in where : j <= last} = where
  BY LastPlace
<1> QED
  BY <1>1 DEF Nth

\* What the options of like lines hold.
LEMMA AtAlike ==
    ASSUME NEW u, NEW v, Alike(u, v), NEW where \in SUBSET (DOMAIN u)
    PROVE  /\ Len(At(u, where)) = Len(At(v, where)) /\ Len(At(u, where)) \in Nat
           /\ At(u, where) = <<>> <=> At(v, where) = <<>>
           /\ At(u, where) # <<>> => Same(Last(At(u, where)), Last(At(v, where)))
           /\ Len(At(u, where)) = 1 => Same(At(u, where)[1], At(v, where)[1])
<1> DEFINE k == Cardinality(where)
<1>1. u \in Seq(STRING) /\ DOMAIN u = 1..Len(u) /\ Len(u) \in Nat
  BY DEF Alike
<1>2. \A i \in 1..Len(u) : Same(u[i], v[i])
  BY DEF Alike
<1>3. IsFiniteSet(where)
  BY <1>1, PlacesAreFinite
<1>4. /\ k \in Nat
      /\ Len(At(u, where)) = k /\ Len(At(v, where)) = k
      /\ At(u, where) = <<>> <=> where = {}
      /\ At(v, where) = <<>> <=> where = {}
      /\ \A j \in 1..k : At(u, where)[j] = u[Nth(where, j)] /\ At(v, where)[j] = v[Nth(where, j)]
  BY <1>3, AtIsSequence
<1>5. k = 0 <=> where = {}
  BY <1>3, FS_EmptySet, Zenon
<1>6. where # {} => Nth(where, k) \in where /\ (k = 1 => Nth(where, 1) \in where)
  BY <1>1, NthIs
<1> HIDE DEF k
<1>7. ASSUME where # {}
      PROVE  Same(Last(At(u, where)), Last(At(v, where)))
  <2>1. k \in 1..k
    BY <1>4, <1>5, <1>7
  <2>2. Last(At(u, where)) = u[Nth(where, k)] /\ Last(At(v, where)) = v[Nth(where, k)]
    BY <2>1, <1>4 DEF Last
  <2> QED
    BY <2>2, <1>1, <1>2, <1>6, <1>7
<1>8. ASSUME k = 1
      PROVE  Same(At(u, where)[1], At(v, where)[1])
  <2>1. 1 \in 1..k /\ where # {}
    BY <1>5, <1>8
  <2>2. At(u, where)[1] = u[Nth(where, 1)] /\ At(v, where)[1] = v[Nth(where, 1)]
    BY <2>1, <1>4
  <2> QED
    BY <2>1, <2>2, <1>1, <1>2, <1>6, <1>8
<1> QED
  BY <1>4, <1>7, <1>8

LEMMA OptionsAlike ==
    ASSUME NEW u, NEW v, Alike(u, v), CliAssumption
    PROVE  /\ Len(Positionals(u)) = Len(Positionals(v))
           /\ Positionals(u) = <<>> <=> Positionals(v) = <<>>
           /\ Len(Positionals(u)) = 1 => Same(Positionals(u)[1], Positionals(v)[1])
           /\ \A flag \in Dashed : Same(LastValue(u, flag, Absent), LastValue(v, flag, Absent))
<1>1. /\ DOMAIN v = DOMAIN u
      /\ DOMAIN u = 1..Len(u) /\ Len(u) \in Nat
      /\ \A i \in DOMAIN u : IsValue(u, i) <=> IsValue(v, i)
      /\ \A i \in DOMAIN u : (u[i] \in Dashed \/ v[i] \in Dashed) => u[i] = v[i]
  BY FlagsAlike DEF Alike
<1>2. PICK where \in SUBSET (DOMAIN u) : Positionals(u) = At(u, where) /\ Positionals(v) = At(v, where)
  <2> DEFINE where == {i \in DOMAIN u : u[i] \notin Dashed /\ ~ IsValue(u, i)}
  <2>1. where = {i \in DOMAIN v : v[i] \notin Dashed /\ ~ IsValue(v, i)}
    BY <1>1
  <2>2. Positionals(u) = At(u, where) /\ Positionals(v) = At(v, where)
    BY <2>1 DEF Positionals
  <2> QED
    BY <2>2
<1>3. ASSUME NEW flag \in Dashed
      PROVE  Same(LastValue(u, flag, Absent), LastValue(v, flag, Absent))
  <2> DEFINE values == {i \in DOMAIN u : IsValue(u, i) /\ u[i - 1] = flag}
  <2>1. values = {i \in DOMAIN v : IsValue(v, i) /\ v[i - 1] = flag}
    <3>1. ASSUME NEW i \in DOMAIN u, IsValue(u, i)
          PROVE  u[i - 1] = v[i - 1]
      <4>1. i - 1 \in DOMAIN u /\ u[i - 1] \in ValueFlags
        BY <3>1, <1>1 DEF IsValue
      <4> QED
        BY <4>1, <1>1 DEF Dashed, KnownFlags
    <3> QED
      BY <3>1, <1>1
  <2>2. ValuesOf(u, flag) = At(u, values) /\ ValuesOf(v, flag) = At(v, values)
    BY <2>1 DEF ValuesOf
  <2>3. values \in SUBSET (DOMAIN u)
    OBVIOUS
  <2> HIDE DEF values
  <2>4. /\ At(u, values) = <<>> <=> At(v, values) = <<>>
        /\ At(u, values) # <<>> => Same(Last(At(u, values)), Last(At(v, values)))
    BY <2>3, AtAlike
  <2> QED
    BY <2>2, <2>4 DEF LastValue, Same
<1> QED
  BY <1>2, <1>3, AtAlike

\* Checkpoints that differ in the order of their keys are judged alike.
LEMMA SpelledAlike ==
    ASSUME NEW a \in RawCheckpoint, NEW b \in RawCheckpoint,
           a.keys \in {"canonical", "other"}, b.keys \in {"canonical", "other"},
           Canonical(a) = Canonical(b)
    PROVE  CheckpointVerdict(a) = CheckpointVerdict(b)
<1>1. ASSUME NEW raw \in RawCheckpoint
      PROVE  /\ Canonical(raw).version = raw.version /\ Canonical(raw).identifiers = raw.identifiers
             /\ Canonical(raw).paths = raw.paths /\ Canonical(raw).note = raw.note
             /\ Canonical(raw).phase = raw.phase /\ Canonical(raw).candidate = raw.candidate
             /\ Canonical(raw).reason = raw.reason /\ Canonical(raw).manifest = raw.manifest
             /\ Canonical(raw).refs = raw.refs /\ Canonical(raw).fits = raw.fits
  BY DEF Canonical, RawCheckpoint
<1>2. /\ a.version = b.version /\ a.identifiers = b.identifiers /\ a.paths = b.paths /\ a.note = b.note
      /\ a.phase = b.phase /\ a.candidate = b.candidate /\ a.reason = b.reason
      /\ a.manifest = b.manifest /\ a.refs = b.refs /\ a.fits = b.fits
  BY <1>1
<1> QED
  BY <1>2 DEF CheckpointVerdict, CheckpointAdmitted, CandidateExplained

\* What the options mean that transitions and checkpoints read.
LEMMA MeaningAlike ==
    ASSUME NEW u, NEW v, Alike(u, v), CliAssumption
    PROVE  /\ RevisionSpelled(u) = RevisionSpelled(v) /\ Expected(u) = Expected(v)
           /\ CheckpointSpelled(u) = CheckpointSpelled(v)
           /\ (GivenCheckpoint(u) # Absent) = (GivenCheckpoint(v) # Absent)
           /\ CheckpointSpelled(u) = "OK" => Attached(u) = Attached(v)
           /\ (Reason(u) # Absent) = (Reason(v) # Absent)
           /\ TextFor(Reason(u)) = TextFor(Reason(v))
           /\ Selected(u) = Selected(v)
<1>0. \A x, y : Same(x, y) /\ (x \in Names \/ y \in Names) => x = y
  BY SameName
<1>1. ASSUME NEW flag \in {"--expected-revision", "--checkpoint", "--reason", "--task"}
      PROVE  Same(LastValue(u, flag, Absent), LastValue(v, flag, Absent))
  <2>1. flag \in Dashed
    BY DEF Dashed, KnownFlags, ValueFlags
  <2> QED
    BY <2>1, OptionsAlike
<1>2. RevisionSpelled(u) = RevisionSpelled(v) /\ Expected(u) = Expected(v)
  <2> DEFINE x == LastValue(u, "--expected-revision", Absent)
             y == LastValue(v, "--expected-revision", Absent)
  <2>1. Same(x, y)
    BY <1>1
  <2>2. x = y \/ (x \notin DOMAIN NumberNamed /\ y \notin DOMAIN NumberNamed /\ x # Absent /\ y # Absent)
    BY <2>1, <1>0, NamesAre
  <2> HIDE DEF x, y
  <2>3. /\ (x = Absent \/ x \in DOMAIN NumberNamed) = (y = Absent \/ y \in DOMAIN NumberNamed)
        /\ Meaning(NumberNamed, x, NoRevision) = Meaning(NumberNamed, y, NoRevision)
    BY <2>2 DEF Meaning
  <2> QED
    BY <2>3 DEF RevisionSpelled, Expected, x, y
<1>3. /\ CheckpointSpelled(u) = CheckpointSpelled(v)
      /\ (GivenCheckpoint(u) # Absent) = (GivenCheckpoint(v) # Absent)
      /\ CheckpointSpelled(u) = "OK" => Attached(u) = Attached(v)
  <2> DEFINE x == GivenCheckpoint(u)
             y == GivenCheckpoint(v)
  <2>1. Same(x, y)
    BY <1>1 DEF GivenCheckpoint
  <2>2. CASE x = y
    BY <2>2 DEF CheckpointSpelled, Attached
  <2>3. CASE x # y
    <3>1. /\ x \in DOMAIN CheckpointNamed /\ y \in DOMAIN CheckpointNamed
          /\ CheckpointNamed[x].keys \in {"canonical", "other"}
          /\ CheckpointNamed[y].keys \in {"canonical", "other"}
          /\ Canonical(CheckpointNamed[x]) = Canonical(CheckpointNamed[y])
      BY <2>1, <2>3 DEF Same
    <3>2. x # Absent /\ y # Absent
      BY <2>1, <2>3, <1>0, NamesAre
    <3>3. CheckpointVerdict(CheckpointNamed[x]) = CheckpointVerdict(CheckpointNamed[y])
      BY <3>1, SpelledAlike DEF CliAssumption
    <3> QED
      BY <3>1, <3>2, <3>3 DEF CheckpointSpelled, Attached
  <2> QED
    BY <2>2, <2>3
<1>4. (Reason(u) # Absent) = (Reason(v) # Absent) /\ TextFor(Reason(u)) = TextFor(Reason(v))
  <2> DEFINE x == Reason(u)
             y == Reason(v)
  <2>1. Same(x, y)
    BY <1>1 DEF Reason
  <2>2. x = y \/ (x \notin DOMAIN TextOf /\ y \notin DOMAIN TextOf /\ x # Absent /\ y # Absent)
    BY <2>1, <1>0, NamesAre
  <2> HIDE DEF x, y
  <2>3. (x # Absent) = (y # Absent) /\ TextFor(x) = TextFor(y)
    BY <2>2 DEF TextFor, Meaning
  <2> QED
    BY <2>3 DEF x, y
<1>5. Selected(u) = Selected(v)
  <2> DEFINE x == LastValue(u, "--task", Absent)
             y == LastValue(v, "--task", Absent)
  <2>1. Same(x, y)
    BY <1>1
  <2>2. \/ x = y
        \/ /\ x \notin MalformedIds /\ y \notin MalformedIds
           /\ x \notin {TaskHere, Absent} /\ y \notin {TaskHere, Absent}
    BY <2>1, <1>0, NamesAre
  <2>3. /\ Selected(u) = IF x = Absent THEN "NO_ACTIVE_TASK" ELSE Stored(x)
        /\ Selected(v) = IF y = Absent THEN "NO_ACTIVE_TASK" ELSE Stored(y)
    BY DEF Selected
  <2> HIDE DEF x, y
  <2> QED
    BY <2>2, <2>3 DEF Stored
<1> QED
  BY <1>2, <1>3, <1>4, <1>5

LEMMA AskAlike ==
    ASSUME NEW u, NEW v, Alike(u, v), CliAssumption
    PROVE  /\ \A op \in {"start", "block", "done"} :
                  AskStep(op, u).code = "OK" => AskStep(op, v) = AskStep(op, u)
           /\ AskCheckpoint(u).code = "OK" => AskCheckpoint(v) = AskCheckpoint(u)
<1>1. ASSUME NEW op \in {"start", "block", "done"}, AskStep(op, u).code = "OK"
      PROVE  AskStep(op, v) = AskStep(op, u)
  <2> DEFINE Given(w)   == Demand(Len(Positionals(w)) = 1 /\ RevisionSpelled(w))
             Reasoned(w) == Demand(op = "block" =>
                               Reason(w) # Absent /\ FieldAdmitted(TextFor(Reason(w))))
             Named(w)   == NamedStep(Positionals(w)[1])
             Worded(w)  == IF op = "block" THEN TextFor(Reason(w)) ELSE NoReason
             Code(w)    == FirstRefusal(<<Given(w), CheckpointSpelled(w), Reasoned(w), Selected(w)>>)
             Wanted(w)  == [op |-> op, step |-> Named(w), reason |-> Worded(w),
                            checkpoint |-> Attached(w), expected |-> Expected(w)]
  <2>1. AskStep(op, u) = Asking(Code(u), Wanted(u)) /\ AskStep(op, v) = Asking(Code(v), Wanted(v))
    BY DEF AskStep
  <2>2. Code(u) = "OK"
    BY <2>1, <1>1, AskingTells
  <2>3. Given(u) = "OK" /\ CheckpointSpelled(u) = "OK"
    <3> HIDE DEF Given, Reasoned
    <3> QED
      BY <2>2, RefusalOfFour
  <2>4. Len(Positionals(u)) = 1
    BY <2>3 DEF Demand
  <2>5. Given(v) = Given(u)
    BY OptionsAlike, MeaningAlike
  <2>6. CheckpointSpelled(v) = CheckpointSpelled(u) /\ Selected(v) = Selected(u)
    BY MeaningAlike
  <2>7. Reasoned(v) = Reasoned(u) /\ Worded(v) = Worded(u)
    BY MeaningAlike
  <2>8. Attached(v) = Attached(u) /\ Expected(v) = Expected(u)
    BY <2>3, MeaningAlike
  <2>9. Named(v) = Named(u)
    <3>1. Same(Positionals(u)[1], Positionals(v)[1])
      BY <2>4, OptionsAlike
    <3>2. \/ Positionals(u)[1] = Positionals(v)[1]
          \/ Positionals(u)[1] \notin DOMAIN StepNamed /\ Positionals(v)[1] \notin DOMAIN StepNamed
      BY <3>1, SameName, NamesAre
    <3> QED
      BY <3>2 DEF NamedStep, Meaning
  <2> HIDE DEF Given, Reasoned, Named, Worded
  <2>10. Code(v) = Code(u) /\ Wanted(v) = Wanted(u)
    BY <2>5, <2>6, <2>7, <2>8, <2>9
  <2> QED
    BY <2>1, <2>10
<1>2. ASSUME AskCheckpoint(u).code = "OK"
      PROVE  AskCheckpoint(v) = AskCheckpoint(u)
  <2> DEFINE Alone(w)  == Demand(Positionals(w) = <<>>)
             Given(w)  == Demand(GivenCheckpoint(w) # Absent /\ RevisionSpelled(w))
             Code(w)   == FirstRefusal(<<Alone(w), CheckpointSpelled(w), Given(w), Selected(w)>>)
             Wanted(w) == [op |-> "checkpoint", checkpoint |-> Attached(w), expected |-> Expected(w)]
  <2>1. AskCheckpoint(u) = Asking(Code(u), Wanted(u)) /\ AskCheckpoint(v) = Asking(Code(v), Wanted(v))
    BY DEF AskCheckpoint
  <2>2. Code(u) = "OK"
    BY <2>1, <1>2, AskingTells
  <2>3. CheckpointSpelled(u) = "OK"
    <3> HIDE DEF Alone, Given
    <3> QED
      BY <2>2, RefusalOfFour
  <2>4. Alone(v) = Alone(u)
    BY OptionsAlike
  <2>5. Given(v) = Given(u)
    BY MeaningAlike
  <2>6. CheckpointSpelled(v) = CheckpointSpelled(u) /\ Selected(v) = Selected(u)
    BY MeaningAlike
  <2>7. Attached(v) = Attached(u) /\ Expected(v) = Expected(u)
    BY <2>3, MeaningAlike
  <2> HIDE DEF Alone, Given
  <2>8. Code(v) = Code(u) /\ Wanted(v) = Wanted(u)
    BY <2>4, <2>5, <2>6, <2>7
  <2> QED
    BY <2>1, <2>8
<1> QED
  BY <1>1, <1>2

\* A line spelled again asks for the same.
LEMMA AskedAlike ==
    ASSUME NEW argv \in Lines, NEW l \in Lines, Sense(l) = Sense(argv),
           Asked[argv].code = "OK", Asked[argv].request.op \in Repeatable,
           CliAssumption, VocabularyAssumption
    PROVE  Asked[l] = Asked[argv]
<1> DEFINE command == ResolveCommand(argv)
           words   == WordsAfter(command, argv)
           again   == WordsAfter(command, l)
<1>1. Alike(argv, l)
  BY SenseIsAlike
<1>2. ResolveCommand(l) = command
  BY <1>1, AlikeResolves
<1>3. /\ Reading(argv) = "run"
      /\ \/ /\ command \in {<<"next", op>> : op \in {"start", "block", "done"}}
            /\ Asked[argv] = AskStep(command[2], words)
         \/ /\ command = <<"checkpoint", "set">>
            /\ Asked[argv] = AskCheckpoint(words)
  BY AskedByCommand DEF ReadingOps, Repeatable, AdditionAsked, ReviewsRequest
<1>4. /\ argv \in Seq(STRING) /\ argv # <<>> /\ argv[1] \notin HelpFlags
      /\ command \in Commands /\ IsPrefix(command, argv)
      /\ WellFormed(words) /\ ~ AskedHelp(words)
  BY <1>3, LineRuns
<1>5. Alike(words, again)
  <2>1. Len(command) \in 1..2 /\ Len(command) <= Len(argv)
    BY <1>4, CommandsAreWords DEF IsPrefix
  <2> HIDE DEF command
  <2> QED
    BY <2>1, <1>1, WordsAlike DEF WordsAfter
<1>6. Reading(l) = "run"
  <2>1. l # <<>> /\ l[1] \notin HelpFlags
    <3>1. l \in Seq(STRING) /\ Len(l) = Len(argv) /\ 1 \in 1..Len(argv)
      BY <1>1, <1>4 DEF Alike
    <3>2. Same(argv[1], l[1])
      BY <1>1, <3>1 DEF Alike
    <3>3. HelpFlags \subseteq Names
      BY NamesAre, Zenon DEF Dashed, KnownFlags
    <3>4. l[1] \in HelpFlags => argv[1] = l[1]
      BY <3>2, <3>3, SameName
    <3> QED
      BY <3>1, <3>4, <1>4
  <2>2. WellFormed(again) /\ ~ AskedHelp(again) /\ Flags(again) = Flags(words)
    BY <1>4, <1>5, ReadAlike
  <2>3. command # Unresolved /\ Flags(words) \subseteq AllowedFlags(command)
    BY <1>3, <1>4 DEF Reading
  <2> HIDE DEF command, words, again
  <2> QED
    BY <2>1, <2>2, <2>3, <1>2 DEF Reading, again
<1>7. CASE /\ command \in {<<"next", op>> : op \in {"start", "block", "done"}}
           /\ Asked[argv] = AskStep(command[2], words)
  <2>1. PICK op \in {"start", "block", "done"} : command = <<"next", op>>
    BY <1>7
  <2>2. command[2] = op
    BY <2>1
  <2>3. Asked[l] = AskStep(op, again)
    <3>1. Asked[l] = Ask(l)
      BY DEF Asked
    <3> HIDE DEF command, words
    <3> QED
      BY <3>1, <1>2, <1>6, <2>1, <2>2 DEF Ask
  <2>4. AskStep(op, again) = AskStep(op, words)
    BY <1>5, <1>7, <2>2, AskAlike
  <2> QED
    BY <1>7, <2>2, <2>3, <2>4
<1>8. CASE command = <<"checkpoint", "set">> /\ Asked[argv] = AskCheckpoint(words)
  <2>1. Asked[l] = AskCheckpoint(again)
    <3>1. Asked[l] = Ask(l)
      BY DEF Asked
    <3> HIDE DEF command, words
    <3> QED
      BY <3>1, <1>2, <1>6, <1>8 DEF Ask
  <2>2. AskCheckpoint(again) = AskCheckpoint(words)
    BY <1>5, <1>8, AskAlike
  <2> QED
    BY <1>8, <2>1, <2>2
<1> QED
  BY <1>3, <1>7, <1>8

\* An agent that did not get the answer may run its command again, its
\* checkpoint spelled in whatever order.
THEOREM RetriesAreHarmless == CliSpec => []RetryIsHarmless
<1>1. IInv => RetryIsHarmless
  <2> SUFFICES ASSUME IInv, NEW run \in Respelled
               PROVE  /\ run.again.code = "OK"
                      /\ \A after \in Saved(task, run.first) :
                            /\ Saved(after, run.again.request) = {}
                            /\ run.first.expected = NoRevision => Verdict(after, run.again.request) = "OK"
    BY DEF RetryIsHarmless
  <2>1. PICK argv \in Lines, l \in Lines :
            /\ Asked[argv].code = "OK" /\ Asked[argv].request.op \in Repeatable
            /\ Sense(l) = Sense(argv)
            /\ run = [first |-> Asked[argv].request, again |-> Asked[l]]
    BY DEF Respelled
  <2>2. Asked[l] = Asked[argv]
    BY <2>1, AskedAlike, CliAssumption, VocabularyAssumption
  <2>3. run.first \in Requests
    BY <2>1 DEF Requests, RequestsOf
  <2>4. run.again.code = "OK" /\ run.again.request = run.first /\ run.first.op \in Repeatable
    BY <2>1, <2>2
  <2>5. task \in Task /\ SoundTask(task)
    BY DEF IInv
  <2> QED
    BY <2>3, <2>4, <2>5, SavedOnce, DomainAssumption, CliAssumption, VocabularyAssumption
<1> QED
  BY <1>1, CliInvariance, PTL

-----------------------------------------------------------------------------
(* What the sidebar shows. *)

\* Few enough of the blocked steps are named, and one as soon as there is one.
LEMMA BlockersAreFew ==
    ASSUME ProjectionAssumption, NEW n \in Nat, NEW blocked \in SUBSET (1..n), NEW few,
           few = {s \in blocked : Cardinality({b \in blocked : b < s}) < MaxBlockers}
    PROVE  /\ IsFiniteSet(few)
           /\ Cardinality(few) <= MaxBlockers
           /\ Cardinality(few) <= n
           /\ few = {} <=> blocked = {}
<1> DEFINE Before(s) == {b \in blocked : b < s}
<1>1. MaxBlockers \in Nat /\ MaxBlockers # 0
  BY DEF ProjectionAssumption
<1>2. /\ IsFiniteSet(1..n)
      /\ Cardinality(1..n) = n
  BY FS_Interval
<1>3. \A S \in SUBSET (1..n) : /\ IsFiniteSet(S)
                               /\ Cardinality(S) \in Nat
                               /\ Cardinality(S) <= n
  <2> SUFFICES ASSUME NEW S \in SUBSET (1..n)
               PROVE  IsFiniteSet(S) /\ Cardinality(S) \in Nat /\ Cardinality(S) <= n
    OBVIOUS
  <2>1. IsFiniteSet(S) /\ Cardinality(S) <= Cardinality(1..n)
    BY <1>2, FS_Subset, Zenon
  <2>2. Cardinality(S) \in Nat
    BY <2>1, FS_CardinalityType, Zenon
  <2> QED
    BY <1>2, <2>1, <2>2
<1>4. few \in SUBSET (1..n) /\ few \subseteq blocked
  OBVIOUS
<1>5. Cardinality(few) <= MaxBlockers
  <2>1. CASE few = {}
    <3>1. Cardinality(few) = 0
      BY <2>1, FS_EmptySet, Zenon
    <3> QED
      BY <1>1, <3>1
  <2>2. CASE few # {}
    <3>1. PICK last \in few : {j \in few : j <= last} = few
      BY <2>2, <1>4, LastPlace
    <3>2. last \in blocked /\ Cardinality(Before(last)) < MaxBlockers
      BY <3>1
    <3>3. Before(last) \in SUBSET (1..n)
      OBVIOUS
    <3>4. IsFiniteSet(Before(last)) /\ Cardinality(Before(last)) \in Nat
      BY <3>3, <1>3
    <3>5. few \subseteq Before(last) \cup {last}
      <4> SUFFICES ASSUME NEW j \in few, j # last
                   PROVE  j \in Before(last)
        OBVIOUS
      <4>1. j <= last /\ j \in Nat /\ last \in Nat
        BY <3>1, <1>4
      <4> QED
        BY <4>1, <1>4
    <3>6. last \notin Before(last)
      BY <3>2
    <3> HIDE DEF Before
    <3>7. /\ IsFiniteSet(Before(last) \cup {last})
          /\ Cardinality(Before(last) \cup {last}) = Cardinality(Before(last)) + 1
      BY <3>4, <3>6, FS_AddElement, Zenon
    <3>8. Cardinality(few) <= Cardinality(Before(last) \cup {last})
      BY <3>5, <3>7, FS_Subset, Zenon
    <3>9. Cardinality(few) \in Nat
      BY <1>3, <1>4
    <3> QED
      BY <1>1, <3>2, <3>4, <3>7, <3>8, <3>9
  <2> QED
    BY <2>1, <2>2
<1>6. ASSUME blocked # {}
      PROVE  few # {}
  <2> DEFINE first == FirstOf(blocked)
  <2>1. first \in blocked /\ \A other \in blocked : first <= other
    BY <1>6, FirstOfIsFirst
  <2> HIDE DEF first
  <2>2. Before(first) = {}
    <3> SUFFICES ASSUME NEW b \in blocked, b < first
                 PROVE  FALSE
      OBVIOUS
    <3>1. first <= b /\ b \in Nat /\ first \in Nat
      BY <2>1
    <3> QED
      BY <3>1
  <2>3. Cardinality({b \in blocked : b < first}) = 0
    BY <2>2, FS_EmptySet
  <2> QED
    BY <2>1, <2>3, <1>1
<1> QED
  BY <1>3, <1>4, <1>5, <1>6

\* The reduction, in terms of the document it was made of.
LEMMA ReducedIs ==
    ASSUME task \in Task
    PROVE  LET p   == Reduced(task)
               top == ChildrenOf(task.steps, NoParent)
           IN  /\ p.status = task.status
               /\ p.security = task.security
               /\ p.steps = [s \in DOMAIN task.steps |-> [id     |-> s,
                                                          status |-> task.steps[s].status,
                                                          parent |-> task.steps[s].parent]]
               /\ p.total = Cardinality(top)
               /\ p.doneCount = Cardinality({s \in top : IsDone(task.steps, s)})
               /\ p.next = ComputeNextStepId(task.steps)
<1> DEFINE view == StatusView(task)
<1>1. /\ view.status = task.status
      /\ view.next = ComputeNextStepId(task.steps)
      /\ DOMAIN view.steps = DOMAIN task.steps
      /\ \A s \in DOMAIN task.steps : /\ view.steps[s].id = s
                                      /\ view.steps[s].status = task.steps[s].status
                                      /\ view.steps[s].parent = task.steps[s].parent
  BY DEF StatusView, ToStatusStep
<1>2. ChildrenOf(view.steps, NoParent) = ChildrenOf(task.steps, NoParent)
  BY <1>1 DEF ChildrenOf
<1>3. {s \in ChildrenOf(task.steps, NoParent) : IsDone(view.steps, s)}
          = {s \in ChildrenOf(task.steps, NoParent) : IsDone(task.steps, s)}
  BY <1>1 DEF IsDone, ChildrenOf
<1>4. Listed(view) = [s \in DOMAIN task.steps |-> [id     |-> s,
                                                   status |-> task.steps[s].status,
                                                   parent |-> task.steps[s].parent]]
  BY <1>1 DEF Listed
<1>5. Reduced(task) = ReducedTo(view, ChildrenOf(view.steps, NoParent), task.security)
  BY DEF Reduced
<1> HIDE DEF view
<1>6. /\ Reduced(task).status = view.status
      /\ Reduced(task).security = task.security
      /\ Reduced(task).steps = Listed(view)
      /\ Reduced(task).total = Cardinality(ChildrenOf(view.steps, NoParent))
      /\ Reduced(task).doneCount = Cardinality({s \in ChildrenOf(view.steps, NoParent) : IsDone(view.steps, s)})
      /\ Reduced(task).next = view.next
  BY <1>5 DEF ReducedTo
<1>7. Reduced(task).doneCount = Cardinality({s \in ChildrenOf(task.steps, NoParent) : IsDone(task.steps, s)})
  BY <1>2, <1>3, <1>6
<1> QED
  BY <1>1, <1>2, <1>4, <1>6, <1>7

\* What it points at: the first started step, and the first of those blocked.
LEMMA PointersAre ==
    ASSUME task \in Task
    PROVE  LET p       == Reduced(task)
               started == {s \in DOMAIN task.steps : task.steps[s].status = "in_progress"}
               blocked == {s \in DOMAIN task.steps : task.steps[s].status = "blocked"}
           IN  /\ p.current = IF started = {} THEN NoStep ELSE FirstOf(started)
               /\ p.blockers = {s \in blocked : Cardinality({b \in blocked : b < s}) < MaxBlockers}
<1> DEFINE view    == StatusView(task)
           started == {s \in DOMAIN task.steps : task.steps[s].status = "in_progress"}
           blocked == {s \in DOMAIN task.steps : task.steps[s].status = "blocked"}
<1>1. view.blocked = blocked
  BY DEF StatusView
<1>2. {s \in DOMAIN view.steps : view.steps[s].status = "in_progress"} = started
  BY DEF StatusView, ToStatusStep
<1>3. Reduced(task) = ReducedTo(view, ChildrenOf(view.steps, NoParent), task.security)
  BY DEF Reduced
<1>4. FewestBlockers(view) = {s \in blocked : Cardinality({b \in blocked : b < s}) < MaxBlockers}
  BY <1>1 DEF FewestBlockers
<1>5. StartedStep(view) = IF started = {} THEN NoStep ELSE FirstOf(started)
  BY <1>2 DEF StartedStep
<1> HIDE DEF view, started, blocked
<1>6. /\ Reduced(task).current = StartedStep(view)
      /\ Reduced(task).blockers = FewestBlockers(view)
  BY <1>3 DEF ReducedTo
<1> QED
  BY <1>4, <1>5, <1>6 DEF started, blocked

\* The steps of a projection, numbered by their ids.
ListedStep == [id : Nat, status : StepStatus, parent : Nat]

Numbered(steps) ==
    /\ steps \in Seq(ListedStep)
    /\ \A s \in DOMAIN steps : steps[s].id = s

\* The projection lists the steps of the document, place by place.
LEMMA ListedOfSound ==
    ASSUME IInv
    PROVE  LET listed == Reduced(task).steps
           IN  /\ Numbered(listed)
               /\ Len(listed) = Len(task.steps)
               /\ DOMAIN listed = DOMAIN task.steps
               /\ \A s \in DOMAIN listed : /\ listed[s].status = task.steps[s].status
                                           /\ listed[s].parent = task.steps[s].parent
<1> DEFINE listed == Reduced(task).steps
           steps  == task.steps
<1>1. /\ Len(steps) \in Nat
      /\ DOMAIN steps = 1..Len(steps)
      /\ \A s \in DOMAIN steps : steps[s] \in Step
  BY StepsAreIndexed DEF IInv, Task
<1>2. listed = [s \in DOMAIN steps |-> [id     |-> s,
                                       status |-> steps[s].status,
                                       parent |-> steps[s].parent]]
  BY ReducedIs DEF IInv
<1> HIDE DEF listed
<1>3. listed \in [1..Len(steps) -> ListedStep]
  BY <1>1, <1>2, DomainAssumption DEF Step, StepIds, NoParent, DomainAssumption, ListedStep
<1>4. listed \in Seq(ListedStep) /\ Len(listed) = Len(steps)
  BY <1>1, <1>3
<1>5. /\ DOMAIN listed = DOMAIN steps
      /\ \A s \in DOMAIN steps : /\ listed[s].id = s
                                 /\ listed[s].status = steps[s].status
                                 /\ listed[s].parent = steps[s].parent
  BY <1>2
<1> QED
  BY <1>4, <1>5 DEF Numbered, listed

\* Top-level steps are all done only when all steps are, so what the heading
\* counts and points at is what the whole list says.
LEMMA HeadingOfSound ==
    ASSUME IInv, ProjectionAssumption
    PROVE  LET p    == Reduced(task)
               open == {s \in DOMAIN task.steps : ~ IsDone(task.steps, s)}
           IN  /\ Accepted(p)
               /\ task.steps # <<>> => (Pending(p) = 0 <=> task.status = "done")
               /\ IF open = {} THEN Active(p) = NoStep ELSE Active(p) \in open
               /\ task.status = "blocked" <=> p.blockers # {}
<1> DEFINE p       == Reduced(task)
           steps   == task.steps
           top     == ChildrenOf(steps, NoParent)
           doneTop == {s \in top : IsDone(steps, s)}
           started == {s \in DOMAIN steps : steps[s].status = "in_progress"}
           blocked == {s \in DOMAIN steps : steps[s].status = "blocked"}
           few     == {s \in blocked : Cardinality({b \in blocked : b < s}) < MaxBlockers}
           open    == {s \in DOMAIN steps : ~ IsDone(steps, s)}
           listed  == p.steps
<1>1. /\ task \in Task
      /\ steps \in Seq(Step)
      /\ WellNested(steps)
      /\ HostsFollowChildren(steps)
      /\ task.status = DeriveTaskStatus(steps)
      /\ task.status \in TaskStatus
      /\ task.security \in ReviewMode
  BY DEF IInv, SoundTask, SoundSteps, Task
<1>2. /\ Len(steps) \in Nat
      /\ DOMAIN steps = 1..Len(steps)
      /\ \A s \in DOMAIN steps : steps[s] \in Step
  BY <1>1, StepsAreIndexed
<1>3. Len(steps) <= MaxSteps
  BY DEF IInv, SoundTask
<1>4. /\ p.status = task.status
      /\ p.security = task.security
      /\ p.total = Cardinality(top)
      /\ p.doneCount = Cardinality(doneTop)
      /\ p.next = ComputeNextStepId(steps)
  BY <1>1, ReducedIs
<1>5. /\ p.current = IF started = {} THEN NoStep ELSE FirstOf(started)
      /\ p.blockers = few
  BY <1>1, PointersAre
<1>6. /\ top \in SUBSET (1..Len(steps))
      /\ doneTop \subseteq top
      /\ blocked \in SUBSET (1..Len(steps))
      /\ started \in SUBSET (1..Len(steps))
  BY <1>2 DEF ChildrenOf
<1>7. /\ IsFiniteSet(top)
      /\ IsFiniteSet(doneTop)
      /\ Cardinality(top) \in Nat
      /\ Cardinality(doneTop) \in Nat
      /\ Cardinality(doneTop) <= Cardinality(top)
      /\ Cardinality(doneTop) = Cardinality(top) <=> doneTop = top
  <2>1. IsFiniteSet(1..Len(steps))
    BY <1>2, FS_Interval
  <2> HIDE DEF top, doneTop
  <2>2. IsFiniteSet(top)
    BY <1>6, <2>1, FS_Subset, Zenon
  <2>3. /\ IsFiniteSet(doneTop)
        /\ Cardinality(doneTop) <= Cardinality(top)
        /\ Cardinality(doneTop) = Cardinality(top) => doneTop = top
    BY <1>6, <2>2, FS_Subset, Zenon
  <2>4. Cardinality(top) \in Nat /\ Cardinality(doneTop) \in Nat
    BY <2>2, <2>3, FS_CardinalityType, Zenon
  <2> QED
    BY <2>2, <2>3, <2>4
<1>8. /\ Cardinality(few) <= MaxBlockers
      /\ Cardinality(few) <= Len(steps)
      /\ few = {} <=> blocked = {}
  <2> HIDE DEF blocked
  <2> QED
    BY <1>2, <1>6, BlockersAreFew
<1>9. /\ Len(listed) = Len(steps)
      /\ DOMAIN listed = DOMAIN steps
      /\ \A s \in DOMAIN steps : /\ listed[s].id = s
                                 /\ listed[s].status = steps[s].status
                                 /\ listed[s].parent = steps[s].parent
  BY ListedOfSound DEF Numbered
<1> HIDE DEF p
<1>10. Accepted(p)
  <2>1. ListAccepted(p.steps)
    <3>1. \A s \in DOMAIN steps : steps[s].status \in StepStatus
      BY <1>2 DEF Step
    <3>2. \A s \in DOMAIN steps :
              steps[s].parent # NoParent =>
                  /\ steps[s].parent \in DOMAIN steps
                  /\ steps[s].parent # s
                  /\ steps[steps[s].parent].parent = NoParent
      BY <1>1 DEF WellNested, ParentRelation
    <3>3. \A s \in DOMAIN listed :
              listed[s].parent # NoParent =>
                  \E host \in DOMAIN listed : /\ listed[host].id = listed[s].parent
                                              /\ listed[host].id # listed[s].id
                                              /\ listed[host].parent = NoParent
      <4> SUFFICES ASSUME NEW s \in DOMAIN steps, listed[s].parent # NoParent
                   PROVE  \E host \in DOMAIN steps : /\ listed[host].id = listed[s].parent
                                                      /\ listed[host].id # listed[s].id
                                                      /\ listed[host].parent = NoParent
        BY <1>9
      <4> DEFINE host == steps[s].parent
      <4>1. /\ host \in DOMAIN steps
            /\ host # s
            /\ steps[host].parent = NoParent
        BY <3>2, <1>9
      <4>2. /\ listed[host].id = host
            /\ listed[host].parent = NoParent
            /\ listed[s].id = s
            /\ listed[s].parent = host
        BY <4>1, <1>9
      <4> HIDE DEF host
      <4> QED
        BY <4>1, <4>2
    <3> QED
      BY <3>1, <3>3, <1>3, <1>4, <1>9 DEF ListAccepted
  <2>2. {s \in DOMAIN p.steps : p.steps[s].parent = NoParent} = top
    BY <1>4, <1>9 DEF ChildrenOf
  <2>3. {s \in top : p.steps[s].status = "done"} = doneTop
    BY <1>4, <1>9 DEF ChildrenOf, IsDone
  <2>4. Len(p.steps) = Len(steps)
    BY <1>4, <1>9
  <2> HIDE DEF top, doneTop, few
  <2> QED
    BY <2>1, <2>2, <2>3, <2>4, <1>1, <1>4, <1>5, <1>7, <1>8 DEF Accepted, ReviewsAccepted
<1>11. open = {} <=> doneTop = top
  <2>1. ASSUME doneTop = top, NEW s \in DOMAIN steps, ~ IsDone(steps, s)
        PROVE  FALSE
    <3>1. steps[s].parent # NoParent
      BY <2>1 DEF ChildrenOf
    <3>2. /\ steps[s].parent \in DOMAIN steps
          /\ steps[steps[s].parent].parent = NoParent
          /\ s \in OpenUnder(steps, steps[s].parent)
      BY <2>1, <3>1, <1>1 DEF WellNested, ParentRelation, OpenUnder, ChildrenOf
    <3>3. ~ IsDone(steps, steps[s].parent)
      BY <3>2, <1>1 DEF HostsFollowChildren, OpenUnder
    <3> QED
      BY <2>1, <3>2, <3>3 DEF ChildrenOf
  <2> QED
    BY <2>1 DEF ChildrenOf
<1>12. steps # <<>> => (open = {} <=> task.status = "done")
  <2>1. steps # <<>> => (task.status = "done" <=> open = {})
    BY <1>1, <1>2 DEF DeriveTaskStatus, IsDone
  <2> QED
    BY <2>1
<1>13. steps # <<>> => (Pending(p) = 0 <=> task.status = "done")
  <2>1. Pending(p) = Cardinality(top) - Cardinality(doneTop)
    BY <1>4 DEF Pending
  <2> HIDE DEF top, doneTop, open
  <2>2. Pending(p) = 0 <=> doneTop = top
    BY <2>1, <1>7
  <2> QED
    BY <2>2, <1>11, <1>12
<1>14. IF open = {} THEN Active(p) = NoStep ELSE Active(p) \in open
  <2>1. CASE started # {}
    <3>1. p.current = FirstOf(started) /\ FirstOf(started) \in started
      <4> HIDE DEF started
      <4>1. started \in SUBSET Nat
        BY <1>6
      <4>2. FirstOf(started) \in started
        BY <4>1, <2>1, FirstOfIsFirst
      <4> QED
        BY <4>2, <2>1, <1>5
    <3>2. p.current \in open /\ p.current # NoStep
      BY <3>1, <1>2 DEF IsDone, NoStep
    <3> QED
      BY <3>2 DEF Active
  <2>2. CASE started = {}
    <3> DEFINE next == ComputeNextStepId(steps)
    <3>1. Active(p) = next
      BY <2>2, <1>4, <1>5 DEF Active
    <3>2. next = NoStep <=> (steps = <<>> \/ task.status = "done")
      BY <1>1, NextStepOfSound
    <3>3. open # {} => next \in open
      <4>1. next = NoStep \/ next \in DOMAIN steps
        <5> DEFINE opened == OpenUnder(steps, NoParent)
                   kids   == OpenUnder(steps, FirstOf(opened))
        <5>1. /\ opened \in SUBSET Nat
              /\ kids \in SUBSET Nat
              /\ opened \subseteq DOMAIN steps
              /\ kids \subseteq DOMAIN steps
          BY <1>2 DEF OpenUnder, ChildrenOf
        <5>2. next = IF opened = {} THEN NoStep ELSE IF kids = {} THEN FirstOf(opened) ELSE FirstOf(kids)
          BY DEF ComputeNextStepId
        <5> HIDE DEF opened, kids, next
        <5>3. /\ opened # {} => FirstOf(opened) \in opened
              /\ kids # {} => FirstOf(kids) \in kids
          BY <5>1, FirstOfIsFirst
        <5> QED
          BY <5>1, <5>2, <5>3
      <4>2. next # NoStep => ~ IsDone(steps, next)
        BY <1>1, NextStepOfSound
      <4>3. steps = <<>> => open = {}
        BY <1>2
      <4> QED
        BY <4>1, <4>2, <4>3, <3>2, <1>12
    <3>4. open = {} => next = NoStep
      BY <3>2, <1>12
    <3> QED
      BY <3>1, <3>3, <3>4
  <2> QED
    BY <2>1, <2>2
<1>15. task.status = "blocked" <=> p.blockers # {}
  <2>1. task.status = "blocked" <=> blocked # {}
    BY <1>1 DEF DeriveTaskStatus
  <2> HIDE DEF few, blocked
  <2> QED
    BY <2>1, <1>5, <1>8
<1> QED
  BY <1>10, <1>13, <1>14, <1>15 DEF p

-----------------------------------------------------------------------------
(* The rows. *)

\* Counting up to each place numbers the places: every number has its place and
\* every place its number.
LEMMA NthCovers ==
    ASSUME NEW n \in Nat, NEW where \in SUBSET (1..n)
    PROVE  /\ IsFiniteSet(where) /\ Cardinality(where) \in Nat
           /\ \A k \in 1..Cardinality(where) : Nth(where, k) \in where
           /\ \A k, l \in 1..Cardinality(where) : Nth(where, k) = Nth(where, l) => k = l
           /\ \A i \in where : \E k \in 1..Cardinality(where) : Nth(where, k) = i
<1> DEFINE c       == Cardinality(where)
           UpTo(i) == {j \in where : j <= i}
           rank    == [i \in where |-> Cardinality(UpTo(i))]
<1>1. IsFiniteSet(where) /\ c \in Nat
  <2>1. IsFiniteSet(1..n)
    BY FS_Interval
  <2>2. IsFiniteSet(where)
    BY <2>1, FS_Subset, Zenon
  <2> QED
    BY <2>2, FS_CardinalityType, Zenon
<1>2. \A i \in where : /\ UpTo(i) \in SUBSET where
                       /\ i \in UpTo(i)
                       /\ IsFiniteSet(UpTo(i))
                       /\ Cardinality(UpTo(i)) \in Nat
  <2> SUFFICES ASSUME NEW i \in where
               PROVE  /\ UpTo(i) \in SUBSET where
                      /\ i \in UpTo(i)
                      /\ IsFiniteSet(UpTo(i))
                      /\ Cardinality(UpTo(i)) \in Nat
    OBVIOUS
  <2>1. UpTo(i) \in SUBSET where /\ i \in UpTo(i)
    OBVIOUS
  <2> HIDE DEF UpTo
  <2>2. IsFiniteSet(UpTo(i))
    BY <1>1, <2>1, FS_Subset, Zenon
  <2>3. Cardinality(UpTo(i)) \in Nat
    BY <2>2, FS_CardinalityType, Zenon
  <2> QED
    BY <2>1, <2>2, <2>3
<1>3. \A i \in where : Cardinality(UpTo(i)) \in 1..c
  <2> SUFFICES ASSUME NEW i \in where
               PROVE  Cardinality(UpTo(i)) \in 1..c
    OBVIOUS
  <2> HIDE DEF UpTo
  <2>1. Cardinality(UpTo(i)) <= c
    BY <1>1, <1>2, FS_Subset, Zenon
  <2>2. Cardinality(UpTo(i)) # 0
    BY <1>2, FS_EmptySet
  <2> QED
    BY <1>1, <1>2, <2>1, <2>2
<1>4. \A i, j \in where : Cardinality(UpTo(i)) = Cardinality(UpTo(j)) => i = j
  <2>1. ASSUME NEW i \in where, NEW j \in where, i < j
        PROVE  Cardinality(UpTo(i)) # Cardinality(UpTo(j))
    <3>1. UpTo(i) \in SUBSET UpTo(j) /\ j \notin UpTo(i)
      <4>1. \A k \in where : k <= i => k <= j
        BY <2>1
      <4>2. ~ (j <= i)
        BY <2>1
      <4> QED
        BY <4>1, <4>2 DEF UpTo
    <3> HIDE DEF UpTo
    <3>2. Cardinality(UpTo(j)) = Cardinality(UpTo(i)) => UpTo(j) = UpTo(i)
      BY <1>2, <3>1, FS_Subset, Zenon
    <3> QED
      BY <1>2, <3>1, <3>2
  <2> SUFFICES ASSUME NEW i \in where, NEW j \in where, i # j
               PROVE  Cardinality(UpTo(i)) # Cardinality(UpTo(j))
    OBVIOUS
  <2>2. i < j \/ j < i
    OBVIOUS
  <2> HIDE DEF UpTo
  <2> QED
    BY <2>1, <2>2
<1> HIDE DEF UpTo
<1>5. rank \in Injection(where, 1..c)
  BY <1>3, <1>4 DEF Injection, IsInjective
<1>6. rank \in Surjection(where, 1..c)
  <2>1. IsFiniteSet(1..c) /\ Cardinality(1..c) = c
    BY <1>1, FS_Interval
  <2> HIDE DEF rank
  <2> QED
    BY <2>1, <1>5, FS_Injection, Zenon
<1>7. \A k \in 1..c : \E i \in where : Cardinality(UpTo(i)) = k
  BY <1>6 DEF Surjection
<1>8. \A k \in 1..c : Nth(where, k) \in where /\ Cardinality(UpTo(Nth(where, k))) = k
  BY <1>7 DEF Nth, UpTo
<1>9. \A i \in where : \E k \in 1..c : Nth(where, k) = i
  BY <1>3, <1>4, <1>8
<1> QED
  BY <1>1, <1>8, <1>9

\* The elements at some places are those elements, each once if the sequence has
\* each once.
LEMMA AtSelects ==
    ASSUME NEW S, NEW elements \in Seq(S), NEW where \in SUBSET (DOMAIN elements)
    PROVE  /\ At(elements, where) \in Seq(S)
           /\ DOMAIN At(elements, where) = 1..Len(At(elements, where))
           /\ ToSet(At(elements, where)) = {elements[i] : i \in where}
           /\ IsInjective(elements) => IsInjective(At(elements, where))
<1> DEFINE c == Cardinality(where)
           f == At(elements, where)
<1>1. Len(elements) \in Nat /\ DOMAIN elements = 1..Len(elements) /\ \A i \in DOMAIN elements : elements[i] \in S
  OBVIOUS
<1>2. /\ c \in Nat
      /\ \A k \in 1..c : Nth(where, k) \in where
      /\ \A k, l \in 1..c : Nth(where, k) = Nth(where, l) => k = l
      /\ \A i \in where : \E k \in 1..c : Nth(where, k) = i
  BY <1>1, NthCovers
<1>3. f = [k \in 1..c |-> elements[Nth(where, k)]]
  BY DEF At
<1> HIDE DEF c, f
<1>4. DOMAIN f = 1..c /\ \A k \in 1..c : f[k] = elements[Nth(where, k)]
  BY <1>3
<1>5. f \in [1..c -> S]
  BY <1>1, <1>2, <1>3
<1>6. f \in Seq(S) /\ Len(f) = c
  BY <1>2, <1>5
<1>7. ToSet(f) = {elements[i] : i \in where}
  BY <1>2, <1>4 DEF ToSet
<1>8. IsInjective(elements) => IsInjective(f)
  BY <1>1, <1>2, <1>4 DEF IsInjective
<1> QED
  BY <1>4, <1>6, <1>7, <1>8 DEF f

\* Two sequences of which each has each element once, and no element of the other.
LEMMA JoinedOnce ==
    ASSUME NEW S, NEW u \in Seq(S), NEW v \in Seq(S)
    PROVE  /\ u \o v \in Seq(S)
           /\ ToSet(u \o v) = ToSet(u) \cup ToSet(v)
           /\ IsInjective(u) /\ IsInjective(v) /\ ToSet(u) \cap ToSet(v) = {} => IsInjective(u \o v)
<1>1. /\ u \o v \in Seq(S)
      /\ Len(u) \in Nat /\ Len(v) \in Nat
      /\ DOMAIN u = 1..Len(u) /\ DOMAIN v = 1..Len(v)
      /\ Len(u \o v) = Len(u) + Len(v)
      /\ DOMAIN (u \o v) = 1..(Len(u) + Len(v))
      /\ \A i \in 1..(Len(u) + Len(v)) : (u \o v)[i] = IF i <= Len(u) THEN u[i] ELSE v[i - Len(u)]
  OBVIOUS
<1> DEFINE w == u \o v
<1> HIDE DEF w
<1>2. \A i \in 1..Len(u) : i \in 1..(Len(u) + Len(v)) /\ w[i] = u[i]
  BY <1>1 DEF w
<1>3. \A j \in 1..Len(v) : (j + Len(u)) \in 1..(Len(u) + Len(v)) /\ w[j + Len(u)] = v[j]
  <2> SUFFICES ASSUME NEW j \in 1..Len(v)
               PROVE  (j + Len(u)) \in 1..(Len(u) + Len(v)) /\ w[j + Len(u)] = v[j]
    OBVIOUS
  <2>1. (j + Len(u)) \in 1..(Len(u) + Len(v)) /\ ~ (j + Len(u) <= Len(u)) /\ j + Len(u) - Len(u) = j
    BY <1>1
  <2> QED
    BY <1>1, <2>1 DEF w
<1>4. \A i \in 1..(Len(u) + Len(v)) : \/ i \in 1..Len(u)
                                      \/ \E j \in 1..Len(v) : i = j + Len(u)
  <2> SUFFICES ASSUME NEW i \in 1..(Len(u) + Len(v)), i \notin 1..Len(u)
               PROVE  \E j \in 1..Len(v) : i = j + Len(u)
    OBVIOUS
  <2>1. (i - Len(u)) \in 1..Len(v) /\ i = (i - Len(u)) + Len(u)
    BY <1>1
  <2> QED
    BY <2>1
<1>5. DOMAIN w = 1..(Len(u) + Len(v))
  BY <1>1 DEF w
<1>6. ToSet(w) = ToSet(u) \cup ToSet(v)
  <2>1. ASSUME NEW x \in ToSet(w)
        PROVE  x \in ToSet(u) \cup ToSet(v)
    <3>1. PICK i \in 1..(Len(u) + Len(v)) : x = w[i]
      BY <1>5 DEF ToSet
    <3>2. CASE i \in 1..Len(u)
      <4>1. x = u[i] /\ i \in DOMAIN u
        BY <3>1, <3>2, <1>1, <1>2
      <4> QED
        BY <4>1 DEF ToSet
    <3>3. CASE \E j \in 1..Len(v) : i = j + Len(u)
      <4>1. PICK j \in 1..Len(v) : x = v[j] /\ j \in DOMAIN v
        BY <3>1, <3>3, <1>1, <1>3
      <4> QED
        BY <4>1 DEF ToSet
    <3> QED
      BY <3>2, <3>3, <1>4
  <2>2. \A x \in ToSet(u) : x \in ToSet(w)
    <3>1. \A i \in DOMAIN u : i \in DOMAIN w /\ w[i] = u[i]
      BY <1>1, <1>2, <1>5
    <3> QED
      BY <3>1 DEF ToSet
  <2>3. \A x \in ToSet(v) : x \in ToSet(w)
    <3>1. \A j \in DOMAIN v : j + Len(u) \in DOMAIN w /\ w[j + Len(u)] = v[j]
      BY <1>1, <1>3, <1>5
    <3> QED
      BY <3>1 DEF ToSet
  <2> QED
    BY <2>1, <2>2, <2>3
<1>7. ASSUME IsInjective(u), IsInjective(v), ToSet(u) \cap ToSet(v) = {}
      PROVE  IsInjective(w)
  <2>1. \A i \in 1..Len(u), j \in 1..Len(v) : u[i] # v[j]
    BY <1>1, <1>7 DEF ToSet
  <2> SUFFICES ASSUME NEW a \in 1..(Len(u) + Len(v)), NEW b \in 1..(Len(u) + Len(v)), w[a] = w[b]
               PROVE  a = b
    BY <1>5 DEF IsInjective
  <2>2. CASE a \in 1..Len(u) /\ b \in 1..Len(u)
    BY <2>2, <1>1, <1>2, <1>7 DEF IsInjective
  <2>3. CASE a \in 1..Len(u) /\ \E j \in 1..Len(v) : b = j + Len(u)
    BY <2>1, <2>3, <1>2, <1>3
  <2>4. CASE b \in 1..Len(u) /\ \E j \in 1..Len(v) : a = j + Len(u)
    BY <2>1, <2>4, <1>2, <1>3
  <2>5. CASE (\E j \in 1..Len(v) : a = j + Len(u)) /\ (\E j \in 1..Len(v) : b = j + Len(u))
    <3>1. PICK i \in 1..Len(v), j \in 1..Len(v) : a = i + Len(u) /\ b = j + Len(u)
      BY <2>5
    <3>2. v[i] = v[j]
      BY <3>1, <1>3
    <3>3. i = j
      BY <3>2, <1>1, <1>7 DEF IsInjective
    <3> QED
      BY <3>1, <3>3
  <2> QED
    BY <2>2, <2>3, <2>4, <2>5, <1>4
<1> QED
  BY <1>1, <1>6, <1>7 DEF w

-----------------------------------------------------------------------------
\* FlattenSeq joins its sequences from the first to the last.
Joins(seqs, joined, n) ==
    joined = [i \in 1..n |-> IF i = 1 THEN seqs[i] ELSE joined[i - 1] \o seqs[i]]

\* By the first prefix that could not be joined.
LEMMA JoinsExist ==
    ASSUME NEW S, NEW seqs \in Seq(Seq(S))
    PROVE  \E joined : Joins(seqs, joined, Len(seqs))
<1> DEFINE Fails == {n \in Nat : ~ \E joined : Joins(seqs, joined, n)}
           least == FirstOf(Fails)
<1> SUFFICES ASSUME Len(seqs) \in Fails
             PROVE  FALSE
  OBVIOUS
<1>1. least \in Fails /\ \A n \in Fails : least <= n
  <2>1. Fails \in SUBSET Nat /\ Fails # {}
    OBVIOUS
  <2> HIDE DEF Fails
  <2> QED
    BY <2>1, FirstOfIsFirst
<1> HIDE DEF least
<1>2. least \in Nat /\ ~ \E joined : Joins(seqs, joined, least)
  BY <1>1
<1>3. least # 0
  <2> DEFINE none == [i \in 1..0 |-> <<>>]
  <2>1. none = [i \in 1..0 |-> IF i = 1 THEN seqs[i] ELSE none[i - 1] \o seqs[i]]
    OBVIOUS
  <2>2. Joins(seqs, none, 0)
    BY <2>1 DEF Joins
  <2> QED
    BY <2>2, <1>2
<1>4. least - 1 \in Nat /\ least - 1 \notin Fails
  <2>1. least - 1 \in Nat /\ ~ (least <= least - 1)
    BY <1>2, <1>3
  <2> HIDE DEF Fails
  <2> QED
    BY <1>1, <2>1
<1>5. PICK before : Joins(seqs, before, least - 1)
  BY <1>4
<1> DEFINE joined == [i \in 1..least |-> IF i = least
                                           THEN IF i = 1 THEN seqs[i] ELSE before[i - 1] \o seqs[i]
                                           ELSE before[i]]
<1>6. \A i \in 1..(least - 1) : before[i] = IF i = 1 THEN seqs[i] ELSE before[i - 1] \o seqs[i]
  BY <1>5 DEF Joins
<1>7. \A i \in 1..least : i # 1 => i - 1 \in 1..least /\ i - 1 # least /\ joined[i - 1] = before[i - 1]
  BY <1>2
<1>8. \A i \in 1..least : joined[i] = IF i = 1 THEN seqs[i] ELSE joined[i - 1] \o seqs[i]
  <2> SUFFICES ASSUME NEW i \in 1..least
               PROVE  joined[i] = IF i = 1 THEN seqs[i] ELSE joined[i - 1] \o seqs[i]
    OBVIOUS
  <2>1. CASE i = least
    BY <2>1, <1>7
  <2>2. CASE i # least
    <3>1. i \in 1..(least - 1)
      BY <2>2, <1>2
    <3>2. joined[i] = before[i]
      BY <2>2
    <3> HIDE DEF joined
    <3> QED
      BY <3>1, <3>2, <1>6, <1>7
  <2> QED
    BY <2>1, <2>2
<1>9. joined = [i \in 1..least |-> joined[i]]
  OBVIOUS
<1> HIDE DEF joined
<1>10. joined = [i \in 1..least |-> IF i = 1 THEN seqs[i] ELSE joined[i - 1] \o seqs[i]]
  BY <1>8, <1>9
<1> QED
  BY <1>2, <1>10 DEF Joins

\* Flattened, sequences that have nothing in common keep what they have, each
\* once.
LEMMA FlattenedOnce ==
    ASSUME NEW S, NEW seqs \in Seq(Seq(S)),
           \A i \in DOMAIN seqs : IsInjective(seqs[i]),
           \A i, j \in DOMAIN seqs : i # j => ToSet(seqs[i]) \cap ToSet(seqs[j]) = {}
    PROVE  /\ IsInjective(FlattenSeq(seqs))
           /\ ToSet(FlattenSeq(seqs)) = UNION {ToSet(seqs[i]) : i \in DOMAIN seqs}
<1> DEFINE n == Len(seqs)
<1>1. n \in Nat /\ DOMAIN seqs = 1..n /\ \A i \in 1..n : seqs[i] \in Seq(S)
  OBVIOUS
<1>2. CASE n = 0
  <2>1. FlattenSeq(seqs) = seqs
    BY <1>2 DEF FlattenSeq
  <2>2. DOMAIN seqs = {}
    BY <1>1, <1>2
  <2> QED
    BY <2>1, <2>2 DEF IsInjective, ToSet
<1>3. CASE n # 0
  <2> DEFINE joined    == CHOOSE f : Joins(seqs, f, n)
             Upto(k)   == UNION {ToSet(seqs[i]) : i \in 1..k}
             Proper(k) == /\ joined[k] \in Seq(S)
                          /\ IsInjective(joined[k])
                          /\ ToSet(joined[k]) = Upto(k)
             Fails     == {k \in 1..n : ~ Proper(k)}
             least     == FirstOf(Fails)
  <2>1. FlattenSeq(seqs) = joined[n]
    BY <1>3 DEF FlattenSeq, Joins
  <2>2. Joins(seqs, joined, n)
    BY JoinsExist
  <2> HIDE DEF joined
  <2>3. /\ joined[1] = seqs[1]
        /\ \A i \in 2..n : joined[i] = joined[i - 1] \o seqs[i]
    <3>1. \A i \in 1..n : joined[i] = IF i = 1 THEN seqs[i] ELSE joined[i - 1] \o seqs[i]
      BY <2>2, Zenon DEF Joins
    <3>2. 1 \in 1..n /\ \A i \in 2..n : i \in 1..n /\ i # 1
      BY <1>1, <1>3
    <3> QED
      BY <3>1, <3>2, Zenon
  <2>4. Fails = {}
    <3> SUFFICES ASSUME Fails # {}
                 PROVE  FALSE
      OBVIOUS
    <3>1. least \in Fails /\ \A k \in Fails : least <= k
      <4>1. Fails \in SUBSET Nat
        BY <1>1
      <4> HIDE DEF Fails
      <4> QED
        BY <4>1, FirstOfIsFirst
    <3> HIDE DEF least
    <3>2. least \in 1..n /\ ~ Proper(least)
      BY <3>1
    <3>3. CASE least = 1
      <4>1. Upto(1) = ToSet(seqs[1])
        <5>1. 1..1 = {1}
          OBVIOUS
        <5> QED
          BY <5>1
      <4>2. Proper(1)
        BY <4>1, <2>3, <1>1, <1>3
      <4> QED
        BY <3>2, <3>3, <4>2
    <3>4. CASE least # 1
      <4> DEFINE prior == least - 1
      <4>1. /\ least \in 2..n /\ least \in DOMAIN seqs
            /\ prior \in 1..n
            /\ ~ (least <= prior)
            /\ 1..least = (1..prior) \cup {least}
            /\ \A i \in 1..prior : i \in DOMAIN seqs /\ i # least
        BY <3>2, <3>4, <1>1
      <4>2. joined[least] = joined[prior] \o seqs[least]
        BY <4>1, <2>3
      <4> HIDE DEF prior
      <4>3. Proper(prior)
        BY <3>1, <4>1
      <4>4. Upto(least) = Upto(prior) \cup ToSet(seqs[least])
        BY <4>1
      <4>5. Upto(prior) \cap ToSet(seqs[least]) = {}
        BY <4>1
      <4>6. seqs[least] \in Seq(S) /\ IsInjective(seqs[least])
        BY <4>1, <1>1
      <4> HIDE DEF Upto
      <4>7. Proper(least)
        BY <4>2, <4>3, <4>4, <4>5, <4>6, JoinedOnce
      <4> QED
        BY <3>2, <4>7
    <3> QED
      BY <3>3, <3>4
  <2>5. Proper(n)
    <3>1. n \in 1..n
      BY <1>1, <1>3
    <3> HIDE DEF Proper
    <3> QED
      BY <2>4, <3>1
  <2> QED
    BY <2>1, <2>5, <1>1
<1> QED
  BY <1>2, <1>3

\* The ids of the steps under another, in their order.
LEMMA UnderIs ==
    ASSUME NEW p, Numbered(p.steps), NEW h
    PROVE  LET kids == Under(p, h)
               ids  == [i \in DOMAIN kids |-> kids[i].id]
           IN  /\ kids \in Seq(ListedStep)
               /\ ids \in Seq(Nat)
               /\ DOMAIN kids = DOMAIN ids
               /\ IsInjective(ids)
               /\ ToSet(ids) = ChildrenOf(p.steps, h)
<1> DEFINE steps == p.steps
           where == {s \in DOMAIN steps : steps[s].parent = h}
           kids  == Under(p, h)
           ids   == [i \in DOMAIN kids |-> kids[i].id]
<1>1. steps \in Seq(ListedStep) /\ \A s \in DOMAIN steps : steps[s].id = s
  BY DEF Numbered
<1>2. kids = At(steps, where)
  BY DEF Under
<1>3. where \in SUBSET (DOMAIN steps) /\ where = ChildrenOf(steps, h)
  BY DEF ChildrenOf
<1> HIDE DEF steps, where, kids
<1>4. IsInjective(steps)
  BY <1>1 DEF IsInjective
<1>5. /\ kids \in Seq(ListedStep)
      /\ DOMAIN kids = 1..Len(kids)
      /\ ToSet(kids) = {steps[i] : i \in where}
      /\ IsInjective(kids)
  BY <1>1, <1>2, <1>3, <1>4, AtSelects
<1>6. /\ Len(kids) \in Nat
      /\ \A i \in DOMAIN kids : kids[i] \in ListedStep
  BY <1>5
<1>7. \A i \in DOMAIN kids : kids[i].id \in where /\ kids[i] = steps[kids[i].id]
  <2> SUFFICES ASSUME NEW i \in DOMAIN kids
               PROVE  kids[i].id \in where /\ kids[i] = steps[kids[i].id]
    OBVIOUS
  <2>1. kids[i] \in ToSet(kids)
    BY DEF ToSet
  <2>2. PICK s \in where : kids[i] = steps[s]
    BY <2>1, <1>5
  <2> QED
    BY <2>2, <1>1, <1>3
<1>8. ids \in Seq(Nat) /\ DOMAIN ids = DOMAIN kids
  <2>1. ids \in [1..Len(kids) -> Nat]
    BY <1>5, <1>6 DEF ListedStep
  <2> QED
    BY <2>1, <1>5, <1>6
<1>9. \A i \in DOMAIN kids : ids[i] = kids[i].id
  OBVIOUS
<1> HIDE DEF ids
<1>10. IsInjective(ids)
  BY <1>5, <1>7, <1>8, <1>9 DEF IsInjective
<1>11. ToSet(ids) = where
  <2>1. \A x \in ToSet(ids) : x \in where
    BY <1>7, <1>8, <1>9 DEF ToSet
  <2>2. ASSUME NEW s \in where
        PROVE  s \in ToSet(ids)
    <3>1. steps[s] \in ToSet(kids)
      BY <1>5
    <3>2. PICK i \in DOMAIN kids : kids[i] = steps[s]
      BY <3>1 DEF ToSet
    <3>3. ids[i] = s
      BY <3>2, <1>1, <1>3, <1>9
    <3> QED
      BY <3>3, <1>8 DEF ToSet
  <2> QED
    BY <2>1, <2>2
<1> QED
  BY <1>3, <1>5, <1>8, <1>10, <1>11 DEF kids, ids, steps

\* A top-level step and what is under it take one row each.
LEMMA BlockIs ==
    ASSUME NEW p, Numbered(p.steps), NEW folded,
           NEW top \in ListedStep, top.id \notin ChildrenOf(p.steps, top.id)
    PROVE  /\ Block(p, folded, top) \in Seq(Nat)
           /\ IsInjective(Block(p, folded, top))
           /\ ToSet(Block(p, folded, top)) =
                  {top.id} \cup (IF top.id \in folded THEN {} ELSE ChildrenOf(p.steps, top.id))
<1> DEFINE kids  == Under(p, top.id)
           ids   == [i \in DOMAIN kids |-> kids[i].id]
           below == IF top.id \in folded THEN <<>> ELSE ids
           under == IF top.id \in folded THEN {} ELSE ChildrenOf(p.steps, top.id)
           first == <<top.id>>
<1>1. Block(p, folded, top) = first \o below
  BY DEF Block
<1>2. /\ ids \in Seq(Nat)
      /\ IsInjective(ids)
      /\ ToSet(ids) = ChildrenOf(p.steps, top.id)
  BY UnderIs
<1> HIDE DEF ids
<1>3. /\ <<>> \in Seq(Nat)
      /\ IsInjective(<<>>)
      /\ ToSet(<<>>) = {}
  BY DEF IsInjective, ToSet
<1>4. below \in Seq(Nat) /\ IsInjective(below) /\ ToSet(below) = under
  BY <1>2, <1>3
<1>5. first \in Seq(Nat) /\ IsInjective(first) /\ ToSet(first) = {top.id}
  <2>1. top.id \in Nat
    BY DEF ListedStep
  <2>2. DOMAIN first = {1} /\ first[1] = top.id
    OBVIOUS
  <2>3. first \in Seq(Nat)
    BY <2>1
  <2> HIDE DEF first
  <2> QED
    BY <2>2, <2>3 DEF IsInjective, ToSet
<1>6. ToSet(first) \cap ToSet(below) = {}
  BY <1>4, <1>5
<1> HIDE DEF first, below
<1>7. /\ first \o below \in Seq(Nat)
      /\ IsInjective(first \o below)
      /\ ToSet(first \o below) = {top.id} \cup under
  BY <1>4, <1>5, <1>6, JoinedOnce
<1> QED
  BY <1>1, <1>7

\* One row for every step of a well-nested list but those folded away.
LEMMA RowsAre ==
    ASSUME NEW p, Numbered(p.steps), WellNested(p.steps), NEW folded \in SUBSET Foldable(p)
    PROVE  /\ IsInjective(Rows(p, folded))
           /\ ToSet(Rows(p, folded)) = {s \in DOMAIN p.steps : p.steps[s].parent \notin folded}
<1> DEFINE steps  == p.steps
           tops   == Under(p, NoParent)
           ids    == [i \in DOMAIN tops |-> tops[i].id]
           blocks == [i \in DOMAIN tops |-> Block(p, folded, tops[i])]
           Of(t)  == {t} \cup (IF t \in folded THEN {} ELSE ChildrenOf(steps, t))
<1>1. /\ tops \in Seq(ListedStep)
      /\ DOMAIN tops = DOMAIN ids
      /\ IsInjective(ids)
      /\ ToSet(ids) = ChildrenOf(steps, NoParent)
      /\ \A i \in DOMAIN tops : ids[i] = tops[i].id
  BY UnderIs
<1>2. Rows(p, folded) = FlattenSeq(blocks)
  BY DEF Rows
<1>3. /\ DOMAIN steps = 1..Len(steps) /\ Len(steps) \in Nat
      /\ \A s \in DOMAIN steps : steps[s].id = s /\ steps[s].parent \in Nat
  <2>1. steps \in Seq(ListedStep) /\ \A s \in DOMAIN steps : steps[s].id = s
    BY DEF Numbered
  <2>2. \A s \in DOMAIN steps : steps[s] \in ListedStep
    BY <2>1
  <2> QED
    BY <2>1, <2>2 DEF ListedStep
<1>4. NoParent \notin folded
  BY <1>3 DEF Foldable, NoParent
<1>5. \A s \in DOMAIN steps : steps[s].parent # NoParent =>
          /\ steps[s].parent \in DOMAIN steps
          /\ steps[s].parent # s
          /\ steps[steps[s].parent].parent = NoParent
  BY DEF WellNested, ParentRelation
<1>6. \A t \in ChildrenOf(steps, NoParent) : t \in Nat /\ t # NoParent /\ t \notin ChildrenOf(steps, t)
  BY <1>3 DEF ChildrenOf, NoParent
<1> HIDE DEF tops, ids
<1>7. \A i \in DOMAIN tops : ids[i] \in ChildrenOf(steps, NoParent) /\ tops[i] \in ListedStep
  BY <1>1 DEF ToSet
<1>8. \A i \in DOMAIN tops : /\ Block(p, folded, tops[i]) \in Seq(Nat)
                             /\ IsInjective(Block(p, folded, tops[i]))
                             /\ ToSet(Block(p, folded, tops[i])) = Of(ids[i])
  <2> SUFFICES ASSUME NEW i \in DOMAIN tops
               PROVE  /\ Block(p, folded, tops[i]) \in Seq(Nat)
                      /\ IsInjective(Block(p, folded, tops[i]))
                      /\ ToSet(Block(p, folded, tops[i])) = Of(ids[i])
    OBVIOUS
  <2>1. tops[i] \in ListedStep /\ tops[i].id = ids[i] /\ tops[i].id \notin ChildrenOf(p.steps, tops[i].id)
    BY <1>1, <1>6, <1>7
  <2> QED
    BY <2>1, BlockIs
<1>9. /\ blocks \in Seq(Seq(Nat))
      /\ DOMAIN blocks = DOMAIN tops
      /\ \A i \in DOMAIN blocks : blocks[i] = Block(p, folded, tops[i])
  <2>1. DOMAIN tops = 1..Len(tops) /\ Len(tops) \in Nat
    BY <1>1
  <2>2. blocks \in [1..Len(tops) -> Seq(Nat)]
    BY <2>1, <1>8
  <2> QED
    BY <2>1, <2>2
<1> HIDE DEF blocks
<1>10. \A i \in DOMAIN blocks : IsInjective(blocks[i]) /\ ToSet(blocks[i]) = Of(ids[i])
  BY <1>8, <1>9
<1>11. \A t, u \in ChildrenOf(steps, NoParent) : t # u => Of(t) \cap Of(u) = {}
  <2> SUFFICES ASSUME NEW t \in ChildrenOf(steps, NoParent), NEW u \in ChildrenOf(steps, NoParent),
                      t # u, NEW s \in Of(t), s \in Of(u)
               PROVE  FALSE
    OBVIOUS
  <2>1. s = t \/ s \in ChildrenOf(steps, t)
    OBVIOUS
  <2>2. s = u \/ s \in ChildrenOf(steps, u)
    OBVIOUS
  <2> QED
    BY <2>1, <2>2, <1>6 DEF ChildrenOf
<1>12. \A i, j \in DOMAIN blocks : i # j => ToSet(blocks[i]) \cap ToSet(blocks[j]) = {}
  <2> SUFFICES ASSUME NEW i \in DOMAIN blocks, NEW j \in DOMAIN blocks, i # j
               PROVE  ToSet(blocks[i]) \cap ToSet(blocks[j]) = {}
    OBVIOUS
  <2>1. ids[i] # ids[j]
    BY <1>1, <1>9 DEF IsInjective
  <2> HIDE DEF Of
  <2> QED
    BY <2>1, <1>7, <1>9, <1>10, <1>11
<1>13. /\ IsInjective(FlattenSeq(blocks))
       /\ ToSet(FlattenSeq(blocks)) = UNION {ToSet(blocks[i]) : i \in DOMAIN blocks}
  <2> HIDE DEF Of
  <2> QED
    BY <1>9, <1>10, <1>12, FlattenedOnce
<1>14. UNION {ToSet(blocks[i]) : i \in DOMAIN blocks} = UNION {Of(t) : t \in ChildrenOf(steps, NoParent)}
  <2> HIDE DEF Of
  <2>1. \A i \in DOMAIN blocks : \E t \in ChildrenOf(steps, NoParent) : ToSet(blocks[i]) = Of(t)
    BY <1>7, <1>9, <1>10
  <2>2. \A t \in ChildrenOf(steps, NoParent) : \E i \in DOMAIN blocks : ToSet(blocks[i]) = Of(t)
    BY <1>1, <1>9, <1>10 DEF ToSet
  <2> QED
    BY <2>1, <2>2
<1>15. UNION {Of(t) : t \in ChildrenOf(steps, NoParent)} = {s \in DOMAIN steps : steps[s].parent \notin folded}
  <2>1. ASSUME NEW t \in ChildrenOf(steps, NoParent), NEW s \in Of(t)
        PROVE  s \in DOMAIN steps /\ steps[s].parent \notin folded
    <3>1. CASE s = t
      BY <2>1, <3>1, <1>4 DEF ChildrenOf
    <3>2. CASE s # t
      BY <2>1, <3>2 DEF ChildrenOf
    <3> QED
      BY <3>1, <3>2
  <2>2. ASSUME NEW s \in DOMAIN steps, steps[s].parent \notin folded
        PROVE  \E t \in ChildrenOf(steps, NoParent) : s \in Of(t)
    <3>1. CASE steps[s].parent = NoParent
      BY <3>1 DEF ChildrenOf
    <3>2. CASE steps[s].parent # NoParent
      BY <2>2, <3>2, <1>5 DEF ChildrenOf
    <3> QED
      BY <3>1, <3>2
  <2> HIDE DEF Of
  <2> QED
    BY <2>1, <2>2
<1> QED
  BY <1>2, <1>13, <1>14, <1>15

\* After every sequence of lines the sidebar shows the task as it is: a heading
\* that tells what the task is, and a row for every step not folded away.
THEOREM SidebarIsTrue == CliSpec => []SidebarTellsTheTask
<1>1. IInv => SidebarTellsTheTask
  <2> SUFFICES ASSUME IInv
               PROVE  SidebarTellsTheTask
    OBVIOUS
  <2> DEFINE p == Reduced(task)
  <2>1. /\ Numbered(p.steps)
        /\ DOMAIN p.steps = DOMAIN task.steps
        /\ \A s \in DOMAIN p.steps : p.steps[s].parent = task.steps[s].parent
    BY ListedOfSound
  <2>2. WellNested(p.steps)
    <3>1. WellNested(task.steps)
      BY DEF IInv, SoundTask, SoundSteps
    <3> HIDE DEF p
    <3> QED
      BY <2>1, <3>1 DEF WellNested, ParentRelation
  <2>3. \A folded \in SUBSET Foldable(p) :
            /\ IsInjective(Rows(p, folded))
            /\ ToSet(Rows(p, folded)) = {s \in DOMAIN task.steps : task.steps[s].parent \notin folded}
    <3> HIDE DEF p
    <3> SUFFICES ASSUME NEW folded \in SUBSET Foldable(p)
                 PROVE  /\ IsInjective(Rows(p, folded))
                        /\ ToSet(Rows(p, folded)) = {s \in DOMAIN task.steps : task.steps[s].parent \notin folded}
      OBVIOUS
    <3>1. /\ IsInjective(Rows(p, folded))
          /\ ToSet(Rows(p, folded)) = {s \in DOMAIN p.steps : p.steps[s].parent \notin folded}
      BY <2>1, <2>2, RowsAre
    <3>2. {s \in DOMAIN p.steps : p.steps[s].parent \notin folded}
              = {s \in DOMAIN task.steps : task.steps[s].parent \notin folded}
      BY <2>1
    <3> QED
      BY <3>1, <3>2
  <2>4. /\ Accepted(p)
        /\ task.steps # <<>> => (Pending(p) = 0 <=> task.status = "done")
        /\ LET open == {s \in DOMAIN task.steps : ~ IsDone(task.steps, s)}
           IN  IF open = {} THEN Active(p) = NoStep ELSE Active(p) \in open
        /\ task.status = "blocked" <=> p.blockers # {}
    BY HeadingOfSound, ProjectionAssumption
  <2> QED
    BY <2>3, <2>4 DEF SidebarTellsTheTask
<1> QED
  BY <1>1, CliInvariance, PTL
=============================================================================
