-------------------------- MODULE TaskCreationProofs --------------------------
(***************************************************************************)
(* Creation is all or nothing, for any number of processes, any candidate  *)
(* lists and any number of files; and a listing that runs meanwhile is     *)
(* faithful, whatever is created and saved while it walks.                 *)
(***************************************************************************)
EXTENDS TaskListing, TLAPS, FiniteSetTheorems

\* A new command starts at the first candidate, which every list has.
Fresh == \A p \in Procs : pc[p] = "idle" => attempt[p] = 1

IInv == TypeOK /\ Fresh /\ PublishedWhole /\ AnswersAreOwn

LEMMA FirstCandidate ==
    ASSUME NEW s \in Slugs
    PROVE  1 \in DOMAIN Candidates[s] /\ DOMAIN Candidates[s] = 1..Len(Candidates[s])
<1>1. Candidates[s] \in Seq(Ids) /\ Candidates[s] # <<>>
  BY CreationAssumption
<1> QED
  BY <1>1

LEMMA CandidateTyped ==
    ASSUME TypeOK, NEW p \in Procs, pc[p] # "idle"
    PROVE  Candidate(p) \in Ids
BY CreationAssumption DEF TypeOK, Candidate

LEMMA InitHolds == Init => IInv
BY CreationAssumption DEF Init, IInv, TypeOK, Fresh, PublishedWhole, AnswersAreOwn

\* A command that ends without a task leaves everything in place.
LEMMA QuitEmpty ==
    ASSUME IInv, NEW p \in Procs, Quit(p, None), root' = root
    PROVE  IInv'
<1>1. TypeOK' /\ Fresh'
  BY CreationAssumption DEF IInv, TypeOK, Fresh, Quit, Goto
<1>2. \A q \in Procs : answer'[q] # None => q # p /\ answer'[q] = answer[q]
  BY DEF IInv, TypeOK, Quit
<1> QED
  BY <1>1, <1>2 DEF IInv, PublishedWhole, AnswersAreOwn

LEMMA PublishHolds ==
    ASSUME IInv, NEW p \in Procs, Publish(p)
    PROVE  IInv'
<1> DEFINE id == Candidate(p)
           directory == [owner |-> p, files |-> built[p]]
<1>1. /\ TypeOK
      /\ id \in Ids
      /\ root[id] = None
      /\ built[p] = NumFiles
      /\ root' = [root EXCEPT ![id] = directory]
      /\ Quit(p, id)
  BY CandidateTyped DEF IInv, Publish
<1>2. directory \in Directory /\ directory # None
  BY <1>1, CreationAssumption DEF Directory
<1>3. root'[id] = directory /\ \A other \in Ids \ {id} : root'[other] = root[other]
  BY <1>1 DEF TypeOK
<1>4. TypeOK' /\ Fresh'
  BY <1>1, <1>2, CreationAssumption DEF IInv, TypeOK, Fresh, Quit, Goto
<1>5. PublishedWhole'
  BY <1>1, <1>3 DEF IInv, PublishedWhole
<1>6. answer'[p] = id /\ \A q \in Procs \ {p} : answer'[q] = answer[q]
  BY <1>1 DEF TypeOK, Quit
<1>7. AnswersAreOwn'
  BY <1>1, <1>2, <1>3, <1>6 DEF IInv, TypeOK, AnswersAreOwn
<1> QED
  BY <1>4, <1>5, <1>7 DEF IInv

LEMMA NextHolds == IInv /\ [Next]_vars => IInv'
<1> SUFFICES ASSUME IInv, [Next]_vars
             PROVE  IInv'
  OBVIOUS
<1>1. ASSUME NEW p \in Procs, Begin(p) PROVE IInv'
  <2>1. TypeOK' /\ Fresh'
    BY <1>1, FirstCandidate DEF IInv, TypeOK, Fresh, Begin, Goto
  <2>2. \A q \in Procs : answer'[q] # None => q # p /\ answer'[q] = answer[q]
    BY <1>1 DEF IInv, TypeOK, Begin
  <2> QED
    BY <1>1, <2>1, <2>2 DEF IInv, Begin, PublishedWhole, AnswersAreOwn
<1>2. ASSUME NEW p \in Procs, ProbeFree(p) \/ ProbeNext(p) \/ BuildFile(p) PROVE IInv'
  <2>1. root' = root /\ answer' = answer /\ slug' = slug
    BY <1>2 DEF ProbeFree, ProbeNext, BuildFile
  <2>2. CASE ProbeFree(p)
    BY <2>1, <2>2 DEF IInv, TypeOK, Fresh, ProbeFree, Goto, PublishedWhole, AnswersAreOwn
  <2>3. CASE ProbeNext(p)
    <3>1. /\ slug[p] \in Slugs
          /\ attempt[p] \in 1..Len(Candidates[slug[p]])
          /\ attempt[p] + 1 \in DOMAIN Candidates[slug[p]]
      <4>1. slug[p] \in Slugs /\ attempt[p] \in DOMAIN Candidates[slug[p]]
        BY <2>3 DEF IInv, TypeOK, ProbeNext
      <4>2. DOMAIN Candidates[slug[p]] = 1..Len(Candidates[slug[p]])
        BY <4>1, FirstCandidate
      <4>3. Len(Candidates[slug[p]]) \in Nat
        BY <4>1, CreationAssumption
      <4> QED
        BY <4>1, <4>2, <4>3, <2>3 DEF ProbeNext
    <3> QED
      BY <2>1, <2>3, <3>1 DEF IInv, TypeOK, Fresh, ProbeNext, PublishedWhole, AnswersAreOwn
  <2>4. CASE BuildFile(p)
    BY <2>1, <2>4, CreationAssumption
       DEF IInv, TypeOK, Fresh, BuildFile, PublishedWhole, AnswersAreOwn
  <2> QED
    BY <1>2, <2>2, <2>3, <2>4
<1>3. ASSUME NEW p \in Procs, Publish(p) PROVE IInv'
  BY <1>3, PublishHolds
<1>4. ASSUME NEW p \in Procs, ProbeExhausted(p) \/ LoseRace(p) \/ FailBuild(p) \/ Crash(p) PROVE IInv'
  BY <1>4, QuitEmpty DEF ProbeExhausted, LoseRace, FailBuild, Crash
<1>5. CASE UNCHANGED vars
  BY <1>5 DEF vars, IInv, TypeOK, Fresh, PublishedWhole, AnswersAreOwn
<1> QED
  BY <1>1, <1>2, <1>3, <1>4, <1>5 DEF Next, Proceed

THEOREM Invariance == Spec => []IInv
<1> QED
  BY InitHolds, NextHolds, PTL DEF Spec

\* Every process is always at a candidate that exists.
THEOREM TypeCorrect == Spec => []TypeOK
<1>1. IInv => TypeOK
  BY DEF IInv
<1> QED
  BY <1>1, Invariance, PTL

\* A directory under a task id has all its files, whatever failed or died.
THEOREM CreationIsWhole == Spec => []PublishedWhole
<1>1. IInv => PublishedWhole
  BY DEF IInv
<1> QED
  BY <1>1, Invariance, PTL

\* Success is reported by the process whose task stands under the id.
THEOREM OneWinner == Spec => []AnswersAreOwn
<1>1. IInv => AnswersAreOwn
  BY DEF IInv
<1> QED
  BY <1>1, Invariance, PTL

\* No creation replaces a task.
THEOREM CreationReplacesNothing == Spec => NothingReplaced
<1>1. IInv /\ [Next]_vars => [\A id \in Ids : root[id] # None => root'[id] = root[id]]_vars
  <2> SUFFICES ASSUME IInv, [Next]_vars, NEW id \in Ids, root[id] # None
               PROVE  root'[id] = root[id]
    BY DEF vars
  <2>1. ASSUME NEW p \in Procs, Publish(p) PROVE root'[id] = root[id]
    BY <2>1 DEF Publish, IInv, TypeOK
  <2>2. CASE \A p \in Procs : ~ Publish(p)
    BY <2>2 DEF Next, Proceed, Begin, ProbeFree, ProbeNext, ProbeExhausted, BuildFile, LoseRace,
                FailBuild, Crash, vars
  <2> QED
    BY <2>1, <2>2
<1> QED
  BY <1>1, Invariance, PTL DEF Spec, NothingReplaced

-----------------------------------------------------------------------------
\* Saves and a listing beside them leave creations what they are: all of the above
\* holds of them together.
THEOREM CreationIsUndisturbed == ListingSpec => Spec
<1>1. ListingInit => Init
  BY DEF ListingInit
<1>2. [ListingNext]_allVars => [Next]_vars
  BY DEF ListingNext, Walk, Save, StartWalk, ListForeign, Inspect, OpenInspected, OpenReplaced, allVars
<1> QED
  BY <1>1, <1>2, PTL DEF ListingSpec, Spec

-----------------------------------------------------------------------------
(* The walk of a listing. *)

\* The names the walk set out with, those it has not dealt with, and whether it
\* ever set out.
Names == {id \in Ids : since[id] # None} \cup DOMAIN Foreign
Ahead == todo \cup {id \in Ids : id = looked}
Begun == todo # {} \/ looked # None \/ listed # {}

WalkTyped ==
    /\ saves \in [Ids -> Nat]
    /\ since \in [Ids -> Nat \cup {None}]
    /\ todo \subseteq Names
    /\ looked \in Ids \cup {None}
    /\ inode \in Nat

\* Revisions only grow, and what was inspected was inspected during the walk.
InTime ==
    /\ looked # None =>
          /\ since[looked] # None /\ looked \notin todo
          /\ since[looked] <= inode /\ inode <= saves[looked]
    /\ \A id \in Ids : since[id] # None => since[id] <= saves[id]

\* An entry is of a name already dealt with: a task as it was during the walk, or
\* what is no task, or what a save crossed.
EntryTrue(e) ==
    /\ e.name \in Names /\ e.name \notin Ahead
    /\ e.format = "task" => e.name \in Ids /\ e.revision \in since[e.name]..saves[e.name]
    /\ (e.format # "task" /\ e.name \in Ids) => since[e.name] < saves[e.name]

\* Every name dealt with has one entry.
OneEntryEach ==
    /\ \A e, f \in listed : e.name = f.name => e = f
    /\ Begun => \A n \in Names \ Ahead : \E e \in listed : e.name = n

WalkInv == WalkTyped /\ InTime /\ OneEntryEach /\ \A e \in listed : EntryTrue(e)

LEMMA WalkInit == ListingInit => WalkInv
BY ListingAssumption DEF ListingInit, WalkInv, WalkTyped, InTime, OneEntryEach, Names, Ahead, Begun

\* Dealing with one name adds one entry for it.
LEMMA EntryAdded ==
    ASSUME WalkInv, NEW e, EntryTrue(e)', e.name \in Ahead, Ahead' = Ahead \ {e.name},
           listed' = listed \cup {e}, UNCHANGED <<saves, since>>
    PROVE  OneEntryEach' /\ \A f \in listed' : EntryTrue(f)'
<1>1. Names' = Names
    BY DEF Names
<1>2. \A f \in listed : f.name \notin Ahead /\ f.name # e.name /\ EntryTrue(f)'
    BY <1>1 DEF WalkInv, EntryTrue
<1>3. Begun
    BY ListingAssumption, CreationAssumption DEF Begun, Ahead
<1> QED BY <1>1, <1>2, <1>3 DEF WalkInv, OneEntryEach

LEMMA WalkStep == WalkInv /\ [ListingNext]_allVars => WalkInv'
<1> SUFFICES ASSUME WalkInv, [ListingNext]_allVars PROVE WalkInv'
    OBVIOUS
<1>1. CASE UNCHANGED listVars
    BY <1>1 DEF listVars, WalkInv, WalkTyped, InTime, OneEntryEach, EntryTrue, Names, Ahead, Begun
<1>2. ASSUME NEW id \in Ids, Save(id) PROVE WalkInv'
    <2>1. /\ saves' \in [Ids -> Nat]
          /\ \A other \in Ids : saves[other] <= saves'[other]
        BY <1>2 DEF Save, WalkInv, WalkTyped
    <2>2. UNCHANGED <<since, todo, looked, inode, listed>>
        BY <1>2 DEF Save
    <2>3. Names' = Names /\ Ahead' = Ahead /\ Begun' = Begun
        BY <2>2 DEF Names, Ahead, Begun
    <2>4. WalkTyped' /\ OneEntryEach'
        BY <2>1, <2>2, <2>3 DEF WalkInv, WalkTyped, OneEntryEach
    <2>5. InTime'
        <3>1. ASSUME NEW other \in Ids, since[other] # None PROVE since[other] <= saves'[other]
            BY <3>1, <2>1, ListingAssumption DEF WalkInv, WalkTyped, InTime
        <3>2. looked # None => inode <= saves'[looked]
            BY <2>1 DEF WalkInv, WalkTyped, InTime
        <3> QED BY <2>2, <3>1, <3>2 DEF WalkInv, InTime
    <2>6. ASSUME NEW e \in listed PROVE EntryTrue(e)'
        <3>1. EntryTrue(e)
            BY DEF WalkInv
        <3>2. e.name \in Ids => \/ since[e.name] = None
                                \/ /\ since[e.name] \in Nat /\ saves[e.name] \in Nat /\ saves'[e.name] \in Nat
                                   /\ saves[e.name] <= saves'[e.name]
            BY <2>1 DEF WalkInv, WalkTyped
        <3>3. e.name \in Ids => since[e.name] # None
            BY <3>1, ListingAssumption DEF EntryTrue, Names
        <3> QED BY <3>1, <3>2, <3>3, <2>2, <2>3 DEF EntryTrue
    <2> QED BY <2>2, <2>4, <2>5, <2>6 DEF WalkInv
<1>3. CASE StartWalk
    <2>1. /\ todo' = {id \in Ids : Published(id)} \cup DOMAIN Foreign
          /\ since' = [id \in Ids |-> IF Published(id) THEN saves[id] ELSE None]
          /\ looked' = None /\ listed' = {} /\ saves' = saves /\ inode' = inode
        BY <1>3 DEF StartWalk
    <2>2. WalkTyped /\ WalkTyped'
        BY <2>1, ListingAssumption DEF WalkInv, WalkTyped, Names
    <2>3. \A id \in Ids : since'[id] # None => since'[id] = saves'[id] /\ saves'[id] \in Nat
        BY <2>1, <2>2 DEF WalkTyped
    <2>4. Names' = todo' /\ Ahead' = todo'
        BY <2>1, <2>2, CreationAssumption, ListingAssumption DEF Names, Ahead, WalkTyped
    <2> QED BY <2>1, <2>2, <2>3, <2>4 DEF WalkInv, InTime, OneEntryEach
<1>4. ASSUME NEW name \in DOMAIN Foreign, ListForeign(name) PROVE WalkInv'
    <2> DEFINE e == UnknownEntry(name, ForeignFormat(name))
    <2>1. e.name = name /\ e.format # "task" /\ name \notin Ids /\ name \in todo /\ looked = None
        BY <1>4, ListingAssumption DEF UnknownEntry, ForeignFormat, ListForeign
    <2>2. /\ todo' = todo \ {name} /\ listed' = listed \cup {e}
          /\ UNCHANGED <<saves, since, looked, inode>>
        BY <1>4 DEF ListForeign
    <2> HIDE DEF e
    <2>3. Names' = Names /\ name \in Ahead /\ Ahead' = Ahead \ {name} /\ name \in Names
        BY <2>1, <2>2 DEF Names, Ahead
    <2>4. EntryTrue(e)'
        BY <2>1, <2>3 DEF EntryTrue
    <2>5. OneEntryEach' /\ \A f \in listed' : EntryTrue(f)'
        BY <2>1, <2>2, <2>3, <2>4, EntryAdded
    <2>6. WalkTyped' /\ InTime'
        BY <2>1, <2>2, <2>3 DEF WalkInv, WalkTyped, InTime
    <2> QED BY <2>5, <2>6 DEF WalkInv
<1>5. ASSUME NEW id \in Ids, Inspect(id) PROVE WalkInv'
    <2>1. /\ todo' = todo \ {id} /\ looked' = id /\ inode' = saves[id] /\ looked = None
          /\ id \in todo /\ UNCHANGED <<saves, since, listed>>
        BY <1>5 DEF Inspect
    <2>2. Names' = Names /\ Ahead' = Ahead /\ Begun' /\ Begun
        BY <2>1, CreationAssumption DEF Names, Ahead, Begun
    <2>3. since[id] # None /\ since[id] <= saves[id] /\ saves[id] \in Nat
        BY <2>1, ListingAssumption DEF WalkInv, WalkTyped, InTime, Names
    <2>4. WalkTyped' /\ InTime'
        BY <2>1, <2>2, <2>3 DEF WalkInv, WalkTyped, InTime
    <2> QED BY <2>1, <2>2, <2>4 DEF WalkInv, OneEntryEach, EntryTrue
<1>6. CASE OpenInspected \/ OpenReplaced
    <2>1. /\ looked \in Ids /\ looked # None /\ looked' = None
          /\ UNCHANGED <<saves, since, todo, inode>>
        BY <1>6 DEF OpenInspected, OpenReplaced, WalkInv, WalkTyped
    <2>2. /\ since[looked] \in Nat /\ saves[looked] \in Nat /\ inode \in Nat
          /\ since[looked] <= inode /\ inode <= saves[looked] /\ looked \notin todo
        BY <2>1 DEF WalkInv, WalkTyped, InTime
    <2>3. PICK e : /\ listed' = listed \cup {e}
                   /\ e.name = looked
                   /\ e.format = "task" => e.revision = saves[looked]
                   /\ e.format # "task" => saves[looked] # inode
        <3>1. CASE OpenInspected
            <4>1. listed' = listed \cup {Summary(looked)}
                BY <3>1 DEF OpenInspected
            <4>2. /\ Summary(looked).name = looked
                  /\ Summary(looked).format = "task"
                  /\ Summary(looked).revision = saves[looked]
                BY <3>1 DEF OpenInspected, Summary
            <4> QED BY <4>1, <4>2
        <3>2. CASE OpenReplaced
            <4>1. listed' = listed \cup {UnknownEntry(looked, "unknown")}
                BY <3>2 DEF OpenReplaced
            <4>2. /\ UnknownEntry(looked, "unknown").name = looked
                  /\ UnknownEntry(looked, "unknown").format # "task"
                  /\ saves[looked] # inode
                BY <3>2 DEF OpenReplaced, UnknownEntry
            <4> QED BY <4>1, <4>2
        <3> QED BY <1>6, <3>1, <3>2
    <2>4. Names' = Names /\ Ahead = todo \cup {looked} /\ Ahead' = todo
        BY <2>1, CreationAssumption DEF Names, Ahead
    <2>5. EntryTrue(e)'
        BY <2>1, <2>2, <2>3, <2>4, ListingAssumption DEF EntryTrue, Names
    <2>6. OneEntryEach' /\ \A f \in listed' : EntryTrue(f)'
        BY <2>1, <2>2, <2>3, <2>4, <2>5, EntryAdded
    <2>7. WalkTyped' /\ InTime'
        BY <2>1, <2>4 DEF WalkInv, WalkTyped, InTime
    <2> QED BY <2>6, <2>7 DEF WalkInv
<1> QED BY <1>1, <1>2, <1>3, <1>4, <1>5, <1>6 DEF ListingNext, Walk, allVars, listVars

\* When the walk is over, the entries that are no tasks are one for each foreign
\* name and one for each task a save crossed.
LEMMA OmittedCounted ==
    ASSUME WalkInv, todo = {}, looked = None, listed # {},
           NEW tasks, tasks = {e \in listed : IsTaskSummary(e)},
           NEW shown, shown = {e.name : e \in tasks}
    PROVE  Cardinality(listed) - Cardinality(tasks) =
               Cardinality(DOMAIN Foreign) + Cardinality({id \in Ids \ shown : since[id] # None})
<1> DEFINE crossed == {id \in Ids \ shown : since[id] # None}
           rest    == listed \ tasks
           naming  == [e \in listed |-> e.name]
           restNaming == [e \in rest |-> e.name]
<1>1. IsFiniteSet(Names) /\ IsFiniteSet(crossed) /\ IsFiniteSet(DOMAIN Foreign)
    <2>1. IsFiniteSet({id \in Ids : since[id] # None}) /\ IsFiniteSet(crossed)
        BY FS_Subset, ListingAssumption
    <2> QED BY <2>1, FS_Union, ListingAssumption DEF Names
<1>2. IsFiniteSet(listed)
    <2>1. naming \in [listed -> Names] /\ IsInjective(naming)
        BY DEF WalkInv, EntryTrue, OneEntryEach, IsInjective
    <2> QED BY <2>1, <1>1, FS_Injection DEF Injection
<1>3. IsFiniteSet(rest) /\ Cardinality(rest) = Cardinality(listed) - Cardinality(tasks)
    <2>1. listed \cap tasks = tasks
        OBVIOUS
    <2>2. /\ IsFiniteSet(listed \ tasks)
          /\ Cardinality(listed \ tasks) = Cardinality(listed) - Cardinality(listed \cap tasks)
        BY <1>2, FS_Difference, Zenon
    <2> QED BY <2>1, <2>2, Zenon
<1>4. DOMAIN Foreign \cap crossed = {}
    BY ListingAssumption
<1>5. restNaming \in Bijection(rest, DOMAIN Foreign \cup crossed)
    <2>1. ASSUME NEW e \in rest PROVE e.name \in DOMAIN Foreign \cup crossed
        BY DEF WalkInv, EntryTrue, OneEntryEach, Names
    <2>2. ASSUME NEW n \in DOMAIN Foreign \cup crossed PROVE \E e \in rest : e.name = n
        <3>1. n \in Names \ Ahead
            BY CreationAssumption DEF Names, Ahead
        <3>2. PICK e \in listed : e.name = n
            BY <3>1 DEF WalkInv, OneEntryEach, Begun
        <3>3. e \notin tasks
            BY <3>2, ListingAssumption DEF WalkInv, EntryTrue, IsTaskSummary
        <3> QED BY <3>2, <3>3
    <2>3. restNaming \in [rest -> DOMAIN Foreign \cup crossed] /\ IsInjective(restNaming)
        BY <2>1 DEF WalkInv, OneEntryEach, IsInjective
    <2> QED BY <2>2, <2>3 DEF Bijection, Injection, Surjection
<1>6. Cardinality(rest) = Cardinality(DOMAIN Foreign \cup crossed)
    BY <1>3, <1>5, FS_Bijection DEF ExistsBijection
<1>7. Cardinality(DOMAIN Foreign \cup crossed) = Cardinality(DOMAIN Foreign) + Cardinality(crossed)
    <2> HIDE DEF crossed
    <2>1. Cardinality(DOMAIN Foreign \cup crossed) =
              Cardinality(DOMAIN Foreign) + Cardinality(crossed) - Cardinality(DOMAIN Foreign \cap crossed)
        BY <1>1, FS_Union, Zenon
    <2>2. Cardinality(DOMAIN Foreign \cap crossed) = 0
        BY <1>4, FS_EmptySet
    <2>3. Cardinality(DOMAIN Foreign) \in Nat /\ Cardinality(crossed) \in Nat
        BY <1>1, FS_CardinalityType
    <2> QED BY <2>1, <2>2, <2>3
<1> QED BY <1>3, <1>6, <1>7

\* Whatever is created and saved while a listing walks, it loses no task that a
\* save did not cross, shows each as it was at some moment of the walk, and counts
\* what it leaves out.
THEOREM ListingsAreFaithful == ListingSpec => []ListingIsFaithful
<1>1. WalkInv => ListingIsFaithful
    <2> SUFFICES ASSUME WalkInv PROVE ListingIsFaithful
        OBVIOUS
    <2> DEFINE tasks == {e \in listed : IsTaskSummary(e)}
               shown == {e.name : e \in tasks}
    <2>1. Board(listed).tasks = tasks
          /\ Board(listed).omitted = Cardinality(listed) - Cardinality(tasks)
        BY DEF Board
    <2>2. ASSUME NEW e \in tasks
          PROVE  e.name \in Ids /\ since[e.name] # None /\ e.revision \in since[e.name]..saves[e.name]
        BY ListingAssumption DEF WalkInv, EntryTrue, Names, IsTaskSummary
    <2>3. ASSUME todo = {}, looked = None, listed # {},
                 NEW id \in Ids \ shown, since[id] # None
          PROVE  saves[id] > since[id]
        <3>1. id \in Names \ Ahead
            BY <2>3, CreationAssumption DEF Names, Ahead
        <3>2. PICK e \in listed : e.name = id
            BY <3>1, <2>3 DEF WalkInv, OneEntryEach, Begun
        <3>3. since[id] < saves[id]
            BY <3>2 DEF WalkInv, EntryTrue, IsTaskSummary
        <3>4. since[id] \in Nat /\ saves[id] \in Nat
            BY <2>3 DEF WalkInv, WalkTyped
        <3> QED BY <3>3, <3>4
    <2>4. todo = {} /\ looked = None /\ listed # {} =>
              Board(listed).omitted = Cardinality(DOMAIN Foreign)
                                         + Cardinality({id \in Ids \ shown : since[id] # None})
        BY <2>1, OmittedCounted
    <2> HIDE DEF tasks
    <2> QED BY <2>1, <2>2, <2>3, <2>4 DEF ListingIsFaithful
<1> QED BY <1>1, WalkInit, WalkStep, PTL DEF ListingSpec
=============================================================================
