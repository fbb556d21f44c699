----------------------------- MODULE TaskCreation -----------------------------
(***************************************************************************)
(* createTask by concurrent processes: pick a free id, build the task in a *)
(* staging directory, publish the directory with one rename.               *)
(*                                                                         *)
(* A title gives a slug, the slug a list of candidate ids: itself and its  *)
(* numbered variants, cut to the maximal length.  So two slugs may share   *)
(* candidates ("plan-2" is a slug and the second candidate of "plan"), and *)
(* a long slug may list the same id twice.                                 *)
(*                                                                         *)
(* A command that fails, or a process that dies, may leave its staging     *)
(* directory behind.  Its name starts with a dot: no listing shows it, no  *)
(* id names it, so it is not represented.                                  *)
(***************************************************************************)
EXTENDS Naturals, Sequences

CONSTANTS
    Procs,          \* processes running `skynex task init`
    Slugs,          \* slugs of the titles they ask for
    Ids,            \* directory names under the tasks root
    Candidates,     \* Candidates[s]: the ids resolveAvailableId tries for slug s, in order
    NumFiles,       \* files in a new task: task.json and its instructions
    None

ASSUME CreationAssumption ==
    /\ Candidates \in [Slugs -> Seq(Ids) \ {<<>>}]
    /\ NumFiles \in Nat \ {0}
    /\ None \notin Ids
    /\ None \notin [owner : Procs, files : 0..NumFiles]

VARIABLES
    root,           \* the directory under each id, or None
    pc,             \* where each process is
    slug,           \* the slug it works on, or None
    attempt,        \* the candidate it looks at
    built,          \* how many files its staging directory holds
    answer          \* the id its last command answered, or None

vars == <<root, pc, slug, attempt, built, answer>>

\* A directory as others find it: who built it, how many files it holds.
Directory == [owner : Procs, files : 0..NumFiles]

Init ==
    /\ root = [id \in Ids |-> None]
    /\ pc = [p \in Procs |-> "idle"]
    /\ slug = [p \in Procs |-> None]
    /\ attempt = [p \in Procs |-> 1]
    /\ built = [p \in Procs |-> 0]
    /\ answer = [p \in Procs |-> None]

Candidate(p) == Candidates[slug[p]][attempt[p]]

Goto(p, where) == pc' = [pc EXCEPT ![p] = where]

\* The command answers `what`, or dies and answers nothing.
Quit(p, what) ==
    /\ Goto(p, "idle")
    /\ slug' = [slug EXCEPT ![p] = None]
    /\ attempt' = [attempt EXCEPT ![p] = 1]
    /\ built' = [built EXCEPT ![p] = 0]
    /\ answer' = [answer EXCEPT ![p] = what]

-----------------------------------------------------------------------------
Begin(p) ==
    /\ pc[p] = "idle"
    /\ \E s \in Slugs : slug' = [slug EXCEPT ![p] = s]
    /\ answer' = [answer EXCEPT ![p] = None]
    /\ Goto(p, "probe")
    /\ UNCHANGED <<root, attempt, built>>

\* store.exists says no: this will be the id, though nothing reserves it.
ProbeFree(p) ==
    /\ pc[p] = "probe"
    /\ root[Candidate(p)] = None
    /\ Goto(p, "build")
    /\ UNCHANGED <<root, slug, attempt, built, answer>>

ProbeNext(p) ==
    /\ pc[p] = "probe"
    /\ root[Candidate(p)] # None
    /\ attempt[p] < Len(Candidates[slug[p]])
    /\ attempt' = [attempt EXCEPT ![p] = @ + 1]
    /\ UNCHANGED <<root, pc, slug, built, answer>>

\* Faulty: the search starts over.
ProbeAgain(p) ==
    /\ pc[p] = "probe"
    /\ root[Candidate(p)] # None
    /\ attempt[p] = Len(Candidates[slug[p]])
    /\ attempt' = [attempt EXCEPT ![p] = 1]
    /\ UNCHANGED <<root, pc, slug, built, answer>>

\* MAX_COLLISION_ATTEMPTS: the command fails with TASK_EXISTS.
ProbeExhausted(p) ==
    /\ pc[p] = "probe"
    /\ root[Candidate(p)] # None
    /\ attempt[p] = Len(Candidates[slug[p]])
    /\ Quit(p, None)
    /\ UNCHANGED root

\* One atomicWrite after the other inside .tmp-<id>-<uuid>.
BuildFile(p) ==
    /\ pc[p] = "build"
    /\ built[p] < NumFiles
    /\ built' = [built EXCEPT ![p] = @ + 1]
    /\ UNCHANGED <<root, pc, slug, attempt, answer>>

\* Faulty: the directory gets its name before it has its files.
PublishEarly(p) ==
    /\ pc[p] = "build"
    /\ root[Candidate(p)] = None
    /\ root' = [root EXCEPT ![Candidate(p)] = [owner |-> p, files |-> built[p]]]
    /\ Quit(p, Candidate(p))

\* rename(staging, final): a directory replaces nothing but an empty one.
Publish(p) ==
    /\ pc[p] = "build"
    /\ built[p] = NumFiles
    /\ root[Candidate(p)] = None
    /\ root' = [root EXCEPT ![Candidate(p)] = [owner |-> p, files |-> built[p]]]
    /\ Quit(p, Candidate(p))

\* Faulty: a lost race taken for success.
LoseRaceSilently(p) ==
    /\ pc[p] = "build"
    /\ built[p] = NumFiles
    /\ root[Candidate(p)] # None
    /\ Quit(p, Candidate(p))
    /\ UNCHANGED root

\* ENOTEMPTY: another process published the id since the probe.  The command
\* fails with TASK_EXISTS; it does not try the next candidate.
LoseRace(p) ==
    /\ pc[p] = "build"
    /\ built[p] = NumFiles
    /\ root[Candidate(p)] # None
    /\ Quit(p, None)
    /\ UNCHANGED root

\* A write or the rename fails; so may the removal of the staging directory.
FailBuild(p) ==
    /\ pc[p] = "build"
    /\ Quit(p, None)
    /\ UNCHANGED root

Crash(p) ==
    /\ pc[p] # "idle"
    /\ Quit(p, None)
    /\ UNCHANGED root

-----------------------------------------------------------------------------
Proceed(p) == \/ ProbeFree(p)
              \/ ProbeNext(p)
              \/ ProbeExhausted(p)
              \/ BuildFile(p)
              \/ Publish(p)
              \/ LoseRace(p)
              \/ FailBuild(p)

Next == \E p \in Procs : Begin(p) \/ Proceed(p) \/ Crash(p)

Spec == Init /\ [][Next]_vars

\* Node runs the command of a live process; nobody has to start one.
FairSpec == Spec /\ \A p \in Procs : WF_vars(Proceed(p))

-----------------------------------------------------------------------------
TypeOK ==
    /\ root \in [Ids -> Directory \cup {None}]
    /\ pc \in [Procs -> {"idle", "probe", "build"}]
    /\ slug \in [Procs -> Slugs \cup {None}]
    /\ attempt \in [Procs -> Nat \ {0}]
    /\ \A p \in Procs : pc[p] # "idle" =>
          slug[p] \in Slugs /\ attempt[p] \in DOMAIN Candidates[slug[p]]
    /\ built \in [Procs -> 0..NumFiles]
    /\ answer \in [Procs -> Ids \cup {None}]

\* What stands under a task id is a whole task: a crash or a failure in the
\* middle of a creation shows in no listing, because a staging directory takes
\* the final name only when all its files are in place.
PublishedWhole == \A id \in Ids : root[id] # None => root[id].files = NumFiles

\* The process that reported an id built the task under it: two creations that
\* raced for one id, or for one candidate of different slugs, never both
\* report success.
AnswersAreOwn ==
    \A p \in Procs :
        answer[p] # None => root[answer[p]] # None /\ root[answer[p]].owner = p

\* A creation never replaces a task that is already there.
NothingReplaced == [][\A id \in Ids : root[id] # None => root'[id] = root[id]]_vars

\* Every creation ends: the search for an id is bounded and nothing waits.
CreationEnds == \A p \in Procs : pc[p] # "idle" ~> pc[p] = "idle"
=============================================================================
