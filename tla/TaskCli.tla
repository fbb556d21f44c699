------------------------------- MODULE TaskCli -------------------------------
(***************************************************************************)
(* `skynex task`: from an argument line to an exit code and, for most      *)
(* commands, a new document.  TaskCommand reads the line, TaskInput judges *)
(* what its words stand for, TaskAtomic says what the service makes of the *)
(* request; this module is runTaskCommand, which puts them together, and   *)
(* the answers of the service that save nothing.                           *)
(*                                                                         *)
(* A step's body is the record of its four texts.                          *)
(***************************************************************************)
EXTENDS TaskAtomic, TaskInput, TaskCommand, TaskProjection

CONSTANTS
    Lines,              \* the argument lines typed
    TaskHere,           \* the word that names this task
    MalformedIds,       \* words that are no slug
    Unsluggable,        \* titles no slug can be derived from
    StepNamed,          \* word -> the step it names; other words are no step id
    NumberNamed,        \* word -> the positive integer it spells
    PairNamed,          \* word -> the key and the value it assigns; others assign none
    CheckpointNamed,    \* word -> the raw checkpoint it spells; others are no JSON
    FileNamed,          \* word -> the instruction file at that path
    TextOf              \* word -> its text, where it is not an ordinary one

Meaning(map, word, default) == IF word \in DOMAIN map THEN map[word] ELSE default

OrdinaryText == [raw |-> 1, trimmed |-> 1]

TextFor(word) == Meaning(TextOf, word, OrdinaryText)

Texts == {OrdinaryText} \cup {TextOf[w] : w \in DOMAIN TextOf}

\* A word is no punctuation of the shell; one that spells a checkpoint, JSON, is
\* no flag, no id, no number and no word of a command.
ASSUME CliAssumption ==
    /\ \A argv \in Lines : argv \in Seq(STRING) /\ ToSet(argv) \cap (Separators \cup Unread) = {}
    /\ {StepNamed[w] : w \in DOMAIN StepNamed} \subseteq Nat \ {NoStep}
    /\ {CheckpointNamed[w] : w \in DOMAIN CheckpointNamed} \subseteq RawCheckpoint
    /\ {FileNamed[w] : w \in DOMAIN FileNamed} \subseteq InstructionFile
    /\ {TextOf[w] : w \in DOMAIN TextOf} \subseteq Text
    /\ DOMAIN CheckpointNamed \cap
           (UNION ({Dashed, DOMAIN StepNamed, DOMAIN NumberNamed, DOMAIN TextOf, MalformedIds, {TaskHere, Absent}}
                       \cup {ToSet(c) : c \in Commands})) = {}

\* What the words stand for is among what the service deals with, and createTask
\* put the drafts a task starts from through assertStepDraft.
ASSUME VocabularyAssumption ==
    /\ \A draft \in Drafts : DraftAdmitted(draft.body)
    /\ [title : Texts, scope : Texts, doneWhen : Texts, expectedEvidence : Texts] \subseteq Bodies
    /\ {text \in Texts : FieldAdmitted(text)} \subseteq Reasons
    /\ {NumberNamed[w] : w \in DOMAIN NumberNamed} \subseteq Revisions
    /\ \A w \in DOMAIN CheckpointNamed :
           CheckpointVerdict(CheckpointNamed[w]) = "OK" => Canonical(CheckpointNamed[w]) \in Checkpoints

-----------------------------------------------------------------------------
(* Reading the document: a command starts from a task.json that parses. *)

StepReads(step) ==
    /\ TitleReads(step.body)
    /\ FieldsRead(step.body)
    /\ step.blockReason # NoReason => ReasonReads(step.blockReason)

ReadsBack(doc) == StructureParses(doc) /\ \A s \in DOMAIN doc.steps : StepReads(doc.steps[s])

\* What the store says of an id.
Stored(id) ==
    IF id \in MalformedIds THEN "INVALID_ARGUMENT"
    ELSE IF id # TaskHere THEN "TASK_NOT_FOUND"
    ELSE "OK"

\* Which task the line is about.
Selected(words) ==
    LET id == LastValue(words, "--task", Absent)
    IN  IF id = Absent THEN "NO_ACTIVE_TASK" ELSE Stored(id)

\* The first code that is not OK, in the order the checks are made.
FirstRefusal(codes) ==
    LET refusals == {i \in DOMAIN codes : codes[i] # "OK"}
    IN  IF refusals = {} THEN "OK" ELSE codes[FirstOf(refusals)]

Demand(condition) == IF condition THEN "OK" ELSE "INVALID_ARGUMENT"

-----------------------------------------------------------------------------
(* The options several commands share. *)

RevisionSpelled(words) ==
    LET word == LastValue(words, "--expected-revision", Absent)
    IN  word = Absent \/ word \in DOMAIN NumberNamed

Expected(words) ==
    Meaning(NumberNamed, LastValue(words, "--expected-revision", Absent), NoRevision)

GivenCheckpoint(words) == LastValue(words, "--checkpoint", Absent)

CheckpointSpelled(words) ==
    LET word == GivenCheckpoint(words)
    IN  IF word = Absent THEN "OK"
        ELSE IF word \in DOMAIN CheckpointNamed THEN CheckpointVerdict(CheckpointNamed[word])
        ELSE "INVALID_ARGUMENT"

Attached(words) ==
    LET word == GivenCheckpoint(words)
    IN  IF word = Absent THEN NoCheckpoint ELSE Canonical(CheckpointNamed[word])

NamedStep(word) == Meaning(StepNamed, word, NoStep)

-----------------------------------------------------------------------------
(* What each command makes of its words: a request, or a refusal made before *)
(* the task is opened.                                                       *)

Asking(code, request) == IF code = "OK" THEN [code |-> code, request |-> request] ELSE [code |-> code]

Reason(words) == LastValue(words, "--reason", Absent)

AskStep(op, words) ==
    LET code == FirstRefusal(
            <<Demand(Len(Positionals(words)) = 1 /\ RevisionSpelled(words)),
              CheckpointSpelled(words),
              Demand(op = "block" =>
                         Reason(words) # Absent /\ FieldAdmitted(TextFor(Reason(words)))),
              Selected(words)>>)
    IN  Asking(code, [op         |-> op,
                      step       |-> NamedStep(Positionals(words)[1]),
                      reason     |-> IF op = "block" THEN TextFor(Reason(words)) ELSE NoReason,
                      checkpoint |-> Attached(words),
                      expected   |-> Expected(words)])

Body(words) ==
    [title            |-> TextFor(Positionals(words)[1]),
     scope            |-> TextFor(LastValue(words, "--scope", Absent)),
     doneWhen         |-> TextFor(LastValue(words, "--done-when", Absent)),
     expectedEvidence |-> TextFor(LastValue(words, "--evidence", Absent))]

\* What the command asks of its options before it reads the instruction file.
AddComplete(words) ==
    /\ Len(Positionals(words)) = 1
    /\ NonBlank(TextFor(Positionals(words)[1]))
    /\ \A flag \in {"--scope", "--done-when", "--evidence"} : ValuesOf(words, flag) # <<>>
    /\ Len(ValuesOf(words, "--parent")) <= 1
    /\ ValuesOf(words, "--instruction-file") = <<>> \/ ValuesOf(words, "--instruction") = <<>>

InstructionRead(words) ==
    LET word == LastValue(words, "--instruction-file", Absent)
    IN  IF word = Absent THEN "OK" ELSE InstructionVerdict(FileNamed[word])

\* The task is looked up by name after the draft is checked, unless none is named.
AskAdd(words) ==
    LET steps == ValuesOf(words, "--depends-on") \o ValuesOf(words, "--parent")
        code  == IF ~ AddComplete(words) THEN "INVALID_ARGUMENT"
                 ELSE FirstRefusal(
            <<InstructionRead(words),
              Demand(RevisionSpelled(words)),
              IF Selected(words) = "NO_ACTIVE_TASK" THEN "NO_ACTIVE_TASK" ELSE "OK",
              Demand(DraftAdmitted(Body(words)) /\ ToSet(steps) \subseteq DOMAIN StepNamed),
              Selected(words)>>)
    IN  Asking(code, [op       |-> "add",
                      draft    |-> [body      |-> Body(words),
                                    parent    |-> NamedStep(LastValue(words, "--parent", Absent)),
                                    dependsOn |-> {NamedStep(word) :
                                                      word \in ToSet(ValuesOf(words, "--depends-on"))}],
                      expected |-> Expected(words)])

AskCheckpoint(words) ==
    LET code == FirstRefusal(
            <<Demand(Positionals(words) = <<>>), CheckpointSpelled(words),
              Demand(GivenCheckpoint(words) # Absent /\ RevisionSpelled(words)), Selected(words)>>)
    IN  Asking(code, [op |-> "checkpoint", checkpoint |-> Attached(words), expected |-> Expected(words)])

ReviewKeys == {"security"}

Patch(pairs) ==
    [key \in {PairNamed[w].key : w \in ToSet(pairs)} |->
        PairNamed[CHOOSE w \in ToSet(pairs) : PairNamed[w].key = key].value]

PatchAdmitted(patch) ==
    /\ DOMAIN patch \subseteq ReviewKeys
    /\ \A key \in DOMAIN patch : patch[key] \in ReviewMode

\* At least one assignment, and no key twice.
PatchSpelled(pairs) ==
    /\ pairs # <<>> /\ ToSet(pairs) \subseteq DOMAIN PairNamed
    /\ IsInjective([i \in DOMAIN pairs |-> PairNamed[pairs[i]].key])
    /\ PatchAdmitted(Patch(pairs))

AskReviews(words) ==
    LET pairs == Positionals(words)
        code  == FirstRefusal(
            <<Demand(PatchSpelled(pairs)), Demand(RevisionSpelled(words)), Selected(words)>>)
    IN  Asking(code, [op |-> "reviews", security |-> Patch(pairs)["security"], expected |-> Expected(words)])

AskInit(words) ==
    LET titles == Positionals(words)
    IN  Asking(IF Len(titles) # 1 THEN "INVALID_ARGUMENT"
               ELSE FirstRefusal(
                   <<Demand(LastValue(words, "--security", "auto") \in ReviewMode),
                     Demand(TaskTitleAdmitted(TextFor(titles[1]))),
                     IF titles[1] \in Unsluggable THEN "INVALID_SLUG" ELSE "OK">>),
               [op |-> "init"])

AskShow(words) ==
    Asking(FirstRefusal(<<Demand(Len(Positionals(words)) <= 1), Selected(words)>>),
           IF Positionals(words) = <<>> THEN [op |-> "showNext"]
           ELSE [op |-> "show", step |-> NamedStep(Positionals(words)[1])])

AskRead(words) ==
    Asking(FirstRefusal(<<Demand(Positionals(words) = <<>>), Selected(words)>>), [op |-> "read"])

AskList(words) == Asking(Demand(Positionals(words) = <<>>), [op |-> "list"])

Ask(argv) ==
    LET command == ResolveCommand(argv)
        words   == WordsAfter(command, argv)
        reading == Reading(argv)
    IN  IF reading = "help" THEN [code |-> "OK", request |-> [op |-> "help"]]
        ELSE IF reading # "run" THEN [code |-> reading]
        ELSE CASE command = <<"init">> -> AskInit(words)
               [] command = <<"list">> -> AskList(words)
               [] command \in {<<"status">>, <<"checkpoint", "show">>} -> AskRead(words)
               [] command = <<"next", "show">> -> AskShow(words)
               [] command = <<"next", "add">> -> AskAdd(words)
               [] command = <<"reviews", "set">> -> AskReviews(words)
               [] command = <<"checkpoint", "set">> -> AskCheckpoint(words)
               [] OTHER -> AskStep(command[2], words)

Asked == [argv \in Lines |-> Ask(argv)]

\* What the lines that are not refused at once ask for.
RequestsOf(lines) == {Asked[argv].request : argv \in {l \in lines : Asked[l].code = "OK"}}

Requests == RequestsOf(Lines)

-----------------------------------------------------------------------------
(* What the service answers to a request about the document it opened. *)

Fence(doc, r) == IF RevisionMatches(doc, r) THEN "OK" ELSE "REVISION_CONFLICT"

Find(doc, step) == IF step \in DOMAIN doc.steps THEN "OK" ELSE "STEP_NOT_FOUND"

\* Faulty: a start or a block finds nothing to do in a step that is done.
TransitionForgiving(doc, r) == FirstRefusal(<<Fence(doc, r), Find(doc, r.step)>>)

TransitionVerdict(doc, r) ==
    FirstRefusal(<<Fence(doc, r), Find(doc, r.step),
                   Demand(r.step \in DOMAIN doc.steps => ~ IsDone(doc.steps, r.step))>>)

\* A done step without a new checkpoint is done whatever revision is expected.
DoneVerdict(doc, r) ==
    LET nothing == /\ r.step \in DOMAIN doc.steps
                   /\ IsDone(doc.steps, r.step) /\ ~ CheckpointChanged(doc, r.checkpoint)
    IN  FirstRefusal(<<IF r.checkpoint = NoCheckpoint THEN "OK" ELSE Fence(doc, r),
                       Find(doc, r.step),
                       IF nothing THEN "OK" ELSE Fence(doc, r)>>)

AddVerdict(doc, r) ==
    FirstRefusal(<<Demand(AcceptsAdd(doc, [r EXCEPT !.expected = NoRevision])), Fence(doc, r)>>)

Mutations == {"start", "block", "done", "add", "checkpoint", "reviews"}

Verdict(doc, r) ==
    CASE r.op \in {"help", "init", "list"} -> "OK"
      [] OTHER ->
          IF ~ ReadsBack(doc) THEN "INVALID_ARGUMENT"
          ELSE CASE r.op = "read"               -> "OK"
                 [] r.op = "show"               -> Find(doc, r.step)
                 [] r.op = "showNext"           -> Find(doc, ComputeNextStepId(doc.steps))
                 [] r.op \in {"start", "block"} -> TransitionVerdict(doc, r)
                 [] r.op = "done"               -> DoneVerdict(doc, r)
                 [] r.op = "add"                -> AddVerdict(doc, r)
                 [] OTHER                       -> Fence(doc, r)

\* serializeTask refuses to write a checkpoint under the first schema.
Serializes(doc) == doc.schemaVersion = 2 \/ doc.checkpoint = NoCheckpoint

\* The document a request saves, if it saves one.
Saved(doc, r) ==
    IF Verdict(doc, r) = "OK" /\ r.op \in Mutations /\ Accepts(doc, r)
    THEN {after \in {Result(doc, r)} : Serializes(after)}
    ELSE {}

ExitCode(code) ==
    CASE code = "OK" -> 0
      [] code = "INVALID_ARGUMENT" -> 2
      [] code \in {"NO_ACTIVE_TASK", "TASK_NOT_FOUND", "STEP_NOT_FOUND"} -> 3
      [] code = "REVISION_CONFLICT" -> 4
      [] code \in {"INVALID_PATH", "FILE_TOO_LARGE", "INVALID_SLUG"} -> 5

-----------------------------------------------------------------------------
(* Only lines that save change the document. *)

RunTaskCommand(r) ==
    /\ task.revision < MaxRevision
    /\ task' \in Saved(task, r)

CliNext == \E r \in Requests : RunTaskCommand(r)

CliSpec == Init /\ [][CliNext]_task

-----------------------------------------------------------------------------
(* Correctness. *)

\* The step title alone is measured without the blanks around it when a draft
\* is admitted, and with them when the document is read.
PaddedTitle(title) == StepTitleAdmitted(title) /\ ~ (title.raw <= MaxTitle)

ReadsButForBlanks(step) ==
    /\ TitleReads(step.body) \/ PaddedTitle(step.body.title)
    /\ FieldsRead(step.body)
    /\ step.blockReason # NoReason => ReasonReads(step.blockReason)

\* parseTask rejects no document for anything but a step title with blanks that
\* take it past the limit: whatever lines are typed, what the commands admit,
\* in one rule set, is what the next command reads back by another.
SavesReadBack ==
    /\ StructureParses(task)
    /\ \A s \in DOMAIN task.steps : ReadsButForBlanks(task.steps[s])

\* A line in the middle of a shell call, and one whose output is redirected.
Call(argv) == <<"cd", ";", "skynex", "task">> \o argv \o <<"&", "&", "ls">>
Redirected(argv) == <<"skynex", "task">> \o argv \o <<"redirection">>

\* The lines that the plugin's lexer misses in a call all of whose characters it
\* reads.  It gives up on any call that redirects or expands, whatever it runs.
Missed ==
    {argv \in Lines : \E call \in {Call(argv), Redirected(argv)} :
                         ToSet(call) \cap Unread = {} /\ ~ MutatesTask(call)}

\* In a list of commands without redirection or expansion the sidebar misses no
\* save: if a line of it saves, the plugin's own lexer takes the call for a
\* mutation.  The two tell flags, values and help apart by different code.
SavesAreRecognised ==
    \A r \in RequestsOf(Missed) : r.op # "init" /\ Saved(task, r) = {}

Repeatable == {"start", "block", "done", "checkpoint"}

\* A line with its checkpoint in canonical key order, if its keys are the right ones.
Sense(argv) ==
    [i \in DOMAIN argv |->
        IF argv[i] \in DOMAIN CheckpointNamed /\ CheckpointNamed[argv[i]].keys \in {"canonical", "other"}
        THEN <<"checkpoint", [CheckpointNamed[argv[i]] EXCEPT !.keys = "canonical"]>>
        ELSE <<"word", argv[i]>>]

\* What a repeatable line asks for, and what a line asks for that differs from it
\* at most in the key order of its checkpoint.
Respelled ==
    LET lines == {argv \in Lines : Asked[argv].code = "OK" /\ Asked[argv].request.op \in Repeatable}
    IN  UNION {{[first |-> Asked[argv].request, again |-> Asked[again]] :
                      again \in {l \in Lines : Sense(l) = Sense(argv)}} : argv \in lines}

\* An agent that lost the answer may run its command again: the second run of a
\* transition or of a checkpoint finds nothing to change, however the caller
\* spells the checkpoint this time, and it is no conflict either unless the
\* caller insists on a revision.
RetryIsHarmless ==
    \A run \in Respelled :
        /\ run.again.code = "OK"
        /\ \A after \in Saved(task, run.first) :
              /\ Saved(after, run.again.request) = {}
              /\ run.first.expected = NoRevision => Verdict(after, run.again.request) = "OK"

\* What a request asks for holds in the document.
Holds(doc, r) ==
    /\ r.op \in {"start", "block"} => /\ doc.steps[r.step].status = TargetStatus(r)
                                      /\ doc.steps[r.step].blockReason = r.reason
    /\ r.op = "done" => IsDone(doc.steps, r.step)
    /\ r.op \in Repeatable => r.checkpoint \in {NoCheckpoint, doc.checkpoint}
    /\ r.op = "reviews" => doc.security = r.security

\* Exit code 0 means that what the line asked for holds now, whether the
\* command saved or found it so, and that a save met the revision it expected.
ExitTellsTheTruth ==
    \A r \in Requests :
        ExitCode(Verdict(task, r)) = 0 =>
            /\ \A after \in IF Saved(task, r) = {} THEN {task} ELSE Saved(task, r) : Holds(after, r)
            /\ Saved(task, r) # {} => r.expected \in {NoRevision, task.revision}

\* The sidebar shows a task that reads back as it is, whatever commands made of
\* it: the reduction is accepted at the RPC, every step has one row unless the
\* step over it is folded, nothing is pending exactly when the task is done, and
\* one open step is in bold as long as there is one.
SidebarTellsTheTask ==
    LET p    == Reduced(task)
        open == {s \in DOMAIN task.steps : ~ IsDone(task.steps, s)}
    IN  ReadsBack(task) =>
        /\ Accepted(p)
        /\ \A folded \in SUBSET Foldable(p) :
              /\ IsInjective(Rows(p, folded))
              /\ ToSet(Rows(p, folded)) = {s \in DOMAIN task.steps : task.steps[s].parent \notin folded}
        /\ task.steps # <<>> => (Pending(p) = 0 <=> task.status = "done")
        /\ IF open = {} THEN Active(p) = NoStep ELSE Active(p) \in open
        /\ task.status = "blocked" <=> p.blockers # {}

\* Every document a command saves can be opened by the next command.
SavedTaskOpens == ReadsBack(task)
=============================================================================
