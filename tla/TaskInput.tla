------------------------------ MODULE TaskInput ------------------------------
(***************************************************************************)
(* What the task service demands of the texts, checkpoints and instruction *)
(* files a caller hands it, and what parseTask demands of the same texts   *)
(* when it reads them back from task.json.                                 *)
(*                                                                         *)
(* A text is its length and the length that is left when blanks around it  *)
(* are trimmed: no rule looks at anything else.  A checkpoint is a record  *)
(* of what parseCheckpoint tells apart in each of its fields.              *)
(***************************************************************************)
EXTENDS Naturals, Sequences, FiniteSets

CONSTANTS
    MaxTitle,       \* MAX_TITLE_LENGTH
    MaxText,        \* MAX_TEXT_FIELD_LENGTH
    MaxRefs         \* references a checkpoint may list

Absent == "absent"

Text == [raw : Nat, trimmed : Nat]

NonBlank(t) == t.trimmed > 0

-----------------------------------------------------------------------------
(* Texts on their way in. *)

TaskTitleAdmitted(t) == NonBlank(t) /\ t.raw <= MaxTitle

\* assertStepDraft trims the title before it measures it.
StepTitleAdmitted(t) == NonBlank(t) /\ t.trimmed <= MaxTitle

\* Faulty: a field, like a title, is measured without the blanks around it.
FieldMeasuredTrimmed(t) == NonBlank(t) /\ t.trimmed <= MaxText

\* assertTextField, and the rule of transition for a block reason.
FieldAdmitted(t) == NonBlank(t) /\ t.raw <= MaxText

Fields == {"scope", "doneWhen", "expectedEvidence"}

DraftAdmitted(body) == /\ StepTitleAdmitted(body.title)
                       /\ \A f \in Fields : FieldAdmitted(body[f])

-----------------------------------------------------------------------------
(* Texts on their way back: parseStep. *)

TitleReads(body) == NonBlank(body.title) /\ body.title.raw <= MaxTitle

FieldsRead(body) == \A f \in Fields : NonBlank(body[f]) /\ body[f].raw <= MaxText

ReasonReads(reason) == reason.raw <= MaxText

-----------------------------------------------------------------------------
(* parseCheckpoint: a detached copy in one key order, or a refusal. *)

Phases == {"basis", "handoff", "frozen", "final", "interrupted"}

\* What JSON.parse made of the caller's argument; `keys` is the order it had.
RawCheckpoint ==
    [keys : {"canonical", "other", "missing", "unknown"}, version : {1, 2},
     identifiers : BOOLEAN, paths : BOOLEAN, note : BOOLEAN,
     phase : Phases \cup {"other"}, candidate : {Absent, "oid", "bad"},
     reason : {Absent, "text", "bad"}, manifest : {Absent, "ref", "bad"},
     refs : Seq({"a", "b"}), fits : BOOLEAN]

\* A candidate stands alone; without one its manifest and a reason stand in.
CandidateExplained(raw) ==
    IF raw.candidate = "oid" THEN raw.reason = Absent
    ELSE raw.candidate = Absent /\ raw.reason = "text" /\ raw.manifest = "ref"

CheckpointAdmitted(raw) ==
    /\ raw.keys \in {"canonical", "other"}
    /\ raw.version = 1
    /\ raw.identifiers /\ raw.paths /\ raw.note
    /\ raw.phase \in Phases
    /\ raw.manifest # "bad"
    /\ CandidateExplained(raw)
    /\ Len(raw.refs) <= MaxRefs
    /\ \A i, j \in DOMAIN raw.refs : raw.refs[i] = raw.refs[j] => i = j

\* Faulty: the copy keeps the caller's key order, and two spellings of one
\* checkpoint differ.
CanonicalAsGiven(raw) == raw

Canonical(raw) == [raw EXCEPT !.keys = "canonical"]

CheckpointVerdict(raw) ==
    IF ~ CheckpointAdmitted(raw) THEN "INVALID_ARGUMENT"
    ELSE IF ~ raw.fits THEN "FILE_TOO_LARGE" ELSE "OK"

-----------------------------------------------------------------------------
(* readInstructionBody: an instruction is read from an ordinary file inside *)
(* the working directory, reached without symbolic links.                   *)

InstructionFile ==
    [place    : {"inside", "outside", "sensitive"},
     parents  : {"plain", "missing", "linked", "unreadable"},
     entry    : {"file", "missing", "symlink", "directory", "hardlinked", "unreadable"},
     fits     : BOOLEAN]

InstructionVerdict(file) ==
    IF file.place # "inside" \/ file.parents # "plain" THEN "INVALID_PATH"
    ELSE IF file.entry \in {"missing", "unreadable"} THEN "INVALID_ARGUMENT"
    ELSE IF file.entry # "file" THEN "INVALID_PATH"
    ELSE IF ~ file.fits THEN "FILE_TOO_LARGE" ELSE "OK"
=============================================================================
