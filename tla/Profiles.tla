------------------------------- MODULE Profiles -------------------------------
(***************************************************************************)
(* The model profiles of sky-agents (profiles.ts) and the editors that     *)
(* list, create, change and delete them through the plugin's RPC.          *)
(*                                                                         *)
(* A profile gives a model to each approved agent.  One file per profile;  *)
(* every operation of the store looks at the file and then acts on what it *)
(* saw, so two editors can come between each other's two steps.            *)
(***************************************************************************)
EXTENDS Naturals, FiniteSets, TLC

CONSTANTS
    Approved,               \* the agents a profile must cover, no more and no less
    Thalam, Scout, Researcher,
    Legacy,                 \* "skynex-orchestrator", the name Thalam had before
    Models,                 \* well-formed model references
    Names,                  \* valid profile names
    MaxProfiles,            \* MAX_PROFILES
    OldProfiles,            \* OldProfiles[n]: the file found under n at the start
    Editors,
    Assignments,            \* what editors assign: partial functions from agents to models
    None

ASSUME ProfileAssumption ==
    /\ {Thalam, Scout, Researcher} \subseteq Approved
    /\ Cardinality({Thalam, Scout, Researcher}) = 3
    /\ Legacy \notin Approved
    /\ MaxProfiles \in Nat
    /\ None \notin Models
    /\ None \notin Names

VARIABLES
    profiles,       \* the document under each name, or None
    editor          \* where each editor's operation stands

profileVars == <<profiles, editor>>

-----------------------------------------------------------------------------
(* A document is what JSON.parse returned: its own name, and its models, a *)
(* partial function whose values need not be well-formed references.       *)

ValidProfile(profile) ==
    /\ profile.name \in Names
    /\ DOMAIN profile.models = Approved
    /\ \A agent \in Approved : profile.models[agent] \in Models

Renamed(models) ==
    IF Legacy \in DOMAIN models
    THEN [agent \in (DOMAIN models \ {Legacy}) \cup {Thalam} |->
            models[IF agent = Thalam THEN Legacy ELSE agent]]
    ELSE models

\* Profiles older than scout: it takes the model of diagnostic-researcher.
Joined(models) ==
    IF Scout \notin DOMAIN models /\ Researcher \in DOMAIN models
    THEN models @@ (Scout :> models[Researcher])
    ELSE models

Normalized(profile) == [profile EXCEPT !.models = Joined(Renamed(@))]

Conflicting(models) == {Legacy, Thalam} \subseteq DOMAIN models

\* What get and list make of a file, or None where they throw.
Decode(document, name) ==
    IF /\ ~Conflicting(document.models)
       /\ document.name = name
       /\ ValidProfile(Normalized(document))
    THEN Normalized(document)
    ELSE None

Present == {name \in Names : profiles[name] # None}

Get(name) == IF profiles[name] = None THEN None ELSE Decode(profiles[name], name)

-----------------------------------------------------------------------------
Idle == [pc |-> "idle", name |-> None, profile |-> None, todo |-> {}, got |-> {}]

ProfilesInit ==
    /\ profiles = OldProfiles
    /\ editor = [e \in Editors |-> Idle]

Continue(e, state) == editor' = [editor EXCEPT ![e] = state]

\* The editor shows the message of the answer and is idle again.
Answer(e) == Continue(e, Idle)

\* list: the names first, then each file; one that cannot be read fails it all.
StartList(e) ==
    /\ editor[e].pc = "idle"
    /\ IF Cardinality(Present) > MaxProfiles
       THEN Answer(e)
       ELSE Continue(e, [Idle EXCEPT !.pc = "listing", !.todo = Present])
    /\ UNCHANGED profiles

ReadListed(e, name) ==
    /\ editor[e].pc = "listing"
    /\ name \in editor[e].todo
    /\ IF Get(name) = None
       THEN Answer(e)
       ELSE Continue(e, [editor[e] EXCEPT !.todo = @ \ {name}, !.got = @ \cup {Get(name)}])
    /\ UNCHANGED profiles

\* The dialog: what was listed is on the screen while other editors go on.
Listed(e) == editor[e].pc = "listing" /\ editor[e].todo = {}

Chosen(profile, models) == [profile EXCEPT !.models = models]

LookToSave(e, profile) ==
    /\ Listed(e)
    /\ IF ValidProfile(profile) /\ profiles[profile.name] = None
       THEN Continue(e, [Idle EXCEPT !.pc = "writing", !.profile = profile])
       ELSE Answer(e)
    /\ UNCHANGED profiles

LookToUpdate(e, listed, models) ==
    /\ Listed(e)
    /\ listed \in editor[e].got
    /\ LET profile == Chosen(listed, models)
       IN  IF ValidProfile(profile) /\ profiles[profile.name] # None
           THEN Continue(e, [Idle EXCEPT !.pc = "writing", !.profile = profile])
           ELSE Answer(e)
    /\ UNCHANGED profiles

LookToRemove(e, listed) ==
    /\ Listed(e)
    /\ listed \in editor[e].got
    /\ IF profiles[listed.name] # None
       THEN Continue(e, [Idle EXCEPT !.pc = "removing", !.name = listed.name])
       ELSE Answer(e)
    /\ UNCHANGED profiles

LeaveDialog(e) == Listed(e) /\ Answer(e) /\ UNCHANGED profiles

\* atomicWrite renames over whatever is there by now.
Write(e) ==
    /\ editor[e].pc = "writing"
    /\ profiles' = [profiles EXCEPT ![editor[e].profile.name] = editor[e].profile]
    /\ Answer(e)

\* A write that fails leaves the file as it is.
FailToWrite(e) ==
    /\ editor[e].pc = "writing"
    /\ Answer(e)
    /\ UNCHANGED profiles

\* unlink: ENOENT when another editor was faster; the file is gone either way.
Unlink(e) ==
    /\ editor[e].pc = "removing"
    /\ profiles' = [profiles EXCEPT ![editor[e].name] = None]
    /\ Answer(e)

\* The dialog offers well-formed references for every agent; the RPC's schema
\* takes any string, and the store is what refuses.
Drafts == [name : Names, models : Assignments]

EditorNext(e) ==
    \/ StartList(e)
    \/ \E name \in Names : ReadListed(e, name)
    \/ \E profile \in Drafts : LookToSave(e, profile)
    \/ \E listed \in editor[e].got, models \in Assignments : LookToUpdate(e, listed, models)
    \/ \E listed \in editor[e].got : LookToRemove(e, listed)
    \/ LeaveDialog(e)
    \/ Write(e)
    \/ FailToWrite(e)
    \/ Unlink(e)
=============================================================================
