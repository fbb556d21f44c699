----------------------------- MODULE ProfileApply -----------------------------
(***************************************************************************)
(* Applying a profile to the OpenCode configuration (profile-apply.ts):    *)
(* preview what would change, confirm it, then under a lease read the      *)
(* configuration again, back it up, look once more, and replace it.        *)
(*                                                                         *)
(* Several services run at once, one per process.  People edit the         *)
(* configuration meanwhile, editors change the profiles (Profiles), a      *)
(* process dies anywhere, and any write fails before or after its rename.  *)
(* A digest is equal exactly when what it digests is equal, so a digest is *)
(* written here as that value itself.                                      *)
(***************************************************************************)
EXTENDS Profiles, SequencesExt

CONSTANTS
    Services,
    Configs,        \* the configurations a person writes
    Saved,          \* those of them saved while the services run
    Broken,         \* one that is no JSON object, or whose agents are none
    Unset,          \* an entry without model, or with null
    NotAnObject,    \* what is wrong with an entry, or with its model
    Unmanaged,      \* agents of the configuration that no profile covers
    Contents, Bare, \* what JSON holds beside the models, and where it is nothing
    Notes, NoNotes, \* the comments inside an entry, and where there are none
    Lifetime,       \* how long a confirmation is valid
    MaxTime, MaxEdits, MaxTokens    \* bounds

\* How a call under the lease ends.
Outcomes == {"changed after preview", "unbuildable", "no backup", "applied", "failed", "rollback failed"}

(* The file is text, and JSON lets a member be repeated: `agents` is the    *)
(* sequence of the blocks under that key, a block gives to each key the     *)
(* sequence of its entries, and an entry has a sequence of models, content  *)
(* of its own, and comments.                                                *)
Member == Models \cup {Unset, NotAnObject}

Entries == [models : Seq(Member), own : Contents, notes : Notes]

\* A block's keys, each with one entry or more; one may be no object.
IsBlock(block) ==
    \E keys \in SUBSET (Approved \cup {Legacy} \cup Unmanaged) :
        block \in [keys -> Seq(Entries \cup {NotAnObject}) \ {<<>>}]

IsConfiguration(source) ==
    /\ source = [agents |-> source.agents, rest |-> source.rest]
    /\ source.agents \in Seq(Range(source.agents)) \ {<<>>}
    /\ \A block \in Range(source.agents) : block = NotAnObject \/ IsBlock(block)
    /\ Last(source.agents) # NotAnObject

\* What parse makes of an entry.
Meanings == [model : Member, own : Contents]

ASSUME ApplyAssumption ==
    /\ Lifetime \in Nat
    /\ Saved \subseteq Configs
    /\ Unset \notin Models
    /\ None \notin Outcomes \cup Services
    /\ Bare \in Contents /\ NoNotes \in Notes
    /\ NotAnObject \notin Entries \cup Meanings /\ ~IsBlock(NotAnObject)
    /\ \A content \in Configs : content = Broken \/ IsConfiguration(content)

VARIABLES
    config,         \* the OpenCode configuration file
    lease,          \* the service whose .profile-apply.lock stands, or None
    backups,        \* contents under profile-backups
    confirmations,  \* the confirmations each service still honours
    call,           \* where each service's call stands
    now, edits,
    agreed,         \* history: every confirmation ever given
    spent           \* history: the tokens whose plan was written

applyVars == <<config, lease, backups, confirmations, call, now, edits, agreed, spent>>
vars == <<profileVars, applyVars>>

-----------------------------------------------------------------------------
(* What parse returns: of repeated members, the last.  The agents are then  *)
(* a partial function to entries with one model.                            *)

Meant(entry) ==
    IF entry = NotAnObject THEN NotAnObject
    ELSE [model |-> IF entry.models = <<>> THEN Unset ELSE Last(entry.models), own |-> entry.own]

Agents(source) ==
    LET block == Last(source.agents) IN [key \in DOMAIN block |-> Meant(Last(block[key]))]

WellFormed(agents, agent) == agent \in DOMAIN agents /\ agents[agent] # NotAnObject

BothIdentities(agents) == {Legacy, Thalam} \subseteq DOMAIN agents

\* previewAgents: the legacy entry counts as Thalam's.
Seen(agents) ==
    IF Legacy \in DOMAIN agents
    THEN [agent \in DOMAIN agents \cup {Thalam} |-> agents[IF agent = Thalam THEN Legacy ELSE agent]]
    ELSE agents

\* Faulty: the preview does not look for both identities.
PreviewTolerates(source) ==
    /\ source # Broken
    /\ \A agent \in Approved : WellFormed(Seen(Agents(source)), agent)

PreviewAccepts(source) ==
    /\ source # Broken
    /\ ~BothIdentities(Agents(source))
    /\ \A agent \in Approved :
        /\ WellFormed(Seen(Agents(source)), agent)
        /\ Seen(Agents(source))[agent].model \in Models \cup {Unset}

Differing(current, desired) == {agent \in Approved : current[agent] # desired[agent]}

Plan(profile, source) ==
    LET current == [agent \in Approved |-> Seen(Agents(source))[agent].model]
    IN  [profile |-> profile, source |-> source, current |-> current,
         desired |-> profile.models, changes |-> Differing(current, profile.models)]

\* validateApplyPlan: the plan agrees with itself.
ValidPlan(plan) ==
    /\ ValidProfile(plan.profile)
    /\ plan.desired = plan.profile.models
    /\ plan.changes = Differing(plan.current, plan.desired)

(* modify edits the text, and of repeated members the first: it replaces    *)
(* what is there or adds what is not, and deletes one.                      *)

Others(block, key) == IF key \in DOMAIN block THEN Tail(block[key]) ELSE <<>>

Put(block, key, entry) ==
    [k \in DOMAIN block \cup {key} |-> IF k = key THEN <<entry>> \o Others(block, key) ELSE block[k]]

Drop(block, key) ==
    IF Others(block, key) = <<>> THEN [k \in DOMAIN block \ {key} |-> block[k]]
    ELSE [block EXCEPT ![key] = Tail(@)]

\* JSON.stringify of what was parsed: no comments, nothing repeated.
Rendered(meant) ==
    IF meant = NotAnObject THEN NotAnObject
    ELSE [models |-> <<meant.model>>, own |-> meant.own, notes |-> NoNotes]

\* Faulty: the entry is copied, and the old one stays.
Copied(source) ==
    IF Legacy \in DOMAIN Agents(source)
    THEN [source EXCEPT !.agents[1] = Put(@, Thalam, Rendered(Agents(source)[Legacy]))]
    ELSE source

\* The legacy entry is written again under the new name and deleted.
Moved(source) ==
    IF Legacy \in DOMAIN Agents(source)
    THEN [source EXCEPT !.agents[1] = Drop(Put(@, Thalam, Rendered(Agents(source)[Legacy])), Legacy)]
    ELSE source

SetModel(entry, model) ==
    [entry EXCEPT !.models = <<model>> \o (IF @ = <<>> THEN <<>> ELSE Tail(@))]

First(block, key) ==
    IF key \in DOMAIN block THEN Head(block[key])
    ELSE [models |-> <<>>, own |-> Bare, notes |-> NoNotes]

Modelled(block, desired) ==
    [key \in DOMAIN block \cup Approved |->
        IF key \in Approved THEN <<SetModel(First(block, key), desired[key])>> \o Others(block, key)
        ELSE block[key]]

Built(source, desired) == [Moved(source) EXCEPT !.agents[1] = Modelled(@, desired)]

\* verifyManagedModels, on the text parsed again.
Verified(agents, desired) ==
    \A agent \in Approved : WellFormed(agents, agent) /\ agents[agent].model = desired[agent]

\* buildContent: modify throws where the first member is no object.
BuildRefuses(source, desired) ==
    \/ source = Broken
    \/ BothIdentities(Agents(source))
    \/ source.agents[1] = NotAnObject
    \/ \E agent \in Approved :
        \/ ~WellFormed(Agents(Moved(source)), agent)
        \/ First(Moved(source).agents[1], agent) = NotAnObject
    \/ ~Verified(Agents(Built(source, desired)), desired)

-----------------------------------------------------------------------------
Free == [pc |-> "idle", plan |-> None, token |-> None, begun |-> 0, meddled |-> FALSE, outcome |-> None]

ApplyInit ==
    /\ ProfilesInit
    /\ config \in Configs
    /\ lease = None
    /\ backups = {}
    /\ confirmations = [s \in Services |-> {}]
    /\ call = [s \in Services |-> Free]
    /\ now = 0
    /\ edits = 0
    /\ agreed = {}
    /\ spent = {}

Goto(s, pc) == call' = [call EXCEPT ![s].pc = pc]
End(s, outcome) == call' = [call EXCEPT ![s].pc = "releasing", ![s].outcome = outcome]
Refuse(s) == call' = [call EXCEPT ![s] = Free]

\* preview: reads the profile and the configuration, writes nothing.
Preview(s, name) ==
    /\ call[s].pc = "idle"
    /\ Get(name) # None
    /\ PreviewAccepts(config)
    /\ call' = [call EXCEPT ![s] = [Free EXCEPT !.pc = "shown", !.plan = Plan(Get(name), config)]]
    /\ UNCHANGED <<profileVars, config, lease, backups, confirmations, now, edits, agreed, spent>>

\* The person says no, or only wanted a dry run.
Decline(s) ==
    /\ call[s].pc = "shown"
    /\ Refuse(s)
    /\ UNCHANGED <<profileVars, config, lease, backups, confirmations, now, edits, agreed, spent>>

\* authorize: a random token, valid for one plan for a while.
Authorize(s) ==
    /\ call[s].pc = "shown"
    /\ Cardinality(agreed) < MaxTokens
    /\ LET confirmation == [service |-> s, token |-> Cardinality(agreed) + 1,
                            plan |-> call[s].plan, expires |-> now + Lifetime]
       IN  /\ confirmations' = [confirmations EXCEPT ![s] = @ \cup {confirmation}]
           /\ agreed' = agreed \cup {confirmation}
    /\ Goto(s, "idle")
    /\ UNCHANGED <<profileVars, config, lease, backups, now, edits, spent>>

\* Faulty: the services share what they honour.
HonouredByAny(s, body, digest, token) ==
    /\ \E t \in Services : \E confirmation \in confirmations[t] :
        /\ confirmation.token = token
        /\ confirmation.plan = digest
        /\ confirmation.expires >= now
    /\ ValidPlan(body)
    /\ body = digest

\* apply's first, synchronous part: the token is gone whatever the verdict is.
\* The body may have been altered since the digest the caller sends was shown.
Honoured(s, body, digest, token) ==
    /\ \E confirmation \in confirmations[s] :
        /\ confirmation.token = token
        /\ confirmation.plan = digest
        /\ confirmation.expires >= now
    /\ ValidPlan(body)
    /\ body = digest

Withdraw(s, token) ==
    confirmations' = [confirmations EXCEPT ![s] = {c \in @ : c.token # token}]

Apply(s, body, digest, token) ==
    /\ call[s].pc = "idle"
    /\ Withdraw(s, token)
    /\ IF Honoured(s, body, digest, token)
       THEN call' = [call EXCEPT ![s] = [Free EXCEPT !.pc = "confirmed", !.plan = body,
                                                     !.token = token, !.begun = now]]
       ELSE Refuse(s)
    /\ UNCHANGED <<profileVars, config, lease, backups, now, edits, agreed, spent>>

\* Faulty: the lock file is created or reused.
TakeLeaseAnyway(s) ==
    /\ call[s].pc = "confirmed"
    /\ lease' = s /\ Goto(s, "leased")
    /\ UNCHANGED <<profileVars, config, backups, confirmations, now, edits, agreed, spent>>

\* open(O_EXCL): "Another profile apply is active".
TakeLease(s) ==
    /\ call[s].pc = "confirmed"
    /\ IF lease = None THEN lease' = s /\ Goto(s, "leased")
                       ELSE Refuse(s) /\ UNCHANGED lease
    /\ UNCHANGED <<profileVars, config, backups, confirmations, now, edits, agreed, spent>>

ReadLatest(s) ==
    /\ call[s].pc = "leased"
    /\ \/ config # call[s].plan.source /\ End(s, "changed after preview")
       \/ /\ config = call[s].plan.source
          /\ IF BuildRefuses(config, call[s].plan.desired) THEN End(s, "unbuildable")
                                                           ELSE Goto(s, "backing up")
    /\ UNCHANGED <<profileVars, config, lease, backups, confirmations, now, edits, agreed, spent>>

\* Written, synced, and read back to be compared.
Backup(s) ==
    /\ call[s].pc = "backing up"
    /\ \/ backups' = backups \cup {call[s].plan.source} /\ Goto(s, "backed up")
       \/ End(s, "no backup") /\ UNCHANGED backups
    /\ UNCHANGED <<profileVars, config, lease, confirmations, now, edits, agreed, spent>>

Reread(s) ==
    /\ call[s].pc = "backed up"
    /\ IF config = call[s].plan.source THEN Goto(s, "replacing")
                                       ELSE End(s, "changed after preview")
    /\ UNCHANGED <<profileVars, config, lease, backups, confirmations, now, edits, agreed, spent>>

Result(s) == Built(call[s].plan.source, call[s].plan.desired)

\* write: a temporary file renamed over the configuration.
Replace(s) ==
    /\ call[s].pc = "replacing"
    /\ config' = Result(s)
    /\ spent' = spent \cup {call[s].token}
    /\ End(s, "applied")
    /\ UNCHANGED <<profileVars, lease, backups, confirmations, now, edits, agreed>>

\* It throws before the rename, or after it while the temporary is cleaned up.
ReplaceFails(s) ==
    /\ call[s].pc = "replacing"
    /\ \/ config' = Result(s) /\ spent' = spent \cup {call[s].token}
       \/ UNCHANGED <<config, spent>>
    /\ Goto(s, "rolling back")
    /\ UNCHANGED <<profileVars, lease, backups, confirmations, now, edits, agreed>>

\* Faulty: the error is passed on without putting the file back.
RollbackForgotten(s) ==
    /\ call[s].pc = "rolling back"
    /\ End(s, "failed")
    /\ UNCHANGED <<profileVars, config, lease, backups, confirmations, now, edits, agreed, spent>>

Rollback(s) ==
    /\ call[s].pc = "rolling back"
    /\ config' = call[s].plan.source
    /\ End(s, "failed")
    /\ UNCHANGED <<profileVars, lease, backups, confirmations, now, edits, agreed, spent>>

RollbackFails(s) ==
    /\ call[s].pc = "rolling back"
    /\ config' \in {config, call[s].plan.source}
    /\ End(s, "rollback failed")
    /\ UNCHANGED <<profileVars, lease, backups, confirmations, now, edits, agreed, spent>>

\* finally: an error while the lease is removed is swallowed, and it stays.
Release(s) ==
    /\ call[s].pc = "releasing"
    /\ lease' \in {None, lease}
    /\ Refuse(s)
    /\ UNCHANGED <<profileVars, config, backups, confirmations, now, edits, agreed, spent>>

Crash(s) ==
    /\ call[s].pc # "idle"
    /\ Refuse(s)
    /\ confirmations' = [confirmations EXCEPT ![s] = {}]
    /\ UNCHANGED <<profileVars, config, lease, backups, now, edits, agreed, spent>>

-----------------------------------------------------------------------------
\* A person saves the file in their own editor.
Edit(content) ==
    /\ edits < MaxEdits /\ content # config
    /\ config' = content
    /\ edits' = edits + 1
    /\ call' = [s \in Services |->
                  [call[s] EXCEPT !.meddled = @ \/ call[s].pc \in {"replacing", "rolling back", "releasing"}]]
    /\ UNCHANGED <<profileVars, lease, backups, confirmations, now, agreed, spent>>

HoldsLease(s) == call[s].pc \notin {"idle", "shown", "confirmed"}

\* No code removes the lease of a dead process: a person does.
RemoveStaleLease ==
    /\ lease # None
    /\ ~HoldsLease(lease)
    /\ lease' = None
    /\ UNCHANGED <<profileVars, config, backups, confirmations, call, now, edits, agreed, spent>>

Tick ==
    /\ now < MaxTime
    /\ now' = now + 1
    /\ UNCHANGED <<profileVars, config, lease, backups, confirmations, call, edits, agreed, spent>>

\* What callers send: a plan they were shown, as it was or with the profile of
\* another plan put in, and any token ever issued.
Bodies(digest) ==
    {digest} \cup {[digest EXCEPT !.profile = c.plan.profile, !.desired = c.plan.desired,
                                  !.changes = Differing(digest.current, c.plan.desired)] : c \in agreed}

ApplyNext ==
    \/ \E e \in Editors : EditorNext(e) /\ UNCHANGED applyVars
    \/ \E s \in Services :
        \/ \E name \in Names : Preview(s, name)
        \/ Decline(s)
        \/ Authorize(s)
        \/ \E c, k \in agreed : \E body \in Bodies(c.plan) : Apply(s, body, c.plan, k.token)
        \/ TakeLease(s)
        \/ ReadLatest(s)
        \/ Backup(s)
        \/ Reread(s)
        \/ Replace(s)
        \/ ReplaceFails(s)
        \/ Rollback(s)
        \/ RollbackFails(s)
        \/ Release(s)
        \/ Crash(s)
    \/ \E content \in Saved : Edit(content)
    \/ RemoveStaleLease
    \/ Tick

ApplySpec == ApplyInit /\ [][ApplyNext]_vars

-----------------------------------------------------------------------------
Writes(s) == config' # config /\ call[s].pc \in {"replacing", "rolling back"} /\ call'[s].pc # call[s].pc

(* A plan reaches the file once, and only the plan somebody confirmed, to   *)
(* the service that writes it, before the confirmation ran out: not a       *)
(* second time, not with another profile put in, not after it expired, not  *)
(* with a token of another process.                                         *)
AppliedAsConfirmed ==
    [][\A s \in Services :
        (Writes(s) /\ call[s].pc = "replacing") =>
            /\ call[s].token \notin spent
            /\ \E confirmation \in agreed :
                /\ confirmation.service = s
                /\ confirmation.token = call[s].token
                /\ config' = Built(confirmation.plan.source, confirmation.plan.profile.models)
                /\ call[s].begun <= confirmation.expires]_vars

(* What an apply, or its rollback, writes over is in a backup, or is its   *)
(* own work, or was put there by a person after its last look: never what  *)
(* another apply wrote meanwhile.                                          *)
NothingLost ==
    [][\A s \in Services :
        Writes(s) => \/ config \in backups
                     \/ call[s].meddled
                     \/ config = Result(s)]_vars

(* When a call reports how it ended, the file says the same, unless a      *)
(* person wrote it since: applied, put back, or one of the two.            *)
OutcomeIsTrue ==
    \A s \in Services :
        (call[s].pc = "releasing" /\ ~call[s].meddled) =>
            CASE call[s].outcome = "applied"         -> config = Result(s)
              [] call[s].outcome = "failed"          -> config = call[s].plan.source
              [] call[s].outcome = "rollback failed" -> config \in {Result(s), call[s].plan.source}
              [] OTHER                               -> TRUE

\* Something the preview read and the edit writes stands more than once.
Repeats(source) ==
    \/ Len(source.agents) > 1
    \/ \E agent \in Approved \cap DOMAIN source.agents[1] :
        LET entries == source.agents[1][agent]
        IN  Len(entries) > 1 \/ Len(Head(entries).models) > 1

(* What the preview accepted can be built: after a confirmation, only a     *)
(* change of the file, a lease or a failing disk stop an apply.  Not where  *)
(* a member is repeated: parse reads the last one, modify edits the first,  *)
(* and verifyManagedModels then refuses what the preview showed.            *)
PreviewForesees ==
    \A s \in Services : call[s].outcome = "unbuildable" => Repeats(call[s].plan.source)

\* An entry whose models may differ, in which nothing else does.
OnlyModels(old, new) ==
    IF old = NotAnObject THEN new = NotAnObject ELSE new.own = old.own /\ new.notes = old.notes

(* The file changes as the preview said.  As OpenCode parses it: the listed *)
(* models, from what was listed to what was listed, and the content of the  *)
(* old name under the new one.  As text: every entry a person wrote stays   *)
(* where it is with its comments, repeated ones too; only the old name's    *)
(* first entry goes, and with it what was inside that is no JSON.  Where    *)
(* the old name is repeated, its other entries stay under it.               *)
ChangesAsShown ==
    [][\A s \in Services :
        (Writes(s) /\ call[s].pc = "replacing" /\ ~call[s].meddled) =>
            LET old == Seen(Agents(config))
                new == Agents(config')
                plan == call[s].plan
            IN  /\ config'.rest = config.rest
                /\ DOMAIN new \ {Legacy} = DOMAIN old \ {Legacy}
                /\ Legacy \in DOMAIN new => Len(config.agents[1][Legacy]) > 1
                /\ \A agent \in DOMAIN new \ {Legacy} :
                    IF agent \in plan.changes
                    THEN /\ old[agent].model = plan.current[agent]
                         /\ new[agent] = [old[agent] EXCEPT !.model = plan.profile.models[agent]]
                    ELSE new[agent] = old[agent]
                /\ \A b \in DOMAIN config.agents : \A key \in DOMAIN config.agents[b] \ {Legacy} :
                    \A i \in DOMAIN config.agents[b][key] :
                        OnlyModels(config.agents[b][key][i], config'.agents[b][key][i])]_vars
===============================================================================
