------------------------------ MODULE TaskSidebar ------------------------------
(***************************************************************************)
(* The server half of the task sidebar: the snapshot of a session's task   *)
(* that the skynex-tasks plugin keeps in the host's storage.               *)
(*                                                                         *)
(* The agent binds the session to a task, or clears the binding, with the  *)
(* tool skynex_task_update; a shell command that changes a task makes the  *)
(* execute.after hook refresh the snapshot; the terminal polls it with     *)
(* getSessionTask; and before a security subagent runs, the execute.before *)
(* hook asks the CLI whether the task wants that review.  Each of these calls is a coroutine: every await is a   *)
(* place where the others run.  They share the Map inFlight (the one       *)
(* status read under way), the Map mutations (the last hook in line) and   *)
(* the Set refreshed, for one session key here: keys share nothing.        *)
(*                                                                         *)
(* External, as the code uses them: the storage performs one operation at  *)
(* a time and answers in that order, so an operation and the continuation  *)
(* of its await are one step; the CLI answers a status read with the task  *)
(* as it was at some moment of the read, or fails within its time limit.   *)
(* A task's contents are its version, 0 standing for the placeholder that  *)
(* only knows the id.                                                      *)
(***************************************************************************)
EXTENDS Naturals

CONSTANTS
    Calls,          \* calls of the plugin's four handlers, one each
    Tasks,
    NoTask,         \* no binding
    NoCall,         \* no entry in a Map
    Off,            \* the versions with reviews.security = off
    MaxVersion,     \* bound on the versions of a task
    MaxRestarts     \* bound on the restarts of the host's server

ASSUME SidebarAssumption ==
    /\ NoTask \notin Tasks
    /\ NoCall \notin Calls
    /\ Off \subseteq 1..MaxVersion
    /\ MaxVersion \in Nat \ {0}
    /\ MaxRestarts \in Nat

VARIABLES
    version,        \* the tasks as the CLI keeps them
    stored,         \* the snapshot in ctx.storage
    inFlight,       \* the call whose status read is registered as under way
    mutations,      \* the last execute.after call in line
    refreshed,      \* whether this server has started a read for the key
    call,           \* the calls
    restarts,
    wanted,         \* history: the binding the last skynex_task_update asked for
    bindings,       \* history: how often that binding changed
    overtaken,      \* history: whether a read was stored after it was overtaken
    missed          \* history: whether this server lost a change (see below)

code == <<stored, inFlight, mutations, refreshed, call>>
vars == <<version, code, restarts, wanted, bindings, overtaken, missed>>

Snapshot == [task : Tasks \cup {NoTask}, version : 0..MaxVersion]

NoSnapshot == [task |-> NoTask, version |-> 0]

\* The summary of a version of task t; bound(t), the placeholder, is Summary(t, 0).
Summary(t, v) == [task |-> t, version |-> v]

\* What skynex_task_update may be given: null, {id}, or a summary the agent has
\* read at some time.
Publication == {NoSnapshot} \cup UNION {{Summary(t, v) : v \in 0..version[t]} : t \in Tasks}

\* A call: `kind` and `pc` say where it is; `asked` is what it publishes, the
\* change its command made, or the task as it was when the gate was asked; `seen` the snapshot it read; `previous` and `reading`
\* the promises a hook waits for; `entry` the read whose end it awaits; `taskId`,
\* `read` and `since` the task of its own read, its answer, and `bindings` then.
NewCall == [kind |-> "none", pc |-> "idle", asked |-> NoSnapshot, seen |-> NoSnapshot,
            previous |-> NoCall, reading |-> NoCall, entry |-> NoCall,
            taskId |-> NoTask, read |-> 0, since |-> 0]

Init ==
    /\ version = [t \in Tasks |-> 1]
    /\ stored \in {NoSnapshot} \cup {Summary(t, v) : t \in Tasks, v \in 0..1}
    /\ inFlight = NoCall
    /\ mutations = NoCall
    /\ refreshed = FALSE
    /\ call = [c \in Calls |-> NewCall]
    /\ restarts = 0
    /\ wanted = stored.task
    /\ bindings = 0
    /\ overtaken = FALSE
    /\ missed = FALSE

unchangedHistory == UNCHANGED <<wanted, bindings, overtaken, missed>>
unchangedShared == UNCHANGED <<stored, inFlight, mutations, refreshed>>

Set(c, me) == call' = [call EXCEPT ![c] = me]

-----------------------------------------------------------------------------
(* refresh(key, taskId): one status read, that the later ones of the same task *)
(* share while it is registered.                                               *)

\* The read that call e has started is over, whatever came of it.
Over(e) == call[e].pc \notin {"reading", "answered", "checked"}

Underway(t) == inFlight # NoCall /\ call[inFlight].taskId = t

Adopt(c, t, me) ==
    /\ Underway(t)
    /\ Set(c, [me EXCEPT !.pc = "adopting", !.entry = inFlight])
    /\ UNCHANGED <<inFlight, refreshed>>

StartRead(c, t, me) ==
    /\ ~Underway(t)
    /\ Set(c, [me EXCEPT !.pc = "reading", !.entry = c, !.taskId = t, !.since = bindings'])
    /\ inFlight' = c
    /\ refreshed' = TRUE

Refresh(c, t, me) == Adopt(c, t, me) \/ StartRead(c, t, me)

\* A call that has answered: only what the properties look at is kept.
Answered(c) == [NewCall EXCEPT !.pc = "done", !.kind = call[c].kind, !.entry = call[c].entry,
                               !.taskId = call[c].taskId, !.read = call[c].read,
                               !.asked = IF call[c].kind = "after" THEN call[c].asked ELSE @]

\* What a call does once the read it awaits is over: a poll reads the storage
\* again, the others answer; a hook takes itself out of the line.
Resumed(c) == IF call[c].kind = "poll" THEN [call[c] EXCEPT !.pc = "reread"] ELSE Answered(c)
Unlined(c) == IF mutations = c THEN NoCall ELSE mutations

\* refresh's finally
EndRead(c) ==
    /\ Set(c, Resumed(c))
    /\ inFlight' = IF inFlight = c THEN NoCall ELSE inFlight
    /\ mutations' = Unlined(c)
    /\ UNCHANGED <<version, refreshed, restarts, wanted, bindings>>

\* The CLI reads the task.
CliReads(c) ==
    /\ call[c].pc = "reading"
    /\ Set(c, [call[c] EXCEPT !.pc = "answered", !.read = version[call[c].taskId]])
    /\ unchangedShared /\ unchangedHistory
    /\ UNCHANGED <<version, restarts>>

\* It fails, runs out of time, its answer is not a valid projection of the task, or
\* the storage fails: the published snapshot is kept.
ReadFails(c) ==
    /\ call[c].pc \in {"reading", "answered", "checked"}
    /\ EndRead(c)
    /\ missed' = TRUE
    /\ UNCHANGED <<stored, overtaken>>

\* Faulty: the answer is stored whatever the session is bound to.
CheckNothing(c) ==
    /\ call[c].pc = "answered"
    /\ Set(c, [call[c] EXCEPT !.pc = "checked"])
    /\ unchangedShared /\ unchangedHistory
    /\ UNCHANGED <<version, restarts>>

\* storedTask(key)
Check(c) ==
    /\ call[c].pc = "answered"
    /\ stored.task = call[c].taskId
    /\ Set(c, [call[c] EXCEPT !.pc = "checked"])
    /\ unchangedShared /\ unchangedHistory
    /\ UNCHANGED <<version, restarts>>

Discard(c) ==
    /\ call[c].pc = "answered"
    /\ stored.task # call[c].taskId
    /\ EndRead(c)
    /\ UNCHANGED <<stored, overtaken, missed>>

\* Since c started its read, another read took its place or the binding changed.
Overtaken(c) == inFlight # c \/ call[c].since # bindings

\* ctx.storage.set
Store(c) ==
    /\ call[c].pc = "checked"
    /\ stored' = Summary(call[c].taskId, call[c].read)
    /\ EndRead(c)
    /\ overtaken' = (overtaken \/ Overtaken(c))
    /\ UNCHANGED missed

AdoptedReadEnds(c) ==
    /\ call[c].pc = "adopting"
    /\ Over(call[c].entry)
    /\ Set(c, Resumed(c))
    /\ mutations' = Unlined(c)
    /\ unchangedHistory
    /\ UNCHANGED <<version, stored, inFlight, refreshed, restarts>>

-----------------------------------------------------------------------------
(* skynex_task_update                                                          *)

\* keyFor and the first storage operation that follows it are awaited one after
\* the other and nothing is read between them.
Update(c, p) ==
    /\ call[c].pc = "idle"
    /\ p \in Publication
    /\ Set(c, [call[c] EXCEPT !.kind = "update", !.asked = p,
                 !.pc = IF p = NoSnapshot THEN "clear"
                        ELSE IF p.version = 0 THEN "lookup" ELSE "publish"])
    /\ unchangedShared /\ unchangedHistory
    /\ UNCHANGED <<version, restarts>>

Rebind(t) ==
    /\ wanted' = t
    /\ bindings' = IF t = wanted THEN bindings ELSE bindings + 1

Clear(c) ==
    /\ call[c].pc = "clear"
    /\ stored' = NoSnapshot
    /\ Rebind(NoTask)
    /\ Set(c, Answered(c))
    /\ UNCHANGED <<version, inFlight, mutations, refreshed, restarts, overtaken, missed>>

\* A publication of the id alone keeps what is stored of the same task; when the
\* storage cannot be read it knows nothing.
Lookup(c) ==
    /\ call[c].pc = "lookup"
    /\ \E seen \in {stored, NoSnapshot} :
          Set(c, [call[c] EXCEPT !.pc = "publish", !.seen = seen])
    /\ unchangedShared /\ unchangedHistory
    /\ UNCHANGED <<version, restarts>>

\* Faulty: a publication is stored and not refreshed.
PublishAsGiven(c) ==
    LET t == call[c].asked.task
    IN  /\ call[c].pc = "publish"
        /\ stored' = IF call[c].asked.version = 0 /\ call[c].seen.task = t
                     THEN call[c].seen ELSE call[c].asked
        /\ Rebind(t)
        /\ Set(c, Answered(c))
        /\ UNCHANGED <<version, inFlight, mutations, refreshed, restarts, overtaken, missed>>

Publish(c) ==
    LET t == call[c].asked.task
    IN  /\ call[c].pc = "publish"
        /\ stored' = IF call[c].asked.version = 0 /\ call[c].seen.task = t
                     THEN call[c].seen ELSE call[c].asked
        /\ Rebind(t)
        /\ Refresh(c, t, call[c])
        /\ UNCHANGED <<version, mutations, restarts, overtaken, missed>>

\* The session is another project's, the host or the storage fails, or the tool
\* call is aborted: the call throws and nothing is written.
Refuse(c) ==
    /\ call[c].pc \in {"clear", "lookup", "publish", "after", "poll", "reread"}
    /\ Set(c, Answered(c))
    /\ missed' = (missed \/ call[c].kind = "after")
    /\ UNCHANGED <<version, stored, inFlight, mutations, refreshed, restarts,
                   wanted, bindings, overtaken>>

-----------------------------------------------------------------------------
(* execute.after                                                               *)

\* A shell command changes task t; the hook runs when the command has ended.
ShellMutates(c, t) ==
    /\ call[c].pc = "idle"
    /\ version[t] < MaxVersion
    /\ version' = [version EXCEPT ![t] = @ + 1]
    /\ Set(c, [call[c] EXCEPT !.kind = "after", !.pc = "after", !.asked = Summary(t, version'[t])])
    /\ unchangedShared /\ unchangedHistory
    /\ UNCHANGED restarts

\* Nothing is assigned: nothing to refresh.
NothingBound(c) ==
    /\ call[c].pc = "after"
    /\ stored = NoSnapshot
    /\ Set(c, Answered(c))
    /\ unchangedShared /\ unchangedHistory
    /\ UNCHANGED <<version, restarts>>

\* Faulty: the hook registers before it looks who is in front of it.
LineBehindItself(c) ==
    /\ call[c].pc = "after"
    /\ stored # NoSnapshot
    /\ Set(c, [call[c] EXCEPT !.pc = "queued", !.seen = stored,
                 !.previous = c, !.reading = inFlight])
    /\ mutations' = c
    /\ unchangedHistory
    /\ UNCHANGED <<version, stored, inFlight, refreshed, restarts>>

\* refreshMutation takes its place in the line, behind the hook before it and the
\* read under way.
Line(c) ==
    /\ call[c].pc = "after"
    /\ stored # NoSnapshot
    /\ Set(c, [call[c] EXCEPT !.pc = "queued", !.seen = stored,
                 !.previous = mutations, !.reading = inFlight])
    /\ mutations' = c
    /\ unchangedHistory
    /\ UNCHANGED <<version, stored, inFlight, refreshed, restarts>>

\* Faulty: the hook does not wait for the read under way.
WaitedForHooks(c) ==
    \A h \in {call[c].previous} \ {NoCall} : call[h].pc = "done"

Waited(c) ==
    /\ \A h \in {call[c].previous} \ {NoCall} : call[h].pc = "done"
    /\ \A e \in {call[c].reading} \ {NoCall} : Over(e)

RefreshAfterMutation(c) ==
    /\ call[c].pc = "queued"
    /\ Waited(c)
    /\ unchangedHistory
    /\ Refresh(c, call[c].seen.task, call[c])
    /\ UNCHANGED <<version, stored, mutations, restarts>>

-----------------------------------------------------------------------------
(* getSessionTask                                                              *)

Poll(c) ==
    /\ call[c].pc = "idle"
    /\ Set(c, [call[c] EXCEPT !.kind = "poll", !.pc = "poll"])
    /\ unchangedShared /\ unchangedHistory
    /\ UNCHANGED <<version, restarts>>

\* The stored snapshot answers when there is none to read, or it has been
\* refreshed and no read is under way.
AnswerFromStorage(c) ==
    /\ call[c].pc = "poll"
    /\ stored = NoSnapshot \/ (refreshed /\ inFlight = NoCall)
    /\ Set(c, Answered(c))
    /\ unchangedShared /\ unchangedHistory
    /\ UNCHANGED <<version, restarts>>

RefreshForPoll(c) ==
    /\ call[c].pc = "poll"
    /\ stored # NoSnapshot
    /\ ~refreshed \/ inFlight # NoCall
    /\ unchangedHistory
    /\ Refresh(c, stored.task, call[c])
    /\ UNCHANGED <<version, stored, mutations, restarts>>

AnswerAfterRefresh(c) ==
    /\ call[c].pc = "reread"
    /\ Set(c, Answered(c))
    /\ unchangedShared /\ unchangedHistory
    /\ UNCHANGED <<version, restarts>>

-----------------------------------------------------------------------------
(* execute.before: the gate.  Another tool, or another agent, passes at once.  *)

SecurityAgent(c) ==
    /\ call[c].pc = "idle"
    /\ Set(c, [call[c] EXCEPT !.kind = "before", !.pc = "before"])
    /\ unchangedShared /\ unchangedHistory
    /\ UNCHANGED <<version, restarts>>

\* The task the session is bound to; without one the call passes.
FindTask(c) ==
    /\ call[c].pc = "before"
    /\ IF stored = NoSnapshot THEN Set(c, Answered(c))
       ELSE Set(c, [call[c] EXCEPT !.pc = "judging", !.taskId = stored.task,
                                   !.asked = Summary(stored.task, version[stored.task])])
    /\ unchangedShared /\ unchangedHistory
    /\ UNCHANGED <<version, restarts>>

Verdict(c, v) ==
    Set(c, [call[c] EXCEPT !.pc = IF v \in Off THEN "blocked" ELSE "done", !.read = v])

\* Faulty: the gate believes the snapshot, when there is one of this task.
JudgeSnapshot(c) ==
    /\ call[c].pc = "judging"
    /\ Verdict(c, IF stored.task = call[c].taskId THEN stored.version ELSE version[call[c].taskId])
    /\ unchangedShared /\ unchangedHistory
    /\ UNCHANGED <<version, restarts>>

\* shouldBlock: a status read of its own, shared with no other.
Judge(c) ==
    /\ call[c].pc = "judging"
    /\ Verdict(c, version[call[c].taskId])
    /\ unchangedShared /\ unchangedHistory
    /\ UNCHANGED <<version, restarts>>

\* The session, the storage, the CLI or its two seconds fail: the call passes.
PassUnjudged(c) ==
    /\ call[c].pc \in {"before", "judging"}
    /\ Set(c, Answered(c))
    /\ unchangedShared /\ unchangedHistory
    /\ UNCHANGED <<version, restarts>>

-----------------------------------------------------------------------------
(* The world outside.                                                          *)

\* Somebody changes a task from another session or a terminal: no hook runs.
MutateElsewhere(t) ==
    /\ version[t] < MaxVersion
    /\ version' = [version EXCEPT ![t] = @ + 1]
    /\ missed' = (missed \/ refreshed)
    /\ UNCHANGED <<code, restarts, wanted, bindings, overtaken>>

\* The server goes down with its Maps and its calls and comes up again.
Restart ==
    /\ restarts < MaxRestarts
    /\ restarts' = restarts + 1
    /\ inFlight' = NoCall
    /\ mutations' = NoCall
    /\ refreshed' = FALSE
    /\ call' = [c \in Calls |-> IF call[c].pc = "idle" THEN NewCall
                                ELSE [NewCall EXCEPT !.pc = "done"]]
    /\ missed' = FALSE
    /\ UNCHANGED <<version, stored, wanted, bindings, overtaken>>

\* The steps of a call that has begun.
Step(c) ==
    \/ CliReads(c) \/ ReadFails(c) \/ Check(c) \/ Discard(c) \/ Store(c)
    \/ AdoptedReadEnds(c)
    \/ Clear(c) \/ Lookup(c) \/ Publish(c) \/ Refuse(c)
    \/ NothingBound(c) \/ Line(c) \/ RefreshAfterMutation(c)
    \/ AnswerFromStorage(c) \/ RefreshForPoll(c) \/ AnswerAfterRefresh(c)
    \/ FindTask(c) \/ Judge(c) \/ PassUnjudged(c)

Next ==
    \/ \E c \in Calls :
          \/ \E p \in Publication : Update(c, p)
          \/ \E t \in Tasks : ShellMutates(c, t)
          \/ Poll(c)
          \/ SecurityAgent(c)
          \/ Step(c)
    \/ \E t \in Tasks : MutateElsewhere(t)
    \/ Restart

Spec == Init /\ [][Next]_vars

-----------------------------------------------------------------------------
(* Properties.                                                                 *)

\* A hook is refreshed by a read that began after its command: whether it starts
\* the read itself or adopts one, the answer is at least as new as the change it
\* runs for ("Never let a mutation adopt a pre-mutation read already in flight",
\* index.ts:115).
MutationIsSeen ==
    \A c, e \in Calls :
        /\ call[c].kind = "after"
        /\ call[c].entry = e
        /\ call[e].taskId = call[c].asked.task
        /\ call[e].read # 0
        => call[e].read >= call[c].asked.version

\* The session stays bound to what the last skynex_task_update asked for, hooks and
\* polls whatever, as long as no read that was overtaken has been stored.
BindingKept == ~overtaken => stored.task = wanted

\* When every call has answered, the snapshot this server has refreshed is the task
\* as the CLI keeps it, unless a read failed or a change had no hook (`missed`), or
\* a read that was overtaken has been stored.
Settled == \A c \in Calls : call[c].pc \in {"idle", "done", "blocked"}
SettledIsCurrent ==
    Settled /\ refreshed /\ stored # NoSnapshot /\ ~missed /\ ~overtaken
        => stored.version = version[stored.task]

\* What call c awaits: the hook in front of it and the read under way when it took
\* its place, or the read it has adopted.
Awaits(c) ==
    CASE call[c].pc = "queued" -> {h \in {call[c].previous} \ {NoCall} : call[h].pc # "done"}
                                  \cup {e \in {call[c].reading} \ {NoCall} : ~Over(e)}
      [] call[c].pc = "adopting" -> {e \in {call[c].entry} : ~Over(e)}
      [] OTHER -> {}

\* Hooks wait for hooks and for reads, publications and polls for reads (index.ts:101,
\* 121-122): however they overlap, no calls wait for one another in a circle, so that
\* of those that have not answered there is always one that can go on.
NoCircularWait ==
    \A circle \in (SUBSET Calls) \ {{}} : \E c \in circle : Awaits(c) \cap circle = {}

\* The gate judges the task the session was bound to when the subagent was called, as
\* the CLI has it no earlier than that: never by a snapshot, never by a read that was
\* under way ("The gate still reads `reviews.security` fresh on every security call",
\* L1 of docs/specs/security-review-enforcement/design-tree.md), and it stops the call
\* only if that task has the review off.
GateReadsFresh ==
    \A c \in Calls :
        /\ call[c].pc = "blocked" => call[c].kind = "before" /\ call[c].read \in Off
        /\ call[c].kind = "before" /\ call[c].read # 0
           => /\ call[c].taskId = call[c].asked.task
              /\ call[c].read >= call[c].asked.version

=============================================================================
