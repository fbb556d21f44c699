----------------------------- MODULE PluginsProofs -----------------------------
(***************************************************************************)
(* The plugins that run in the host: the coroutines of the task sidebar's  *)
(* server, for any number of calls, tasks, versions and restarts; its      *)
(* controller in the terminal, for any requests and answers; and the       *)
(* classifier, for any questions and whatever the provider answers.        *)
(***************************************************************************)
EXTENDS TaskSidebar, SidebarController, Classifier, TLAPS

Reading == {"reading", "answered", "checked"}       \* its own read is under way
Started == Reading \cup {"reread", "done"}          \* it has started one, or is over
Lined   == Started \cup {"queued", "adopting"}      \* a hook that took its place in the line
Pcs     == Lined \cup {"idle", "clear", "lookup", "publish", "after", "poll",
                       "before", "judging", "blocked"}

CallRecord ==
    [kind     : {"none", "update", "after", "poll", "before"},
     pc       : Pcs,
     asked    : Snapshot,
     seen     : Snapshot,
     previous : Calls \cup {NoCall},
     reading  : Calls \cup {NoCall},
     entry    : Calls \cup {NoCall},
     taskId   : Tasks \cup {NoTask},
     read     : 0..MaxVersion,
     since    : Nat]

SharedOK ==
    /\ version \in [Tasks -> 1..MaxVersion]
    /\ stored \in Snapshot
    /\ stored # NoSnapshot => stored.task \in Tasks
    /\ inFlight \in Calls \cup {NoCall}
    /\ mutations \in Calls \cup {NoCall}
    /\ refreshed \in BOOLEAN
    /\ restarts \in Nat
    /\ wanted \in Tasks \cup {NoTask}
    /\ bindings \in Nat
    /\ overtaken \in BOOLEAN
    /\ missed \in BOOLEAN

TypeOK == SharedOK /\ call \in [Calls -> CallRecord]

\* What a call knows at each of its awaits, while the tasks have these versions,
\* the binding has changed so often, and this server has started a read or not.
CallOK(me, versions, changes, started) ==
    /\ me.pc = "idle" => me = NewCall
    /\ me.pc \in {"clear", "lookup", "publish"} => me.kind = "update"
    /\ me.pc \in {"lookup", "publish"} => me.asked.task \in Tasks
    /\ me.pc \in {"after", "queued"} => me.kind = "after" /\ me.entry = NoCall
    /\ me.pc \in {"poll", "reread"} => me.kind = "poll"
    /\ me.pc \in {"before", "judging", "blocked"} => me.kind = "before"
    /\ me.pc \in Reading \cup {"adopting"} => me.kind \in {"update", "after", "poll"}
    /\ me.pc = "adopting" => me.entry # NoCall
    /\ me.pc \notin {"answered", "checked", "reread", "done", "blocked"} => me.read = 0
    /\ me.pc = "queued" => me.seen.task \in Tasks
    /\ me.kind = "after" => /\ me.asked.task \in Tasks
                            /\ me.asked.version <= versions[me.asked.task]
    /\ me.pc = "judging" => /\ me.taskId \in Tasks
                            /\ me.taskId = me.asked.task
                            /\ me.asked.version <= versions[me.taskId]
    /\ me.pc \in Reading => me.taskId \in Tasks /\ me.since <= changes /\ started
    /\ me.pc \in {"answered", "checked"} => me.read \in 1..versions[me.taskId]

\* What the Maps hold, and what calls wait for, has gone that far at least.
Links ==
    /\ inFlight # NoCall => call[inFlight].pc \in Reading
    /\ mutations # NoCall => call[mutations].pc \in Lined
    /\ \A c \in Calls :
          /\ call[c].reading # NoCall => call[call[c].reading].pc \in Started
          /\ call[c].entry # NoCall => call[call[c].entry].pc \in Started
          /\ call[c].previous # NoCall => call[call[c].previous].pc \in Lined

Control ==
    /\ \A c \in Calls : CallOK(call[c], version, bindings, refreshed)
    /\ Links

-----------------------------------------------------------------------------
(* One call moves. *)

LEMMA SetIs ==
    ASSUME TypeOK, NEW c \in Calls, NEW me \in CallRecord, Set(c, me)
    PROVE  /\ call' \in [Calls -> CallRecord]
           /\ call'[c] = me
           /\ \A x \in Calls \ {c} : call'[x] = call[x]
BY DEF TypeOK, Set

LEMMA NewCallTyped == NewCall \in CallRecord
BY SidebarAssumption DEF NewCall, CallRecord, Pcs, Lined, Started, NoSnapshot, Snapshot

LEMMA AnsweredIs ==
    ASSUME TypeOK, NEW c \in Calls
    PROVE  LET me == Answered(c)
               my == call[c]
           IN  /\ me \in CallRecord
               /\ me.pc = "done" /\ me.kind = my.kind /\ me.entry = my.entry
               /\ me.taskId = my.taskId /\ me.read = my.read
               /\ my.kind = "after" => me.asked = my.asked
               /\ me.previous = NoCall /\ me.reading = NoCall
<1>1. call[c] \in CallRecord
  BY DEF TypeOK
<1>2. NewCall.previous = NoCall /\ NewCall.reading = NoCall
  BY DEF NewCall
<1>3. CASE call[c].kind = "after"
  BY <1>1, <1>2, <1>3, NewCallTyped DEF Answered, CallRecord, Pcs, Lined, Started
<1>4. CASE call[c].kind # "after"
  BY <1>1, <1>2, <1>4, NewCallTyped DEF Answered, CallRecord, Pcs, Lined, Started
<1> QED
  BY <1>3, <1>4

LEMMA ResumedIs ==
    ASSUME TypeOK, NEW c \in Calls
    PROVE  LET me == Resumed(c)
               my == call[c]
           IN  /\ me \in CallRecord
               /\ me.pc = IF my.kind = "poll" THEN "reread" ELSE "done"
               /\ me.kind = my.kind /\ me.entry = my.entry
               /\ me.taskId = my.taskId /\ me.read = my.read
               /\ my.kind = "after" => me.asked = my.asked
               /\ me.previous \in {my.previous, NoCall} /\ me.reading \in {my.reading, NoCall}
<1>1. call[c] \in CallRecord
  BY DEF TypeOK
<1>2. CASE call[c].kind = "poll"
  BY <1>1, <1>2 DEF Resumed, CallRecord, Pcs, Lined, Started
<1>3. CASE call[c].kind # "poll"
  BY <1>3, AnsweredIs DEF Resumed
<1> QED
  BY <1>2, <1>3

-----------------------------------------------------------------------------
(* The types and the control of the coroutines. *)

\* A call that moves keeps the control of all of them, if it knows what it has to
\* at its new place, goes back to none it has left, and is linked to calls that
\* have gone far enough.
LEMMA ControlKept ==
    ASSUME TypeOK, TypeOK', Control, NEW c \in Calls,
           \A x \in Calls \ {c} : call'[x] = call[x],
           CallOK(call'[c], version', bindings', refreshed'),
           \A t \in Tasks : version[t] <= version'[t],
           bindings <= bindings',
           refreshed => refreshed',
           call[c].pc \in Started => call'[c].pc \in Started,
           call[c].pc \in Lined => call'[c].pc \in Lined,
           inFlight' # NoCall =>
               \/ inFlight' = c /\ call'[c].pc \in Reading
               \/ inFlight' = inFlight /\ inFlight' # c,
           mutations' # NoCall =>
               \/ mutations' = c /\ call'[c].pc \in Lined
               \/ mutations' = mutations,
           call'[c].reading \in {NoCall, call[c].reading, inFlight},
           \/ call'[c].entry \in {NoCall, call[c].entry, inFlight}
           \/ call'[c].entry = c /\ call'[c].pc \in Started,
           call'[c].previous \in {NoCall, call[c].previous, mutations}
    PROVE  Control'
<1> USE SidebarAssumption
<1>1. \A x \in Calls : call[x] \in CallRecord /\ call'[x] \in CallRecord
  BY DEF TypeOK
<1>2. \A t \in Tasks : version[t] \in Nat /\ version'[t] \in Nat
  BY DEF TypeOK, SharedOK
<1>3. bindings \in Nat /\ bindings' \in Nat
  BY DEF TypeOK, SharedOK
<1>4. ASSUME NEW x \in Calls \ {c}
      PROVE  CallOK(call[x], version', bindings', refreshed')
  <2>1. CallOK(call[x], version, bindings, refreshed)
    BY DEF Control
  <2>2. call[x].asked.version \in Nat /\ call[x].read \in Nat /\ call[x].since \in Nat
    BY <1>1 DEF CallRecord, Snapshot
  <2> QED
    BY <1>2, <1>3, <2>1, <2>2 DEF CallOK, Reading
<1>5. \A x \in Calls : CallOK(call'[x], version', bindings', refreshed')
  BY <1>4
<1>6. \A x \in Calls : /\ call[x].pc \in Started => call'[x].pc \in Started
                       /\ call[x].pc \in Lined => call'[x].pc \in Lined
  BY <1>1
<1>7. Started \subseteq Lined /\ Reading \subseteq Started
  BY DEF Lined, Started
<1>8. /\ inFlight \in Calls \cup {NoCall} /\ mutations \in Calls \cup {NoCall}
      /\ \A x \in Calls : /\ call[x].reading \in Calls \cup {NoCall}
                          /\ call[x].entry \in Calls \cup {NoCall}
                          /\ call[x].previous \in Calls \cup {NoCall}
  BY <1>1 DEF CallRecord, TypeOK, SharedOK
<1>9. /\ inFlight' # NoCall => call'[inFlight'].pc \in Reading
      /\ mutations' # NoCall => call'[mutations'].pc \in Lined
  BY <1>6, <1>8 DEF Control, Links
<1>10. ASSUME NEW x \in Calls
       PROVE  /\ call'[x].reading # NoCall => call'[call'[x].reading].pc \in Started
              /\ call'[x].entry # NoCall => call'[call'[x].entry].pc \in Started
              /\ call'[x].previous # NoCall => call'[call'[x].previous].pc \in Lined
  <2>1. /\ inFlight # NoCall => call'[inFlight].pc \in Started
        /\ mutations # NoCall => call'[mutations].pc \in Lined
    BY <1>6, <1>7, <1>8 DEF Control, Links
  <2>2. /\ call[x].reading # NoCall => call'[call[x].reading].pc \in Started
        /\ call[x].entry # NoCall => call'[call[x].entry].pc \in Started
        /\ call[x].previous # NoCall => call'[call[x].previous].pc \in Lined
    BY <1>6, <1>8 DEF Control, Links
  <2> QED
    BY <2>1, <2>2
<1> QED
  BY <1>5, <1>9, <1>10 DEF Control, Links

\* The same for a call that becomes `me`.
LEMMA MoveKept ==
    ASSUME TypeOK, Control, SharedOK', NEW c \in Calls, NEW me \in CallRecord, Set(c, me),
           CallOK(me, version', bindings', refreshed'),
           \A t \in Tasks : version[t] <= version'[t],
           bindings <= bindings',
           refreshed => refreshed',
           call[c].pc \in Started => me.pc \in Started,
           call[c].pc \in Lined => me.pc \in Lined,
           inFlight' # NoCall =>
               \/ inFlight' = c /\ me.pc \in Reading
               \/ inFlight' = inFlight /\ inFlight' # c,
           mutations' # NoCall =>
               \/ mutations' = c /\ me.pc \in Lined
               \/ mutations' = mutations,
           me.reading \in {NoCall, call[c].reading, inFlight},
           \/ me.entry \in {NoCall, call[c].entry, inFlight}
           \/ me.entry = c /\ me.pc \in Started,
           me.previous \in {NoCall, call[c].previous, mutations}
    PROVE  TypeOK' /\ Control'
<1>1. /\ call' \in [Calls -> CallRecord]
      /\ call'[c] = me
      /\ \A x \in Calls \ {c} : call'[x] = call[x]
  BY SetIs
<1>2. TypeOK'
  BY <1>1 DEF TypeOK
<1> QED
  BY <1>1, <1>2, ControlKept

\* And for one that touches nothing shared.
LEMMA LocalMoveKept ==
    ASSUME TypeOK, Control, NEW c \in Calls, NEW me \in CallRecord, Set(c, me),
           unchangedShared, unchangedHistory, UNCHANGED <<version, restarts>>,
           CallOK(me, version, bindings, refreshed),
           call[c].pc \in Started => me.pc \in Started,
           call[c].pc \in Lined => me.pc \in Lined,
           inFlight = c => me.pc \in Reading,
           me.reading \in {NoCall, call[c].reading, inFlight},
           me.entry \in {NoCall, call[c].entry, inFlight},
           me.previous \in {NoCall, call[c].previous, mutations}
    PROVE  TypeOK' /\ Control'
<1>1. SharedOK /\ SharedOK'
  BY DEF TypeOK, SharedOK, unchangedShared, unchangedHistory
<1>2. \A t \in Tasks : version[t] <= version'[t]
  BY <1>1 DEF SharedOK
<1>3. bindings <= bindings'
  BY <1>1 DEF SharedOK, unchangedHistory
<1> QED
  BY <1>1, <1>2, <1>3, MoveKept DEF unchangedShared, unchangedHistory

LEMMA KnowsItself ==
    ASSUME TypeOK, Control, NEW c \in Calls
    PROVE  /\ call[c] \in CallRecord
           /\ CallOK(call[c], version, bindings, refreshed)
           /\ inFlight = c => call[c].pc \in Reading
           /\ mutations = c => call[c].pc \in Lined
BY SidebarAssumption DEF TypeOK, Control, Links

\* A call that answers, or that reads the storage again.
LEMMA EndIsOK ==
    ASSUME TypeOK, Control, NEW c \in Calls, call[c].pc # "idle"
    PROVE  /\ CallOK(Answered(c), version, bindings, refreshed)
           /\ CallOK(Resumed(c), version, bindings, refreshed)
<1>1. CallOK(Answered(c), version, bindings, refreshed)
  BY AnsweredIs, KnowsItself DEF CallOK, Reading
<1>2. ASSUME call[c].kind = "poll"
      PROVE  CallOK(Resumed(c), version, bindings, refreshed)
  BY <1>2, KnowsItself, ResumedIs DEF CallOK, Reading
<1> QED
  BY <1>1, <1>2 DEF Resumed

\* The reads and the adopted ends.
LEMMA ReadStepsKeep ==
    ASSUME TypeOK, Control, NEW c \in Calls,
           CliReads(c) \/ ReadFails(c) \/ Check(c) \/ Discard(c) \/ Store(c) \/ AdoptedReadEnds(c)
    PROVE  TypeOK' /\ Control'
<1> DEFINE my == call[c]
<1>1. my \in CallRecord /\ CallOK(my, version, bindings, refreshed)
  BY KnowsItself
<1>2. CASE CliReads(c)
  <2> DEFINE me == [my EXCEPT !.pc = "answered", !.read = version[my.taskId]]
  <2>1. my.taskId \in Tasks /\ version[my.taskId] \in 1..MaxVersion /\ version[my.taskId] \in 0..MaxVersion
    BY <1>1, <1>2, SidebarAssumption DEF CliReads, CallOK, Reading, TypeOK, SharedOK
  <2>2. me \in CallRecord
    BY <1>1, <2>1 DEF CallRecord, Pcs, Lined, Started, Reading
  <2>3. CallOK(me, version, bindings, refreshed)
    BY <1>1, <1>2, <2>1, SidebarAssumption DEF CliReads, CallOK, Reading, CallRecord
  <2>4. me.pc = "answered" /\ me.reading = my.reading /\ me.entry = my.entry /\ me.previous = my.previous
    BY <1>1 DEF CallRecord
  <2> QED
    BY <1>2, <2>2, <2>3, <2>4, LocalMoveKept DEF CliReads, Lined, Started, Reading
<1>3. CASE Check(c)
  <2> DEFINE me == [my EXCEPT !.pc = "checked"]
  <2>1. me \in CallRecord /\ CallOK(me, version, bindings, refreshed)
    BY <1>1, <1>3 DEF Check, CallOK, CallRecord, Pcs, Lined, Started, Reading
  <2>2. me.pc = "checked" /\ me.reading = my.reading /\ me.entry = my.entry /\ me.previous = my.previous
    BY <1>1 DEF CallRecord
  <2> QED
    BY <1>3, <2>1, <2>2, LocalMoveKept DEF Check, Lined, Started, Reading
<1>4. ASSUME my.pc \in Reading \cup {"adopting"}, Set(c, Resumed(c)), SharedOK',
             version' = version, bindings' = bindings, refreshed' = refreshed,
             inFlight' = inFlight \/ inFlight' = NoCall, inFlight' # c, mutations' = Unlined(c)
      PROVE  TypeOK' /\ Control'
  <2>1. /\ \A t \in Tasks : version[t] <= version'[t]
        /\ bindings <= bindings'
    BY <1>4 DEF TypeOK, SharedOK
  <2>2. CallOK(Resumed(c), version', bindings', refreshed')
    BY <1>4, EndIsOK DEF Reading
  <2>3. Resumed(c).pc \in {"reread", "done"}
    BY ResumedIs
  <2> QED
    BY <1>4, <2>1, <2>2, <2>3, ResumedIs, MoveKept DEF Unlined, Lined, Started, Reading
<1>5. CASE ReadFails(c) \/ Discard(c)
  <2>1. SharedOK'
    BY <1>5, SidebarAssumption DEF ReadFails, Discard, EndRead, Unlined, TypeOK, SharedOK
  <2> QED
    BY <1>4, <1>5, <2>1, SidebarAssumption DEF ReadFails, Discard, EndRead, Reading
<1>6. CASE Store(c)
  <2>1. my.taskId \in Tasks /\ my.read \in 0..MaxVersion
    BY <1>1, <1>6 DEF Store, CallOK, Reading, CallRecord
  <2>2. Summary(my.taskId, my.read) \in Snapshot
    BY <2>1 DEF Summary, Snapshot
  <2>3. SharedOK'
    BY <1>6, <2>1, <2>2, SidebarAssumption DEF Store, EndRead, Unlined, Overtaken, Summary, TypeOK, SharedOK
  <2> QED
    BY <1>4, <1>6, <2>3, SidebarAssumption DEF Store, EndRead, Reading
<1>7. CASE AdoptedReadEnds(c)
  <2>1. SharedOK'
    BY <1>7 DEF AdoptedReadEnds, Unlined, TypeOK, SharedOK, unchangedHistory
  <2>2. inFlight # c
    BY <1>7, KnowsItself DEF AdoptedReadEnds, Reading
  <2> QED
    BY <1>4, <1>7, <2>1, <2>2 DEF AdoptedReadEnds, unchangedHistory
<1> QED
  BY <1>2, <1>3, <1>5, <1>6, <1>7

\* A read of task t that c starts, or adopts.
LEMMA RefreshKeeps ==
    ASSUME TypeOK, Control, SharedOK', NEW c \in Calls, NEW t \in Tasks,
           call[c].pc \in {"publish", "queued", "poll"}, Refresh(c, t, call[c]),
           version' = version, mutations' = mutations, bindings <= bindings'
    PROVE  TypeOK' /\ Control'
<1> DEFINE my == call[c]
<1>1. my \in CallRecord /\ CallOK(my, version, bindings, refreshed) /\ inFlight # c
  BY KnowsItself DEF Reading
<1>2. \A x \in Tasks : version[x] <= version'[x]
  BY DEF TypeOK, SharedOK
<1>3. bindings' \in Nat
  BY DEF SharedOK
<1>4. CASE Adopt(c, t, my)
  <2> DEFINE me == [my EXCEPT !.pc = "adopting", !.entry = inFlight]
  <2>1. inFlight \in Calls
    BY <1>4 DEF Adopt, Underway, TypeOK, SharedOK
  <2>2. me \in CallRecord
    BY <1>1, <2>1 DEF CallRecord, Pcs, Lined, Started
  <2>3. /\ me.pc = "adopting" /\ me.reading = my.reading /\ me.entry = inFlight /\ me.previous = my.previous
        /\ me.kind = my.kind /\ me.read = my.read /\ me.asked = my.asked
    BY <1>1 DEF CallRecord
  <2>4. CallOK(me, version', bindings', refreshed')
    BY <1>1, <2>1, <2>3, SidebarAssumption DEF CallOK, Reading
  <2> QED
    BY <1>1, <1>2, <1>4, <2>2, <2>3, <2>4, MoveKept DEF Adopt, Lined, Started, Reading
<1>5. CASE StartRead(c, t, my)
  <2> DEFINE me == [my EXCEPT !.pc = "reading", !.entry = c, !.taskId = t, !.since = bindings']
  <2>1. me \in CallRecord
    BY <1>1, <1>3 DEF CallRecord, Pcs, Lined, Started, Reading
  <2>2. /\ me.pc = "reading" /\ me.reading = my.reading /\ me.entry = c /\ me.previous = my.previous
        /\ me.kind = my.kind /\ me.read = my.read /\ me.asked = my.asked
        /\ me.taskId = t /\ me.since = bindings'
    BY <1>1 DEF CallRecord
  <2>3. CallOK(me, version', bindings', refreshed')
    BY <1>1, <1>3, <1>5, <2>2 DEF CallOK, Reading, StartRead
  <2> QED
    BY <1>1, <1>2, <1>5, <2>1, <2>2, <2>3, MoveKept DEF StartRead, Lined, Started, Reading
<1> QED
  BY <1>4, <1>5 DEF Refresh

LEMMA UpdateStepsKeep ==
    ASSUME TypeOK, Control, NEW c \in Calls,
           \/ \E p \in Publication : Update(c, p)
           \/ Clear(c) \/ Lookup(c) \/ Publish(c) \/ Refuse(c)
    PROVE  TypeOK' /\ Control'
<1> DEFINE my == call[c]
<1>1. my \in CallRecord /\ CallOK(my, version, bindings, refreshed)
  BY KnowsItself
<1>2. ASSUME NEW p \in Publication, Update(c, p)
      PROVE  TypeOK' /\ Control'
  <2> DEFINE pc == IF p = NoSnapshot THEN "clear" ELSE IF p.version = 0 THEN "lookup" ELSE "publish"
             me == [my EXCEPT !.kind = "update", !.asked = p, !.pc = pc]
  <2>1. p \in Snapshot /\ (pc # "clear" => p.task \in Tasks)
    <3>1. CASE p = NoSnapshot
      BY <3>1, SidebarAssumption DEF NoSnapshot, Snapshot
    <3>2. ASSUME NEW t \in Tasks, NEW v \in 0..version[t], p = Summary(t, v)
          PROVE  p \in Snapshot /\ p.task \in Tasks
      <4>1. v \in 0..MaxVersion
        BY SidebarAssumption DEF TypeOK, SharedOK
      <4> QED
        BY <3>2, <4>1 DEF Summary, Snapshot
    <3> QED
      BY <3>1, <3>2 DEF Publication
  <2>2. pc \in {"clear", "lookup", "publish"}
    OBVIOUS
  <2>3. my = NewCall /\ my.pc = "idle"
    BY <1>1, <1>2 DEF CallOK, Update
  <2> HIDE DEF pc
  <2>4. me \in CallRecord
    BY <1>1, <2>1, <2>2 DEF CallRecord, Pcs
  <2>5. /\ me.pc = pc /\ me.kind = "update" /\ me.asked = p
        /\ me.reading = my.reading /\ me.entry = my.entry /\ me.previous = my.previous /\ me.read = my.read
    BY <1>1 DEF CallRecord
  <2>6. CallOK(me, version, bindings, refreshed)
    BY <1>1, <2>1, <2>2, <2>3, <2>5 DEF CallOK, Reading
  <2>7. inFlight # c
    BY <2>3, KnowsItself DEF Reading
  <2>8. Set(c, me)
    BY <1>2 DEF Update, pc
  <2> QED
    BY <1>2, <2>2, <2>3, <2>4, <2>5, <2>6, <2>7, <2>8, LocalMoveKept DEF Update, Lined, Started, Reading
<1>3. CASE Clear(c)
  <2>1. SharedOK'
    <3>1. NoSnapshot \in Snapshot /\ bindings + 1 \in Nat
      BY SidebarAssumption DEF NoSnapshot, Snapshot, TypeOK, SharedOK
    <3> QED
      BY <1>3, <3>1 DEF Clear, Rebind, TypeOK, SharedOK
  <2>2. bindings <= bindings' /\ \A t \in Tasks : version[t] <= version'[t]
    BY <1>3 DEF Clear, Rebind, TypeOK, SharedOK
  <2>3. inFlight # c /\ my.pc = "clear"
    BY <1>3, KnowsItself DEF Clear, Reading
  <2>4. CallOK(Answered(c), version', bindings', refreshed')
    BY <1>1, <1>3, <2>3, AnsweredIs DEF Clear, CallOK, Reading
  <2> QED
    BY <1>3, <2>1, <2>2, <2>3, <2>4, AnsweredIs, MoveKept DEF Clear, Lined, Started
<1>4. CASE Lookup(c)
  <2>1. PICK seen \in {stored, NoSnapshot} : Set(c, [my EXCEPT !.pc = "publish", !.seen = seen])
    BY <1>4 DEF Lookup
  <2> DEFINE me == [my EXCEPT !.pc = "publish", !.seen = seen]
  <2>2. seen \in Snapshot
    BY SidebarAssumption DEF NoSnapshot, Snapshot, TypeOK, SharedOK
  <2>3. me \in CallRecord
    BY <1>1, <2>2 DEF CallRecord, Pcs
  <2>4. /\ me.pc = "publish" /\ me.kind = my.kind /\ me.asked = my.asked
        /\ me.reading = my.reading /\ me.entry = my.entry /\ me.previous = my.previous /\ me.read = my.read
    BY <1>1 DEF CallRecord
  <2>5. CallOK(me, version, bindings, refreshed)
    BY <1>1, <1>4, <2>4 DEF CallOK, Reading, Lookup
  <2>6. inFlight # c /\ my.pc = "lookup"
    BY <1>4, KnowsItself DEF Reading, Lookup
  <2> QED
    BY <1>4, <2>1, <2>3, <2>4, <2>5, <2>6, LocalMoveKept DEF Lookup, Lined, Started, Reading
<1>5. CASE Publish(c)
  <2>1. my.asked.task \in Tasks /\ my.asked \in Snapshot /\ my.seen \in Snapshot
    BY <1>1, <1>5 DEF Publish, CallOK, CallRecord
  <2>2. inFlight' \in Calls \cup {NoCall} /\ refreshed' \in BOOLEAN
    BY <1>5 DEF Publish, Refresh, Adopt, StartRead, TypeOK, SharedOK
  <2>3. bindings' \in Nat /\ bindings <= bindings'
    BY <1>5 DEF Publish, Rebind, TypeOK, SharedOK
  <2>4. SharedOK'
    BY <1>5, <2>1, <2>2, <2>3 DEF Publish, Rebind, TypeOK, SharedOK
  <2> QED
    BY <1>5, <2>1, <2>3, <2>4, RefreshKeeps DEF Publish
<1>6. CASE Refuse(c)
  <2>1. SharedOK' /\ bindings <= bindings' /\ \A t \in Tasks : version[t] <= version'[t]
    BY <1>6 DEF Refuse, TypeOK, SharedOK
  <2>2. inFlight # c /\ my.pc # "idle"
    BY <1>6, KnowsItself DEF Refuse, Reading
  <2>3. CallOK(Answered(c), version', bindings', refreshed')
    BY <1>6, <2>2, EndIsOK DEF Refuse
  <2>4. /\ Set(c, Answered(c)) /\ inFlight' = inFlight /\ mutations' = mutations
        /\ refreshed => refreshed'
    BY <1>6 DEF Refuse
  <2> QED
    BY <2>1, <2>2, <2>3, <2>4, AnsweredIs, MoveKept DEF Lined, Started
<1> QED
  BY <1>2, <1>3, <1>4, <1>5, <1>6

LEMMA HookStepsKeep ==
    ASSUME TypeOK, Control, NEW c \in Calls,
           \/ \E t \in Tasks : ShellMutates(c, t)
           \/ NothingBound(c) \/ Line(c) \/ RefreshAfterMutation(c)
    PROVE  TypeOK' /\ Control'
<1> DEFINE my == call[c]
<1>1. my \in CallRecord /\ CallOK(my, version, bindings, refreshed)
  BY KnowsItself
<1>2. ASSUME NEW t \in Tasks, ShellMutates(c, t)
      PROVE  TypeOK' /\ Control'
  <2> DEFINE me == [my EXCEPT !.kind = "after", !.pc = "after", !.asked = Summary(t, version'[t])]
  <2>1. version[t] \in 1..MaxVersion /\ version[t] < MaxVersion /\ version'[t] = version[t] + 1
    BY <1>2 DEF ShellMutates, TypeOK, SharedOK
  <2>2. version[t] + 1 \in 1..MaxVersion /\ version[t] + 1 \in 0..MaxVersion
    BY <2>1, SidebarAssumption
  <2>3. version' \in [Tasks -> 1..MaxVersion] /\ \A x \in Tasks : version[x] <= version'[x]
    <3>1. version \in [Tasks -> 1..MaxVersion] /\ \A x \in Tasks : version[x] \in Nat
      BY DEF TypeOK, SharedOK
    <3>2. version' = [version EXCEPT ![t] = version[t] + 1]
      BY <1>2 DEF ShellMutates
    <3> QED
      BY <2>1, <2>2, <3>1, <3>2
  <2>10. UNCHANGED <<stored, inFlight, mutations, refreshed, restarts, wanted, bindings, overtaken, missed>>
    BY <1>2 DEF ShellMutates, unchangedShared, unchangedHistory
  <2>11. SharedOK' /\ bindings <= bindings'
    BY <2>3, <2>10 DEF TypeOK, SharedOK
  <2>4. my = NewCall /\ my.pc = "idle"
    BY <1>1, <1>2 DEF CallOK, ShellMutates
  <2>5. me \in CallRecord
    BY <1>1, <2>1, <2>2 DEF CallRecord, Pcs, Summary, Snapshot
  <2>6. /\ me.pc = "after" /\ me.kind = "after" /\ me.asked.task = t /\ me.asked.version = version'[t]
        /\ me.reading = my.reading /\ me.entry = my.entry /\ me.previous = my.previous /\ me.read = my.read
    BY <1>1 DEF CallRecord, Summary
  <2>7. my.read = 0 /\ my.entry = NoCall
    BY <2>4 DEF NewCall
  <2>8. CallOK(me, version', bindings', refreshed')
    BY <2>1, <2>2, <2>6, <2>7 DEF CallOK, Reading
  <2>9. inFlight # c
    BY <2>4, KnowsItself DEF Reading
  <2> QED
    BY <1>2, <2>3, <2>4, <2>5, <2>6, <2>8, <2>9, <2>10, <2>11, MoveKept
       DEF ShellMutates, Lined, Started, Reading
<1>3. CASE NothingBound(c)
  <2>1. inFlight # c /\ my.pc = "after"
    BY <1>3, KnowsItself DEF NothingBound, Reading
  <2> QED
    BY <1>3, <2>1, EndIsOK, AnsweredIs, LocalMoveKept DEF NothingBound, Lined, Started
<1>4. CASE Line(c)
  <2> DEFINE me == [my EXCEPT !.pc = "queued", !.seen = stored, !.previous = mutations, !.reading = inFlight]
  <2>1. SharedOK' /\ stored \in Snapshot /\ stored.task \in Tasks
    BY <1>4 DEF Line, unchangedHistory, TypeOK, SharedOK
  <2>2. me \in CallRecord
    BY <1>1 DEF CallRecord, Pcs, Lined, TypeOK, SharedOK
  <2>3. /\ me.pc = "queued" /\ me.kind = my.kind /\ me.asked = my.asked /\ me.seen = stored
        /\ me.reading = inFlight /\ me.entry = my.entry /\ me.previous = mutations /\ me.read = my.read
    BY <1>1 DEF CallRecord
  <2>4. CallOK(me, version', bindings', refreshed')
    BY <1>1, <1>4, <2>1, <2>3 DEF CallOK, Reading, Line, unchangedHistory
  <2>5. /\ inFlight # c /\ my.pc = "after" /\ bindings <= bindings'
        /\ \A x \in Tasks : version[x] <= version'[x]
    BY <1>4, KnowsItself DEF Line, Reading, unchangedHistory, TypeOK, SharedOK
  <2> QED
    BY <1>4, <2>1, <2>2, <2>3, <2>4, <2>5, MoveKept DEF Line, Lined, Started, Reading
<1>5. CASE RefreshAfterMutation(c)
  <2>1. my.seen.task \in Tasks
    BY <1>1, <1>5 DEF RefreshAfterMutation, CallOK
  <2>2. inFlight' \in Calls \cup {NoCall} /\ refreshed' \in BOOLEAN
    BY <1>5 DEF RefreshAfterMutation, Refresh, Adopt, StartRead, TypeOK, SharedOK
  <2>3. UNCHANGED <<version, stored, mutations, restarts, wanted, bindings, overtaken, missed>>
    BY <1>5 DEF RefreshAfterMutation, unchangedHistory
  <2>4. SharedOK' /\ bindings <= bindings'
    BY <2>2, <2>3 DEF TypeOK, SharedOK
  <2> QED
    BY <1>5, <2>1, <2>3, <2>4, RefreshKeeps DEF RefreshAfterMutation
<1> QED
  BY <1>2, <1>3, <1>4, <1>5

LEMMA PollStepsKeep ==
    ASSUME TypeOK, Control, NEW c \in Calls,
           Poll(c) \/ AnswerFromStorage(c) \/ RefreshForPoll(c) \/ AnswerAfterRefresh(c)
    PROVE  TypeOK' /\ Control'
<1> DEFINE my == call[c]
<1>1. my \in CallRecord /\ CallOK(my, version, bindings, refreshed) /\ (inFlight = c => my.pc \in Reading)
  BY KnowsItself
<1>2. CASE Poll(c)
  <2> DEFINE me == [my EXCEPT !.kind = "poll", !.pc = "poll"]
  <2>1. me \in CallRecord
    BY <1>1 DEF CallRecord, Pcs
  <2>2. /\ me.pc = "poll" /\ me.kind = "poll" /\ me.reading = my.reading /\ me.entry = my.entry
        /\ me.previous = my.previous /\ me.read = my.read
    BY <1>1 DEF CallRecord
  <2>3. CallOK(me, version, bindings, refreshed)
    BY <1>1, <1>2, <2>2 DEF CallOK, Reading, Poll
  <2> QED
    BY <1>1, <1>2, <2>1, <2>2, <2>3, LocalMoveKept DEF Poll, Lined, Started, Reading
<1>3. CASE AnswerFromStorage(c) \/ AnswerAfterRefresh(c)
  <2>1. my.pc \in {"poll", "reread"}
    BY <1>3 DEF AnswerFromStorage, AnswerAfterRefresh
  <2>2. /\ Set(c, Answered(c)) /\ unchangedShared /\ unchangedHistory
        /\ UNCHANGED <<version, restarts>>
    BY <1>3 DEF AnswerFromStorage, AnswerAfterRefresh
  <2> QED
    BY <1>1, <2>1, <2>2, EndIsOK, AnsweredIs, LocalMoveKept DEF Lined, Started, Reading
<1>4. CASE RefreshForPoll(c)
  <2>1. stored.task \in Tasks
    BY <1>4 DEF RefreshForPoll, TypeOK, SharedOK
  <2>2. inFlight' \in Calls \cup {NoCall} /\ refreshed' \in BOOLEAN
    BY <1>4 DEF RefreshForPoll, Refresh, Adopt, StartRead, TypeOK, SharedOK
  <2>3. UNCHANGED <<version, stored, mutations, restarts, wanted, bindings, overtaken, missed>>
    BY <1>4 DEF RefreshForPoll, unchangedHistory
  <2>4. SharedOK' /\ bindings <= bindings'
    BY <2>2, <2>3 DEF TypeOK, SharedOK
  <2> QED
    BY <1>4, <2>1, <2>3, <2>4, RefreshKeeps DEF RefreshForPoll
<1> QED
  BY <1>2, <1>3, <1>4

LEMMA GateStepsKeep ==
    ASSUME TypeOK, Control, NEW c \in Calls,
           SecurityAgent(c) \/ FindTask(c) \/ Judge(c) \/ PassUnjudged(c)
    PROVE  TypeOK' /\ Control'
<1> DEFINE my == call[c]
<1>1. my \in CallRecord /\ CallOK(my, version, bindings, refreshed) /\ (inFlight = c => my.pc \in Reading)
  BY KnowsItself
<1>2. CASE SecurityAgent(c)
  <2> DEFINE me == [my EXCEPT !.kind = "before", !.pc = "before"]
  <2>1. me \in CallRecord
    BY <1>1 DEF CallRecord, Pcs
  <2>2. /\ me.pc = "before" /\ me.kind = "before" /\ me.reading = my.reading /\ me.entry = my.entry
        /\ me.previous = my.previous /\ me.read = my.read
    BY <1>1 DEF CallRecord
  <2>3. CallOK(me, version, bindings, refreshed)
    BY <1>1, <1>2, <2>2 DEF CallOK, Reading, SecurityAgent
  <2> QED
    BY <1>1, <1>2, <2>1, <2>2, <2>3, LocalMoveKept DEF SecurityAgent, Lined, Started, Reading
<1>3. CASE FindTask(c) /\ stored # NoSnapshot
  <2> DEFINE t  == stored.task
             me == [my EXCEPT !.pc = "judging", !.taskId = t, !.asked = Summary(t, version[t])]
  <2>1. t \in Tasks /\ version[t] \in 1..MaxVersion
    BY <1>3 DEF TypeOK, SharedOK
  <2>2. version[t] \in 0..MaxVersion
    BY <2>1, SidebarAssumption
  <2>3. Summary(t, version[t]) \in Snapshot
    BY <2>1, <2>2 DEF Summary, Snapshot
  <2>4. me \in CallRecord
    BY <1>1, <2>1, <2>3 DEF CallRecord, Pcs
  <2>5. /\ me.pc = "judging" /\ me.kind = my.kind /\ me.asked.task = t /\ me.asked.version = version[t]
        /\ me.taskId = t
        /\ me.reading = my.reading /\ me.entry = my.entry /\ me.previous = my.previous /\ me.read = my.read
    BY <1>1 DEF CallRecord, Summary
  <2>6. CallOK(me, version, bindings, refreshed)
    BY <1>1, <1>3, <2>1, <2>2, <2>5 DEF CallOK, Reading, FindTask
  <2> QED
    BY <1>1, <1>3, <2>4, <2>5, <2>6, LocalMoveKept DEF FindTask, Lined, Started, Reading
<1>4. CASE Judge(c)
  <2> DEFINE v  == version[my.taskId]
             me == [my EXCEPT !.pc = IF v \in Off THEN "blocked" ELSE "done", !.read = v]
  <2>1. my.taskId \in Tasks /\ v \in 1..MaxVersion /\ v \in 0..MaxVersion
    BY <1>1, <1>4, SidebarAssumption DEF Judge, CallOK, TypeOK, SharedOK
  <2>2. me \in CallRecord
    BY <1>1, <2>1 DEF CallRecord, Pcs, Lined, Started
  <2>3. /\ me.pc \in {"blocked", "done"} /\ me.kind = my.kind
        /\ me.reading = my.reading /\ me.entry = my.entry /\ me.previous = my.previous
    BY <1>1 DEF CallRecord
  <2>4. CallOK(me, version, bindings, refreshed)
    BY <1>1, <1>4, <2>3 DEF CallOK, Reading, Judge
  <2>5. Set(c, me)
    BY <1>4 DEF Judge, Verdict
  <2> QED
    BY <1>1, <1>4, <2>2, <2>3, <2>4, <2>5, LocalMoveKept DEF Judge, Lined, Started, Reading
<1>5. CASE (FindTask(c) /\ stored = NoSnapshot) \/ PassUnjudged(c)
  <2>1. my.pc \in {"before", "judging"}
    BY <1>5 DEF FindTask, PassUnjudged
  <2>2. /\ Set(c, Answered(c)) /\ unchangedShared /\ unchangedHistory
        /\ UNCHANGED <<version, restarts>>
    BY <1>5 DEF FindTask, PassUnjudged
  <2> QED
    BY <1>1, <2>1, <2>2, EndIsOK, AnsweredIs, LocalMoveKept DEF Lined, Started, Reading
<1> QED
  BY <1>2, <1>3, <1>4, <1>5

LEMMA OutsideKeeps ==
    ASSUME TypeOK, Control, Restart \/ \E t \in Tasks : MutateElsewhere(t)
    PROVE  TypeOK' /\ Control'
<1>1. CASE Restart
  <2>1. ASSUME NEW c \in Calls
        PROVE  /\ call'[c] \in CallRecord
               /\ call'[c].reading = NoCall /\ call'[c].entry = NoCall /\ call'[c].previous = NoCall
               /\ CallOK(call'[c], version', bindings', refreshed')
    <3> DEFINE gone == [NewCall EXCEPT !.pc = "done"]
    <3>1. /\ gone \in CallRecord /\ gone.pc = "done" /\ gone.kind = "none" /\ gone.read = 0
          /\ gone.reading = NoCall /\ gone.entry = NoCall /\ gone.previous = NoCall
      BY NewCallTyped DEF NewCall, CallRecord, Pcs, Lined, Started
    <3>2. /\ NewCall.pc = "idle" /\ NewCall.kind = "none" /\ NewCall.read = 0
          /\ NewCall.reading = NoCall /\ NewCall.entry = NoCall /\ NewCall.previous = NoCall
      BY DEF NewCall
    <3>3. call'[c] \in {gone, NewCall}
      BY <1>1 DEF Restart
    <3>4. CASE call'[c] = gone
      BY <3>1, <3>4 DEF CallOK, Reading
    <3>5. CASE call'[c] = NewCall
      BY <3>2, <3>5, NewCallTyped DEF CallOK, Reading
    <3> QED
      BY <3>3, <3>4, <3>5
  <2>2. call' = [c \in Calls |-> call'[c]]
    BY <1>1 DEF Restart
  <2>3. SharedOK'
    <3>1. restarts + 1 \in Nat
      BY DEF TypeOK, SharedOK
    <3>2. /\ UNCHANGED <<version, stored, wanted, bindings, overtaken>>
          /\ restarts' = restarts + 1 /\ inFlight' = NoCall /\ mutations' = NoCall
          /\ refreshed' \in BOOLEAN /\ missed' \in BOOLEAN
      BY <1>1 DEF Restart
    <3> QED
      BY <3>1, <3>2 DEF TypeOK, SharedOK
  <2> QED
    BY <1>1, <2>1, <2>2, <2>3 DEF Restart, TypeOK, Control, Links
<1>2. ASSUME NEW t \in Tasks, MutateElsewhere(t)
      PROVE  TypeOK' /\ Control'
  <2>1. version[t] \in 1..MaxVersion /\ version[t] < MaxVersion /\ version' = [version EXCEPT ![t] = version[t] + 1]
    BY <1>2 DEF MutateElsewhere, TypeOK, SharedOK
  <2>2. version[t] + 1 \in 1..MaxVersion
    BY <2>1, SidebarAssumption
  <2>3. version' \in [Tasks -> 1..MaxVersion] /\ \A x \in Tasks : version[x] <= version'[x]
    <3>1. version \in [Tasks -> 1..MaxVersion] /\ \A x \in Tasks : version[x] \in Nat
      BY DEF TypeOK, SharedOK
    <3> QED
      BY <2>1, <2>2, <3>1
  <2>4. UNCHANGED <<stored, inFlight, mutations, refreshed, call, restarts, wanted, bindings, overtaken>>
    BY <1>2 DEF MutateElsewhere, code
  <2>5. missed' \in BOOLEAN
    BY <1>2 DEF MutateElsewhere
  <2>6. TypeOK'
    BY <2>3, <2>4, <2>5 DEF TypeOK, SharedOK
  <2>7. ASSUME NEW c \in Calls
        PROVE  CallOK(call'[c], version', bindings', refreshed')
    <3>1. CallOK(call[c], version, bindings, refreshed)
      BY DEF Control
    <3>2. call[c].asked.version \in Nat /\ call[c].read \in Nat
      BY SidebarAssumption DEF TypeOK, CallRecord, Snapshot
    <3>3. \A x \in Tasks : version[x] \in Nat /\ version'[x] \in Nat
      BY <2>6 DEF TypeOK, SharedOK
    <3> QED
      BY <2>3, <2>4, <3>1, <3>2, <3>3 DEF CallOK, Reading
  <2> QED
    BY <2>4, <2>6, <2>7 DEF Control, Links
<1> QED
  BY <1>1, <1>2

LEMMA ControlInit == Init => TypeOK /\ Control
<1> SUFFICES ASSUME Init PROVE TypeOK /\ Control
  OBVIOUS
<1>1. /\ NewCall.pc = "idle" /\ NewCall.kind = "none" /\ NewCall.read = 0
      /\ NewCall.reading = NoCall /\ NewCall.entry = NoCall /\ NewCall.previous = NoCall
  BY DEF NewCall
<1>2. stored \in Snapshot /\ stored.task \in Tasks \cup {NoTask} /\ (stored # NoSnapshot => stored.task \in Tasks)
  BY SidebarAssumption DEF Init, NoSnapshot, Summary, Snapshot
<1>3. 1 \in 1..MaxVersion
  BY SidebarAssumption
<1>4. TypeOK
  BY <1>2, <1>3, NewCallTyped DEF Init, TypeOK, SharedOK
<1>5. \A c \in Calls : call[c] = NewCall /\ CallOK(call[c], version, bindings, refreshed)
  BY <1>1 DEF Init, CallOK, Reading
<1> QED
  BY <1>1, <1>4, <1>5 DEF Init, Control, Links

LEMMA ControlNext == TypeOK /\ Control /\ [Next]_vars => TypeOK' /\ Control'
<1> SUFFICES ASSUME TypeOK, Control, [Next]_vars
             PROVE  TypeOK' /\ Control'
  OBVIOUS
<1>1. CASE UNCHANGED vars
  BY <1>1 DEF vars, code, TypeOK, SharedOK, Control, Links
<1>2. CASE Next
  BY <1>2, ReadStepsKeep, UpdateStepsKeep, HookStepsKeep, PollStepsKeep, GateStepsKeep, OutsideKeeps
     DEF Next, Step
<1> QED
  BY <1>1, <1>2

\* The types, for every number of calls and tasks and every bound.
THEOREM TypeCorrect == Spec => []TypeOK
<1>1. Spec => [](TypeOK /\ Control)
  BY ControlInit, ControlNext, PTL DEF Spec
<1> QED
  BY <1>1, PTL

-----------------------------------------------------------------------------
(* Most steps of a call start no read and wait for nobody. *)

Quiet(c) ==
    LET my == call[c]
        me == call'[c]
    IN  /\ \A x \in Calls \ {c} : call'[x] = call[x]
        /\ inFlight' \in {inFlight, NoCall}
        /\ my.pc \notin {"done", "blocked"} /\ me.pc \notin {"queued", "adopting", "reading"}
        /\ me.pc \in {"done", "blocked"} =>
               \/ Judge(c)
               \/ me.pc = "done" /\ me.kind = my.kind /\ me.read = my.read
        /\ me.pc \in Reading => my.pc \in Reading /\ me.since = my.since
        /\ me.pc = "checked" => stored.task = me.taskId
        /\ me.entry = my.entry
        /\ me.kind = "after" => \/ my.kind = "after" /\ me.asked = my.asked
                               \/ me.entry = NoCall
        /\ \/ me.taskId = my.taskId /\ me.read = my.read
           \/ me.taskId = my.taskId /\ my.pc = "reading" /\ me.read = version[my.taskId]
           \/ my.pc \notin Started

LEMMA EndIsQuiet ==
    ASSUME TypeOK, Control, NEW c \in Calls,
           Set(c, Answered(c)) \/ Set(c, Resumed(c)),
           inFlight' \in {inFlight, NoCall}, call[c].pc \notin {"done", "blocked"}
    PROVE  Quiet(c)
<1>1. CASE Set(c, Answered(c))
  BY <1>1, AnsweredIs, SetIs DEF Quiet, Reading
<1>2. CASE Set(c, Resumed(c))
  BY <1>2, ResumedIs, SetIs DEF Quiet, Reading
<1> QED
  BY <1>1, <1>2

LEMMA QuietSteps ==
    ASSUME TypeOK, Control, NEW c \in Calls,
           \/ CliReads(c) \/ ReadFails(c) \/ Check(c) \/ Discard(c) \/ Store(c) \/ AdoptedReadEnds(c)
           \/ \E p \in Publication : Update(c, p)
           \/ Clear(c) \/ Lookup(c) \/ Refuse(c)
           \/ \E t \in Tasks : ShellMutates(c, t)
           \/ NothingBound(c)
           \/ Poll(c) \/ AnswerFromStorage(c) \/ AnswerAfterRefresh(c)
           \/ SecurityAgent(c) \/ FindTask(c) \/ Judge(c) \/ PassUnjudged(c)
    PROVE  Quiet(c)
<1> DEFINE my == call[c]
<1>1. my \in CallRecord /\ CallOK(my, version, bindings, refreshed) /\ NewCall.entry = NoCall
  BY KnowsItself DEF NewCall
<1>2. CASE ReadFails(c) \/ Discard(c) \/ Store(c) \/ AdoptedReadEnds(c)
  BY <1>2, EndIsQuiet DEF ReadFails, Discard, Store, AdoptedReadEnds, EndRead
<1>3. CASE \/ Clear(c) \/ Refuse(c) \/ NothingBound(c) \/ AnswerFromStorage(c) \/ AnswerAfterRefresh(c)
           \/ PassUnjudged(c)
  BY <1>3, EndIsQuiet
     DEF Clear, Refuse, NothingBound, AnswerFromStorage, AnswerAfterRefresh, PassUnjudged, unchangedShared
<1>4. CASE CliReads(c)
  <2> DEFINE me == [my EXCEPT !.pc = "answered", !.read = version[my.taskId]]
  <2>1. /\ me.pc = "answered" /\ me.entry = my.entry /\ me.kind = my.kind /\ me.asked = my.asked
        /\ me.taskId = my.taskId /\ me.read = version[my.taskId] /\ my.pc = "reading"
        /\ me.since = my.since
    BY <1>1, <1>4 DEF CliReads, CallRecord
  <2>2. call'[c] = me /\ (\A x \in Calls \ {c} : call'[x] = call[x]) /\ inFlight' = inFlight
    BY <1>4 DEF CliReads, unchangedShared, Set, TypeOK
  <2> QED
    BY <2>1, <2>2 DEF Quiet, Reading
<1>5. CASE Check(c) \/ Poll(c) \/ SecurityAgent(c)
  <2>1. CASE Check(c)
    <3> DEFINE you == [my EXCEPT !.pc = "checked"]
    <3>1. /\ you.pc = "checked" /\ you.entry = my.entry /\ you.kind = my.kind /\ you.asked = my.asked
          /\ you.taskId = my.taskId /\ you.read = my.read /\ my.pc = "answered"
          /\ you.since = my.since /\ stored.task = my.taskId
      BY <1>1, <2>1 DEF Check, CallRecord
    <3>2. call'[c] = you /\ (\A x \in Calls \ {c} : call'[x] = call[x]) /\ inFlight' = inFlight
      BY <2>1 DEF Check, unchangedShared, Set, TypeOK
    <3> QED
      BY <3>1, <3>2 DEF Quiet, Reading
  <2>2. CASE Poll(c)
    <3> DEFINE you == [my EXCEPT !.kind = "poll", !.pc = "poll"]
    <3>1. you.pc = "poll" /\ you.entry = my.entry /\ you.kind = "poll" /\ my.pc = "idle"
      BY <1>1, <2>2 DEF Poll, CallRecord
    <3>2. call'[c] = you /\ (\A x \in Calls \ {c} : call'[x] = call[x]) /\ inFlight' = inFlight
      BY <2>2 DEF Poll, unchangedShared, Set, TypeOK
    <3> QED
      BY <3>1, <3>2 DEF Quiet, Reading, Started
  <2>3. CASE SecurityAgent(c)
    <3> DEFINE you == [my EXCEPT !.kind = "before", !.pc = "before"]
    <3>1. you.pc = "before" /\ you.entry = my.entry /\ you.kind = "before" /\ my.pc = "idle"
      BY <1>1, <2>3 DEF SecurityAgent, CallRecord
    <3>2. call'[c] = you /\ (\A x \in Calls \ {c} : call'[x] = call[x]) /\ inFlight' = inFlight
      BY <2>3 DEF SecurityAgent, unchangedShared, Set, TypeOK
    <3> QED
      BY <3>1, <3>2 DEF Quiet, Reading, Started
  <2> QED
    BY <1>5, <2>1, <2>2, <2>3
<1>8. ASSUME NEW p \in Publication, Update(c, p)
      PROVE  Quiet(c)
  <2> DEFINE pc == IF p = NoSnapshot THEN "clear" ELSE IF p.version = 0 THEN "lookup" ELSE "publish"
             me == [my EXCEPT !.kind = "update", !.asked = p, !.pc = pc]
  <2>1. pc \in {"clear", "lookup", "publish"}
    OBVIOUS
  <2>2. Set(c, me)
    BY <1>8 DEF Update
  <2> HIDE DEF pc
  <2>3. me.pc = pc /\ me.entry = my.entry /\ me.kind = "update" /\ my.pc = "idle"
    BY <1>1, <1>8 DEF Update, CallRecord
  <2>4. call'[c] = me /\ (\A x \in Calls \ {c} : call'[x] = call[x]) /\ inFlight' = inFlight
    BY <1>8, <2>2 DEF Update, unchangedShared, Set, TypeOK
  <2> QED
    BY <2>1, <2>3, <2>4 DEF Quiet, Reading, Started
<1>9. CASE Lookup(c)
  <2>1. PICK seen \in {stored, NoSnapshot} : Set(c, [my EXCEPT !.pc = "publish", !.seen = seen])
    BY <1>9 DEF Lookup
  <2> DEFINE me == [my EXCEPT !.pc = "publish", !.seen = seen]
  <2>2. /\ me.pc = "publish" /\ me.entry = my.entry /\ me.kind = my.kind /\ me.asked = my.asked
        /\ my.pc = "lookup"
    BY <1>1, <1>9 DEF Lookup, CallRecord
  <2>3. call'[c] = me /\ (\A x \in Calls \ {c} : call'[x] = call[x]) /\ inFlight' = inFlight
    BY <1>9, <2>1 DEF Lookup, unchangedShared, Set, TypeOK
  <2> QED
    BY <2>2, <2>3 DEF Quiet, Reading, Started
<1>10. ASSUME NEW t \in Tasks, ShellMutates(c, t)
       PROVE  Quiet(c)
  <2> DEFINE me == [my EXCEPT !.kind = "after", !.pc = "after", !.asked = Summary(t, version'[t])]
  <2>1. my.pc = "idle" /\ my.entry = NoCall
    BY <1>1, <1>10 DEF ShellMutates, CallOK
  <2>2. me.pc = "after" /\ me.entry = my.entry
    BY <1>1 DEF CallRecord
  <2>3. call'[c] = me /\ (\A x \in Calls \ {c} : call'[x] = call[x]) /\ inFlight' = inFlight
    BY <1>10 DEF ShellMutates, unchangedShared, Set, TypeOK
  <2> QED
    BY <2>1, <2>2, <2>3 DEF Quiet, Reading, Started
<1>6. CASE FindTask(c) /\ stored = NoSnapshot
  BY <1>6, EndIsQuiet DEF FindTask, unchangedShared
<1>7. CASE FindTask(c) /\ stored # NoSnapshot
  <2> DEFINE me == [my EXCEPT !.pc = "judging", !.taskId = stored.task,
                              !.asked = Summary(stored.task, version[stored.task])]
  <2>1. me.pc = "judging" /\ me.entry = my.entry /\ me.kind = "before" /\ my.pc = "before"
    BY <1>1, <1>7 DEF FindTask, CallRecord, CallOK
  <2>2. call'[c] = me /\ (\A x \in Calls \ {c} : call'[x] = call[x]) /\ inFlight' = inFlight
    BY <1>7 DEF FindTask, unchangedShared, Set, TypeOK
  <2> QED
    BY <2>1, <2>2 DEF Quiet, Reading, Started
<1>11. CASE Judge(c)
  <2> DEFINE v  == version[my.taskId]
             me == [my EXCEPT !.pc = IF v \in Off THEN "blocked" ELSE "done", !.read = v]
  <2>1. /\ me.pc \in {"blocked", "done"} /\ me.entry = my.entry /\ me.kind = "before"
        /\ my.pc = "judging"
    BY <1>1, <1>11 DEF Judge, CallRecord, CallOK
  <2>2. call'[c] = me /\ (\A x \in Calls \ {c} : call'[x] = call[x]) /\ inFlight' = inFlight
    BY <1>11 DEF Judge, Verdict, unchangedShared, Set, TypeOK
  <2> QED
    BY <1>11, <2>1, <2>2 DEF Quiet, Reading, Started
<1> QED
  BY <1>2, <1>3, <1>4, <1>5, <1>6, <1>7, <1>8, <1>9, <1>10, <1>11

-----------------------------------------------------------------------------
(* A hook sees its own change. *)

Sees(x, y) == y.taskId = x.asked.task /\ y.read # 0 => y.read >= x.asked.version

\* A hook that waits in line knows the read under way: it waits for its end, or it
\* will be a read of the task with the hook's change.
LateReads ==
    \A c, e \in Calls :
        call[c].pc = "queued" /\ inFlight = e => e = call[c].reading \/ Sees(call[c], call[e])

AdoptedReads ==
    \A c, e \in Calls : call[c].kind = "after" /\ call[c].entry = e => Sees(call[c], call[e])

LEMMA AdoptedReadsAreSeen == AdoptedReads <=> MutationIsSeen
BY DEF AdoptedReads, MutationIsSeen, Sees

LEMMA QuietSees ==
    ASSUME TypeOK, Control, LateReads, AdoptedReads, NEW c \in Calls, Quiet(c)
    PROVE  LateReads' /\ AdoptedReads'
<1>1. ASSUME NEW x \in Calls, call[x].kind = "after", Sees(call[x], call[c]), call[c].pc \in Started
      PROVE  Sees(call[x], call'[c])
  <2>1. CallOK(call[x], version, bindings, refreshed) /\ call[x].asked.task \in Tasks
    BY <1>1 DEF Control, CallOK
  <2>2. call[x].asked.version <= version[call[x].asked.task]
    BY <1>1, <2>1 DEF CallOK
  <2>3. version[call[x].asked.task] \in Nat /\ call[x].asked.version \in Nat
    BY <2>1, SidebarAssumption DEF TypeOK, SharedOK, CallRecord, Snapshot
  <2> QED
    BY <1>1, <2>2, <2>3 DEF Quiet, Sees
<1>2. \A x \in Calls : call[x].pc = "queued" => call[x].kind = "after"
  BY DEF Control, CallOK
<1>3. inFlight # NoCall => call[inFlight].pc \in Started
  BY DEF Control, Links, Started
<1>4. LateReads'
  <2> SUFFICES ASSUME NEW x \in Calls, NEW e \in Calls, call'[x].pc = "queued", inFlight' = e
               PROVE  e = call'[x].reading \/ Sees(call'[x], call'[e])
    BY DEF LateReads
  <2>1. x # c /\ call'[x] = call[x] /\ inFlight = e
    BY SidebarAssumption DEF Quiet
  <2>2. e = call[x].reading \/ Sees(call[x], call[e])
    BY <2>1 DEF LateReads
  <2> QED
    BY <1>1, <1>2, <1>3, <2>1, <2>2, SidebarAssumption DEF Quiet
<1>5. AdoptedReads'
  <2> SUFFICES ASSUME NEW x \in Calls, NEW e \in Calls, call'[x].kind = "after", call'[x].entry = e
               PROVE  Sees(call'[x], call'[e])
    BY DEF AdoptedReads
  <2>1. call[x].kind = "after" /\ call[x].entry = e /\ call'[x].asked = call[x].asked
    BY SidebarAssumption DEF Quiet
  <2>2. Sees(call[x], call[e]) /\ call[e].pc \in Started
    BY <2>1, SidebarAssumption DEF AdoptedReads, Control, Links
  <2>3. Sees(call[x], call'[e])
    BY <1>1, <2>1, <2>2 DEF Quiet
  <2> QED
    BY <2>1, <2>3 DEF Sees
<1> QED
  BY <1>4, <1>5

LEMMA LineSees ==
    ASSUME TypeOK, Control, LateReads, AdoptedReads, NEW c \in Calls, Line(c)
    PROVE  LateReads' /\ AdoptedReads'
<1> DEFINE my == call[c]
           me == [my EXCEPT !.pc = "queued", !.seen = stored, !.previous = mutations, !.reading = inFlight]
<1>1. my \in CallRecord /\ my.pc = "after" /\ my.entry = NoCall /\ inFlight # c
  BY KnowsItself DEF Line, CallOK, Reading
<1>2. me.reading = inFlight /\ me.entry = NoCall
  BY <1>1 DEF CallRecord
<1>3. call'[c] = me /\ (\A x \in Calls \ {c} : call'[x] = call[x]) /\ inFlight' = inFlight
  BY DEF Line, Set, TypeOK
<1>4. \A x \in Calls : call[x].entry # c
  BY <1>1, SidebarAssumption DEF Control, Links, Started, Reading
<1>5. LateReads'
  BY <1>1, <1>2, <1>3 DEF LateReads
<1>6. AdoptedReads'
  BY <1>2, <1>3, <1>4, SidebarAssumption DEF AdoptedReads
<1> QED
  BY <1>5, <1>6

LEMMA RefreshSees ==
    ASSUME TypeOK, Control, LateReads, AdoptedReads, NEW c \in Calls, NEW t \in Tasks,
           call[c].pc \in {"publish", "queued", "poll"}, Refresh(c, t, call[c]),
           call[c].pc = "queued" => Waited(c)
    PROVE  LateReads' /\ AdoptedReads'
<1> DEFINE my == call[c]
<1>1. my \in CallRecord /\ CallOK(my, version, bindings, refreshed) /\ inFlight # c
  BY KnowsItself DEF Reading
<1>2. my.read = 0 /\ (my.kind = "after" => my.pc = "queued")
  BY <1>1 DEF CallOK
<1>3. \A x \in Calls : call[x].entry # c
  BY SidebarAssumption DEF Control, Links, Started, Reading
<1>4. CASE Adopt(c, t, my)
  <2> DEFINE me == [my EXCEPT !.pc = "adopting", !.entry = inFlight]
  <2>1. me.pc = "adopting" /\ me.entry = inFlight /\ me.kind = my.kind /\ me.asked = my.asked
    BY <1>1 DEF CallRecord
  <2>2. call'[c] = me /\ (\A x \in Calls \ {c} : call'[x] = call[x]) /\ inFlight' = inFlight
    BY <1>4 DEF Adopt, Set, TypeOK
  <2>3. inFlight \in Calls /\ call[inFlight].pc \in Reading
    BY <1>4 DEF Adopt, Underway, Control, Links, TypeOK, SharedOK
  <2>4. my.kind = "after" => Sees(my, call[inFlight])
    BY <1>2, <2>3, SidebarAssumption DEF Waited, Over, Reading, LateReads
  <2>5. LateReads'
    BY <1>1, <2>1, <2>2 DEF LateReads
  <2> HIDE DEF me
  <2>6. ASSUME NEW x \in Calls, NEW e \in Calls, call'[x].kind = "after", call'[x].entry = e
        PROVE  Sees(call'[x], call'[e])
    <3>1. CASE x = c
      BY <1>1, <2>1, <2>2, <2>4, <2>6, <3>1 DEF Sees
    <3>2. CASE x # c
      BY <1>3, <2>2, <2>6, <3>2 DEF AdoptedReads
    <3> QED
      BY <3>1, <3>2
  <2> QED
    BY <2>5, <2>6 DEF AdoptedReads
<1>5. CASE StartRead(c, t, my)
  <2> DEFINE me == [my EXCEPT !.pc = "reading", !.entry = c, !.taskId = t, !.since = bindings']
  <2>1. me.pc = "reading" /\ me.entry = c /\ me.read = 0
    BY <1>1, <1>2 DEF CallRecord
  <2>2. call'[c] = me /\ (\A x \in Calls \ {c} : call'[x] = call[x]) /\ inFlight' = c
    BY <1>5 DEF StartRead, Set, TypeOK
  <2>3. LateReads'
    BY <2>1, <2>2 DEF LateReads, Sees
  <2> HIDE DEF me
  <2>4. ASSUME NEW x \in Calls, NEW e \in Calls, call'[x].kind = "after", call'[x].entry = e
        PROVE  Sees(call'[x], call'[e])
    <3>1. CASE x = c
      BY <2>1, <2>2, <2>4, <3>1 DEF Sees
    <3>2. CASE x # c
      BY <1>3, <2>2, <2>4, <3>2 DEF AdoptedReads
    <3> QED
      BY <3>1, <3>2
  <2> QED
    BY <2>3, <2>4 DEF AdoptedReads
<1> QED
  BY <1>4, <1>5 DEF Refresh

\* A step of a call is quiet, takes a place in the line, or refreshes.
LEMMA StepCases ==
    ASSUME TypeOK, Control, NEW c \in Calls,
           \/ \E p \in Publication : Update(c, p)
           \/ \E t \in Tasks : ShellMutates(c, t)
           \/ Poll(c)
           \/ SecurityAgent(c)
           \/ Step(c)
    PROVE  \/ Quiet(c)
           \/ Line(c)
           \/ \E t \in Tasks : /\ call[c].pc \in {"publish", "queued", "poll"}
                               /\ call[c].pc = "queued" => Waited(c)
                               /\ Refresh(c, t, call[c])
<1>1. CallOK(call[c], version, bindings, refreshed)
  BY KnowsItself
<1>2. CASE Publish(c)
  BY <1>1, <1>2 DEF Publish, CallOK
<1>3. CASE RefreshAfterMutation(c)
  BY <1>1, <1>3 DEF RefreshAfterMutation, CallOK
<1>4. CASE RefreshForPoll(c)
  BY <1>4 DEF RefreshForPoll, TypeOK, SharedOK
<1> QED
  BY <1>2, <1>3, <1>4, QuietSteps DEF Step

\* After a restart no call is known to have run.
LEMMA RestartForgets ==
    ASSUME TypeOK, Restart, NEW c \in Calls
    PROVE  /\ call'[c].pc \in {"idle", "done"} /\ call'[c].kind = "none" /\ call'[c].entry = NoCall
           /\ call'[c].taskId = NoTask /\ call'[c].read = 0
<1> DEFINE gone == [NewCall EXCEPT !.pc = "done"]
<1>1. /\ gone.pc = "done" /\ gone.kind = "none" /\ gone.entry = NoCall /\ gone.taskId = NoTask /\ gone.read = 0
      /\ NewCall.pc = "idle" /\ NewCall.kind = "none" /\ NewCall.entry = NoCall
      /\ NewCall.taskId = NoTask /\ NewCall.read = 0
  BY DEF NewCall
<1>2. call'[c] \in {gone, NewCall}
  BY DEF Restart
<1> QED
  BY <1>1, <1>2

LEMMA SeesNext ==
    TypeOK /\ Control /\ LateReads /\ AdoptedReads /\ [Next]_vars => LateReads' /\ AdoptedReads'
<1> SUFFICES ASSUME TypeOK, Control, LateReads, AdoptedReads, [Next]_vars
             PROVE  LateReads' /\ AdoptedReads'
  OBVIOUS
<1>1. CASE UNCHANGED vars
  BY <1>1 DEF vars, code, LateReads, AdoptedReads
<1>2. CASE \E t \in Tasks : MutateElsewhere(t)
  BY <1>2 DEF MutateElsewhere, code, LateReads, AdoptedReads
<1>3. CASE Restart
  BY <1>3, RestartForgets, SidebarAssumption DEF LateReads, AdoptedReads
<1>4. ASSUME NEW c \in Calls,
             \/ \E p \in Publication : Update(c, p)
             \/ \E t \in Tasks : ShellMutates(c, t)
             \/ Poll(c)
             \/ SecurityAgent(c)
             \/ Step(c)
      PROVE  LateReads' /\ AdoptedReads'
  BY <1>4, StepCases, QuietSees, LineSees, RefreshSees
<1> QED
  BY <1>1, <1>2, <1>3, <1>4 DEF Next

LEMMA SeesInit == Init => LateReads /\ AdoptedReads
BY SidebarAssumption DEF Init, NewCall, LateReads, AdoptedReads

\* No hook is refreshed by a read that began before its command.
THEOREM HooksSeeTheirMutation == Spec => []MutationIsSeen
<1> DEFINE Inv == TypeOK /\ Control /\ LateReads /\ AdoptedReads
<1>1. Init => Inv
  BY ControlInit, SeesInit
<1>2. Inv /\ [Next]_vars => Inv'
  BY ControlNext, SeesNext
<1>3. Inv => MutationIsSeen
  BY AdoptedReadsAreSeen
<1> QED
  BY <1>1, <1>2, <1>3, PTL DEF Spec

-----------------------------------------------------------------------------
(* The gate. *)

Fresh(me) ==
    /\ me.pc = "blocked" => me.kind = "before" /\ me.read \in Off
    /\ me.kind = "before" /\ me.read # 0 => me.taskId = me.asked.task /\ me.read >= me.asked.version

LEMMA JudgeIsFresh ==
    ASSUME TypeOK, Control, NEW c \in Calls, Judge(c)
    PROVE  Fresh(call'[c])
<1> DEFINE my == call[c]
           v  == version[my.taskId]
           me == [my EXCEPT !.pc = IF v \in Off THEN "blocked" ELSE "done", !.read = v]
<1>1. /\ my \in CallRecord /\ my.pc = "judging" /\ my.kind = "before"
      /\ my.taskId \in Tasks /\ my.taskId = my.asked.task /\ my.asked.version <= v
  BY KnowsItself DEF Judge, CallOK
<1>2. v \in Nat /\ my.asked.version \in Nat
  BY <1>1, SidebarAssumption DEF TypeOK, SharedOK, CallRecord, Snapshot
<1>3. /\ me.pc = (IF v \in Off THEN "blocked" ELSE "done") /\ me.read = v /\ me.kind = my.kind
      /\ me.taskId = my.taskId /\ me.asked = my.asked
  BY <1>1 DEF CallRecord
<1>4. call'[c] = me
  BY DEF Judge, Verdict, Set, TypeOK
<1> QED
  BY <1>1, <1>2, <1>3, <1>4 DEF Fresh

LEMMA FreshKept ==
    ASSUME TypeOK, Control, Control', NEW c \in Calls, Fresh(call[c]),
           Quiet(c) \/ call'[c].pc \notin {"done", "blocked"}
    PROVE  Fresh(call'[c])
<1>1. CallOK(call[c], version, bindings, refreshed) /\ CallOK(call'[c], version', bindings', refreshed')
  BY DEF Control
<1>2. CASE call'[c].pc \notin {"done", "blocked"}
  BY <1>1, <1>2 DEF CallOK, Fresh, Reading
<1>3. CASE Judge(c)
  BY <1>3, JudgeIsFresh
<1>4. CASE Quiet(c) /\ ~Judge(c) /\ call'[c].pc \in {"done", "blocked"}
  BY <1>1, <1>4 DEF CallOK, Fresh, Quiet, Reading
<1> QED
  BY <1>2, <1>3, <1>4

\* Every verdict of the gate is on the task as it is when the gate is asked, or later.
THEOREM GateIsFresh == Spec => []GateReadsFresh
<1> DEFINE Inv == TypeOK /\ Control /\ \A c \in Calls : Fresh(call[c])
<1>1. Init => Inv
  BY ControlInit DEF Init, NewCall, Fresh
<1>2. Inv /\ [Next]_vars => Inv'
  <2> SUFFICES ASSUME Inv, [Next]_vars, TypeOK', Control', NEW x \in Calls
               PROVE  Fresh(call'[x])
    BY ControlNext
  <2>1. CASE UNCHANGED vars \/ \E t \in Tasks : MutateElsewhere(t)
    BY <2>1 DEF MutateElsewhere, vars, code
  <2>2. CASE Restart
    BY <2>2, RestartForgets DEF Fresh
  <2>3. ASSUME NEW c \in Calls,
               \/ \E p \in Publication : Update(c, p)
               \/ \E t \in Tasks : ShellMutates(c, t)
               \/ Poll(c)
               \/ SecurityAgent(c)
               \/ Step(c)
        PROVE  Fresh(call'[x])
    <3>1. (\A y \in Calls \ {c} : call'[y] = call[y]) /\ (Quiet(c) \/ call'[c].pc \notin {"done", "blocked"})
      <4>1. CASE Quiet(c)
        BY <4>1 DEF Quiet
      <4>2. CASE Line(c)
        BY <4>2 DEF Line, Set, TypeOK, CallRecord
      <4>3. ASSUME NEW t \in Tasks, Refresh(c, t, call[c])
            PROVE  (\A y \in Calls \ {c} : call'[y] = call[y]) /\ call'[c].pc \notin {"done", "blocked"}
        <5>1. CASE Adopt(c, t, call[c])
          BY <5>1 DEF Adopt, Set, TypeOK, CallRecord
        <5>2. CASE StartRead(c, t, call[c])
          BY <5>2 DEF StartRead, Set, TypeOK, CallRecord
        <5> QED
          BY <4>3, <5>1, <5>2 DEF Refresh
      <4> QED
        BY <2>3, <4>1, <4>2, <4>3, StepCases
    <3> QED
      BY <3>1, FreshKept
  <2> QED
    BY <2>1, <2>2, <2>3 DEF Next
<1>3. Inv => GateReadsFresh
  BY DEF Fresh, GateReadsFresh
<1> QED
  BY <1>1, <1>2, <1>3, PTL DEF Spec

-----------------------------------------------------------------------------
(* Who waits for whom. *)

LEMMA AwaitsIs ==
    ASSUME NEW x
    PROVE  /\ call[x].pc = "queued" =>
                Awaits(x) = {h \in {call[x].previous} \ {NoCall} : call[h].pc # "done"}
                            \cup {e \in {call[x].reading} \ {NoCall} : call[e].pc \in Reading}
           /\ call[x].pc = "adopting" => Awaits(x) = {e \in {call[x].entry} : call[e].pc \in Reading}
           /\ call[x].pc \notin {"queued", "adopting"} => Awaits(x) = {}
BY DEF Awaits, Over, Reading

\* One call's waits change: no circle closes if they shrink, if nobody waits for
\* that call, or if those it waits for wait for nobody.
LEMMA NoCircleCloses ==
    ASSUME NoCircularWait, NEW c \in Calls,
           \A x \in Calls \ {c} : Awaits(x)' \subseteq Awaits(x),
           \/ Awaits(c)' \subseteq Awaits(c)
           \/ \A x \in Calls : c \notin Awaits(x)'
           \/ \A e \in Awaits(c)' : Awaits(e)' = {}
    PROVE  NoCircularWait'
<1> SUFFICES ASSUME NEW circle \in (SUBSET Calls) \ {{}}
             PROVE  \E x \in circle : Awaits(x)' \cap circle = {}
  BY DEF NoCircularWait
<1>1. PICK x \in circle : Awaits(x) \cap circle = {}
  BY DEF NoCircularWait
<1>2. CASE Awaits(c)' \subseteq Awaits(c)
  BY <1>1, <1>2
<1>3. CASE \A y \in Calls : c \notin Awaits(y)'
  <2>1. CASE circle = {c}
    BY <1>3, <2>1
  <2>2. CASE circle # {c}
    <3>1. circle \ {c} \in (SUBSET Calls) \ {{}}
      BY <2>2
    <3>2. PICK y \in circle \ {c} : Awaits(y) \cap (circle \ {c}) = {}
      BY <3>1 DEF NoCircularWait
    <3>3. Awaits(y)' \cap circle = {}
      BY <1>3, <3>2
    <3> QED
      BY <3>2, <3>3
  <2> QED
    BY <2>1, <2>2
<1>4. CASE \A e \in Awaits(c)' : Awaits(e)' = {}
  <2>1. CASE c \in circle /\ Awaits(c)' \cap circle # {}
    BY <1>4, <2>1
  <2>2. CASE c \in circle /\ Awaits(c)' \cap circle = {}
    BY <2>2
  <2>3. CASE c \notin circle
    BY <1>1, <2>3
  <2> QED
    BY <2>1, <2>2, <2>3
<1> QED
  BY <1>2, <1>3, <1>4

\* When a call moves that was not done, the others wait for no more than before;
\* and for it only if it had its place in the line.
LEMMA OthersWaitForLess ==
    ASSUME TypeOK, Control, NEW c \in Calls,
           \A x \in Calls \ {c} : call'[x] = call[x],
           call[c].pc # "done",
           call'[c].pc \in Reading => call[c].pc \in Reading \/ call[c].pc \notin Started
    PROVE  \A x \in Calls \ {c} : /\ Awaits(x)' \subseteq Awaits(x)
                                  /\ call[c].pc \notin Lined => c \notin Awaits(x)'
<1> TAKE x \in Calls \ {c}
<1>1. /\ call[x].previous \in Calls \cup {NoCall}
      /\ call[x].reading \in Calls \cup {NoCall}
      /\ call[x].entry \in Calls \cup {NoCall}
  BY DEF TypeOK, CallRecord
<1>2. /\ call[x].reading # NoCall => call[call[x].reading].pc \in Started
      /\ call[x].entry # NoCall => call[call[x].entry].pc \in Started
      /\ call[x].previous # NoCall => call[call[x].previous].pc \in Lined
  BY DEF Control, Links
<1>3. Started \subseteq Lined
  BY DEF Lined
<1>4. CASE call[x].pc = "queued"
  <2>1. Awaits(x) = {h \in {call[x].previous} \ {NoCall} : call[h].pc # "done"}
                    \cup {e \in {call[x].reading} \ {NoCall} : call[e].pc \in Reading}
    BY <1>4, AwaitsIs
  <2>2. Awaits(x)' = {h \in {call[x].previous} \ {NoCall} : call'[h].pc # "done"}
                     \cup {e \in {call[x].reading} \ {NoCall} : call'[e].pc \in Reading}
    BY <1>4 DEF Awaits, Over, Reading
  <2> QED
    BY <1>1, <1>2, <1>3, <2>1, <2>2
<1>5. CASE call[x].pc = "adopting"
  <2>3. call[x].entry # NoCall
    BY <1>5 DEF Control, CallOK
  <2>1. Awaits(x) = {e \in {call[x].entry} : call[e].pc \in Reading}
    BY <1>5, AwaitsIs
  <2>2. Awaits(x)' = {e \in {call[x].entry} : call'[e].pc \in Reading}
    BY <1>5 DEF Awaits, Over, Reading
  <2> QED
    BY <1>1, <1>2, <1>3, <1>5, <2>1, <2>2, <2>3
<1>6. CASE call[x].pc \notin {"queued", "adopting"}
  <2>1. Awaits(x)' = {}
    BY <1>6 DEF Awaits
  <2> QED
    BY <2>1
<1> QED
  BY <1>4, <1>5, <1>6

LEMMA QuietClosesNone ==
    ASSUME TypeOK, Control, NoCircularWait, NEW c \in Calls, Quiet(c)
    PROVE  NoCircularWait'
<1>1. Awaits(c)' = {}
  BY DEF Awaits, Quiet
<1>2. \A x \in Calls \ {c} : Awaits(x)' \subseteq Awaits(x)
  BY OthersWaitForLess DEF Quiet
<1> QED
  BY <1>1, <1>2, NoCircleCloses

LEMMA LineClosesNone ==
    ASSUME TypeOK, Control, NoCircularWait, NEW c \in Calls, Line(c)
    PROVE  NoCircularWait'
<1> DEFINE my == call[c]
           me == [my EXCEPT !.pc = "queued", !.seen = stored, !.previous = mutations, !.reading = inFlight]
<1>1. my \in CallRecord /\ my.pc = "after" /\ inFlight # c /\ mutations # c
  BY KnowsItself DEF Line, Reading, Lined, Started
<1>2. me.pc = "queued" /\ me.previous = mutations /\ me.reading = inFlight
  BY <1>1 DEF CallRecord
<1>3. call'[c] = me /\ \A x \in Calls \ {c} : call'[x] = call[x]
  BY DEF Line, Set, TypeOK
<1>4. my.pc # "done" /\ me.pc \notin Reading /\ my.pc \notin Lined
  BY <1>1, <1>2 DEF Lined, Started, Reading
<1> HIDE DEF me
<1>5. \A x \in Calls \ {c} : Awaits(x)' \subseteq Awaits(x) /\ c \notin Awaits(x)'
  BY <1>3, <1>4, OthersWaitForLess
<1>6. Awaits(c)' = {h \in {mutations} \ {NoCall} : call'[h].pc # "done"}
                   \cup {e \in {inFlight} \ {NoCall} : call'[e].pc \in Reading}
  BY <1>2, <1>3 DEF Awaits, Over, Reading
<1>7. c \notin Awaits(c)'
  BY <1>1, <1>6
<1> QED
  BY <1>5, <1>7, NoCircleCloses

LEMMA RefreshClosesNone ==
    ASSUME TypeOK, Control, NoCircularWait, NEW c \in Calls, NEW t \in Tasks,
           call[c].pc \in {"publish", "queued", "poll"}, Refresh(c, t, call[c])
    PROVE  NoCircularWait'
<1> DEFINE my == call[c]
<1>1. my \in CallRecord /\ inFlight # c
  BY KnowsItself DEF Reading
<1>2. CASE Adopt(c, t, my)
  <2> DEFINE me == [my EXCEPT !.pc = "adopting", !.entry = inFlight]
  <2>1. me.pc = "adopting" /\ me.entry = inFlight
    BY <1>1 DEF CallRecord
  <2>2. call'[c] = me /\ \A x \in Calls \ {c} : call'[x] = call[x]
    BY <1>2 DEF Adopt, Set, TypeOK
  <2> HIDE DEF me
  <2>3. inFlight \in Calls /\ call[inFlight].pc \in Reading
    BY <1>2 DEF Adopt, Underway, Control, Links, TypeOK, SharedOK
  <2>4. \A x \in Calls \ {c} : Awaits(x)' \subseteq Awaits(x)
    BY <2>1, <2>2, OthersWaitForLess DEF Reading
  <2>5. Awaits(c)' \subseteq {inFlight}
    BY <2>1, <2>2 DEF Awaits
  <2>6. call'[inFlight].pc \in Reading
    BY <1>1, <2>2, <2>3
  <2>7. ASSUME NEW e, e \in Awaits(c)'
        PROVE  Awaits(e)' = {}
    <3>1. call'[e].pc \in Reading
      BY <2>5, <2>6, <2>7
    <3> QED
      BY <3>1 DEF Awaits, Reading
  <2> QED
    BY <2>4, <2>7, NoCircleCloses
<1>3. CASE StartRead(c, t, my)
  <2> DEFINE me == [my EXCEPT !.pc = "reading", !.entry = c, !.taskId = t, !.since = bindings']
  <2>1. me.pc = "reading"
    BY <1>1 DEF CallRecord
  <2>2. call'[c] = me /\ \A x \in Calls \ {c} : call'[x] = call[x]
    BY <1>3 DEF StartRead, Set, TypeOK
  <2> HIDE DEF me
  <2>3. \A x \in Calls \ {c} : Awaits(x)' \subseteq Awaits(x)
    BY <2>1, <2>2, OthersWaitForLess DEF Started, Reading
  <2>4. Awaits(c)' = {}
    BY <2>1, <2>2 DEF Awaits
  <2> QED
    BY <2>3, <2>4, NoCircleCloses
<1> QED
  BY <1>2, <1>3 DEF Refresh

\* However the calls overlap, they never wait for one another in a circle.
THEOREM NobodyWaitsInACircle == Spec => []NoCircularWait
<1> DEFINE Inv == TypeOK /\ Control /\ NoCircularWait
<1>1. Init => Inv
  <2> SUFFICES ASSUME Init PROVE NoCircularWait
    BY ControlInit
  <2>1. \A c \in Calls : Awaits(c) = {}
    BY DEF Init, NewCall, Awaits
  <2> QED
    BY <2>1 DEF NoCircularWait
<1>2. Inv /\ [Next]_vars => Inv'
  <2> SUFFICES ASSUME Inv, [Next]_vars
               PROVE  NoCircularWait'
    BY ControlNext
  <2>1. CASE UNCHANGED vars \/ \E t \in Tasks : MutateElsewhere(t)
    <3>1. call' = call
      BY <2>1 DEF MutateElsewhere, vars, code
    <3> QED
      BY <3>1 DEF NoCircularWait, Awaits, Over
  <2>2. CASE Restart
    <3>1. \A c \in Calls : Awaits(c)' = {}
      BY <2>2, RestartForgets DEF Awaits
    <3> QED
      BY <3>1 DEF NoCircularWait
  <2>3. ASSUME NEW c \in Calls,
               \/ \E p \in Publication : Update(c, p)
               \/ \E t \in Tasks : ShellMutates(c, t)
               \/ Poll(c)
               \/ SecurityAgent(c)
               \/ Step(c)
        PROVE  NoCircularWait'
    BY <2>3, StepCases, QuietClosesNone, LineClosesNone, RefreshClosesNone
  <2> QED
    BY <2>1, <2>2, <2>3 DEF Next
<1>3. Inv => NoCircularWait
  OBVIOUS
<1> QED
  BY <1>1, <1>2, <1>3, PTL DEF Spec

-----------------------------------------------------------------------------
(* The binding. *)

\* A read that is about to be stored, and has not been overtaken, is of the task
\* the session is bound to.
CheckedForWanted ==
    \A c \in Calls : call[c].pc = "checked" /\ call[c].since = bindings /\ ~overtaken
                     => call[c].taskId = wanted

LEMMA RebindKeepsBinding ==
    ASSUME TypeOK, Control, CheckedForWanted, NEW c \in Calls, NEW t \in Tasks \cup {NoTask},
           Rebind(t), stored'.task = t, overtaken' = overtaken,
           \A x \in Calls \ {c} : call'[x] = call[x],
           call'[c].pc # "checked"
    PROVE  BindingKept' /\ CheckedForWanted'
<1>1. BindingKept'
  BY DEF BindingKept, Rebind
<1>2. ASSUME NEW x \in Calls \ {c}, call'[x].pc = "checked", call'[x].since = bindings', ~overtaken'
      PROVE  call'[x].taskId = wanted'
  <2>1. call[x] = call'[x] /\ call[x].since <= bindings /\ bindings \in Nat
    BY <1>2 DEF Control, CallOK, Reading, TypeOK, SharedOK
  <2>2. bindings' # bindings + 1
    BY <1>2, <2>1
  <2>3. wanted' = wanted /\ bindings' = bindings
    BY <2>2 DEF Rebind
  <2> QED
    BY <1>2, <2>1, <2>3 DEF CheckedForWanted
<1> QED
  BY <1>1, <1>2 DEF CheckedForWanted

LEMMA OthersKeepBinding ==
    ASSUME TypeOK, BindingKept, CheckedForWanted, NEW c \in Calls,
           UNCHANGED <<stored, wanted, bindings, overtaken>>,
           \A x \in Calls \ {c} : call'[x] = call[x],
           call'[c].pc = "checked" => stored.task = call'[c].taskId
    PROVE  BindingKept' /\ CheckedForWanted'
<1>1. BindingKept'
  BY DEF BindingKept
<1>2. ASSUME NEW x \in Calls, call'[x].pc = "checked", call'[x].since = bindings', ~overtaken'
      PROVE  call'[x].taskId = wanted'
  <2>1. CASE x = c
    BY <1>2, <2>1 DEF BindingKept
  <2>2. CASE x # c
    BY <1>2, <2>2 DEF CheckedForWanted
  <2> QED
    BY <2>1, <2>2
<1> QED
  BY <1>1, <1>2 DEF CheckedForWanted

LEMMA StoreKeepsBinding ==
    ASSUME TypeOK, Control, BindingKept, CheckedForWanted, NEW c \in Calls, Store(c)
    PROVE  BindingKept' /\ CheckedForWanted'
<1>1. /\ call'[c] = Resumed(c) /\ Resumed(c).pc \in {"reread", "done"}
      /\ \A x \in Calls \ {c} : call'[x] = call[x]
  BY SetIs, ResumedIs DEF Store, EndRead
<1>2. /\ wanted' = wanted /\ bindings' = bindings /\ stored'.task = call[c].taskId
      /\ call[c].pc = "checked"
  BY DEF Store, EndRead, Summary
<1>3. ~overtaken' => ~overtaken /\ call[c].since = bindings
  BY DEF Store, Overtaken
<1>4. BindingKept'
  BY <1>2, <1>3 DEF BindingKept, CheckedForWanted
<1>5. CheckedForWanted'
  BY <1>1, <1>2, <1>3 DEF CheckedForWanted
<1> QED
  BY <1>4, <1>5

LEMMA PublishKeepsBinding ==
    ASSUME TypeOK, Control, CheckedForWanted, NEW c \in Calls, Publish(c)
    PROVE  BindingKept' /\ CheckedForWanted'
<1> DEFINE my == call[c]
           t  == my.asked.task
<1>1. my \in CallRecord /\ t \in Tasks
  BY KnowsItself DEF Publish, CallOK
<1>2. stored'.task = t /\ Rebind(t) /\ overtaken' = overtaken /\ Refresh(c, t, my)
  BY DEF Publish
<1>3. (\A x \in Calls \ {c} : call'[x] = call[x]) /\ call'[c].pc # "checked"
  <2>1. CASE Adopt(c, t, my)
    BY <1>1, <2>1 DEF Adopt, Set, TypeOK, CallRecord
  <2>2. CASE StartRead(c, t, my)
    BY <1>1, <2>2 DEF StartRead, Set, TypeOK, CallRecord
  <2> QED
    BY <1>2, <2>1, <2>2 DEF Refresh
<1> HIDE DEF t, my
<1> QED
  BY <1>1, <1>2, <1>3, RebindKeepsBinding

\* What a step does to the binding and the snapshot.
LEMMA BindingSteps ==
    ASSUME TypeOK, Control, NEW c \in Calls,
           \/ \E p \in Publication : Update(c, p)
           \/ \E t \in Tasks : ShellMutates(c, t)
           \/ Poll(c)
           \/ SecurityAgent(c)
           \/ Step(c),
           ~Store(c), ~Clear(c), ~Publish(c)
    PROVE  /\ UNCHANGED <<stored, wanted, bindings, overtaken>>
           /\ \A x \in Calls \ {c} : call'[x] = call[x]
           /\ call'[c].pc = "checked" => stored.task = call'[c].taskId
<1>1. UNCHANGED <<stored, wanted, bindings, overtaken>>
  BY DEF Step, Update, ShellMutates, Poll, SecurityAgent, CliReads, ReadFails, Check, Discard, EndRead,
         AdoptedReadEnds, Lookup, Refuse, NothingBound, Line, RefreshAfterMutation, AnswerFromStorage,
         RefreshForPoll, AnswerAfterRefresh, FindTask, Judge, PassUnjudged,
         unchangedShared, unchangedHistory
<1>4. CASE Line(c)
  BY <1>1, <1>4 DEF Line, Set, TypeOK, CallRecord
<1>5. ASSUME NEW t \in Tasks, Refresh(c, t, call[c])
      PROVE  (\A x \in Calls \ {c} : call'[x] = call[x]) /\ call'[c].pc # "checked"
  <2>1. CASE Adopt(c, t, call[c])
    BY <2>1 DEF Adopt, Set, TypeOK, CallRecord
  <2>2. CASE StartRead(c, t, call[c])
    BY <2>2 DEF StartRead, Set, TypeOK, CallRecord
  <2> QED
    BY <1>5, <2>1, <2>2 DEF Refresh
<1>6. CASE Quiet(c)
  BY <1>1, <1>6 DEF Quiet
<1> QED
  BY <1>1, <1>4, <1>5, <1>6, StepCases

LEMMA BindingNext ==
    TypeOK /\ Control /\ BindingKept /\ CheckedForWanted /\ [Next]_vars
        => BindingKept' /\ CheckedForWanted'
<1> SUFFICES ASSUME TypeOK, Control, BindingKept, CheckedForWanted, [Next]_vars
             PROVE  BindingKept' /\ CheckedForWanted'
  OBVIOUS
<1>1. CASE UNCHANGED vars \/ \E t \in Tasks : MutateElsewhere(t)
  BY <1>1 DEF MutateElsewhere, vars, code, BindingKept, CheckedForWanted
<1>2. CASE Restart
  <2>1. UNCHANGED <<stored, wanted, bindings, overtaken>>
    BY <1>2 DEF Restart
  <2>2. \A c \in Calls : call'[c].pc # "checked"
    BY <1>2, RestartForgets
  <2> QED
    BY <2>1, <2>2 DEF BindingKept, CheckedForWanted
<1>3. ASSUME NEW c \in Calls,
             \/ \E p \in Publication : Update(c, p)
             \/ \E t \in Tasks : ShellMutates(c, t)
             \/ Poll(c)
             \/ SecurityAgent(c)
             \/ Step(c)
      PROVE  BindingKept' /\ CheckedForWanted'
  <2>1. CASE Clear(c)
    <3>1. Rebind(NoTask) /\ stored'.task = NoTask /\ overtaken' = overtaken
      BY <2>1 DEF Clear, NoSnapshot
    <3>2. (\A x \in Calls \ {c} : call'[x] = call[x]) /\ call'[c].pc # "checked"
      BY <2>1, AnsweredIs, SetIs DEF Clear
    <3> QED
      BY <3>1, <3>2, RebindKeepsBinding
  <2> QED
    BY <1>3, <2>1, StoreKeepsBinding, PublishKeepsBinding, BindingSteps, OthersKeepBinding
<1> QED
  BY <1>1, <1>2, <1>3 DEF Next

LEMMA BindingInit == Init => BindingKept /\ CheckedForWanted
BY DEF Init, NewCall, BindingKept, CheckedForWanted

\* Hooks and polls never bind the session to another task.
THEOREM BindingIsKept == Spec => []BindingKept
<1> DEFINE Inv == TypeOK /\ Control /\ BindingKept /\ CheckedForWanted
<1>1. Init => Inv
  BY ControlInit, BindingInit
<1>2. Inv /\ [Next]_vars => Inv'
  BY ControlNext, BindingNext
<1>3. Inv => BindingKept
  OBVIOUS
<1> QED
  BY <1>1, <1>2, <1>3, PTL DEF Spec

-----------------------------------------------------------------------------
(* The snapshot, once every call has answered. *)

Good == refreshed /\ ~missed /\ ~overtaken /\ stored # NoSnapshot

\* A hook on its way that will refresh the snapshot with the last change of its task.
Due(h) ==
    /\ call[h].kind = "after"
    /\ call[h].asked = Summary(stored.task, version[stored.task])
    /\ \/ call[h].pc = "after"
       \/ call[h].pc = "queued" /\ call[h].seen.task = stored.task

Coming == \E h \in Calls : Due(h)

Reads(e) == call[e].pc \in Reading /\ call[e].taskId = stored.task

\* The snapshot is current, or is going to be: a hook or a read is on its way, and
\* the read that will be stored is not older than the task.
CurrentOrComing ==
    Good => \/ Coming
            \/ stored.version = version[stored.task]
            \/ \E e \in Calls : Reads(e)

ReadIsCurrent ==
    Good => \/ Coming
            \/ \A e \in Calls : Reads(e) /\ ~Overtaken(e) =>
                   \/ call[e].pc = "reading"
                   \/ call[e].read = version[stored.task]

\* A hook whose session was bound to another task since it took its place is behind a
\* publication, that has started a read.
OthersWereRead ==
    \A h \in Calls : (call[h].pc = "queued" /\ stored # NoSnapshot /\ call[h].seen.task # stored.task)
                     => refreshed

Currency == CurrentOrComing /\ ReadIsCurrent /\ OthersWereRead

LEMMA DueIs ==
    ASSUME TypeOK, NEW h \in Calls, UNCHANGED <<stored, version>>, call'[h] = call[h]
    PROVE  (Due(h) <=> Due(h)') /\ (Reads(h) <=> Reads(h)')
BY DEF Due, Reads

\* A quiet step that leaves the snapshot and the tasks alone.
LEMMA QuietCurrency ==
    ASSUME TypeOK, Control, Control', Currency, NEW c \in Calls, Quiet(c),
           UNCHANGED <<version, stored, refreshed, bindings, overtaken>>,
           inFlight' # inFlight => inFlight = c,
           missed => missed',
           ~missed' /\ stored # NoSnapshot => call[c].pc # "after" /\ call[c].pc # "queued",
           ~missed' /\ Reads(c) => call'[c].pc \in Reading
    PROVE  Currency'
<1> DEFINE my == call[c]
           me == call'[c]
<1>1. /\ \A x \in Calls \ {c} : call'[x] = call[x]
      /\ me.pc # "queued"
      /\ me.pc \in Reading => my.pc \in Reading /\ me.since = my.since /\ me.taskId = my.taskId
      /\ me.pc \in Reading => \/ me.read = my.read
                              \/ my.pc = "reading" /\ me.read = version[my.taskId]
  BY DEF Quiet, Started
<1>2. CallOK(my, version, bindings, refreshed) /\ CallOK(me, version, bindings, refreshed)
  BY DEF Control
<1>3. Good' => Good
  BY DEF Good
<1>4. \A x \in Calls \ {c} : (Due(x) <=> Due(x)') /\ (Reads(x) <=> Reads(x)')
  BY <1>1, DueIs
<1>5. Good' => ~Due(c)
  BY DEF Good, Due
<1>6. Good' /\ Coming => Coming'
  BY <1>4, <1>5 DEF Coming
<1>7. Good' /\ Reads(c) => Reads(c)'
  BY <1>1 DEF Good, Reads
<1>8. CurrentOrComing'
  BY <1>3, <1>4, <1>6, <1>7 DEF CurrentOrComing, Currency
<1>9. ASSUME Good', ~Coming', NEW e \in Calls, Reads(e)', ~Overtaken(e)'
      PROVE  call'[e].pc = "reading" \/ call'[e].read = version'[stored'.task]
  <2>1. inFlight' = e /\ call'[e].since = bindings'
    BY <1>9 DEF Overtaken
  <2>2. e # NoCall
    BY SidebarAssumption
  <2>3. CASE e = c
    <3>1. me.pc \in Reading /\ me.taskId = stored.task
      BY <1>9, <2>3 DEF Reads
    <3>2. inFlight = c
      BY <2>1, <2>2, <2>3 DEF Quiet
    <3>3. Reads(c) /\ ~Overtaken(c)
      BY <1>1, <2>1, <2>3, <3>1, <3>2 DEF Reads, Overtaken
    <3>4. my.pc = "reading" \/ my.read = version[stored.task]
      BY <1>3, <1>6, <1>9, <3>3 DEF ReadIsCurrent, Currency
    <3>5. CASE my.pc = "reading"
      <4>1. my.read = 0
        BY <1>2, <3>5 DEF CallOK
      <4>2. me.pc # "reading" => me.read # 0
        BY <1>2, <3>1 DEF CallOK, Reading
      <4> QED
        BY <1>1, <2>3, <3>1, <4>1, <4>2
    <3>6. CASE my.pc # "reading"
      BY <1>1, <2>3, <3>1, <3>4, <3>6
    <3> QED
      BY <3>5, <3>6
  <2>4. CASE e # c
    <3>1. inFlight = e /\ call'[e] = call[e]
      BY <1>1, <2>1, <2>2, <2>4 DEF Quiet
    <3>2. Reads(e) /\ ~Overtaken(e)
      BY <1>4, <1>9, <2>1, <2>4, <3>1 DEF Overtaken
    <3> QED
      BY <1>3, <1>6, <1>9, <3>1, <3>2 DEF ReadIsCurrent, Currency
  <2> QED
    BY <2>3, <2>4
<1>10. ReadIsCurrent'
  BY <1>9 DEF ReadIsCurrent
<1>11. OthersWereRead'
  BY <1>1 DEF OthersWereRead, Currency
<1> QED
  BY <1>8, <1>10, <1>11 DEF Currency

LEMMA CalmCurrency ==
    ASSUME TypeOK, Control, Control', Currency, NEW c \in Calls,
           \/ CliReads(c) \/ ReadFails(c) \/ Check(c) \/ Discard(c) \/ AdoptedReadEnds(c)
           \/ \E p \in Publication : Update(c, p)
           \/ Lookup(c) \/ Refuse(c) \/ NothingBound(c)
           \/ Poll(c) \/ AnswerFromStorage(c) \/ AnswerAfterRefresh(c)
           \/ SecurityAgent(c) \/ FindTask(c) \/ Judge(c) \/ PassUnjudged(c)
    PROVE  Currency'
<1> DEFINE my == call[c]
<1>1. Quiet(c) /\ my \in CallRecord /\ CallOK(my, version, bindings, refreshed)
  BY QuietSteps, KnowsItself
<1>2. UNCHANGED <<version, stored, refreshed, bindings, overtaken>>
  BY DEF CliReads, ReadFails, Check, Discard, EndRead, AdoptedReadEnds, Update, Lookup, Refuse, NothingBound,
         Poll, AnswerFromStorage, AnswerAfterRefresh, SecurityAgent, FindTask, Judge, PassUnjudged,
         unchangedShared, unchangedHistory
<1>3. inFlight' # inFlight => inFlight = c
  BY DEF CliReads, ReadFails, Check, Discard, EndRead, AdoptedReadEnds, Update, Lookup, Refuse, NothingBound,
         Poll, AnswerFromStorage, AnswerAfterRefresh, SecurityAgent, FindTask, Judge, PassUnjudged,
         unchangedShared
<1>4. missed => missed'
  BY DEF CliReads, ReadFails, Check, Discard, EndRead, AdoptedReadEnds, Update, Lookup, Refuse, NothingBound,
         Poll, AnswerFromStorage, AnswerAfterRefresh, SecurityAgent, FindTask, Judge, PassUnjudged,
         unchangedHistory
<1>5. CASE ReadFails(c)
  BY <1>1, <1>2, <1>3, <1>4, <1>5, QuietCurrency DEF ReadFails
<1>6. CASE CliReads(c) \/ Check(c)
  <2>1. my.pc \in {"reading", "answered"}
    BY <1>6 DEF CliReads, Check
  <2>2. call'[c].pc \in Reading
    BY <1>1, <1>6 DEF CliReads, Check, Set, TypeOK, CallRecord, Reading
  <2> QED
    BY <1>1, <1>2, <1>3, <1>4, <2>1, <2>2, QuietCurrency
<1>7. CASE Refuse(c)
  <2>1. my.pc \notin {"queued"} \cup Reading /\ (my.pc = "after" => missed')
    BY <1>1, <1>7 DEF Refuse, CallOK, Reading
  <2> QED
    BY <1>1, <1>2, <1>3, <1>4, <2>1, QuietCurrency DEF Reads
<1>8. CASE NothingBound(c)
  <2>1. stored = NoSnapshot /\ my.pc \notin Reading
    BY <1>8 DEF NothingBound, Reading
  <2> QED
    BY <1>1, <1>2, <1>3, <1>4, <2>1, QuietCurrency DEF Reads
<1>9. CASE Discard(c)
  <2>1. my.pc = "answered" /\ ~Reads(c)
    BY <1>9 DEF Discard, Reads
  <2> QED
    BY <1>1, <1>2, <1>3, <1>4, <2>1, QuietCurrency
<1>10. CASE \/ AdoptedReadEnds(c)
            \/ \E p \in Publication : Update(c, p)
            \/ Lookup(c) \/ Poll(c) \/ AnswerFromStorage(c) \/ AnswerAfterRefresh(c)
            \/ SecurityAgent(c) \/ FindTask(c) \/ Judge(c) \/ PassUnjudged(c)
  <2>1. my.pc \notin {"after", "queued"} \cup Reading
    BY <1>10 DEF AdoptedReadEnds, Update, Lookup, Poll, AnswerFromStorage, AnswerAfterRefresh, SecurityAgent,
                FindTask, Judge, PassUnjudged, Reading
  <2> QED
    BY <1>1, <1>2, <1>3, <1>4, <2>1, QuietCurrency DEF Reads
<1> QED
  BY <1>5, <1>6, <1>7, <1>8, <1>9, <1>10

LEMMA ClearCurrency ==
    ASSUME TypeOK, NEW c \in Calls, Clear(c)
    PROVE  Currency'
<1>1. stored' = NoSnapshot
  BY DEF Clear
<1> QED
  BY <1>1 DEF Currency, CurrentOrComing, ReadIsCurrent, OthersWereRead, Good

LEMMA StoreCurrency ==
    ASSUME TypeOK, Control, BindingKept, CheckedForWanted, Currency, NEW c \in Calls, Store(c)
    PROVE  Currency'
<1> DEFINE my == call[c]
<1>1. my.pc = "checked" /\ my.taskId \in Tasks /\ refreshed
  BY KnowsItself DEF Store, CallOK, Reading
<1>2. /\ \A x \in Calls \ {c} : call'[x] = call[x]
      /\ call'[c].pc \in {"reread", "done"}
  BY SetIs, ResumedIs DEF Store, EndRead
<1>3. /\ version' = version /\ refreshed' = refreshed /\ missed' = missed
      /\ stored' = Summary(my.taskId, my.read)
  BY DEF Store, EndRead
<1>4. ASSUME Good'
      PROVE  /\ Good /\ stored.task = my.taskId /\ stored'.task = my.taskId /\ stored'.version = my.read
             /\ inFlight' = NoCall /\ ~Overtaken(c)
  <2>1. ~overtaken /\ ~Overtaken(c)
    BY <1>4 DEF Good, Store
  <2>2. stored.task = wanted /\ my.taskId = wanted
    BY <1>1, <2>1 DEF BindingKept, CheckedForWanted, Overtaken
  <2>3. stored # NoSnapshot
    BY <1>1, <2>2, SidebarAssumption DEF NoSnapshot
  <2>4. inFlight' = NoCall
    BY <2>1 DEF Overtaken, Store, EndRead
  <2> QED
    BY <1>1, <1>3, <1>4, <2>1, <2>2, <2>3, <2>4 DEF Good, Summary
<1>5. ASSUME Good', Coming
      PROVE  Coming'
  <2>1. PICK h \in Calls : Due(h)
    BY <1>5 DEF Coming
  <2>2. h # c
    BY <1>1, <2>1 DEF Due
  <2>3. Due(h)'
    BY <1>2, <1>3, <1>4, <1>5, <2>1, <2>2 DEF Due
  <2> QED
    BY <2>3 DEF Coming
<1>6. CurrentOrComing'
  <2>1. ASSUME Good', ~Coming
        PROVE  stored'.version = version'[stored'.task]
    <3>1. Reads(c) /\ ~Overtaken(c) /\ my.pc # "reading"
      BY <1>1, <1>4, <2>1 DEF Reads, Reading
    <3>2. my.read = version[stored.task]
      BY <1>4, <2>1, <3>1 DEF Currency, ReadIsCurrent
    <3> QED
      BY <1>3, <1>4, <2>1, <3>2
  <2> QED
    BY <1>5, <2>1 DEF CurrentOrComing
<1>7. ReadIsCurrent'
  <2>1. \A e \in Calls : e # NoCall
    BY SidebarAssumption
  <2> QED
    BY <1>4, <2>1 DEF ReadIsCurrent, Overtaken
<1>8. OthersWereRead'
  BY <1>1, <1>3 DEF OthersWereRead
<1> QED
  BY <1>6, <1>7, <1>8 DEF Currency

LEMMA LineCurrency ==
    ASSUME TypeOK, Control, Currency, NEW c \in Calls, Line(c)
    PROVE  Currency'
<1> DEFINE my == call[c]
           me == [my EXCEPT !.pc = "queued", !.seen = stored, !.previous = mutations, !.reading = inFlight]
<1>1. my \in CallRecord /\ my.pc = "after" /\ inFlight # c
  BY KnowsItself DEF Line, Reading
<1>2. me.pc = "queued" /\ me.seen = stored /\ me.kind = my.kind /\ me.asked = my.asked
  BY <1>1 DEF CallRecord
<1>3. call'[c] = me /\ \A x \in Calls \ {c} : call'[x] = call[x]
  BY DEF Line, Set, TypeOK
<1>4. UNCHANGED <<version, stored, inFlight, refreshed, bindings, overtaken, missed>>
  BY DEF Line, unchangedHistory
<1> HIDE DEF me
<1>5. Good' => Good
  BY <1>4 DEF Good
<1>6. \A x \in Calls \ {c} : (Due(x) <=> Due(x)') /\ (Reads(x) <=> Reads(x)')
  BY <1>3, <1>4, DueIs
<1>7. (Due(c) => Due(c)') /\ ~Reads(c) /\ ~Reads(c)'
  BY <1>1, <1>2, <1>3, <1>4 DEF Due, Reads, Reading
<1>8. Coming => Coming'
  BY <1>6, <1>7 DEF Coming
<1>9. CurrentOrComing'
  BY <1>4, <1>5, <1>6, <1>7, <1>8 DEF CurrentOrComing, Currency
<1>10. ReadIsCurrent'
  <2>1. ASSUME NEW e \in Calls, Reads(e)', ~Overtaken(e)'
        PROVE  Reads(e) /\ ~Overtaken(e) /\ call'[e] = call[e]
    BY <1>3, <1>4, <1>6, <1>7, <2>1 DEF Overtaken
  <2> QED
    BY <1>4, <1>5, <1>8, <2>1 DEF ReadIsCurrent, Currency
<1>11. OthersWereRead'
  BY <1>2, <1>3, <1>4 DEF OthersWereRead, Currency
<1> QED
  BY <1>9, <1>10, <1>11 DEF Currency

LEMMA ShellCurrency ==
    ASSUME TypeOK, Control, Currency, NEW c \in Calls, NEW t \in Tasks, ShellMutates(c, t)
    PROVE  Currency'
<1> DEFINE my == call[c]
           me == [my EXCEPT !.kind = "after", !.pc = "after", !.asked = Summary(t, version'[t])]
<1>1. my \in CallRecord /\ my.pc = "idle"
  BY KnowsItself DEF ShellMutates
<1>2. me.pc = "after" /\ me.kind = "after" /\ me.asked = Summary(t, version'[t])
  BY <1>1 DEF CallRecord
<1>3. call'[c] = me /\ \A x \in Calls \ {c} : call'[x] = call[x]
  BY DEF ShellMutates, Set, TypeOK
<1>4. UNCHANGED <<stored, inFlight, refreshed, bindings, overtaken, missed>>
  BY DEF ShellMutates, unchangedShared, unchangedHistory
<1> HIDE DEF me
<1>5. Good' => Good
  BY <1>4 DEF Good
<1>6. OthersWereRead'
  BY <1>2, <1>3, <1>4 DEF OthersWereRead, Currency
<1>7. CASE stored.task = t
  <2>1. Due(c)'
    BY <1>2, <1>3, <1>4, <1>7 DEF Due
  <2> QED
    BY <1>6, <2>1 DEF Coming, Currency, CurrentOrComing, ReadIsCurrent
<1>8. CASE stored.task # t
  <2>1. stored # NoSnapshot => version'[stored.task] = version[stored.task]
    BY <1>8 DEF ShellMutates, TypeOK, SharedOK
  <2>2. stored # NoSnapshot =>
            \A x \in Calls \ {c} : (Due(x) <=> Due(x)') /\ (Reads(x) <=> Reads(x)')
    BY <1>3, <1>4, <2>1 DEF Due, Reads
  <2>3. ~Due(c) /\ ~Reads(c) /\ ~Reads(c)'
    BY <1>1, <1>2, <1>3 DEF Due, Reads, Reading
  <2>4. stored # NoSnapshot /\ Coming => Coming'
    BY <2>2, <2>3 DEF Coming
  <2>5. CurrentOrComing'
    BY <1>4, <1>5, <2>1, <2>2, <2>3, <2>4 DEF CurrentOrComing, Currency, Good
  <2>6. ReadIsCurrent'
    <3>1. ASSUME Good, NEW e \in Calls, Reads(e)', ~Overtaken(e)'
          PROVE  Reads(e) /\ ~Overtaken(e) /\ call'[e] = call[e]
      BY <1>3, <1>4, <2>2, <2>3, <3>1 DEF Overtaken, Good
    <3> QED
      BY <1>4, <1>5, <2>1, <2>4, <3>1 DEF ReadIsCurrent, Currency, Good
  <2> QED
    BY <1>6, <2>5, <2>6 DEF Currency
<1> QED
  BY <1>7, <1>8

\* A hook or a poll refreshes.
LEMMA AdoptCurrency ==
    ASSUME TypeOK, Control, LateReads, Currency, NEW c \in Calls, NEW t \in Tasks,
           Adopt(c, t, call[c]),
           \/ call[c].pc = "queued" /\ Waited(c) /\ t = call[c].seen.task
           \/ call[c].pc = "poll",
           UNCHANGED <<version, stored, bindings, overtaken, missed>>
    PROVE  Currency'
<1> DEFINE my == call[c]
           me == [my EXCEPT !.pc = "adopting", !.entry = inFlight]
<1>1. my \in CallRecord /\ inFlight # c
  BY KnowsItself DEF Reading
<1>2. me.pc = "adopting"
  BY <1>1 DEF CallRecord
<1>3. call'[c] = me /\ \A x \in Calls \ {c} : call'[x] = call[x]
  BY DEF Adopt, Set, TypeOK
<1>4. inFlight \in Calls /\ call[inFlight].pc \in Reading /\ call[inFlight].taskId = t
  BY DEF Adopt, Underway, Control, Links, TypeOK, SharedOK
<1>5. inFlight' = inFlight /\ refreshed' = refreshed
  BY DEF Adopt
<1> HIDE DEF me
<1>6. Good' => Good
  BY <1>5 DEF Good
<1>7. \A x \in Calls \ {c} : (Due(x) <=> Due(x)') /\ (Reads(x) <=> Reads(x)')
  BY <1>3, DueIs
<1>8. ~Reads(c) /\ ~Reads(c)'
  BY <1>2, <1>3 DEF Reads, Reading
<1>9. OthersWereRead'
  BY <1>2, <1>3, <1>5 DEF OthersWereRead, Currency
<1>10. ASSUME NEW e \in Calls, Reads(e)', ~Overtaken(e)'
       PROVE  Reads(e) /\ ~Overtaken(e) /\ call'[e] = call[e] /\ e = inFlight
  BY <1>3, <1>5, <1>7, <1>8, <1>10 DEF Overtaken
<1>11. CASE Due(c)
  <2>1. my.pc = "queued" /\ my.kind = "after" /\ t = stored.task /\ Waited(c)
        /\ my.asked.task = t /\ my.asked.version = version[t]
    BY <1>11 DEF Due, Summary
  <2>2. Reads(inFlight)
    BY <1>4, <2>1 DEF Reads
  <2>3. Sees(my, call[inFlight])
    <3>1. my.reading # inFlight
      BY <1>4, <2>1, SidebarAssumption DEF Waited, Over, Reading
    <3> QED
      BY <1>4, <2>1, <3>1 DEF LateReads
  <2>4. call[inFlight].pc = "reading" \/ call[inFlight].read = version[t]
    <3>1. CASE call[inFlight].pc = "reading"
      BY <3>1
    <3>2. CASE call[inFlight].pc \in {"answered", "checked"}
      <4>1. call[inFlight].read \in 1..version[t] /\ version[t] \in Nat
        BY <1>4, <3>2, SidebarAssumption DEF Control, CallOK, TypeOK, SharedOK
      <4>2. call[inFlight].read >= version[t]
        BY <1>4, <2>1, <2>3, <4>1 DEF Sees
      <4> QED
        BY <4>1, <4>2
    <3> QED
      BY <1>4, <3>1, <3>2 DEF Reading
  <2>5. CurrentOrComing'
    <3>1. call'[inFlight] = call[inFlight]
      BY <1>1, <1>3, <1>4
    <3>2. \E e \in Calls : Reads(e)'
      BY <1>1, <1>4, <1>7, <2>2
    <3> QED
      BY <3>2 DEF CurrentOrComing
  <2>6. ReadIsCurrent'
    BY <1>10, <2>1, <2>4 DEF ReadIsCurrent
  <2> QED
    BY <1>9, <2>5, <2>6 DEF Currency
<1>12. CASE ~Due(c)
  <2>1. Coming => Coming'
    BY <1>7, <1>12 DEF Coming
  <2>2. CurrentOrComing'
    BY <1>6, <1>7, <1>8, <2>1 DEF CurrentOrComing, Currency
  <2>3. ReadIsCurrent'
    BY <1>6, <1>10, <2>1 DEF ReadIsCurrent, Currency
  <2> QED
    BY <1>9, <2>2, <2>3 DEF Currency
<1> QED
  BY <1>11, <1>12

\* A read that starts overtakes every other.
LEMMA StartIsAlone ==
    ASSUME TypeOK, NEW c \in Calls, NEW t \in Tasks, StartRead(c, t, call[c])
    PROVE  /\ call'[c].pc = "reading" /\ call'[c].taskId = t
           /\ \A x \in Calls \ {c} : call'[x] = call[x]
           /\ refreshed' = TRUE
           /\ ReadIsCurrent' /\ OthersWereRead'
<1> DEFINE my == call[c]
           me == [my EXCEPT !.pc = "reading", !.entry = c, !.taskId = t, !.since = bindings']
<1>1. me.pc = "reading" /\ me.taskId = t
  BY DEF TypeOK, CallRecord
<1>2. call'[c] = me /\ \A x \in Calls \ {c} : call'[x] = call[x]
  BY DEF StartRead, Set, TypeOK
<1>3. inFlight' = c /\ refreshed' = TRUE
  BY DEF StartRead
<1> HIDE DEF me
<1>4. ReadIsCurrent'
  BY <1>1, <1>2, <1>3 DEF ReadIsCurrent, Overtaken
<1>5. OthersWereRead'
  BY <1>3 DEF OthersWereRead
<1> QED
  BY <1>1, <1>2, <1>3, <1>4, <1>5

LEMMA StartCurrency ==
    ASSUME TypeOK, Control, Currency, NEW c \in Calls, NEW t \in Tasks,
           StartRead(c, t, call[c]),
           \/ call[c].pc = "queued" /\ t = call[c].seen.task
           \/ call[c].pc = "poll" /\ t = stored.task,
           UNCHANGED <<version, stored, bindings, overtaken, missed>>
    PROVE  Currency'
<1>1. CASE t = stored.task
  <2>1. Reads(c)'
    BY <1>1, StartIsAlone DEF Reads, Reading
  <2> QED
    BY <2>1, StartIsAlone DEF Currency, CurrentOrComing
<1>2. CASE t # stored.task
  <2>1. Good' => Good
    BY <1>2 DEF Good, Currency, OthersWereRead
  <2>2. \A x \in Calls \ {c} : (Due(x) <=> Due(x)') /\ (Reads(x) <=> Reads(x)')
    BY StartIsAlone, DueIs
  <2>3. ~Due(c) /\ ~Reads(c)
    BY <1>2 DEF Due, Reads, Reading
  <2>4. Coming => Coming'
    BY <2>2, <2>3 DEF Coming
  <2>5. CurrentOrComing'
    BY <2>1, <2>2, <2>3, <2>4 DEF Currency, CurrentOrComing
  <2> QED
    BY <2>5, StartIsAlone DEF Currency
<1> QED
  BY <1>1, <1>2

LEMMA PublishCurrency ==
    ASSUME TypeOK, Control, BindingKept, Currency, NEW c \in Calls, Publish(c)
    PROVE  Currency'
<1> DEFINE my == call[c]
           t  == my.asked.task
<1>1. my \in CallRecord /\ t \in Tasks /\ my.pc = "publish"
  BY KnowsItself DEF Publish, CallOK
<1>2. /\ stored'.task = t /\ Rebind(t) /\ Refresh(c, t, my)
      /\ UNCHANGED <<version, overtaken, missed>>
  BY DEF Publish
<1> HIDE DEF t
<1>3. CASE StartRead(c, t, my)
  <2>1. Reads(c)'
    BY <1>1, <1>2, <1>3, StartIsAlone DEF Reads, Reading
  <2> QED
    BY <1>1, <1>3, <2>1, StartIsAlone DEF Currency, CurrentOrComing
<1>4. CASE Adopt(c, t, my)
  <2> DEFINE me == [my EXCEPT !.pc = "adopting", !.entry = inFlight]
  <2>1. me.pc = "adopting" /\ inFlight # c
    BY <1>1, KnowsItself DEF CallRecord, Reading
  <2>2. call'[c] = me /\ \A x \in Calls \ {c} : call'[x] = call[x]
    BY <1>4 DEF Adopt, Set, TypeOK
  <2> HIDE DEF me
  <2>3. inFlight \in Calls /\ call[inFlight].pc \in Reading /\ call[inFlight].taskId = t
    BY <1>4 DEF Adopt, Underway, Control, Links, TypeOK, SharedOK
  <2>4. inFlight' = inFlight /\ refreshed' = refreshed
    BY <1>4 DEF Adopt
  <2>5. refreshed /\ call[inFlight].since <= bindings /\ bindings \in Nat
    BY <2>3 DEF Control, CallOK, Reading, TypeOK, SharedOK
  <2>6. CurrentOrComing'
    <3>1. \E e \in Calls : Reads(e)'
      BY <1>2, <2>1, <2>2, <2>3 DEF Reads
    <3> QED
      BY <3>1 DEF CurrentOrComing
  <2>7. ASSUME Good', NEW e \in Calls, Reads(e)', ~Overtaken(e)'
        PROVE  /\ Good /\ stored.task = t
               /\ Reads(e) /\ ~Overtaken(e) /\ call'[e] = call[e]
    <3>1. e = inFlight /\ call'[e] = call[e] /\ call[e].since = bindings'
      BY <2>1, <2>2, <2>4, <2>7 DEF Overtaken
    <3>2. t = wanted /\ bindings' = bindings
      BY <1>2, <2>5, <3>1 DEF Rebind
    <3>3. stored.task = t /\ stored # NoSnapshot
      BY <1>1, <1>2, <2>7, <3>2, SidebarAssumption DEF BindingKept, Good, NoSnapshot
    <3> QED
      BY <1>2, <2>3, <2>4, <2>7, <3>1, <3>2, <3>3 DEF Good, Reads, Overtaken
  <2>8. ASSUME stored.task = t, Coming
        PROVE  Coming'
    <3>1. PICK h \in Calls : Due(h)
      BY <2>8 DEF Coming
    <3>2. h # c
      BY <1>1, <3>1 DEF Due
    <3>3. Due(h)'
      BY <1>2, <2>2, <2>8, <3>1, <3>2 DEF Due
    <3> QED
      BY <3>3 DEF Coming
  <2>9. ReadIsCurrent'
    BY <1>2, <2>7, <2>8 DEF ReadIsCurrent, Currency
  <2>10. OthersWereRead'
    BY <2>4, <2>5 DEF OthersWereRead
  <2> QED
    BY <2>6, <2>9, <2>10 DEF Currency
<1> QED
  BY <1>2, <1>3, <1>4 DEF Refresh

LEMMA CurrencyNext ==
    TypeOK /\ Control /\ LateReads /\ BindingKept /\ CheckedForWanted /\ Currency /\ [Next]_vars => Currency'
<1> SUFFICES ASSUME TypeOK, Control, LateReads, BindingKept, CheckedForWanted, Currency, [Next]_vars
             PROVE  Currency'
  OBVIOUS
<1>1. Control'
  BY ControlNext
<1>2. CASE UNCHANGED vars
  BY <1>2 DEF vars, code, Currency, CurrentOrComing, ReadIsCurrent, OthersWereRead, Good, Coming, Due, Reads,
              Overtaken
<1>3. ASSUME NEW t \in Tasks, MutateElsewhere(t)
      PROVE  Currency'
  <2>1. ~Good' /\ stored' = stored /\ call' = call /\ refreshed' = refreshed
    BY <1>3 DEF MutateElsewhere, code, Good
  <2> QED
    BY <2>1 DEF Currency, CurrentOrComing, ReadIsCurrent, OthersWereRead
<1>4. CASE Restart
  <2>1. ~Good'
    BY <1>4 DEF Restart, Good
  <2>2. \A c \in Calls : call'[c].pc # "queued"
    BY <1>4, RestartForgets
  <2> QED
    BY <2>1, <2>2 DEF Currency, CurrentOrComing, ReadIsCurrent, OthersWereRead
<1>5. ASSUME NEW c \in Calls,
             \/ \E p \in Publication : Update(c, p)
             \/ \E t \in Tasks : ShellMutates(c, t)
             \/ Poll(c)
             \/ SecurityAgent(c)
             \/ Step(c)
      PROVE  Currency'
  <2>1. CASE RefreshAfterMutation(c)
    <3>1. call[c].seen.task \in Tasks
      BY <2>1, KnowsItself DEF RefreshAfterMutation, CallOK
    <3> QED
      BY <2>1, <3>1, AdoptCurrency, StartCurrency DEF RefreshAfterMutation, Refresh, unchangedHistory
  <2>2. CASE RefreshForPoll(c)
    <3>1. stored.task \in Tasks
      BY <2>2 DEF RefreshForPoll, TypeOK, SharedOK
    <3> QED
      BY <2>2, <3>1, AdoptCurrency, StartCurrency DEF RefreshForPoll, Refresh, unchangedHistory
  <2> QED
    BY <1>1, <1>5, <2>1, <2>2, CalmCurrency, ClearCurrency, StoreCurrency, LineCurrency, ShellCurrency,
       PublishCurrency DEF Step
<1> QED
  BY <1>2, <1>3, <1>4, <1>5 DEF Next

LEMMA CurrencyInit == Init => Currency
BY DEF Init, NewCall, Currency, CurrentOrComing, ReadIsCurrent, OthersWereRead, Good

\* When every call has answered, what this server has refreshed is the task.
THEOREM SettledSnapshotIsCurrent == Spec => []SettledIsCurrent
<1> DEFINE Inv == /\ TypeOK /\ Control /\ LateReads /\ AdoptedReads
                  /\ BindingKept /\ CheckedForWanted /\ Currency
<1>1. Init => Inv
  BY ControlInit, SeesInit, BindingInit, CurrencyInit
<1>2. Inv /\ [Next]_vars => Inv'
  BY ControlNext, SeesNext, BindingNext, CurrencyNext
<1>3. Inv => SettledIsCurrent
  BY DEF Currency, CurrentOrComing, Good, Coming, Due, Reads, Reading, Settled, SettledIsCurrent
<1> QED
  BY <1>1, <1>2, <1>3, PTL DEF Spec

-----------------------------------------------------------------------------
(* The controller in the terminal. *)

\* Only the last request has its answer shown, and it asks for the session on screen.
LastIsForThisSession ==
    /\ token \in Nat
    /\ \A r \in pending : /\ r.token \in 0..token
                          /\ r.token = token => r.session = sessionID
    /\ ShowsThisSession

LEMMA ControllerStep ==
    LastIsForThisSession /\ [ControllerNext]_controllerVars => LastIsForThisSession'
<1> SUFFICES ASSUME LastIsForThisSession, [ControllerNext]_controllerVars
             PROVE  LastIsForThisSession'
  OBVIOUS
<1> USE DEF LastIsForThisSession, ShowsThisSession, Answers
<1>1. CASE UNCHANGED controllerVars
  BY <1>1 DEF controllerVars
<1>2. ASSUME NEW next \in Sessions, SetSession(next)
      PROVE  LastIsForThisSession'
  BY <1>2 DEF SetSession, Message
<1>3. CASE SetBadSession
  BY <1>3 DEF SetBadSession, Message
<1>4. CASE Tick
  BY <1>4 DEF Tick
<1>5. CASE Dispose
  BY <1>5 DEF Dispose
<1>6. ASSUME NEW r \in pending, NEW what \in {"task", "none", "error"}, Answer(r, what)
      PROVE  LastIsForThisSession'
  BY <1>6 DEF Answer
<1> QED
  BY <1>1, <1>2, <1>3, <1>4, <1>5, <1>6 DEF ControllerNext

\* However late the answers, the screen shows the task of the session it is on.
THEOREM ScreenShowsThisSession == ControllerSpec => []ShowsThisSession
<1>1. ControllerInit => LastIsForThisSession
  BY DEF ControllerInit, LastIsForThisSession, ShowsThisSession, Answers, Message
<1>2. LastIsForThisSession => ShowsThisSession
  BY DEF LastIsForThisSession
<1> QED
  BY <1>1, <1>2, ControllerStep, PTL DEF ControllerSpec

-----------------------------------------------------------------------------
(* The classifier. *)

\* Until the call has settled it has no result.
Going(me) == me \in [pc : {me.pc}, key : {me.key}, bytes : {me.bytes}, result : {NoResult}]

Unsettled == ask.pc # "settled" => Going(ask)

LEMMA GoesOn ==
    ASSUME NEW me, Going(me), NEW p, NEW b
    PROVE  /\ me.result.status # "ok"
           /\ Going([me EXCEPT !.pc = p])
           /\ Going([me EXCEPT !.bytes = b])
<1>1. me.result = NoResult /\ NoResult.status = "none"
  BY DEF Going, NoResult
<1>2. Going([me EXCEPT !.pc = p])
  BY DEF Going
<1>3. Going([me EXCEPT !.bytes = b])
  BY DEF Going
<1> QED
  BY <1>1, <1>2, <1>3

LEMMA IdleGoesOn == Going(Idle)
BY DEF Going, Idle

LEMMA SettleIs ==
    ASSUME NEW result
    PROVE  Settle(result).pc = "settled" /\ Settle(result).result = result
BY DEF Settle, Idle

LEMMA RefusalsAreNotOk ==
    /\ Throw.pc = "settled" /\ Throw.result.status # "ok"
    /\ \A reason : Unavailable(reason).pc = "settled" /\ Unavailable(reason).result.status # "ok"
<1>1. [NoResult EXCEPT !.status = "thrown"].status # "ok"
  BY DEF NoResult
<1>2. \A reason : [NoResult EXCEPT !.status = "unavailable", !.reason = reason].status # "ok"
  BY DEF NoResult
<1>3. Throw.pc = "settled" /\ Throw.result.status # "ok"
  BY <1>1, SettleIs DEF Throw
<1>4. ASSUME NEW reason
      PROVE  Unavailable(reason).pc = "settled" /\ Unavailable(reason).result.status # "ok"
  <2>1. [NoResult EXCEPT !.status = "unavailable", !.reason = reason].status # "ok"
    BY <1>2
  <2> QED
    BY <2>1, SettleIs DEF Unavailable
<1> QED
  BY <1>3, <1>4

\* The best of the scores is one of them, and none is better.
LEMMA TopIsBest ==
    ASSUME NEW scores, \A id \in DOMAIN scores : scores[id] \in Score, NEW best \in DOMAIN scores
    PROVE  \A other \in DOMAIN scores : scores[other] <= Top(scores)
<1> DEFINE S == {scores[id] : id \in DOMAIN scores}
<1>1. S \subseteq Score /\ scores[best] \in S
  OBVIOUS
<1>2. \E x \in S : \A y \in S : x >= y
  <2>1. CASE 2 \in S
    BY <1>1, <2>1 DEF Score
  <2>2. CASE 2 \notin S /\ 1 \in S
    BY <1>1, <2>2 DEF Score
  <2>3. CASE 2 \notin S /\ 1 \notin S
    BY <1>1, <2>3 DEF Score
  <2> QED
    BY <2>1, <2>2, <2>3
<1> HIDE DEF S
<1>3. Max(S) \in S /\ \A y \in S : Max(S) >= y
  BY <1>2 DEF Max
<1>4. \A y \in S : y <= Max(S)
  BY <1>1, <1>3 DEF Score
<1> QED
  BY <1>4 DEF Top, S

\* What an answer that parseChoice accepts becomes.
LEMMA VerdictIsProper ==
    ASSUME NEW body, Classification(body).result.status = "ok"
    PROVE  /\ \A q \in Questions : Proper(q, body.answers[q])
           /\ Classification(body).result.choices = [q \in Questions |-> Chosen(body.answers[q])]
<1> DEFINE result == [NoResult EXCEPT !.status = "ok",
                                      !.choices = [q \in Questions |-> Chosen(body.answers[q])]]
<1>1. result.choices = [q \in Questions |-> Chosen(body.answers[q])]
  BY DEF NoResult
<1> HIDE DEF result
<1>2. body.pinned /\ \A q \in Questions : Proper(q, body.answers[q])
  BY RefusalsAreNotOk DEF Classification
<1>3. Classification(body) = Settle(result)
  BY <1>2 DEF Classification, result
<1> QED
  BY <1>1, <1>2, <1>3, SettleIs

LEMMA BodyEndsWell ==
    ASSUME NEW body \in Bodies, BodyEnds(body)
    PROVE  VerdictIsTheProviders'
<1> SUFFICES ASSUME ask'.result.status = "ok", NEW q \in Questions
             PROVE  LET answer == given'.answers[q]
                        id == IF ask'.result.choices[q] = Nothing THEN NoneApplies
                              ELSE ask'.result.choices[q]
                    IN  /\ id \in Offered(q) \cap DOMAIN answer.scores
                        /\ \A other \in DOMAIN answer.scores : answer.scores[other] <= answer.scores[id]
  BY DEF VerdictIsTheProviders
<1> DEFINE answer == body.answers[q]
<1>1. given' = body /\ ask' = Classification(body)
  BY DEF BodyEnds
<1>2. Proper(q, answer) /\ ask'.result.choices[q] = Chosen(answer)
  BY <1>1, VerdictIsProper
<1>3. answer.choice \in Offered(q) /\ DOMAIN answer.scores = Offered(q)
  BY <1>2 DEF Proper
<1>4. (IF Chosen(answer) = Nothing THEN NoneApplies ELSE Chosen(answer)) = answer.choice
  BY <1>3, ClassifierAssumption DEF Chosen, Offered
<1>5. \A other \in DOMAIN answer.scores : answer.scores[other] <= answer.scores[answer.choice]
  BY <1>2, <1>3, TopIsBest DEF Proper
<1> HIDE DEF answer
<1> QED
  BY <1>1, <1>2, <1>3, <1>4, <1>5 DEF answer

LEMMA ClassifierStep ==
    Unsettled /\ VerdictIsTheProviders /\ [ClassifierNext]_classifierVars
        => Unsettled' /\ VerdictIsTheProviders'
<1> SUFFICES ASSUME Unsettled, VerdictIsTheProviders, [ClassifierNext]_classifierVars
             PROVE  Unsettled' /\ VerdictIsTheProviders'
  OBVIOUS
<1>1. CASE UNCHANGED <<ask, given>>
  BY <1>1 DEF Unsettled, VerdictIsTheProviders
<1>2. ASSUME ask'.pc # "settled" => Going(ask'), ask'.result.status # "ok"
      PROVE  Unsettled' /\ VerdictIsTheProviders'
  BY <1>2 DEF Unsettled, VerdictIsTheProviders
<1>3. ASSUME Going(ask')
      PROVE  Unsettled' /\ VerdictIsTheProviders'
  BY <1>2, <1>3, GoesOn
<1>4. ASSUME ask' = Throw \/ \E reason : ask' = Unavailable(reason)
      PROVE  Unsettled' /\ VerdictIsTheProviders'
  BY <1>2, <1>4, RefusalsAreNotOk
<1>5. \A k : Going(Keyed(k)) \/ Keyed(k) = Unavailable("missing_api_key")
  <2> TAKE k
  <2>1. Going([Idle EXCEPT !.pc = "sending", !.key = k])
    BY DEF Idle, Going
  <2> QED
    BY <2>1 DEF Keyed
<1>6. CASE Classify
  <2>1. Going([Idle EXCEPT !.pc = "connecting"])
    BY GoesOn, IdleGoesOn
  <2> QED
    BY <1>3, <1>4, <1>6, <2>1 DEF Classify, Become
<1>7. CASE FallBack \/ ResolveConnection
  BY <1>3, <1>4, <1>5, <1>7 DEF FallBack, ResolveConnection, Become
<1>8. CASE FindConnection \/ Headers
  <2>1. Going([ask EXCEPT !.pc = "resolving"]) /\ Going([ask EXCEPT !.pc = "reading"])
    BY <1>8, GoesOn DEF FindConnection, Headers, Unsettled
  <2> QED
    BY <1>3, <1>8, <2>1 DEF FindConnection, Headers, Become
<1>9. CASE Send
  <2>1. Going([ask EXCEPT !.pc = "waiting"])
    BY <1>9, GoesOn DEF Send, Unsettled
  <2> QED
    BY <1>3, <1>4, <1>9, <2>1 DEF Send, Become
<1>10. CASE Chunk
  <2>1. Going([ask EXCEPT !.bytes = ask.bytes + 1])
    BY <1>10, GoesOn DEF Chunk, Unsettled
  <2> QED
    BY <1>3, <1>4, <1>10, <2>1 DEF Chunk, Become
<1>11. CASE ProviderFails \/ TimerFires
  BY <1>4, <1>11 DEF ProviderFails, TimerFires, Become
<1>12. ASSUME NEW body \in Bodies, BodyEnds(body)
       PROVE  Unsettled' /\ VerdictIsTheProviders'
  <2>1. Classification(body).pc = "settled"
    BY SettleIs, RefusalsAreNotOk DEF Classification
  <2> QED
    BY <1>12, <2>1, BodyEndsWell DEF BodyEnds, Unsettled
<1>13. CASE \E k \in Keys \cup {Nothing} : Connect(k)
  BY <1>1, <1>13 DEF Connect
<1> QED
  BY <1>1, <1>6, <1>7, <1>8, <1>9, <1>10, <1>11, <1>12, <1>13 DEF ClassifierNext, classifierVars

\* The classifier reports what the provider chose, and nothing else.
THEOREM ChoicesAreTheProviders == ClassifierSpec => []VerdictIsTheProviders
<1>1. ClassifierInit => Unsettled /\ VerdictIsTheProviders
  BY IdleGoesOn DEF ClassifierInit, Unsettled, VerdictIsTheProviders, Idle, NoResult
<1> QED
  BY <1>1, ClassifierStep, PTL DEF ClassifierSpec

=============================================================================
