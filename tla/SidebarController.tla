--------------------------- MODULE SidebarController ---------------------------
(***************************************************************************)
(* The terminal half of the task sidebar: createSessionTaskController asks *)
(* for the task of the session on screen at once and then every four       *)
(* seconds.  A request never ends another one: answers arrive in any       *)
(* order, or not at all, and a counter, the token, says whose answer is    *)
(* still wanted.  `read` and `publish` are the caller's; what an answer    *)
(* holds is abstracted to whether there is a task, none, or an error.      *)
(***************************************************************************)
EXTENDS Naturals

CONSTANTS
    Sessions,
    NoSession,      \* the empty string, and an argument that is no identifier
    MaxToken        \* bound on the requests explored

ASSUME ControllerAssumption == NoSession \notin Sessions /\ MaxToken \in Nat

VARIABLES
    sessionID, token, disposed,
    timer,          \* whether the interval is running
    pending,        \* the requests that have no answer yet
    shown           \* the last state given to publish, and the request it answers

controllerVars == <<sessionID, token, disposed, timer, pending, shown>>

Request == [token : Nat, session : Sessions]

\* What publish is given without a request: loading, or an unusable session.
Message(what) == [what |-> what, session |-> NoSession, token |-> 0]

ControllerInit ==
    /\ sessionID = NoSession
    /\ token = 0
    /\ disposed = FALSE
    /\ timer = FALSE
    /\ pending = {}
    /\ shown = Message("loading")

\* setSession: the old answers are disowned and the screen cleared first; then, for
\* a usable session, the first request leaves and the timer starts.
SetSession(next) ==
    /\ ~disposed
    /\ next # sessionID
    /\ sessionID' = next
    /\ shown' = Message("loading")
    /\ token' = token + 2
    /\ pending' = pending \cup {[token |-> token', session |-> next]}
    /\ timer' = TRUE
    /\ UNCHANGED disposed

\* Faulty: setSession leaves the token to the request it sends, and sends none.
SetBadSessionQuietly ==
    /\ ~disposed
    /\ sessionID' = NoSession
    /\ timer' = FALSE
    /\ shown' = Message("unavailable")
    /\ UNCHANGED <<disposed, token, pending>>

SetBadSession ==
    /\ ~disposed
    /\ token' = token + 1
    /\ sessionID' = NoSession
    /\ timer' = FALSE
    /\ shown' = Message("unavailable")
    /\ UNCHANGED <<disposed, pending>>

\* refresh, called by the timer
Tick ==
    /\ timer
    /\ token' = token + 1
    /\ pending' = pending \cup {[token |-> token', session |-> sessionID]}
    /\ UNCHANGED <<sessionID, disposed, timer, shown>>

\* The answer to a request, or its failure: published if it is the last request.
Answer(r, what) ==
    /\ pending' = pending \ {r}
    /\ shown' = IF ~disposed /\ r.token = token
                THEN [what |-> what, session |-> r.session, token |-> r.token]
                ELSE shown
    /\ UNCHANGED <<sessionID, token, disposed, timer>>

Dispose ==
    /\ disposed' = TRUE
    /\ token' = token + 1
    /\ timer' = FALSE
    /\ UNCHANGED <<sessionID, pending, shown>>

ControllerNext ==
    \/ /\ token + 2 <= MaxToken
       /\ \/ \E next \in Sessions : SetSession(next)
          \/ SetBadSession
          \/ Tick
          \/ Dispose
    \/ \E r \in pending, what \in {"task", "none", "error"} : Answer(r, what)

ControllerSpec == ControllerInit /\ [][ControllerNext]_controllerVars

-----------------------------------------------------------------------------
(* Properties.                                                                 *)

Answers == {"task", "none", "error"}

\* The screen never shows the task of another session than the one it is on, however
\* late the answers for the sessions before it ("Refresh the current session ... clear
\* stale data immediately, reject superseded async responses", design-tree.md S6).
ShowsThisSession == shown.what \in Answers => shown.session = sessionID
=============================================================================
