------------------------------ MODULE Classifier ------------------------------
(***************************************************************************)
(* The tool skynex_classify of the runtime plugin: it asks a model outside *)
(* to classify a request, and says "unavailable" instead of making a       *)
(* classification up when there is no credential or no answer in time.     *)
(*                                                                         *)
(* A call is a coroutine.  While it awaits the credential, a person may    *)
(* connect or disconnect the integration; while it awaits the provider,    *)
(* its timer may run out.  External: the integration, and the provider,    *)
(* which may answer anything, stop in the middle, or never end.            *)
(***************************************************************************)
EXTENDS Naturals, FiniteSets, FiniteSetsExt

CONSTANTS
    Settings,       \* what the option and the variable may say
    Keys,           \* what a credential may hold; Blank is trimmed to nothing
    Blank,
    Questions,
    Options,        \* Options[q]: the ids a question offers
    NoneApplies,    \* "none_of_the_above", offered with every question
    Bodies,         \* the JSON the provider may answer with
    MaxBytes,       \* MAX_RESPONSE_BYTES, in chunks
    Nothing

ASSUME ClassifierAssumption ==
    /\ Blank \in Keys /\ Nothing \notin Keys
    /\ \A q \in Questions : {NoneApplies, Nothing} \cap Options[q] = {}
    /\ MaxBytes \in Nat

VARIABLES
    enabled,        \* whether setup offered the tool
    credential,     \* what the integration holds, or Nothing
    inEnv,          \* TYPESAFE_API_KEY, or Nothing
    ask,            \* the call
    given           \* history: the body the provider ended with

classifierVars == <<enabled, credential, inEnv, ask, given>>

NoResult == [status |-> "none", reason |-> "none", choices |-> <<>>]

Idle == [pc |-> "idle", key |-> Nothing, bytes |-> 0, result |-> NoResult]

\* readToggle: the plugin's option decides, the environment where there is none;
\* what neither list knows leaves it on.
Toggle(option, variable) ==
    LET setting == IF option = Nothing THEN variable ELSE option
    IN  setting # "off"

ClassifierInit ==
    /\ \E setting \in Settings : enabled = Toggle(setting.option, setting.variable)
    /\ credential \in Keys \cup {Nothing}
    /\ inEnv \in Keys \cup {Nothing}
    /\ ask = Idle
    /\ given = Nothing

Become(record) == ask' = record /\ UNCHANGED <<enabled, credential, inEnv, given>>

Settle(result) == [Idle EXCEPT !.pc = "settled", !.result = result]

Throw == Settle([NoResult EXCEPT !.status = "thrown"])

Unavailable(reason) == Settle([NoResult EXCEPT !.status = "unavailable", !.reason = reason])

-----------------------------------------------------------------------------
(* resolveApiKey: two awaits with no limit of their own.                   *)

Usable(key) == key \notin {Blank, Nothing}

Keyed(key) ==
    IF Usable(key) THEN [Idle EXCEPT !.pc = "sending", !.key = key]
    ELSE Unavailable("missing_api_key")

Classify ==
    /\ enabled /\ ask.pc = "idle"
    /\ \/ Become([Idle EXCEPT !.pc = "connecting"])
       \/ Become(Throw)                     \* no request, or one too long

\* The integration has no connection, or fails: the environment is asked.
FallBack ==
    /\ ask.pc \in {"connecting", "resolving"}
    /\ Become(Keyed(inEnv))

FindConnection ==
    /\ ask.pc = "connecting" /\ credential # Nothing
    /\ Become([ask EXCEPT !.pc = "resolving"])

\* The connection found is resolved to what it holds by now.
ResolveConnection ==
    /\ ask.pc = "resolving"
    /\ Become(Keyed(IF Usable(credential) THEN credential ELSE inEnv))

-----------------------------------------------------------------------------
(* requestClassification and readBounded.                                  *)

\* A body of more than 64 KiB throws before anything is sent.
Send ==
    /\ ask.pc = "sending"
    /\ \/ Become([ask EXCEPT !.pc = "waiting"])
       \/ Become(Throw)

Headers ==
    /\ ask.pc = "waiting"
    /\ Become([ask EXCEPT !.pc = "reading"])

Chunk ==
    /\ ask.pc = "reading"
    /\ Become(IF ask.bytes = MaxBytes THEN Unavailable("provider_error")
              ELSE [ask EXCEPT !.bytes = @ + 1])

\* No connection, a redirect, an HTTP error, no body, bytes that are no text or
\* no JSON.
ProviderFails ==
    /\ ask.pc \in {"waiting", "reading"}
    /\ Become(Unavailable("provider_error"))

\* Faulty: the timer is cleared when the headers are there.
TimerUntilHeaders ==
    /\ ask.pc = "waiting"
    /\ Become(Unavailable("provider_timeout"))

\* The timer aborts the request, wherever it is.
TimerFires ==
    /\ ask.pc \in {"waiting", "reading"}
    /\ Become(Unavailable("provider_timeout"))

-----------------------------------------------------------------------------
(* What counts as an answer.                                               *)

Offered(q) == Options[q] \cup {NoneApplies}

Score == 0..2       \* for what is between 0 and 1; anything else is no score

Top(scores) == Max({scores[id] : id \in DOMAIN scores})

\* Faulty: the choice need not be the one with the best score.
ProperlyChosen(q, answer) ==
    /\ answer.type = "choice"
    /\ DOMAIN answer.scores = Offered(q)
    /\ \A id \in Offered(q) : answer.scores[id] \in Score
    /\ answer.choice \in Offered(q)

\* parseChoice
Proper(q, answer) ==
    /\ answer.type = "choice"
    /\ DOMAIN answer.scores = Offered(q)
    /\ \A id \in Offered(q) : answer.scores[id] \in Score
    /\ answer.choice \in Offered(q)
    /\ answer.scores[answer.choice] = Top(answer.scores)

Chosen(answer) == IF answer.choice = NoneApplies THEN Nothing ELSE answer.choice

Classification(body) ==
    IF /\ body.pinned
       /\ \A q \in Questions : Proper(q, body.answers[q])
    THEN Settle([NoResult EXCEPT !.status = "ok",
                                 !.choices = [q \in Questions |-> Chosen(body.answers[q])]])
    ELSE Throw

BodyEnds(body) ==
    /\ ask.pc = "reading"
    /\ ask' = Classification(body)
    /\ given' = body
    /\ UNCHANGED <<enabled, credential, inEnv>>

-----------------------------------------------------------------------------
Connect(key) ==
    /\ credential' = key /\ credential # key
    /\ ask.pc \in {"connecting", "resolving"}
    /\ UNCHANGED <<enabled, inEnv, ask, given>>

ClassifierNext ==
    \/ Classify \/ FallBack \/ FindConnection \/ ResolveConnection
    \/ Send \/ Headers \/ Chunk \/ ProviderFails \/ TimerFires
    \/ \E body \in Bodies : BodyEnds(body)
    \/ \E key \in Keys \cup {Nothing} : Connect(key)

ClassifierSpec ==
    ClassifierInit /\ [][ClassifierNext]_classifierVars /\ WF_classifierVars(TimerFires)

-----------------------------------------------------------------------------
(* A classification is never made up: every choice reported is one the     *)
(* question offers, and no other has a better score in the provider's own  *)
(* answer ("returns status 'unavailable' instead of fabricating a          *)
(* classification", skynex-runtime.ts:335).                                *)
VerdictIsTheProviders ==
    ask.result.status = "ok" =>
        \A q \in Questions :
            LET answer == given.answers[q]
                id == IF ask.result.choices[q] = Nothing THEN NoneApplies ELSE ask.result.choices[q]
            IN  /\ id \in Offered(q) \cap DOMAIN answer.scores
                /\ \A other \in DOMAIN answer.scores : answer.scores[other] <= answer.scores[id]

(* A request that has left is answered, failed or given up, even if the    *)
(* provider stops in the middle of its answer.  The timer is the only      *)
(* thing assumed to happen; nothing bounds the wait for the credential.    *)
RequestIsBounded == ask.pc \in {"waiting", "reading"} ~> ask.pc = "settled"
===============================================================================
