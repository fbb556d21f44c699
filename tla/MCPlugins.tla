------------------------------- MODULE MCPlugins -------------------------------
(* The two plugins that keep timers, side by side in one host: the terminal half *)
(* of the task sidebar, and the classifier.  They share nothing.  MaxToken lets  *)
(* the sidebar come back to a session whose first answers are still out; MaxBytes *)
(* lets an answer be too long; of two questions, one is answered in every way.   *)
EXTENDS SidebarController, Classifier

CONSTANTS key, q1, q2, high

MCOptions == [q \in Questions |-> {high}]

MCSettings == [option : {"on", "off", "unknown", Nothing}, variable : {"on", "off", Nothing}]

Fine == [type |-> "choice", scores |-> [id \in {high, NoneApplies} |-> IF id = high THEN 1 ELSE 0], choice |-> high]

Scores(ids) == [ids -> {0, 2, 3}]

MCScores ==
    Scores({high, NoneApplies})
        \cup {[id \in ids |-> 0] : ids \in {{high}, {high, NoneApplies, "unoffered"}}}

MCAnswers ==
    [type : {"choice"}, choice : {high, NoneApplies, "unoffered"}, scores : MCScores]
        \cup {[Fine EXCEPT !.type = "text"]}

Body(pinned, answer) ==
    [pinned |-> pinned, answers |-> [q \in Questions |-> IF q = q1 THEN answer ELSE Fine]]

MCBodies == {Body(TRUE, answer) : answer \in MCAnswers} \cup {Body(FALSE, Fine)}

Init == ControllerInit /\ ClassifierInit

Next ==
    \/ ControllerNext /\ UNCHANGED classifierVars
    \/ ClassifierNext /\ UNCHANGED controllerVars

Spec == Init /\ [][Next]_<<controllerVars, classifierVars>> /\ WF_classifierVars(TimerFires)
===============================================================================
