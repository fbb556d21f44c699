---------------------------- MODULE MCProfileApply ----------------------------
(* Three approved agents stand for the thirteen.  The one profile file at the *)
(* start is from before both renamings; editors assign one complete choice    *)
(* and one that misses an agent.  The configurations cover the current and    *)
(* the old identity, both at once, an unset model, comments in every entry,   *)
(* an agent of the person's own, and a repeated model, old name and `agents`. *)
EXTENDS ProfileApply

CONSTANTS thalam, scout, researcher, legacy, helper, m1, m2, daily

Entry(models, own) == <<[models |-> models, own |-> own, notes |-> own]>>

MCOldProfiles ==
    [name \in Names |->
        IF name = daily THEN [name |-> daily, models |-> (legacy :> m1 @@ researcher :> m2)]
        ELSE None]

OneBlock(block) == [agents |-> <<block>>, rest |-> "x"]

Rest == scout :> Entry(<<m2>>, "s") @@ researcher :> Entry(<<>>, "r") @@ helper :> <<NotAnObject>>

MCContents == {"t", "s", "r", "o", "p", "x", "bare"}

Current == thalam :> Entry(<<m2>>, "t") @@ Rest

Old == legacy :> Entry(<<m2>>, "o") @@ Rest

OldTwice == legacy :> (Entry(<<m1>>, "p") \o Entry(<<m1, m2>>, "o")) @@ Rest

Both == legacy :> Entry(<<m2>>, "o") @@ Current

ModelTwice == thalam :> Entry(<<m1, m2>>, "t") @@ Rest

AgentsTwice == [agents |-> <<Old, Current>>, rest |-> "x"]

MCAssignments ==
    {(thalam :> m2 @@ scout :> m1 @@ researcher :> m2), (thalam :> m2 @@ researcher :> m2)}

MCConfigs ==
    {OneBlock(block) : block \in {Old, OldTwice, Both, ModelTwice}} \cup {AgentsTwice}

MCSaved == {OneBlock(Old)}

ServiceSymmetry == Permutations(Services)
===============================================================================
