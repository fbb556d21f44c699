---------------------------- MODULE MCTaskListing ----------------------------
(* "plan" and "plan-2" share a candidate, as two titles can.  Two processes   *)
(* over these two ids reach both the lost race and the exhausted search; the  *)
(* walk meets creations, saves and a directory of the older format.           *)
EXTENDS TaskListing

CONSTANTS plan, plan2, old

MCCandidates == [s \in Slugs |-> IF s = plan THEN <<plan, plan2>> ELSE <<plan2>>]

MCForeign == [n \in {old} |-> "status.json only"]
=============================================================================
