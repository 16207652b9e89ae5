-------------------------- MODULE MCLaunchPipeline --------------------------
(* The pipeline over a catalog of two tiers and three providers: two Claude   *)
(* points that share quota and runner, a Devin point and an AGY point.  Each  *)
(* cast is one kind of disturbance, or a few that meet.                       *)
EXTENDS LaunchPipeline

MCPoints == {"c1", "d1", "c2", "g1"}
MCTierChain == <<<<"c1", "d1">>, <<"c2", "g1">>>>
MCKind == [c1 |-> "claude", c2 |-> "claude", d1 |-> "devin", g1 |-> "agy"]

MCCasts ==
    {{"two", "starts"},
     {"two", "faults", "closes"},
     {"two", "exits", "limits", "lapses"},
     {"faults", "starts", "exits", "strangers", "closes"},
     {"exact", "faults", "exits", "strangers", "closes"},
     {"faults", "starts", "aborts", "freezes"},
     {"manual", "starts", "exits", "faults", "closes"},
     {"manual", "limits", "tiers", "exact"},
     {"manual", "limits", "lapses", "exits"},
     {"manual", "concludes", "exits", "faults"},
     {"auto", "limits", "faults", "closes"},
     {"auto", "limits", "exits", "starts", "freezes"},
     {"auto", "limits", "concludes"}}
=============================================================================
