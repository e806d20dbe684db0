--------------------------- MODULE MCAlertPipeline ---------------------------
(* Instances of AlertPipeline for TLC. *)
EXTENDS AlertPipeline, TLC

CONSTANTS bus, tram, w1, w2, s1, s2

(* One bus, two visits three and four minutes into the day. *)
OneBusPlan == bus :> (w1 :> 3 @@ w2 :> 4)
OneVisitPlan == bus :> (w1 :> 4)
FleetPlan == bus :> (w1 :> 3) @@ tram :> (w1 :> 3)

(* On time, late by the delay, late by the probability alone. *)
MCPredictions ==
  {[delay |-> 0, late |-> 0], [delay |-> 1, late |-> 6]}
MCEarlyDelay == -1
MCFacts == {0, 1}

FleetSymmetry == Permutations(Vehicles) \cup Permutations(SessionIds)
=============================================================================
