----------------------------- MODULE MCStreamHub -----------------------------
(***************************************************************************)
(* Values for the constants of StreamHub.                                  *)
(***************************************************************************)
EXTENDS StreamHub

CONSTANT s1

MCOwner == [i \in Incidents |-> CHOOSE v \in Vehicles : TRUE]

(* Session s1 has vehicles but no incidents, and there the mode changes    *)
(* while the map is empty; s2 has the incidents, and one mode: the status  *)
(* depends on neither the fleet nor the book.                              *)
MCModesIn(s, f, b) ==
  IF s # s1 \/ (f # Empty /\ b = Empty) THEN {"LIVE"} ELSE IF b = Empty THEN Modes ELSE {}
=============================================================================
