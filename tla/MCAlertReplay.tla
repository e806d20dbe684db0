--------------------------- MODULE MCAlertReplay ---------------------------
(***************************************************************************)
(* A bus with three visits on two trips and a tram that is late all day.   *)
(* Minutes are as few as let the end of an incident, by its arrival or its *)
(* timeout, decide about the next trip; a window lasts three of them.      *)
(***************************************************************************)
EXTENDS EvalRun

MCPlan == [v \in Vehicles |-> IF v = "bus" THEN <<5, 6, 10>> ELSE <<5, 30, 31>>]
MCTrips == [v \in Vehicles |-> <<1, 1, 2>>]
Calm == [delay |-> 0, late |-> 0]
Red == [delay |-> 2, late |-> 0]
MCPredictions == {Calm, Red}
MCBeyond == Red
Of(a, b, c, d) == [v \in Vehicles |-> IF v = "bus" THEN <<a, b, c>> ELSE <<d, NoFact, NoFact>>]
MCSchedules == {Of(3, 0, 2, 2), Of(NoFact, -1, 2, 0)}
MCEarly == -1
MCRequired == <<"schedule", "sample">>
MCOptional == <<"readme">>
MCVersions == {1, 2}
=============================================================================
