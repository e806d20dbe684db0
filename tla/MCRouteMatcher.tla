--------------------------- MODULE MCRouteMatcher ---------------------------
(* A road of 1200 m driven out and back, three stops each way, and a       *)
(* terminal that moves, stands, drifts, jumps, leaves the road and sends   *)
(* points late.                                                            *)
EXTENDS RouteMatcher

Out == Line(<<0, 600, 1200>>, <<1800, 1900, 2000>>)
Back == Line(<<1200, 600, 0>>, <<2100, 2200, 2300>>)
MCLines == <<Out, Back>>

Times == {1790, 1850, 1910, 2005, 2150, 4200}
Driving == [t : Times, x : {0, 600, 1190}, off : {20}, speed : {40}, course : {-1, 1}]
Standing == [t : Times, x : {0, 1200}, off : {0}, speed : {0}, course : {1}]
Creeping == [t : Times, x : {20, 560}, off : {0}, speed : {4}, course : {1}]
Away == [t : {1910, 2005, 2150}, x : {600}, off : {450}, speed : {40}, course : {1}]
MCPoints == Driving \cup Standing \cup Creeping \cup Away
=============================================================================
