--------------------------- MODULE MCForecastPass ---------------------------
(* A vehicle that drives up a road and, after a long rest there, half      *)
(* the way back, from where it leaves again; a point shows it on the way,  *)
(* at the far end, or nowhere.                                             *)
EXTENDS WhatIf, FleetCards

MCRawPlan == <<[id |-> 1, tb |-> 1510, x |-> 424, manual |-> FALSE],
               [id |-> 2, tb |-> 1550, x |-> 600, manual |-> FALSE],
               [id |-> 4, tb |-> 4520, x |-> 450, manual |-> TRUE],
               [id |-> 3, tb |-> 4340, x |-> 600, manual |-> FALSE]>>
MCHistory == [i \in 1..5 |-> [et |-> 1400 + 40 * i, x |-> 450, speed |-> 20 + 5 * i, valid |-> TRUE]]
MCInstants == <<0, 930, 1830, 3690>>
MCSights == {[x |-> 450, speed |-> 30, valid |-> TRUE],
             [x |-> 600, speed |-> 0, valid |-> TRUE],
             [x |-> 0, speed |-> 0, valid |-> FALSE]}
MCMlDelays == {150}
MCReach == <<[points |-> 3, instants |-> 4], [points |-> 1, instants |-> 2]>>

\* Two models: one that follows the deviation, one that runs against it.
MCReply(model, f) ==
  LET dev == IF f.cur_dev = {} THEN 0 ELSE Max(f.cur_dev)
      delay == IF model = 1 THEN dev ELSE 60 - dev
  IN [delay |-> delay, late |-> Clip(400 + 2 * delay, 0, 1000)]
MCMeasures == {[action |-> "hold_at_stop", minutes |-> 2], [action |-> "shorten_dwell", minutes |-> 3],
               [action |-> "skip_layover", minutes |-> 0], [action |-> "add_reserve", minutes |-> 0]}
=============================================================================
