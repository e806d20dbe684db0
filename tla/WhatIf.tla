------------------------------- MODULE WhatIf -------------------------------
(***************************************************************************)
(* "What if": a dispatcher asks how a measure would change the forecast of *)
(* a vehicle (whatif/measures.py, scenario.py, api/whatif.py).  Nothing is *)
(* changed by asking, so these are operators over the state of             *)
(* ForecastPass: the record, its points and the present moment.            *)
(*                                                                         *)
(* A measure is [action, minutes]; the ML service answers a batch in full  *)
(* or not at all, and a model of it maps features to [delay, late], the    *)
(* probability in thousandths.                                             *)
(***************************************************************************)
EXTENDS ForecastPass

CONSTANTS
  Reply(_, _),  \* Reply(model, features): what the ML service answers
  MlModels,     \* the models it may have
  Measures      \* the measures that are asked about

NeedsBreak(m) == m.action # "hold_at_stop"

IsAfterBreak(f) == f.plan.trip_break
Layover(f) == Larger(f.plan.max_gap, 0)

(* _absorb: no more than the cut, and not ahead of the schedule.           *)
Absorb(v, cut) == Larger(v - cut, Smaller(v, 0))

(* _shift: what is known of cur_dev, gps_dev and eta_dev.                  *)
Shift(f, moved) ==
  [f EXCEPT !.cur_dev = {moved[v] : v \in @},
            !.route.place = {[p EXCEPT !.dev = moved[p.dev], !.eta = moved[p.eta]] : p \in @}]

ApplyMeasure(m, f) ==
  LET held == [v \in Int |-> v + Minutes(m.minutes)]
      onTime == [v \in Int |-> 0]
      cut == IF m.action = "skip_layover" THEN Layover(f)
             ELSE Smaller(Minutes(m.minutes), Layover(f))
      absorbed == [v \in Int |-> Absorb(v, cut)]
  IN CASE m.action = "hold_at_stop" -> Shift(f, held)
       [] NeedsBreak(m) /\ ~IsAfterBreak(f) -> f
       [] m.action = "add_reserve" /\ IsAfterBreak(f) -> Shift(f, onTime)
       [] m.action \in {"shorten_dwell", "skip_layover"} /\ IsAfterBreak(f) -> Shift(f, absorbed)

(* guard: holding never helps; the others never harm, nor do they make a   *)
(* late vehicle early.                                                     *)
Guarded(m, b, a) ==
  IF m.action = "hold_at_stop"
  THEN [delay |-> Larger(a.delay, b.delay), late |-> Larger(a.late, b.late)]
  ELSE [delay |-> Smaller(Larger(a.delay, Smaller(b.delay, 0)), b.delay),
        late |-> Smaller(a.late, b.late)]

-----------------------------------------------------------------------------
(* scenario_stops: the visits of the hour to come with the features the    *)
(* pass would see, and those the measure makes of them.                    *)
MaxStops == 30
StopsAhead(points, t) ==
  IF points = <<>> THEN <<>>
  ELSE LET track == TrackOf(points)
           curDev == OnlineCurDev(DetectorPlan(track), track, t)
           ahead == Between(Plan, t, t + Minutes(60))
           visits == SetToSortSeq({k \in ahead : k < Min(ahead) + MaxStops}, LAMBDA i, j : i < j)
       IN [i \in DOMAIN visits |->
             [visit |-> visits[i], in_window |-> visits[i] \in InHorizon(Plan, t),
              before |-> Features(Plan, track, t, visits[i], curDev)]]
ScenarioStops(ahead, m) ==
  [i \in DOMAIN ahead |-> [after |-> ApplyMeasure(m, ahead[i].before)] @@ ahead[i]]

(* fallback_item: the rule of thumb and what it thinks of being late.      *)
FallbackAnswer(f) ==
  LET d == Fallback(f.cur_dev)
  IN [delay |-> d, late |-> IF d > 120 THEN 800 ELSE IF d >= 60 THEN 350 ELSE 50]

(* predict_pairs: both variants of each stop in one batch.                 *)
Answer(model, f) == IF model = {} THEN FallbackAnswer(f) ELSE Reply(Max(model), f)

RiskOf(a) ==
  CASE a.delay > 120 \/ a.late >= 500 -> "red"
    [] a.delay < -60 /\ a.late < 500 -> "early"
    [] a.delay \in -60..120 /\ a.late < 500 ->
         IF a.delay >= 60 \/ a.late >= 300 THEN "yellow" ELSE "green"

(* _stop                                                                   *)
StopRow(m, model, s) ==
  LET b == Answer(model, s.before)
      a == Guarded(m, b, Answer(model, s.after))
  IN [visit |-> s.visit, in_window |-> s.in_window, after_break |-> IsAfterBreak(s.before),
      before |-> b, after |-> a, risk_before |-> RiskOf(b), risk_after |-> RiskOf(a)]

\* Mistake: the incident and the card are not looked at.
PickInWindow(rows, preferred) ==
  LET window == {i \in DOMAIN rows : rows[i].in_window}
  IN rows[IF window # {} THEN Min(window) ELSE 1]

(* pick_target: the first of the preferred visits that is ahead, the first *)
(* one in the window, or the next one.                                     *)
PickTarget(rows, preferred) ==
  LET Row(id) == {i \in DOMAIN rows : Plan[rows[i].visit].id = id}
      wanted == FirstOf({n \in DOMAIN preferred : Row(preferred[n]) # {}})
      window == {i \in DOMAIN rows : rows[i].in_window}
  IN rows[IF wanted # {} THEN Min(Row(preferred[Min(wanted)]))
          ELSE IF window # {} THEN Min(window) ELSE 1]

(* _changed: a known deviation of some stop is another one.                *)
Deviations(f) == <<f.cur_dev, {<<p.dev, p.eta>> : p \in f.route.place}>>
Changed(stops) == \E i \in DOMAIN stops : Deviations(stops[i].before) # Deviations(stops[i].after)

(* note_for: which of the explanations the dispatcher reads.               *)
NoteFor(m, hasBreak, changed, targetAfterBreak) ==
  CASE NeedsBreak(m) /\ ~hasBreak -> "no break ahead"
    [] ~(NeedsBreak(m) /\ ~hasBreak) /\ ~changed -> "the forecast is the same"
    [] NeedsBreak(m) /\ hasBreak /\ changed /\ ~targetAfterBreak -> "only after the break"
    [] ~(NeedsBreak(m) /\ ~(hasBreak /\ targetAfterBreak)) /\ changed -> m.action

(* applied_minutes                                                         *)
AppliedTime(m, stops) ==
  LET layovers == {Layover(stops[i].before) : i \in {j \in DOMAIN stops : IsAfterBreak(stops[j].before)}}
  IN IF m.action # "skip_layover" THEN Minutes(m.minutes) ELSE Max(layovers \cup {0})

(* evaluate and the endpoint, of the stops ahead: no answer for a vehicle  *)
(* without a record or a forecast, nor with nothing planned within the     *)
(* hour.  incident is the visit of an open incident, if there is one.      *)
Result(m, stops, rows, target) ==
  [note    |-> NoteFor(m, \E i \in DOMAIN rows : rows[i].after_break, Changed(stops),
                       target.after_break),
   applied |-> Changed(stops), value |-> AppliedTime(m, stops), target |-> target, rows |-> rows,
   delta   |-> [delay |-> target.after.delay - target.before.delay,
                late |-> target.after.late - target.before.late]]
WhatIfAnswer(r, ahead, m, model, incident) ==
  LET stops == ScenarioStops(ahead, m)
      preferred == SetToSeq(incident) \o SetToSeq({Plan[k].id : k \in DOMAIN r.prediction})
  IN IF r.prediction = <<>> \/ ahead = <<>> THEN {}
     ELSE {Result(m, stops, rows, PickTarget(rows, preferred))
           : rows \in {[i \in DOMAIN stops |-> StopRow(m, model, stops[i])]}}

-----------------------------------------------------------------------------
(* What the dispatcher is told holds together, whatever the model answers  *)
(* and however long after the pass he asks: a measure that leaves every    *)
(* deviation as it is leaves the forecasts as they are ("the forecast is   *)
(* the same"), holding never promises less delay, the other measures never *)
(* more, nothing before the schedule and nothing before the break, and the *)
(* stop compared is the one on the card while it is ahead (measures.py,    *)
(* guard and note_for; scenario.py, pick_target).                          *)
RowKeepsItsWord(m, row) ==
  IF NeedsBreak(m)
  THEN /\ row.after.delay <= row.before.delay /\ row.after.late <= row.before.late
       /\ row.after.delay >= Smaller(row.before.delay, 0)
       /\ ~row.after_break => row.after = row.before
  ELSE row.after.delay >= row.before.delay /\ row.after.late >= row.before.late
MeasuresKeepTheirWord ==
  [][rec' # rec /\ rec'.prediction # rec.prediction =>
       \A ahead \in {StopsAhead(rec'.points, now)}, m \in Measures,
          model \in {{}} \cup {{x} : x \in MlModels} :
         \A a \in WhatIfAnswer(rec', ahead, m, model, {}) :
           /\ \A i \in DOMAIN a.rows : /\ RowKeepsItsWord(m, a.rows[i])
                                        /\ ~a.applied => a.rows[i].after = a.rows[i].before
           /\ a.note = "no break ahead" => a.delta = [delay |-> 0, late |-> 0]
           /\ \A k \in DOMAIN rec'.prediction : now < Plan[k].tb => a.target.visit = k]_vars
=============================================================================
