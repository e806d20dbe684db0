----------------------------- MODULE StreamScore -----------------------------
(***************************************************************************)
(* The scores of an evaluation run against the labels of its day           *)
(* (scripts/stream_eval_metrics.py; the rule of the labels:                *)
(* transit_core/labels.py).  Every vehicle is labelled in every minute in  *)
(* which it has a target; shares are left as the sets they are shares of.  *)
(***************************************************************************)
EXTENDS AlertReplay

InWindow(v, w, m) == PlannedAt[v][w] - m \in (WindowFrom + 1)..WindowTo

\* Mistake: any visit of the window is the target.
AnyOf(v, ws) == ws

(* make_label: the target is the first visit of the window.                *)
FirstOf(v, ws) == Earliest(v, ws)
Labels ==
  UNION {{[v |-> v, at |-> m, w |-> w] : w \in FirstOf(v, {x \in Visits : InWindow(v, x, m)})}
         : v \in Vehicles, m \in 0..MaxT}
IsLateTarget(tr) == Delay(tr) # NoFact /\ Delay(tr) > RedDelay

(* match: the forecast of the target made in the very minute.              *)
Key(r) == [v |-> r.v, at |-> r.at, w |-> r.w]
Found == Labels \cap {Key(r) : r \in preds}

(* _miss_reason *)
MissReason(l) ==
  LET rows == {m \in minutes : m.v = l.v /\ m.at = l.at}
  IN IF rows = {} THEN "no vehicle"
     ELSE IF \A m \in rows : ~m.ready THEN "warmup"
     ELSE IF ~\E r \in preds : r.v = l.v /\ r.at = l.at THEN "no visits" ELSE "not in window"

(* coverage *)
Coverage ==
  [found |-> Found,
   first |-> {l \in Found : \A r \in preds :
                r.v = l.v /\ r.at = l.at => Planned(Target(r)) >= Planned(<<l.v, l.w>>)},
   reasons |-> {MissReason(l) : l \in Labels \ Found}]

(* horizon *)
Horizon ==
  LET Lead(r) == Planned(Target(r)) - r.at
  IN [in_window |-> \A r \in preds : r.ok => Lead(r) > WindowFrom /\ Lead(r) <= WindowTo,
      outside_later |-> \A r \in preds : ~r.ok => Lead(r) > WindowTo]

(* alerts *)
Alerts ==
  LET late == {<<l.v, l.w>> : l \in {x \in Labels : IsLateTarget(<<x.v, x.w>>)}}
      alerted == {<<i.vehicle, i.target>> : i \in ToSet(book.incidents)}
  IN [trips |-> {Trip(tr) : tr \in late},
      found_trips |-> {Trip(tr) : tr \in late} \cap {Trip(tr) : tr \in alerted}]

(* The labels and the run follow one rule for a target: every labelled     *)
(* point of a vehicle that is ready has its forecast, made for the first   *)
(* visit of a window flagged as such, and the only reason to miss one is   *)
(* the warm-up.  A late trip of the labels that had forecasts and no       *)
(* incident is one the replay misses too, as far as it finds the run's     *)
(* incidents (stream_eval_metrics.py, coverage, horizon, alerts).          *)
LabelsMeetForecasts ==
  Ended =>
  \A c \in {Coverage} :
    /\ c.first = c.found /\ c.reasons \subseteq {"warmup"}
    /\ \A m \in minutes, l \in Labels \ c.found : m.v = l.v /\ m.at = l.at => ~m.ready
    /\ Horizon.in_window /\ Horizon.outside_later
    /\ {<<l.v, l.w>> : l \in Labels \ c.found} \subseteq {<<l.v, l.w>> : l \in c.found} /\ ~Drifted
         => Alerts.trips \ Alerts.found_trips \subseteq Evaluate(Simulated).missed
=============================================================================
