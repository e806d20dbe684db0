--------------------------- MODULE PointFeatures ---------------------------
(***************************************************************************)
(* What the models are told of a vehicle at the moment t: the features of  *)
(* features.py, the segment of the road it is on (segment_speed.py) and    *)
(* the sequence of sequence.py.                                            *)
(*                                                                         *)
(* A mean is kept as [sum, n], a value that may be missing as a set of at  *)
(* most one element, and sine, cosine and scale factors are left out.      *)
(***************************************************************************)
EXTENDS StopDetector

LastOne(s) == {s[i] : i \in {Len(s)} \ {0}}
Mean(s, Value(_)) ==
  LET sum[i \in 0..Len(s)] == IF i = 0 THEN 0 ELSE sum[i - 1] + Value(s[i])
  IN [sum |-> sum[Len(s)], n |-> Len(s)]
Recent(track, t, width) == SelectSeq(track, LAMBDA p : t - width < p.et)

Moves(p) == p.speed >= 3
(* dwell_seconds: since when the last points all stand still.              *)
StandingFor(w) ==
  LET moving == {i \in DOMAIN w : Moves(w[i])}
      since == IF moving = {} THEN 1 ELSE Max(moving) + 1
  IN {IF since > Len(w) THEN 0 ELSE Last(w).et - w[since].et : i \in {1} \cap DOMAIN w}
DwellSeconds(track, t) == StandingFor(ValidTrack(track, t))

(* _plan_features: the target and the visits on the way to it.             *)
PlanFeatures(plan, t, target) ==
  LET lo == VisitsUpTo(plan, t)
      way == (lo + 1)..target
      trip == {k \in DOMAIN plan : plan[k].trip = plan[target].trip}
      gaps == {plan[k].gap : k \in way} \ {NoGap}
  IN [lead       |-> plan[target].tb - t,
      manual     |-> plan[target].manual,
      newtrip    |-> plan[target].new,
      gap        |-> plan[target].gap,
      n_between  |-> Cardinality(way),
      trip_break |-> \E k \in way : plan[k].new,
      max_gap    |-> IF gaps = {} THEN 0 ELSE Max(gaps),
      plan_run   |-> {plan[target].tb - plan[k].tb : k \in {lo} \ {0}},
      since_plan |-> {t - plan[k].tb : k \in {lo} \ {0}},
      progress   |-> <<target - Min(trip), Larger(Max(trip) - Min(trip), 1)>>]

(* _track_slice: the last 40 minutes, or else the last point there is.     *)
TrackSlice(track, t) ==
  LET past == AsOf(track, t)
      slice == Recent(past, t, Minutes(40))
  IN IF slice = <<>> THEN Taken(past, DOMAIN past \cap {Len(past)}) ELSE slice

(* _speed_features: over one, five and fifteen minutes.                    *)
SpeedFeatures(w, t) ==
  LET Kmh(p) == Clip(p.speed, 0, 100)
      Still(p) == IF Moves(p) THEN 0 ELSE 1
  IN [last  |-> {Kmh(p) : p \in LastOne(w)},
      spd1  |-> Mean(Recent(w, t, Minutes(1)), Kmh),
      spd5  |-> Mean(Recent(w, t, Minutes(5)), Kmh),
      spd15 |-> Mean(Recent(w, t, Minutes(15)), Kmh),
      stop5 |-> Mean(Recent(w, t, Minutes(5)), Still),
      dwell |-> StandingFor(w)]

(* _Route: the line through all the stops of the day, and locate, the      *)
(* place of a point on it: near by, and planned for about the same time.   *)
Route(plan) == Line([k \in DOMAIN plan |-> plan[k].x], [k \in DOMAIN plan |-> plan[k].tb])
PlannedOn(line, k, s) ==
  IF SegLen(line, k) = 0 THEN line.tb[k]
  ELSE line.tb[k] + ((s - line.cum[k]) * (line.tb[k + 1] - line.tb[k])) \div SegLen(line, k)
Place(line, k, p, t) ==
  LET m == Project(line, k, [x |-> p.x, off |-> 0], 0)
      planned == PlannedOn(line, k, m.s)
  IN [k |-> k, planned |-> planned, dist |-> m.dist, s |-> m.s,
      cost |-> 2 * m.dist + Abs(t - planned)]
Cheapest(places) ==
  {m \in places : \A o \in places : m.cost < o.cost \/ (m.cost = o.cost /\ m.k <= o.k)}
Locate(plan, p, t) ==
  LET near == (VisitsBefore(plan, t - Minutes(40)) + 1)
              ..Smaller(VisitsBefore(plan, t + Minutes(40)), Len(plan) - 1)
  IN UNION {Cheapest({Place(line, k, p, t) : k \in near}) : line \in {Route(plan)}}

(* _route_features: the deviation from the plan by place, how it changed   *)
(* over five minutes, and what is left of the way to the target.           *)
RouteFeatures(plan, target, w, spd15, t) ==
  LET now == UNION {Locate(plan, p, t) : p \in LastOne(w)}
      before == LastOne(SelectSeq(w, LAMBDA p : p.et <= t - Minutes(5)))
      Remain(m) == Route(plan).cum[target] - m.s
      pace == [sum |-> Larger(spd15.sum, 5 * Larger(spd15.n, 1)), n |-> Larger(spd15.n, 1)]
      Eta(m) == (Remain(m) * 18 * pace.n) \div (5 * pace.sum) - (plan[target].tb - t)
      Trend(m) == UNION {{t - m.planned - (p.et - q.planned) : q \in Locate(plan, p, p.et)}
                         : p \in before}
  IN [dist_tgt |-> {Abs(plan[target].x - p.x) : p \in LastOne(w)},
      place    |-> {[dev |-> t - m.planned, dist |-> m.dist, remain |-> Remain(m),
                     eta |-> Eta(m), trend |-> Trend(m)] : m \in now}]

(* point_features                                                          *)
Features(plan, track, t, target, curDev) ==
  LET all == TrackSlice(track, t)
      valid == SelectSeq(all, LAMBDA p : p.valid)
      speed == SpeedFeatures(valid, t)
      Invalid(p) == IF p.valid THEN 0 ELSE 1
  IN [cur_dev     |-> curDev,
      plan        |-> PlanFeatures(plan, t, target),
      stale       |-> {t - p.et : p \in LastOne(all)},
      stale_valid |-> {t - p.et : p \in LastOne(valid)},
      invalid15   |-> Mean(Recent(all, t, Minutes(15)), Invalid),
      speed       |-> speed,
      route       |-> RouteFeatures(plan, target, valid, speed.spd15, t)]
-----------------------------------------------------------------------------
(* route_segments: the stretches between two stops of a trip.  A point is  *)
(* on the nearest one, at most 60 m away, within 15 minutes of its plan.   *)
Stretches(plan) ==
  {k \in 1..(Len(plan) - 1) : plan[k].trip = plan[k + 1].trip /\ plan[k].x # plan[k + 1].x}
Assign(plan, p) ==
  LET Apart(k) == Abs(Nearest(plan[k], plan[k + 1], p.x) - p.x)
      open == {k \in Stretches(plan) : plan[k].tb - Minutes(15) <= p.et
                                       /\ p.et <= plan[k + 1].tb + Minutes(15)}
  IN {k \in FirstOf({j \in open : \A i \in open : Apart(j) <= Apart(i)}) : Apart(k) <= 60}
Running(plan, p) ==
  \E k \in Assign(plan, p) : Abs(p.x - plan[k].x) > 25 /\ Abs(p.x - plan[k + 1].x) > 25

(* current_segment: the mean speed on the stretch the vehicle is on now.   *)
CurrentSegment(plan, track, t) ==
  LET seen == SelectSeq(ValidTrack(track, t), LAMBDA p : t - Minutes(5) < p.et /\ p.speed <= 100)
      here == UNION {Assign(plan, p) : p \in LastOne(seen)}
      On(k) == SelectSeq(seen, LAMBDA p : k \in Assign(plan, p) /\ Running(plan, p))
  IN {[segment |-> k, speed |-> Mean(On(k), LAMBDA p : p.speed)] : k \in {j \in here : On(j) # <<>>}}

(* typical_speeds: the median of five speeds or more of a day's history,   *)
(* and speed_ratio, in percent, unless the typical speed is too low.       *)
TypicalSpeed(plan, history, k) ==
  LET on == SelectSeq(history, LAMBDA p : /\ p.valid /\ p.speed <= 100
                                          /\ k \in Assign(plan, p) /\ Running(plan, p))
      sorted == SortSeq([i \in DOMAIN on |-> on[i].speed], LAMBDA a, b : a < b)
      n == Len(sorted)
  IN IF n < 5 THEN {}
     ELSE {(sorted[(n + 1) \div 2] + sorted[(n + 2) \div 2]) \div 2}
SpeedRatio(mean, typical) ==
  {(100 * mean.sum) \div (mean.n * v) : v \in {v \in typical : v >= 3}}
-----------------------------------------------------------------------------
(* build_sequence: 80 steps of 15 seconds up to t.  A step without points  *)
(* has no speed and the place of the step before, so the steps that have   *)
(* any, and the last place before them, stand for the sequence.            *)
Step(p, t) == 79 - (t - p.et) \div 15
Sound(p) == p.valid /\ p.speed <= 150
StepOf(history, t, k) ==
  LET all == SelectSeq(history, LAMBDA p : Step(p, t) = k)
      sound == SelectSeq(all, Sound)
  IN [step |-> k, n |-> Len(all), speed |-> Mean(sound, LAMBDA p : p.speed),
      place |-> {p.x : p \in LastOne(sound)}]
NearestStop(plan, x, t) ==
  LET near == {k \in DOMAIN plan : Abs(plan[k].tb - t) <= Minutes(40)}
      Apart(k) == Abs(plan[k].x - x)
  IN {[dist |-> Apart(k), tb |-> plan[k].tb]
      : k \in FirstOf({j \in near : \A i \in near : Apart(j) <= Apart(i)})}
BuildSequence(plan, track, t) ==
  LET history == AsOf(track, t)
      steps == {Step(history[i], t) : i \in DOMAIN history} \cap Nat
      before == SelectSeq(history, LAMBDA p : Step(p, t) < 0 /\ Sound(p))
  IN [before |-> {p.x : p \in LastOne(before)},
      steps  |-> {LET at == StepOf(history, t, k)
                  IN [points |-> at, stop |-> UNION {NearestStop(plan, x, t) : x \in at.place}]
                  : k \in steps}]
(* sequence_static: only the plan and the last sound point.                *)
SequenceStatic(plan, track, t, target, curDev) ==
  LET last == LastOne(SelectSeq(AsOf(track, t), Sound))
  IN [cur_dev |-> curDev, plan |-> PlanFeatures(plan, t, target),
      dist_tgt |-> {Abs(plan[target].x - p.x) : p \in last},
      stale |-> IF last = {} THEN Minutes(30) ELSE Smaller(t - Min({p.et : p \in last}), Minutes(30))]
=============================================================================
