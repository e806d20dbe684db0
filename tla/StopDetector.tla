---------------------------- MODULE StopDetector ----------------------------
(***************************************************************************)
(* Arrivals read from GPS (transit_core/stops_detector.py).                *)
(*                                                                         *)
(* A track is a sequence of points [et, x, speed, valid] in order of time. *)
(* Times and places in between two points are interpolated.                *)
(***************************************************************************)
EXTENDS TripPlan, SequencesExt

EnterRadius == 15
NearRadius == 80
NearLeave == 30
DepartRadius == 35

AsOf(track, t) == Taken(track, {i \in DOMAIN track : track[i].et <= t})

(* A mistake: what the buffer holds beyond the moment is not cut off.      *)
ValidTrackAll(track, until) == Taken(track, {i \in DOMAIN track : track[i].valid})
(* _valid_track                                                            *)
ValidTrack(track, until) ==
  Taken(track, {i \in DOMAIN track : track[i].valid /\ track[i].et <= until})

(* The moment between the points a and b at which m metres of the way from *)
(* one to the other are done.                                              *)
After(a, b, m) ==
  IF a.x = b.x THEN a.et ELSE a.et + (m * (b.et - a.et)) \div Abs(b.x - a.x)

(* _departure_time: the first stop of a trip is left when the vehicle,     *)
(* seen near it, is no longer near it.                                     *)
DepartureTime(w, sx) ==
  LET Dist(i) == Abs(w[i].x - sx)
      seen == FirstOf({i \in DOMAIN w : Dist(i) <= DepartRadius})
      gone == FirstOf({i \in DOMAIN w : Dist(i) > DepartRadius /\ \E s \in seen : i > s})
  IN {w[i - 1].et
      + ((DepartRadius - Dist(i - 1)) * (w[i].et - w[i - 1].et)) \div (Dist(i) - Dist(i - 1))
      : i \in gone}

(* _segment_hits: the place nearest to the stop between two points.        *)
Nearest(a, b, sx) == Clip(sx, Smaller(a.x, b.x), Larger(a.x, b.x))

(* _arrival_time: the entry into the circle of the stop or else the        *)
(* nearest place, once the vehicle has left it.  What runs against the     *)
(* route is passed over.                                                   *)
ArrivalTime(w, sx, dir) ==
  LET Against(j) == (w[j + 1].x - w[j].x) * dir < 0 /\ Abs(w[j + 1].x - w[j].x) > 5
      pieces == {j \in 1..(Len(w) - 1) : ~Against(j)}
      Near(j) == Abs(Nearest(w[j], w[j + 1], sx) - sx)
      entries == FirstOf({j \in pieces : Near(j) <= EnterRadius})
      closest == FirstOf({j \in pieces : \A k \in pieces : Near(j) <= Near(k)})
  IN IF Len(w) = 1 THEN {w[i].et : i \in {j \in {1} : Abs(w[j].x - sx) <= NearRadius}}
     ELSE IF entries # {}
     THEN {After(w[j], w[j + 1], Larger(Abs(w[j].x - sx) - EnterRadius, 0)) : j \in entries}
     ELSE {After(w[j], w[j + 1], Abs(Nearest(w[j], w[j + 1], sx) - w[j].x))
           : j \in {k \in closest : /\ Near(k) <= NearRadius
                                    /\ Abs(w[Len(w)].x - sx) >= Near(k) + NearLeave}}

(* _route_directions: from the stop before to the stop after.              *)
Direction(plan, k) ==
  plan[Smaller(k + 1, Len(plan))].x - plan[Larger(k - 1, 1)].x

(* _detect: each visit is looked for from 12 minutes before its planned    *)
(* time, and not before the last one found, to 20 minutes after it.        *)
Within(seen, lo, hi) == Taken(seen, {i \in DOMAIN seen : lo <= seen[i].et /\ seen[i].et < hi})
Hit(plan, seen, k, found) ==
  LET lo == IF found = <<>> THEN plan[k].tb - Minutes(12)
            ELSE Larger(plan[k].tb - Minutes(12), found[Len(found)].at)
      w == Within(seen, lo, plan[k].tb + Minutes(20))
  IN IF plan[k].new THEN DepartureTime(w, plan[k].x)
     ELSE ArrivalTime(w, plan[k].x, Direction(plan, k))
Found(plan, seen, k, found) ==
  LET hit == Hit(plan, seen, k, found)
      at == CHOOSE m \in hit : TRUE
  IN IF hit = {} THEN found
     ELSE Append(found, [visit |-> plan[k].id, at |-> at, delay |-> at - plan[k].tb])
Detect(plan, track, until, visits) ==
  LET seen == ValidTrack(track, until)
      upTo[k \in 0..Len(plan)] ==
        IF k = 0 THEN <<>>
        ELSE IF k \in visits THEN Found(plan, seen, k, upTo[k - 1]) ELSE upTo[k - 1]
  IN upTo[Len(plan)]

DetectArrivals(plan, track, until) ==
  Detect(plan, track, until, {k \in DOMAIN plan : plan[k].tb <= until})

(* online_cur_dev: the delay at the last arrival found among the visits of *)
(* the last 45 minutes.                                                    *)
OnlineCurDev(plan, track, t) ==
  LET found == Detect(plan, track, t, Between(plan, t - Minutes(45), t))
  IN {found[i].delay : i \in {Len(found)} \ {0}}
=============================================================================
