------------------------------ MODULE TripPlan ------------------------------
(***************************************************************************)
(* The day's plan of one vehicle (transit_core/plan.py), the labels the    *)
(* models are trained on (labels.py) and the visits a pass forecasts       *)
(* (pipeline/prepare.py).                                                  *)
(*                                                                         *)
(* A plan is a sequence of visits [id, tb, x, manual, gap, new, trip]:     *)
(* planned time in seconds, place on the road in metres, seconds since the *)
(* visit before.                                                           *)
(***************************************************************************)
EXTENDS TripLine, TLC

Minutes(n) == 60 * n
NoGap == -1

(* What is at some places of a sequence, in its order.                     *)
Taken(list, places) ==
  LET upTo[i \in 0..Len(list)] ==
        IF i = 0 THEN <<>>
        ELSE IF i \in places THEN Append(upTo[i - 1], list[i]) ELSE upTo[i - 1]
  IN upTo[Len(list)]

(* Stable order of time: the place of what comes n-th.                     *)
ByTime(times) ==
  LET NotLater(i) == {j \in DOMAIN times : times[j] < times[i] \/ (times[j] = times[i] /\ j <= i)}
  IN [n \in DOMAIN times |-> CHOOSE i \in DOMAIN times : Cardinality(NotLater(i)) = n]

(* prepare_plan: stable order by time; a visit five minutes or more after  *)
(* the one before it begins a trip.                                        *)
PreparePlan(raw) ==
  LET order == ByTime([i \in DOMAIN raw |-> raw[i].tb])
      s == [k \in DOMAIN raw |-> raw[order[k]]]
      Gap(k) == IF k = 1 THEN NoGap ELSE s[k].tb - s[k - 1].tb
      New(k) == Gap(k) = NoGap \/ Gap(k) >= Minutes(5)
  IN [k \in DOMAIN s |->
        [id |-> s[k].id, tb |-> s[k].tb, x |-> s[k].x, manual |-> s[k].manual,
         gap |-> Gap(k), new |-> New(k),
         trip |-> Cardinality({j \in 1..k : New(j)})]]

(* np.searchsorted of the planned times: visits before t, visits up to t.  *)
VisitsBefore(plan, t) == Cardinality({k \in DOMAIN plan : plan[k].tb < t})
VisitsUpTo(plan, t) == Cardinality({k \in DOMAIN plan : plan[k].tb <= t})

Between(plan, lo, hi) == {k \in DOMAIN plan : lo < plan[k].tb /\ plan[k].tb <= hi}
FirstOf(visits) == {k \in visits : \A j \in visits : k <= j}

(* horizon_visits: the visits due in 10 to 15 minutes; without any, the    *)
(* next one within the hour, and the forecast is outside the horizon.      *)
InHorizon(plan, t) == Between(plan, t + Minutes(10), t + Minutes(15))
HorizonVisits(plan, t) ==
  IF InHorizon(plan, t) # {} THEN InHorizon(plan, t)
  ELSE FirstOf(Between(plan, t + Minutes(15), t + Minutes(60)))

(* make_label: the target and, with the facts of the day, its delay and    *)
(* the delay at the last visit whose planned time has passed.              *)
Target(plan, t) == FirstOf({k \in DOMAIN plan : t + Minutes(10) < plan[k].tb
                                               /\ plan[k].tb <= t + Minutes(15)})
MakeLabel(plan, fact, t) ==
  {[visit   |-> plan[k].id,
    delay   |-> fact[k] - plan[k].tb,
    class   |-> IF fact[k] - plan[k].tb < -60 THEN "early"
                ELSE IF fact[k] - plan[k].tb > 120 THEN "late" ELSE "ontime",
    cur_dev |-> {fact[j] - plan[j].tb : j \in {VisitsUpTo(plan, t)} \ {0}}]
   : k \in Target(plan, t)}
=============================================================================
