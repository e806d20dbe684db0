----------------------------- MODULE FleetCards -----------------------------
(***************************************************************************)
(* What the REST views show of a vehicle and of the quality of forecasts   *)
(* (state/views.py, alerts/segment.py, alerts/quality.py): operators over  *)
(* the state of ForecastPass, read at any moment between the passes.       *)
(***************************************************************************)
EXTENDS ForecastPass

RiskLevels == <<"none", "green", "early", "yellow", "red">>
Severity(level) == CHOOSE i \in DOMAIN RiskLevels : RiskLevels[i] = level
RiskOfDelay(d) ==
  CASE d > 120 -> "red" [] d < -60 -> "early" [] d \in 60..120 -> "yellow" [] d \in -60..59 -> "green"

(* vehicle_state                                                           *)
VehicleState ==
  [stale |-> IsStale(rec), warming_up |-> ~IsReady(rec), prediction |-> rec.prediction,
   risk |-> IF rec.prediction = <<>> THEN "none"
            ELSE RiskOfDelay(CHOOSE d \in {p.delay : p \in ToSet(rec.prediction)} : TRUE)]

(* timeline: the plan within an hour of now; a visit is behind once it has *)
(* its arrival or is ten minutes overdue, and then has no forecast.        *)
Passed(v) == v.id \in DOMAIN rec.arrivals \/ v.tb + Minutes(10) < now
TimelineItem(k) ==
  LET v == Plan[k]
      arrived == {rec.arrivals[id] : id \in {v.id} \cap DOMAIN rec.arrivals}
  IN [visit     |-> v.id,
      actual    |-> arrived,
      predicted |-> IF Passed(v) THEN {} ELSE {w.delay : w \in {u \in rec.window : u.visit = v.id}},
      is_target |-> \E i \in DOMAIN rec.prediction : rec.prediction[i].visit = k,
      status    |-> IF Passed(v) THEN "passed" ELSE "upcoming"]
Timeline ==
  {TimelineItem(k) : k \in {j \in DOMAIN Plan : Abs(Plan[j].tb - now) <= Minutes(60)}}

(* vehicle_detail: the forecast drawn at the planned moment of the target. *)
Forecast == {[at |-> Plan[p.visit].tb, delay |-> p.delay] : p \in ToSet(rec.prediction)}

(* target_segment: from the stop before, within one trip.                  *)
TargetSegment(k) == {j \in {k - 1} : j >= 1 /\ Plan[j].trip = Plan[k].trip /\ Plan[j].x # Plan[k].x}

(* segments_risk: the stretch the vehicle is on now and the one to its     *)
(* target take the gravest risk and the lowest ratio of speeds.            *)
SegmentsRisk ==
  LET here == {[segment |-> s.segment, level |-> VehicleState.risk,
                ratio |-> SpeedRatio(s.speed, Typical[s.segment])] : s \in rec.segment}
      ahead == {[segment |-> s, level |-> VehicleState.risk, ratio |-> {}]
                : s \in UNION {TargetSegment(p.visit) : p \in ToSet(rec.prediction)}}
      Of(s) == {e \in here \cup ahead : e.segment = s}
  IN [s \in {e.segment : e \in here \cup ahead} |->
        [level |-> RiskLevels[Max({Severity(e.level) : e \in Of(s)})],
         ratio |-> LET all == UNION {e.ratio : e \in Of(s)} IN IF all = {} THEN {} ELSE {Min(all)}]]

(* mae_by_lead and the head of contract: the errors by minutes of lead.    *)
ErrorOf(e) == e.error
ErrorsByLead(m) == Taken(journal.errors, {i \in DOMAIN journal.errors : journal.errors[i].bucket = m})
MaeByLead == [m \in 11..15 |-> Mean(ErrorsByLead(m), ErrorOf)]
OnlineMae == Mean(journal.errors, ErrorOf)
NResolved == Cardinality(journal.evaluated)
VehicleMinutes == journal.seconds \div 60

-----------------------------------------------------------------------------
(* The views of one vehicle agree, however late they are read: while its   *)
(* target is not ten minutes overdue, the timeline shows that visit and no *)
(* other as the target, still ahead, with the delay of the card; a visit   *)
(* with an arrival is behind, with no forecast beside the fact; and the    *)
(* way to the target bears the risk of the card (views.py).                *)
CardAgrees ==
  /\ \A k \in DOMAIN rec.prediction :
       LET p == rec.prediction[k] IN
       /\ now <= Plan[p.visit].tb + Minutes(10) =>
            {[visit |-> i.visit, predicted |-> i.predicted, status |-> i.status]
             : i \in {j \in Timeline : j.is_target}}
              = {[visit |-> Plan[p.visit].id, predicted |-> {p.delay}, status |-> "upcoming"]}
       /\ \A s \in TargetSegment(p.visit) :
            Severity(SegmentsRisk[s].level) >= Severity(VehicleState.risk)
  /\ \A i \in Timeline : i.actual # {} => i.status = "passed" /\ i.predicted = {}

(* Every forecast shown is scored once or still waits, and the errors by   *)
(* minutes of lead are the errors of the total: none is lost at the edges  *)
(* of the buckets, and a visit counts as resolved when it brought some     *)
(* (quality.py: record, on_arrivals, on_pass, lead_bucket and contract).   *)
QualityAddsUp ==
  /\ JournalAddsUp
  /\ LET of == MaeByLead IN
     OnlineMae = [sum |-> of[11].sum + of[12].sum + of[13].sum + of[14].sum + of[15].sum,
                  n |-> of[11].n + of[12].n + of[13].n + of[14].n + of[15].n]
  /\ NResolved <= OnlineMae.n
  /\ \A v \in journal.evaluated : v \in DOMAIN rec.arrivals \/ rec.since > 0
=============================================================================
