---------------------------- MODULE ForecastPass ----------------------------
(***************************************************************************)
(* The forecasts of one scheduled vehicle, from its points to their score. *)
(*                                                                         *)
(* Points reach the record of the vehicle (state/store.py), which keeps an *)
(* hour of them.  Once a minute of simulated time a pass copies them       *)
(* (pipeline/scheduler.py), works on the copy in a thread (prepare.py) and *)
(* in the ML service while points, the sweep and new sessions go on, and   *)
(* applies what it found to whatever record there is then: arrivals, the   *)
(* forecast on the card and the journal of quality (alerts/quality.py).    *)
(* The incidents a pass opens and settles are in AlertPipeline.            *)
(***************************************************************************)
EXTENDS Causes

CONSTANTS
  RawPlan,      \* the plan of the day: a sequence of [id, tb, x, manual]
  History,      \* a track of another day, for the typical speeds
  Instants,     \* the simulated seconds at which something happens
  Sights,       \* what a point may say: records [x, speed, valid]
  MlDelays,     \* the delays the ML service may forecast
  Reach         \* per session, the bounds [points, instants] of what is followed

(* A visit is known by the primary key of its row in the schedule.         *)
ASSUME ForecastAssumption ==
  /\ RawPlan \in Seq(ToSet(RawPlan))
  /\ \A i \in DOMAIN RawPlan : RawPlan[i].tb \in Int /\ RawPlan[i].x \in Int
  /\ \A i, j \in DOMAIN RawPlan : RawPlan[i].id = RawPlan[j].id => i = j
  /\ Instants \in Seq(Nat) /\ \A i \in 1..(Len(Instants) - 1) : Instants[i] < Instants[i + 1]
  /\ \A v \in Sights : v.valid \in BOOLEAN /\ v.speed \in Nat /\ v.x \in Int
  /\ MlDelays \subseteq Int
  /\ 1 \in DOMAIN Reach
  /\ \A s \in DOMAIN Reach : Reach[s].instants \in DOMAIN Instants /\ Reach[s].points \in Nat

VARIABLES
  clock,        \* the index of the present instant
  session,      \* rt.session_epoch
  rec,          \* the record of the vehicle
  heard,        \* every point of the session, in order of arrival
  pass,         \* the pass under way, if there is one
  lastT,        \* PipelineRunner's last_t (-1 for none) and _epoch
  journal,      \* the QualityJournal of the session
  shown         \* how often the card showed a live forecast in the horizon
vars == <<clock, session, rec, heard, pass, lastT, journal, shown>>

Plan == PreparePlan(RawPlan)
Typical == [k \in Stretches(Plan) |-> TypicalSpeed(Plan, History, k)]
now == Instants[clock]
FloorMinute(s) == s - (s % 60)

(* VehicleRecord.  The vehicle is on the map while it has points.          *)
NoRecord == [points |-> <<>>, first |-> 0, last |-> 0, arrivals |-> <<>>,
             prediction |-> <<>>, window |-> {}, dwell |-> {}, segment |-> {},
             since |-> 0]     \* the points heard before the record began
OnMap == rec.points # <<>>
NewJournal == [pending |-> <<>>, errors |-> <<>>, evaluated |-> {}, late |-> {},
               seconds |-> 0, lastPass |-> -1, firstPass |-> -1]

Init ==
  /\ clock = 1 /\ session = 0 /\ rec = NoRecord /\ heard = <<>>
  /\ pass = <<>> /\ lastT = [session |-> 0, t |-> -1] /\ journal = NewJournal /\ shown = 0

(* VehicleRecord.add: the buffer keeps the hour before the newest point.   *)
HistorySpan == Minutes(60)
Trimmed(points, edge) ==
  LET fresh == {i \in DOMAIN points : points[i].et >= edge}
  IN SubSeq(points, IF fresh = {} THEN Len(points) + 1 ELSE Min(fresh), Len(points))
Added(r, p) ==
  LET last == IF r.points = <<>> THEN p.et ELSE Larger(r.last, p.et)
  IN [r EXCEPT !.points = Trimmed(Append(@, p), last - HistorySpan),
               !.first = IF r.points = <<>> THEN p.et ELSE Smaller(@, p.et),
               !.last = last]

(* A point of this instant, or a late one of the instant before.           *)
Point(i, sight) ==
  /\ i \in {clock - 1, clock} /\ Len(heard) < Reach[session + 1].points
  /\ \A k \in DOMAIN heard : heard[k].et # Instants[i]
  /\ \E p \in {[et |-> Instants[i], x |-> sight.x, speed |-> sight.speed,
                valid |-> sight.valid]} :
       /\ heard' = Append(heard, p)
       /\ rec' = Added(rec, p)
  /\ UNCHANGED <<clock, session, pass, lastT, journal, shown>>

ClockTicks ==
  /\ clock < Reach[session + 1].instants
  /\ clock' = clock + 1
  /\ UNCHANGED <<session, rec, heard, pass, lastT, journal, shown>>

(* Runtime._reset_session                                                  *)
NewSession ==
  /\ session + 2 \in DOMAIN Reach
  /\ session' = session + 1
  /\ clock' = 1 /\ rec' = NoRecord /\ heard' = <<>>
  /\ journal' = NewJournal /\ shown' = 0
  /\ UNCHANGED <<pass, lastT>>

(* Runtime.sweep: a vehicle silent for 15 minutes, others are not, leaves  *)
(* the map; no incident of it is active here.                              *)
Sweep ==
  /\ OnMap /\ now - rec.last > Minutes(15)
  /\ rec' = [NoRecord EXCEPT !.since = Len(heard)]
  /\ UNCHANGED <<clock, session, heard, pass, lastT, journal, shown>>
-----------------------------------------------------------------------------
(* Runtime.is_stale, Runtime.is_warming                                    *)
IsStale(r) == now - r.last > 120
IsReady(r) == r.last - r.first >= Minutes(15)

(* PipelineRunner.due and inputs: the copy the thread works on.            *)
PassBegins ==
  LET t == FloorMinute(now)
      last == IF lastT.session = session THEN lastT.t ELSE -1
  IN /\ pass = <<>> /\ t > last
     /\ lastT' = [session |-> session, t |-> last]
     /\ pass' = <<[t |-> t, session |-> session, points |-> rec.points,
                   heard |-> SubSeq(heard, rec.since + 1, Len(heard)),
                   stale |-> IsStale(rec), ready |-> IsReady(rec)]>>
     /\ UNCHANGED <<clock, session, rec, heard, journal, shown>>

(* track_from_points: stable order of time.                                *)
TrackOf(points) ==
  LET order == ByTime([i \in DOMAIN points |-> points[i].et])
  IN [k \in DOMAIN points |-> points[order[k]]]

(* detector_plan: the plan from 30 minutes before the first point on.      *)
DetectorPlan(track) == Taken(Plan, {k \in DOMAIN Plan : Plan[k].tb >= track[1].et - Minutes(30)})

(* prepare_vehicle: what the thread finds out from the copy of the points. *)
Prepared(points, t, ready) ==
  LET track == TrackOf(points)
      curDev == OnlineCurDev(DetectorPlan(track), track, t)
      visits == IF ready THEN HorizonVisits(Plan, t) ELSE {}
  IN [curDev   |-> curDev,
      visits   |-> visits,
      features |-> [k \in visits |-> Features(Plan, track, t, k, curDev)]]
Arrivals(points, t) == DetectArrivals(DetectorPlan(TrackOf(points)), TrackOf(points), t)

(* segment_now, dwell_seconds, VehicleTask.extras and in_layover.          *)
Extras(points, t) ==
  LET track == TrackOf(points)
      segment == CurrentSegment(Plan, track, t)
      dwell == DwellSeconds(track, t)
      next == FirstOf({k \in DOMAIN Plan : Plan[k].tb > t})
  IN [segment    |-> segment,
      dwell      |-> dwell,
      ratio      |-> UNION {SpeedRatio(s.speed, Typical[s.segment]) : s \in segment},
      in_layover |-> (\E d \in dwell : d > 0) /\ \E k \in next : Plan[k].new]
-----------------------------------------------------------------------------
(* fallback_item and _item_for: a vehicle that is stale, or one for which  *)
(* the service gave no answer, is forecast by rule of thumb.               *)
Fallback(curDev) == IF curDev = {} THEN 0 ELSE (7 * Max(curDev)) \div 10
RedDelay == 120
YellowDelay == 60

(* _needs_explain: the visits whose cause a dispatcher sees, but for the   *)
(* target of an active incident: the first one when it is at risk, and the *)
(* first red one, which the policy of alerts matches too.                  *)
NeedsExplain(visits, delay) ==
  {k \in FirstOf(visits) : delay[k] >= YellowDelay} \cup FirstOf({k \in visits : delay[k] > RedDelay})

(* run_ml and with_contributions: the numbers are those of the first call, *)
(* the contributions those of a second one, which may fail by itself.      *)
ItemFor(task, k, stale, ml, explained) ==
  LET delay == [j \in task.visits |-> Max(ml)]
  IN IF ml = {} \/ stale
     THEN [delay |-> Fallback(task.curDev), mode |-> "fallback", contributions |-> <<>>]
     ELSE [delay |-> delay[k], mode |-> "ml",
           contributions |-> IF explained /\ k \in NeedsExplain(task.visits, delay)
                             THEN <<[feature |-> "cur_dev", seconds |-> delay[k]]>> ELSE <<>>]

(* build_prediction and assemble                                           *)
Prediction(task, extras, k, t, stale, item) ==
  [visit |-> k, at |-> t, delay |-> item.delay, mode |-> item.mode,
   lead |-> Plan[k].tb - t, horizon |-> InHorizon(Plan, t) # {},
   cause |-> InferCause(task.features[k] @@ extras, item.contributions, item.delay, stale)]
Assemble(task, extras, p, ml, explained) ==
  [k \in task.visits |->
     Prediction(task, extras, k, p.t, p.stale, ItemFor(task, k, p.stale, ml, explained))]

(* QualityJournal.record, on_arrivals (lead_bucket in it) and on_pass.     *)
LeadBucket(lead) == Clip((lead + 59) \div 60, 11, 15)
Recorded(j, f) ==
  IF f.visit \in j.evaluated THEN j
  ELSE LET Waiting(v) == IF v \in DOMAIN j.pending THEN j.pending[v] ELSE <<>>
       IN [j EXCEPT !.pending = [v \in DOMAIN @ \cup {f.visit} |->
                                   IF v = f.visit THEN Append(Waiting(v), f) ELSE Waiting(v)]]
Score(j, fact, pending) ==
  IF fact.visit \notin DOMAIN j.pending THEN j
  ELSE [j EXCEPT
         !.pending = pending,
         !.evaluated = @ \cup {fact.visit},
         !.errors = @ \o [i \in DOMAIN j.pending[fact.visit] |->
                            [error |-> Abs(j.pending[fact.visit][i].delay - fact.delay),
                             bucket |-> LeadBucket(j.pending[fact.visit][i].lead)]],
         !.late = @ \cup {Plan[k].trip : k \in {i \in DOMAIN Plan :
                            Plan[i].id = fact.visit /\ fact.delay > RedDelay}}]
(* A mistake: forecasts that were scored are kept.                         *)
ScoredAndKept(j, fact) == Score(j, fact, j.pending)
Scored(j, fact) ==
  Score(j, fact, [v \in DOMAIN j.pending \ {fact.visit} |-> j.pending[v]])
OnArrivals(j, facts) ==
  LET after[n \in 0..Len(facts)] == IF n = 0 THEN j ELSE Scored(after[n - 1], facts[n])
  IN after[Len(facts)]
MaxPassGap == 15
OnPass(j, t, vehicles) ==
  LET gap == IF j.lastPass = -1 THEN 60 ELSE Clip(t - j.lastPass, 0, Minutes(MaxPassGap))
  IN [j EXCEPT !.lastPass = Larger(@, t),
               !.firstPass = IF @ = -1 THEN t ELSE @,
               !.seconds = @ + gap * vehicles]

(* setdefault: the first arrival found stays.                              *)
WithFacts(arrivals, facts) ==
  [v \in DOMAIN arrivals \cup {facts[i].visit : i \in DOMAIN facts} |->
     IF v \in DOMAIN arrivals THEN arrivals[v] ELSE CHOOSE f \in ToSet(facts) : f.visit = v]

\* Mistake: what the pass before thought of a visit is kept.
RecordKeepsWindow(r, task, extras, facts, preds) ==
  [r EXCEPT
     !.arrivals = WithFacts(@, facts), !.segment = extras.segment, !.dwell = extras.dwell,
     !.prediction = [k \in FirstOf(DOMAIN preds) |-> preds[k]],
     !.window = @ \cup {[visit |-> Plan[k].id, delay |-> preds[k].delay] : k \in DOMAIN preds}]

(* PipelineRunner._update_record                                           *)
UpdatedRecord(r, task, extras, facts, preds) ==
  [r EXCEPT
     !.arrivals = WithFacts(@, facts), !.segment = extras.segment, !.dwell = extras.dwell,
     !.prediction = [k \in FirstOf(DOMAIN preds) |-> preds[k]],
     !.window = {[visit |-> Plan[k].id, delay |-> preds[k].delay] : k \in DOMAIN preds}]
LiveForecasts(preds, stale) ==
  {[visit |-> Plan[k].id, delay |-> preds[k].delay, lead |-> preds[k].lead]
   : k \in {j \in FirstOf(DOMAIN preds) : preds[j].horizon /\ ~stale}}
UpdatedJournal(j, live, facts) ==
  OnArrivals(IF live = {} THEN j ELSE Recorded(j, CHOOSE f \in live : TRUE), facts)

(* run_pass after the thread and the service, and apply.                   *)
Apply(p, ml, explained) ==
  IF p.points = <<>>
  THEN /\ journal' = OnPass(journal, p.t, 0)
       /\ UNCHANGED <<rec, shown>>
  ELSE \E task \in {Prepared(p.points, p.t, p.ready)}, facts \in {Arrivals(p.points, p.t)},
          extras \in {Extras(p.points, p.t)} :
         \E preds \in {Assemble(task, extras, p, ml, explained)} :
           LET live == IF OnMap THEN LiveForecasts(preds, p.stale) ELSE {}
               found == IF OnMap THEN facts ELSE <<>>
           IN /\ rec' = IF OnMap THEN UpdatedRecord(rec, task, extras, facts, preds) ELSE rec
              /\ journal' = OnPass(UpdatedJournal(journal, live, found), p.t,
                                   IF p.ready /\ ~p.stale THEN 1 ELSE 0)
              /\ shown' = shown + Cardinality(live)
(* A mistake: the result of a pass is applied to any session.              *)
PassEndsLate(ml, explained) ==
  /\ pass # <<>>
  /\ pass' = <<>>
  /\ lastT' = [lastT EXCEPT !.t = pass[1].t] /\ Apply(pass[1], ml, explained)
  /\ UNCHANGED <<clock, session, heard>>

PassEnds(ml, explained) ==
  /\ pass # <<>>
  /\ pass' = <<>>
  /\ \E p \in {pass[1]} :
       IF p.session # session THEN UNCHANGED <<lastT, rec, journal, shown>>
       ELSE lastT' = [lastT EXCEPT !.t = p.t] /\ Apply(p, ml, explained)
  /\ UNCHANGED <<clock, session, heard>>
(* PipelineRunner.loop: a pass that fails is not made again.               *)
PassFails ==
  /\ pass # <<>>
  /\ pass' = <<>> /\ lastT' = [lastT EXCEPT !.t = pass[1].t]
  /\ UNCHANGED <<clock, session, rec, heard, journal, shown>>

Next ==
  \/ \E i \in DOMAIN Instants, sight \in Sights : Point(i, sight)
  \/ ClockTicks \/ NewSession \/ Sweep
  \/ PassBegins \/ PassFails
  \/ PassEnds({}, FALSE) \/ \E d \in MlDelays, explained \in BOOLEAN : PassEnds({d}, explained)
Spec == Init /\ [][Next]_vars
-----------------------------------------------------------------------------
(* The models are trained on features computed from a vehicle's whole      *)
(* track, and asked with features computed from the hour before its newest *)
(* point (state/store.py:85-87), which may be dated after the moment of    *)
(* the pass: as long as that hour holds one point up to the moment, both   *)
(* are the same, for the target the labels name.  So is the sequence,      *)
(* whether the track goes on after the moment or not.  (When a vehicle was *)
(* silent for the whole hour the backend asks with no point at all, the    *)
(* training has the last one before it: then features do differ.)          *)
FeaturesAsOffline ==
  [][\A i \in DOMAIN pass' : pass # pass' =>
    \E p \in {pass'[i]}, whole \in {TrackOf(pass'[i].heard)} :
      \E past \in {AsOf(whole, p.t)} :
        AsOf(TrackOf(p.points), p.t) # <<>> =>
          /\ \E online \in {Prepared(p.points, p.t, p.ready)} :
               /\ online = Prepared(past, p.t, p.ready)
               /\ InHorizon(Plan, p.t) # {} /\ p.ready =>
                    \A label \in MakeLabel(Plan, [k \in DOMAIN Plan |-> Plan[k].tb], p.t) :
                      {label.visit} = {Plan[k].id : k \in FirstOf(online.visits)}
          /\ BuildSequence(Plan, whole, p.t) = BuildSequence(Plan, past, p.t)
          /\ \A k \in InHorizon(Plan, p.t) :
               SequenceStatic(Plan, whole, p.t, k, {}) = SequenceStatic(Plan, past, p.t, k, {})]_pass

(* Every forecast the card showed of a live vehicle, within the horizon,   *)
(* is scored once or still waits for the arrival at its stop, and the time *)
(* the quality is counted over is not longer than the passes cover.        *)
StillWait == UNION {{v} \X DOMAIN journal.pending[v] : v \in DOMAIN journal.pending}
JournalAddsUp ==
  /\ shown = Len(journal.errors) + Cardinality(StillWait)
  /\ journal.evaluated \cap DOMAIN journal.pending = {}
  /\ journal.lastPass # -1 => journal.seconds <= journal.lastPass - journal.firstPass + 60

(* A pass that outlives its session leaves nothing in the next one: what   *)
(* the record and the journal hold is not of a time that is yet to come.   *)
NothingOfAnotherSession ==
  /\ \A v \in DOMAIN rec.arrivals : rec.arrivals[v].at <= now
  /\ \A k \in DOMAIN rec.prediction : rec.prediction[k].at <= now
  /\ journal.lastPass <= now
=============================================================================
