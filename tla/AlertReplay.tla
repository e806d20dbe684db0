----------------------------- MODULE AlertReplay -----------------------------
(***************************************************************************)
(* The offline replay of the alert policy (scripts/alert_replay.py) beside *)
(* the run it replays (scripts/stream_eval_run.py): a pass of the backend  *)
(* at each simulated minute keeps the incident book and the journal, and   *)
(* writes its forecasts to the dump; the replay finds the incidents again  *)
(* from the dump alone, with other means, and counts hits and misses.      *)
(*                                                                         *)
(* Of the two sources of arrivals one is left: the detector reports the    *)
(* arrivals of the schedule's fact, each at the first pass after it.  The  *)
(* book's epoch field holds the minute, created_at.                        *)
(***************************************************************************)
EXTENDS IncidentBook, FiniteSets, FiniteSetsExt, SequencesExt

CONSTANTS
  WindowFrom, WindowTo,   \* prepare.HORIZON
  TripOf,                 \* TripOf[v][w]: the trip of a visit
  Schedules,              \* what the facts of the day may be: actual delays or NoFact
  Beyond,                 \* a red forecast, of any visit beyond the window
  \* bounds of the model
  MaxT,                   \* the last minute
  Unsteady,               \* the vehicles that differ; others are red and fit all day
  MaxTroubles             \* vehicle minutes that are not ready or stale

ASSUME ReplayAssumption ==
  /\ WindowFrom \in Nat /\ WindowTo \in Nat /\ WindowFrom < WindowTo
  /\ MaxT \in Nat /\ MaxTroubles \in Nat
  /\ Beyond \in Predictions /\ Unsteady \subseteq Vehicles
  /\ TripOf \in [Vehicles -> [Visits -> Nat]]
  /\ Schedules \subseteq [Vehicles -> [Visits -> Int \cup {NoFact}]]

VARIABLES
  t,        \* the minute of the next pass
  fact,     \* the day's actual delays
  book,     \* Runtime.book
  journal,  \* Runtime.journal
  preds,    \* the dump's table of forecasts
  minutes   \* the dump's table of vehicle minutes

vars == <<t, fact, book, journal, preds, minutes>>

Targets == Vehicles \X Visits
Planned(tr) == PlannedAt[tr[1]][tr[2]]
Trip(tr) == <<tr[1], TripOf[tr[1]][tr[2]]>>
Delay(tr) == fact[tr[1]][tr[2]]
HasArrived(tr, m) == Delay(tr) # NoFact /\ Planned(tr) + Delay(tr) <= m
Positive(d) == IF d > 0 THEN d ELSE 0

-----------------------------------------------------------------------------
(* The run.  A journal that keeps every forecast of the window for the     *)
(* errors keeps here the visits that have one.                             *)

Init ==
  /\ t = 0 /\ fact \in Schedules
  /\ book = EmptyBook
  /\ journal = [pending |-> {}, late |-> {}, minutes |-> 0]
  /\ preds = {} /\ minutes = {}

Window(v) == {w \in Visits : PlannedAt[v][w] - t \in (WindowFrom + 1)..WindowTo}
Later(v) == {w \in Visits : PlannedAt[v][w] - t > WindowTo}
Earliest(v, ws) == {w \in ws : \A u \in ws : PlannedAt[v][w] <= PlannedAt[v][u]}
InPlanOrder(v, ws) == SetToSortSeq(ws, LAMBDA a, b : PlannedAt[v][a] < PlannedAt[v][b])

(* horizon_visits; the look-ahead for an empty window covers the plan.     *)
Offered(v, ready) ==
  IF ~ready THEN {} ELSE IF Window(v) # {} THEN Window(v) ELSE Earliest(v, Later(v))

(* _follow_task: the target of the active incident once out of the window. *)
Follow(v, ready, b) ==
  {b.incidents[i].target : i \in {j \in {b.active[v]} : ready /\ j # NoIncident}}
    \cap {w \in Visits \ Offered(v, ready) : PlannedAt[v][w] > t /\ ~HasArrived(<<v, w>>, t)}

Arrivals(v) == [w \in Visits |-> IF HasArrived(<<v, w>>, t) THEN fact[v][w] ELSE NoFact]

(* _incidents of the pass: settle and observe, then update what is active, *)
(* or else open the first visit of the window that may be.  The pass's     *)
(* deviation, by which settle judges an incident timed out, is unknown.    *)
Fit == <<TRUE, FALSE>>
(* The mode is LIVE: a vehicle is warm, and packets come.  At the speed of *)
(* the evaluation all vehicles are stale long before the mode is DEGRADED, *)
(* and none could open an incident, so "not all stale" stands for that.    *)
CanAlert(fleet) == (\E v \in Vehicles : fleet[v][1]) /\ \E v \in Vehicles : ~fleet[v][2]
Incidents(b0, v, p, flags, canAlert) ==
  LET hits == {w \in Window(v) \cap DOMAIN p : Hit(p[w])}
      b == Settle(Observe(b0, v, hits), v, Arrivals(v), NoFact, t)
      target == {b.incidents[i].target : i \in {b.active[v]} \ {NoIncident}}
      ready == {w \in hits : CanOpen(b, v, w, TRUE, p[w], t)}
      first == InPlanOrder(v, ready)[1]
  IN CASE target # {} /\ target \subseteq DOMAIN p -> UpdateIncident(b, b.active[v], p[Max(target)])
       [] target = {} /\ canAlert /\ flags = Fit /\ ready # {} -> OpenIncident(b, v, first, p[first], t)
       [] OTHER -> b

\* Mistake: the work of a stale vehicle is recorded too.
JournalOfStale(j, v, flags) ==
  LET first == InPlanOrder(v, Window(v))[1]
      kept == j.pending \cup (IF flags[1] /\ Window(v) # {} THEN {<<v, first>>} ELSE {})
      scored == {tr \in kept : tr[1] = v /\ HasArrived(tr, t)}
  IN [pending |-> kept \ scored,
      late    |-> j.late \cup {Trip(tr) : tr \in {x \in scored : Delay(x) > RedDelay}},
      minutes |-> j.minutes + (IF flags[1] THEN 1 ELSE 0)]

(* QualityJournal.record, on_arrivals and on_pass for one vehicle.         *)
Journal(j, v, flags) ==
  LET first == InPlanOrder(v, Window(v))[1]
      kept == j.pending \cup (IF flags = Fit /\ Window(v) # {} THEN {<<v, first>>} ELSE {})
      scored == {tr \in kept : tr[1] = v /\ HasArrived(tr, t)}
  IN [pending |-> kept \ scored,
      late    |-> j.late \cup {Trip(tr) : tr \in {x \in scored : Delay(x) > RedDelay}},
      minutes |-> j.minutes + (IF flags = Fit THEN 1 ELSE 0)]

(* What CapturingRunner writes of one vehicle: no follow-ups.              *)
Rows(v, p, flags) ==
  {[v |-> v, w |-> w, at |-> t, delay |-> p[w].delay, late |-> p[w].late,
    ok |-> w \in Window(v), stale |-> flags[2]] : w \in Offered(v, flags[1])}

(* What the ML service or, of a stale vehicle, the heuristic may say.      *)
Forecasts(v, flags) ==
  LET asked == Offered(v, flags[1]) \cup Follow(v, flags[1], book)
  IN {p \in [asked -> Predictions] : \A w \in asked : v \notin Unsteady \/ w \in Later(v) => p[w] = Beyond}

Troubles == Cardinality({m \in minutes : ~m.ready \/ m.stale})
Flags(v) ==
  {Fit} \cup (IF v \in Unsteady /\ Troubles < MaxTroubles THEN {<<TRUE, TRUE>>, <<FALSE, FALSE>>} ELSE {})

(* run_pass at minute t: each vehicle of the fleet in its turn.            *)
Pass ==
  /\ t <= MaxT
  /\ \E flags \in {f \in [Vehicles -> BOOLEAN \X BOOLEAN] : \A v \in Vehicles : f[v] \in Flags(v)} :
     \E p \in [Vehicles -> UNION {Forecasts(v, flags[v]) : v \in Vehicles}] :
       /\ \A v \in Vehicles : p[v] \in Forecasts(v, flags[v])
       /\ book' = FoldLeft(LAMBDA b, v : Incidents(b, v, p[v], flags[v], CanAlert(flags)), book,
                           SetToSeq(Vehicles))
       /\ journal' = FoldLeft(LAMBDA j, v : Journal(j, v, flags[v]), journal, SetToSeq(Vehicles))
       /\ preds' = preds \cup UNION {Rows(v, p[v], flags[v]) : v \in Vehicles}
       /\ minutes' = minutes \cup {[v |-> v, at |-> t, ready |-> flags[v][1], stale |-> flags[v][2]]
                                   : v \in Vehicles}
  /\ t' = t + 1 /\ UNCHANGED fact

Next == Pass
Spec == Init /\ [][Next]_vars

-----------------------------------------------------------------------------
(* The replay, from the dump and the facts.                                *)
Target(r) == <<r.v, r.w>>
Ready(r) == \E m \in minutes : m.v = r.v /\ m.at = r.at /\ m.ready

(* signal *)
Signal(r) == r.ok /\ Hit([delay |-> r.delay, late |-> r.late])

\* Mistake: rows are counted, not minutes.
RowsSoFar(r) == Cardinality({q \in preds : Target(q) = Target(r) /\ q.at <= r.at /\ Signal(q)})

(* streaks: minutes in a row with a signal for the same visit.             *)
Streak(r) ==
  LET signals == {q.at : q \in {x \in preds : Target(x) = Target(r) /\ Signal(x)}}
  IN r.at - Max(((-1)..r.at) \ signals)

(* _timeouts: by the last forecast of the window.                          *)
Timeout(tr) ==
  LET win == {r \in preds : r.ok /\ Target(r) = tr}
      last == CHOOSE r \in win : \A q \in win : q.at <= r.at
  IN Planned(tr) + Positive(last.delay) + ResolveTimeout

\* Mistake: an incident ends in the minute of its timeout.
BlocksUntilTimeout(tr, m) == ~HasArrived(tr, m) /\ ~(m >= Timeout(tr))

(* _blocks *)
Blocks(tr, m) == ~HasArrived(tr, m) /\ ~(m > Timeout(tr))

(* simulate: the eligible rows in order; a vehicle is busy with its last   *)
(* incident, and a target has one.                                         *)
Eligible ==
  {r \in preds : /\ Signal(r) /\ Streak(r) >= MinStreak
                 /\ ~r.stale /\ Ready(r) /\ Planned(Target(r)) > r.at}
Simulated ==
  LET Sooner(a, b) == Planned(Target(a)) < Planned(Target(b))
      Of(rows, m) == SetToSortSeq({r \in rows : r.at = m}, Sooner)
      Busy(incs, r) == \E i \in DOMAIN incs :
        /\ incs[i].target[1] = r.v /\ \A j \in (i + 1)..Len(incs) : incs[j].target[1] # r.v
        /\ Blocks(incs[i].target, r.at)
      Opened(incs, r) ==
        IF Busy(incs, r) \/ \E i \in DOMAIN incs : incs[i].target = Target(r) THEN incs
        ELSE Append(incs, [target |-> Target(r), created |-> r.at])
  IN FoldLeft(LAMBDA incs, m : FoldLeft(Opened, incs, Of(Eligible, m - 1)),
              <<>>, [m \in 1..(MaxT + 1) |-> m])

(* evaluate: shares are pairs <<part, whole>>.                             *)
Evaluate(inc) ==
  LET alerted == {inc[i].target : i \in DOMAIN inc}
      known == {tr \in alerted : Delay(tr) # NoFact}
      IsLate(tr) == Delay(tr) # NoFact /\ Delay(tr) > RedDelay
      reach == {Target(r) : r \in {x \in preds : x.ok}}
      lateTrips == {Trip(tr) : tr \in {x \in reach : IsLate(x)}}
      alertedTrips == {Trip(tr) : tr \in alerted}
  IN [precision |-> <<Cardinality({tr \in known : IsLate(tr)}), Cardinality(known)>>,
      missed    |-> lateTrips \ alertedTrips,
      lead_ok   |-> \A i \in DOMAIN inc : Planned(inc[i].target) - inc[i].created >= WindowFrom,
      minutes   |-> Cardinality({m \in minutes : m.ready /\ ~m.stale})]

(* dump_incidents_check: the run's incidents against the replay's.         *)
Online == {[target |-> <<i.vehicle, i.target>>, created |-> i.epoch] : i \in ToSet(book.incidents)}

(* QualityJournal.contract. *)
Contract ==
  LET With(outcome) == Cardinality({k \in Ids(book) : /\ ~Unresolved(book, k)
                                                      /\ book.incidents[k].outcome = outcome})
      trips == {Trip(tr) : tr \in book.targets}
  IN [precision |-> <<With("hit"), With("hit") + With("false_alarm")>>,
      misses    |-> journal.late \ trips,
      minutes   |-> journal.minutes]

-----------------------------------------------------------------------------
(* An incident that outlives its forecasts is timed by different ones: the *)
(* book's, which follow the target past the window but only in steps of    *)
(* UPDATE_STEP_S, and the last of the window.                              *)
Drifted ==
  \E i \in ToSet(book.incidents) :
    LET tr == <<i.vehicle, i.target>>
        ends == {Planned(tr) + Positive(i.delay) + ResolveTimeout, Timeout(tr)}
    IN Cardinality(ends) = 2 /\ Min(ends) < t - 1 /\ ~HasArrived(tr, Min(ends) + 1)

(* "Reproduces the logic of IncidentBook": with the same arrivals the      *)
(* replay opens the incidents of the run, each in its minute and no other, *)
(* unless an incident was timed out by a forecast the dump does not have   *)
(* (alert_replay.py, simulate; alerts/engine.py).                          *)
Ended == t > MaxT
ReplayFindsThem == Ended => Drifted \/ ToSet(Simulated) = Online

(* The replay and the backend judge the same: they count the same vehicle  *)
(* minutes; every lead is long enough; once every incident has met its     *)
(* arrival, their precision is the same; and the backend counts no trip as *)
(* missed that the replay does not (evaluate; quality.py, contract).       *)
ScoresAgree ==
  Ended =>
  \A e \in {Evaluate(Simulated)}, c \in {Contract}, drifted \in {Drifted} :
    LET Met(i) == HasArrived(<<i.vehicle, i.target>>, t - 1)
          /\ PlannedAt[i.vehicle][i.target] + fact[i.vehicle][i.target] <= Timeout(<<i.vehicle, i.target>>)
    IN /\ e.minutes = c.minutes /\ e.lead_ok
       /\ ~drifted => c.misses \subseteq e.missed
       /\ ~drifted /\ (\A i \in ToSet(book.incidents) : Met(i)) => e.precision = c.precision
=============================================================================
