---------------------------- MODULE IncidentBook ----------------------------
(***************************************************************************)
(* The incident book of one playback session: app/alerts/engine.py, with   *)
(* the alert policy (app/alerts/policy.py) and the risk levels it compares *)
(* (transit_core/risk.py).                                                 *)
(*                                                                         *)
(* The book is a value, and every method of the class is an operator from  *)
(* a book to a book, because one handler of the backend calls several of   *)
(* them without giving up the event loop.  AlertPipeline.tla composes      *)
(* them.  Delays and times are whole ticks (one simulated minute).         *)
(***************************************************************************)
EXTENDS Integers, Sequences

CONSTANTS
  Vehicles,       \* vehicles with a timetable (store records of kind "scheduled")
  Visits,         \* visits of a plan
  PlannedAt,      \* PlannedAt[v][w]: planned time of visit w of vehicle v (column tb)
  Predictions,    \* the predictions the ML service or the heuristic can give
  Facts,          \* the actual delays the stop detector can report
  NoFact,         \* Python's None: no arrival, no deviation
  AlertMode,      \* "or" | "and": how the policy joins its two thresholds
  AlertDelay,     \* AlertPolicy.delay_s
  AlertLate,      \* AlertPolicy.p_late (tenths)
  MinStreak,      \* AlertPolicy.min_streak
  RedDelay, YellowDelay, EarlyDelay, RedLate, YellowLate,  \* schemas.Thresholds
  UpdateStep,     \* UPDATE_STEP_S
  ResolveTimeout  \* RESOLVE_TIMEOUT

ASSUME BookAssumption ==
  /\ PlannedAt \in [Vehicles -> [Visits -> Nat]]
  /\ Predictions \subseteq [delay: Int, late: Nat]
  /\ Facts \subseteq Int
  /\ NoFact \notin Int
  /\ MinStreak \in Nat \ {0}
  /\ {AlertDelay, RedDelay, YellowDelay, EarlyDelay} \subseteq Int
  /\ {AlertLate, RedLate, YellowLate, UpdateStep, ResolveTimeout} \subseteq Nat

-----------------------------------------------------------------------------
(* Predictions: the policy and the colour on the map are two things.       *)

Hit(p) ==
  LET byDelay == p.delay > AlertDelay
      byLate  == p.late >= AlertLate
  IN IF AlertMode = "and" THEN byDelay /\ byLate ELSE byDelay \/ byLate

RiskLevels == {"red", "early", "yellow", "green"}

RiskOf(p) ==
  IF p.delay > RedDelay \/ p.late >= RedLate THEN "red"
  ELSE IF p.delay < EarlyDelay THEN "early"
  ELSE IF p.delay >= YellowDelay \/ p.late >= YellowLate THEN "yellow"
  ELSE "green"

-----------------------------------------------------------------------------
(* The book.  Incident ids are inc-0001, inc-0002, ...: positions of a     *)
(* sequence.  NoIncident stands for a vehicle missing from `active`, and a *)
(* streak of 0 for a visit missing from `streaks`.  Streaks stop counting  *)
(* at MinStreak, the only value they are compared with.                    *)

NoIncident == 0

Incident ==
  [vehicle: Vehicles, target: Visits, delay: Int, risk: RiskLevels,
   status: {"open", "ack", "resolved"},
   outcome: {"pending", "hit", "false_alarm"},
   epoch: Nat]                     \* ghost: the session whose pass opened it

Book ==
  [streaks: [Vehicles -> [Visits -> 0..MinStreak]],
   incidents: Seq(Incident),
   active: [Vehicles -> Nat],
   targets: SUBSET (Vehicles \X Visits)]

EmptyBook ==
  [streaks   |-> [v \in Vehicles |-> [w \in Visits |-> 0]],
   incidents |-> <<>>,
   active    |-> [v \in Vehicles |-> NoIncident],
   targets   |-> {}]

Ids(b) == 1..Len(b.incidents)
Unresolved(b, i) == b.incidents[i].status # "resolved"

Observe(b, v, hits) ==
  [b EXCEPT !.streaks[v] =
     [w \in Visits |->
        IF w \notin hits THEN 0
        ELSE IF b.streaks[v][w] < MinStreak THEN b.streaks[v][w] + 1
        ELSE MinStreak]]

CanOpen(b, v, w, horizonOk, p, now) ==
  /\ horizonOk
  /\ Hit(p)
  /\ b.streaks[v][w] >= MinStreak
  /\ b.active[v] = NoIncident
  /\ <<v, w>> \notin b.targets
  /\ PlannedAt[v][w] > now

NewIncident(v, w, p, e) ==
  [vehicle |-> v, target |-> w, delay |-> p.delay, risk |-> RiskOf(p),
   status |-> "open", outcome |-> "pending", epoch |-> e]

\* Mistake: the incident is stored, but neither table knows of it.
OpenIncidentUnregistered(b, v, w, p, e) ==
  [b EXCEPT !.incidents = Append(@, NewIncident(v, w, p, e))]

OpenIncident(b, v, w, p, e) ==
  [b EXCEPT !.incidents = Append(@, NewIncident(v, w, p, e)),
            !.active[v] = Len(b.incidents) + 1,
            !.targets = @ \cup {<<v, w>>}]

AbsDiff(x, y) == IF x >= y THEN x - y ELSE y - x

UpdateIncident(b, i, p) ==
  LET inc == b.incidents[i]
      moved == AbsDiff(p.delay, inc.delay) >= UpdateStep
  IN IF moved \/ RiskOf(p) # inc.risk
     THEN [b EXCEPT !.incidents[i] =
                      [@ EXCEPT !.delay = p.delay, !.risk = RiskOf(p)]]
     ELSE b

Outcome(actual) ==
  IF actual # NoFact /\ actual > RedDelay THEN "hit" ELSE "false_alarm"

\* Mistake: the resolved incident stays its vehicle's active one.
ResolveIncidentKept(b, i, actual) ==
  [b EXCEPT !.incidents[i] =
              [@ EXCEPT !.status = "resolved", !.outcome = Outcome(actual)]]

ResolveIncident(b, i, actual) ==
  [b EXCEPT !.active[b.incidents[i].vehicle] = NoIncident,
            !.incidents[i] =
              [@ EXCEPT !.status = "resolved", !.outcome = Outcome(actual)]]

\* Mistake: an acknowledgement reopens a resolved incident.
AckIncidentReopens(b, i) == [b EXCEPT !.incidents[i].status = "ack"]

\* Mistake: an acknowledged incident is no longer its vehicle's active one.
AckIncidentReleases(b, i) ==
  IF Unresolved(b, i)
  THEN [b EXCEPT !.incidents[i].status = "ack",
                 !.active[b.incidents[i].vehicle] = NoIncident]
  ELSE b

AckIncident(b, i) ==
  IF Unresolved(b, i) THEN [b EXCEPT !.incidents[i].status = "ack"] ELSE b

TimedOut(b, i, t) ==
  LET inc == b.incidents[i]
      predicted == IF inc.delay > 0 THEN inc.delay ELSE 0
  IN t > PlannedAt[inc.vehicle][inc.target] + predicted + ResolveTimeout

\* Mistake: no timeout.
SettleOnArrival(b, v, arrivals, curDev, t) ==
  LET i == b.active[v] IN
  IF i # NoIncident /\ arrivals[b.incidents[i].target] # NoFact
  THEN ResolveIncident(b, i, arrivals[b.incidents[i].target])
  ELSE b

(* arrivals[w] is the recorded actual delay at visit w, or NoFact; curDev   *)
(* is the deviation the pass computed, or NoFact.                           *)
Settle(b, v, arrivals, curDev, t) ==
  LET i == b.active[v] IN
  IF i = NoIncident THEN b
  ELSE IF arrivals[b.incidents[i].target] # NoFact
       THEN ResolveIncident(b, i, arrivals[b.incidents[i].target])
  ELSE IF TimedOut(b, i, t) THEN ResolveIncident(b, i, curDev)
  ELSE b
=============================================================================
