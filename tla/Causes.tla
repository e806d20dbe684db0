------------------------------- MODULE Causes -------------------------------
(***************************************************************************)
(* Why a delay is forecast (transit_core/causes.py): rules from the most   *)
(* particular to the most general, and else the feature that added most to *)
(* the forecast.                                                           *)
(*                                                                         *)
(* f has the features as PointFeatures gives them (seconds, means, sets of *)
(* at most one value) and those of the backend: ratio in percent, dwell    *)
(* and in_layover.                                                         *)
(***************************************************************************)
EXTENDS PointFeatures

TheRoute(f) == f.route.place
Trend(f) == UNION {m.trend : m \in TheRoute(f)}
NotFalling(f) == \A v \in Trend(f) : v >= 0
Below(mean, v) == mean.n > 0 /\ mean.sum < v * mean.n

ShortLayover(f) ==
  f.plan.trip_break /\ \E v \in f.cur_dev : v > 0 /\ v > f.plan.max_gap
Congested(f) ==
  /\ \/ \E v \in f.ratio : v < 50
     \/ Below(f.speed.spd5, 8)
        /\ 10 * f.speed.stop5.sum < 6 * Larger(f.speed.stop5.n, 1)
  /\ NotFalling(f)
LongDwell(f) ==
  /\ \/ \E v \in f.dwell : v > 90
     \/ f.speed.stop5.n > 0 /\ 10 * f.speed.stop5.sum >= 6 * f.speed.stop5.n
  /\ ~f.in_layover
Accumulated(f) == (\E v \in f.cur_dev : v > 60) /\ NotFalling(f)

(* rule_cause                                                              *)
RuleCause(f, delay, stale) ==
  CASE stale           -> {"GPS_LOSS"}
    [] ~stale /\ delay < -60 -> {"EARLY_RUNNING"}
    [] OTHER ->
       IF ShortLayover(f) THEN {"SHORT_LAYOVER"}
       ELSE IF Congested(f) THEN {"CONGESTION"}
       ELSE IF LongDwell(f) THEN {"LONG_DWELL"}
       ELSE IF Accumulated(f) THEN {"ACCUMULATED_DELAY"} ELSE {}

(* CONTRIB_CAUSE, and _raw_value of the features it names that are times.  *)
CauseOf(name) ==
  CASE name \in {"cur_dev", "gps_dev_trend", "gps_dev"}   -> {"ACCUMULATED_DELAY"}
    [] name \in {"speed_ratio", "spd1", "spd5", "spd15", "eta_dev"} -> {"CONGESTION"}
    [] name \in {"stop5", "dwell"}                        -> {"LONG_DWELL"}
    [] name = "max_gap_between"                           -> {"SHORT_LAYOVER"}
    [] OTHER                                              -> {}
RawValue(f, name) ==
  CASE name = "cur_dev"       -> f.cur_dev
    [] name = "gps_dev_trend" -> Trend(f)
    [] name = "gps_dev"       -> {m.dev : m \in TheRoute(f)}
    [] name = "eta_dev"       -> {m.eta : m \in TheRoute(f)}
    [] name = "dwell"         -> f.dwell
    [] name = "speed_ratio"   -> f.ratio
    [] name \in {"spd1", "spd5", "spd15"} -> {v.sum : v \in {m \in {f.speed[name]} : m.n > 0}}
    [] OTHER                  -> {0}

(* _confirms                                                               *)
Confirms(f, name, code) ==
  /\ RawValue(f, name) # {}
  /\ name \in {"cur_dev", "gps_dev_trend", "gps_dev", "eta_dev"}
     => \A v \in RawValue(f, name) : v > 0
  /\ ~(code \in {"CONGESTION", "LONG_DWELL"} /\ f.in_layover)

(* _contrib_cause: contributions are given from the largest down.          *)
ContribCause(f, contributions) ==
  LET fits == {i \in DOMAIN contributions :
                 /\ contributions[i].seconds > 0
                 /\ \E code \in CauseOf(contributions[i].feature) :
                      Confirms(f, contributions[i].feature, code)}
  IN UNION {CauseOf(contributions[i].feature) : i \in FirstOf(fits)}

(* infer_cause                                                             *)
InferCause(f, contributions, delay, stale) ==
  LET rule == RuleCause(f, delay, stale)
      found == IF rule # {} THEN rule ELSE ContribCause(f, contributions)
  IN IF found # {} THEN CHOOSE code \in found : TRUE ELSE "UNKNOWN"
=============================================================================
