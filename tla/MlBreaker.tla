------------------------------ MODULE MlBreaker ------------------------------
(***************************************************************************)
(* The client of the ML service (app/ml_client.py): the circuit breaker,   *)
(* the calls in flight and the background health check.                    *)
(*                                                                         *)
(* The client is shared: the prediction pass calls it one call at a time,  *)
(* and every /whatif request calls it on its own, so calls overlap.  A     *)
(* call reads the breaker when it starts and changes it when it ends.      *)
(* Time is relative: `lock` is what is left of the pause.                  *)
(***************************************************************************)
EXTENDS Integers, FiniteSets

CONSTANTS
  Pass,         \* the caller of the prediction pass
  Requests,     \* /whatif requests that may be in flight at once
  Threshold,    \* ml_fail_threshold
  Pause,        \* open_s, in units of time
  NotLocked,    \* open_until = None
  MaxFailures   \* bound of the model: failures are counted up to here

Callers == {Pass} \cup Requests

ASSUME BreakerAssumption ==
  /\ Threshold \in Nat \ {0}
  /\ Pause \in Nat \ {0}
  /\ MaxFailures \in Nat /\ MaxFailures > Threshold
  /\ Pass \notin Requests
  /\ NotLocked \notin Nat

VARIABLES
  failures,   \* CircuitBreaker.failures
  lock,       \* open_until - now(), never below 0, or NotLocked
  calls,      \* the POST /predict of each caller
  poll,       \* the GET /health in flight
  healthOk,   \* MlClient.health_ok
  up          \* whether the ML service answers

breakerVars == <<failures, lock, calls, poll, healthOk, up>>

(* What a request in flight has met so far: a service that was up, that    *)
(* was down, or that was both in turn.                                     *)
Requested == {"idle", "up", "down", "mixed"}
MaySucceed(r) == r \in {"up", "mixed"}
MayFail(r) == r \in {"down", "mixed"}

(* A call in flight, its age and whether it started after the pause of an  *)
(* open breaker.                                                           *)
PredictCall == [state: Requested, age: 0..Pause, trial: BOOLEAN]
NoCall == [state |-> "idle", age |-> 0, trial |-> FALSE]

TypeOK ==
  /\ failures \in 0..MaxFailures
  /\ lock \in 0..Pause \cup {NotLocked}
  /\ calls \in [Callers -> PredictCall]
  /\ poll \in Requested
  /\ healthOk \in BOOLEAN
  /\ up \in BOOLEAN

IsOpen == lock # NotLocked /\ lock # 0
HalfOpen == lock = 0
Mode == IF IsOpen \/ ~healthOk THEN "fallback" ELSE "ml"
InFlight(c) == calls[c].state # "idle"

BreakerInit ==
  /\ failures = 0
  /\ lock = NotLocked
  /\ calls = [c \in Callers |-> NoCall]
  /\ poll = "idle"
  /\ healthOk = FALSE
  /\ up \in BOOLEAN

Sent == IF up THEN "up" ELSE "down"

\* Mistake: the end of the pause does not let a call through.
AllowClosed == lock = NotLocked

Allow == ~IsOpen

(* predict up to its await; a refused call ends at once and changes        *)
(* nothing.                                                                *)
Call(c) ==
  /\ ~InFlight(c)
  /\ Allow
  /\ calls' = [calls EXCEPT ![c] = [state |-> Sent, age |-> 0, trial |-> HalfOpen]]
  /\ UNCHANGED <<failures, lock, poll, healthOk, up>>

Ended(c) == calls' = [calls EXCEPT ![c] = NoCall]

\* Mistake: a success forgets the failures, but leaves the pause running.
CallSucceedsLocked(c) ==
  /\ MaySucceed(calls[c].state)
  /\ Ended(c)
  /\ failures' = 0
  /\ healthOk' = TRUE
  /\ UNCHANGED <<lock, poll, up>>

CallSucceeds(c) ==
  /\ MaySucceed(calls[c].state)
  /\ Ended(c)
  /\ failures' = 0 /\ lock' = NotLocked
  /\ healthOk' = TRUE
  /\ UNCHANGED <<poll, up>>

Counted == IF failures < MaxFailures THEN failures + 1 ELSE failures

Failure ==
  /\ failures' = Counted
  /\ lock' = IF failures' >= Threshold THEN Pause ELSE lock

(* A timeout, an error status or a malformed answer.                       *)
CallFails(c) ==
  /\ MayFail(calls[c].state)
  /\ Ended(c)
  /\ Failure
  /\ UNCHANGED <<poll, healthOk, up>>

(* An answer of another shape raises what predict does not catch (an item  *)
(* that is not an object): the breaker hears nothing of the call.          *)
CallRaises(c) ==
  /\ MayFail(calls[c].state)
  /\ Ended(c)
  /\ UNCHANGED <<failures, lock, poll, healthOk, up>>

-----------------------------------------------------------------------------
(* poll_health, once in ML_HEALTH_S.                                       *)

StartPoll ==
  /\ poll = "idle"
  /\ poll' = Sent
  /\ UNCHANGED <<failures, lock, calls, healthOk, up>>

PollOk ==
  /\ MaySucceed(poll)
  /\ poll' = "idle"
  /\ healthOk' = TRUE
  /\ UNCHANGED <<failures, lock, calls, up>>

\* Mistake: a failed check leaves the last verdict in place.
PollFailsSilently ==
  /\ MayFail(poll)
  /\ poll' = "idle"
  /\ UNCHANGED <<failures, lock, calls, healthOk, up>>

PollFails ==
  /\ MayFail(poll)
  /\ poll' = "idle"
  /\ healthOk' = FALSE
  /\ UNCHANGED <<failures, lock, calls, up>>

-----------------------------------------------------------------------------
(* The service and time.                                                   *)

Changed(r) == IF r = "idle" THEN r ELSE "mixed"

ServiceChanges ==
  /\ calls' = [c \in Callers |-> [calls[c] EXCEPT !.state = Changed(@)]]
  /\ poll' = Changed(poll)
  /\ UNCHANGED <<failures, lock, healthOk>>

ServiceStops == up /\ up' = FALSE /\ ServiceChanges
ServiceStarts == ~up /\ up' = TRUE /\ ServiceChanges

Older(call) ==
  IF call.state # "idle" /\ call.age < Pause THEN [call EXCEPT !.age = @ + 1] ELSE call

Tick ==
  /\ lock' = IF IsOpen THEN lock - 1 ELSE lock
  /\ calls' = [c \in Callers |-> Older(calls[c])]
  /\ UNCHANGED <<failures, poll, healthOk, up>>

CallEnds(c) == CallSucceeds(c) \/ CallFails(c) \/ CallRaises(c)
PollEnds == PollOk \/ PollFails

BreakerNext ==
  \/ \E c \in Callers : Call(c) \/ CallSucceeds(c) \/ CallFails(c) \/ CallRaises(c)
  \/ StartPoll \/ PollOk \/ PollFails
  \/ ServiceStops \/ ServiceStarts
  \/ Tick

BreakerSpec == BreakerInit /\ [][BreakerNext]_breakerVars

(* Calls and checks end (httpx has a timeout), the health loop goes on,    *)
(* time passes, and while a session runs the pass calls again and again    *)
(* (a pass is due every minute of the day).  Requests are not assumed.     *)
Fairness ==
  /\ \A c \in Callers : WF_breakerVars(CallEnds(c))
  /\ WF_breakerVars(PollEnds) /\ WF_breakerVars(StartPoll)
  /\ WF_breakerVars(Call(Pass))
  /\ WF_breakerVars(Tick)

FairSpec == BreakerSpec /\ Fairness

-----------------------------------------------------------------------------
(* The breaker has opened exactly when the threshold of failures has been  *)
(* reached with no success since, in whatever order overlapping calls end  *)
(* ("3 ошибки подряд → breaker открыт").                                   *)
LockedByFailures == lock # NotLocked <=> failures >= Threshold

(* While the breaker is open, every call in flight started no later than   *)
(* the failure that opened it: nothing is sent during the pause, however   *)
(* many callers overlap ("breaker открыт на 15 с: запросы в ml не идут").   *)
NothingSentWhileOpen ==
  IsOpen => \A c \in Callers : InFlight(c) => calls[c].age >= Pause - lock

(* The end of a pause does not forget why the breaker opened: until a call *)
(* succeeds, one more failure of any call, however old, opens it again for *)
(* the whole pause ("ошибка снова открывает").                             *)
FailureReopens ==
  [][\A c \in Callers :
       lock # NotLocked /\ CallFails(c) => lock' = Pause]_breakerVars

(* Once the service stays up, predictions come from the model for good: a  *)
(* late failure or a stale health check delays that, but cannot prevent it. *)
ComesBack == <>[]up => <>[](Mode = "ml" /\ failures = 0)

(* Once the service stays down, the mode shown to the dispatcher is the    *)
(* fallback for good, also between the pauses of the breaker.              *)
FallsBack == <>[]~up => <>[](Mode = "fallback")

=============================================================================
