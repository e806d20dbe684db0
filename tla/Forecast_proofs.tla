---------------------------- MODULE Forecast_proofs ----------------------------
(***************************************************************************)
(* Safety of what stands around the forecasts: the breaker of the client   *)
(* of the ML service (MlBreaker), for any number of overlapping callers,   *)
(* any threshold and any pause; the record of a vehicle, the cards that    *)
(* show it and the journal of quality (ForecastPass, FleetCards), for any  *)
(* plan, points, answers and sessions.                                     *)
(***************************************************************************)
EXTENDS FleetCards, MlBreaker, FiniteSetTheorems, WellFoundedInduction, TLAPS

-----------------------------------------------------------------------------
(* The breaker: what is sent, what failed and what is locked belong        *)
(* together.                                                               *)

BreakerInv == TypeOK /\ LockedByFailures /\ NothingSentWhileOpen

(* A failure counts, and opens the breaker from the threshold on.          *)
LEMMA FailureLemma ==
  ASSUME TypeOK, LockedByFailures, Failure
  PROVE  /\ failures' \in 0..MaxFailures
         /\ lock' \in 0..Pause \cup {NotLocked}
         /\ lock' # NotLocked <=> failures' >= Threshold
         /\ lock # NotLocked => lock' = Pause
         /\ lock' = lock \/ lock' = Pause
  BY BreakerAssumption DEF TypeOK, LockedByFailures, Failure, Counted

LEMMA BreakerInvInit == BreakerInit => BreakerInv
<1> SUFFICES ASSUME BreakerInit PROVE BreakerInv
  OBVIOUS
<1>1. calls \in [Callers -> PredictCall]
  BY BreakerAssumption DEF BreakerInit, NoCall, PredictCall, Requested
<1>2. failures \in 0..MaxFailures /\ lock = NotLocked /\ ~(failures >= Threshold)
  BY BreakerAssumption DEF BreakerInit
<1>3. TypeOK
  BY <1>1, <1>2 DEF BreakerInit, TypeOK, Requested
<1>4. QED
  BY <1>2, <1>3 DEF BreakerInv, LockedByFailures, NothingSentWhileOpen, IsOpen

(* What the end of a call does to the calls in flight.                     *)
LEMMA EndedLemma ==
  ASSUME TypeOK, NEW c \in Callers, Ended(c)
  PROVE  /\ calls' \in [Callers -> PredictCall]
         /\ \A d \in Callers : InFlight(d)' => InFlight(d) /\ calls'[d] = calls[d]
<1>1. NoCall \in PredictCall
      /\ NoCall.state = "idle"
  BY BreakerAssumption DEF NoCall, PredictCall, Requested
<1>2. QED
  BY <1>1 DEF Ended, TypeOK, InFlight

LEMMA CallStep == ASSUME BreakerInv, NEW c \in Callers, Call(c) PROVE BreakerInv'
<1> DEFINE call == [state |-> Sent, age |-> 0, trial |-> HalfOpen]
<1>1. call \in PredictCall
  BY BreakerAssumption DEF Sent, HalfOpen, PredictCall, Requested
<1>2. calls' = [calls EXCEPT ![c] = call] /\ UNCHANGED <<failures, lock, poll, healthOk, up>>
  BY DEF Call
<1> HIDE DEF call
<1>3. TypeOK'
  BY <1>1, <1>2 DEF BreakerInv, TypeOK
<1>4. ~IsOpen'
  BY <1>2 DEF Call, Allow, IsOpen
<1>5. QED
  BY <1>2, <1>3, <1>4 DEF BreakerInv, LockedByFailures, NothingSentWhileOpen

LEMMA EndStep ==
  ASSUME BreakerInv, NEW c \in Callers, CallSucceeds(c) \/ CallFails(c) \/ CallRaises(c)
  PROVE  BreakerInv'
<1>1. Ended(c) /\ poll' = poll /\ up' = up
  BY DEF CallSucceeds, CallFails, CallRaises
<1>2. /\ calls' \in [Callers -> PredictCall]
      /\ \A d \in Callers : InFlight(d)' => InFlight(d) /\ calls'[d] = calls[d]
  BY <1>1, EndedLemma DEF BreakerInv
<1>3. healthOk' \in BOOLEAN
  BY DEF CallSucceeds, CallFails, CallRaises, BreakerInv, TypeOK
<1>4. /\ failures' \in 0..MaxFailures /\ lock' \in 0..Pause \cup {NotLocked}
      /\ lock' # NotLocked <=> failures' >= Threshold
      /\ lock' = lock \/ lock' = Pause \/ lock' = NotLocked
  <2>1. CASE CallSucceeds(c)
    BY <2>1, BreakerAssumption DEF CallSucceeds
  <2>2. CASE CallFails(c)
    BY <2>2, FailureLemma DEF CallFails, BreakerInv
  <2>3. CASE CallRaises(c)
    BY <2>3 DEF CallRaises, BreakerInv, TypeOK, LockedByFailures
  <2>4. QED
    BY <2>1, <2>2, <2>3
<1>5. NothingSentWhileOpen'
  BY <1>2, <1>4, BreakerAssumption DEF BreakerInv, TypeOK, PredictCall, NothingSentWhileOpen, IsOpen
<1>6. QED
  BY <1>1, <1>2, <1>3, <1>4, <1>5 DEF BreakerInv, TypeOK, LockedByFailures

LEMMA PollStep == ASSUME BreakerInv, StartPoll \/ PollOk \/ PollFails PROVE BreakerInv'
<1>1. UNCHANGED <<failures, lock, calls, up>>
  BY DEF StartPoll, PollOk, PollFails
<1>2. poll' \in Requested
  BY DEF StartPoll, PollOk, PollFails, Sent, Requested, BreakerInv, TypeOK
<1>3. healthOk' \in BOOLEAN
  BY DEF StartPoll, PollOk, PollFails, BreakerInv, TypeOK
<1>4. QED
  BY <1>1, <1>2, <1>3 DEF BreakerInv, TypeOK, LockedByFailures, NothingSentWhileOpen, IsOpen, InFlight

(* The service going down or up: what a request has met changes, not its   *)
(* age, and none starts or ends.                                           *)
LEMMA ServiceStep == ASSUME BreakerInv, ServiceStops \/ ServiceStarts PROVE BreakerInv'
<1>1. ServiceChanges /\ up' \in BOOLEAN
  BY DEF ServiceStops, ServiceStarts
<1>2. \A r \in Requested : Changed(r) \in Requested /\ (Changed(r) = "idle" <=> r = "idle")
  BY DEF Requested, Changed
<1>3. poll' \in Requested /\ UNCHANGED <<failures, lock, healthOk>>
  BY <1>1, <1>2 DEF ServiceChanges, BreakerInv, TypeOK
<1>4. calls' = [c \in Callers |-> [calls[c] EXCEPT !.state = Changed(calls[c].state)]]
  BY <1>1 DEF ServiceChanges
<1>5. \A c \in Callers : calls[c] \in PredictCall
  BY DEF BreakerInv, TypeOK
<1>6. /\ calls' \in [Callers -> PredictCall]
      /\ \A c \in Callers : /\ calls'[c].age = calls[c].age
                            /\ calls'[c].state = "idle" <=> calls[c].state = "idle"
  BY <1>2, <1>4, <1>5 DEF PredictCall
<1>7. NothingSentWhileOpen'
  BY <1>3, <1>6 DEF BreakerInv, NothingSentWhileOpen, IsOpen, InFlight
<1>8. QED
  BY <1>1, <1>3, <1>6, <1>7 DEF BreakerInv, TypeOK, LockedByFailures

LEMMA TickStep == ASSUME BreakerInv, Tick PROVE BreakerInv'
<1>1. /\ lock' \in 0..Pause \cup {NotLocked}
      /\ lock' # NotLocked <=> lock # NotLocked
      /\ IsOpen' => IsOpen /\ lock' = lock - 1
  BY BreakerAssumption DEF Tick, IsOpen, BreakerInv, TypeOK
<1>2. /\ calls' \in [Callers -> PredictCall]
      /\ \A c \in Callers : InFlight(c)' =>
           InFlight(c) /\ (calls'[c].age = calls[c].age + 1 \/ calls'[c].age = Pause)
  <2>1. Pause \in Nat /\ calls \in [Callers -> PredictCall]
    BY BreakerAssumption DEF BreakerInv, TypeOK
  <2>2. \A c \in Callers :
          /\ Older(calls[c]) \in PredictCall
          /\ Older(calls[c]).state = calls[c].state
          /\ calls[c].state # "idle" =>
               Older(calls[c]).age = calls[c].age + 1 \/ Older(calls[c]).age = Pause
    <3>1. SUFFICES ASSUME NEW call \in PredictCall
                   PROVE  /\ Older(call) \in PredictCall
                          /\ Older(call).state = call.state
                          /\ call.state # "idle" =>
                               Older(call).age = call.age + 1 \/ Older(call).age = Pause
      BY <2>1
    <3>2. CASE call.state # "idle" /\ call.age < Pause
      <4>1. Older(call) = [call EXCEPT !.age = call.age + 1]
        BY <3>2 DEF Older
      <4>2. call.age + 1 \in 0..Pause
        BY <2>1, <3>1, <3>2 DEF PredictCall
      <4>3. QED
        BY <4>1, <4>2 DEF PredictCall
    <3>3. CASE ~(call.state # "idle" /\ call.age < Pause)
      BY <2>1, <3>1, <3>3 DEF Older, PredictCall
    <3>4. QED
      BY <3>2, <3>3
  <2>3. \A c \in Callers : calls'[c] = Older(calls[c])
    BY DEF Tick
  <2>4. calls' \in [Callers -> PredictCall]
    BY <2>2 DEF Tick
  <2>5. QED
    BY <2>2, <2>3, <2>4 DEF InFlight
<1>3. UNCHANGED <<failures, poll, healthOk, up>>
  BY DEF Tick
<1>4. NothingSentWhileOpen'
  BY <1>1, <1>2, BreakerAssumption DEF BreakerInv, TypeOK, PredictCall, NothingSentWhileOpen, IsOpen
<1>5. QED
  BY <1>1, <1>2, <1>3, <1>4 DEF BreakerInv, TypeOK, LockedByFailures

LEMMA BreakerInvNext == BreakerInv /\ [BreakerNext]_breakerVars => BreakerInv'
<1> SUFFICES ASSUME BreakerInv, [BreakerNext]_breakerVars PROVE BreakerInv'
  OBVIOUS
<1>1. CASE UNCHANGED breakerVars
  BY <1>1 DEF breakerVars, BreakerInv, TypeOK, LockedByFailures, NothingSentWhileOpen, IsOpen, InFlight
<1>2. QED
  BY <1>1, CallStep, EndStep, PollStep, ServiceStep, TickStep DEF BreakerNext

THEOREM BreakerInvariant == BreakerSpec => []BreakerInv
  BY BreakerInvInit, BreakerInvNext, PTL DEF BreakerSpec

(* Types, whatever the threshold, the pause and the callers.               *)
THEOREM BreakerTypes == BreakerSpec => []TypeOK
<1>1. BreakerInv => TypeOK
  BY DEF BreakerInv
<1>2. QED
  BY <1>1, BreakerInvariant, PTL

(* The breaker is locked exactly by a run of Threshold failures.           *)
THEOREM LockedExactly == BreakerSpec => []LockedByFailures
<1>1. BreakerInv => LockedByFailures
  BY DEF BreakerInv
<1>2. QED
  BY <1>1, BreakerInvariant, PTL

(* No call in flight was sent during the pause.                            *)
THEOREM PauseRespected == BreakerSpec => []NothingSentWhileOpen
<1>1. BreakerInv => NothingSentWhileOpen
  BY DEF BreakerInv
<1>2. QED
  BY <1>1, BreakerInvariant, PTL

(* After the pause any failure opens the breaker for the whole pause again. *)
THEOREM TrialFailureReopens == BreakerSpec => FailureReopens
<1>1. BreakerInv => [\A c \in Callers : lock # NotLocked /\ CallFails(c) => lock' = Pause]_breakerVars
  BY FailureLemma DEF BreakerInv, CallFails
<1>2. QED
  BY <1>1, BreakerInvariant, PTL DEF FailureReopens

-----------------------------------------------------------------------------
(* Induction, and functions defined from one number to the next.           *)

LEMMA Least ==
  ASSUME NEW S \in SUBSET Nat, S # {}
  PROVE  \E x \in S : \A y \in S : x <= y
<1> DEFINE R == OpToRel(<, Nat)
<1>1. IsWellFoundedOn(R, Nat)
  BY NatLessThanWellFounded
<1> HIDE DEF R
<1>2. PICK x \in S : \A y \in S : ~(<<y, x>> \in R)
  BY <1>1, WFMin
<1>3. \A n, m \in Nat : <<n, m>> \in R <=> n < m
  BY DEF R, OpToRel
<1>4. \A y \in S : x \in Nat /\ y \in Nat /\ ~(y < x)
  BY <1>2, <1>3
<1>5. QED
  BY <1>4

(* What holds at 0 and passes from each number to the next holds up to n.  *)
LEMMA Induction ==
  ASSUME NEW n \in Nat, NEW S, 0 \in S, \A k \in 1..n : k - 1 \in S => k \in S
  PROVE  \A k \in 0..n : k \in S
<1> SUFFICES ASSUME 0..n \ S # {} PROVE FALSE
  OBVIOUS
<1>1. PICK x \in 0..n \ S : \A y \in 0..n \ S : x <= y
  <2>1. (0..n) \ S \in SUBSET Nat
    OBVIOUS
  <2>2. QED
    BY <2>1, Least
<1>2. x # 0 /\ x - 1 \in 0..n /\ ~(x <= x - 1) /\ x \in 1..n
  BY <1>1
<1>3. x - 1 \in S
  BY <1>1, <1>2
<1>4. QED
  BY <1>1, <1>2, <1>3

(* A function defined up to n by what it gives at the number before.       *)
StepsFrom(f, n, base, step) ==
  f[0] = base /\ \A k \in 1..n : f[k] = step[<<k, f[k - 1]>>]

LEMMA Recursion ==
  ASSUME NEW n \in Nat, NEW V, NEW base \in V, NEW step \in [(1..n) \X V -> V]
  PROVE  \E f \in [0..n -> V] : StepsFrom(f, n, base, step)
<1> DEFINE S == {m \in 0..n : \E f \in [0..n -> V] : StepsFrom(f, m, base, step)}
<1>1. 0 \in S
  <2>1. [k \in 0..n |-> base] \in [0..n -> V]
    OBVIOUS
  <2>2. StepsFrom([k \in 0..n |-> base], 0, base, step)
    BY DEF StepsFrom
  <2>3. QED
    BY <2>1, <2>2
<1>2. ASSUME NEW m \in 1..n, m - 1 \in S PROVE m \in S
  <2>1. PICK f \in [0..n -> V] : StepsFrom(f, m - 1, base, step)
    BY <1>2
  <2> DEFINE g == [k \in 0..n |-> IF k = m THEN step[<<m, f[m - 1]>>] ELSE f[k]]
  <2>2. m - 1 \in 0..n /\ <<m, f[m - 1]>> \in (1..n) \X V
    BY <2>1
  <2>3. step[<<m, f[m - 1]>>] \in V
    BY <2>2
  <2>4. g \in [0..n -> V]
    BY <2>1, <2>3
  <2>5. ASSUME NEW k \in 1..m PROVE g[k] = step[<<k, g[k - 1]>>]
    <3>1. k \in 0..n /\ k - 1 \in 0..n /\ k - 1 # m /\ g[k - 1] = f[k - 1]
      BY <1>2
    <3>2. CASE k = m
      BY <3>1, <3>2
    <3>3. CASE k # m
      <4>1. k \in 1..(m - 1)
        BY <3>3, <2>5
      <4>2. f[k] = step[<<k, f[k - 1]>>]
        BY <2>1, <4>1 DEF StepsFrom
      <4>3. QED
        BY <3>1, <3>3, <4>2
    <3>4. QED
      BY <3>2, <3>3
  <2>6. g[0] = base
    BY <1>2, <2>1 DEF StepsFrom
  <2>7. StepsFrom(g, m, base, step)
    BY <2>5, <2>6 DEF StepsFrom
  <2>8. QED
    BY <1>2, <2>4, <2>7
<1> HIDE DEF S
<1>3. n \in S
  BY <1>1, <1>2, Induction
<1>4. QED
  BY <1>3 DEF S

(* What is at some places of a sequence.                                   *)
TakenUpTo(f, list, places) ==
  /\ f[0] = <<>>
  /\ \A k \in 1..Len(list) :
       f[k] = IF k \in places THEN Append(f[k - 1], list[k]) ELSE f[k - 1]

LEMMA TakenIs ==
  ASSUME NEW S, NEW list \in Seq(S), NEW places
  PROVE  \E f \in [0..Len(list) -> Seq({list[i] : i \in places \cap DOMAIN list})] :
            TakenUpTo(f, list, places) /\ Taken(list, places) = f[Len(list)]
<1> DEFINE n == Len(list)
           V == Seq({list[i] : i \in places \cap DOMAIN list})
           E(k, s) == IF k \in places THEN Append(s, list[k]) ELSE s
           step == [z \in (1..n) \X V |-> E(z[1], z[2])]
           upTo == CHOOSE g : g = [k \in 0..n |-> IF k = 0 THEN <<>>
                                    ELSE IF k \in places THEN Append(g[k - 1], list[k]) ELSE g[k - 1]]
<1>1. n \in Nat /\ DOMAIN list = 1..n /\ <<>> \in V
  OBVIOUS
<1>2. \A k \in 1..n : \A s \in V : E(k, s) \in V
  BY <1>1
<1>3. step \in [(1..n) \X V -> V]
  BY <1>2
<1>4. PICK f \in [0..n -> V] : StepsFrom(f, n, <<>>, step)
  <2> HIDE DEF n, V, step
  <2>1. QED
    BY <1>1, <1>3, Recursion
<1>5. \A k \in 1..n : f[k] = E(k, f[k - 1])
  <2> TAKE k \in 1..n
  <2>1. k - 1 \in 0..n
    BY <1>1
  <2>2. f[k - 1] \in V
    BY <2>1, <1>4
  <2>3. f[k] = step[<<k, f[k - 1]>>]
    BY <1>4 DEF StepsFrom
  <2> HIDE DEF V
  <2>4. QED
    BY <2>2, <2>3
<1>6. f = [k \in 0..n |-> IF k = 0 THEN <<>>
             ELSE IF k \in places THEN Append(f[k - 1], list[k]) ELSE f[k - 1]]
  <2>1. f[0] = <<>> /\ f \in [0..n -> V]
    BY <1>4 DEF StepsFrom
  <2>2. \A k \in 0..n : k # 0 => k \in 1..n
    BY <1>1
  <2> HIDE DEF n, V
  <2>3. QED
    BY <1>5, <2>1, <2>2
<1>7. upTo = [k \in 0..n |-> IF k = 0 THEN <<>>
             ELSE IF k \in places THEN Append(upTo[k - 1], list[k]) ELSE upTo[k - 1]]
  <2> HIDE DEF n
  <2>1. QED
    BY <1>6
<1>8. Taken(list, places) = upTo[n]
  BY DEF Taken
<1> HIDE DEF upTo
<1>9. upTo[0] = <<>> /\ \A k \in 1..n : upTo[k] = E(k, upTo[k - 1])
  <2>1. \A k \in 1..n : k \in 0..n /\ k # 0
    BY <1>1
  <2>2. 0 \in 0..n
    BY <1>1
  <2> HIDE DEF n
  <2>3. QED
    BY <1>7, <2>1, <2>2
<1> DEFINE T == {k \in 0..n : upTo[k] \in V}
<1>10. 0 \in T
  BY <1>1, <1>9
<1>11. ASSUME NEW k \in 1..n, k - 1 \in T PROVE k \in T
  <2>1. upTo[k - 1] \in V /\ k \in 0..n
    BY <1>1, <1>11
  <2>2. upTo[k] \in V
    BY <1>2, <1>9, <2>1
  <2>3. QED
    BY <2>1, <2>2
<1>12. \A k \in 0..n : upTo[k] \in V
  <2> HIDE DEF T
  <2>1. \A k \in 0..n : k \in T
    BY <1>1, <1>10, <1>11, Induction
  <2>2. QED
    BY <2>1 DEF T
<1>13. upTo \in [0..n -> V]
  <2> HIDE DEF n, V
  <2>1. QED
    BY <1>7, <1>12
<1>14. TakenUpTo(upTo, list, places)
  BY <1>9 DEF TakenUpTo
<1>15. QED
  BY <1>8, <1>13, <1>14

-----------------------------------------------------------------------------
(* The order of time.                                                      *)

(* Sooner or at the same time and not behind.                              *)
NotLater(times, i) ==
  {j \in DOMAIN times : times[j] < times[i] \/ (times[j] = times[i] /\ j <= i)}

LEMMA ByTimeIs ==
  ASSUME NEW n \in Nat, NEW times \in [1..n -> Int]
  PROVE  /\ ByTime(times) \in [1..n -> 1..n]
         /\ \A i, j \in 1..n : ByTime(times)[i] = ByTime(times)[j] => i = j
<1> DEFINE Rank == [i \in 1..n |-> Cardinality(NotLater(times, i))]
           order == ByTime(times)
<1>1. IsFiniteSet(1..n) /\ Cardinality(1..n) = n
  BY FS_Interval
<1>2. \A i \in 1..n :
        /\ NotLater(times, i) \subseteq 1..n /\ i \in NotLater(times, i)
        /\ IsFiniteSet(NotLater(times, i))
  BY <1>1, FS_Subset DEF NotLater
<1>3. \A i \in 1..n : Rank[i] \in 1..n
  <2> TAKE i \in 1..n
  <2>1. Cardinality(NotLater(times, i)) \in Nat /\ Cardinality(NotLater(times, i)) <= n
    BY <1>1, <1>2, FS_Subset, FS_CardinalityType
  <2>2. Cardinality(NotLater(times, i)) # 0
    BY <1>2, FS_EmptySet
  <2>3. QED
    BY <2>1, <2>2
<1>4. ASSUME NEW i \in 1..n, NEW j \in 1..n, i # j,
             times[i] < times[j] \/ (times[i] = times[j] /\ i <= j)
      PROVE  Rank[i] # Rank[j]
  <2>1. NotLater(times, i) \subseteq NotLater(times, j)
    BY <1>4 DEF NotLater
  <2>2. j \in NotLater(times, j) /\ j \notin NotLater(times, i)
    BY <1>4 DEF NotLater
  <2>3. QED
    BY <1>2, <2>1, <2>2, FS_Subset
<1>5. \A i, j \in 1..n : Rank[i] = Rank[j] => i = j
  <2>1. \A i, j \in 1..n : times[i] < times[j] \/ times[j] < times[i] \/ times[i] = times[j]
    OBVIOUS
  <2>2. \A i, j \in 1..n : i <= j \/ j <= i
    OBVIOUS
  <2> HIDE DEF Rank
  <2>3. QED
    BY <1>4, <2>1, <2>2
<1>6. \A m \in 1..n : \E i \in 1..n : Rank[i] = m
  <2>1. Rank \in [1..n -> 1..n]
    BY <1>3
  <2> HIDE DEF Rank
  <2>2. Rank \in Injection(1..n, 1..n)
    BY <1>5, <2>1 DEF Injection, IsInjective
  <2>3. Rank \in Surjection(1..n, 1..n)
    BY <1>1, <2>2, FS_Injection
  <2>4. QED
    BY <2>3 DEF Surjection
<1>7. order = [m \in 1..n |-> CHOOSE i \in 1..n : Cardinality(NotLater(times, i)) = m]
  <2>1. DOMAIN times = 1..n
    OBVIOUS
  <2>2. order = [m \in DOMAIN times |->
                   CHOOSE i \in DOMAIN times : Cardinality(NotLater(times, i)) = m]
    BY Zenon DEF ByTime, NotLater
  <2> HIDE DEF order
  <2>3. QED
    BY <2>1, <2>2
<1>8. \A m \in 1..n : order[m] \in 1..n /\ Rank[order[m]] = m
  <2>1. \A m \in 1..n : \E i \in 1..n : Cardinality(NotLater(times, i)) = m
    BY <1>6
  <2> HIDE DEF order
  <2>2. \A m \in 1..n : order[m] \in 1..n /\ Cardinality(NotLater(times, order[m])) = m
    BY <1>7, <2>1
  <2>3. QED
    BY <2>2
<1> HIDE DEF order, Rank
<1>9. order \in [1..n -> 1..n]
  BY <1>7, <1>8
<1>10. \A i, j \in 1..n : order[i] = order[j] => i = j
  BY <1>8
<1>11. QED
  BY <1>9, <1>10 DEF order

-----------------------------------------------------------------------------
(* The plan and the track.                                                 *)

PointRecs == [et: Int, x: Int, speed: Int, valid: BOOLEAN]
Visits == {Plan[k] : k \in DOMAIN Plan}

LEMMA PlanIs ==
  /\ Len(Plan) \in Nat /\ DOMAIN Plan = 1..Len(Plan) /\ Plan \in Seq(Visits)
  /\ \A k \in DOMAIN Plan : Plan[k].tb \in Int /\ Plan[k].x \in Int
  /\ \A i, j \in DOMAIN Plan : Plan[i].id = Plan[j].id => i = j
<1> DEFINE n == Len(RawPlan)
           times == [i \in DOMAIN RawPlan |-> RawPlan[i].tb]
           order == ByTime(times)
           s == [k \in DOMAIN RawPlan |-> RawPlan[order[k]]]
<1>1. n \in Nat /\ DOMAIN RawPlan = 1..n
  BY ForecastAssumption
<1>2. times \in [1..n -> Int]
  BY <1>1, ForecastAssumption
<1> HIDE DEF n, times
<1>3. order \in [1..n -> 1..n] /\ \A i, j \in 1..n : order[i] = order[j] => i = j
  BY <1>1, <1>2, ByTimeIs
<1>4. DOMAIN s = 1..n /\ \A k \in 1..n : order[k] \in 1..n /\ s[k] = RawPlan[order[k]]
  BY <1>1, <1>3
<1>5. DOMAIN Plan = DOMAIN s
      /\ \A k \in DOMAIN s : Plan[k].id = s[k].id /\ Plan[k].tb = s[k].tb /\ Plan[k].x = s[k].x
  BY Zenon DEF Plan, PreparePlan, times
<1>6. Plan = [k \in DOMAIN Plan |-> Plan[k]]
  BY Zenon DEF Plan, PreparePlan
<1> HIDE DEF order, s
<1>7. DOMAIN Plan = 1..n
  BY <1>4, <1>5
<1>8. Plan \in Seq(Visits)
  <2>1. Plan \in [1..n -> Visits]
    <3> DEFINE P == Plan
    <3>1. P = [k \in 1..n |-> P[k]] /\ \A k \in 1..n : P[k] \in Visits
      BY <1>6, <1>7, Zenon DEF Visits
    <3> HIDE DEF P
    <3>2. P \in [1..n -> Visits]
      BY <3>1
    <3>3. QED
      BY <3>2 DEF P
  <2>2. \A f \in [1..n -> Visits] : f \in Seq(Visits)
    BY <1>1
  <2>3. QED
    BY <2>1, <2>2
<1>9. Len(Plan) = n
  BY <1>1, <1>7, <1>8
<1> DEFINE R == RawPlan
<1>13. /\ \A i \in 1..n : R[i].tb \in Int /\ R[i].x \in Int
       /\ \A i, j \in 1..n : R[i].id = R[j].id => i = j
  BY <1>1, ForecastAssumption, Zenon
<1>14. \A k \in 1..n : /\ order[k] \in 1..n /\ Plan[k].id = R[order[k]].id
                         /\ Plan[k].tb = R[order[k]].tb /\ Plan[k].x = R[order[k]].x
  BY <1>4, <1>5, Zenon
<1> HIDE DEF R
<1>10. \A k \in 1..n : Plan[k].tb \in Int /\ Plan[k].x \in Int
  BY <1>13, <1>14, Zenon
<1>11. \A i, j \in 1..n : Plan[i].id = Plan[j].id => i = j
  <2> TAKE i, j \in 1..n
  <2> HAVE Plan[i].id = Plan[j].id
  <2>1. order[i] \in 1..n /\ order[j] \in 1..n /\ R[order[i]].id = R[order[j]].id
    BY <1>14, Zenon
  <2>2. order[i] = order[j]
    BY <1>13, <2>1, Zenon
  <2>3. QED
    BY <1>3, <2>2, Zenon
<1>12. QED
  BY <1>1, <1>7, <1>8, <1>9, <1>10, <1>11

LEMMA TrackType ==
  ASSUME NEW points \in Seq(PointRecs)
  PROVE  TrackOf(points) \in Seq(PointRecs) /\ Len(TrackOf(points)) = Len(points)
<1> DEFINE n == Len(points)
           times == [i \in DOMAIN points |-> points[i].et]
           order == ByTime(times)
<1>1. n \in Nat /\ DOMAIN points = 1..n /\ \A i \in 1..n : points[i] \in PointRecs
  OBVIOUS
<1>2. times \in [1..n -> Int]
  BY <1>1 DEF PointRecs
<1> HIDE DEF n, times
<1>3. order \in [1..n -> 1..n]
  BY <1>1, <1>2, ByTimeIs
<1>4. TrackOf(points) = [k \in 1..n |-> points[order[k]]]
  BY <1>1 DEF TrackOf, times
<1> HIDE DEF order
<1>5. TrackOf(points) \in [1..n -> PointRecs]
  BY <1>1, <1>3, <1>4
<1>6. QED
  BY <1>1, <1>5 DEF n

(* Interpolation does not leave the time between the two points.           *)
LEMMA PartOfTheWay ==
  ASSUME NEW d \in Nat, d > 0, NEW m \in 0..d, NEW a \in Int, NEW b \in Int, NEW u \in Int,
         a <= u, b <= u
  PROVE  /\ a + (m * (b - a)) \div d \in Int
         /\ a + (m * (b - a)) \div d <= u
<1> DEFINE e == b - a
           q == (m * e) \div d
<1>1. e \in Int /\ m \in Nat /\ m <= d
  OBVIOUS
<1>2. m * e \in Int
  BY <1>1
<1>3. \A p \in Int : (p \div d) \in Int /\ d * (p \div d) <= p
  OBVIOUS
<1>4. q \in Int /\ d * q <= m * e
  BY <1>2, <1>3
<1> HIDE DEF q
<1>5. CASE e >= 0
  <2>1. m * e <= d * e
    BY <1>1, <1>5
  <2>2. d * q <= d * e
    BY <1>1, <1>2, <1>4, <2>1
  <2>3. q <= e
    BY <1>1, <1>4, <2>2
  <2>4. QED
    BY <1>4, <2>3 DEF q
<1>6. CASE e < 0
  <2>1. m * e <= 0
    BY <1>1, <1>6
  <2>2. d * q <= 0
    BY <1>1, <1>2, <1>4, <2>1
  <2>3. q <= 0
    BY <1>4, <2>2
  <2>4. QED
    BY <1>4, <2>3 DEF q
<1>7. QED
  BY <1>1, <1>5, <1>6

LEMMA AfterBound ==
  ASSUME NEW a \in PointRecs, NEW b \in PointRecs, NEW u \in Int, a.et <= u, b.et <= u,
         NEW m \in Nat, m <= Abs(b.x - a.x)
  PROVE  After(a, b, m) \in Int /\ After(a, b, m) <= u
<1>1. a.et \in Int /\ b.et \in Int /\ a.x \in Int /\ b.x \in Int
  BY DEF PointRecs
<1>2. CASE a.x = b.x
  BY <1>1, <1>2 DEF After
<1>3. CASE a.x # b.x
  <2> DEFINE d == Abs(b.x - a.x)
  <2>1. d \in Nat /\ d > 0 /\ m \in 0..d
    BY <1>1, <1>3 DEF Abs
  <2> HIDE DEF d
  <2>2. /\ a.et + (m * (b.et - a.et)) \div d \in Int
        /\ a.et + (m * (b.et - a.et)) \div d <= u
    BY <1>1, <2>1, PartOfTheWay
  <2>3. After(a, b, m) = a.et + (m * (b.et - a.et)) \div d
    BY <1>3, Zenon DEF After, d
  <2>4. QED
    BY <2>2, <2>3
<1>4. QED
  BY <1>2, <1>3

LEMMA NearestBetween ==
  ASSUME NEW a \in Int, NEW b \in Int, NEW s \in Int, NEW c, c = Clip(s, Smaller(a, b), Larger(a, b))
  PROVE  /\ Abs(c - a) \in Nat /\ Abs(c - a) <= Abs(b - a)
         /\ Abs(a - s) \in Int /\ Abs(c - s) \in Int /\ Abs(a - s) - Abs(c - s) <= Abs(b - a)
<1>1. CASE a <= b
  BY <1>1 DEF Clip, Smaller, Larger, Abs
<1>2. CASE b < a
  BY <1>2 DEF Clip, Smaller, Larger, Abs
<1>3. QED
  BY <1>1, <1>2

(* An arrival is between two points of the track.                          *)
LEMMA ArrivalBound ==
  ASSUME NEW w \in Seq(PointRecs), NEW u \in Int, \A i \in DOMAIN w : w[i].et <= u,
         NEW sx \in Int, NEW dir, NEW h \in ArrivalTime(w, sx, dir)
  PROVE  h \in Int /\ h <= u
<1> DEFINE Against(j) == (w[j + 1].x - w[j].x) * dir < 0 /\ Abs(w[j + 1].x - w[j].x) > 5
           pieces == {j \in 1..(Len(w) - 1) : ~Against(j)}
           Near(j) == Abs(Nearest(w[j], w[j + 1], sx) - sx)
           entries == FirstOf({j \in pieces : Near(j) <= EnterRadius})
           closest == FirstOf({j \in pieces : \A k \in pieces : Near(j) <= Near(k)})
           near == {w[i].et : i \in {j \in {1} : Abs(w[j].x - sx) <= NearRadius}}
           entered == {After(w[j], w[j + 1], Larger(Abs(w[j].x - sx) - EnterRadius, 0)) : j \in entries}
           passed == {After(w[j], w[j + 1], Abs(Nearest(w[j], w[j + 1], sx) - w[j].x))
                      : j \in {k \in closest : /\ Near(k) <= NearRadius
                                               /\ Abs(w[Len(w)].x - sx) >= Near(k) + NearLeave}}
<1>1. ArrivalTime(w, sx, dir) = IF Len(w) = 1 THEN near ELSE IF entries # {} THEN entered ELSE passed
  BY Zenon DEF ArrivalTime
<1>2. Len(w) \in Nat /\ DOMAIN w = 1..Len(w) /\ \A i \in 1..Len(w) : w[i] \in PointRecs /\ w[i].et <= u
  OBVIOUS
<1>3. \A j \in pieces : j \in 1..Len(w) /\ j + 1 \in 1..Len(w)
  <2> HIDE DEF Against
  <2>1. QED
    BY <1>2
<1>4. entries \subseteq {j \in pieces : Near(j) <= EnterRadius} /\ closest \subseteq pieces
  <2> HIDE DEF Near, pieces
  <2>1. QED
    BY Zenon DEF FirstOf
<1> HIDE DEF pieces
<1>5. CASE h \in near /\ Len(w) = 1
  BY <1>2, <1>5 DEF PointRecs
<1>6. CASE h \in entered
  <2>1. PICK j \in entries : h = After(w[j], w[j + 1], Larger(Abs(w[j].x - sx) - EnterRadius, 0))
    BY <1>6
  <2>2. j \in pieces /\ Near(j) <= EnterRadius
    <3> HIDE DEF entries, Near
    <3>1. QED
      BY <1>4, <2>1
  <2> HIDE DEF entries
  <2> DEFINE a == w[j]
             b == w[j + 1]
             m == Larger(Abs(a.x - sx) - EnterRadius, 0)
  <2>3. a \in PointRecs /\ b \in PointRecs /\ a.et <= u /\ b.et <= u
    BY <1>2, <1>3, <2>2
  <2>4. Near(j) = Abs(Clip(sx, Smaller(a.x, b.x), Larger(a.x, b.x)) - sx)
    BY Zenon DEF Nearest
  <2>5. h = After(a, b, m)
    BY <2>1
  <2> HIDE DEF Near, a, b
  <2>6. a.x \in Int /\ b.x \in Int
    BY <2>3 DEF PointRecs
  <2>7. /\ Abs(a.x - sx) \in Int /\ Near(j) \in Int
        /\ Abs(a.x - sx) - Near(j) <= Abs(b.x - a.x) /\ Abs(b.x - a.x) \in Nat
    <3>1. Abs(b.x - a.x) \in Nat
      BY <2>6 DEF Abs
    <3> DEFINE c == Clip(sx, Smaller(a.x, b.x), Larger(a.x, b.x))
    <3>2. /\ Abs(a.x - sx) \in Int /\ Abs(c - sx) \in Int
          /\ Abs(a.x - sx) - Abs(c - sx) <= Abs(b.x - a.x)
      BY <2>6, NearestBetween, Zenon
    <3> HIDE DEF c
    <3>3. Near(j) = Abs(c - sx)
      BY <2>4, Zenon DEF c
    <3>4. QED
      BY <3>1, <3>2, <3>3, Zenon
  <2>8. m \in Nat /\ m <= Abs(b.x - a.x)
    <3> DEFINE p == Abs(a.x - sx)
               q == Near(j)
               r == Abs(b.x - a.x)
    <3>1. p \in Int /\ q \in Int /\ r \in Nat /\ p - q <= r /\ q <= 15
      BY <2>2, <2>7, Zenon DEF EnterRadius
    <3> HIDE DEF p, q, r
    <3>2. Larger(p - 15, 0) \in Nat /\ Larger(p - 15, 0) <= r
      BY <3>1 DEF Larger
    <3>3. QED
      BY <3>2, Zenon DEF p, r, EnterRadius
  <2> HIDE DEF m
  <2>9. QED
    BY <2>3, <2>5, <2>8, AfterBound
<1>7. CASE h \in passed
  <2>1. PICK j \in closest : h = After(w[j], w[j + 1], Abs(Nearest(w[j], w[j + 1], sx) - w[j].x))
    <3> HIDE DEF closest, Near
    <3>1. QED
      BY <1>7
  <2>2. j \in pieces
    BY <1>4, <2>1
  <2> HIDE DEF closest
  <2> DEFINE a == w[j]
             b == w[j + 1]
             m == Abs(Clip(sx, Smaller(a.x, b.x), Larger(a.x, b.x)) - a.x)
  <2>3. a \in PointRecs /\ b \in PointRecs /\ a.et <= u /\ b.et <= u
    BY <1>2, <1>3, <2>2
  <2>4. h = After(a, b, m)
    BY <2>1, Zenon DEF Nearest
  <2> HIDE DEF a, b
  <2>5. a.x \in Int /\ b.x \in Int
    BY <2>3 DEF PointRecs
  <2>6. m \in Nat /\ m <= Abs(b.x - a.x)
    BY <2>5, NearestBetween, Zenon
  <2> HIDE DEF m
  <2>7. QED
    BY <2>3, <2>4, <2>6, AfterBound
<1>8. QED
  <2> HIDE DEF near, entered, passed, entries
  <2>1. QED
    BY <1>1, <1>5, <1>6, <1>7

(* So is a departure.                                                      *)
LEMMA DepartureBound ==
  ASSUME NEW w \in Seq(PointRecs), NEW u \in Int, \A i \in DOMAIN w : w[i].et <= u,
         NEW sx \in Int, NEW h \in DepartureTime(w, sx)
  PROVE  h \in Int /\ h <= u
<1> DEFINE Dist(i) == Abs(w[i].x - sx)
           seen == FirstOf({i \in DOMAIN w : Dist(i) <= DepartRadius})
           gone == FirstOf({i \in DOMAIN w : Dist(i) > DepartRadius /\ \E s \in seen : i > s})
<1>1. Len(w) \in Nat /\ DOMAIN w = 1..Len(w) /\ \A i \in 1..Len(w) : w[i] \in PointRecs /\ w[i].et <= u
  OBVIOUS
<1>2. \A i \in 1..Len(w) : Dist(i) \in Nat /\ w[i].et \in Int
  BY <1>1 DEF PointRecs, Abs
<1>3. PICK i \in gone : h = w[i - 1].et + ((DepartRadius - Dist(i - 1)) * (w[i].et - w[i - 1].et))
                                           \div (Dist(i) - Dist(i - 1))
  <2> HIDE DEF gone, Dist
  <2>1. h \in {w[i - 1].et + ((DepartRadius - Dist(i - 1)) * (w[i].et - w[i - 1].et))
                               \div (Dist(i) - Dist(i - 1)) : i \in gone}
    BY Zenon DEF DepartureTime, gone, Dist
  <2>2. QED
    BY <2>1
<1>4. PICK s \in seen : i \in 1..Len(w) /\ Dist(i) > DepartRadius /\ i > s
  <2> HIDE DEF Dist, seen
  <2>1. QED
    BY <1>1, <1>3, Zenon DEF FirstOf
<1>5. s \in 1..Len(w) /\ Dist(s) <= DepartRadius
  <2> HIDE DEF Dist
  <2>1. QED
    BY <1>1, Zenon DEF FirstOf
<1>6. \A j \in 1..Len(w) : Dist(j) > DepartRadius /\ j > s => i <= j
  <2> HIDE DEF Dist, seen
  <2>1. QED
    BY <1>1, <1>3, <1>4, Zenon DEF FirstOf
<1> HIDE DEF Dist, seen, gone
<1>7. i - 1 \in 1..Len(w) /\ (i - 1 = s \/ i - 1 > s)
  BY <1>1, <1>4, <1>5
<1>8. Dist(i - 1) <= DepartRadius
  BY <1>1, <1>2, <1>4, <1>5, <1>6, <1>7 DEF DepartRadius
<1> DEFINE p == Dist(i - 1)
           q == Dist(i)
<1>9. p \in Nat /\ q \in Nat /\ p <= 35 /\ q > 35
  BY <1>2, <1>4, <1>7, <1>8 DEF DepartRadius
<1>10. h = w[i - 1].et + ((35 - p) * (w[i].et - w[i - 1].et)) \div (q - p)
  BY <1>3, Zenon DEF DepartRadius
<1>11. w[i].et \in Int /\ w[i - 1].et \in Int /\ w[i].et <= u /\ w[i - 1].et <= u
  BY <1>1, <1>2, <1>4, <1>7
<1> HIDE DEF p, q
<1>12. q - p \in Nat /\ q - p > 0 /\ 35 - p \in 0..(q - p)
  BY <1>9
<1>13. QED
  BY <1>10, <1>11, <1>12, PartOfTheWay

-----------------------------------------------------------------------------
(* The detector: what it finds is an arrival at a visit planned up to the  *)
(* moment, read from points up to that moment.                             *)

LEMMA TakenType ==
  ASSUME NEW S, NEW list \in Seq(S), NEW places, NEW T,
         \A i \in DOMAIN list : i \in places => list[i] \in T
  PROVE  Taken(list, places) \in Seq(T)
<1> DEFINE U == {list[i] : i \in places \cap DOMAIN list}
<1>1. PICK f \in [0..Len(list) -> Seq(U)] :
        TakenUpTo(f, list, places) /\ Taken(list, places) = f[Len(list)]
  BY TakenIs
<1>2. Len(list) \in 0..Len(list)
  OBVIOUS
<1>3. Taken(list, places) \in Seq(U) /\ U \subseteq T
  <2>1. U \subseteq T
    OBVIOUS
  <2> HIDE DEF U
  <2>2. QED
    BY <1>1, <1>2, <2>1
<1> HIDE DEF U
<1>4. QED
  BY <1>3

PointsUpTo(u) == {p \in PointRecs : p.et <= u}
FactsFrom(S, u) ==
  {f \in [visit : {v.id : v \in S}, at : Int, delay : Int] :
     f.at <= u /\ \E v \in S : v.id = f.visit /\ v.tb <= u}

LEMMA HitBound ==
  ASSUME NEW S, \A v \in S : v.tb \in Int /\ v.x \in Int, NEW plan \in Seq(S), NEW u \in Int,
         NEW seen \in Seq(PointsUpTo(u)), NEW k \in DOMAIN plan, NEW found,
         NEW h \in Hit(plan, seen, k, found)
  PROVE  h \in Int /\ h <= u
<1> DEFINE lo == IF found = <<>> THEN plan[k].tb - Minutes(12)
                 ELSE Larger(plan[k].tb - Minutes(12), found[Len(found)].at)
           hi == plan[k].tb + Minutes(20)
           w == Within(seen, lo, hi)
<1>1. h \in DepartureTime(w, plan[k].x) \/ h \in ArrivalTime(w, plan[k].x, Direction(plan, k))
  BY Zenon DEF Hit
<1>2. plan[k] \in S
  OBVIOUS
<1>3. plan[k].x \in Int
  BY <1>2
<1>4. w \in Seq(PointsUpTo(u))
  <2> HIDE DEF lo, hi
  <2> DEFINE places == {i \in DOMAIN seen : lo <= seen[i].et /\ seen[i].et < hi}
  <2>1. w = Taken(seen, places)
    BY Zenon DEF Within
  <2>2. \A i \in DOMAIN seen : seen[i] \in PointsUpTo(u)
    OBVIOUS
  <2> HIDE DEF places, w
  <2>3. QED
    BY <2>1, <2>2, TakenType
<1> HIDE DEF w
<1>5. w \in Seq(PointRecs) /\ \A i \in DOMAIN w : w[i].et <= u
  <2>1. \A i \in DOMAIN w : w[i] \in PointsUpTo(u)
    BY <1>4
  <2>2. PointsUpTo(u) \subseteq PointRecs
    BY DEF PointsUpTo
  <2>3. \A i \in DOMAIN w : w[i].et <= u
    BY <2>1 DEF PointsUpTo
  <2>4. QED
    BY <1>4, <2>2, <2>3
<1>6. QED
  BY <1>1, <1>3, <1>5, ArrivalBound, DepartureBound

LEMMA FoundType ==
  ASSUME NEW S, \A v \in S : v.tb \in Int /\ v.x \in Int, NEW plan \in Seq(S), NEW u \in Int,
         NEW seen \in Seq(PointsUpTo(u)), NEW k \in DOMAIN plan, plan[k].tb <= u,
         NEW found \in Seq(FactsFrom(S, u))
  PROVE  Found(plan, seen, k, found) \in Seq(FactsFrom(S, u))
<1> DEFINE hit == Hit(plan, seen, k, found)
           at == CHOOSE m \in hit : TRUE
           fact == [visit |-> plan[k].id, at |-> at, delay |-> at - plan[k].tb]
<1>1. Found(plan, seen, k, found) = IF hit = {} THEN found ELSE Append(found, fact)
  BY Zenon DEF Found
<1>2. CASE hit = {}
  BY <1>1, <1>2
<1>3. CASE hit # {}
  <2>1. at \in hit
    BY <1>3
  <2>2. at \in Int /\ at <= u
    <3> HIDE DEF at
    <3>1. QED
      BY <2>1, HitBound
  <2>3. plan[k] \in S
    OBVIOUS
  <2>4. fact \in FactsFrom(S, u)
    <3> HIDE DEF at
    <3> DEFINE v == plan[k]
    <3>1. v \in S /\ v.tb \in Int /\ v.tb <= u /\ v.id \in {y.id : y \in S}
      BY <2>3
    <3> HIDE DEF v
    <3>2. fact = [visit |-> v.id, at |-> at, delay |-> at - v.tb]
      BY Zenon DEF v
    <3>3. at - v.tb \in Int
      BY <2>2, <3>1
    <3> HIDE DEF fact
    <3>4. /\ fact \in [visit : {y.id : y \in S}, at : Int, delay : Int]
          /\ fact.visit = v.id /\ fact.at = at
      BY <2>2, <3>1, <3>2, <3>3
    <3>5. QED
      BY <2>2, <3>1, <3>4 DEF FactsFrom
  <2> HIDE DEF fact, hit
  <2>5. QED
    BY <1>1, <1>3, <2>4
<1>4. QED
  BY <1>2, <1>3

LEMMA DetectType ==
  ASSUME NEW S, \A v \in S : v.tb \in Int /\ v.x \in Int, NEW plan \in Seq(S),
         NEW track \in Seq(PointRecs), NEW u \in Int, NEW visits,
         \A k \in DOMAIN plan : k \in visits => plan[k].tb <= u
  PROVE  Detect(plan, track, u, visits) \in Seq(FactsFrom(S, u))
<1> DEFINE n == Len(plan)
           V == Seq(FactsFrom(S, u))
           seen == ValidTrack(track, u)
           E(k, s) == IF k \in visits THEN Found(plan, seen, k, s) ELSE s
           step == [z \in (1..n) \X V |-> E(z[1], z[2])]
           upTo == CHOOSE g : g = [k \in 0..n |-> IF k = 0 THEN <<>>
                                    ELSE IF k \in visits THEN Found(plan, seen, k, g[k - 1]) ELSE g[k - 1]]
<1>1. n \in Nat /\ DOMAIN plan = 1..n /\ <<>> \in V
  OBVIOUS
<1>2. seen \in Seq(PointsUpTo(u))
  <2> DEFINE places == {i \in DOMAIN track : track[i].valid /\ track[i].et <= u}
  <2>1. seen = Taken(track, places)
    BY Zenon DEF ValidTrack
  <2>2. \A i \in DOMAIN track : i \in places => track[i] \in PointsUpTo(u)
    BY DEF PointsUpTo
  <2> HIDE DEF places, seen
  <2>3. QED
    BY <2>1, <2>2, TakenType
<1> HIDE DEF seen
<1>3. \A k \in 1..n : \A s \in V : E(k, s) \in V
  <2> SUFFICES ASSUME NEW k \in 1..n, NEW s \in V PROVE E(k, s) \in V
    OBVIOUS
  <2>1. CASE k \in visits
    <3>1. Found(plan, seen, k, s) \in V
      BY <1>1, <1>2, <2>1, FoundType
    <3>2. QED
      BY <2>1, <3>1
  <2>2. QED
    BY <2>1
<1> HIDE DEF n, V
<1>4. step \in [(1..n) \X V -> V]
  BY <1>3
<1>5. PICK f \in [0..n -> V] : StepsFrom(f, n, <<>>, step)
  <2> HIDE DEF step
  <2>1. QED
    BY <1>1, <1>4, Recursion
<1>6. \A k \in 1..n : f[k] = E(k, f[k - 1])
  <2> TAKE k \in 1..n
  <2>1. k - 1 \in 0..n
    BY <1>1
  <2>2. f[k - 1] \in V
    BY <2>1, <1>5
  <2>3. f[k] = step[<<k, f[k - 1]>>]
    BY <1>5 DEF StepsFrom
  <2>4. QED
    BY <2>2, <2>3
<1>7. f = [k \in 0..n |-> IF k = 0 THEN <<>>
             ELSE IF k \in visits THEN Found(plan, seen, k, f[k - 1]) ELSE f[k - 1]]
  <2>1. f[0] = <<>> /\ f \in [0..n -> V]
    BY <1>5 DEF StepsFrom
  <2>2. \A k \in 0..n : k # 0 => k \in 1..n
    BY <1>1
  <2>3. QED
    BY <1>6, <2>1, <2>2
<1>8. upTo = [k \in 0..n |-> IF k = 0 THEN <<>>
             ELSE IF k \in visits THEN Found(plan, seen, k, upTo[k - 1]) ELSE upTo[k - 1]]
  BY <1>7
<1>9. Detect(plan, track, u, visits) = upTo[n]
  BY Zenon DEF Detect, seen, n
<1> HIDE DEF upTo
<1>10. upTo[0] = <<>> /\ \A k \in 1..n : upTo[k] = E(k, upTo[k - 1])
  <2>1. \A k \in 1..n : k \in 0..n /\ k # 0
    BY <1>1
  <2>2. 0 \in 0..n
    BY <1>1
  <2>3. QED
    BY <1>8, <2>1, <2>2
<1> DEFINE T == {k \in 0..n : upTo[k] \in V}
<1>11. 0 \in T
  BY <1>1, <1>10
<1>12. ASSUME NEW k \in 1..n, k - 1 \in T PROVE k \in T
  <2>1. upTo[k - 1] \in V /\ k \in 0..n
    BY <1>1, <1>12
  <2>2. E(k, upTo[k - 1]) \in V
    BY <1>3, <2>1
  <2> HIDE DEF E
  <2>3. QED
    BY <1>10, <2>1, <2>2
<1>13. \A k \in 0..n : k \in T
  <2> HIDE DEF T
  <2>1. QED
    BY <1>1, <1>11, <1>12, Induction
<1>14. QED
  BY <1>1, <1>9, <1>13 DEF V

-----------------------------------------------------------------------------
(* What a pass finds out of its points.                                    *)

LEMMA DetectorPlanType ==
  ASSUME NEW track
  PROVE  DetectorPlan(track) \in Seq(Visits)
<1> DEFINE places == {k \in DOMAIN Plan : Plan[k].tb >= track[1].et - Minutes(30)}
<1>1. DetectorPlan(track) = Taken(Plan, places)
  BY Zenon DEF DetectorPlan
<1>2. Plan \in Seq(Visits) /\ \A i \in DOMAIN Plan : Plan[i] \in Visits
  BY PlanIs, Zenon DEF Visits
<1> HIDE DEF places
<1>3. QED
  BY <1>1, <1>2, TakenType

LEMMA VisitsAreInts ==
  \A v \in Visits : v.tb \in Int /\ v.x \in Int
<1> SUFFICES ASSUME NEW k \in DOMAIN Plan PROVE Plan[k].tb \in Int /\ Plan[k].x \in Int
  BY Zenon DEF Visits
<1>1. QED
  BY PlanIs

LEMMA ArrivalsType ==
  ASSUME NEW points \in Seq(PointRecs), NEW t \in Int
  PROVE  Arrivals(points, t) \in Seq(FactsFrom(Visits, t))
<1> DEFINE track == TrackOf(points)
           plan == DetectorPlan(track)
           due == {k \in DOMAIN plan : plan[k].tb <= t}
<1>1. track \in Seq(PointRecs)
  BY TrackType
<1>2. plan \in Seq(Visits)
  BY DetectorPlanType
<1>3. Arrivals(points, t) = Detect(plan, track, t, due)
  BY Zenon DEF Arrivals, DetectArrivals
<1>4. \A k \in DOMAIN plan : k \in due => plan[k].tb <= t
  OBVIOUS
<1> HIDE DEF track, plan, due
<1>5. QED
  BY <1>1, <1>2, <1>3, <1>4, VisitsAreInts, DetectType

(* The deviation known at the moment is that of one arrival, if any.       *)
LEMMA CurDevType ==
  ASSUME NEW plan \in Seq(Visits), NEW track \in Seq(PointRecs), NEW t \in Int
  PROVE  OnlineCurDev(plan, track, t) = {} \/ \E d \in Int : OnlineCurDev(plan, track, t) = {d}
<1> DEFINE near == Between(plan, t - Minutes(45), t)
           found == Detect(plan, track, t, near)
<1>1. \A k \in DOMAIN plan : k \in near => plan[k].tb <= t
  BY Zenon DEF Between
<1>2. OnlineCurDev(plan, track, t) = {found[i].delay : i \in {Len(found)} \ {0}}
  BY Zenon DEF OnlineCurDev
<1> HIDE DEF near
<1>3. found \in Seq(FactsFrom(Visits, t))
  BY <1>1, VisitsAreInts, DetectType
<1> HIDE DEF found
<1>4. Len(found) # 0 => found[Len(found)] \in FactsFrom(Visits, t)
  BY <1>3
<1>5. Len(found) # 0 => found[Len(found)].delay \in Int
  BY <1>4 DEF FactsFrom
<1>6. QED
  BY <1>2, <1>5

LEMMA HorizonIs ==
  ASSUME NEW t \in Int, NEW k \in HorizonVisits(Plan, t)
  PROVE  /\ k \in DOMAIN Plan
         /\ t + Minutes(10) < Plan[k].tb /\ Plan[k].tb <= t + Minutes(60)
<1>1. k \in InHorizon(Plan, t) \/ k \in Between(Plan, t + Minutes(15), t + Minutes(60))
  BY Zenon DEF HorizonVisits, FirstOf
<1>2. k \in DOMAIN Plan
  BY <1>1, Zenon DEF InHorizon, Between
<1>3. Plan[k].tb \in Int
  BY <1>2, PlanIs
<1>4. \/ t + Minutes(10) < Plan[k].tb /\ Plan[k].tb <= t + Minutes(15)
      \/ t + Minutes(15) < Plan[k].tb /\ Plan[k].tb <= t + Minutes(60)
  BY <1>1, Zenon DEF InHorizon, Between
<1>5. QED
  BY <1>2, <1>3, <1>4 DEF Minutes

LEMMA PreparedIs ==
  ASSUME NEW points \in Seq(PointRecs), NEW t \in Int, NEW ready,
         NEW task, task = Prepared(points, t, ready)
  PROVE  /\ task.visits \subseteq DOMAIN Plan
         /\ \A k \in task.visits : t + Minutes(10) < Plan[k].tb /\ Plan[k].tb <= t + Minutes(60)
         /\ task.curDev = {} \/ \E d \in Int : task.curDev = {d}
<1> DEFINE track == TrackOf(points)
           plan == DetectorPlan(track)
<1>1. task.visits = (IF ready THEN HorizonVisits(Plan, t) ELSE {})
      /\ task.curDev = OnlineCurDev(plan, track, t)
  BY Zenon DEF Prepared
<1>2. track \in Seq(PointRecs)
  BY TrackType
<1>3. plan \in Seq(Visits)
  BY DetectorPlanType
<1> HIDE DEF plan, track
<1>4. task.curDev = {} \/ \E d \in Int : task.curDev = {d}
  BY <1>1, <1>2, <1>3, CurDevType
<1>5. \A k \in task.visits : k \in HorizonVisits(Plan, t)
  BY <1>1
<1>6. QED
  BY <1>4, <1>5, HorizonIs

LEMMA MaxOfOne ==
  ASSUME NEW d \in Int
  PROVE  Max({d}) = d
<1>1. \A m \in {d} : \A y \in {d} : m >= y
  OBVIOUS
<1>2. Max({d}) \in {d}
  BY <1>1, Zenon DEF Max
<1>3. QED
  BY <1>2

(* The answer of the ML service: none, or a delay.                         *)
Answer(ml) == ml = {} \/ \E d \in MlDelays : ml = {d}

LEMMA ItemDelay ==
  ASSUME NEW task, task.curDev = {} \/ \E d \in Int : task.curDev = {d},
         NEW ml, Answer(ml),
         NEW k \in task.visits, NEW stale, NEW explained
  PROVE  ItemFor(task, k, stale, ml, explained).delay \in Int
<1> DEFINE delay == [j \in task.visits |-> Max(ml)]
<1>1. CASE ml = {} \/ stale
  <2>1. ItemFor(task, k, stale, ml, explained).delay = Fallback(task.curDev)
    BY <1>1, Zenon DEF ItemFor
  <2>2. Fallback(task.curDev) = IF task.curDev = {} THEN 0 ELSE (7 * Max(task.curDev)) \div 10
    BY Zenon DEF Fallback
  <2>3. CASE task.curDev = {}
    BY <2>1, <2>2, <2>3
  <2>4. ASSUME NEW d \in Int, task.curDev = {d} PROVE Fallback(task.curDev) \in Int
    <3>1. Max(task.curDev) = d
      BY <2>4, MaxOfOne, Zenon
    <3>2. task.curDev # {} /\ (7 * d) \div 10 \in Int
      BY <2>4
    <3>3. QED
      BY <2>2, <3>1, <3>2
  <2>5. QED
    BY <2>1, <2>3, <2>4
<1>2. CASE ~(ml = {} \/ stale)
  <2>1. ItemFor(task, k, stale, ml, explained).delay = delay[k]
    BY <1>2, Zenon DEF ItemFor
  <2>2. PICK d \in MlDelays : ml = {d}
    BY <1>2 DEF Answer
  <2>3. d \in Int
    BY <2>2, ForecastAssumption
  <2>4. QED
    BY <2>1, <2>2, <2>3, MaxOfOne
<1>3. QED
  BY <1>1, <1>2

(* Forecasts by visit, each for a visit that is ten minutes away or more.  *)
PredsIs(preds, t) ==
  /\ DOMAIN preds \subseteq DOMAIN Plan
  /\ \A k \in DOMAIN preds :
       /\ preds[k].visit = k /\ preds[k].at = t
       /\ preds[k].delay \in Int /\ preds[k].lead \in Int
       /\ t + Minutes(10) < Plan[k].tb /\ Plan[k].tb <= t + Minutes(60)

LEMMA AssembledIs ==
  ASSUME NEW p, p.points \in Seq(PointRecs), p.t \in Int,
         NEW ml, Answer(ml), NEW explained,
         NEW task, task = Prepared(p.points, p.t, p.ready), NEW extras,
         NEW preds, preds = Assemble(task, extras, p, ml, explained)
  PROVE  PredsIs(preds, p.t)
<1>1. /\ task.visits \subseteq DOMAIN Plan
      /\ \A k \in task.visits : p.t + Minutes(10) < Plan[k].tb /\ Plan[k].tb <= p.t + Minutes(60)
      /\ task.curDev = {} \/ \E d \in Int : task.curDev = {d}
  BY PreparedIs
<1> DEFINE item(k) == ItemFor(task, k, p.stale, ml, explained)
<1>2. /\ DOMAIN preds = task.visits
      /\ \A k \in task.visits : preds[k] = Prediction(task, extras, k, p.t, p.stale, item(k))
  BY Zenon DEF Assemble
<1> SUFFICES ASSUME NEW k \in task.visits
             PROVE  /\ preds[k].visit = k /\ preds[k].at = p.t
                    /\ preds[k].delay \in Int /\ preds[k].lead \in Int
  BY <1>1, <1>2 DEF PredsIs
<1>3. item(k).delay \in Int
  BY <1>1, ItemDelay
<1> HIDE DEF item
<1>4. /\ preds[k].visit = k /\ preds[k].at = p.t
      /\ preds[k].delay = item(k).delay /\ preds[k].lead = Plan[k].tb - p.t
  <2> DEFINE q == Prediction(task, extras, k, p.t, p.stale, item(k))
  <2>1. q.visit = k /\ q.at = p.t /\ q.delay = item(k).delay /\ q.lead = Plan[k].tb - p.t
    BY Zenon DEF Prediction
  <2>2. preds[k] = q
    BY <1>2
  <2> HIDE DEF q
  <2>3. QED
    BY <2>1, <2>2
<1>5. Plan[k].tb \in Int
  BY <1>1, PlanIs
<1>6. QED
  BY <1>3, <1>4, <1>5

-----------------------------------------------------------------------------
(* The record of the vehicle.                                              *)

LEMMA FactsGrow ==
  ASSUME NEW u \in Int, NEW t \in Int, u <= t
  PROVE  FactsFrom(Visits, u) \subseteq FactsFrom(Visits, t)
<1> SUFFICES ASSUME NEW f \in FactsFrom(Visits, u) PROVE f \in FactsFrom(Visits, t)
  OBVIOUS
<1> DEFINE R == [visit : {v.id : v \in Visits}, at : Int, delay : Int]
<1>1. f \in R /\ f.at <= u /\ \E v \in Visits : v.id = f.visit /\ v.tb <= u
  BY DEF FactsFrom
<1>2. f.at \in Int
  BY <1>1
<1>3. PICK v \in Visits : v.id = f.visit /\ v.tb <= u
  BY <1>1
<1>4. v.tb \in Int
  BY VisitsAreInts
<1> HIDE DEF R
<1>5. f.at <= t /\ v.tb <= t
  BY <1>1, <1>2, <1>3, <1>4
<1>6. QED
  BY <1>1, <1>3, <1>5 DEF FactsFrom, R

(* A visit whose planned time is yet to come has no arrival.               *)
LEMMA NoFactAhead ==
  ASSUME NEW u \in Int, NEW f \in FactsFrom(Visits, u),
         NEW k \in DOMAIN Plan, u < Plan[k].tb
  PROVE  f.visit # Plan[k].id
<1>1. PICK v \in Visits : v.id = f.visit /\ v.tb <= u
  BY DEF FactsFrom
<1>2. PICK j \in DOMAIN Plan : v = Plan[j]
  BY <1>1, Zenon DEF Visits
<1>3. Plan[k].tb \in Int /\ Plan[j].tb \in Int
  BY PlanIs
<1>4. j # k
  BY <1>1, <1>2, <1>3
<1>5. QED
  BY <1>1, <1>2, <1>4, PlanIs

(* Arrivals by visit, each of a visit planned up to u.                     *)
ArrivalsUpTo(arrivals, u) ==
  \A v \in DOMAIN arrivals : arrivals[v] \in FactsFrom(Visits, u) /\ arrivals[v].visit = v

LEMMA WithFactsIs ==
  ASSUME NEW u \in Int, NEW arrivals, ArrivalsUpTo(arrivals, u),
         NEW facts \in Seq(FactsFrom(Visits, u)), NEW all, all = WithFacts(arrivals, facts)
  PROVE  /\ DOMAIN arrivals \subseteq DOMAIN all
         /\ \A i \in DOMAIN facts : facts[i].visit \in DOMAIN all
         /\ ArrivalsUpTo(all, u)
<1> DEFINE D == DOMAIN arrivals \cup {facts[i].visit : i \in DOMAIN facts}
<1>1. all = [v \in D |-> IF v \in DOMAIN arrivals THEN arrivals[v]
                         ELSE CHOOSE f \in ToSet(facts) : f.visit = v]
  BY Zenon DEF WithFacts
<1>2. ASSUME NEW v \in D PROVE all[v] \in FactsFrom(Visits, u) /\ all[v].visit = v
  <2>1. CASE v \in DOMAIN arrivals
    BY <1>1, <2>1 DEF ArrivalsUpTo
  <2>2. CASE v \notin DOMAIN arrivals
    <3>1. PICK i \in DOMAIN facts : facts[i].visit = v
      BY <2>2
    <3>2. facts[i] \in ToSet(facts)
      BY <3>1, Zenon DEF ToSet
    <3>3. all[v] = CHOOSE f \in ToSet(facts) : f.visit = v
      BY <1>1, <2>2
    <3>4. all[v] \in ToSet(facts) /\ all[v].visit = v
      BY <3>1, <3>2, <3>3, Zenon
    <3>5. \A f \in ToSet(facts) : f \in FactsFrom(Visits, u)
      BY DEF ToSet
    <3>6. QED
      BY <3>4, <3>5
  <2>3. QED
    BY <2>1, <2>2
<1>3. DOMAIN arrivals \subseteq D /\ \A i \in DOMAIN facts : facts[i].visit \in D
  OBVIOUS
<1> HIDE DEF D
<1>4. DOMAIN all = D
  BY <1>1
<1>5. QED
  BY <1>2, <1>3, <1>4, Zenon DEF ArrivalsUpTo

(* A record holds these fields and no others.                              *)
RecForm(r) ==
  r = [points |-> r.points, first |-> r.first, last |-> r.last, arrivals |-> r.arrivals,
       prediction |-> r.prediction, window |-> r.window, dwell |-> r.dwell,
       segment |-> r.segment, since |-> r.since]

LEMMA NoRecordForm ==
  /\ RecForm(NoRecord) /\ NoRecord.points = <<>> /\ NoRecord.since = 0
  /\ NoRecord.arrivals = <<>> /\ NoRecord.prediction = <<>>
BY DEF NoRecord, RecForm

LEMMA SweptForm ==
  ASSUME NEW n, NEW r, r = [NoRecord EXCEPT !.since = n]
  PROVE  /\ RecForm(r) /\ r.points = <<>> /\ r.since = n
         /\ r.arrivals = <<>> /\ r.prediction = <<>>
BY DEF NoRecord, RecForm

LEMMA TrimmedType ==
  ASSUME NEW points \in Seq(PointRecs), NEW edge
  PROVE  Trimmed(points, edge) \in Seq(PointRecs)
<1> DEFINE fresh == {i \in DOMAIN points : points[i].et >= edge}
<1>1. CASE fresh = {}
  <2>1. Trimmed(points, edge) = SubSeq(points, Len(points) + 1, Len(points))
    BY <1>1, Zenon DEF Trimmed
  <2>2. QED
    BY <2>1
<1>2. CASE fresh # {}
  <2>1. Trimmed(points, edge) = SubSeq(points, Min(fresh), Len(points))
    BY <1>2, Zenon DEF Trimmed
  <2>2. fresh \in SUBSET Nat /\ fresh \subseteq 1..Len(points)
    OBVIOUS
  <2>3. \E x \in fresh : \A y \in fresh : x <= y
    BY <1>2, <2>2, Least
  <2>4. Min(fresh) \in fresh
    BY <2>3, Zenon DEF Min
  <2>5. Min(fresh) \in 1..Len(points)
    BY <2>2, <2>4
  <2>6. PICK m \in 1..Len(points) : Trimmed(points, edge) = SubSeq(points, m, Len(points))
    BY <2>1, <2>5
  <2> HIDE DEF fresh
  <2>7. SubSeq(points, m, Len(points)) \in Seq(PointRecs)
    BY SMTT(30)
  <2>8. QED
    BY <2>6, <2>7
<1>3. QED
  BY <1>1, <1>2

LEMMA AddedIs ==
  ASSUME NEW r, RecForm(r), r.points \in Seq(PointRecs), NEW p \in PointRecs,
         NEW q, q = Added(r, p)
  PROVE  /\ RecForm(q) /\ q.points \in Seq(PointRecs) /\ q.since = r.since
         /\ q.arrivals = r.arrivals /\ q.prediction = r.prediction /\ q.window = r.window
<1> DEFINE last == IF r.points = <<>> THEN p.et ELSE Larger(r.last, p.et)
           points == Trimmed(Append(r.points, p), last - HistorySpan)
           first == IF r.points = <<>> THEN p.et ELSE Smaller(r.first, p.et)
<1>1. points \in Seq(PointRecs)
  <2>1. Append(r.points, p) \in Seq(PointRecs)
    OBVIOUS
  <2> HIDE DEF last
  <2>2. QED
    BY <2>1, TrimmedType
<1>2. q = [points |-> points, first |-> first, last |-> last, arrivals |-> r.arrivals,
            prediction |-> r.prediction, window |-> r.window, dwell |-> r.dwell,
            segment |-> r.segment, since |-> r.since]
  BY Zenon DEF Added, RecForm
<1> HIDE DEF points, first, last
<1>3. QED
  BY <1>1, <1>2 DEF RecForm

(* What a pass puts on the card and in the window of the timeline.         *)
CardOf(preds) == [k \in FirstOf(DOMAIN preds) |-> preds[k]]
WindowOf(preds) == {[visit |-> Plan[k].id, delay |-> preds[k].delay] : k \in DOMAIN preds}

LEMMA UpdatedIs ==
  ASSUME NEW r, RecForm(r), NEW task, NEW extras, NEW facts, NEW preds,
         NEW q, q = UpdatedRecord(r, task, extras, facts, preds)
  PROVE  /\ RecForm(q) /\ q.points = r.points /\ q.since = r.since
         /\ q.arrivals = WithFacts(r.arrivals, facts)
         /\ q.prediction = CardOf(preds) /\ q.window = WindowOf(preds)
<1> DEFINE prediction == CardOf(preds)
           window == WindowOf(preds)
           arrivals == WithFacts(r.arrivals, facts)
<1>1. q = [points |-> r.points, first |-> r.first, last |-> r.last, arrivals |-> arrivals,
            prediction |-> prediction, window |-> window, dwell |-> extras.dwell,
            segment |-> extras.segment, since |-> r.since]
  BY Zenon DEF UpdatedRecord, RecForm, CardOf, WindowOf
<1> HIDE DEF prediction, window, arrivals
<1>2. /\ RecForm(q) /\ q.points = r.points /\ q.since = r.since
      /\ q.arrivals = arrivals /\ q.prediction = prediction /\ q.window = window
  BY <1>1 DEF RecForm
<1>3. QED
  BY <1>2, Zenon DEF prediction, window, arrivals

(* What the card of a record shows: one visit, from ten minutes to an hour *)
(* after the moment of the forecast, with the delay the timeline gives it, *)
(* and no arrival found is of a visit planned after that moment.           *)
CardFor(r, k) ==
  /\ k \in DOMAIN Plan /\ DOMAIN r.prediction = {k}
  /\ r.prediction[k].visit = k /\ r.prediction[k].delay \in Int /\ r.prediction[k].at \in Nat
  /\ r.prediction[k].at + Minutes(10) < Plan[k].tb
  /\ Plan[k].tb <= r.prediction[k].at + Minutes(60)
  /\ ArrivalsUpTo(r.arrivals, r.prediction[k].at)
  /\ [visit |-> Plan[k].id, delay |-> r.prediction[k].delay] \in r.window
  /\ \A w \in r.window : w.visit = Plan[k].id => w.delay = r.prediction[k].delay
CardIs(r) ==
  /\ DOMAIN r.prediction = {} => r.prediction = <<>>
  /\ \A k \in DOMAIN r.prediction : CardFor(r, k)

LEMMA FirstIsOne ==
  ASSUME NEW S \in SUBSET Nat, NEW k \in FirstOf(S)
  PROVE  FirstOf(S) = {k} /\ k \in S
<1>1. k \in S /\ \A j \in S : k <= j
  BY DEF FirstOf
<1>2. ASSUME NEW j \in FirstOf(S) PROVE j = k
  <2>1. j \in S /\ j <= k /\ k <= j
    BY <1>1, <1>2 DEF FirstOf
  <2>2. QED
    BY <1>1, <2>1
<1>3. QED
  BY <1>1, <1>2

CardAt(r, t) ==
  /\ CardIs(r) /\ ArrivalsUpTo(r.arrivals, t)
  /\ \A k \in DOMAIN r.prediction : r.prediction[k].at = t

LEMMA UpdatedCard ==
  ASSUME NEW p, p.points \in Seq(PointRecs), p.t \in Nat,
         NEW ml, Answer(ml), NEW explained,
         NEW task, task = Prepared(p.points, p.t, p.ready), NEW extras,
         NEW preds, preds = Assemble(task, extras, p, ml, explained),
         NEW facts, facts = Arrivals(p.points, p.t),
         NEW r, RecForm(r), ArrivalsUpTo(r.arrivals, p.t),
         NEW q, q = UpdatedRecord(r, task, extras, facts, preds)
  PROVE  CardAt(q, p.t)
<1>0. p.t \in Int
  OBVIOUS
<1>1. /\ DOMAIN preds \subseteq DOMAIN Plan
      /\ \A k \in DOMAIN preds :
           /\ preds[k].visit = k /\ preds[k].at = p.t
           /\ preds[k].delay \in Int /\ preds[k].lead \in Int
           /\ p.t + Minutes(10) < Plan[k].tb /\ Plan[k].tb <= p.t + Minutes(60)
  <2>1. PredsIs(preds, p.t)
    BY <1>0, AssembledIs, Zenon
  <2>2. QED
    BY <2>1 DEF PredsIs
<1>2. /\ q.arrivals = WithFacts(r.arrivals, facts)
      /\ q.prediction = [k \in FirstOf(DOMAIN preds) |-> preds[k]]
      /\ q.window = {[visit |-> Plan[k].id, delay |-> preds[k].delay] : k \in DOMAIN preds}
  <2>1. q.arrivals = WithFacts(r.arrivals, facts) /\ q.prediction = CardOf(preds)
        /\ q.window = WindowOf(preds)
    BY UpdatedIs
  <2>2. QED
    BY <2>1, Zenon DEF CardOf, WindowOf
<1>3. ArrivalsUpTo(q.arrivals, p.t)
  <2>1. facts \in Seq(FactsFrom(Visits, p.t))
    BY <1>0, ArrivalsType
  <2> DEFINE all == q.arrivals
  <2>2. all = WithFacts(r.arrivals, facts)
    BY <1>2
  <2> HIDE DEF all
  <2>3. ArrivalsUpTo(all, p.t)
    BY <1>0, <2>1, <2>2, WithFactsIs, Zenon
  <2>4. QED
    BY <2>3 DEF all
<1>4. ASSUME NEW k \in DOMAIN q.prediction
      PROVE  k \in DOMAIN preds /\ DOMAIN q.prediction = {k} /\ q.prediction[k] = preds[k]
  <2>1. k \in FirstOf(DOMAIN preds)
    BY <1>2, <1>4
  <2>2. DOMAIN preds \in SUBSET Nat
    BY <1>1, PlanIs
  <2>3. FirstOf(DOMAIN preds) = {k} /\ k \in DOMAIN preds
    BY <2>1, <2>2, FirstIsOne
  <2>4. QED
    BY <1>2, <2>1, <2>3
<1>5. ASSUME NEW k \in DOMAIN preds
      PROVE  /\ [visit |-> Plan[k].id, delay |-> preds[k].delay] \in q.window
             /\ \A w \in q.window : w.visit = Plan[k].id => w.delay = preds[k].delay
  <2>1. [visit |-> Plan[k].id, delay |-> preds[k].delay] \in q.window
    BY <1>2
  <2>2. ASSUME NEW w \in q.window, w.visit = Plan[k].id PROVE w.delay = preds[k].delay
    <3>1. PICK j \in DOMAIN preds : w = [visit |-> Plan[j].id, delay |-> preds[j].delay]
      BY <1>2
    <3>2. w.visit = Plan[j].id /\ w.delay = preds[j].delay
      BY <3>1
    <3>3. j = k
      BY <1>1, <2>2, <3>2, PlanIs
    <3>4. QED
      BY <3>2, <3>3
  <2>3. QED
    BY <2>1, <2>2
<1>6. ASSUME NEW k \in DOMAIN q.prediction
      PROVE  CardFor(q, k) /\ q.prediction[k].at = p.t
  <2>1. k \in DOMAIN preds /\ DOMAIN q.prediction = {k} /\ q.prediction[k] = preds[k]
    BY <1>4
  <2>2. preds[k].at = p.t /\ k \in DOMAIN Plan
    BY <1>1, <2>1
  <2>3. /\ [visit |-> Plan[k].id, delay |-> preds[k].delay] \in q.window
        /\ \A w \in q.window : w.visit = Plan[k].id => w.delay = preds[k].delay
    BY <1>5, <2>1
  <2>4. QED
    BY <1>1, <1>3, <2>1, <2>2, <2>3 DEF CardFor
<1>7. CardIs(q)
  <2>1. DOMAIN q.prediction = {} => q.prediction = <<>>
    <3>1. q.prediction = [k \in FirstOf(DOMAIN preds) |-> preds[k]]
      BY <1>2
    <3>2. QED
      BY <3>1
  <2>2. QED
    BY <1>6, <2>1 DEF CardIs
<1>8. QED
  BY <1>3, <1>6, <1>7 DEF CardAt

-----------------------------------------------------------------------------
(* The invariant of the record.                                            *)

ForecastTypes ==
  /\ session \in Nat /\ session + 1 \in DOMAIN Reach /\ clock \in DOMAIN Instants
  /\ heard \in Seq(PointRecs)
  /\ RecForm(rec) /\ rec.points \in Seq(PointRecs) /\ rec.since \in Nat
  /\ lastT \in [session : Nat, t : Int]
  /\ pass # <<>> => /\ pass[1].t \in Nat /\ pass[1].session \in Nat
                    /\ pass[1].points \in Seq(PointRecs)

(* The pass under way is of the session the last one counts for; of this   *)
(* session, it is later than the last one, and both are not ahead of time. *)
InTime ==
  /\ lastT.session <= session
  /\ lastT.session = session => lastT.t <= now
  /\ pass # <<>> =>
       /\ pass[1].session = lastT.session
       /\ pass[1].session = session => lastT.t < pass[1].t /\ pass[1].t <= now

(* Arrivals are those of the last pass at most, in this session.           *)
RecordIs ==
  /\ CardIs(rec)
  /\ \A k \in DOMAIN rec.prediction : rec.prediction[k].at <= now
  /\ DOMAIN rec.arrivals # {} => lastT.session = session
  /\ ArrivalsUpTo(rec.arrivals, lastT.t)

RecordInv == ForecastTypes /\ InTime /\ RecordIs

LEMMA NoArrivals ==
  ASSUME NEW r, r.arrivals = <<>>, r.prediction = <<>>
  PROVE  /\ CardIs(r) /\ DOMAIN r.prediction = {} /\ DOMAIN r.arrivals = {}
         /\ \A u : ArrivalsUpTo(r.arrivals, u)
<1>1. DOMAIN <<>> = {}
  OBVIOUS
<1>2. DOMAIN r.prediction = {} /\ DOMAIN r.arrivals = {}
  BY <1>1
<1>3. QED
  BY <1>2 DEF CardIs, ArrivalsUpTo

LEMMA NowType ==
  ASSUME clock \in DOMAIN Instants
  PROVE  now \in Nat
BY ForecastAssumption DEF now

LEMMA RecordInit ==
  Init => RecordInv
<1> SUFFICES ASSUME Init PROVE RecordInv
  OBVIOUS
<1>1. /\ clock = 1 /\ session = 0 /\ rec = NoRecord /\ heard = <<>>
      /\ pass = <<>> /\ lastT = [session |-> 0, t |-> -1]
  BY DEF Init
<1>2. 1 \in DOMAIN Instants
  <2>1. 1 \in DOMAIN Reach /\ Reach[1].instants \in DOMAIN Instants /\ Instants \in Seq(Nat)
    BY ForecastAssumption
  <2>2. QED
    BY <2>1
<1>3. ForecastTypes
  BY <1>1, <1>2, NoRecordForm, ForecastAssumption DEF ForecastTypes
<1>4. now \in Nat
  BY <1>1, <1>2, NowType
<1>5. InTime
  BY <1>1, <1>4 DEF InTime
<1>6. rec.arrivals = <<>> /\ rec.prediction = <<>>
  BY <1>1, NoRecordForm
<1>7. RecordIs
  BY <1>6, NoArrivals DEF RecordIs
<1>8. QED
  BY <1>3, <1>5, <1>7 DEF RecordInv

(* A step that leaves the record, the session and the passes alone, while  *)
(* time does not run back.                                                 *)
LEMMA RecordKept ==
  ASSUME RecordInv, UNCHANGED <<session, rec, pass, lastT>>,
         clock' \in DOMAIN Instants, now <= now', heard' \in Seq(PointRecs)
  PROVE  RecordInv'
<1>1. now \in Nat /\ now' \in Nat
  <2>1. now' = Instants[clock']
    BY DEF now
  <2>2. now' \in Nat
    BY <2>1, ForecastAssumption
  <2>3. QED
    BY <2>2, NowType DEF RecordInv, ForecastTypes
<1>2. ForecastTypes'
  BY DEF RecordInv, ForecastTypes
<1>3. InTime'
  <2>1. lastT.t \in Int /\ (pass # <<>> => pass[1].t \in Nat)
    BY DEF RecordInv, ForecastTypes
  <2>2. QED
    BY <1>1, <2>1 DEF RecordInv, InTime
<1>4. RecordIs'
  <2>1. \A k \in DOMAIN rec.prediction : rec.prediction[k].at \in Nat /\ rec.prediction[k].at <= now
    BY DEF RecordInv, RecordIs, CardIs, CardFor
  <2>2. \A k \in DOMAIN rec.prediction : rec.prediction[k].at <= now'
    BY <1>1, <2>1
  <2>3. QED
    BY <2>2 DEF RecordInv, RecordIs
<1>5. QED
  BY <1>2, <1>3, <1>4 DEF RecordInv

LEMMA RecordPoint ==
  ASSUME RecordInv, NEW i \in DOMAIN Instants, NEW sight \in Sights, Point(i, sight)
  PROVE  RecordInv'
<1>1. PICK p : /\ p = [et |-> Instants[i], x |-> sight.x, speed |-> sight.speed, valid |-> sight.valid]
               /\ heard' = Append(heard, p) /\ rec' = Added(rec, p)
  BY Zenon DEF Point
<1>2. UNCHANGED <<clock, session, pass, lastT, journal, shown>>
  BY DEF Point
<1>3. p \in PointRecs
  BY <1>1, ForecastAssumption DEF PointRecs
<1>4. RecForm(rec) /\ rec.points \in Seq(PointRecs) /\ rec.since \in Nat
  BY DEF RecordInv, ForecastTypes
<1>5. /\ RecForm(rec') /\ rec'.points \in Seq(PointRecs) /\ rec'.since = rec.since
      /\ rec'.arrivals = rec.arrivals /\ rec'.prediction = rec.prediction /\ rec'.window = rec.window
  BY <1>1, <1>3, <1>4, AddedIs
<1>6. heard' \in Seq(PointRecs)
  BY <1>1, <1>3 DEF RecordInv, ForecastTypes
<1>7. ForecastTypes'
  BY <1>2, <1>4, <1>5, <1>6 DEF RecordInv, ForecastTypes
<1>8. now' = now
  BY <1>2 DEF now
<1>9. InTime'
  BY <1>2, <1>8 DEF RecordInv, InTime
<1>10. CardIs(rec')
  BY <1>5 DEF RecordInv, RecordIs, CardIs, CardFor
<1>11. RecordIs'
  BY <1>2, <1>5, <1>8, <1>10 DEF RecordInv, RecordIs
<1>12. QED
  BY <1>7, <1>9, <1>11 DEF RecordInv

LEMMA RecordTick ==
  ASSUME RecordInv, ClockTicks
  PROVE  RecordInv'
<1>1. clock < Reach[session + 1].instants /\ clock' = clock + 1
      /\ UNCHANGED <<session, rec, heard, pass, lastT, journal, shown>>
  BY DEF ClockTicks
<1>2. Reach[session + 1].instants \in DOMAIN Instants /\ clock \in DOMAIN Instants
  BY ForecastAssumption DEF RecordInv, ForecastTypes
<1>3. clock \in 1..(Len(Instants) - 1) /\ clock' \in DOMAIN Instants
  BY <1>1, <1>2, ForecastAssumption
<1>4. now < now' /\ now \in Nat /\ now' \in Nat
  <2>1. now = Instants[clock] /\ now' = Instants[clock + 1]
    BY <1>1 DEF now
  <2>2. Instants[clock] < Instants[clock + 1]
    BY <1>3, ForecastAssumption
  <2>3. Instants[clock] \in Nat /\ Instants[clock'] \in Nat
    BY <1>2, <1>3, ForecastAssumption
  <2>4. QED
    BY <1>1, <2>1, <2>2, <2>3
<1>5. heard' \in Seq(PointRecs)
  BY <1>1 DEF RecordInv, ForecastTypes
<1>6. QED
  BY <1>1, <1>3, <1>4, <1>5, RecordKept

LEMMA RecordNewSession ==
  ASSUME RecordInv, NewSession
  PROVE  RecordInv'
<1>1. /\ session + 2 \in DOMAIN Reach /\ session' = session + 1
      /\ clock' = 1 /\ rec' = NoRecord /\ heard' = <<>> /\ UNCHANGED <<pass, lastT>>
  BY DEF NewSession
<1>2. /\ session \in Nat /\ lastT \in [session : Nat, t : Int] /\ lastT.session <= session
      /\ 1 \in DOMAIN Instants
      /\ pass # <<>> => pass[1].session = lastT.session
  <2>1. clock \in DOMAIN Instants
    BY DEF RecordInv, ForecastTypes
  <2>2. 1 \in DOMAIN Instants
    BY <2>1, ForecastAssumption
  <2>3. QED
    BY <2>2 DEF RecordInv, ForecastTypes, InTime
<1>3. ForecastTypes'
  BY <1>1, <1>2, NoRecordForm DEF RecordInv, ForecastTypes
<1>4. lastT.session <= session + 1 /\ lastT.session # session + 1
  BY <1>2
<1>5. InTime'
  BY <1>1, <1>2, <1>4 DEF InTime
<1>6. rec'.arrivals = <<>> /\ rec'.prediction = <<>>
  BY <1>1, NoRecordForm
<1>7. CardIs(rec') /\ DOMAIN rec'.prediction = {} /\ DOMAIN rec'.arrivals = {}
      /\ \A u : ArrivalsUpTo(rec'.arrivals, u)
  BY <1>6, NoArrivals
<1>8. RecordIs'
  BY <1>7 DEF RecordIs
<1>9. QED
  BY <1>3, <1>5, <1>8 DEF RecordInv

LEMMA RecordSweep ==
  ASSUME RecordInv, Sweep
  PROVE  RecordInv'
<1>1. /\ rec' = [NoRecord EXCEPT !.since = Len(heard)]
      /\ UNCHANGED <<clock, session, heard, pass, lastT, journal, shown>>
  BY DEF Sweep
<1>2. /\ RecForm(rec') /\ rec'.points = <<>> /\ rec'.since = Len(heard)
      /\ rec'.arrivals = <<>> /\ rec'.prediction = <<>>
  BY <1>1, SweptForm
<1>3. ForecastTypes'
  <2>1. heard \in Seq(PointRecs) /\ Len(heard) \in Nat /\ rec'.points \in Seq(PointRecs)
    BY <1>2 DEF RecordInv, ForecastTypes
  <2>2. QED
    BY <1>1, <1>2, <2>1 DEF RecordInv, ForecastTypes
<1>4. now' = now
  BY <1>1 DEF now
<1>5. InTime'
  BY <1>1, <1>4 DEF RecordInv, InTime
<1>6. CardIs(rec') /\ DOMAIN rec'.prediction = {} /\ DOMAIN rec'.arrivals = {}
      /\ \A u : ArrivalsUpTo(rec'.arrivals, u)
  BY <1>2, NoArrivals
<1>7. RecordIs'
  BY <1>6 DEF RecordIs
<1>8. QED
  BY <1>3, <1>5, <1>7 DEF RecordInv

LEMMA RecordPassBegins ==
  ASSUME RecordInv, PassBegins
  PROVE  RecordInv'
<1> DEFINE t == FloorMinute(now)
           last == IF lastT.session = session THEN lastT.t ELSE -1
           begun == [t |-> t, session |-> session, points |-> rec.points,
                     heard |-> SubSeq(heard, rec.since + 1, Len(heard)),
                     stale |-> IsStale(rec), ready |-> IsReady(rec)]
<1>1. /\ pass = <<>> /\ t > last /\ lastT' = [session |-> session, t |-> last] /\ pass' = <<begun>>
      /\ UNCHANGED <<clock, session, rec, heard, journal, shown>>
  BY DEF PassBegins
<1>2. /\ session \in Nat /\ rec.points \in Seq(PointRecs) /\ now \in Nat
      /\ lastT \in [session : Nat, t : Int]
  BY NowType DEF RecordInv, ForecastTypes
<1>3. t \in Nat /\ t <= now
  BY <1>2 DEF FloorMinute
<1>4. last \in Int /\ last <= now
  BY <1>2 DEF RecordInv, InTime
<1>5. now' = now
  BY <1>1 DEF now
<1>6. /\ pass'[1].t = t /\ pass'[1].session = session /\ pass'[1].points = rec.points
      /\ lastT'.session = session /\ lastT'.t = last
  <2> HIDE DEF t, last
  <2>1. begun.t = t /\ begun.session = session /\ begun.points = rec.points
    BY Zenon
  <2> HIDE DEF begun
  <2>2. pass'[1] = begun
    BY <1>1
  <2>3. lastT'.session = session /\ lastT'.t = last
    BY <1>1
  <2>4. QED
    BY <2>1, <2>2, <2>3
<1>7. lastT' \in [session : Nat, t : Int]
  BY <1>1, <1>2, <1>4
<1> HIDE DEF t, begun
<1>8. ForecastTypes'
  BY <1>1, <1>2, <1>3, <1>6, <1>7 DEF RecordInv, ForecastTypes
<1>9. InTime'
  BY <1>1, <1>2, <1>3, <1>4, <1>5, <1>6 DEF InTime
<1>10. ArrivalsUpTo(rec'.arrivals, lastT'.t)
  <2>1. CASE DOMAIN rec.arrivals = {}
    BY <1>1, <2>1 DEF ArrivalsUpTo
  <2>2. CASE DOMAIN rec.arrivals # {}
    <3>1. lastT.session = session /\ ArrivalsUpTo(rec.arrivals, lastT.t)
      BY <2>2 DEF RecordInv, RecordIs
    <3>2. QED
      BY <1>1, <1>6, <3>1
  <2>3. QED
    BY <2>1, <2>2
<1>11. RecordIs'
  BY <1>1, <1>5, <1>6, <1>10 DEF RecordInv, RecordIs
<1>12. QED
  BY <1>8, <1>9, <1>11 DEF RecordInv

(* A pass that was overtaken by a new session, or failed, leaves the       *)
(* record as it is.                                                        *)
LEMMA RecordPassOver ==
  ASSUME RecordInv, pass # <<>>, pass' = <<>>, UNCHANGED <<clock, session, heard, rec>>,
         \/ UNCHANGED lastT /\ pass[1].session # session
         \/ lastT' = [lastT EXCEPT !.t = pass[1].t]
  PROVE  RecordInv'
<1>1. now' = now /\ now \in Nat
  BY NowType DEF now, RecordInv, ForecastTypes
<1>2. lastT \in [session : Nat, t : Int] /\ pass[1].t \in Nat
  BY DEF RecordInv, ForecastTypes
<1>3. lastT' \in [session : Nat, t : Int] /\ lastT'.session = lastT.session
      /\ (lastT'.t = lastT.t \/ lastT'.t = pass[1].t)
      /\ (lastT.session = session => lastT'.t = pass[1].t)
  BY <1>2 DEF RecordInv, InTime
<1>4. ForecastTypes'
  BY <1>3 DEF RecordInv, ForecastTypes
<1>5. InTime'
  BY <1>1, <1>3 DEF RecordInv, InTime
<1>6. ArrivalsUpTo(rec'.arrivals, lastT'.t)
  <2>1. CASE DOMAIN rec.arrivals = {}
    BY <2>1 DEF ArrivalsUpTo
  <2>2. CASE DOMAIN rec.arrivals # {}
    <3>1. lastT.session = session /\ ArrivalsUpTo(rec.arrivals, lastT.t)
      BY <2>2 DEF RecordInv, RecordIs
    <3>2. lastT.t <= lastT'.t /\ lastT.t \in Int /\ lastT'.t \in Int
      BY <1>2, <1>3, <3>1 DEF RecordInv, InTime
    <3>3. FactsFrom(Visits, lastT.t) \subseteq FactsFrom(Visits, lastT'.t)
      BY <3>2, FactsGrow
    <3>4. QED
      BY <3>1, <3>3 DEF ArrivalsUpTo
  <2>3. QED
    BY <2>1, <2>2
<1>7. RecordIs'
  BY <1>1, <1>3, <1>6 DEF RecordInv, RecordIs
<1>8. QED
  BY <1>4, <1>5, <1>7 DEF RecordInv

(* A pass of this session is applied.                                      *)
LEMMA RecordApplied ==
  ASSUME RecordInv, pass # <<>>, pass' = <<>>, UNCHANGED <<clock, session, heard>>,
         pass[1].session = session, lastT' = [lastT EXCEPT !.t = pass[1].t],
         NEW ml, Answer(ml), NEW explained, Apply(pass[1], ml, explained)
  PROVE  RecordInv'
<1>1. CASE UNCHANGED rec
  BY <1>1, RecordPassOver
<1>2. CASE ~(UNCHANGED rec)
  <2> PICK p : p = pass[1]
    OBVIOUS
  <2>1. p.points # <<>> /\ Apply(p, ml, explained) /\ OnMap
    BY <1>2, Zenon DEF Apply
  <2>2. PICK task, facts, extras, preds :
          /\ task = Prepared(p.points, p.t, p.ready) /\ facts = Arrivals(p.points, p.t)
          /\ preds = Assemble(task, extras, p, ml, explained)
          /\ rec' = UpdatedRecord(rec, task, extras, facts, preds)
    BY <2>1 DEF Apply
  <2>3. /\ p.t \in Nat /\ p.points \in Seq(PointRecs) /\ RecForm(rec)
        /\ lastT \in [session : Nat, t : Int]
        /\ rec.points \in Seq(PointRecs) /\ rec.since \in Nat
    BY DEF RecordInv, ForecastTypes
  <2>4. lastT.session = session /\ lastT.t < p.t /\ p.t <= now
    BY DEF RecordInv, InTime
  <2>5. ArrivalsUpTo(rec.arrivals, p.t)
    <3>1. FactsFrom(Visits, lastT.t) \subseteq FactsFrom(Visits, p.t)
      BY <2>3, <2>4, FactsGrow
    <3>2. QED
      BY <3>1 DEF RecordInv, RecordIs, ArrivalsUpTo
  <2>6. /\ CardIs(rec') /\ ArrivalsUpTo(rec'.arrivals, p.t)
        /\ \A k \in DOMAIN rec'.prediction : rec'.prediction[k].at = p.t
    <3>1. CardAt(rec', p.t)
      BY <2>2, <2>3, <2>5, UpdatedCard, Zenon
    <3>2. QED
      BY <3>1 DEF CardAt
  <2>7. RecForm(rec') /\ rec'.points = rec.points /\ rec'.since = rec.since
    BY <2>2, <2>3, UpdatedIs
  <2>8. lastT' \in [session : Nat, t : Int] /\ lastT'.session = session /\ lastT'.t = p.t
    BY <2>3, <2>4
  <2>9. ForecastTypes'
    BY <2>3, <2>7, <2>8 DEF RecordInv, ForecastTypes
  <2>10. now' = now
    BY DEF now
  <2>11. InTime'
    BY <2>4, <2>8, <2>10 DEF RecordInv, InTime
  <2>12. RecordIs'
    BY <2>4, <2>6, <2>8, <2>10 DEF RecordIs
  <2>13. QED
    BY <2>9, <2>11, <2>12 DEF RecordInv
<1>3. QED
  BY <1>1, <1>2

LEMMA RecordPassEnds ==
  ASSUME RecordInv, NEW ml, Answer(ml), NEW explained, PassEnds(ml, explained)
  PROVE  RecordInv'
<1>1. /\ pass # <<>> /\ pass' = <<>> /\ UNCHANGED <<clock, session, heard>>
      /\ IF pass[1].session # session THEN UNCHANGED <<lastT, rec, journal, shown>>
         ELSE lastT' = [lastT EXCEPT !.t = pass[1].t] /\ Apply(pass[1], ml, explained)
  BY Zenon DEF PassEnds
<1>2. CASE pass[1].session # session
  BY <1>1, <1>2, RecordPassOver
<1>3. CASE pass[1].session = session
  BY <1>1, <1>3, RecordApplied
<1>4. QED
  BY <1>2, <1>3

LEMMA RecordNext ==
  RecordInv /\ [Next]_vars => RecordInv'
<1> SUFFICES ASSUME RecordInv, [Next]_vars PROVE RecordInv'
  OBVIOUS
<1>1. ASSUME NEW i \in DOMAIN Instants, NEW sight \in Sights, Point(i, sight) PROVE RecordInv'
  BY <1>1, RecordPoint
<1>2. CASE ClockTicks
  BY <1>2, RecordTick
<1>3. CASE NewSession
  BY <1>3, RecordNewSession
<1>4. CASE Sweep
  BY <1>4, RecordSweep
<1>5. CASE PassBegins
  BY <1>5, RecordPassBegins
<1>6. CASE PassFails
  <2>1. /\ pass # <<>> /\ pass' = <<>> /\ lastT' = [lastT EXCEPT !.t = pass[1].t]
        /\ UNCHANGED <<clock, session, rec, heard, journal, shown>>
    BY <1>6 DEF PassFails
  <2>2. QED
    BY <2>1, RecordPassOver
<1>7. CASE PassEnds({}, FALSE)
  <2>1. Answer({})
    BY DEF Answer
  <2>2. QED
    BY <1>7, <2>1, RecordPassEnds
<1>8. ASSUME NEW d \in MlDelays, NEW explained \in BOOLEAN, PassEnds({d}, explained)
      PROVE  RecordInv'
  <2>1. Answer({d})
    BY DEF Answer
  <2>2. QED
    BY <1>8, <2>1, RecordPassEnds
<1>9. CASE UNCHANGED vars
  <2>1. UNCHANGED <<clock, session, heard, rec, pass, lastT>>
    BY <1>9 DEF vars
  <2>2. now' = now /\ now \in Nat
    BY <2>1, NowType DEF now, RecordInv, ForecastTypes
  <2>3. clock' \in DOMAIN Instants /\ heard' \in Seq(PointRecs) /\ now <= now'
    BY <2>1, <2>2 DEF RecordInv, ForecastTypes
  <2>4. QED
    BY <2>1, <2>3, RecordKept
<1>10. QED
  BY <1>1, <1>2, <1>3, <1>4, <1>5, <1>6, <1>7, <1>8, <1>9 DEF Next

(* Types of the record, the points heard and the pass under way, and the   *)
(* order of time: a pass is of the session last counted for and, in it,    *)
(* later than every pass before (scheduler.py: due, last_t and _epoch).    *)
THEOREM PassesInOrder ==
  Spec => [](ForecastTypes /\ InTime)
<1>1. Init => RecordInv
  BY RecordInit
<1>2. RecordInv /\ [Next]_vars => RecordInv'
  BY RecordNext
<1>3. RecordInv => ForecastTypes /\ InTime
  BY DEF RecordInv
<1>4. QED
  BY <1>1, <1>2, <1>3, PTL DEF Spec

-----------------------------------------------------------------------------
(* The views of the card.                                                  *)

LEMMA TargetIsUpcoming ==
  ASSUME RecordInv, NEW k \in DOMAIN rec.prediction, NEW p, p = rec.prediction[k],
         now <= Plan[k].tb + Minutes(10), NEW item, item = TimelineItem(k)
  PROVE  /\ item \in Timeline /\ item.is_target
         /\ item.visit = Plan[k].id /\ item.predicted = {p.delay} /\ item.status = "upcoming"
<1>1. /\ k \in DOMAIN Plan /\ p.visit = k /\ p.at \in Nat
      /\ p.at + Minutes(10) < Plan[k].tb /\ Plan[k].tb <= p.at + Minutes(60)
      /\ ArrivalsUpTo(rec.arrivals, p.at)
      /\ [visit |-> Plan[k].id, delay |-> p.delay] \in rec.window
      /\ \A w \in rec.window : w.visit = Plan[k].id => w.delay = p.delay
  BY DEF RecordInv, RecordIs, CardIs, CardFor
<1>2. p.at <= now /\ now \in Nat /\ Plan[k].tb \in Int
  BY <1>1, PlanIs, NowType DEF RecordInv, RecordIs, ForecastTypes
<1> DEFINE v == Plan[k]
           arrived == {rec.arrivals[id] : id \in {v.id} \cap DOMAIN rec.arrivals}
           waited == {w.delay : w \in {u \in rec.window : u.visit = v.id}}
<1>3. v.id \notin DOMAIN rec.arrivals
  <2> SUFFICES ASSUME v.id \in DOMAIN rec.arrivals PROVE FALSE
    OBVIOUS
  <2>1. rec.arrivals[v.id] \in FactsFrom(Visits, p.at) /\ rec.arrivals[v.id].visit = v.id
    BY <1>1 DEF ArrivalsUpTo
  <2>2. p.at \in Int /\ p.at < Plan[k].tb
    BY <1>1, <1>2 DEF Minutes
  <2>3. QED
    BY <1>1, <2>1, <2>2, NoFactAhead
<1>4. ~Passed(v)
  BY <1>2, <1>3 DEF Passed, Minutes
<1>5. waited = {p.delay}
  <2>1. \A w \in rec.window : w.visit = v.id => w.delay = p.delay
    BY <1>1
  <2>2. \E w \in rec.window : w.visit = v.id /\ w.delay = p.delay
    BY <1>1
  <2> HIDE DEF v
  <2>3. QED
    BY <2>1, <2>2
<1>6. item = [visit |-> v.id, actual |-> arrived,
              predicted |-> IF Passed(v) THEN {} ELSE waited,
              is_target |-> \E i \in DOMAIN rec.prediction : rec.prediction[i].visit = k,
              status |-> IF Passed(v) THEN "passed" ELSE "upcoming"]
  BY Zenon DEF TimelineItem
<1> HIDE DEF arrived, waited
<1>7. /\ item.visit = v.id /\ item.status = "upcoming" /\ item.predicted = waited
  BY <1>4, <1>6
<1>8. item.is_target
  <2>1. item.is_target <=> \E i \in DOMAIN rec.prediction : rec.prediction[i].visit = k
    <3>1. TimelineItem(k).is_target <=> \E i \in DOMAIN rec.prediction : rec.prediction[i].visit = k
      BY Zenon DEF TimelineItem
    <3>2. QED
      BY <3>1
  <2>2. QED
    BY <1>1, <2>1
<1>9. item \in Timeline
  <2>1. Abs(Plan[k].tb - now) <= Minutes(60)
    BY <1>1, <1>2 DEF Abs, Minutes
  <2>2. QED
    BY <1>1, <2>1, Zenon DEF Timeline
<1>10. QED
  BY <1>5, <1>7, <1>8, <1>9

LEMMA OneTarget ==
  ASSUME RecordInv, NEW k \in DOMAIN rec.prediction, NEW item \in Timeline, item.is_target
  PROVE  item = TimelineItem(k)
<1>1. PICK j \in DOMAIN Plan : item = TimelineItem(j)
  BY Zenon DEF Timeline
<1>2. item.is_target <=> \E i \in DOMAIN rec.prediction : rec.prediction[i].visit = j
  <2>1. TimelineItem(j).is_target <=> \E i \in DOMAIN rec.prediction : rec.prediction[i].visit = j
    BY Zenon DEF TimelineItem
  <2>2. QED
    BY <1>1, <2>1
<1>3. PICK i \in DOMAIN rec.prediction : rec.prediction[i].visit = j
  BY <1>2
<1>4. DOMAIN rec.prediction = {k} /\ rec.prediction[k].visit = k
  BY DEF RecordInv, RecordIs, CardIs, CardFor
<1>5. QED
  BY <1>1, <1>3, <1>4

LEMMA FactsAreBehind ==
  ASSUME NEW item \in Timeline, item.actual # {}
  PROVE  item.status = "passed" /\ item.predicted = {}
<1>1. PICK j \in DOMAIN Plan : item = TimelineItem(j)
  BY Zenon DEF Timeline
<1> DEFINE v == Plan[j]
           waited == {w.delay : w \in {u \in rec.window : u.visit = v.id}}
<1>2. /\ TimelineItem(j).actual = {rec.arrivals[id] : id \in {v.id} \cap DOMAIN rec.arrivals}
      /\ TimelineItem(j).predicted = (IF Passed(v) THEN {} ELSE waited)
      /\ TimelineItem(j).status = (IF Passed(v) THEN "passed" ELSE "upcoming")
  BY Zenon DEF TimelineItem
<1> HIDE DEF waited
<1>3. v.id \in DOMAIN rec.arrivals
  BY <1>1, <1>2
<1>4. Passed(v)
  BY <1>3, Zenon DEF Passed
<1>5. QED
  BY <1>1, <1>2, <1>4

(* The grades of risk.                                                     *)
LEMMA GradeOfDelay ==
  ASSUME NEW d \in Int
  PROVE  RiskOfDelay(d) \in {"green", "early", "yellow", "red"}
BY DEF RiskOfDelay

LEMMA SeverityIs ==
  ASSUME NEW level \in {"none", "green", "early", "yellow", "red"}
  PROVE  Severity(level) \in 1..5 /\ RiskLevels[Severity(level)] = level
<1>1. DOMAIN RiskLevels = 1..5 /\ \E i \in DOMAIN RiskLevels : RiskLevels[i] = level
  <2>1. /\ RiskLevels[1] = "none" /\ RiskLevels[2] = "green" /\ RiskLevels[3] = "early"
        /\ RiskLevels[4] = "yellow" /\ RiskLevels[5] = "red" /\ DOMAIN RiskLevels = 1..5
    BY DEF RiskLevels
  <2>2. QED
    BY <2>1
<1>2. Severity(level) \in DOMAIN RiskLevels /\ RiskLevels[Severity(level)] = level
  BY <1>1, Zenon DEF Severity
<1>3. QED
  BY <1>1, <1>2

LEMMA RiskIs ==
  ASSUME RecordInv
  PROVE  VehicleState.risk \in {"none", "green", "early", "yellow", "red"}
<1> DEFINE delays == {p.delay : p \in ToSet(rec.prediction)}
<1>1. VehicleState.risk = IF rec.prediction = <<>> THEN "none"
                          ELSE RiskOfDelay(CHOOSE d \in delays : TRUE)
  BY Zenon DEF VehicleState
<1>2. CASE rec.prediction = <<>>
  BY <1>1, <1>2
<1>3. CASE rec.prediction # <<>>
  <2>1. \A d \in delays : d \in Int
    <3>1. ASSUME NEW p \in ToSet(rec.prediction) PROVE p.delay \in Int
      <4>1. PICK k \in DOMAIN rec.prediction : p = rec.prediction[k]
        BY DEF ToSet
      <4>2. QED
        BY <4>1 DEF RecordInv, RecordIs, CardIs, CardFor
    <3>2. QED
      BY <3>1
  <2>2. delays # {}
    <3>1. DOMAIN rec.prediction # {}
      BY <1>3 DEF RecordInv, RecordIs, CardIs, CardFor
    <3>2. PICK k : k \in DOMAIN rec.prediction
      BY <3>1
    <3>3. rec.prediction[k] \in ToSet(rec.prediction)
      BY <3>2, Zenon DEF ToSet
    <3>4. QED
      BY <3>3
  <2> HIDE DEF delays
  <2>3. (CHOOSE d \in delays : TRUE) \in Int
    BY <2>1, <2>2
  <2>4. RiskOfDelay(CHOOSE d \in delays : TRUE) \in {"green", "early", "yellow", "red"}
    BY <2>3, GradeOfDelay
  <2>5. QED
    BY <1>1, <1>3, <2>4
<1>4. QED
  BY <1>2, <1>3

LEMMA WayBearsRisk ==
  ASSUME RecordInv, NEW k \in DOMAIN rec.prediction,
         NEW s \in TargetSegment(rec.prediction[k].visit)
  PROVE  Severity(SegmentsRisk[s].level) >= Severity(VehicleState.risk)
<1> DEFINE here == {[segment |-> q.segment, level |-> VehicleState.risk,
                     ratio |-> SpeedRatio(q.speed, Typical[q.segment])] : q \in rec.segment}
           ways == UNION {TargetSegment(p.visit) : p \in ToSet(rec.prediction)}
           ahead == {[segment |-> q, level |-> VehicleState.risk, ratio |-> {}] : q \in ways}
           Of(q) == {e \in here \cup ahead : e.segment = q}
           grades(q) == {Severity(e.level) : e \in Of(q)}
           risk == VehicleState.risk
<1>1. s \in ways
  <2>1. rec.prediction[k] \in ToSet(rec.prediction)
    BY Zenon DEF ToSet
  <2>2. QED
    BY <2>1
<1>2. PICK e \in ahead : e.segment = s
  <2>1. [segment |-> s, level |-> risk, ratio |-> {}] \in ahead
    BY <1>1
  <2>2. [segment |-> s, level |-> risk, ratio |-> {}].segment = s
    OBVIOUS
  <2> HIDE DEF ahead
  <2>3. QED
    BY <2>1, <2>2
<1>3. \A q \in here \cup ahead : q.level = risk
  <2>1. \A q \in here : q.level = risk
    OBVIOUS
  <2>2. \A q \in ahead : q.level = risk
    OBVIOUS
  <2>3. QED
    BY <2>1, <2>2
<1>4. s \in {q.segment : q \in here \cup ahead}
  BY <1>2
<1>5. grades(s) = {Severity(risk)}
  <2> HIDE DEF here, ahead, risk
  <2>1. \A q \in Of(s) : q.level = risk
    BY <1>3
  <2>2. e \in Of(s)
    BY <1>2
  <2> HIDE DEF Of
  <2>3. QED
    BY <2>1, <2>2
<1>6. SegmentsRisk[s].level = RiskLevels[Max(grades(s))]
  BY <1>4, Zenon DEF SegmentsRisk
<1>7. Severity(risk) \in 1..5 /\ RiskLevels[Severity(risk)] = risk
  BY RiskIs, SeverityIs
<1> HIDE DEF grades, risk
<1>8. Max(grades(s)) = Severity(risk)
  BY <1>5, <1>7, MaxOfOne
<1>9. Severity(SegmentsRisk[s].level) = Severity(risk)
  BY <1>6, <1>7, <1>8
<1>10. QED
  BY <1>7, <1>9 DEF risk

LEMMA CardView ==
  RecordInv => CardAgrees
<1> SUFFICES ASSUME RecordInv PROVE CardAgrees
  OBVIOUS
<1> DEFINE Seen(i) == [visit |-> i.visit, predicted |-> i.predicted, status |-> i.status]
           targets == {j \in Timeline : j.is_target}
<1>1. ASSUME NEW k \in DOMAIN rec.prediction, NEW p, p = rec.prediction[k],
             now <= Plan[p.visit].tb + Minutes(10)
      PROVE  {Seen(i) : i \in targets}
               = {[visit |-> Plan[p.visit].id, predicted |-> {p.delay}, status |-> "upcoming"]}
  <2>1. p.visit = k
    BY <1>1 DEF RecordInv, RecordIs, CardIs, CardFor
  <2> DEFINE item == TimelineItem(k)
  <2>2. /\ item \in Timeline /\ item.is_target
        /\ item.visit = Plan[k].id /\ item.predicted = {p.delay} /\ item.status = "upcoming"
    BY <1>1, <2>1, TargetIsUpcoming
  <2>3. \A j \in targets : j = item
    BY OneTarget
  <2> HIDE DEF item
  <2>4. targets = {item}
    BY <2>2, <2>3
  <2> HIDE DEF targets
  <2>5. {Seen(i) : i \in targets} = {Seen(item)}
    BY <2>4
  <2>6. QED
    BY <2>1, <2>2, <2>5
<1>2. ASSUME NEW k \in DOMAIN rec.prediction, NEW s \in TargetSegment(rec.prediction[k].visit)
      PROVE  Severity(SegmentsRisk[s].level) >= Severity(VehicleState.risk)
  BY WayBearsRisk
<1>3. \A i \in Timeline : i.actual # {} => i.status = "passed" /\ i.predicted = {}
  BY FactsAreBehind
<1>4. QED
  BY <1>1, <1>2, <1>3, Zenon DEF CardAgrees

(* The views of one vehicle agree at every moment, whatever the plan, the  *)
(* points, the answers of the models and the sessions: the timeline and    *)
(* the segments show the forecast the card shows (state/views.py).         *)
THEOREM ViewsAgree ==
  Spec => []CardAgrees
<1>1. Init => RecordInv
  BY RecordInit
<1>2. RecordInv /\ [Next]_vars => RecordInv'
  BY RecordNext
<1>3. RecordInv => CardAgrees
  BY CardView
<1>4. QED
  BY <1>1, <1>2, <1>3, PTL DEF Spec

-----------------------------------------------------------------------------
(* The journal of quality.                                                 *)

VisitIds == {v.id : v \in Visits}
ForecastRecs == [visit : VisitIds, delay : Int, lead : Int]
ErrorRecs == [error : Nat, bucket : 11..15]
PendingSets == UNION {[D -> Seq(ForecastRecs) \ {<<>>}] : D \in SUBSET VisitIds}
Trips == {Plan[k].trip : k \in DOMAIN Plan}
JournalRecs == [pending : PendingSets, errors : Seq(ErrorRecs), evaluated : SUBSET VisitIds,
                late : SUBSET Trips,
                seconds : Int, lastPass : Int, firstPass : Int]

LEMMA PendingIs ==
  ASSUME NEW P
  PROVE  P \in PendingSets <=>
           /\ DOMAIN P \in SUBSET VisitIds /\ P = [v \in DOMAIN P |-> P[v]]
           /\ \A v \in DOMAIN P : P[v] \in Seq(ForecastRecs) /\ P[v] # <<>>
<1> DEFINE S == Seq(ForecastRecs) \ {<<>>}
<1>1. ASSUME P \in PendingSets
      PROVE  /\ DOMAIN P \in SUBSET VisitIds /\ P = [v \in DOMAIN P |-> P[v]]
             /\ \A v \in DOMAIN P : P[v] \in S
  <2>1. PICK D \in SUBSET VisitIds : P \in [D -> S]
    BY <1>1, Zenon DEF PendingSets
  <2> HIDE DEF S
  <2>2. QED
    BY <2>1
<1>2. ASSUME DOMAIN P \in SUBSET VisitIds, P = [v \in DOMAIN P |-> P[v]],
             \A v \in DOMAIN P : P[v] \in S
      PROVE  P \in PendingSets
  <2>1. P \in [DOMAIN P -> S]
    <3> HIDE DEF S
    <3>1. QED
      BY <1>2
  <2>2. QED
    BY <1>2, <2>1, Zenon DEF PendingSets
<1>3. QED
  BY <1>1, <1>2

LEMMA VisitIdsFinite ==
  IsFiniteSet(VisitIds)
<1> DEFINE f == [k \in DOMAIN Plan |-> Plan[k].id]
<1>1. IsFiniteSet(DOMAIN Plan)
  BY PlanIs, FS_Interval
<1>2. \A v \in VisitIds : \E k \in DOMAIN Plan : v = Plan[k].id
  BY DEF VisitIds, Visits
<1>3. \A k \in DOMAIN Plan : Plan[k].id \in VisitIds
  BY DEF VisitIds, Visits
<1>4. f \in Surjection(DOMAIN Plan, VisitIds)
  <2>1. f \in [DOMAIN Plan -> VisitIds]
    BY <1>3
  <2>2. QED
    BY <1>2, <2>1 DEF Surjection
<1>5. QED
  BY <1>1, <1>4, FS_Surjection

(* The forecasts that wait, each with the place it has for its visit.      *)
Waits(P) == UNION {{v} \X DOMAIN P[v] : v \in DOMAIN P}

LEMMA WaitsAre ==
  ASSUME NEW P, NEW z
  PROVE  z \in Waits(P) <=> \E v \in DOMAIN P : \E i \in DOMAIN P[v] : z = <<v, i>>
<1>1. z \in Waits(P) <=> \E v \in DOMAIN P : z \in {v} \X DOMAIN P[v]
  BY Zenon DEF Waits
<1>2. \A v : z \in {v} \X DOMAIN P[v] <=> \E i \in DOMAIN P[v] : z = <<v, i>>
  OBVIOUS
<1>3. QED
  BY <1>1, <1>2

LEMMA RowOfWaits ==
  ASSUME NEW v, NEW n \in Nat
  PROVE  IsFiniteSet({v} \X (1..n)) /\ Cardinality({v} \X (1..n)) = n
<1>1. IsFiniteSet({v}) /\ Cardinality({v}) = 1
  BY FS_Singleton
<1>2. IsFiniteSet(1..n) /\ Cardinality(1..n) = n
  BY FS_Interval
<1>3. /\ IsFiniteSet({v} \X (1..n))
      /\ Cardinality({v} \X (1..n)) = Cardinality({v}) * Cardinality(1..n)
  BY <1>1, <1>2, FS_Product
<1>4. QED
  BY <1>1, <1>2, <1>3

LEMMA WaitsFinite ==
  ASSUME NEW P \in PendingSets
  PROVE  IsFiniteSet(Waits(P))
<1> DEFINE rows == {{v} \X DOMAIN P[v] : v \in DOMAIN P}
           f == [v \in DOMAIN P |-> {v} \X DOMAIN P[v]]
<1>1. DOMAIN P \in SUBSET VisitIds /\ \A v \in DOMAIN P : P[v] \in Seq(ForecastRecs)
  BY PendingIs
<1>2. IsFiniteSet(DOMAIN P)
  BY <1>1, VisitIdsFinite, FS_Subset
<1>3. f \in Surjection(DOMAIN P, rows)
  <2>1. \A r \in rows : \E v \in DOMAIN P : r = f[v]
    OBVIOUS
  <2>2. \A v \in DOMAIN P : f[v] \in rows
    OBVIOUS
  <2>3. f \in [DOMAIN P -> rows]
    <3> DEFINE D == DOMAIN P
    <3>1. f = [v \in D |-> f[v]] /\ \A v \in D : f[v] \in rows
      BY <2>2
    <3> HIDE DEF f, rows, D
    <3>2. f \in [D -> rows]
      BY <3>1
    <3>3. QED
      BY <3>2 DEF D
  <2> HIDE DEF f, rows
  <2>4. QED
    BY <2>1, <2>3 DEF Surjection
<1>4. IsFiniteSet(rows)
  <2> HIDE DEF f, rows
  <2>1. QED
    BY <1>2, <1>3, FS_Surjection
<1>5. \A r \in rows : IsFiniteSet(r)
  <2> SUFFICES ASSUME NEW v \in DOMAIN P PROVE IsFiniteSet({v} \X DOMAIN P[v])
    OBVIOUS
  <2>1. Len(P[v]) \in Nat /\ DOMAIN P[v] = 1..Len(P[v])
    BY <1>1
  <2>2. QED
    BY <2>1, RowOfWaits
<1>6. Waits(P) = UNION rows
  BY Zenon DEF Waits
<1> HIDE DEF rows
<1>7. QED
  BY <1>4, <1>5, <1>6, FS_UNION

(* A journal that accounts for n forecasts, each scored once or waiting,   *)
(* where each visit that was scored brought an error at least.             *)
Accounted(j, n) ==
  /\ n = Len(j.errors) + Cardinality(Waits(j.pending))
  /\ Cardinality(j.evaluated) <= Len(j.errors)
  /\ j.evaluated \cap DOMAIN j.pending = {}

SamePasses(q, j) ==
  q.seconds = j.seconds /\ q.lastPass = j.lastPass /\ q.firstPass = j.firstPass

JournalForm(j) ==
  j = [pending |-> j.pending, errors |-> j.errors, evaluated |-> j.evaluated, late |-> j.late,
       seconds |-> j.seconds, lastPass |-> j.lastPass, firstPass |-> j.firstPass]

LEMMA JournalFields ==
  ASSUME NEW j \in JournalRecs
  PROVE  /\ JournalForm(j) /\ j.pending \in PendingSets /\ j.errors \in Seq(ErrorRecs)
         /\ j.evaluated \in SUBSET VisitIds
         /\ j.late \in SUBSET Trips
         /\ j.seconds \in Int /\ j.lastPass \in Int /\ j.firstPass \in Int
         /\ IsFiniteSet(j.evaluated) /\ Cardinality(j.evaluated) \in Nat
         /\ IsFiniteSet(Waits(j.pending)) /\ Cardinality(Waits(j.pending)) \in Nat
         /\ Len(j.errors) \in Nat
<1>1. /\ j.pending \in PendingSets /\ j.errors \in Seq(ErrorRecs)
      /\ j.evaluated \in SUBSET VisitIds /\ j.late \in SUBSET Trips
      /\ j.seconds \in Int /\ j.lastPass \in Int /\ j.firstPass \in Int /\ JournalForm(j)
  <2>1. JournalRecs = [pending : PendingSets, errors : Seq(ErrorRecs), evaluated : SUBSET VisitIds,
                       late : SUBSET Trips, seconds : Int, lastPass : Int, firstPass : Int]
    BY Zenon DEF JournalRecs
  <2>2. QED
    BY <2>1 DEF JournalForm
<1>2. IsFiniteSet(j.evaluated) /\ Cardinality(j.evaluated) \in Nat
  BY <1>1, VisitIdsFinite, FS_Subset, FS_CardinalityType
<1>3. IsFiniteSet(Waits(j.pending)) /\ Cardinality(Waits(j.pending)) \in Nat
  BY <1>1, WaitsFinite, FS_CardinalityType
<1>4. Len(j.errors) \in Nat
  BY <1>1
<1>5. QED
  BY <1>1, <1>2, <1>3, <1>4

LEMMA RecordedIs ==
  ASSUME NEW j \in JournalRecs, NEW n \in Nat, Accounted(j, n),
         NEW f \in ForecastRecs, f.visit \notin j.evaluated, NEW q, q = Recorded(j, f)
  PROVE  /\ q \in JournalRecs /\ Accounted(q, n + 1) /\ q.evaluated = j.evaluated
         /\ SamePasses(q, j)
<1> DEFINE P == j.pending
           W(v) == IF v \in DOMAIN P THEN P[v] ELSE <<>>
           u == f.visit
           Q == [v \in DOMAIN P \cup {u} |-> IF v = u THEN Append(W(v), f) ELSE W(v)]
           i == Len(W(u)) + 1
<1>1. /\ JournalForm(j) /\ P \in PendingSets /\ j.errors \in Seq(ErrorRecs)
      /\ j.evaluated \in SUBSET VisitIds
      /\ j.late \in SUBSET Trips
      /\ j.seconds \in Int /\ j.lastPass \in Int /\ j.firstPass \in Int
      /\ IsFiniteSet(Waits(P)) /\ Cardinality(Waits(P)) \in Nat /\ Len(j.errors) \in Nat
  BY JournalFields
<1>2. q = [pending |-> Q, errors |-> j.errors, evaluated |-> j.evaluated, late |-> j.late,
           seconds |-> j.seconds, lastPass |-> j.lastPass, firstPass |-> j.firstPass]
  BY <1>1, Zenon DEF Recorded, JournalForm
<1>3. /\ DOMAIN P \in SUBSET VisitIds
      /\ \A v \in DOMAIN P : P[v] \in Seq(ForecastRecs) /\ P[v] # <<>>
  BY <1>1, PendingIs
<1>4. u \in VisitIds
  BY DEF ForecastRecs
<1>5. /\ DOMAIN Q = DOMAIN P \cup {u} /\ Q[u] = Append(W(u), f) /\ W(u) \in Seq(ForecastRecs)
      /\ \A v \in DOMAIN P : v # u => Q[v] = P[v]
  <2>1. W(u) \in Seq(ForecastRecs)
    BY <1>3
  <2>2. QED
    BY <2>1
<1>6. Q[u] \in Seq(ForecastRecs) /\ Q[u] # <<>> /\ DOMAIN Q[u] = 1..i /\ i \in Nat
  <2> DEFINE w == W(u)
  <2>1. w \in Seq(ForecastRecs) /\ Q[u] = Append(w, f)
    BY <1>5
  <2> HIDE DEF w, Q
  <2>2. Q[u] \in Seq(ForecastRecs) /\ Q[u] # <<>> /\ DOMAIN Q[u] = 1..(Len(w) + 1) /\ Len(w) + 1 \in Nat
    BY <2>1
  <2>3. QED
    BY <2>2 DEF w
<1>7. Q \in PendingSets
  <2>1. \A v \in DOMAIN Q : Q[v] \in Seq(ForecastRecs) /\ Q[v] # <<>>
    <3> HIDE DEF Q, W, u
    <3>1. QED
      BY <1>3, <1>5, <1>6
  <2>2. DOMAIN Q \in SUBSET VisitIds
    BY <1>3, <1>4, <1>5
  <2>3. Q = [v \in DOMAIN Q |-> Q[v]]
    OBVIOUS
  <2> HIDE DEF Q
  <2>4. QED
    BY <2>1, <2>2, <2>3, PendingIs
<1>8. Waits(Q) = Waits(P) \cup {<<u, i>>} /\ <<u, i>> \notin Waits(P)
  <2>1. u \in DOMAIN P => DOMAIN P[u] = 1..(i - 1)
    <3>1. u \in DOMAIN P => P[u] \in Seq(ForecastRecs) /\ W(u) = P[u]
      BY <1>3
    <3>2. QED
      BY <3>1
  <2>2. u \notin DOMAIN P => i = 1
    BY DEF W
  <2> HIDE DEF Q, i, u
  <2>3. ASSUME NEW z PROVE z \in Waits(Q) <=> z \in Waits(P) \/ z = <<u, i>>
    <3>1. z \in Waits(Q) <=> \E v \in DOMAIN Q : \E m \in DOMAIN Q[v] : z = <<v, m>>
      BY WaitsAre
    <3>2. z \in Waits(P) <=> \E v \in DOMAIN P : \E m \in DOMAIN P[v] : z = <<v, m>>
      BY WaitsAre
    <3>3. \A m : m \in DOMAIN Q[u] <=> m = i \/ (u \in DOMAIN P /\ m \in DOMAIN P[u])
      BY <1>6, <2>1, <2>2
    <3> HIDE DEF P
    <3>4. QED
      BY <1>5, <3>1, <3>2, <3>3
  <2>4. <<u, i>> \notin Waits(P)
    <3>1. <<u, i>> \in Waits(P) <=> \E v \in DOMAIN P : \E m \in DOMAIN P[v] : <<u, i>> = <<v, m>>
      BY WaitsAre
    <3>2. ~(u \in DOMAIN P /\ i \in DOMAIN P[u])
      BY <1>6, <2>1
    <3>3. QED
      BY <3>1, <3>2
  <2>5. QED
    BY <2>3, <2>4
<1> HIDE DEF Q, i, u, W
<1>9. Cardinality(Waits(Q)) = Cardinality(Waits(P)) + 1
  BY <1>1, <1>8, FS_AddElement
<1>10. /\ q \in JournalRecs /\ q.pending = Q /\ q.errors = j.errors /\ q.evaluated = j.evaluated
       /\ q.seconds = j.seconds /\ q.lastPass = j.lastPass /\ q.firstPass = j.firstPass
  BY <1>1, <1>2, <1>7 DEF JournalRecs
<1>11. Accounted(q, n + 1)
  <2>1. j.evaluated \cap DOMAIN Q = {}
    BY <1>5 DEF Accounted, u
  <2>2. QED
    BY <1>1, <1>9, <1>10, <2>1 DEF Accounted
<1>12. QED
  BY <1>10, <1>11 DEF SamePasses

LEMMA BucketIs ==
  ASSUME NEW lead \in Int
  PROVE  LeadBucket(lead) \in 11..15
<1>1. (lead + 59) \div 60 \in Int
  OBVIOUS
<1>2. \A m \in Int : Clip(m, 11, 15) \in 11..15
  BY DEF Clip
<1>3. QED
  BY <1>1, <1>2 DEF LeadBucket

LEMMA ScoredIs ==
  ASSUME NEW j \in JournalRecs, NEW n \in Nat, Accounted(j, n), NEW fact, fact.delay \in Int,
         NEW q, q = Scored(j, fact)
  PROVE  /\ q \in JournalRecs /\ Accounted(q, n) /\ q.evaluated \subseteq j.evaluated \cup {fact.visit}
         /\ SamePasses(q, j)
<1> DEFINE P == j.pending
           v == fact.visit
           w == P[v]
           Q == [x \in DOMAIN P \ {v} |-> P[x]]
           scores == [i \in DOMAIN w |-> [error |-> Abs(w[i].delay - fact.delay),
                                          bucket |-> LeadBucket(w[i].lead)]]
           late == {Plan[k].trip : k \in {i \in DOMAIN Plan : Plan[i].id = fact.visit /\ fact.delay > RedDelay}}
<1>1. /\ JournalForm(j) /\ P \in PendingSets /\ j.errors \in Seq(ErrorRecs)
      /\ j.evaluated \in SUBSET VisitIds /\ j.late \in SUBSET Trips
      /\ j.seconds \in Int /\ j.lastPass \in Int /\ j.firstPass \in Int
      /\ IsFiniteSet(j.evaluated) /\ Cardinality(j.evaluated) \in Nat
      /\ IsFiniteSet(Waits(P)) /\ Cardinality(Waits(P)) \in Nat /\ Len(j.errors) \in Nat
  BY JournalFields
<1>2. CASE v \notin DOMAIN P
  <2>1. q = j
    BY <1>2, Zenon DEF Scored, Score
  <2>2. QED
    BY <2>1 DEF SamePasses
<1>3. CASE v \in DOMAIN P
  <2>1. q = [pending |-> Q, errors |-> j.errors \o scores, evaluated |-> j.evaluated \cup {v},
             late |-> j.late \cup late, seconds |-> j.seconds, lastPass |-> j.lastPass,
             firstPass |-> j.firstPass]
    BY <1>1, <1>3, Zenon DEF Scored, Score, JournalForm
  <2>2. /\ DOMAIN P \in SUBSET VisitIds
        /\ \A x \in DOMAIN P : P[x] \in Seq(ForecastRecs) /\ P[x] # <<>>
    BY <1>1, PendingIs
  <2>3. w \in Seq(ForecastRecs) /\ w # <<>> /\ Len(w) \in Nat /\ Len(w) > 0 /\ DOMAIN w = 1..Len(w)
    BY <1>3, <2>2
  <2>4. late \subseteq Trips
    BY DEF Trips
  <2> HIDE DEF w, late
  <2>5. scores \in Seq(ErrorRecs) /\ Len(scores) = Len(w)
    <3>1. ASSUME NEW i \in 1..Len(w)
          PROVE  [error |-> Abs(w[i].delay - fact.delay), bucket |-> LeadBucket(w[i].lead)] \in ErrorRecs
      <4>1. w[i].delay \in Int /\ w[i].lead \in Int
        <5>1. w[i] \in ForecastRecs
          BY <2>3
        <5>2. QED
          BY <5>1 DEF ForecastRecs
      <4>2. Abs(w[i].delay - fact.delay) \in Nat
        BY <4>1 DEF Abs
      <4>3. LeadBucket(w[i].lead) \in 11..15
        BY <4>1, BucketIs
      <4>4. QED
        BY <4>2, <4>3 DEF ErrorRecs
    <3>2. scores \in [1..Len(w) -> ErrorRecs]
      BY <2>3, <3>1
    <3> HIDE DEF scores
    <3>3. QED
      BY <2>3, <3>2
  <2> HIDE DEF scores
  <2>6. j.errors \o scores \in Seq(ErrorRecs) /\ Len(j.errors \o scores) = Len(j.errors) + Len(w)
    BY <1>1, <2>5
  <2>7. DOMAIN Q = DOMAIN P \ {v} /\ \A x \in DOMAIN Q : Q[x] = P[x]
    OBVIOUS
  <2>8. Q \in PendingSets
    <3>1. Q = [x \in DOMAIN Q |-> Q[x]]
      OBVIOUS
    <3> HIDE DEF Q
    <3>2. DOMAIN Q \in SUBSET VisitIds /\ \A x \in DOMAIN Q : Q[x] \in Seq(ForecastRecs) /\ Q[x] # <<>>
      BY <2>2, <2>7
    <3>3. QED
      BY <3>1, <3>2, PendingIs
  <2> HIDE DEF Q
  <2>9. Waits(P) = Waits(Q) \cup ({v} \X (1..Len(w))) /\ Waits(Q) \cap ({v} \X (1..Len(w))) = {}
    <3>1. ASSUME NEW z
          PROVE  /\ z \in Waits(P) <=> z \in Waits(Q) \/ z \in {v} \X (1..Len(w))
                 /\ ~(z \in Waits(Q) /\ z \in {v} \X (1..Len(w)))
      <4>1. z \in Waits(Q) <=> \E x \in DOMAIN Q : \E m \in DOMAIN Q[x] : z = <<x, m>>
        BY WaitsAre
      <4>2. z \in Waits(P) <=> \E x \in DOMAIN P : \E m \in DOMAIN P[x] : z = <<x, m>>
        BY WaitsAre
      <4>3. z \in {v} \X (1..Len(w)) <=> \E m \in DOMAIN P[v] : z = <<v, m>>
        BY <2>3 DEF w
      <4> HIDE DEF P, v
      <4>4. QED
        BY <1>3, <2>7, <4>1, <4>2, <4>3
    <3>2. QED
      BY <3>1
  <2>10. Cardinality(Waits(P)) = Cardinality(Waits(Q)) + Len(w) /\ Cardinality(Waits(Q)) \in Nat
    <3>1. IsFiniteSet({v} \X (1..Len(w))) /\ Cardinality({v} \X (1..Len(w))) = Len(w)
      BY <2>3, RowOfWaits
    <3>2. IsFiniteSet(Waits(Q)) /\ Cardinality(Waits(Q)) \in Nat
      BY <2>8, WaitsFinite, FS_CardinalityType
    <3> DEFINE row == {v} \X (1..Len(w))
    <3>3. Cardinality(Waits(Q) \cup row)
            = Cardinality(Waits(Q)) + Cardinality(row) - Cardinality(Waits(Q) \cap row)
      BY <3>1, <3>2, FS_Union
    <3>4. Cardinality(Waits(Q) \cap row) = 0
      BY <2>9, FS_EmptySet
    <3>5. QED
      BY <2>3, <2>9, <3>1, <3>2, <3>3, <3>4
  <2>11. /\ q \in JournalRecs /\ q.pending = Q /\ q.errors = j.errors \o scores
         /\ q.evaluated = j.evaluated \cup {v}
         /\ q.seconds = j.seconds /\ q.lastPass = j.lastPass /\ q.firstPass = j.firstPass
    <3>1. j.evaluated \cup {v} \in SUBSET VisitIds /\ j.late \cup late \in SUBSET Trips
      BY <1>1, <1>3, <2>2, <2>4
    <3> HIDE DEF v
    <3>2. QED
      BY <1>1, <2>1, <2>6, <2>8, <3>1 DEF JournalRecs
  <2>12. Accounted(q, n)
    <3> DEFINE e == j.evaluated
    <3>1. Cardinality(e \cup {v}) <= Cardinality(e) + 1
      <4> HIDE DEF v, e
      <4>1. IsFiniteSet(e) /\ Cardinality(e) \in Nat
        BY <1>1 DEF e
      <4>2. Cardinality(e \cup {v}) = IF v \in e THEN Cardinality(e) ELSE Cardinality(e) + 1
        BY <4>1, FS_AddElement
      <4>3. QED
        BY <4>1, <4>2
    <3>2. /\ n = Len(j.errors) + Cardinality(Waits(P)) /\ Cardinality(j.evaluated) <= Len(j.errors)
          /\ j.evaluated \cap DOMAIN P = {}
      BY DEF Accounted
    <3>3. (j.evaluated \cup {v}) \cap DOMAIN Q = {}
      BY <2>7, <3>2
    <3>4. IsFiniteSet(j.evaluated \cup {v}) /\ Cardinality(j.evaluated \cup {v}) \in Nat
      BY <1>1, FS_AddElement, FS_CardinalityType
    <3>5. /\ n = Len(j.errors) + Len(w) + Cardinality(Waits(Q))
          /\ Cardinality(e \cup {v}) <= Len(j.errors) + Len(w)
      BY <1>1, <2>3, <2>10, <3>1, <3>2, <3>4
    <3>6. /\ n = Len(q.errors) + Cardinality(Waits(q.pending))
          /\ Cardinality(q.evaluated) <= Len(q.errors)
          /\ q.evaluated \cap DOMAIN q.pending = {}
      BY <2>6, <2>11, <3>3, <3>5
    <3>7. QED
      BY <3>6 DEF Accounted
  <2>13. QED
    BY <2>11, <2>12 DEF SamePasses
<1>4. QED
  BY <1>2, <1>3

LEMMA OnArrivalsIs ==
  ASSUME NEW j \in JournalRecs, NEW n \in Nat, Accounted(j, n),
         NEW u \in Int, NEW facts \in Seq(FactsFrom(Visits, u)), NEW q, q = OnArrivals(j, facts)
  PROVE  /\ q \in JournalRecs /\ Accounted(q, n) /\ SamePasses(q, j)
         /\ \A v \in q.evaluated : v \in j.evaluated \/ \E i \in DOMAIN facts : v = facts[i].visit
<1> DEFINE m == Len(facts)
           Of(v) == v \in j.evaluated \/ \E i \in DOMAIN facts : v = facts[i].visit
           V == {x \in JournalRecs : Accounted(x, n) /\ SamePasses(x, j) /\ \A v \in x.evaluated : Of(v)}
           step == [z \in (1..m) \X V |-> Scored(z[2], facts[z[1]])]
           after == CHOOSE g : g = [k \in 0..m |-> IF k = 0 THEN j ELSE Scored(g[k - 1], facts[k])]
<1>1. m \in Nat /\ DOMAIN facts = 1..m /\ \A k \in 1..m : facts[k] \in FactsFrom(Visits, u)
  OBVIOUS
<1>2. j \in V
  BY DEF SamePasses
<1>3. ASSUME NEW k \in 1..m, NEW x \in V PROVE Scored(x, facts[k]) \in V
  <2> DEFINE f == facts[k]
             y == Scored(x, f)
  <2>1. f.delay \in Int
    BY <1>1 DEF FactsFrom
  <2>2. x \in JournalRecs /\ Accounted(x, n) /\ SamePasses(x, j) /\ \A v \in x.evaluated : Of(v)
    OBVIOUS
  <2>3. Of(f.visit)
    BY <1>1
  <2> HIDE DEF f, Of
  <2>4. y \in JournalRecs /\ Accounted(y, n) /\ y.evaluated \subseteq x.evaluated \cup {f.visit}
        /\ SamePasses(y, x)
    BY <2>1, <2>2, ScoredIs
  <2>5. SamePasses(y, j)
    BY <2>2, <2>4 DEF SamePasses
  <2>6. \A v \in y.evaluated : Of(v)
    BY <2>2, <2>3, <2>4
  <2>7. y \in V
    BY <2>4, <2>5, <2>6
  <2>8. QED
    BY <2>7 DEF f
<1> HIDE DEF m, V
<1>4. step \in [(1..m) \X V -> V]
  BY <1>3
<1>5. PICK f \in [0..m -> V] : StepsFrom(f, m, j, step)
  <2> HIDE DEF step
  <2>1. QED
    BY <1>1, <1>2, <1>4, Recursion
<1>6. \A k \in 1..m : k - 1 \in 0..m /\ k \in 0..m /\ k # 0 /\ f[k - 1] \in V
        /\ f[k] = Scored(f[k - 1], facts[k])
  <2> TAKE k \in 1..m
  <2>1. k - 1 \in 0..m /\ k \in 0..m /\ k # 0
    BY <1>1
  <2>2. f[k - 1] \in V
    BY <2>1, <1>5
  <2>3. f[k] = step[<<k, f[k - 1]>>]
    BY <1>5 DEF StepsFrom
  <2>4. QED
    BY <2>1, <2>2, <2>3
<1>7. f = [k \in 0..m |-> IF k = 0 THEN j ELSE Scored(f[k - 1], facts[k])]
  <2>1. f[0] = j /\ f \in [0..m -> V]
    BY <1>5 DEF StepsFrom
  <2>2. \A k \in 0..m : k # 0 => k \in 1..m
    BY <1>1
  <2>3. QED
    BY <1>6, <2>1, <2>2
<1>8. after = [k \in 0..m |-> IF k = 0 THEN j ELSE Scored(after[k - 1], facts[k])]
  BY <1>7
<1>9. OnArrivals(j, facts) = after[m]
  BY Zenon DEF OnArrivals, m
<1> HIDE DEF after
<1>10. after[0] = j /\ \A k \in 1..m : after[k] = Scored(after[k - 1], facts[k])
  <2>1. 0 \in 0..m /\ \A k \in 1..m : k \in 0..m /\ k # 0
    BY <1>1
  <2>2. QED
    BY <1>8, <2>1
<1> DEFINE T == {k \in 0..m : after[k] \in V}
<1>11. 0 \in T
  BY <1>1, <1>2, <1>10
<1>12. ASSUME NEW k \in 1..m, k - 1 \in T PROVE k \in T
  <2>1. after[k - 1] \in V /\ k \in 0..m
    BY <1>1, <1>12
  <2>2. Scored(after[k - 1], facts[k]) \in V
    BY <1>3, <2>1
  <2>3. QED
    BY <1>10, <2>1, <2>2
<1>13. \A k \in 0..m : k \in T
  <2> HIDE DEF T
  <2>1. QED
    BY <1>1, <1>11, <1>12, Induction
<1>14. after[m] \in V
  BY <1>1, <1>13
<1>15. QED
  BY <1>9, <1>14 DEF V

(* A pass counts the time since the one before.                            *)
Covered(j) ==
  /\ j.lastPass = -1 => j.firstPass = -1 /\ j.seconds = 0
  /\ j.lastPass # -1 => /\ j.lastPass \in Nat /\ j.firstPass \in Nat
                        /\ j.seconds <= j.lastPass - j.firstPass + 60

OnePassMore(q, j, t) ==
  /\ q \in JournalRecs /\ Covered(q) /\ \A n : Accounted(j, n) => Accounted(q, n)
  /\ q.evaluated = j.evaluated
  /\ q.lastPass = j.lastPass \/ q.lastPass = t

LEMMA OnPassIs ==
  ASSUME NEW j \in JournalRecs, Covered(j), NEW t \in Nat, NEW vehicles \in 0..1,
         NEW q, q = OnPass(j, t, vehicles)
  PROVE  OnePassMore(q, j, t)
<1> DEFINE gap == IF j.lastPass = -1 THEN 60 ELSE Clip(t - j.lastPass, 0, Minutes(MaxPassGap))
           last == Larger(j.lastPass, t)
           first == IF j.firstPass = -1 THEN t ELSE j.firstPass
           secs == j.seconds + gap * vehicles
<1>1. /\ JournalForm(j) /\ j.pending \in PendingSets /\ j.errors \in Seq(ErrorRecs)
      /\ j.evaluated \in SUBSET VisitIds /\ j.late \in SUBSET Trips
      /\ j.seconds \in Int /\ j.lastPass \in Int /\ j.firstPass \in Int
  BY JournalFields
<1>2. q = [pending |-> j.pending, errors |-> j.errors, evaluated |-> j.evaluated, late |-> j.late,
           seconds |-> secs, lastPass |-> last, firstPass |-> first]
  BY <1>1, Zenon DEF OnPass, JournalForm
<1>3. gap \in Nat /\ (j.lastPass = -1 => gap = 60)
      /\ (j.lastPass \in Nat => gap <= Larger(j.lastPass, t) - j.lastPass)
  BY <1>1 DEF Clip, Minutes, MaxPassGap, Larger
<1>4. last \in Nat /\ (last = j.lastPass \/ last = t) /\ last >= t /\ (j.lastPass = -1 => last = t)
  BY <1>1 DEF Larger
<1> HIDE DEF gap
<1>5. gap * vehicles \in Int /\ gap * vehicles <= gap
  <2>1. vehicles = 0 \/ vehicles = 1
    OBVIOUS
  <2>2. CASE vehicles = 0
    BY <1>3, <2>2
  <2>3. CASE vehicles = 1
    BY <1>3, <2>3
  <2>4. QED
    BY <2>1, <2>2, <2>3
<1> DEFINE g == gap * vehicles
<1>6. g \in Int /\ g <= gap
  BY <1>5
<1> HIDE DEF g
<1>7. secs = j.seconds + g
  BY DEF g
<1>8. first \in Int /\ (j.lastPass = -1 => first = t) /\ (j.lastPass # -1 => first = j.firstPass /\ first \in Nat)
  BY <1>1 DEF Covered
<1>9. secs <= last - first + 60
  <2>1. CASE j.lastPass = -1
    <3>1. j.seconds = 0 /\ gap = 60 /\ last = t /\ first = t
      BY <1>3, <1>4, <1>8, <2>1 DEF Covered
    <3>2. QED
      BY <1>6, <1>7, <3>1
  <2>2. CASE j.lastPass # -1
    <3>1. /\ j.lastPass \in Nat /\ j.seconds <= j.lastPass - first + 60
          /\ first \in Nat /\ gap <= last - j.lastPass
      BY <1>3, <1>8, <2>2 DEF Covered
    <3> HIDE DEF last, first, secs
    <3>2. QED
      BY <1>1, <1>3, <1>4, <1>6, <1>7, <3>1
  <2>3. QED
    BY <2>1, <2>2
<1> HIDE DEF last, first, secs
<1>10. secs \in Int
  BY <1>1, <1>6, <1>7
<1>11. /\ q \in JournalRecs /\ q.pending = j.pending /\ q.errors = j.errors
       /\ q.evaluated = j.evaluated /\ q.seconds = secs /\ q.lastPass = last /\ q.firstPass = first
  BY <1>1, <1>2, <1>4, <1>8, <1>10 DEF JournalRecs
<1>12. Covered(q)
  BY <1>4, <1>8, <1>9, <1>11 DEF Covered
<1>13. QED
  BY <1>4, <1>11, <1>12 DEF Accounted, OnePassMore

-----------------------------------------------------------------------------
(* The sums of errors.                                                     *)

SumUpTo(f, s) == f[0] = 0 /\ \A k \in 1..Len(s) : f[k] = f[k - 1] + s[k].error

LEMMA SumIs ==
  ASSUME NEW s \in Seq(ErrorRecs)
  PROVE  \E f \in [0..Len(s) -> Int] :
            SumUpTo(f, s) /\ Mean(s, ErrorOf).sum = f[Len(s)] /\ Mean(s, ErrorOf).n = Len(s)
<1> DEFINE n == Len(s)
           V == Int
           step == [z \in (1..n) \X V |-> z[2] + s[z[1]].error]
           sum == CHOOSE g : g = [i \in 0..n |-> IF i = 0 THEN 0 ELSE g[i - 1] + ErrorOf(s[i])]
<1>1. n \in Nat /\ \A k \in 1..n : s[k].error \in Int
  <2>1. n \in Nat /\ \A k \in 1..n : s[k] \in ErrorRecs
    OBVIOUS
  <2>2. QED
    BY <2>1 DEF ErrorRecs
<1> HIDE DEF n
<1>2. step \in [(1..n) \X V -> V]
  <2>1. \A k \in 1..n : \A x \in Int : x + s[k].error \in Int
    BY <1>1
  <2>2. QED
    BY <2>1
<1>3. PICK f \in [0..n -> V] : StepsFrom(f, n, 0, step)
  <2>0. 0 \in V
    OBVIOUS
  <2> HIDE DEF step, V
  <2>1. QED
    BY <1>1, <1>2, <2>0, Recursion
<1>4. \A k \in 1..n : k - 1 \in 0..n /\ k \in 0..n /\ k # 0 /\ f[k] = f[k - 1] + ErrorOf(s[k])
  <2> TAKE k \in 1..n
  <2>1. k - 1 \in 0..n /\ k \in 0..n /\ k # 0
    BY <1>1
  <2>2. f[k - 1] \in Int
    BY <2>1, <1>3
  <2>3. f[k] = step[<<k, f[k - 1]>>]
    BY <1>3 DEF StepsFrom
  <2>4. QED
    BY <2>1, <2>2, <2>3 DEF ErrorOf
<1>5. f = [i \in 0..n |-> IF i = 0 THEN 0 ELSE f[i - 1] + ErrorOf(s[i])]
  <2>1. f[0] = 0 /\ f \in [0..n -> Int]
    BY <1>3 DEF StepsFrom
  <2>2. \A k \in 0..n : k # 0 => k \in 1..n
    BY <1>1
  <2>3. QED
    BY <1>4, <2>1, <2>2
<1>6. sum = [i \in 0..n |-> IF i = 0 THEN 0 ELSE sum[i - 1] + ErrorOf(s[i])]
  BY <1>5
<1>7. Mean(s, ErrorOf).sum = sum[n] /\ Mean(s, ErrorOf).n = n
  BY Zenon DEF Mean, n
<1> HIDE DEF sum
<1>8. sum[0] = 0 /\ \A k \in 1..n : sum[k] = sum[k - 1] + s[k].error
  <2>1. 0 \in 0..n /\ \A k \in 1..n : k \in 0..n /\ k # 0
    BY <1>1
  <2>2. QED
    BY <1>6, <2>1 DEF ErrorOf
<1> DEFINE T == {k \in 0..n : sum[k] \in Int}
<1>9. 0 \in T
  BY <1>1, <1>8
<1>10. ASSUME NEW k \in 1..n, k - 1 \in T PROVE k \in T
  <2>1. k \in 0..n /\ sum[k - 1] \in Int /\ s[k].error \in Int
    BY <1>1, <1>10
  <2>2. sum[k] \in Int
    BY <1>8, <2>1
  <2>3. QED
    BY <2>1, <2>2
<1>11. \A k \in 0..n : k \in T
  <2> HIDE DEF T
  <2>1. QED
    BY <1>1, <1>9, <1>10, Induction
<1>12. sum \in [0..n -> Int]
  BY <1>6, <1>11
<1>13. SumUpTo(sum, s)
  BY <1>8 DEF SumUpTo, n
<1>14. QED
  BY <1>7, <1>12, <1>13 DEF n

Total(s) == Mean(s, ErrorOf).sum

LEMMA TotalOfMore ==
  ASSUME NEW s \in Seq(ErrorRecs), NEW e \in ErrorRecs
  PROVE  /\ Total(s) \in Int /\ Total(Append(s, e)) = Total(s) + e.error
<1> DEFINE more == Append(s, e)
           n == Len(s)
<1>1. n \in Nat /\ more \in Seq(ErrorRecs) /\ Len(more) = n + 1
      /\ \A k \in 1..n : more[k] = s[k]
  OBVIOUS
<1>2. more[n + 1] = e
  OBVIOUS
<1>3. PICK f \in [0..n -> Int] : SumUpTo(f, s) /\ Total(s) = f[n]
  BY SumIs DEF Total
<1> HIDE DEF more
<1>4. PICK g \in [0..(n + 1) -> Int] : SumUpTo(g, more) /\ Total(more) = g[n + 1]
  <2>1. PICK g \in [0..Len(more) -> Int] : SumUpTo(g, more) /\ Total(more) = g[Len(more)]
    BY <1>1, SumIs DEF Total
  <2>2. QED
    BY <1>1, <2>1
<1> HIDE DEF n
<1> DEFINE T == {k \in 0..n : g[k] = f[k]}
<1>5. 0 \in T
  BY <1>1, <1>3, <1>4 DEF SumUpTo
<1>6. ASSUME NEW k \in 1..n, k - 1 \in T PROVE k \in T
  <2>1. f[k] = f[k - 1] + s[k].error
    BY <1>3 DEF SumUpTo, n
  <2>2. k \in 1..Len(more)
    BY <1>1
  <2>3. g[k] = g[k - 1] + more[k].error
    BY <1>4, <2>2 DEF SumUpTo
  <2>4. QED
    BY <1>1, <1>6, <2>1, <2>3
<1>7. \A k \in 0..n : k \in T
  <2> HIDE DEF T
  <2>1. QED
    BY <1>1, <1>5, <1>6, Induction
<1>8. g[n] = f[n] /\ f[n] \in Int
  BY <1>1, <1>3, <1>7
<1>9. g[n + 1] = g[n] + more[n + 1].error
  <2>1. n + 1 \in 1..Len(more) /\ (n + 1) - 1 = n
    BY <1>1
  <2>2. g[n + 1] = g[(n + 1) - 1] + more[n + 1].error
    BY <1>4, <2>1 DEF SumUpTo
  <2>3. QED
    BY <2>1, <2>2
<1>10. QED
  BY <1>2, <1>3, <1>4, <1>8, <1>9 DEF n, more

Bucket(s, m) == Taken(s, {i \in DOMAIN s : s[i].bucket = m})
BucketUpTo(f, s, m) ==
  /\ f[0] = <<>>
  /\ \A k \in 1..Len(s) : f[k] = IF s[k].bucket = m THEN Append(f[k - 1], s[k]) ELSE f[k - 1]

LEMMA BucketGrows ==
  ASSUME NEW s \in Seq(ErrorRecs), NEW m
  PROVE  \E f \in [0..Len(s) -> Seq(ErrorRecs)] : BucketUpTo(f, s, m) /\ Bucket(s, m) = f[Len(s)]
<1> DEFINE places == {i \in DOMAIN s : s[i].bucket = m}
           U == {s[i] : i \in places \cap DOMAIN s}
<1>1. PICK f \in [0..Len(s) -> Seq(U)] : TakenUpTo(f, s, places) /\ Taken(s, places) = f[Len(s)]
  BY TakenIs
<1>2. U \subseteq ErrorRecs
  OBVIOUS
<1>3. f \in [0..Len(s) -> Seq(ErrorRecs)]
  <2> HIDE DEF U
  <2>1. \A q \in Seq(U) : q \in Seq(ErrorRecs)
    BY <1>2
  <2>2. QED
    BY <1>1, <2>1
<1>4. BucketUpTo(f, s, m)
  <2>1. \A k \in 1..Len(s) : k \in places <=> s[k].bucket = m
    OBVIOUS
  <2> HIDE DEF places
  <2>2. QED
    BY <1>1, <2>1 DEF TakenUpTo, BucketUpTo
<1>5. Bucket(s, m) = f[Len(s)]
  BY <1>1, Zenon DEF Bucket
<1>6. QED
  BY <1>3, <1>4, <1>5

LEMMA EmptyTotal ==
  <<>> \in Seq(ErrorRecs) /\ Total(<<>>) = 0
<1>1. <<>> \in Seq(ErrorRecs) /\ Len(<<>>) = 0
  OBVIOUS
<1>2. PICK f \in [0..Len(<<>>) -> Int] : SumUpTo(f, <<>>) /\ Total(<<>>) = f[Len(<<>>)]
  BY <1>1, SumIs DEF Total
<1>3. QED
  BY <1>1, <1>2 DEF SumUpTo

(* What is in bucket m grows from a to b by d when the bucket is c.        *)
Grows(m, c, d, a, b) == b = IF c = m THEN a + d ELSE a

(* Each error is in one bucket, so the buckets hold them all.              *)
LEMMA BucketsAddUp ==
  ASSUME NEW s \in Seq(ErrorRecs)
  PROVE  /\ Total(s) = Total(Bucket(s, 11)) + Total(Bucket(s, 12)) + Total(Bucket(s, 13))
                       + Total(Bucket(s, 14)) + Total(Bucket(s, 15))
         /\ Len(s) = Len(Bucket(s, 11)) + Len(Bucket(s, 12)) + Len(Bucket(s, 13))
                     + Len(Bucket(s, 14)) + Len(Bucket(s, 15))
<1> DEFINE n == Len(s)
           E == Seq(ErrorRecs)
<1>1. n \in Nat /\ \A k \in 1..n : s[k] \in ErrorRecs
  OBVIOUS
<1>2. PICK g \in [0..n -> Int] : SumUpTo(g, s) /\ Total(s) = g[n]
  BY SumIs DEF Total
<1>3. PICK f1 \in [0..n -> E] : BucketUpTo(f1, s, 11) /\ Bucket(s, 11) = f1[n]
  BY BucketGrows
<1>4. PICK f2 \in [0..n -> E] : BucketUpTo(f2, s, 12) /\ Bucket(s, 12) = f2[n]
  BY BucketGrows
<1>5. PICK f3 \in [0..n -> E] : BucketUpTo(f3, s, 13) /\ Bucket(s, 13) = f3[n]
  BY BucketGrows
<1>6. PICK f4 \in [0..n -> E] : BucketUpTo(f4, s, 14) /\ Bucket(s, 14) = f4[n]
  BY BucketGrows
<1>7. PICK f5 \in [0..n -> E] : BucketUpTo(f5, s, 15) /\ Bucket(s, 15) = f5[n]
  BY BucketGrows
<1> DEFINE Even(k) ==
             /\ Total(f1[k]) + Total(f2[k]) + Total(f3[k]) + Total(f4[k]) + Total(f5[k]) = g[k]
             /\ Len(f1[k]) + Len(f2[k]) + Len(f3[k]) + Len(f4[k]) + Len(f5[k]) = k
           T == {k \in 0..n : Even(k)}
<1>8. \A x \in E : Len(x) \in Nat /\ Total(x) \in Int
  <2>1. \A x \in E : Len(x) \in Nat
    OBVIOUS
  <2>2. ASSUME NEW x \in E PROVE Total(x) \in Int
    <3>1. PICK f \in [0..Len(x) -> Int] : Total(x) = f[Len(x)]
      BY SumIs DEF Total
    <3>2. Len(x) \in 0..Len(x)
      BY <2>1
    <3>3. QED
      BY <3>1, <3>2
  <2>3. QED
    BY <2>1, <2>2
<1>9. \A x \in E : \A e \in ErrorRecs :
        Len(Append(x, e)) = Len(x) + 1 /\ Total(Append(x, e)) = Total(x) + e.error
  BY TotalOfMore
<1>10. 0 \in T
  <2>1. /\ f1[0] = <<>> /\ f2[0] = <<>> /\ f3[0] = <<>> /\ f4[0] = <<>> /\ f5[0] = <<>>
        /\ g[0] = 0
    BY <1>2, <1>3, <1>4, <1>5, <1>6, <1>7 DEF BucketUpTo, SumUpTo
  <2>2. Even(0)
    BY <2>1, EmptyTotal
  <2>3. QED
    BY <1>1, <2>2
<1>11. ASSUME NEW k \in 1..n, k - 1 \in T PROVE k \in T
  <2> DEFINE e == s[k]
  <2>1. e \in ErrorRecs /\ e.error \in Int /\ e.bucket \in 11..15
    <3>1. s[k] \in ErrorRecs
      BY <1>1
    <3>2. QED
      BY <3>1 DEF ErrorRecs
  <2>2. k \in Int /\ k - 1 \in 0..n /\ Even(k - 1)
    BY <1>1, <1>11
  <2> HIDE DEF e, T
  <2>3. /\ f1[k] = IF e.bucket = 11 THEN Append(f1[k - 1], e) ELSE f1[k - 1]
        /\ f2[k] = IF e.bucket = 12 THEN Append(f2[k - 1], e) ELSE f2[k - 1]
        /\ f3[k] = IF e.bucket = 13 THEN Append(f3[k - 1], e) ELSE f3[k - 1]
        /\ f4[k] = IF e.bucket = 14 THEN Append(f4[k - 1], e) ELSE f4[k - 1]
        /\ f5[k] = IF e.bucket = 15 THEN Append(f5[k - 1], e) ELSE f5[k - 1]
        /\ g[k] = g[k - 1] + e.error
    BY <1>2, <1>3, <1>4, <1>5, <1>6, <1>7 DEF BucketUpTo, SumUpTo, e
  <2>4. /\ f1[k - 1] \in E /\ f2[k - 1] \in E /\ f3[k - 1] \in E /\ f4[k - 1] \in E
        /\ f5[k - 1] \in E /\ g[k - 1] \in Int
    BY <1>2, <1>3, <1>4, <1>5, <1>6, <1>7, <2>2
  <2> HIDE DEF E
  <2>5. /\ Total(f1[k - 1]) \in Int /\ Total(f2[k - 1]) \in Int /\ Total(f3[k - 1]) \in Int
        /\ Total(f4[k - 1]) \in Int /\ Total(f5[k - 1]) \in Int
        /\ Len(f1[k - 1]) \in Int /\ Len(f2[k - 1]) \in Int /\ Len(f3[k - 1]) \in Int
        /\ Len(f4[k - 1]) \in Int /\ Len(f5[k - 1]) \in Int
    BY <1>8, <2>4
  <2>6. /\ Grows(11, e.bucket, e.error, Total(f1[k - 1]), Total(f1[k]))
        /\ Grows(12, e.bucket, e.error, Total(f2[k - 1]), Total(f2[k]))
        /\ Grows(13, e.bucket, e.error, Total(f3[k - 1]), Total(f3[k]))
        /\ Grows(14, e.bucket, e.error, Total(f4[k - 1]), Total(f4[k]))
        /\ Grows(15, e.bucket, e.error, Total(f5[k - 1]), Total(f5[k]))
        /\ Grows(11, e.bucket, 1, Len(f1[k - 1]), Len(f1[k]))
        /\ Grows(12, e.bucket, 1, Len(f2[k - 1]), Len(f2[k]))
        /\ Grows(13, e.bucket, 1, Len(f3[k - 1]), Len(f3[k]))
        /\ Grows(14, e.bucket, 1, Len(f4[k - 1]), Len(f4[k]))
        /\ Grows(15, e.bucket, 1, Len(f5[k - 1]), Len(f5[k]))
    BY <1>9, <2>1, <2>3, <2>4 DEF Grows
  <2>7. /\ Total(f1[k]) + Total(f2[k]) + Total(f3[k]) + Total(f4[k]) + Total(f5[k])
             = Total(f1[k - 1]) + Total(f2[k - 1]) + Total(f3[k - 1]) + Total(f4[k - 1])
               + Total(f5[k - 1]) + e.error
        /\ Len(f1[k]) + Len(f2[k]) + Len(f3[k]) + Len(f4[k]) + Len(f5[k])
             = Len(f1[k - 1]) + Len(f2[k - 1]) + Len(f3[k - 1]) + Len(f4[k - 1])
               + Len(f5[k - 1]) + 1
    <3>1. Total(f1[k]) + Total(f2[k]) + Total(f3[k]) + Total(f4[k]) + Total(f5[k])
            = Total(f1[k - 1]) + Total(f2[k - 1]) + Total(f3[k - 1]) + Total(f4[k - 1])
              + Total(f5[k - 1]) + e.error
      <4>1. PICK a1, b1, a2, b2, a3, b3, a4, b4, a5, b5 :
            /\ a1 = Total(f1[k - 1]) /\ b1 = Total(f1[k])
            /\ a2 = Total(f2[k - 1]) /\ b2 = Total(f2[k])
            /\ a3 = Total(f3[k - 1]) /\ b3 = Total(f3[k])
            /\ a4 = Total(f4[k - 1]) /\ b4 = Total(f4[k])
            /\ a5 = Total(f5[k - 1]) /\ b5 = Total(f5[k])
        OBVIOUS
      <4>2. a1 \in Int /\ a2 \in Int /\ a3 \in Int /\ a4 \in Int /\ a5 \in Int
        BY <2>5, <4>1
      <4>3. /\ Grows(11, e.bucket, e.error, a1, b1) /\ Grows(12, e.bucket, e.error, a2, b2)
          /\ Grows(13, e.bucket, e.error, a3, b3) /\ Grows(14, e.bucket, e.error, a4, b4)
          /\ Grows(15, e.bucket, e.error, a5, b5)
        BY <2>6, <4>1
      <4>4. b1 + b2 + b3 + b4 + b5 = a1 + a2 + a3 + a4 + a5 + e.error
        <5>1. PICK c, d : c = e.bucket /\ d = e.error
          OBVIOUS
        <5>2. d \in Int /\ (c = 11 \/ c = 12 \/ c = 13 \/ c = 14 \/ c = 15)
          BY <2>1, <5>1
        <5>3. /\ Grows(11, c, d, a1, b1) /\ Grows(12, c, d, a2, b2)
              /\ Grows(13, c, d, a3, b3) /\ Grows(14, c, d, a4, b4)
              /\ Grows(15, c, d, a5, b5)
          BY <4>3, <5>1
        <5>4. b1 + b2 + b3 + b4 + b5 = a1 + a2 + a3 + a4 + a5 + d
          BY <4>2, <5>2, <5>3 DEF Grows
        <5>5. QED
          BY <5>1, <5>4
      <4>5. QED
        BY <4>1, <4>4
    <3>2. Len(f1[k]) + Len(f2[k]) + Len(f3[k]) + Len(f4[k]) + Len(f5[k])
            = Len(f1[k - 1]) + Len(f2[k - 1]) + Len(f3[k - 1]) + Len(f4[k - 1])
              + Len(f5[k - 1]) + 1
      <4>1. PICK a1, b1, a2, b2, a3, b3, a4, b4, a5, b5 :
            /\ a1 = Len(f1[k - 1]) /\ b1 = Len(f1[k])
            /\ a2 = Len(f2[k - 1]) /\ b2 = Len(f2[k])
            /\ a3 = Len(f3[k - 1]) /\ b3 = Len(f3[k])
            /\ a4 = Len(f4[k - 1]) /\ b4 = Len(f4[k])
            /\ a5 = Len(f5[k - 1]) /\ b5 = Len(f5[k])
        OBVIOUS
      <4>2. a1 \in Int /\ a2 \in Int /\ a3 \in Int /\ a4 \in Int /\ a5 \in Int
        BY <2>5, <4>1
      <4>3. /\ Grows(11, e.bucket, 1, a1, b1) /\ Grows(12, e.bucket, 1, a2, b2)
          /\ Grows(13, e.bucket, 1, a3, b3) /\ Grows(14, e.bucket, 1, a4, b4)
          /\ Grows(15, e.bucket, 1, a5, b5)
        BY <2>6, <4>1
      <4>4. b1 + b2 + b3 + b4 + b5 = a1 + a2 + a3 + a4 + a5 + 1
        <5>1. 1 \in Int
          BY <2>1
        <5>2. PICK c : c = e.bucket
          OBVIOUS
        <5>3. c = 11 \/ c = 12 \/ c = 13 \/ c = 14 \/ c = 15
          BY <2>1, <5>2
        <5>4. QED
          BY <4>2, <4>3, <5>1, <5>2, <5>3 DEF Grows
      <4>5. QED
        BY <4>1, <4>4
    <3>3. QED
      BY <3>1, <3>2
  <2>8. Even(k)
    <3>1. Total(f1[k]) + Total(f2[k]) + Total(f3[k]) + Total(f4[k]) + Total(f5[k])
            = g[k - 1] + e.error
      BY <2>2, <2>7
    <3>2. Len(f1[k]) + Len(f2[k]) + Len(f3[k]) + Len(f4[k]) + Len(f5[k]) = (k - 1) + 1
      BY <2>2, <2>7
    <3>3. g[k] = g[k - 1] + e.error /\ (k - 1) + 1 = k
      BY <2>2, <2>3
    <3>4. QED
      BY <2>2, <3>1, <3>2, <3>3
  <2>9. QED
    BY <2>8 DEF T
<1>12. \A k \in 0..n : k \in T
  <2> HIDE DEF T
  <2>1. QED
    BY <1>1, <1>10, <1>11, Induction
<1>13. Even(n)
  BY <1>1, <1>12
<1>14. QED
  BY <1>2, <1>3, <1>4, <1>5, <1>6, <1>7, <1>13

-----------------------------------------------------------------------------
(* The invariant of the journal.                                           *)

(* A visit that was scored was planned up to the last pass.                *)
DueBy(ids, u) == \A v \in ids : \E k \in DOMAIN Plan : Plan[k].id = v /\ Plan[k].tb <= u

JournalInv ==
  /\ journal \in JournalRecs /\ shown \in Nat /\ Accounted(journal, shown) /\ Covered(journal)
  /\ journal.lastPass <= now
  /\ journal.evaluated # {} => lastT.session = session
  /\ DueBy(journal.evaluated, lastT.t)
  /\ \A v \in journal.evaluated : v \in DOMAIN rec.arrivals \/ rec.since > 0
  /\ rec.points # <<>> => heard # <<>>

LEMMA LiveIs ==
  ASSUME NEW preds, NEW t \in Int, PredsIs(preds, t), NEW stale,
         NEW live, live = LiveForecasts(preds, stale)
  PROVE  live = {} \/ \E f \in ForecastRecs :
           live = {f} /\ \E k \in DOMAIN Plan : f.visit = Plan[k].id /\ t < Plan[k].tb
<1> DEFINE Fore(k) == [visit |-> Plan[k].id, delay |-> preds[k].delay, lead |-> preds[k].lead]
           K == {j \in FirstOf(DOMAIN preds) : preds[j].horizon /\ ~stale}
<1>1. live = {Fore(k) : k \in K}
  BY Zenon DEF LiveForecasts
<1>2. CASE K = {}
  BY <1>1, <1>2
<1>3. ASSUME NEW k \in K
      PROVE  \E f \in ForecastRecs :
               live = {f} /\ \E i \in DOMAIN Plan : f.visit = Plan[i].id /\ t < Plan[i].tb
  <2>1. k \in FirstOf(DOMAIN preds) /\ K \subseteq FirstOf(DOMAIN preds)
    OBVIOUS
  <2>2. DOMAIN preds \in SUBSET Nat
    BY PlanIs DEF PredsIs
  <2>3. FirstOf(DOMAIN preds) = {k} /\ k \in DOMAIN preds
    BY <2>1, <2>2, FirstIsOne
  <2>4. K = {k}
    BY <2>1, <2>3, <1>3
  <2> HIDE DEF K
  <2>5. live = {Fore(k)}
    <3> HIDE DEF Fore
    <3>1. QED
      BY <1>1, <2>4
  <2>6. /\ k \in DOMAIN Plan /\ preds[k].delay \in Int /\ preds[k].lead \in Int
        /\ t + Minutes(10) < Plan[k].tb
    BY <2>3 DEF PredsIs
  <2>7. Plan[k].tb \in Int /\ Plan[k].id \in VisitIds
    BY <2>6, PlanIs DEF VisitIds, Visits
  <2>8. t < Plan[k].tb
    BY <2>6, <2>7 DEF Minutes
  <2>9. Fore(k) \in ForecastRecs /\ Fore(k).visit = Plan[k].id
    BY <2>6, <2>7 DEF ForecastRecs
  <2> HIDE DEF Fore
  <2>10. QED
    BY <2>5, <2>6, <2>8, <2>9
<1>4. QED
  BY <1>2, <1>3

(* The journal q accounts for a total of forecasts, and has scored what     *)
(* j has, or a visit of one of the arrivals.                               *)
Updates(q, j, total, facts) ==
  /\ q \in JournalRecs /\ Accounted(q, total) /\ SamePasses(q, j)
  /\ \A v \in q.evaluated : v \in j.evaluated \/ \E i \in DOMAIN facts : v = facts[i].visit

LEMMA UpdatedJournalIs ==
  ASSUME NEW j \in JournalRecs, NEW n \in Nat, Accounted(j, n),
         NEW live, live = {} \/ \E f \in ForecastRecs : live = {f} /\ f.visit \notin j.evaluated,
         NEW u \in Int, NEW facts \in Seq(FactsFrom(Visits, u)),
         NEW q, q = UpdatedJournal(j, live, facts)
  PROVE  Cardinality(live) \in Nat /\ Updates(q, j, n + Cardinality(live), facts)
<1> DEFINE r == IF live = {} THEN j ELSE Recorded(j, CHOOSE f \in live : TRUE)
<1>1. q = OnArrivals(r, facts)
  BY Zenon DEF UpdatedJournal
<1>2. /\ r \in JournalRecs /\ Cardinality(live) \in Nat /\ Accounted(r, n + Cardinality(live))
      /\ SamePasses(r, j) /\ r.evaluated = j.evaluated
  <2>1. CASE live = {}
    <3>1. r = j /\ Cardinality(live) = 0
      BY <2>1, FS_EmptySet
    <3>2. QED
      BY <3>1 DEF SamePasses
  <2>2. ASSUME NEW f \in ForecastRecs, live = {f}, f.visit \notin j.evaluated
        PROVE  /\ r \in JournalRecs /\ Cardinality(live) = 1 /\ Accounted(r, n + 1)
               /\ SamePasses(r, j) /\ r.evaluated = j.evaluated
    <3>1. Cardinality(live) = 1
      BY <2>2, FS_Singleton
    <3>2. (CHOOSE x \in live : TRUE) = f
      BY <2>2
    <3>3. r = Recorded(j, f)
      BY <2>2, <3>2
    <3>4. QED
      BY <2>2, <3>1, <3>3, RecordedIs
  <2> HIDE DEF r
  <2>3. QED
    BY <2>1, <2>2
<1> HIDE DEF r
<1>3. n + Cardinality(live) \in Nat
  BY <1>2
<1>4. /\ q \in JournalRecs /\ Accounted(q, n + Cardinality(live)) /\ SamePasses(q, r)
      /\ \A v \in q.evaluated : v \in r.evaluated \/ \E i \in DOMAIN facts : v = facts[i].visit
  BY <1>1, <1>2, <1>3, OnArrivalsIs
<1>5. QED
  BY <1>2, <1>4 DEF SamePasses, Updates

LEMMA NewJournalIs ==
  /\ NewJournal \in JournalRecs /\ Accounted(NewJournal, 0) /\ Covered(NewJournal)
  /\ NewJournal.evaluated = {} /\ NewJournal.lastPass = -1
<1>1. /\ NewJournal.pending = <<>> /\ NewJournal.errors = <<>> /\ NewJournal.evaluated = {}
      /\ NewJournal.seconds = 0 /\ NewJournal.lastPass = -1 /\ NewJournal.firstPass = -1
  BY DEF NewJournal
<1>2. DOMAIN <<>> = {} /\ <<>> = [v \in DOMAIN <<>> |-> <<>>[v]]
  OBVIOUS
<1>3. <<>> \in PendingSets
  BY <1>2, PendingIs
<1>4. NewJournal \in JournalRecs
  BY <1>3 DEF NewJournal, JournalRecs
<1>5. Waits(<<>>) = {}
  <2>1. \A z : z \notin Waits(<<>>)
    BY <1>2, WaitsAre
  <2>2. QED
    BY <2>1
<1>6. Cardinality(Waits(<<>>)) = 0 /\ Cardinality(NewJournal.evaluated) = 0 /\ Len(<<>>) = 0
  BY <1>1, <1>5, FS_EmptySet
<1>7. Accounted(NewJournal, 0)
  BY <1>1, <1>6 DEF Accounted
<1>8. Covered(NewJournal)
  BY <1>1 DEF Covered
<1>9. QED
  BY <1>1, <1>4, <1>7, <1>8

LEMMA JournalInit ==
  Init => JournalInv
<1> SUFFICES ASSUME Init PROVE JournalInv
  OBVIOUS
<1>1. /\ rec = NoRecord /\ journal = NewJournal /\ shown = 0
  BY DEF Init
<1>2. now \in Nat
  BY RecordInit, NowType DEF RecordInv, ForecastTypes
<1>3. QED
  BY <1>1, <1>2, NoRecordForm, NewJournalIs DEF JournalInv, DueBy

(* A new session begins a new journal.                                     *)
LEMMA JournalNewSession ==
  ASSUME RecordInv, NewSession
  PROVE  JournalInv'
<1>1. rec' = NoRecord /\ journal' = NewJournal /\ shown' = 0
  BY DEF NewSession
<1>2. now' \in Nat
  <2>1. clock' \in DOMAIN Instants /\ now' = Instants[clock']
    BY RecordNewSession DEF RecordInv, ForecastTypes, now
  <2>2. QED
    BY <2>1, ForecastAssumption
<1>3. QED
  BY <1>1, <1>2, NoRecordForm, NewJournalIs DEF JournalInv, DueBy

(* A step that leaves the journal alone, and the arrivals of the record    *)
(* unless the record is new.                                               *)
LEMMA JournalKept ==
  ASSUME RecordInv, JournalInv, UNCHANGED <<session, journal, shown>>,
         now \in Nat, now' \in Nat, now <= now',
         lastT.session = session => lastT'.session = session /\ lastT.t <= lastT'.t,
         lastT.t \in Int, lastT'.t \in Int,
         (rec'.arrivals = rec.arrivals /\ rec'.since = rec.since) \/ rec'.since > 0,
         rec'.points # <<>> => heard' # <<>>
  PROVE  JournalInv'
<1>1. journal.lastPass \in Int
  BY JournalFields DEF JournalInv
<1>2. journal'.lastPass <= now'
  BY <1>1 DEF JournalInv
<1>3. journal'.evaluated # {} => lastT'.session = session' /\ lastT.t <= lastT'.t
  BY DEF JournalInv
<1>4. DueBy(journal'.evaluated, lastT'.t)
  <2> SUFFICES ASSUME NEW v \in journal.evaluated
               PROVE  \E k \in DOMAIN Plan : Plan[k].id = v /\ Plan[k].tb <= lastT'.t
    BY DEF DueBy
  <2>1. PICK k \in DOMAIN Plan : Plan[k].id = v /\ Plan[k].tb <= lastT.t
    BY DEF JournalInv, DueBy
  <2>2. Plan[k].tb \in Int
    BY PlanIs
  <2>3. QED
    BY <1>3, <2>1, <2>2
<1>5. \A v \in journal'.evaluated : v \in DOMAIN rec'.arrivals \/ rec'.since > 0
  BY DEF JournalInv
<1>6. QED
  BY <1>2, <1>3, <1>4, <1>5 DEF JournalInv

(* A pass of this session is applied: what it showed is recorded, and the  *)
(* arrivals it found are scored, both later than all that was scored.      *)
LEMMA JournalApplied ==
  ASSUME RecordInv, JournalInv, pass # <<>>, UNCHANGED <<clock, session, heard>>,
         pass[1].session = session, lastT' = [lastT EXCEPT !.t = pass[1].t],
         NEW ml, Answer(ml), NEW explained, Apply(pass[1], ml, explained)
  PROVE  JournalInv'
<1> PICK p : p = pass[1]
  OBVIOUS
<1>1. Apply(p, ml, explained) /\ p.t \in Nat /\ p.t \in Int /\ p.points \in Seq(PointRecs)
      /\ lastT \in [session : Nat, t : Int] /\ RecForm(rec)
  BY DEF RecordInv, ForecastTypes
<1>2. lastT.session = session /\ lastT.t < p.t /\ p.t <= now /\ now' = now /\ now \in Nat
  BY NowType DEF RecordInv, InTime, ForecastTypes, now
<1>3. lastT'.session = session /\ lastT'.t = p.t /\ session' = session
  BY <1>1, <1>2
<1>4. journal \in JournalRecs /\ shown \in Nat /\ Accounted(journal, shown) /\ Covered(journal)
      /\ journal.lastPass <= now /\ DueBy(journal.evaluated, lastT.t)
      /\ (\A v \in journal.evaluated : v \in DOMAIN rec.arrivals \/ rec.since > 0)
      /\ (rec.points # <<>> => heard # <<>>)
  BY DEF JournalInv
<1>5. DueBy(journal.evaluated, p.t)
  <2> SUFFICES ASSUME NEW v \in journal.evaluated
               PROVE  \E k \in DOMAIN Plan : Plan[k].id = v /\ Plan[k].tb <= p.t
    BY DEF DueBy
  <2>1. PICK k \in DOMAIN Plan : Plan[k].id = v /\ Plan[k].tb <= lastT.t
    BY <1>4 DEF DueBy
  <2>2. Plan[k].tb \in Int
    BY PlanIs
  <2>3. QED
    BY <1>1, <1>2, <2>1, <2>2
<1>6. ASSUME NEW j \in JournalRecs, NEW vehicles \in 0..1, Accounted(j, shown'), shown' \in Nat,
             SamePasses(j, journal), journal' = OnPass(j, p.t, vehicles),
             DueBy(j.evaluated, p.t),
             \A v \in j.evaluated : v \in DOMAIN rec'.arrivals \/ rec'.since > 0,
             rec'.points = rec.points
      PROVE  JournalInv'
  <2>1. Covered(j)
    BY <1>4, <1>6 DEF Covered, SamePasses
  <2>2. /\ journal' \in JournalRecs /\ Covered(journal') /\ Accounted(journal', shown')
        /\ journal'.evaluated = j.evaluated
        /\ (journal'.lastPass = j.lastPass \/ journal'.lastPass = p.t)
    <3>1. OnePassMore(journal', j, p.t)
      BY <1>1, <1>6, <2>1, OnPassIs, Zenon
    <3>2. QED
      BY <1>6, <3>1 DEF OnePassMore
  <2>3. journal'.lastPass <= now'
    BY <1>2, <1>4, <1>6, <2>2 DEF SamePasses
  <2>4. QED
    BY <1>2, <1>3, <1>4, <1>6, <2>2, <2>3 DEF JournalInv
<1>7. CASE p.points = <<>>
  <2>1. journal' = OnPass(journal, p.t, 0) /\ UNCHANGED <<rec, shown>>
    BY <1>1, <1>7, Zenon DEF Apply
  <2>2. 0 \in 0..1 /\ SamePasses(journal, journal)
    BY DEF SamePasses
  <2>3. QED
    BY <1>4, <1>5, <1>6, <2>1, <2>2
<1>8. CASE p.points # <<>>
  <2>1. PICK task, facts, extras, preds :
          /\ task = Prepared(p.points, p.t, p.ready) /\ facts = Arrivals(p.points, p.t)
          /\ preds = Assemble(task, extras, p, ml, explained)
          /\ rec' = IF OnMap THEN UpdatedRecord(rec, task, extras, facts, preds) ELSE rec
          /\ journal' = OnPass(UpdatedJournal(journal, IF OnMap THEN LiveForecasts(preds, p.stale) ELSE {},
                                              IF OnMap THEN facts ELSE <<>>), p.t,
                               IF p.ready /\ ~p.stale THEN 1 ELSE 0)
          /\ shown' = shown + Cardinality(IF OnMap THEN LiveForecasts(preds, p.stale) ELSE {})
    BY <1>1, <1>8 DEF Apply
  <2> DEFINE live == IF OnMap THEN LiveForecasts(preds, p.stale) ELSE {}
             found == IF OnMap THEN facts ELSE <<>>
             vehicles == IF p.ready /\ ~p.stale THEN 1 ELSE 0
             j == UpdatedJournal(journal, live, found)
  <2>2. journal' = OnPass(j, p.t, vehicles) /\ shown' = shown + Cardinality(live) /\ vehicles \in 0..1
    BY <2>1
  <2>3. found \in Seq(FactsFrom(Visits, p.t)) /\ facts \in Seq(FactsFrom(Visits, p.t))
    <3>1. facts \in Seq(FactsFrom(Visits, p.t))
      BY <1>1, <2>1, ArrivalsType
    <3>2. <<>> \in Seq(FactsFrom(Visits, p.t))
      OBVIOUS
    <3>3. QED
      BY <3>1, <3>2, Zenon
  <2>4. PredsIs(preds, p.t)
    BY <1>1, <2>1, AssembledIs, Zenon
  <2>5. live = {} \/ \E f \in ForecastRecs : live = {f} /\ f.visit \notin journal.evaluated
    <3> DEFINE all == LiveForecasts(preds, p.stale)
    <3>1. all = {} \/ \E f \in ForecastRecs :
            all = {f} /\ \E k \in DOMAIN Plan : f.visit = Plan[k].id /\ p.t < Plan[k].tb
      BY <1>1, <2>4, LiveIs
    <3>2. ASSUME NEW k \in DOMAIN Plan, p.t < Plan[k].tb PROVE Plan[k].id \notin journal.evaluated
      <4> SUFFICES ASSUME Plan[k].id \in journal.evaluated PROVE FALSE
        OBVIOUS
      <4>1. PICK i \in DOMAIN Plan : Plan[i].id = Plan[k].id /\ Plan[i].tb <= p.t
        BY <1>5 DEF DueBy
      <4>2. i = k /\ Plan[k].tb \in Int
        BY <4>1, PlanIs
      <4>3. QED
        BY <1>1, <3>2, <4>1, <4>2
    <3>3. live = {} \/ live = all
      BY Zenon
    <3> HIDE DEF live, all
    <3>4. QED
      BY <3>1, <3>2, <3>3
  <2> HIDE DEF live, found, vehicles
  <2>6. /\ j \in JournalRecs /\ Cardinality(live) \in Nat /\ Accounted(j, shown + Cardinality(live))
        /\ SamePasses(j, journal)
        /\ \A v \in j.evaluated : v \in journal.evaluated \/ \E i \in DOMAIN found : v = found[i].visit
    <3>1. Cardinality(live) \in Nat /\ Updates(j, journal, shown + Cardinality(live), found)
      BY <1>1, <1>4, <2>3, <2>5, UpdatedJournalIs, Zenon
    <3>2. QED
      BY <3>1 DEF Updates
  <2> HIDE DEF j
  <2>7. DueBy(j.evaluated, p.t)
    <3> SUFFICES ASSUME NEW v \in j.evaluated
                 PROVE  \E k \in DOMAIN Plan : Plan[k].id = v /\ Plan[k].tb <= p.t
      BY DEF DueBy
    <3>1. CASE v \in journal.evaluated
      BY <1>5, <3>1 DEF DueBy
    <3>2. ASSUME NEW i \in DOMAIN found, v = found[i].visit
          PROVE  \E k \in DOMAIN Plan : Plan[k].id = v /\ Plan[k].tb <= p.t
      <4>1. found[i] \in FactsFrom(Visits, p.t)
        BY <2>3
      <4>2. PICK y \in Visits : y.id = v /\ y.tb <= p.t
        BY <3>2, <4>1 DEF FactsFrom
      <4>3. PICK k \in DOMAIN Plan : y = Plan[k]
        BY Zenon DEF Visits
      <4>4. QED
        BY <4>2, <4>3
    <3>3. QED
      BY <2>6, <3>1, <3>2
  <2>8. /\ rec'.points = rec.points /\ rec'.since = rec.since
        /\ DOMAIN rec.arrivals \subseteq DOMAIN rec'.arrivals
        /\ \A i \in DOMAIN found : found[i].visit \in DOMAIN rec'.arrivals
    <3>1. CASE OnMap
      <4>1. rec' = UpdatedRecord(rec, task, extras, facts, preds) /\ found = facts
        BY <2>1, <3>1 DEF found
      <4>2. rec'.points = rec.points /\ rec'.since = rec.since
            /\ rec'.arrivals = WithFacts(rec.arrivals, facts)
        BY <1>1, <4>1, UpdatedIs
      <4>3. ArrivalsUpTo(rec.arrivals, p.t)
        <5>1. FactsFrom(Visits, lastT.t) \subseteq FactsFrom(Visits, p.t)
          BY <1>1, <1>2, FactsGrow
        <5>2. QED
          BY <5>1 DEF RecordInv, RecordIs, ArrivalsUpTo
      <4>4. /\ DOMAIN rec.arrivals \subseteq DOMAIN rec'.arrivals
            /\ \A i \in DOMAIN facts : facts[i].visit \in DOMAIN rec'.arrivals
        BY <1>1, <2>3, <4>2, <4>3, WithFactsIs
      <4>5. QED
        BY <4>1, <4>2, <4>4
    <3>2. CASE ~OnMap
      <4>1. rec' = rec /\ found = <<>>
        BY <2>1, <3>2 DEF found
      <4>2. QED
        BY <4>1
    <3>3. QED
      BY <3>1, <3>2
  <2>9. \A v \in j.evaluated : v \in DOMAIN rec'.arrivals \/ rec'.since > 0
    BY <1>4, <2>6, <2>8
  <2>10. shown' \in Nat /\ Accounted(j, shown')
    BY <1>4, <2>2, <2>6
  <2>11. QED
    BY <1>6, <2>2, <2>6, <2>7, <2>8, <2>9, <2>10
<1>9. QED
  BY <1>7, <1>8

LEMMA JournalPoint ==
  ASSUME RecordInv, JournalInv, NEW i \in DOMAIN Instants, NEW sight \in Sights, Point(i, sight)
  PROVE  JournalInv'
<1>1. PICK p : /\ p = [et |-> Instants[i], x |-> sight.x, speed |-> sight.speed, valid |-> sight.valid]
               /\ heard' = Append(heard, p) /\ rec' = Added(rec, p)
  BY Zenon DEF Point
<1>2. UNCHANGED <<clock, session, pass, lastT, journal, shown>>
  BY DEF Point
<1>3. p \in PointRecs
  BY <1>1, ForecastAssumption DEF PointRecs
<1>4. RecForm(rec) /\ rec.points \in Seq(PointRecs) /\ heard \in Seq(PointRecs) /\ lastT.t \in Int
  BY DEF RecordInv, ForecastTypes
<1>5. rec'.since = rec.since /\ rec'.arrivals = rec.arrivals
  BY <1>1, <1>3, <1>4, AddedIs
<1>6. heard' # <<>>
  BY <1>1, <1>3, <1>4
<1>7. now' = now /\ now \in Nat /\ now <= now'
  BY <1>2, NowType DEF now, RecordInv, ForecastTypes
<1>8. QED
  BY <1>2, <1>4, <1>5, <1>6, <1>7, JournalKept

LEMMA JournalTick ==
  ASSUME RecordInv, JournalInv, ClockTicks
  PROVE  JournalInv'
<1>1. clock < Reach[session + 1].instants /\ clock' = clock + 1
      /\ UNCHANGED <<session, rec, heard, pass, lastT, journal, shown>>
  BY DEF ClockTicks
<1>2. Reach[session + 1].instants \in DOMAIN Instants /\ clock \in DOMAIN Instants /\ lastT.t \in Int
  BY ForecastAssumption DEF RecordInv, ForecastTypes
<1>3. clock \in 1..(Len(Instants) - 1) /\ clock' \in DOMAIN Instants
  BY <1>1, <1>2, ForecastAssumption
<1>4. now < now' /\ now \in Nat /\ now' \in Nat
  <2>1. now = Instants[clock] /\ now' = Instants[clock + 1]
    BY <1>1 DEF now
  <2>2. Instants[clock] < Instants[clock + 1]
    BY <1>3, ForecastAssumption
  <2>3. Instants[clock] \in Nat /\ Instants[clock'] \in Nat
    BY <1>2, <1>3, ForecastAssumption
  <2>4. QED
    BY <1>1, <2>1, <2>2, <2>3
<1>5. now <= now' /\ lastT.t <= lastT'.t /\ lastT'.session = lastT.session
      /\ rec'.arrivals = rec.arrivals /\ rec'.since = rec.since
  BY <1>1, <1>2, <1>4
<1>6. rec'.points # <<>> => heard' # <<>>
  BY <1>1 DEF JournalInv
<1>7. UNCHANGED <<session, journal, shown>> /\ lastT'.t \in Int
  BY <1>1, <1>2
<1>8. QED
  BY <1>1, <1>2, <1>4, <1>5, <1>6, <1>7, JournalKept

(* The new record of a vehicle that left the map knows of earlier points.  *)
LEMMA JournalSweep ==
  ASSUME RecordInv, JournalInv, Sweep
  PROVE  JournalInv'
<1>1. /\ rec' = [NoRecord EXCEPT !.since = Len(heard)] /\ rec.points # <<>>
      /\ UNCHANGED <<clock, session, heard, pass, lastT, journal, shown>>
  BY DEF Sweep, OnMap
<1>2. heard # <<>> /\ heard \in Seq(PointRecs) /\ lastT.t \in Int
  BY <1>1 DEF RecordInv, ForecastTypes, JournalInv
<1>3. rec'.since > 0
  <2>1. rec'.since = Len(heard)
    BY <1>1, SweptForm
  <2>2. QED
    BY <1>2, <2>1
<1>4. now' = now /\ now \in Nat /\ now <= now'
  BY <1>1, NowType DEF now, RecordInv, ForecastTypes
<1>5. QED
  BY <1>1, <1>2, <1>3, <1>4, JournalKept

LEMMA JournalPassBegins ==
  ASSUME RecordInv, JournalInv, PassBegins
  PROVE  JournalInv'
<1>1. /\ lastT' = [session |-> session, t |-> IF lastT.session = session THEN lastT.t ELSE -1]
      /\ UNCHANGED <<clock, session, rec, heard, journal, shown>>
  BY DEF PassBegins
<1>2. lastT.t \in Int /\ lastT'.t \in Int
      /\ (lastT.session = session => lastT'.session = session /\ lastT.t <= lastT'.t)
  <2>1. lastT.t \in Int
    BY DEF RecordInv, ForecastTypes
  <2>2. QED
    BY <1>1, <2>1
<1>3. now' = now /\ now \in Nat /\ now <= now'
  BY <1>1, NowType DEF now, RecordInv, ForecastTypes
<1>4. rec'.points # <<>> => heard' # <<>>
  BY <1>1 DEF JournalInv
<1>5. rec'.arrivals = rec.arrivals /\ rec'.since = rec.since /\ UNCHANGED <<session, journal, shown>>
  BY <1>1
<1>6. QED
  BY <1>2, <1>3, <1>4, <1>5, JournalKept

(* A pass that was overtaken by a new session, or failed.                  *)
LEMMA JournalPassOver ==
  ASSUME RecordInv, JournalInv, pass # <<>>, UNCHANGED <<clock, session, heard, rec, journal, shown>>,
         UNCHANGED lastT \/ lastT' = [lastT EXCEPT !.t = pass[1].t]
  PROVE  JournalInv'
<1>1. /\ lastT \in [session : Nat, t : Int] /\ pass[1].t \in Nat /\ session \in Nat
      /\ (lastT.session = session => lastT.t < pass[1].t)
  BY DEF RecordInv, ForecastTypes, InTime
<1>2. lastT.t \in Int /\ lastT'.t \in Int
      /\ (lastT.session = session => lastT'.session = session /\ lastT.t <= lastT'.t)
  BY <1>1
<1>3. now' = now /\ now \in Nat /\ now <= now'
  BY NowType DEF now, RecordInv, ForecastTypes
<1>4. rec'.points # <<>> => heard' # <<>>
  BY DEF JournalInv
<1>5. rec'.arrivals = rec.arrivals /\ rec'.since = rec.since /\ UNCHANGED <<session, journal, shown>>
  OBVIOUS
<1>6. QED
  BY <1>2, <1>3, <1>4, <1>5, JournalKept

LEMMA JournalPassEnds ==
  ASSUME RecordInv, JournalInv, NEW ml, Answer(ml), NEW explained, PassEnds(ml, explained)
  PROVE  JournalInv'
<1>1. /\ pass # <<>> /\ pass' = <<>> /\ UNCHANGED <<clock, session, heard>>
      /\ IF pass[1].session # session THEN UNCHANGED <<lastT, rec, journal, shown>>
         ELSE lastT' = [lastT EXCEPT !.t = pass[1].t] /\ Apply(pass[1], ml, explained)
  BY Zenon DEF PassEnds
<1>2. CASE pass[1].session # session
  BY <1>1, <1>2, JournalPassOver
<1>3. CASE pass[1].session = session
  BY <1>1, <1>3, JournalApplied
<1>4. QED
  BY <1>2, <1>3

LEMMA JournalNext ==
  RecordInv /\ JournalInv /\ [Next]_vars => JournalInv'
<1> SUFFICES ASSUME RecordInv, JournalInv, [Next]_vars PROVE JournalInv'
  OBVIOUS
<1>1. ASSUME NEW i \in DOMAIN Instants, NEW sight \in Sights, Point(i, sight) PROVE JournalInv'
  BY <1>1, JournalPoint
<1>2. CASE ClockTicks
  BY <1>2, JournalTick
<1>3. CASE NewSession
  BY <1>3, JournalNewSession
<1>4. CASE Sweep
  BY <1>4, JournalSweep
<1>5. CASE PassBegins
  BY <1>5, JournalPassBegins
<1>6. CASE PassFails
  <2>1. /\ pass # <<>> /\ lastT' = [lastT EXCEPT !.t = pass[1].t]
        /\ UNCHANGED <<clock, session, rec, heard, journal, shown>>
    BY <1>6 DEF PassFails
  <2>2. QED
    BY <2>1, JournalPassOver
<1>7. CASE PassEnds({}, FALSE)
  <2>1. Answer({})
    BY DEF Answer
  <2>2. QED
    BY <1>7, <2>1, JournalPassEnds
<1>8. ASSUME NEW d \in MlDelays, NEW explained \in BOOLEAN, PassEnds({d}, explained)
      PROVE  JournalInv'
  <2>1. Answer({d})
    BY DEF Answer
  <2>2. QED
    BY <1>8, <2>1, JournalPassEnds
<1>9. CASE UNCHANGED vars
  <2>1. UNCHANGED <<clock, session, rec, heard, pass, lastT, journal, shown>>
    BY <1>9 DEF vars
  <2>2. now' = now
    BY <2>1 DEF now
  <2>3. QED
    BY <2>1, <2>2 DEF JournalInv
<1>10. QED
  BY <1>1, <1>2, <1>3, <1>4, <1>5, <1>6, <1>7, <1>8, <1>9 DEF Next

-----------------------------------------------------------------------------
(* What the journal shows.                                                 *)

LEMMA NothingAhead ==
  ASSUME RecordInv, JournalInv
  PROVE  NothingOfAnotherSession
<1>1. now \in Nat /\ lastT.t \in Int
  BY NowType DEF RecordInv, ForecastTypes
<1>2. \A v \in DOMAIN rec.arrivals : rec.arrivals[v].at <= now
  <2> SUFFICES ASSUME NEW v \in DOMAIN rec.arrivals PROVE rec.arrivals[v].at <= now
    OBVIOUS
  <2>1. lastT.session = session /\ lastT.t <= now
    BY DEF RecordInv, RecordIs, InTime
  <2>2. rec.arrivals[v] \in FactsFrom(Visits, lastT.t)
    BY DEF RecordInv, RecordIs, ArrivalsUpTo
  <2>3. rec.arrivals[v].at \in Int /\ rec.arrivals[v].at <= lastT.t
    BY <2>2 DEF FactsFrom
  <2>4. QED
    BY <1>1, <2>1, <2>3
<1>3. (\A k \in DOMAIN rec.prediction : rec.prediction[k].at <= now) /\ journal.lastPass <= now
  BY DEF RecordInv, RecordIs, JournalInv
<1>4. QED
  BY <1>2, <1>3 DEF NothingOfAnotherSession

(* The means of quality.py over the errors of the journal.                 *)
LEMMA MeanForm ==
  ASSUME NEW s \in Seq(ErrorRecs)
  PROVE  /\ Mean(s, ErrorOf) = [sum |-> Total(s), n |-> Len(s)]
         /\ Mean(s, ErrorOf).n = Len(s)
<1> DEFINE sum == CHOOSE g : g = [i \in 0..Len(s) |-> IF i = 0 THEN 0 ELSE g[i - 1] + ErrorOf(s[i])]
<1>1. Mean(s, ErrorOf) = [sum |-> sum[Len(s)], n |-> Len(s)]
  BY Zenon DEF Mean
<1>2. Mean(s, ErrorOf).sum = sum[Len(s)] /\ Mean(s, ErrorOf).n = Len(s)
  BY Zenon DEF Mean
<1> HIDE DEF sum
<1>3. QED
  BY <1>1, <1>2, Zenon DEF Total

LEMMA JournalShows ==
  ASSUME RecordInv, JournalInv
  PROVE  QualityAddsUp
<1> DEFINE errors == journal.errors
<1>1. /\ journal \in JournalRecs /\ Accounted(journal, shown) /\ Covered(journal)
      /\ \A v \in journal.evaluated : v \in DOMAIN rec.arrivals \/ rec.since > 0
  BY DEF JournalInv
<1>2. errors \in Seq(ErrorRecs) /\ Len(errors) \in Nat
  BY <1>1, JournalFields
<1>3. JournalAddsUp
  <2>1. StillWait = Waits(journal.pending)
    BY Zenon DEF StillWait, Waits
  <2>2. QED
    BY <1>1, <2>1 DEF JournalAddsUp, Accounted, Covered
<1>4. NResolved <= OnlineMae.n
  <2>1. OnlineMae.n = Len(errors)
    BY <1>2, MeanForm DEF OnlineMae
  <2>2. QED
    BY <1>1, <2>1 DEF NResolved, Accounted
<1>5. \A m \in 11..15 : Bucket(errors, m) \in Seq(ErrorRecs)
  <2> TAKE m \in 11..15
  <2>1. PICK f \in [0..Len(errors) -> Seq(ErrorRecs)] : Bucket(errors, m) = f[Len(errors)]
    BY <1>2, BucketGrows
  <2>2. Len(errors) \in 0..Len(errors)
    BY <1>2
  <2>3. QED
    BY <2>1, <2>2
<1>6. \A m \in 11..15 : /\ MaeByLead[m].sum = Total(Bucket(errors, m))
                        /\ MaeByLead[m].n = Len(Bucket(errors, m))
  <2> TAKE m \in 11..15
  <2>1. ErrorsByLead(m) = Bucket(errors, m)
    BY Zenon DEF ErrorsByLead, Bucket
  <2>2. MaeByLead[m] = Mean(ErrorsByLead(m), ErrorOf)
    BY Zenon DEF MaeByLead
  <2>3. MaeByLead[m] = Mean(Bucket(errors, m), ErrorOf)
    BY <2>1, <2>2, Zenon
  <2>4. Mean(Bucket(errors, m), ErrorOf).n = Len(Bucket(errors, m))
    BY <1>5, MeanForm
  <2>5. QED
    BY <2>3, <2>4, Zenon DEF Total
<1>7. /\ 11 \in 11..15 /\ 12 \in 11..15 /\ 13 \in 11..15 /\ 14 \in 11..15 /\ 15 \in 11..15
  OBVIOUS
<1>8. OnlineMae = [sum |-> Total(errors), n |-> Len(errors)]
  BY <1>2, MeanForm DEF OnlineMae
<1>9. /\ Total(errors) = MaeByLead[11].sum + MaeByLead[12].sum + MaeByLead[13].sum
                         + MaeByLead[14].sum + MaeByLead[15].sum
      /\ Len(errors) = MaeByLead[11].n + MaeByLead[12].n + MaeByLead[13].n
                       + MaeByLead[14].n + MaeByLead[15].n
  BY <1>2, <1>6, <1>7, BucketsAddUp
<1>10. QED
  BY <1>1, <1>3, <1>4, <1>8, <1>9, Zenon DEF QualityAddsUp

(* A pass that outlives its session leaves nothing in the next one, for    *)
(* every plan, track and number of sessions: no arrival, no forecast and   *)
(* no pass counted by the journal lies ahead of the clock (scheduler.py:   *)
(* the epoch that run_pass compares before it applies).                    *)
THEOREM PassesSeparate ==
  Spec => []NothingOfAnotherSession
<1>1. Init => RecordInv /\ JournalInv
  BY RecordInit, JournalInit
<1>2. RecordInv /\ JournalInv /\ [Next]_vars => RecordInv' /\ JournalInv'
  BY RecordNext, JournalNext
<1>3. RecordInv /\ JournalInv => NothingOfAnotherSession
  BY NothingAhead
<1>4. QED
  BY <1>1, <1>2, <1>3, PTL DEF Spec

(* Every forecast shown is scored once or still waits, the buckets by lead *)
(* hold every error once, and a visit that was scored has its arrival in   *)
(* the record unless the vehicle left the map since (quality.py).          *)
THEOREM QualityCounts ==
  Spec => []QualityAddsUp
<1>1. Init => RecordInv /\ JournalInv
  BY RecordInit, JournalInit
<1>2. RecordInv /\ JournalInv /\ [Next]_vars => RecordInv' /\ JournalInv'
  BY RecordNext, JournalNext
<1>3. RecordInv /\ JournalInv => QualityAddsUp
  BY JournalShows
<1>4. QED
  BY <1>1, <1>2, <1>3, PTL DEF Spec
=============================================================================
