------------------------- MODULE AlertPipeline_proofs -------------------------
(***************************************************************************)
(* Safety of the prediction pipeline for every fleet, timetable, policy    *)
(* and bound.  First what the methods of the incident book preserve, for   *)
(* every book; then the inductive invariant IInv: the types, a consistent  *)
(* book, and what the pass in progress may rely on.                        *)
(***************************************************************************)
EXTENDS AlertPipeline, SequenceTheorems, FiniteSetTheorems, TLAPS

-----------------------------------------------------------------------------
(* The incident book.                                                      *)

(* A book whose table of active incidents, set of targets and incidents    *)
(* agree: the inductive form of "one active incident per vehicle, one      *)
(* incident per target".                                                   *)
ActiveAgrees(b) ==
  /\ \A i \in Ids(b) : Unresolved(b, i) <=> b.active[b.incidents[i].vehicle] = i
  /\ \A v \in Vehicles : b.active[v] # NoIncident =>
       /\ b.active[v] \in Ids(b)
       /\ b.incidents[b.active[v]].vehicle = v

TargetsAgree(b) ==
  /\ \A i \in Ids(b) : <<b.incidents[i].vehicle, b.incidents[i].target>> \in b.targets
  /\ \A i, j \in Ids(b) :
       /\ b.incidents[i].vehicle = b.incidents[j].vehicle
       /\ b.incidents[i].target = b.incidents[j].target
       => i = j

Consistent(b) == ActiveAgrees(b) /\ TargetsAgree(b)

(* What an operation that opens nothing leaves alone.                      *)
SameIncidents(b, r) ==
  /\ Len(r.incidents) = Len(b.incidents)
  /\ r.targets = b.targets
  /\ \A i \in Ids(b) : /\ r.incidents[i].vehicle = b.incidents[i].vehicle
                       /\ r.incidents[i].target = b.incidents[i].target
                       /\ r.incidents[i].epoch = b.incidents[i].epoch

(* The empty book of a new session is a consistent book.                   *)
LEMMA EmptyBookConsistent == EmptyBook \in Book /\ Consistent(EmptyBook)
  BY BookAssumption DEF EmptyBook, Book, Consistent, ActiveAgrees, TargetsAgree, Ids, NoIncident

(* A field of a book, as the type says.                                    *)
LEMMA BookFields ==
  ASSUME NEW b \in Book
  PROVE  /\ b.streaks \in [Vehicles -> [Visits -> 0..MinStreak]]
         /\ b.incidents \in Seq(Incident)
         /\ b.active \in [Vehicles -> Nat]
         /\ b.targets \subseteq Vehicles \X Visits
         /\ Len(b.incidents) \in Nat
         /\ \A i \in Ids(b) : b.incidents[i] \in Incident
  BY ElementOfSeq, LenProperties DEF Book, Ids

(* observe counts one more pass at most, and touches nothing but streaks.  *)
LEMMA ObserveLemma ==
  ASSUME NEW b \in Book, NEW v \in Vehicles, NEW hits
  PROVE  /\ Observe(b, v, hits) \in Book
         /\ Observe(b, v, hits).incidents = b.incidents
         /\ Observe(b, v, hits).active = b.active
         /\ Observe(b, v, hits).targets = b.targets
         /\ \A u \in Vehicles \ {v} : Observe(b, v, hits).streaks[u] = b.streaks[u]
         /\ \A w \in Visits : Observe(b, v, hits).streaks[v][w] <= b.streaks[v][w] + 1
         /\ Consistent(b) => Consistent(Observe(b, v, hits))
<1> DEFINE row == [w \in Visits |-> IF w \notin hits THEN 0
                                    ELSE IF b.streaks[v][w] < MinStreak
                                         THEN b.streaks[v][w] + 1 ELSE MinStreak]
           r == Observe(b, v, hits)
<1>0. /\ MinStreak \in Nat
      /\ \A w \in Visits : b.streaks[v][w] \in 0..MinStreak
  BY BookFields, BookAssumption
<1>1. row \in [Visits -> 0..MinStreak] /\ \A w \in Visits : row[w] <= b.streaks[v][w] + 1
  BY <1>0
<1>2. r = [b EXCEPT !.streaks[v] = row]
  BY DEF Observe
<1> DEFINE streaks == [b.streaks EXCEPT ![v] = row]
<1> HIDE DEF row, r
<1>3. r = [streaks |-> streaks, incidents |-> b.incidents,
           active |-> b.active, targets |-> b.targets]
  BY <1>2 DEF Book
<1>4. streaks \in [Vehicles -> [Visits -> 0..MinStreak]]
  BY <1>1, BookFields
<1> HIDE DEF streaks
<1>5. r \in Book
  BY <1>3, <1>4, BookFields DEF Book
<1>6. r.streaks = streaks /\ r.incidents = b.incidents /\ r.active = b.active /\ r.targets = b.targets
  BY <1>3
<1>7. Consistent(b) => Consistent(r)
  BY <1>6 DEF Consistent, ActiveAgrees, TargetsAgree, Ids, Unresolved
<1>8. /\ \A u \in Vehicles \ {v} : streaks[u] = b.streaks[u]
      /\ streaks[v] = row
  BY BookFields DEF streaks
<1>9. QED
  BY <1>1, <1>5, <1>6, <1>7, <1>8 DEF r

(* Replacing one incident by another of the same vehicle, target and epoch. *)
LEMMA ReplaceLemma ==
  ASSUME NEW b \in Book, NEW i \in Ids(b), NEW inc \in Incident,
         inc.vehicle = b.incidents[i].vehicle, inc.target = b.incidents[i].target,
         inc.epoch = b.incidents[i].epoch
  PROVE  LET r == [b EXCEPT !.incidents[i] = inc] IN
         /\ r \in Book
         /\ SameIncidents(b, r)
         /\ r.active = b.active /\ r.streaks = b.streaks
         /\ \A j \in Ids(b) : r.incidents[j] = IF j = i THEN inc ELSE b.incidents[j]
<1> DEFINE r == [b EXCEPT !.incidents[i] = inc]
<1>1. i \in 1..Len(b.incidents) /\ b.incidents \in Seq(Incident)
  BY BookFields DEF Ids
<1>2. /\ [b.incidents EXCEPT ![i] = inc] \in Seq(Incident)
      /\ Len([b.incidents EXCEPT ![i] = inc]) = Len(b.incidents)
      /\ \A j \in 1..Len(b.incidents) :
           [b.incidents EXCEPT ![i] = inc][j] = IF j = i THEN inc ELSE b.incidents[j]
  BY <1>1, ExceptSeq
<1>3. /\ r.incidents = [b.incidents EXCEPT ![i] = inc]
      /\ r.active = b.active /\ r.streaks = b.streaks /\ r.targets = b.targets
  BY DEF Book
<1>4. r \in Book
  BY <1>2, <1>3, BookFields DEF Book
<1>5. QED
  BY <1>2, <1>3, <1>4 DEF SameIncidents, Ids

LEMMA IncidentFields ==
  ASSUME NEW inc \in Incident
  PROVE  /\ inc.vehicle \in Vehicles /\ inc.target \in Visits /\ inc.epoch \in Nat
         /\ inc.delay \in Int /\ inc.risk \in RiskLevels
         /\ inc.status \in {"open", "ack", "resolved"}
         /\ inc.outcome \in {"pending", "hit", "false_alarm"}
  BY DEF Incident

(* Replacing an incident by one with the same vehicle, target and epoch,   *)
(* and resolved exactly if it was, keeps a book consistent.                *)
LEMMA ReplaceConsistent ==
  ASSUME NEW b \in Book, NEW r \in Book, SameIncidents(b, r), r.active = b.active,
         \A i \in Ids(b) : Unresolved(r, i) <=> Unresolved(b, i),
         Consistent(b)
  PROVE  Consistent(r)
  BY DEF Consistent, ActiveAgrees, TargetsAgree, SameIncidents, Ids

(* update changes the prediction of one incident, and nothing else.        *)
LEMMA UpdateLemma ==
  ASSUME NEW b \in Book, NEW i \in Ids(b), NEW p \in Predictions
  PROVE  LET r == UpdateIncident(b, i, p) IN
         /\ r \in Book
         /\ SameIncidents(b, r)
         /\ r.active = b.active /\ r.streaks = b.streaks
         /\ \A j \in Ids(b) : /\ r.incidents[j].status = b.incidents[j].status
                              /\ r.incidents[j].outcome = b.incidents[j].outcome
         /\ Consistent(b) => Consistent(r)
<1> DEFINE inc == [b.incidents[i] EXCEPT !.delay = p.delay, !.risk = RiskOf(p)]
           r == UpdateIncident(b, i, p)
<1>1. /\ inc \in Incident
      /\ inc.vehicle = b.incidents[i].vehicle /\ inc.target = b.incidents[i].target
      /\ inc.epoch = b.incidents[i].epoch /\ inc.status = b.incidents[i].status
      /\ inc.outcome = b.incidents[i].outcome
  <2>1. p.delay \in Int /\ RiskOf(p) \in RiskLevels
    BY BookAssumption DEF RiskOf, RiskLevels
  <2>2. QED
    BY ZenonT(20), <2>1, BookFields DEF Incident
<1>2. r = b \/ r = [b EXCEPT !.incidents[i] = inc]
  BY DEF UpdateIncident
<1>3. CASE r = b
  BY <1>3, BookFields DEF SameIncidents
<1>4. CASE r = [b EXCEPT !.incidents[i] = inc]
  <2>1. /\ r \in Book /\ SameIncidents(b, r)
        /\ r.active = b.active /\ r.streaks = b.streaks
        /\ \A j \in Ids(b) : r.incidents[j] = IF j = i THEN inc ELSE b.incidents[j]
    <3> HIDE DEF inc
    <3> QED BY <1>1, <1>4, ReplaceLemma
  <2>2. \A j \in Ids(b) : /\ r.incidents[j].status = b.incidents[j].status
                          /\ r.incidents[j].outcome = b.incidents[j].outcome
    BY <1>1, <2>1
  <2>3. Consistent(b) => Consistent(r)
    BY <2>1, <2>2, ReplaceConsistent DEF Unresolved
  <2>4. QED
    BY <2>1, <2>2, <2>3
<1>5. QED
  BY <1>2, <1>3, <1>4

(* ack keeps a resolved incident resolved, and every outcome.              *)
LEMMA AckLemma ==
  ASSUME NEW b \in Book, NEW i \in Ids(b)
  PROVE  LET r == AckIncident(b, i) IN
         /\ r \in Book
         /\ SameIncidents(b, r)
         /\ r.active = b.active /\ r.streaks = b.streaks
         /\ \A j \in Ids(b) : /\ Unresolved(r, j) <=> Unresolved(b, j)
                              /\ r.incidents[j].outcome = b.incidents[j].outcome
         /\ Consistent(b) => Consistent(r)
<1> DEFINE inc == [b.incidents[i] EXCEPT !.status = "ack"]
           r == AckIncident(b, i)
<1>1. CASE ~Unresolved(b, i)
  BY <1>1, BookFields DEF AckIncident, SameIncidents
<1>2. CASE Unresolved(b, i)
  <2>1. /\ inc \in Incident
        /\ inc.vehicle = b.incidents[i].vehicle /\ inc.target = b.incidents[i].target
        /\ inc.epoch = b.incidents[i].epoch /\ inc.outcome = b.incidents[i].outcome
        /\ inc.status = "ack"
    BY ZenonT(30), BookFields DEF Incident
  <2>2. r = [b EXCEPT !.incidents[i] = inc]
    BY <1>2 DEF AckIncident
  <2>3. /\ r \in Book /\ SameIncidents(b, r)
        /\ r.active = b.active /\ r.streaks = b.streaks
        /\ \A j \in Ids(b) : r.incidents[j] = IF j = i THEN inc ELSE b.incidents[j]
    <3> HIDE DEF inc
    <3> QED BY <2>1, <2>2, ReplaceLemma
  <2>4. \A j \in Ids(b) : /\ Unresolved(r, j) <=> Unresolved(b, j)
                          /\ r.incidents[j].outcome = b.incidents[j].outcome
    BY <1>2, <2>1, <2>3 DEF Unresolved
  <2>5. Consistent(b) => Consistent(r)
    BY <2>3, <2>4, ReplaceConsistent
  <2>6. QED
    BY <2>3, <2>4, <2>5
<1>3. QED
  BY <1>1, <1>2

(* resolve closes the active incident of a vehicle and frees the vehicle.  *)
LEMMA ResolveLemma ==
  ASSUME NEW b \in Book, Consistent(b), NEW v \in Vehicles, b.active[v] # NoIncident,
         NEW actual
  PROVE  LET r == ResolveIncident(b, b.active[v], actual) IN
         /\ r \in Book
         /\ SameIncidents(b, r)
         /\ r.streaks = b.streaks
         /\ r.active = [b.active EXCEPT ![v] = NoIncident]
         /\ \A j \in Ids(b) : ~Unresolved(b, j) =>
              /\ ~Unresolved(r, j)
              /\ r.incidents[j].outcome = b.incidents[j].outcome
         /\ Consistent(r)
<1> DEFINE i == b.active[v]
           inc == [b.incidents[i] EXCEPT !.status = "resolved", !.outcome = Outcome(actual)]
           m == [b EXCEPT !.incidents[i] = inc]
           r == ResolveIncident(b, i, actual)
<1>1. i \in Ids(b) /\ b.incidents[i].vehicle = v /\ Unresolved(b, i)
  BY DEF Consistent, ActiveAgrees
<1>2. /\ inc \in Incident
      /\ inc.vehicle = b.incidents[i].vehicle /\ inc.target = b.incidents[i].target
      /\ inc.epoch = b.incidents[i].epoch /\ inc.status = "resolved"
  <2>1. Outcome(actual) \in {"hit", "false_alarm"} /\ b.incidents[i] \in Incident
    BY <1>1, BookFields DEF Outcome
  <2>2. QED
    BY <2>1 DEF Incident
<1>3. /\ m \in Book /\ SameIncidents(b, m)
      /\ m.active = b.active /\ m.streaks = b.streaks
      /\ \A j \in Ids(b) : m.incidents[j] = IF j = i THEN inc ELSE b.incidents[j]
  <2> HIDE DEF inc, i
  <2> QED BY <1>1, <1>2, ReplaceLemma
<1>4. r = [m EXCEPT !.active = [b.active EXCEPT ![v] = NoIncident]]
  BY <1>1, <1>3 DEF ResolveIncident, Book
<1>5. /\ r \in Book
      /\ r.incidents = m.incidents /\ r.streaks = m.streaks /\ r.targets = m.targets
      /\ r.active = [b.active EXCEPT ![v] = NoIncident]
  <2> HIDE DEF m, inc, i, r
  <2> QED BY <1>3, <1>4, BookFields DEF Book, NoIncident
<1>6. SameIncidents(b, r)
  BY <1>3, <1>5 DEF SameIncidents
<1>7. \A j \in Ids(b) : r.incidents[j] = IF j = i THEN inc ELSE b.incidents[j]
  BY <1>3, <1>5
<1>8. \A j \in Ids(b) : ~Unresolved(b, j) =>
        /\ ~Unresolved(r, j)
        /\ r.incidents[j].outcome = b.incidents[j].outcome
  BY SMTT(30), <1>1, <1>7 DEF Unresolved
<1>9. ActiveAgrees(r)
  <2>1. ASSUME NEW j \in Ids(r)
        PROVE  Unresolved(r, j) <=> r.active[r.incidents[j].vehicle] = j
    <3>1. j \in Ids(b) /\ j # NoIncident /\ b.incidents[j].vehicle \in Vehicles
      BY <1>6, <2>1, BookFields, IncidentFields DEF SameIncidents, Ids, NoIncident
    <3>2. CASE j = i
      <4>1. r.incidents[j] = inc
        BY <1>7, <3>1, <3>2
      <4>2. r.incidents[j].status = "resolved" /\ r.incidents[j].vehicle = v
        BY <1>1, <1>2, <4>1
      <4>3. r.active[v] = NoIncident
        BY <1>5, BookFields
      <4>4. QED
        BY <3>1, <4>2, <4>3 DEF Unresolved
    <3>3. CASE j # i
      <4>1. r.incidents[j] = b.incidents[j]
        BY <1>7, <3>1, <3>3
      <4>2. Unresolved(b, j) <=> b.active[b.incidents[j].vehicle] = j
        BY <3>1 DEF Consistent, ActiveAgrees
      <4>3. CASE b.incidents[j].vehicle = v
        BY <1>5, <3>1, <3>3, <4>1, <4>2, <4>3, BookFields DEF Unresolved
      <4>4. CASE b.incidents[j].vehicle # v
        BY ZenonT(30), <1>5, <3>1, <4>1, <4>2, <4>4, BookFields DEF Unresolved
      <4>5. QED
        BY <4>3, <4>4
    <3>4. QED
      BY <3>2, <3>3
  <2>2. ASSUME NEW u \in Vehicles, r.active[u] # NoIncident
        PROVE  r.active[u] \in Ids(r) /\ r.incidents[r.active[u]].vehicle = u
    <3>1. u # v /\ r.active[u] = b.active[u]
      BY <1>5, <2>2, BookFields
    <3>2. b.active[u] \in Ids(b) /\ b.incidents[b.active[u]].vehicle = u
      BY <2>2, <3>1 DEF Consistent, ActiveAgrees
    <3>3. QED
      BY <1>6, <3>1, <3>2 DEF SameIncidents, Ids
  <2>3. QED
    BY <2>1, <2>2 DEF ActiveAgrees
<1>10. TargetsAgree(r)
  BY <1>6 DEF Consistent, TargetsAgree, SameIncidents, Ids
<1>11. QED
  BY <1>3, <1>5, <1>6, <1>8, <1>9, <1>10 DEF Consistent

(* settle resolves the vehicle's active incident or changes nothing.       *)
LEMMA SettleLemma ==
  ASSUME NEW b \in Book, Consistent(b), NEW v \in Vehicles,
         NEW arrivals, NEW curDev, NEW t
  PROVE  LET r == Settle(b, v, arrivals, curDev, t) IN
         /\ r \in Book
         /\ SameIncidents(b, r)
         /\ r.streaks = b.streaks
         /\ r.active = b.active \/ r.active = [b.active EXCEPT ![v] = NoIncident]
         /\ \A j \in Ids(b) : ~Unresolved(b, j) =>
              /\ ~Unresolved(r, j)
              /\ r.incidents[j].outcome = b.incidents[j].outcome
         /\ Consistent(r)
<1> DEFINE r == Settle(b, v, arrivals, curDev, t)
<1>1. \/ r = b
      \/ /\ b.active[v] # NoIncident
         /\ \E actual : r = ResolveIncident(b, b.active[v], actual)
  BY DEF Settle
<1>2. CASE r = b
  BY <1>2 DEF SameIncidents
<1>3. CASE /\ b.active[v] # NoIncident
           /\ \E actual : r = ResolveIncident(b, b.active[v], actual)
  <2>1. PICK actual : r = ResolveIncident(b, b.active[v], actual)
    BY <1>3
  <2>2. QED
    BY <1>3, <2>1, ResolveLemma
<1>4. QED
  BY <1>1, <1>2, <1>3

(* open appends one incident; the vehicle had none and the target was new. *)
LEMMA OpenLemma ==
  ASSUME NEW b \in Book, Consistent(b), NEW v \in Vehicles, NEW w \in Visits,
         NEW p \in Predictions, NEW e \in Nat,
         b.active[v] = NoIncident, <<v, w>> \notin b.targets
  PROVE  LET r == OpenIncident(b, v, w, p, e) IN
         /\ r \in Book
         /\ r.streaks = b.streaks
         /\ r.active = [b.active EXCEPT ![v] = Len(b.incidents) + 1]
         /\ Len(r.incidents) = Len(b.incidents) + 1
         /\ \A j \in Ids(b) : r.incidents[j] = b.incidents[j]
         /\ r.incidents[Len(b.incidents) + 1] = NewIncident(v, w, p, e)
         /\ Consistent(r)
<1> DEFINE n == Len(b.incidents) + 1
           inc == NewIncident(v, w, p, e)
           r == OpenIncident(b, v, w, p, e)
<1>1. inc \in Incident /\ inc.vehicle = v /\ inc.target = w /\ inc.status = "open"
  <2>1. p.delay \in Int /\ RiskOf(p) \in RiskLevels
    BY BookAssumption DEF RiskOf, RiskLevels
  <2>2. QED
    BY <2>1 DEF NewIncident, Incident
<1>2. /\ r.streaks = b.streaks
      /\ r.incidents = Append(b.incidents, inc)
      /\ r.active = [b.active EXCEPT ![v] = n]
      /\ r.targets = b.targets \cup {<<v, w>>}
  BY DEF OpenIncident, Book
<1> HIDE DEF inc
<1>3. /\ r.incidents \in Seq(Incident)
      /\ Len(r.incidents) = n
      /\ \A j \in Ids(b) : r.incidents[j] = b.incidents[j]
      /\ r.incidents[n] = inc
      /\ n \in Nat /\ n # NoIncident
      /\ Ids(r) = Ids(b) \cup {n}
      /\ n \notin Ids(b)
  <2> HIDE DEF r
  <2>1. b.incidents \in Seq(Incident) /\ Len(b.incidents) \in Nat
    BY BookFields
  <2>2. /\ Append(b.incidents, inc) \in Seq(Incident)
        /\ Len(Append(b.incidents, inc)) = Len(b.incidents) + 1
        /\ \A j \in 1..Len(b.incidents) : Append(b.incidents, inc)[j] = b.incidents[j]
        /\ Append(b.incidents, inc)[Len(b.incidents) + 1] = inc
    BY <1>1, <2>1, AppendProperties
  <2>3. QED
    BY <1>2, <2>1, <2>2 DEF Ids, NoIncident
<1>4. r \in Book
  <2>1. /\ [b.active EXCEPT ![v] = n] \in [Vehicles -> Nat]
        /\ b.targets \cup {<<v, w>>} \subseteq Vehicles \X Visits
    BY <1>3, BookFields
  <2>2. r = [b EXCEPT !.incidents = r.incidents, !.active = r.active, !.targets = r.targets]
    BY <1>2 DEF OpenIncident, inc
  <2>3. QED
    BY <1>2, <1>3, <2>1, <2>2, BookFields DEF Book
<1> HIDE DEF r, n
<1>5. ActiveAgrees(r)
  <2>1. ASSUME NEW j \in Ids(r)
        PROVE  Unresolved(r, j) <=> r.active[r.incidents[j].vehicle] = j
    <3>1. CASE j = n
      BY <1>1, <1>2, <1>3, <3>1, BookFields DEF Unresolved
    <3>2. CASE j \in Ids(b)
      <4>1. r.incidents[j] = b.incidents[j] /\ b.incidents[j].vehicle \in Vehicles
        BY <1>3, <3>2, BookFields, IncidentFields
      <4>2. Unresolved(b, j) <=> b.active[b.incidents[j].vehicle] = j
        BY <3>2 DEF Consistent, ActiveAgrees
      <4>3. j # NoIncident /\ j # n
        BY <1>3, <3>2, BookFields DEF Ids, NoIncident
      <4>4. QED
        BY <1>2, <4>1, <4>2, <4>3, BookFields DEF Unresolved
    <3>3. QED
      BY <1>3, <3>1, <3>2
  <2>2. ASSUME NEW u \in Vehicles, r.active[u] # NoIncident
        PROVE  r.active[u] \in Ids(r) /\ r.incidents[r.active[u]].vehicle = u
    <3>1. CASE u = v
      BY <1>1, <1>2, <1>3, <3>1, BookFields
    <3>2. CASE u # v
      <4>1. r.active[u] = b.active[u]
        BY <1>2, <3>2, BookFields
      <4>2. b.active[u] \in Ids(b) /\ b.incidents[b.active[u]].vehicle = u
        BY <2>2, <4>1 DEF Consistent, ActiveAgrees
      <4>3. QED
        BY <1>3, <4>1, <4>2
    <3>3. QED
      BY <3>1, <3>2
  <2>3. QED
    BY <2>1, <2>2 DEF ActiveAgrees
<1>6. TargetsAgree(r)
  <2>1. \A j \in Ids(b) : <<b.incidents[j].vehicle, b.incidents[j].target>> # <<v, w>>
    BY DEF Consistent, TargetsAgree
  <2>2. \A j \in Ids(r) :
           \/ j \in Ids(b) /\ r.incidents[j] = b.incidents[j]
           \/ j = n /\ r.incidents[j].vehicle = v /\ r.incidents[j].target = w
    BY <1>1, <1>3
  <2>3. \A j \in Ids(r) :
          <<r.incidents[j].vehicle, r.incidents[j].target>> \in r.targets
    BY <1>2, <2>2 DEF Consistent, TargetsAgree
  <2>4. ASSUME NEW j \in Ids(r), NEW k \in Ids(r),
               r.incidents[j].vehicle = r.incidents[k].vehicle,
               r.incidents[j].target = r.incidents[k].target
        PROVE  j = k
    BY <2>1, <2>2, <2>4 DEF Consistent, TargetsAgree
  <2>5. QED
    BY <2>3, <2>4 DEF TargetsAgree
<1>7. QED
  BY <1>2, <1>3, <1>4, <1>5, <1>6 DEF Consistent, r, n, inc

-----------------------------------------------------------------------------
(* The invariant.                                                          *)

(* What a pass whose results are being applied knows of the streaks: the   *)
(* vehicles still to be handled have not been counted in this pass.        *)
StreaksBehind ==
  pass.phase = "applying" =>
    \A v \in pass.todo, w \in Visits :
      book.streaks[v][w] < applied \/ applied = MinStreak

(* A pass never belongs to a session that has not started.                 *)
PassNotAhead == pass.phase # "idle" => pass.epoch <= epoch

IInv ==
  /\ TypeOK
  /\ Consistent(book)
  /\ ActiveStaysOnMap
  /\ CachedIncidentIsActive
  /\ NothingCarriedOver
  /\ StreaksBehind
  /\ PassNotAhead
  /\ CapturedTargetHolds

-----------------------------------------------------------------------------
(* Types of what the handlers read and build.                              *)

LEMMA Constants ==
  /\ 0 \in Minutes
  /\ MinStreak \in Nat /\ MinStreak > 0
  /\ NewRecord \in Record /\ NewRecord.openIncident = NoIncident
  /\ Idle \in Pass
  /\ NoTask \in Task
  /\ EmptyBook \in Book
<1>1. MaxNow \in Nat /\ MinStreak \in Nat /\ MinStreak > 0
  BY PipelineAssumption, BookAssumption
<1>2. 0 \in Minutes
  BY <1>1 DEF Minutes
<1>3. NewRecord \in Record /\ NewRecord.openIncident = NoIncident
  BY <1>2 DEF NewRecord, Record, NoIncident
<1>4. NoTask \in Task
  BY DEF NoTask, Task
<1>5. Idle \in Pass
  BY <1>2, <1>4 DEF Idle, Pass
<1>6. QED
  BY <1>1, <1>2, <1>3, <1>4, <1>5, EmptyBookConsistent

(* The target captured for a vehicle is a visit, or none.                  *)
LEMMA SnapshotType ==
  ASSUME TypeOK, Consistent(book), NEW v \in Vehicles
  PROVE  ActiveTarget(v) \in Visits \cup {None} /\ Snapshot(v) \in Task
<1>1. ActiveTarget(v) \in Visits \cup {None}
  <2>1. CASE book.active[v] = NoIncident
    BY <2>1 DEF ActiveTarget
  <2>2. CASE book.active[v] # NoIncident
    <3>1. book.active[v] \in Ids(book)
      BY <2>2 DEF Consistent, ActiveAgrees
    <3>2. QED
      BY <2>2, <3>1, BookFields, IncidentFields DEF ActiveTarget, TypeOK
  <2>3. QED
    BY <2>1, <2>2
<1>2. QED
  BY <1>1 DEF Snapshot, Task, IsStale, IsWarming

(* Initially everything holds: nothing has happened yet.                   *)
LEMMA InitIInv == Init => IInv
<1> SUFFICES ASSUME Init PROVE IInv
  OBVIOUS
<1>1. TypeOK
  <2>1. clock \in Clock
    BY Constants DEF Init, Clock
  <2>2. recs \in [Vehicles -> Record] /\ book \in Book /\ pass \in Pass /\ applied \in 0..MinStreak
    BY Constants DEF Init
  <2>3. silent \in BOOLEAN /\ epoch \in Nat /\ known \subseteq Vehicles /\ errors \in Nat
    BY DEF Init
  <2>4. runner \in [lastT: Minutes \cup {None}, epoch: Nat \cup {None}]
    BY DEF Init
  <2>5. QED
    BY <2>1, <2>2, <2>3, <2>4 DEF TypeOK
<1>2. Consistent(book)
  BY EmptyBookConsistent DEF Init
<1>3. Ids(book) = {} /\ \A v \in Vehicles, w \in Visits : book.streaks[v][w] = 0
  BY DEF Init, EmptyBook, Ids
<1>4. ActiveStaysOnMap /\ CachedIncidentIsActive
  BY DEF Init, EmptyBook, ActiveStaysOnMap, CachedIncidentIsActive
<1>5. pass.phase = "idle"
  BY DEF Init, Idle
<1>6. NothingCarriedOver /\ StreaksBehind /\ PassNotAhead /\ CapturedTargetHolds
  BY <1>3, <1>5 DEF Init, NothingCarriedOver, StreaksBehind, PassNotAhead, CapturedTargetHolds
<1>7. QED
  BY <1>1, <1>2, <1>4, <1>6 DEF IInv

-----------------------------------------------------------------------------
(* Steps that do not apply results.                                        *)

(* A new session wipes the book, and the pass in flight is of an old one.  *)
LEMMA ResetStep ==
  ASSUME IInv, TypeOK', LoopFree, epoch' = epoch + 1, book' = EmptyBook, applied' = 0,
         pass' = pass, \A v \in Vehicles : recs'[v].openIncident = NoIncident
  PROVE  IInv'
<1>1. /\ Ids(book') = {}
      /\ \A v \in Vehicles : /\ book'.active[v] = NoIncident
                            /\ \A w \in Visits : book'.streaks[v][w] = 0
  BY DEF EmptyBook, Ids
<1>2. Consistent(book)'
  BY EmptyBookConsistent
<1>3. ActiveStaysOnMap' /\ CachedIncidentIsActive'
  BY <1>1 DEF ActiveStaysOnMap, CachedIncidentIsActive, TypeOK
<1>4. epoch \in Nat /\ pass.epoch \in Nat /\ pass.phase # "applying"
  BY DEF IInv, TypeOK, Pass, LoopFree
<1>5. NothingCarriedOver' /\ StreaksBehind'
  BY <1>1, <1>4 DEF NothingCarriedOver, StreaksBehind
<1>6. PassNotAhead' /\ CapturedTargetHolds'
  BY <1>4 DEF IInv, PassNotAhead, CapturedTargetHolds
<1>7. QED
  BY <1>2, <1>3, <1>5, <1>6 DEF IInv

(* A step of the clock or of the fleet: the map keeps what the book needs. *)
LEMMA FleetStep ==
  ASSUME IInv, TypeOK', ActiveStaysOnMap', CachedIncidentIsActive',
         UNCHANGED <<epoch, book, pass, applied>>
  PROVE  IInv'
<1>1. NothingCarriedOver' /\ StreaksBehind' /\ PassNotAhead'
  BY DEF IInv, NothingCarriedOver, StreaksBehind, PassNotAhead
<1>2. CapturedTargetHolds'
  BY DEF IInv, CapturedTargetHolds, ActiveTarget
<1>3. QED
  BY <1>1, <1>2 DEF IInv

LEMMA SameFleetStep ==
  ASSUME IInv, TypeOK', UNCHANGED <<epoch, book, pass, applied, fleet>>
  PROVE  IInv'
<1>1. ActiveStaysOnMap' /\ CachedIncidentIsActive'
  BY DEF IInv, ActiveStaysOnMap, CachedIncidentIsActive, fleet
<1>2. QED
  BY <1>1, FleetStep

LEMMA MessageStep ==
  ASSUME IInv, NEW id \in SessionIds, NEW sim \in Minutes, NEW st \in MessageStates,
         NEW warm \in WarmEnds
  PROVE  /\ NewSession(id, sim, st, warm) => IInv'
         /\ SameSession(id, sim, st, warm) => IInv'
<1>1. MovedClock(id, sim, st, warm) \in Clock
  <2>1. /\ st \in {"running", "paused", "stopped"}
        /\ warm \in Nat \cup {None}
    BY PipelineAssumption DEF Minutes
  <2>2. clock.now \in Minutes
    BY DEF IInv, TypeOK, Clock
  <2>3. QED
    BY <2>1, <2>2 DEF MovedClock, Clock
<1>2. ASSUME NewSession(id, sim, st, warm) PROVE IInv'
  <2>1. TypeOK'
    <3>1. clock' \in Clock /\ recs' \in [Vehicles -> Record] /\ book' \in Book
      BY <1>1, <1>2, Constants DEF NewSession, ResetSession
    <3>2. epoch' \in Nat /\ applied' \in 0..MinStreak
      <4>1. epoch \in Nat /\ epoch' = epoch + 1 /\ applied' = 0
        BY <1>2 DEF NewSession, ResetSession, IInv, TypeOK
      <4>2. QED
        BY <4>1, Constants
    <3>3. silent' \in BOOLEAN /\ known' \subseteq Vehicles
      BY <1>2 DEF NewSession, ResetSession
    <3>4. QED
      BY <1>2, <3>1, <3>2, <3>3 DEF NewSession, IInv, TypeOK
  <2>2. QED
    BY <1>2, <2>1, ResetStep, Constants DEF NewSession, ResetSession
<1>3. ASSUME SameSession(id, sim, st, warm) PROVE IInv'
  <2>1. TypeOK'
    BY <1>1, <1>3 DEF IInv, TypeOK, SameSession, fleet
  <2>2. QED
    BY <1>3, <2>1, SameFleetStep DEF SameSession
<1>4. QED
  BY <1>2, <1>3

LEMMA FrameStep ==
  ASSUME IInv, NEW v \in Vehicles, NEW et \in Minutes
  PROVE  /\ FrameStartsAutoSession(v, et) => IInv'
         /\ FrameAccepted(v, et) => IInv'
<1> DEFINE fresh == [NewRecord EXCEPT !.first = et, !.last = et]
<1>1. fresh \in Record /\ fresh.openIncident = NoIncident
  BY Constants DEF Record
<1>2. ASSUME FrameStartsAutoSession(v, et) PROVE IInv'
  <2>1. clock' \in Clock
    BY <1>2 DEF FrameStartsAutoSession, Clock
  <2>2. /\ recs' \in [Vehicles -> Record]
        /\ \A u \in Vehicles : recs'[u].openIncident = NoIncident
    BY <1>1, <1>2, Constants DEF FrameStartsAutoSession
  <2>3. TypeOK'
    <3>1. epoch' \in Nat /\ applied' \in 0..MinStreak
      <4>1. epoch \in Nat /\ epoch' = epoch + 1 /\ applied' = 0
        BY <1>2 DEF FrameStartsAutoSession, IInv, TypeOK
      <4>2. QED
        BY <4>1, Constants
    <3>2. silent' \in BOOLEAN /\ known' \subseteq Vehicles /\ book' \in Book
      BY <1>2, Constants DEF FrameStartsAutoSession
    <3>3. QED
      BY <1>2, <2>1, <2>2, <3>1, <3>2 DEF FrameStartsAutoSession, IInv, TypeOK
  <2>4. QED
    BY <1>2, <2>2, <2>3, ResetStep DEF FrameStartsAutoSession
<1>3. ASSUME FrameAccepted(v, et) PROVE IInv'
  <2> DEFINE rec == IF v \in known THEN Added(recs[v], et) ELSE fresh
  <2>1. clock' \in Clock
    BY <1>3 DEF FrameAccepted, IInv, TypeOK, Clock
  <2>2. known' = known \cup {v} /\ recs' = [recs EXCEPT ![v] = rec]
    BY <1>3 DEF FrameAccepted, Stored
  <2>3. rec \in Record /\ (v \in known => rec.openIncident = recs[v].openIncident)
    BY <1>1 DEF Added, IInv, TypeOK, Record
  <2> HIDE DEF rec, fresh
  <2>4. TypeOK'
    BY <1>3, <2>1, <2>2, <2>3 DEF FrameAccepted, IInv, TypeOK
  <2>5. ActiveStaysOnMap'
    BY <1>3, <2>2 DEF FrameAccepted, IInv, ActiveStaysOnMap
  <2>6. v \notin known => rec.openIncident = book.active[v]
    BY <1>1 DEF IInv, ActiveStaysOnMap, rec
  <2>7. CachedIncidentIsActive'
    BY <1>3, <2>2, <2>3, <2>6 DEF FrameAccepted, IInv, TypeOK, CachedIncidentIsActive
  <2>8. QED
    BY <1>3, <2>4, <2>5, <2>7, FleetStep DEF FrameAccepted
<1>4. QED
  BY <1>2, <1>3

LEMMA SweepStep == ASSUME IInv, Sweep PROVE IInv'
<1>1. /\ Gone \subseteq known
      /\ \A v \in Gone : book.active[v] = NoIncident
  BY DEF Gone
<1>2. TypeOK'
  BY Constants DEF Sweep, IInv, TypeOK
<1>3. ActiveStaysOnMap'
  BY <1>1 DEF Sweep, IInv, ActiveStaysOnMap
<1>4. CachedIncidentIsActive'
  BY DEF Sweep, IInv, TypeOK, CachedIncidentIsActive
<1>5. QED
  BY <1>2, <1>3, <1>4, FleetStep DEF Sweep

LEMMA IdleStep == ASSUME IInv, FrameNotStored \/ Tick \/ GoSilent PROVE IInv'
<1>1. CASE FrameNotStored
  <2>1. TypeOK'
    BY <1>1 DEF FrameNotStored, IInv, TypeOK, fleet
  <2>2. QED
    BY <1>1, <2>1, SameFleetStep DEF FrameNotStored
<1>2. CASE Tick
  <2>1. clock' \in Clock
    BY <1>2, PipelineAssumption DEF Tick, IInv, TypeOK, Clock, Minutes
  <2>2. TypeOK'
    BY <1>2, <2>1 DEF Tick, IInv, TypeOK, fleet
  <2>3. QED
    BY <1>2, <2>2, SameFleetStep DEF Tick
<1>3. CASE GoSilent
  <2>1. TypeOK'
    BY <1>3 DEF GoSilent, IInv, TypeOK, fleet
  <2>2. QED
    BY <1>3, <2>1, SameFleetStep DEF GoSilent
<1>4. QED
  BY <1>1, <1>2, <1>3

-----------------------------------------------------------------------------
(* The dispatcher and the start and end of a pass.                         *)

(* An acknowledgement moves no entry of the tables a pass relies on.       *)
LEMMA AckStep == ASSUME IInv, NEW i \in Ids(book), Ack(i) PROVE IInv'
<1>1. /\ book' \in Book
      /\ SameIncidents(book, book')
      /\ book'.active = book.active /\ book'.streaks = book.streaks
      /\ Consistent(book')
  BY AckLemma DEF Ack, IInv, TypeOK
<1>2. Ids(book') = Ids(book)
  BY <1>1 DEF SameIncidents, Ids
<1>3. TypeOK'
  BY <1>1 DEF Ack, IInv, TypeOK, fleet
<1>4. ActiveStaysOnMap' /\ CachedIncidentIsActive'
  BY <1>1 DEF Ack, fleet, IInv, ActiveStaysOnMap, CachedIncidentIsActive
<1>5. NothingCarriedOver' /\ StreaksBehind' /\ PassNotAhead'
  BY <1>1, <1>2 DEF Ack, SameIncidents, IInv, NothingCarriedOver, StreaksBehind, PassNotAhead
<1>6. \A v \in Vehicles : ActiveTarget(v)' = ActiveTarget(v)
  <2>1. ASSUME NEW v \in Vehicles, book.active[v] # NoIncident
        PROVE  book'.incidents[book.active[v]].target = book.incidents[book.active[v]].target
    BY <1>1, <2>1 DEF SameIncidents, IInv, Consistent, ActiveAgrees
  <2>2. QED
    BY <1>1, <2>1 DEF ActiveTarget
<1>7. CapturedTargetHolds'
  BY <1>6 DEF Ack, IInv, TypeOK, Pass, CapturedTargetHolds
<1>8. QED
  BY <1>1, <1>3, <1>4, <1>5, <1>7 DEF IInv

LEMMA StartPassStep ==
  ASSUME IInv, NEW failed \in SUBSET Vehicles, StartPass(failed)
  PROVE  IInv'
<1>1. Cardinality(failed) \in Nat
  BY PipelineAssumption, FS_Subset, FS_CardinalityType
<1>2. \A v \in Vehicles : Snapshot(v) \in Task /\ Snapshot(v).follow = ActiveTarget(v)
  BY SnapshotType DEF IInv, Snapshot
<1>3. /\ pass' \in Pass
      /\ pass'.phase = "inflight" /\ pass'.epoch = epoch
      /\ \A v \in pass'.todo : pass'.tasks[v].follow = ActiveTarget(v)
  <2>1. clock.now \in Minutes /\ epoch \in Nat /\ known \subseteq Vehicles
    BY DEF IInv, TypeOK, Clock
  <2>2. [v \in Vehicles |-> IF v \in known \ failed THEN Snapshot(v) ELSE NoTask]
          \in [Vehicles -> Task]
    BY <1>2, Constants
  <2>3. QED
    BY <1>2, <2>1, <2>2 DEF StartPass, Pass
<1>4. runner' \in [lastT: Minutes \cup {None}, epoch: Nat \cup {None}]
  BY DEF StartPass, LastT, IInv, TypeOK
<1>5. errors' \in Nat
  BY <1>1 DEF StartPass, IInv, TypeOK
<1>6. TypeOK'
  BY <1>3, <1>4, <1>5 DEF StartPass, IInv, TypeOK, fleet
<1>7. ActiveStaysOnMap' /\ CachedIncidentIsActive'
  BY DEF StartPass, fleet, IInv, ActiveStaysOnMap, CachedIncidentIsActive
<1>8. NothingCarriedOver' /\ StreaksBehind' /\ PassNotAhead'
  BY <1>3 DEF StartPass, IInv, TypeOK, NothingCarriedOver, StreaksBehind, PassNotAhead
<1>9. CapturedTargetHolds'
  BY <1>3 DEF StartPass, CapturedTargetHolds, ActiveTarget
<1>10. QED
  BY <1>6, <1>7, <1>8, <1>9 DEF StartPass, IInv

(* A pass that ends without results leaves the session as it was.          *)
LEMMA PassEndStep == ASSUME IInv, PassRaises \/ PassDiscarded PROVE IInv'
<1>1. pass' = Idle /\ pass'.phase = "idle" /\ UNCHANGED <<epoch, fleet, book, applied>>
  BY DEF PassRaises, PassDiscarded, Idle
<1>2. TypeOK'
  <2>1. runner' \in [lastT: Minutes \cup {None}, epoch: Nat \cup {None}]
    BY DEF PassRaises, PassDiscarded, IInv, TypeOK, Pass
  <2>2. errors' \in Nat
    BY DEF PassRaises, PassDiscarded, IInv, TypeOK
  <2>3. UNCHANGED <<clock, silent>>
    BY DEF PassRaises, PassDiscarded
  <2>4. QED
    BY <1>1, <2>1, <2>2, <2>3, Constants DEF IInv, TypeOK, fleet
<1>3. ActiveStaysOnMap' /\ CachedIncidentIsActive'
  BY <1>1 DEF fleet, IInv, ActiveStaysOnMap, CachedIncidentIsActive
<1>4. NothingCarriedOver' /\ StreaksBehind' /\ PassNotAhead' /\ CapturedTargetHolds'
  BY <1>1 DEF IInv, NothingCarriedOver, StreaksBehind, PassNotAhead, CapturedTargetHolds
<1>5. QED
  BY <1>1, <1>2, <1>3, <1>4 DEF IInv

LEMMA PassReturnsStep == ASSUME IInv, PassReturns PROVE IInv'
<1>1. /\ pass' \in Pass
      /\ pass'.epoch = epoch \/ pass'.phase = "idle"
      /\ pass'.phase # "idle" => pass'.todo = pass.todo /\ pass'.tasks = pass.tasks
  <2>1. CASE pass.todo = {}
    BY <2>1, Constants DEF PassReturns, Idle
  <2>2. CASE pass.todo # {}
    BY <2>2 DEF PassReturns, IInv, TypeOK, Pass
  <2>3. QED
    BY <2>1, <2>2
<1>2. /\ applied \in 0..MinStreak /\ applied' \in 0..MinStreak
      /\ applied <= applied' /\ (applied < applied' \/ applied' = MinStreak)
  BY Constants DEF PassReturns, IInv, TypeOK
<1>3. /\ UNCHANGED <<clock, silent, epoch, fleet, book, errors>>
      /\ runner' \in [lastT: Minutes \cup {None}, epoch: Nat \cup {None}]
  BY DEF PassReturns, IInv, TypeOK, Pass
<1>4. TypeOK'
  BY <1>1, <1>2, <1>3 DEF IInv, TypeOK, fleet
<1>5. ActiveStaysOnMap' /\ CachedIncidentIsActive'
  BY <1>3 DEF fleet, IInv, ActiveStaysOnMap, CachedIncidentIsActive
<1>6. \A v \in Vehicles, w \in Visits : book.streaks[v][w] \in 0..MinStreak
  BY BookFields DEF IInv, TypeOK
<1>7. NothingCarriedOver' /\ StreaksBehind' /\ PassNotAhead'
  <2>1. NothingCarriedOver'
    BY <1>1, <1>2, <1>3, <1>6, Constants DEF IInv, NothingCarriedOver
  <2>2. StreaksBehind'
    BY <1>1, <1>2, <1>3, <1>6, Constants DEF IInv, TypeOK, Pass, NothingCarriedOver, StreaksBehind
  <2>3. PassNotAhead'
    BY <1>1, <1>3 DEF IInv, TypeOK, PassNotAhead
  <2>4. QED
    BY <2>1, <2>2, <2>3
<1>8. CapturedTargetHolds'
  BY <1>1, <1>3 DEF PassReturns, IInv, CapturedTargetHolds, ActiveTarget
<1>9. QED
  BY <1>3, <1>4, <1>5, <1>7, <1>8 DEF IInv

-----------------------------------------------------------------------------
(* Applying the result of one vehicle.                                     *)

(* What handling vehicle v may do to the book: r is the book afterwards.   *)
Handled(v, r) ==
  /\ r \in Book
  /\ Consistent(r)
  /\ \A u \in Vehicles \ {v} : r.active[u] = book.active[u] /\ r.streaks[u] = book.streaks[u]
  /\ \A w \in Visits : r.streaks[v][w] <= applied
  /\ \A i \in Ids(book) :
       /\ i \in Ids(r)
       /\ r.incidents[i].target = book.incidents[i].target
       /\ ~Unresolved(book, i) =>
            /\ ~Unresolved(r, i)
            /\ r.incidents[i].outcome = book.incidents[i].outcome
  /\ \A i \in Ids(r) : r.incidents[i].epoch = epoch
  /\ Ids(r) # {} => applied = MinStreak

(* Counting the pass and settling by its facts.                            *)
LEMMA SettledLemma ==
  ASSUME IInv, NEW v \in Vehicles, Applying(v), NEW preds, NEW arrivals, NEW curDev
  PROVE  LET b == Settled(v, preds, arrivals, curDev) IN
         /\ Handled(v, b)
         /\ Ids(b) = Ids(book)
<1> DEFINE hits == {w \in Offered(v) : HorizonOk(v) /\ Hit(preds[w])}
           o == Observe(book, v, hits)
           b == Settle(o, v, arrivals, curDev, pass.t)
<1>1. /\ book \in Book /\ Consistent(book) /\ pass.phase = "applying" /\ pass.epoch = epoch
      /\ v \in pass.todo
      /\ applied \in 0..MinStreak
      /\ \A i \in Ids(book) : book.incidents[i].epoch = epoch
      /\ Ids(book) # {} => applied = MinStreak
  BY DEF IInv, TypeOK, Applying, NothingCarriedOver
<1>2. /\ o \in Book /\ Consistent(o)
      /\ o.incidents = book.incidents /\ o.active = book.active
      /\ \A u \in Vehicles \ {v} : o.streaks[u] = book.streaks[u]
      /\ \A w \in Visits : o.streaks[v][w] <= book.streaks[v][w] + 1
  BY <1>1, ObserveLemma
<1> HIDE DEF o
<1>3. /\ b \in Book /\ Consistent(b)
      /\ SameIncidents(o, b)
      /\ b.streaks = o.streaks
      /\ b.active = o.active \/ b.active = [o.active EXCEPT ![v] = NoIncident]
      /\ \A j \in Ids(o) : ~Unresolved(o, j) =>
           /\ ~Unresolved(b, j)
           /\ b.incidents[j].outcome = o.incidents[j].outcome
  BY <1>2, SettleLemma
<1>4. b = Settled(v, preds, arrivals, curDev)
  BY DEF Settled, Observed, o
<1> HIDE DEF b
<1>5. Ids(b) = Ids(o) /\ Ids(o) = Ids(book)
  BY <1>2, <1>3 DEF SameIncidents, Ids
<1>6. \A u \in Vehicles \ {v} : b.active[u] = book.active[u] /\ b.streaks[u] = book.streaks[u]
  BY <1>1, <1>2, <1>3, BookFields
<1>7. \A w \in Visits : b.streaks[v][w] <= applied
  <2>1. SUFFICES ASSUME NEW w \in Visits PROVE b.streaks[v][w] <= applied
    OBVIOUS
  <2>2. /\ book.streaks[v][w] \in 0..MinStreak /\ o.streaks[v][w] \in 0..MinStreak
        /\ MinStreak \in Nat
    BY <1>1, <1>2, BookFields, Constants
  <2>3. book.streaks[v][w] < applied \/ applied = MinStreak
    BY <1>1 DEF IInv, StreaksBehind
  <2>4. b.streaks[v][w] = o.streaks[v][w] /\ o.streaks[v][w] <= book.streaks[v][w] + 1
    BY <1>2, <1>3
  <2>5. QED
    BY <1>1, <2>2, <2>3, <2>4
<1>8. \A i \in Ids(book) :
        /\ b.incidents[i].target = book.incidents[i].target
        /\ b.incidents[i].epoch = book.incidents[i].epoch
        /\ ~Unresolved(book, i) =>
             /\ ~Unresolved(b, i)
             /\ b.incidents[i].outcome = book.incidents[i].outcome
  BY <1>2, <1>3, <1>5 DEF SameIncidents, Unresolved
<1>9. QED
  BY <1>1, <1>3, <1>4, <1>5, <1>6, <1>7, <1>8 DEF Handled

(* Each way a vehicle may be handled.                                      *)
LEMMA HandledLemma ==
  ASSUME IInv, NEW v \in Vehicles, Applying(v),
         NEW preds \in [Offered(v) \cup Followed(v) -> Predictions], NEW arrivals, NEW curDev
  PROVE  /\ Handled(v, book)
         /\ Handled(v, Settled(v, preds, arrivals, curDev))
         /\ TaskUpdates(v, preds, arrivals, curDev) => Handled(v, book')
         /\ TaskOpens(v, preds, arrivals, curDev) => Handled(v, book')
         /\ TaskQuiet(v, preds, arrivals, curDev) => Handled(v, book')
<1> DEFINE b == Settled(v, preds, arrivals, curDev)
<1>1. Handled(v, b) /\ Ids(b) = Ids(book)
  BY SettledLemma
<1> HIDE DEF b
<1>2. Handled(v, book)
  BY DEF IInv, TypeOK, NothingCarriedOver, Handled
<1>3. ASSUME TaskUpdates(v, preds, arrivals, curDev) PROVE Handled(v, book')
  <2> DEFINE i == b.active[v]
             w == b.incidents[i].target
  <2>1. i # NoIncident /\ (book' = b \/ (w \in Offered(v) \cup Followed(v)
                                          /\ book' = UpdateIncident(b, i, preds[w])))
    BY <1>3 DEF TaskUpdates, b
  <2>2. i \in Ids(b)
    BY <1>1, <2>1 DEF Handled, Consistent, ActiveAgrees
  <2> HIDE DEF i
  <2>3. CASE book' = b
    BY <1>1, <2>3
  <2>4. CASE w \in Offered(v) \cup Followed(v) /\ book' = UpdateIncident(b, i, preds[w])
    <3>1. b \in Book /\ Consistent(b) /\ preds[w] \in Predictions
      BY <1>1, <2>4 DEF Handled
    <3>2. /\ book' \in Book /\ Consistent(book')
          /\ SameIncidents(b, book')
          /\ book'.active = b.active /\ book'.streaks = b.streaks
          /\ \A j \in Ids(b) : /\ book'.incidents[j].status = b.incidents[j].status
                               /\ book'.incidents[j].outcome = b.incidents[j].outcome
      <4> HIDE DEF w
      <4> QED BY <2>2, <2>4, <3>1, UpdateLemma
    <3>3. Ids(book') = Ids(b)
      BY <3>2 DEF SameIncidents, Ids
    <3>4. QED
      BY <1>1, <3>2, <3>3 DEF Handled, SameIncidents, Unresolved
  <2>5. QED
    BY SMTT(30), <2>1, <2>3, <2>4
<1>4. ASSUME TaskOpens(v, preds, arrivals, curDev) PROVE Handled(v, book')
  <2>1. PICK w \in Earliest(v, Alertable(b, v, preds)) :
          book' = OpenIncident(b, v, w, preds[w], pass.epoch)
    BY <1>4 DEF TaskOpens, b
  <2>2. w \in Offered(v) /\ CanOpen(b, v, w, HorizonOk(v), preds[w], clock.now)
    BY <2>1 DEF Earliest, Alertable
  <2>3. w \in Visits
    BY <2>2 DEF Offered, HorizonVisits, Window, Earliest, Beyond
  <2>4. /\ b \in Book /\ Consistent(b) /\ preds[w] \in Predictions
        /\ pass.epoch = epoch /\ epoch \in Nat
    BY <1>1, <2>2 DEF Handled, IInv, TypeOK, Applying, NothingCarriedOver
  <2>5. /\ b.active[v] = NoIncident /\ <<v, w>> \notin b.targets
        /\ b.streaks[v][w] >= MinStreak
    BY <2>2 DEF CanOpen
  <2>6. applied = MinStreak
    <3>1. b.streaks[v][w] \in 0..MinStreak /\ applied \in 0..MinStreak /\ MinStreak \in Nat
      BY <2>3, <2>4, BookFields, Constants DEF IInv, TypeOK
    <3>2. b.streaks[v][w] <= applied
      BY <1>1, <2>3 DEF Handled
    <3>3. QED
      BY <2>5, <3>1, <3>2
  <2> DEFINE n == Len(b.incidents) + 1
  <2>7. /\ book' \in Book /\ Consistent(book')
        /\ book'.streaks = b.streaks
        /\ book'.active = [b.active EXCEPT ![v] = n]
        /\ Len(book'.incidents) = n
        /\ \A j \in Ids(b) : book'.incidents[j] = b.incidents[j]
        /\ book'.incidents[n] = NewIncident(v, w, preds[w], pass.epoch)
    BY SMTT(30), <2>1, <2>3, <2>4, <2>5, OpenLemma
  <2>8. book'.incidents[n].epoch = epoch
    BY <2>4, <2>7 DEF NewIncident
  <2>9. Ids(book') = Ids(b) \cup {n}
    BY <2>4, <2>7, BookFields DEF Ids
  <2> HIDE DEF n
  <2>10. \A u \in Vehicles \ {v} : book'.active[u] = b.active[u]
    BY <2>4, <2>7, BookFields
  <2>11. QED
    BY <1>1, <2>6, <2>7, <2>8, <2>9, <2>10 DEF Handled, Unresolved
<1>5. ASSUME TaskQuiet(v, preds, arrivals, curDev) PROVE Handled(v, book')
  BY <1>1, <1>5 DEF TaskQuiet, b
<1>6. QED
  BY <1>1, <1>2, <1>3, <1>4, <1>5 DEF b

(* The rest of the step: the vehicle leaves the pass, its record follows.  *)
LEMMA TaskStep ==
  ASSUME IInv, NEW v \in Vehicles, Applying(v), TaskDone(v), Handled(v, book'),
         TypeOK', UNCHANGED <<epoch, applied, known>>, v \in known \/ book' = book,
         \A u \in known : recs'[u].openIncident = book'.active[u]
  PROVE  IInv'
<1>1. /\ pass'.phase = "idle" \/ (/\ pass'.phase = "applying" /\ pass'.epoch = epoch
                                 /\ pass'.todo = pass.todo \ {v} /\ pass'.tasks = pass.tasks)
      /\ pass.phase = "applying" /\ pass.epoch = epoch
      /\ pass.todo \subseteq Vehicles
  BY DEF IInv, TypeOK, Pass, Applying, TaskDone, Idle, NothingCarriedOver
<1>2. ActiveStaysOnMap'
  BY DEF Handled, IInv, ActiveStaysOnMap
<1>3. CachedIncidentIsActive'
  BY DEF CachedIncidentIsActive
<1>4. \A u \in Vehicles, w \in Visits : book'.streaks[u][w] <= applied
  BY DEF Handled, IInv, NothingCarriedOver
<1>5. NothingCarriedOver'
  BY <1>1, <1>4 DEF Handled, NothingCarriedOver
<1>6. StreaksBehind' /\ PassNotAhead'
  BY <1>1 DEF Handled, IInv, TypeOK, StreaksBehind, PassNotAhead
<1>7. \A u \in Vehicles \ {v} : ActiveTarget(u)' = ActiveTarget(u)
  <2>1. ASSUME NEW u \in Vehicles \ {v}, book.active[u] # NoIncident
        PROVE  book'.incidents[book.active[u]].target = book.incidents[book.active[u]].target
    BY <2>1 DEF Handled, IInv, Consistent, ActiveAgrees
  <2>2. QED
    BY <2>1 DEF ActiveTarget, Handled
<1>8. CapturedTargetHolds'
  BY <1>1, <1>7 DEF IInv, CapturedTargetHolds
<1>9. QED
  BY <1>2, <1>3, <1>5, <1>6, <1>8 DEF Handled, IInv

LEMMA TaskDoneType ==
  ASSUME TypeOK, NEW v \in Vehicles, Applying(v), TaskDone(v)
  PROVE  pass' \in Pass
<1>1. CASE pass.todo = {v}
  BY <1>1, Constants DEF TaskDone
<1>2. CASE pass.todo # {v}
  BY <1>2 DEF TaskDone, TypeOK, Pass
<1>3. QED
  BY <1>1, <1>2

LEMMA UpdateRecordType ==
  ASSUME IInv, NEW v \in known, NEW arrivals \in Arrivals(v), book' \in Book,
         UpdateRecord(v, arrivals), \A u \in Vehicles \ {v} : book'.active[u] = book.active[u]
  PROVE  /\ recs' \in [Vehicles -> Record]
         /\ \A u \in known : recs'[u].openIncident = book'.active[u]
         /\ known' = known
<1> DEFINE rec == [recs[v] EXCEPT !.arrivals = arrivals, !.openIncident = book'.active[v]]
<1>1. known \subseteq Vehicles /\ recs \in [Vehicles -> Record]
  BY DEF IInv, TypeOK
<1>2. arrivals \in [Visits -> Facts \cup {NoFact}] /\ book'.active[v] \in Nat
  BY <1>1, BookFields DEF Arrivals
<1>3. rec \in Record /\ rec.openIncident = book'.active[v]
  BY <1>1, <1>2 DEF Record
<1>4. recs' = [recs EXCEPT ![v] = rec] /\ known' = known
  BY DEF UpdateRecord
<1> HIDE DEF rec
<1>5. QED
  BY <1>1, <1>3, <1>4 DEF IInv, CachedIncidentIsActive

LEMMA SkipTaskStep == ASSUME IInv, NEW v \in Vehicles, SkipTask(v) PROVE IInv'
<1>1. Applying(v) /\ TaskDone(v) /\ UNCHANGED <<clock, silent, epoch, known, recs, book, runner, applied, errors>>
  BY DEF SkipTask, fleet
<1>2. Handled(v, book)
  BY DEF IInv, TypeOK, NothingCarriedOver, Handled
<1>3. TypeOK'
  BY <1>1, TaskDoneType DEF IInv, TypeOK
<1>4. \A u \in known : recs'[u].openIncident = book'.active[u]
  BY <1>1 DEF IInv, CachedIncidentIsActive
<1>5. QED
  BY <1>1, <1>2, <1>3, <1>4, TaskStep

(* What a result, or an exception while it is used, may do to the book.    *)
LEMMA TaskHandled ==
  ASSUME IInv, NEW v \in Vehicles, ApplyTask(v) \/ TaskRaises(v)
  PROVE  /\ Applying(v) /\ v \in known /\ TaskDone(v)
         /\ Handled(v, book')
         /\ \E arrivals \in Arrivals(v) : UpdateRecord(v, arrivals)
         /\ UNCHANGED <<clock, silent, epoch, runner, applied>>
         /\ errors' \in Nat
<1>1. CASE ApplyTask(v)
  <2>1. PICK preds \in [Offered(v) \cup Followed(v) -> Predictions],
             arrivals \in Arrivals(v), curDev \in Facts \cup {NoFact} :
          /\ \/ TaskUpdates(v, preds, arrivals, curDev)
             \/ TaskOpens(v, preds, arrivals, curDev)
             \/ TaskQuiet(v, preds, arrivals, curDev)
          /\ UpdateRecord(v, arrivals)
    BY <1>1 DEF ApplyTask
  <2>2. Applying(v)
    BY <1>1 DEF ApplyTask
  <2>3. Handled(v, book')
    BY <2>1, <2>2, HandledLemma
  <2>4. QED
    BY <1>1, <2>1, <2>2, <2>3 DEF ApplyTask, IInv, TypeOK
<1>2. CASE TaskRaises(v)
  <2>1. PICK preds \in [Offered(v) \cup Followed(v) -> Predictions],
             arrivals \in Arrivals(v), curDev \in Facts \cup {NoFact} :
          /\ \/ book' = book
             \/ book' = Settled(v, preds, arrivals, curDev)
          /\ UpdateRecord(v, arrivals)
    BY <1>2 DEF TaskRaises
  <2>2. Applying(v)
    BY <1>2 DEF TaskRaises
  <2>3. Handled(v, book')
    BY <2>1, <2>2, HandledLemma
  <2>4. QED
    BY <1>2, <2>1, <2>2, <2>3 DEF TaskRaises, IInv, TypeOK
<1>3. QED
  BY <1>1, <1>2

LEMMA ApplyStep ==
  ASSUME IInv, NEW v \in Vehicles, ApplyTask(v) \/ TaskRaises(v)
  PROVE  IInv'
<1>1. /\ Applying(v) /\ v \in known /\ TaskDone(v) /\ Handled(v, book')
      /\ UNCHANGED <<clock, silent, epoch, runner, applied>>
      /\ errors' \in Nat
  BY TaskHandled
<1>2. PICK arrivals \in Arrivals(v) : UpdateRecord(v, arrivals)
  BY TaskHandled
<1>3. /\ recs' \in [Vehicles -> Record]
      /\ \A u \in known : recs'[u].openIncident = book'.active[u]
      /\ known' = known
  BY <1>1, <1>2, UpdateRecordType DEF Handled
<1>4. TypeOK'
  BY <1>1, <1>3, TaskDoneType DEF Handled, IInv, TypeOK
<1>5. QED
  BY <1>1, <1>3, <1>4, TaskStep

-----------------------------------------------------------------------------
(* The invariant and what follows from it.                                 *)

LEMMA NextIInv == IInv /\ [Next]_vars => IInv'
<1> SUFFICES ASSUME IInv, [Next]_vars PROVE IInv'
  OBVIOUS
<1>1. ASSUME NEW id \in SessionIds, NEW sim \in Minutes, NEW st \in MessageStates,
             NEW warm \in WarmEnds,
             NewSession(id, sim, st, warm) \/ SameSession(id, sim, st, warm)
      PROVE  IInv'
  BY <1>1, MessageStep
<1>2. ASSUME NEW v \in Vehicles, NEW et \in Minutes,
             FrameStartsAutoSession(v, et) \/ FrameAccepted(v, et)
      PROVE  IInv'
  BY <1>2, FrameStep
<1>3. CASE Sweep
  BY <1>3, SweepStep
<1>4. ASSUME NEW i \in Ids(book), Ack(i) PROVE IInv'
  BY <1>4, AckStep
<1>5. ASSUME NEW failed \in SUBSET Vehicles, StartPass(failed) PROVE IInv'
  BY <1>5, StartPassStep
<1>6. CASE PassRaises \/ PassDiscarded
  BY <1>6, PassEndStep
<1>7. CASE PassReturns
  BY <1>7, PassReturnsStep
<1>8. ASSUME NEW v \in Vehicles, SkipTask(v) \/ ApplyTask(v) \/ TaskRaises(v) PROVE IInv'
  BY <1>8, SkipTaskStep, ApplyStep
<1>9. CASE FrameNotStored \/ Tick \/ GoSilent
  BY <1>9, IdleStep
<1>10. CASE UNCHANGED vars
  BY <1>10 DEF vars, fleet, IInv, TypeOK, ActiveStaysOnMap, CachedIncidentIsActive,
     NothingCarriedOver, StreaksBehind, PassNotAhead, CapturedTargetHolds, ActiveTarget
<1>11. QED
  BY <1>1, <1>2, <1>3, <1>4, <1>5, <1>6, <1>7, <1>8, <1>9, <1>10 DEF Next

(* Every reachable state satisfies the inductive invariant.                *)
THEOREM Invariant == Spec => []IInv
  BY InitIInv, NextIInv, PTL DEF Spec

(* Every variable keeps its type: the follow-up targets a pass captures    *)
(* are visits, the incidents of the book are whole.                        *)
THEOREM TypeCorrect == Spec => []TypeOK
<1>1. IInv => TypeOK
  BY DEF IInv
<1>2. QED
  BY <1>1, Invariant, PTL

(* The table of active incidents is exactly the set of unresolved ones.    *)
THEOREM BookAgrees == Spec => []ActiveIsTheUnresolved
<1>1. IInv => ActiveIsTheUnresolved
  BY DEF IInv, Consistent, ActiveAgrees, ActiveIsTheUnresolved
<1>2. QED
  BY <1>1, Invariant, PTL

(* A target is alerted at most once in a session.                          *)
THEOREM TargetsAlertedOnce == Spec => []OneIncidentPerTarget
<1>1. IInv => OneIncidentPerTarget
  BY DEF IInv, Consistent, TargetsAgree, OneIncidentPerTarget
<1>2. QED
  BY <1>1, Invariant, PTL

(* No incident and no streak of an old session is found in a new one.      *)
THEOREM SessionsSeparate == Spec => []NothingCarriedOver
<1>1. IInv => NothingCarriedOver
  BY DEF IInv
<1>2. QED
  BY <1>1, Invariant, PTL

(* The sweep never takes a vehicle with an active incident off the map.    *)
THEOREM ActiveKept == Spec => []ActiveStaysOnMap
<1>1. IInv => ActiveStaysOnMap
  BY DEF IInv
<1>2. QED
  BY <1>1, Invariant, PTL

(* The follow-up target captured before the awaits is right after them.    *)
THEOREM CaptureSound == Spec => []CapturedTargetHolds
<1>1. IInv => CapturedTargetHolds
  BY DEF IInv
<1>2. QED
  BY <1>1, Invariant, PTL

(* The copy of the active incident in the vehicle's record is never stale. *)
THEOREM CacheSound == Spec => []CachedIncidentIsActive
<1>1. IInv => CachedIncidentIsActive
  BY DEF IInv
<1>2. QED
  BY <1>1, Invariant, PTL

-----------------------------------------------------------------------------
(* Resolved incidents are final.                                           *)

(* One step of any handler: incidents stay, resolved ones keep an outcome. *)
LEMMA FinalStep ==
  ASSUME IInv, [Next]_vars, epoch' = epoch, NEW i \in Ids(book)
  PROVE  /\ i \in Ids(book')
         /\ ~Unresolved(book, i) =>
              /\ ~Unresolved(book', i)
              /\ book'.incidents[i].outcome = book.incidents[i].outcome
<1>1. CASE book' = book
  BY <1>1
<1>2. ASSUME NEW k \in Ids(book), Ack(k)
      PROVE  /\ i \in Ids(book')
             /\ ~Unresolved(book, i) =>
                  /\ ~Unresolved(book', i)
                  /\ book'.incidents[i].outcome = book.incidents[i].outcome
  BY <1>2, AckLemma DEF Ack, IInv, TypeOK, SameIncidents, Ids
<1>3. ASSUME NEW v \in Vehicles, ApplyTask(v) \/ TaskRaises(v)
      PROVE  /\ i \in Ids(book')
             /\ ~Unresolved(book, i) =>
                  /\ ~Unresolved(book', i)
                  /\ book'.incidents[i].outcome = book.incidents[i].outcome
  BY <1>3, TaskHandled DEF Handled
<1>4. epoch' # epoch + 1
  BY DEF IInv, TypeOK
<1>5. \/ book' = book
      \/ \E k \in Ids(book) : Ack(k)
      \/ \E v \in Vehicles : ApplyTask(v) \/ TaskRaises(v)
  BY <1>4 DEF Next, vars, NewSession, ResetSession, SameSession, FrameStartsAutoSession,
     FrameAccepted, FrameNotStored, Sweep, StartPass, PassRaises, PassDiscarded,
     PassReturns, SkipTask, Tick, GoSilent
<1>6. QED
  BY <1>1, <1>2, <1>3, <1>5

(* Within a session no incident is lost and no outcome is rewritten.       *)
THEOREM OutcomesFinal == Spec => ResolvedIsFinal
<1>1. IInv /\ [Next]_vars =>
        [epoch' = epoch =>
           \A i \in Ids(book) :
             /\ i \in Ids(book')
             /\ ~Unresolved(book, i) =>
                  /\ ~Unresolved(book', i)
                  /\ book'.incidents[i].outcome = book.incidents[i].outcome]_vars
  BY FinalStep
<1>2. QED
  BY <1>1, Invariant, PTL DEF Spec, ResolvedIsFinal

-----------------------------------------------------------------------------
(* No alert for a visit that was made.                                     *)

(* Arrivals are recorded only at visits that lie behind a pass of this     *)
(* session.                                                                *)
ArrivalsBehind ==
  \A v \in Vehicles, w \in Visits :
    recs[v].arrivals[w] # NoFact => LastT # None /\ PlannedAt[v][w] <= LastT

(* The minutes of the passes of a session never decrease: the pass in      *)
(* flight is not before the last one, and the pass being applied is it.    *)
PassMinutesGrow ==
  /\ pass.phase # "idle" => runner.epoch = pass.epoch
  /\ pass.phase = "inflight" /\ runner.lastT # None => runner.lastT <= pass.t
  /\ pass.phase = "applying" => runner.lastT = pass.t

MinutesInv == IInv /\ ArrivalsBehind /\ PassMinutesGrow

LEMMA PassFields ==
  ASSUME TypeOK
  PROVE  /\ pass.phase \in {"idle", "inflight", "applying"}
         /\ pass.epoch \in Nat /\ pass.t \in Nat /\ clock.now \in Nat
         /\ clock.now <= MaxNow /\ MaxNow \in Nat
         /\ runner.lastT # None => runner.lastT \in Nat /\ runner.lastT <= MaxNow
         /\ pass.t # None
         /\ \A v \in Vehicles, w \in Visits : PlannedAt[v][w] \in Nat
<1>1. MaxNow \in Nat /\ None \notin Nat /\ PlannedAt \in [Vehicles -> [Visits -> Nat]]
  BY PipelineAssumption, BookAssumption
<1>2. \A m \in Minutes : m \in Nat /\ m <= MaxNow
  BY <1>1 DEF Minutes
<1>3. /\ pass.phase \in {"idle", "inflight", "applying"}
      /\ pass.epoch \in Nat /\ pass.t \in Minutes /\ clock.now \in Minutes
      /\ runner.lastT # None => runner.lastT \in Minutes
  BY DEF TypeOK, Pass, Clock
<1>4. QED
  BY <1>1, <1>2, <1>3

LEMMA InitMinutes == Init => ArrivalsBehind /\ PassMinutesGrow
<1> SUFFICES ASSUME Init PROVE ArrivalsBehind /\ PassMinutesGrow
  OBVIOUS
<1>1. \A v \in Vehicles, w \in Visits : recs[v].arrivals[w] = NoFact
  BY DEF Init, NewRecord
<1>2. QED
  BY <1>1 DEF Init, Idle, ArrivalsBehind, PassMinutesGrow

(* Steps that leave the runner and the pass alone: a new session forgets   *)
(* all arrivals, the others record none.                                   *)
LEMMA NoNewArrivals ==
  ASSUME MinutesInv, UNCHANGED <<pass, runner>>,
         \A v \in Vehicles, w \in Visits :
           recs'[v].arrivals[w] # NoFact =>
             epoch' = epoch /\ recs'[v].arrivals[w] = recs[v].arrivals[w]
  PROVE  (ArrivalsBehind /\ PassMinutesGrow)'
<1>1. PassMinutesGrow'
  BY DEF MinutesInv, PassMinutesGrow
<1>2. epoch' = epoch => LastT' = LastT
  BY DEF LastT
<1>3. ArrivalsBehind'
  BY <1>2 DEF MinutesInv, ArrivalsBehind
<1>4. QED
  BY <1>1, <1>3

LEMMA FrameArrivals ==
  ASSUME IInv, NEW v \in Vehicles, NEW et \in Minutes, FrameAccepted(v, et)
  PROVE  \A u \in Vehicles, w \in Visits :
           recs'[u].arrivals[w] # NoFact => recs'[u].arrivals[w] = recs[u].arrivals[w]
<1> DEFINE rec == IF v \in known THEN Added(recs[v], et)
                  ELSE [NewRecord EXCEPT !.first = et, !.last = et]
<1>1. recs' = [recs EXCEPT ![v] = rec] /\ recs \in [Vehicles -> Record]
  BY DEF FrameAccepted, Stored, IInv, TypeOK
<1>2. \A w \in Visits : rec.arrivals[w] # NoFact => rec.arrivals[w] = recs[v].arrivals[w]
  <2>1. CASE v \in known
    BY <1>1, <2>1 DEF Added, Record
  <2>2. CASE v \notin known
    BY <2>2 DEF NewRecord
  <2>3. QED
    BY <2>1, <2>2
<1> HIDE DEF rec
<1>3. QED
  BY <1>1, <1>2

(* A task is handled: what it records lies behind the minute of its pass.  *)
LEMMA TaskArrivals ==
  ASSUME MinutesInv, NEW v \in Vehicles, ApplyTask(v) \/ TaskRaises(v)
  PROVE  (ArrivalsBehind /\ PassMinutesGrow)'
<1>1. /\ Applying(v) /\ v \in known /\ TaskDone(v)
      /\ UNCHANGED <<clock, silent, epoch, runner, applied>>
  BY TaskHandled DEF MinutesInv
<1>2. PICK arrivals \in Arrivals(v) : UpdateRecord(v, arrivals)
  BY TaskHandled DEF MinutesInv
<1>3. /\ pass.phase = "applying" /\ pass.epoch = epoch
      /\ runner.lastT = pass.t /\ runner.epoch = epoch
  BY <1>1 DEF MinutesInv, IInv, NothingCarriedOver, PassMinutesGrow, Applying
<1>4. LastT' = LastT /\ LastT = pass.t /\ pass.t # None
  BY <1>1, <1>3, PassFields DEF LastT, MinutesInv, IInv
<1>5. \A w \in Visits :
        arrivals[w] # NoFact => PlannedAt[v][w] <= pass.t
  <2>1. SUFFICES ASSUME NEW w \in Visits, arrivals[w] # NoFact PROVE PlannedAt[v][w] <= pass.t
    OBVIOUS
  <2>2. recs[v].arrivals[w] # NoFact \/ ~(PlannedAt[v][w] > pass.t)
    BY <2>1 DEF Arrivals
  <2>3. PlannedAt[v][w] \in Nat /\ pass.t \in Nat
    BY PassFields DEF MinutesInv, IInv
  <2>4. QED
    BY <1>4, <2>2, <2>3 DEF MinutesInv, ArrivalsBehind
<1>6. /\ recs'[v].arrivals = arrivals
      /\ \A u \in Vehicles \ {v} : recs'[u] = recs[u]
  <2>1. recs \in [Vehicles -> Record]
    BY DEF MinutesInv, IInv, TypeOK
  <2>2. recs[v] \in Record
    BY <2>1
  <2>3. recs' = [recs EXCEPT ![v] =
                   [recs[v] EXCEPT !.arrivals = arrivals, !.openIncident = book'.active[v]]]
    BY <1>2 DEF UpdateRecord
  <2>4. [recs[v] EXCEPT !.arrivals = arrivals,
                        !.openIncident = book'.active[v]].arrivals = arrivals
    BY <2>2 DEF Record
  <2>5. QED
    BY <2>1, <2>3, <2>4
<1>7. ArrivalsBehind'
  BY <1>4, <1>5, <1>6 DEF MinutesInv, ArrivalsBehind
<1>8. pass' = Idle \/ (pass'.phase = "applying" /\ pass'.epoch = pass.epoch /\ pass'.t = pass.t)
  BY <1>1, <1>3 DEF TaskDone, MinutesInv, IInv, TypeOK, Pass
<1>9. PassMinutesGrow'
  BY <1>1, <1>3, <1>8 DEF PassMinutesGrow, Idle
<1>10. QED
  BY <1>7, <1>9

(* A pass starts at a later minute than the last one, or repeats the last  *)
(* of the day.                                                             *)
LEMMA StartMinutes ==
  ASSUME MinutesInv, NEW failed \in SUBSET Vehicles, StartPass(failed)
  PROVE  (ArrivalsBehind /\ PassMinutesGrow)'
<1>1. /\ pass'.phase = "inflight" /\ pass'.epoch = epoch /\ pass'.t = clock.now
      /\ runner' = [lastT |-> LastT, epoch |-> epoch]
      /\ epoch' = epoch /\ recs' = recs
      /\ Due
  BY DEF StartPass, fleet
<1>2. LastT # None => LastT <= clock.now
  BY <1>1, PassFields DEF Due, LastT, MinutesInv, IInv
<1>3. LastT' = LastT
  BY <1>1 DEF LastT
<1>4. QED
  BY <1>1, <1>2, <1>3 DEF MinutesInv, ArrivalsBehind, PassMinutesGrow

(* The end of a pass in flight.  Its minute counts as that of the last     *)
(* pass even when it is of an old session, which then has no arrivals.     *)
LEMMA EndMinutes ==
  ASSUME MinutesInv, PassRaises \/ PassDiscarded \/ PassReturns
  PROVE  (ArrivalsBehind /\ PassMinutesGrow)'
<1>1. /\ pass.phase = "inflight" /\ epoch' = epoch /\ recs' = recs
      /\ runner' = runner \/ runner' = [runner EXCEPT !.lastT = pass.t]
      /\ runner \in [lastT: Minutes \cup {None}, epoch: Nat \cup {None}]
  BY DEF PassRaises, PassDiscarded, PassReturns, fleet, MinutesInv, IInv, TypeOK
<1>2. runner'.epoch = runner.epoch /\ runner'.lastT \in {runner.lastT, pass.t}
  BY <1>1
<1>3. \/ pass' = Idle
      \/ /\ pass'.phase = "applying" /\ pass'.epoch = pass.epoch /\ pass'.t = pass.t
         /\ runner'.lastT = pass.t
  <2>1. pass \in Pass
    BY DEF MinutesInv, IInv, TypeOK
  <2>2. QED
    BY ZenonT(30), <1>1, <2>1 DEF PassRaises, PassDiscarded, PassReturns, Pass
<1>4. PassMinutesGrow'
  BY <1>1, <1>2, <1>3 DEF MinutesInv, PassMinutesGrow, Idle
<1>5. LastT # None => LastT' # None /\ LastT <= LastT'
  <2>1. ASSUME LastT # None
        PROVE  /\ runner.epoch = epoch /\ LastT = runner.lastT /\ runner.lastT \in Nat
               /\ runner.lastT <= pass.t
               /\ LastT' = runner'.lastT
    BY <1>1, <1>2, <2>1, PassFields DEF LastT, MinutesInv, IInv, PassMinutesGrow
  <2>2. QED
    BY <1>2, <2>1, PassFields DEF MinutesInv, IInv
<1>6. ArrivalsBehind'
  <2>1. SUFFICES ASSUME NEW v \in Vehicles, NEW w \in Visits, recs[v].arrivals[w] # NoFact
                 PROVE  LastT' # None /\ PlannedAt[v][w] <= LastT'
    BY <1>1 DEF ArrivalsBehind
  <2>2. LastT # None /\ PlannedAt[v][w] <= LastT
    BY <2>1 DEF MinutesInv, ArrivalsBehind
  <2>3. LastT' \in Nat /\ LastT \in Nat /\ PlannedAt[v][w] \in Nat
    BY <1>2, <1>5, <2>2, PassFields DEF LastT, MinutesInv, IInv
  <2>4. QED
    BY <1>5, <2>2, <2>3
<1>7. QED
  BY <1>4, <1>6

LEMMA NextMinutes == MinutesInv /\ [Next]_vars => MinutesInv'
<1> SUFFICES ASSUME MinutesInv, [Next]_vars PROVE (ArrivalsBehind /\ PassMinutesGrow)'
  BY NextIInv DEF MinutesInv
<1>1. IInv
  BY DEF MinutesInv
<1>2. ASSUME NEW id \in SessionIds, NEW sim \in Minutes, NEW st \in MessageStates,
             NEW warm \in WarmEnds,
             NewSession(id, sim, st, warm) \/ SameSession(id, sim, st, warm)
      PROVE  (ArrivalsBehind /\ PassMinutesGrow)'
  BY <1>2, NoNewArrivals DEF NewSession, ResetSession, SameSession, fleet, NewRecord
<1>3. ASSUME NEW v \in Vehicles, NEW et \in Minutes, FrameStartsAutoSession(v, et)
      PROVE  (ArrivalsBehind /\ PassMinutesGrow)'
  <2>1. \A u \in Vehicles, w \in Visits : recs'[u].arrivals[w] = NoFact
    BY <1>3 DEF FrameStartsAutoSession, NewRecord
  <2>2. QED
    BY <1>3, <2>1, NoNewArrivals DEF FrameStartsAutoSession
<1>4. ASSUME NEW v \in Vehicles, NEW et \in Minutes, FrameAccepted(v, et)
      PROVE  (ArrivalsBehind /\ PassMinutesGrow)'
  BY <1>1, <1>4, FrameArrivals, NoNewArrivals DEF FrameAccepted
<1>5. CASE Sweep
  <2>1. \A u \in Vehicles : recs'[u] = recs[u] \/ recs'[u] = NewRecord
    BY <1>5 DEF Sweep
  <2>2. QED
    BY <1>5, <2>1, NoNewArrivals DEF Sweep, NewRecord
<1>6. CASE \/ FrameNotStored \/ Tick \/ GoSilent
           \/ \E i \in Ids(book) : Ack(i)
           \/ UNCHANGED vars
  BY <1>6, NoNewArrivals DEF FrameNotStored, Tick, GoSilent, Ack, vars, fleet
<1>7. ASSUME NEW v \in Vehicles, SkipTask(v) PROVE (ArrivalsBehind /\ PassMinutesGrow)'
  <2>1. /\ pass.phase = "applying" /\ UNCHANGED <<epoch, recs, runner>>
        /\ pass' = Idle \/ (pass'.phase = pass.phase /\ pass'.epoch = pass.epoch
                            /\ pass'.t = pass.t)
    BY <1>1, <1>7 DEF SkipTask, Applying, TaskDone, fleet, IInv, TypeOK, Pass
  <2>2. LastT' = LastT
    BY <2>1 DEF LastT
  <2>3. QED
    BY <2>1, <2>2 DEF MinutesInv, ArrivalsBehind, PassMinutesGrow, Idle
<1>8. QED
  BY <1>2, <1>3, <1>4, <1>5, <1>6, <1>7, TaskArrivals, StartMinutes, EndMinutes DEF Next

(* What one step opens has not been visited: its target lies ahead of the  *)
(* pass, and all arrivals behind it.                                       *)
LEMMA OpensAhead ==
  ASSUME MinutesInv, [Next]_vars, NEW i \in Ids(book') \ Ids(book)
  PROVE  recs'[book'.incidents[i].vehicle].arrivals[book'.incidents[i].target] = NoFact
<1>1. IInv
  BY DEF MinutesInv
<1>2. Ids(book') # {} /\ ~(Ids(book') \subseteq Ids(book))
  OBVIOUS
<1>3. \A k \in Ids(book) : ~Ack(k)
  BY <1>1, <1>2, AckLemma DEF Ack, IInv, TypeOK, SameIncidents, Ids
<1>4. book' # book /\ book' # EmptyBook
  BY <1>2 DEF EmptyBook, Ids
<1>5. PICK v \in Vehicles : ApplyTask(v) \/ TaskRaises(v)
  <2>1. \A id, sim, st, warm : /\ NewSession(id, sim, st, warm) => book' = EmptyBook
                               /\ SameSession(id, sim, st, warm) => book' = book
    BY DEF NewSession, ResetSession, SameSession
  <2>2. \A v, et : /\ FrameStartsAutoSession(v, et) => book' = EmptyBook
                   /\ FrameAccepted(v, et) => book' = book
    BY DEF FrameStartsAutoSession, FrameAccepted
  <2>3. FrameNotStored \/ Sweep \/ Tick \/ GoSilent \/ UNCHANGED vars => book' = book
    BY DEF FrameNotStored, Sweep, Tick, GoSilent, vars
  <2>4. /\ \A failed : StartPass(failed) => book' = book
        /\ PassRaises \/ PassDiscarded \/ PassReturns => book' = book
        /\ \A v : SkipTask(v) => book' = book
    BY DEF StartPass, PassRaises, PassDiscarded, PassReturns, SkipTask
  <2>5. QED
    BY <1>3, <1>4, <2>1, <2>2, <2>3, <2>4 DEF Next
<1>6. /\ Applying(v) /\ v \in known
      /\ pass.phase = "applying" /\ runner.lastT = pass.t /\ runner.epoch = epoch
  BY <1>1, <1>5, TaskHandled
     DEF MinutesInv, IInv, NothingCarriedOver, PassMinutesGrow, Applying
<1>7. LastT = pass.t
  BY <1>6 DEF LastT
<1>8. ~TaskRaises(v)
  BY <1>1, <1>2, <1>6, SettledLemma DEF TaskRaises
<1>9. PICK preds \in [Offered(v) \cup Followed(v) -> Predictions],
           arrivals \in Arrivals(v), curDev \in Facts \cup {NoFact} :
        /\ \/ TaskUpdates(v, preds, arrivals, curDev)
           \/ TaskOpens(v, preds, arrivals, curDev)
           \/ TaskQuiet(v, preds, arrivals, curDev)
        /\ UpdateRecord(v, arrivals)
  BY <1>5, <1>8 DEF ApplyTask
<1> DEFINE b == Settled(v, preds, arrivals, curDev)
<1>10. Handled(v, b) /\ Ids(b) = Ids(book)
  BY <1>1, <1>6, SettledLemma
<1> HIDE DEF b
<1>11. ~TaskQuiet(v, preds, arrivals, curDev)
  BY <1>2, <1>10 DEF TaskQuiet, b
<1>12. ~TaskUpdates(v, preds, arrivals, curDev)
  <2>1. SUFFICES ASSUME TaskUpdates(v, preds, arrivals, curDev) PROVE FALSE
    BY SMTT(30)
  <2> DEFINE j == b.active[v]
  <2>2. j # NoIncident
        /\ (book' = b \/ book' = UpdateIncident(b, j, preds[b.incidents[j].target]))
    BY <2>1 DEF TaskUpdates, b
  <2>3. Len(UpdateIncident(b, j, preds[b.incidents[j].target]).incidents) = Len(b.incidents)
    <3>1. b \in Book
      BY <1>10 DEF Handled
    <3>2. b.incidents \in Seq(Incident) /\ j \in Nat
      BY <3>1, BookFields
    <3>3. QED
      BY <3>1, <3>2 DEF UpdateIncident, Book
  <2>4. Ids(book') = Ids(b)
    BY <2>2, <2>3 DEF Ids
  <2>5. QED
    BY <1>2, <1>10, <2>4
<1>13. PICK w \in Earliest(v, Alertable(b, v, preds)) :
         book' = OpenIncident(b, v, w, preds[w], pass.epoch)
  BY <1>9, <1>11, <1>12 DEF TaskOpens, b
<1>14. w \in Offered(v) /\ CanOpen(b, v, w, HorizonOk(v), preds[w], clock.now)
  BY <1>13 DEF Earliest, Alertable
<1>15. w \in Visits /\ pass.t + HorizonLow < PlannedAt[v][w]
  BY <1>14 DEF Offered, HorizonVisits, HorizonOk, CanOpen, Window
<1>16. recs[v].arrivals[w] = NoFact /\ PlannedAt[v][w] > pass.t
  <2>1. pass.t \in Nat /\ PlannedAt[v][w] \in Nat /\ HorizonLow \in Nat
    BY <1>1, <1>15, PassFields, PipelineAssumption DEF IInv
  <2>2. QED
    BY <1>7, <1>15, <2>1 DEF MinutesInv, ArrivalsBehind
<1>17. arrivals[w] = NoFact
  BY <1>15, <1>16 DEF Arrivals
<1>18. recs'[v].arrivals = arrivals
  <2>1. recs \in [Vehicles -> Record] /\ recs[v] \in Record
    BY <1>1 DEF IInv, TypeOK
  <2>2. QED
    BY <1>9, <2>1 DEF UpdateRecord, Record
<1>19. book'.incidents[i].vehicle = v /\ book'.incidents[i].target = w
  <2>1. b \in Book
    BY <1>10 DEF Handled
  <2>2. b.incidents \in Seq(Incident)
    BY <2>1, BookFields
  <2>3. book'.incidents = Append(b.incidents, NewIncident(v, w, preds[w], pass.epoch))
    BY <1>13, <2>1 DEF OpenIncident, Book
  <2>4. i = Len(b.incidents) + 1
    BY <1>10, <2>2, <2>3 DEF Ids
  <2>5. book'.incidents[i] = NewIncident(v, w, preds[w], pass.epoch)
    BY <2>2, <2>3, <2>4
  <2>6. QED
    BY <2>5 DEF NewIncident
<1>20. QED
  BY <1>17, <1>18, <1>19

(* A dispatcher is never alerted about a visit the vehicle has made, even  *)
(* when the clock is moved back: the minutes of the passes of a session    *)
(* grow, and the window lies ahead of them.                                *)
THEOREM NoLateAlert == Spec => NoAlertAfterArrival
<1>1. Init => MinutesInv
  BY InitIInv, InitMinutes DEF MinutesInv
<1>2. MinutesInv /\ [Next]_vars =>
        [\A i \in Ids(book') \ Ids(book) :
           recs'[book'.incidents[i].vehicle].arrivals[book'.incidents[i].target] = NoFact]_vars
  BY OpensAhead
<1>3. QED
  BY <1>1, <1>2, NextMinutes, PTL DEF Spec, NoAlertAfterArrival
=============================================================================
