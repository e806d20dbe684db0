--------------------------- MODULE StreamHub_proofs ---------------------------
(***************************************************************************)
(* Proofs about the stream, for any number of dashboards, vehicles and     *)
(* incidents and any size of the queues: it keeps the promise of           *)
(* StreamMirror.                                                           *)
(***************************************************************************)
EXTENDS StreamHub, SequenceTheorems, TLAPS

SessionIds == Sessions \cup {NoSession}
Tolds == [session: SessionIds, vehicles: Fleets, incidents: Books, withdrawn: SUBSET Incidents]

(* What m tells a dashboard that shows t is what the hub meant it to show. *)
(* Silence about an incident ends with a snapshot or its own message.      *)
Leads(t, m) ==
  LET u == m.told.withdrawn
  IN  /\ m.kind = "snapshot" => m.told = Told(m.session, m.vehicles, m.incidents, u)
      /\ m.kind # "snapshot" => m.session = t.session
      /\ m.kind = "vehicles.delta" =>
           /\ t.withdrawn \subseteq u
           /\ m.told = Told(t.session, UpsertVehicles(t.vehicles, m), t.incidents, u)
      /\ m.kind = "incident" =>
           /\ t.withdrawn \subseteq u \cup {m.id}
           /\ m.told = Told(t.session, t.vehicles, With(t.incidents, m.id, m.status), u)
      /\ m.kind \in {"system.status", "other"} =>
           /\ t.withdrawn \subseteq u
           /\ m.told = Told(t.session, t.vehicles, t.incidents, u)

(* p says what t says, or is silent about more incidents.                  *)
Fades(t, p) ==
  /\ t.withdrawn \subseteq p.withdrawn
  /\ p = Told(t.session, t.vehicles, t.incidents, p.withdrawn)

(* What is told before the n-th message of ms, beginning with t.           *)
Before(t, ms, n) == IF n = 1 THEN t ELSE ms[n - 1].told

Chain(t, ms) == \A n \in 1..Len(ms) : Leads(Before(t, ms, n), ms[n])
LastTold(t, ms) == IF ms = <<>> THEN t ELSE ms[Len(ms)].told

(* The messages ms take a dashboard that shows t to u.                     *)
Conveys(t, ms, u) == ms \in Seq(Message) /\ Chain(t, ms) /\ LastTold(t, ms) = u

Pending(d) == wire[d] \o (IF d \in clients THEN queue[d] ELSE <<>>)
Present == Told(session, lastSent, book, missed)

(* Each message on its way to a dashboard continues what was told before.  *)
InOrder == \A d \in Dashboards : Pending(d) \in Seq(Message) /\ Chain(Shown(d), Pending(d))

(* The messages on their way to a client lead to what was published last,  *)
(* but for changes nobody was told of since.                               *)
LeadsToPresent == \A d \in clients : Fades(LastTold(Shown(d), Pending(d)), Present)

(* A socket that is not up has no client and an empty queue, and one that  *)
(* is down holds nothing; a queue that is no client's has at most Closing. *)
SocketsMatch ==
  \A d \in Dashboards :
    /\ d \in clients => queue[d] \in Seq(Message) /\ link[d] = "up"
    /\ d \notin clients => queue[d] \in {<<>>, <<Closing>>}
    /\ link[d] # "up" => queue[d] = <<>>
    /\ link[d] = "down" => wire[d] = <<>>

IInv == TypeOK /\ SocketsMatch /\ InOrder /\ LeadsToPresent

-----------------------------------------------------------------------------
(* Messages.                                                               *)

LEMMA MessageFacts ==
  ASSUME NEW m \in Message
  PROVE  /\ m.told \in Tolds /\ m # Closing
         /\ m.kind \in {"snapshot", "vehicles.delta", "incident", "system.status", "other"}
         /\ m.kind \in {"snapshot", "system.status"} => m.mode \in Modes
         /\ m.kind = "snapshot" => m.incidents \in Books
         /\ m.kind = "incident" => m.id \in Incidents /\ m.status \in Statuses
<1> DEFINE told == [session: SessionIds, vehicles: Fleets, incidents: Books,
                    withdrawn: SUBSET Incidents]
           S1 == [kind: {"snapshot"}, session: SessionIds, vehicles: Fleets, incidents: Books,
                  mode: Modes, told: told]
           S2 == [kind: {"vehicles.delta"}, session: SessionIds, vehicles: Fleets,
                  removed: SUBSET Vehicles, told: told]
           S3 == [kind: {"incident"}, session: SessionIds, id: Incidents, status: Statuses,
                  told: told]
           S4 == [kind: {"system.status"}, session: SessionIds, mode: Modes, told: told]
           S5 == [kind: {"other"}, session: SessionIds, told: told]
<1>1. m \in S1 \cup S2 \cup S3 \cup S4 \cup S5
  BY DEF Message, SessionIds
<1> HIDE DEF told
<1>2. /\ m.told \in told
      /\ m.kind \in {"snapshot", "vehicles.delta", "incident", "system.status", "other"}
      /\ m.kind \in {"snapshot", "system.status"} => m.mode \in Modes
      /\ m.kind = "snapshot" => m.incidents \in Books
      /\ m.kind = "incident" => m.id \in Incidents /\ m.status \in Statuses
  <2>1. CASE m \in S1
    BY <2>1
  <2>2. CASE m \in S2
    BY <2>2
  <2>3. CASE m \in S3
    BY <2>3
  <2>4. CASE m \in S4
    BY <2>4
  <2>5. CASE m \in S5
    BY <2>5
  <2> QED
    BY <1>1, <2>1, <2>2, <2>3, <2>4, <2>5
<1>3. Closing.kind = "closing"
  BY DEF Closing
<1> QED
  BY <1>2, <1>3 DEF told, Tolds

(* Being silent about incidents.                                           *)
LEMMA WithoutTwice ==
  ASSUME NEW b, NEW u, NEW w, u \subseteq w
  PROVE  Without(Without(b, u), w) = Without(b, w)
<1>1. DOMAIN Without(b, u) = DOMAIN b \ u /\ \A i \in DOMAIN b \ u : Without(b, u)[i] = b[i]
  BY DEF Without
<1>2. DOMAIN Without(b, u) \ w = DOMAIN b \ w
  BY <1>1
<1> QED
  BY <1>1, <1>2 DEF Without

LEMMA WithoutChanged ==
  ASSUME NEW b, NEW i, NEW st, NEW u, NEW w, u \subseteq w \cup {i}
  PROVE  Without(With(Without(b, u), i, st), w) = Without(With(b, i, st), w)
<1> DEFINE x == With(Without(b, u), i, st)
           y == With(b, i, st)
<1>1. DOMAIN Without(b, u) = DOMAIN b \ u /\ \A j \in DOMAIN b \ u : Without(b, u)[j] = b[j]
  BY DEF Without
<1>2. DOMAIN x = (DOMAIN b \ u) \cup {i} /\ DOMAIN y = DOMAIN b \cup {i}
  BY <1>1 DEF With
<1>3. DOMAIN x \ w = DOMAIN y \ w
  BY <1>2
<1>4. \A j \in DOMAIN y \ w : x[j] = y[j]
  BY <1>1, <1>2, <1>3 DEF With
<1> HIDE DEF x, y
<1>5. Without(x, w) = Without(y, w)
  BY <1>3, <1>4 DEF Without
<1> QED
  BY <1>5 DEF x, y

LEMMA WithoutTyped == ASSUME NEW b \in Books, NEW u PROVE Without(b, u) \in Books
<1>1. DOMAIN b \in SUBSET Incidents /\ b \in [DOMAIN b -> Statuses]
  BY DEF Books, PartialMaps
<1>2. Without(b, u) \in [DOMAIN b \ u -> Statuses] /\ DOMAIN b \ u \in SUBSET Incidents
  BY <1>1 DEF Without
<1> QED
  BY <1>2 DEF Books, PartialMaps

LEMMA ToldFields ==
  ASSUME NEW s, NEW vs, NEW b, NEW u
  PROVE  /\ Told(s, vs, b, u).session = s /\ Told(s, vs, b, u).vehicles = vs
         /\ Told(s, vs, b, u).incidents = Without(b, u) /\ Told(s, vs, b, u).withdrawn = u
BY DEF Told

(* What is told once more with more silence.                               *)
LEMMA ToldAgain ==
  ASSUME NEW s, NEW vs, NEW b, NEW u, NEW w, u \subseteq w
  PROVE  /\ Told(s, vs, Without(b, u), w) = Told(s, vs, b, w)
         /\ Fades(Told(s, vs, b, u), Told(s, vs, b, w))
<1>1. Told(s, vs, Without(b, u), w) = Told(s, vs, b, w)
  BY WithoutTwice DEF Told
<1> QED
  BY <1>1, ToldFields DEF Fades

LEMMA FadesOn ==
  ASSUME NEW t, NEW p, NEW q, Fades(t, p), Fades(p, q)
  PROVE  Fades(t, q)
<1>1. /\ p.session = t.session /\ p.vehicles = t.vehicles /\ t.withdrawn \subseteq p.withdrawn
      /\ p.incidents = Without(t.incidents, p.withdrawn)
  BY ToldFields DEF Fades
<1>2. p.withdrawn \subseteq q.withdrawn /\ q = Told(p.session, p.vehicles, p.incidents, q.withdrawn)
  BY DEF Fades
<1>3. q = Told(t.session, t.vehicles, t.incidents, q.withdrawn)
  BY <1>1, <1>2, ToldAgain
<1> QED
  BY <1>1, <1>2, <1>3 DEF Fades

(* A message that continues what is published continues what fades to it.  *)
LEMMA FadesLeads ==
  ASSUME NEW t, NEW p, NEW m, Fades(t, p), Leads(p, m)
  PROVE  Leads(t, m)
<1> DEFINE u == m.told.withdrawn
<1>1. /\ p.session = t.session /\ p.vehicles = t.vehicles /\ t.withdrawn \subseteq p.withdrawn
      /\ p.incidents = Without(t.incidents, p.withdrawn)
  BY ToldFields DEF Fades
<1>2. ASSUME m.kind = "vehicles.delta" \/ m.kind \in {"system.status", "other"}
      PROVE  /\ p.withdrawn \subseteq u
             /\ \A vs : Told(t.session, vs, p.incidents, u) = Told(t.session, vs, t.incidents, u)
  <2>1. p.withdrawn \subseteq u
    BY <1>2 DEF Leads
  <2> QED
    BY <1>1, <2>1, ToldAgain
<1>3. ASSUME m.kind = "incident"
      PROVE  /\ p.withdrawn \subseteq u \cup {m.id}
             /\ Told(t.session, t.vehicles, With(p.incidents, m.id, m.status), u)
                  = Told(t.session, t.vehicles, With(t.incidents, m.id, m.status), u)
  <2>1. p.withdrawn \subseteq u \cup {m.id}
    BY <1>3 DEF Leads
  <2>2. Without(With(p.incidents, m.id, m.status), u) = Without(With(t.incidents, m.id, m.status), u)
    BY <1>1, <2>1, WithoutChanged
  <2> QED
    BY <2>1, <2>2 DEF Told
<1>4. /\ m.kind = "snapshot" => m.told = Told(m.session, m.vehicles, m.incidents, u)
      /\ m.kind # "snapshot" => m.session = t.session
  BY <1>1 DEF Leads
<1>5. m.kind = "vehicles.delta" =>
        /\ t.withdrawn \subseteq u
        /\ m.told = Told(t.session, UpsertVehicles(t.vehicles, m), t.incidents, u)
  BY <1>1, <1>2 DEF Leads
<1>6. m.kind = "incident" =>
        /\ t.withdrawn \subseteq u \cup {m.id}
        /\ m.told = Told(t.session, t.vehicles, With(t.incidents, m.id, m.status), u)
  BY <1>1, <1>3 DEF Leads
<1>7. m.kind \in {"system.status", "other"} =>
        /\ t.withdrawn \subseteq u
        /\ m.told = Told(t.session, t.vehicles, t.incidents, u)
  BY <1>1, <1>2 DEF Leads
<1> QED
  BY <1>4, <1>5, <1>6, <1>7 DEF Leads

LEMMA ToldFades ==
  ASSUME NEW t, NEW m \in Message, Leads(t, m)
  PROVE  Fades(m.told, m.told)
<1> DEFINE u == m.told.withdrawn
<1>1. PICK s, vs, b : m.told = Told(s, vs, b, u)
  BY MessageFacts DEF Leads
<1> QED
  BY <1>1, ToldAgain

LEMMA BookWith ==
  ASSUME NEW b \in Books, NEW i \in Incidents, NEW st \in Statuses
  PROVE  With(b, i, st) \in Books
<1>1. DOMAIN b \in SUBSET Incidents /\ b \in [DOMAIN b -> Statuses]
  BY DEF Books, PartialMaps
<1>2. With(b, i, st) \in [DOMAIN b \cup {i} -> Statuses]
  BY <1>1 DEF With
<1> QED
  BY <1>1, <1>2 DEF Books, PartialMaps

LEMMA Constructors ==
  ASSUME NEW s \in SessionIds, NEW vs \in Fleets, NEW b \in Books, NEW u \in SUBSET Incidents
  PROVE  /\ Told(s, vs, b, u) \in Tolds
         /\ \A m \in Modes : Snapshot(s, vs, b, u, m) \in Message
         /\ \A m \in Modes : Status(s, vs, b, u, m) \in Message
         /\ Other(s, vs, b, u) \in Message
         /\ \A i \in DOMAIN b : IncidentMessage(s, vs, b, u, i) \in Message
         /\ \A old \in Fleets : Delta(s, old, vs, b, u) \in Message
<1> DEFINE t == Told(s, vs, b, u)
<1>1. t \in [session: SessionIds, vehicles: Fleets, incidents: Books, withdrawn: SUBSET Incidents]
  BY WithoutTyped DEF Told
<1> HIDE DEF t
<1>2. \A m \in Modes : Snapshot(s, vs, b, u, m) \in Message
  BY <1>1 DEF Snapshot, Message, SessionIds, t
<1>3. \A m \in Modes : Status(s, vs, b, u, m) \in Message
  BY <1>1 DEF Status, Message, SessionIds, t
<1>4. Other(s, vs, b, u) \in Message
  BY <1>1 DEF Other, Message, SessionIds, t
<1>5. ASSUME NEW i \in DOMAIN b
      PROVE  IncidentMessage(s, vs, b, u, i) \in Message
  <2>1. i \in Incidents /\ b[i] \in Statuses
    BY DEF Books, PartialMaps
  <2> QED
    BY <1>1, <2>1 DEF IncidentMessage, Message, SessionIds, t
<1>6. ASSUME NEW old \in Fleets
      PROVE  Delta(s, old, vs, b, u) \in Message
  <2> DEFINE changed == {v \in DOMAIN vs : v \notin DOMAIN old \/ old[v] # vs[v]}
             new == [v \in changed |-> vs[v]]
             gone == DOMAIN old \ DOMAIN vs
  <2>1. gone \in SUBSET Vehicles
    BY DEF Fleets, PartialMaps
  <2>2. new \in Fleets
    <3>1. changed \in SUBSET Vehicles /\ new \in [changed -> VehicleState]
      BY DEF Fleets, PartialMaps
    <3> QED
      BY <3>1 DEF Fleets, PartialMaps
  <2>3. Delta(s, old, vs, b, u) = [kind |-> "vehicles.delta", session |-> s, vehicles |-> new,
                                   removed |-> gone, told |-> t]
    BY DEF Delta, t
  <2> HIDE DEF new, gone
  <2> QED
    BY <1>1, <2>1, <2>2, <2>3 DEF Message, SessionIds
<1> QED
  BY <1>1, <1>2, <1>3, <1>4, <1>5, <1>6 DEF t, Tolds
(* What a dashboard shows after a message that continues what it shows.    *)
LEMMA Understood ==
  ASSUME NEW v \in [session: SessionIds, vehicles: Fleets, incidents: Books, mode: Modes \cup {None}],
         NEW w, NEW m \in Message, Leads(Told(v.session, v.vehicles, v.incidents, w), m)
  PROVE  /\ OnMessage(v, m) \in [session: SessionIds, vehicles: Fleets, incidents: Books,
                                 mode: Modes \cup {None}]
         /\ LET n == OnMessage(v, m)
            IN  Told(n.session, n.vehicles, n.incidents, m.told.withdrawn) = m.told
<1> DEFINE t == Told(v.session, v.vehicles, v.incidents, w)
           u == m.told.withdrawn
           n == OnMessage(v, m)
<1>1. /\ t.session = v.session /\ t.vehicles = v.vehicles /\ t.withdrawn = w
      /\ t.incidents = Without(v.incidents, w)
  BY ToldFields
<1>2. m.told \in Tolds /\ v.session \in SessionIds /\ v.vehicles \in Fleets /\ v.incidents \in Books
      /\ v.mode \in Modes \cup {None}
  BY MessageFacts
<1>3. ASSUME NEW md \in Modes \cup {None}, NEW a, NEW f, NEW c \in Books, m.told = Told(a, f, c, u),
             n = [session |-> a, vehicles |-> f, incidents |-> c, mode |-> md]
      PROVE  /\ n \in [session: SessionIds, vehicles: Fleets, incidents: Books,
                       mode: Modes \cup {None}]
             /\ Told(n.session, n.vehicles, n.incidents, u) = m.told
  <2>1. a \in SessionIds /\ f \in Fleets
    BY <1>2, <1>3, ToldFields DEF Tolds
  <2>2. n.session = a /\ n.vehicles = f /\ n.incidents = c
    BY <1>3
  <2> HIDE DEF n, u
  <2> QED
    BY <1>3, <2>1, <2>2
<1>4. CASE m.kind = "snapshot"
  <2>1. n = [session |-> m.session, vehicles |-> m.vehicles, incidents |-> m.incidents,
             mode |-> m.mode]
    BY <1>4 DEF OnMessage
  <2>2. m.mode \in Modes /\ m.incidents \in Books
        /\ m.told = Told(m.session, m.vehicles, m.incidents, u)
    BY <1>4, MessageFacts DEF Leads
  <2> HIDE DEF n, u
  <2> QED
    BY <1>3, <2>1, <2>2 DEF n, u
<1>5. CASE m.kind = "vehicles.delta"
  <2>1. n = [v EXCEPT !.vehicles = UpsertVehicles(@, m)]
    BY <1>1, <1>5 DEF OnMessage, Leads
  <2>2. m.told = Told(v.session, UpsertVehicles(v.vehicles, m), v.incidents, u)
    <3>1. w \subseteq u /\ m.told = Told(v.session, UpsertVehicles(v.vehicles, m), Without(v.incidents, w), u)
      BY <1>1, <1>5 DEF Leads
    <3> HIDE DEF u
    <3> QED
      BY <3>1, ToldAgain
  <2> HIDE DEF n, u
  <2>3. n = [session |-> v.session, vehicles |-> UpsertVehicles(v.vehicles, m),
             incidents |-> v.incidents, mode |-> v.mode]
    BY <2>1
  <2> QED
    BY <1>2, <1>3, <2>2, <2>3 DEF n, u
<1>6. CASE m.kind = "incident"
  <2> DEFINE c == With(v.incidents, m.id, m.status)
  <2>1. n = [v EXCEPT !.incidents = With(@, m.id, m.status)]
    BY <1>1, <1>6 DEF OnMessage, Leads
  <2>2. m.told = Told(v.session, v.vehicles, c, u)
    <3>1. /\ w \subseteq u \cup {m.id}
          /\ m.told = Told(v.session, v.vehicles, With(Without(v.incidents, w), m.id, m.status), u)
      BY <1>1, <1>6 DEF Leads
    <3>2. Without(With(Without(v.incidents, w), m.id, m.status), u) = Without(c, u)
      BY <3>1, WithoutChanged
    <3> HIDE DEF u, c
    <3>3. Told(v.session, v.vehicles, With(Without(v.incidents, w), m.id, m.status), u)
            = Told(v.session, v.vehicles, c, u)
      BY <3>2 DEF Told
    <3> QED
      BY <3>1, <3>3
  <2>3. c \in Books
    BY <1>2, <1>6, MessageFacts, BookWith
  <2> HIDE DEF n, u
  <2>4. n = [session |-> v.session, vehicles |-> v.vehicles, incidents |-> c, mode |-> v.mode]
    BY <2>1
  <2> HIDE DEF c
  <2> QED
    BY <1>2, <1>3, <2>2, <2>3, <2>4 DEF n, u
<1>7. CASE m.kind \in {"system.status", "other"}
  <2>1. PICK md \in Modes \cup {None} : n = [v EXCEPT !.mode = md]
    <3>1. CASE m.kind = "system.status"
      BY <1>1, <3>1, MessageFacts DEF OnMessage, Leads
    <3>2. CASE m.kind = "other"
      <4>1. n = v
        BY <1>1, <3>2 DEF OnMessage, Leads
      <4> QED
        BY <4>1
    <3> QED
      BY <1>7, <3>1, <3>2
  <2>2. m.told = Told(v.session, v.vehicles, v.incidents, u)
    <3>1. w \subseteq u /\ m.told = Told(v.session, v.vehicles, Without(v.incidents, w), u)
      BY <1>1, <1>7 DEF Leads
    <3> HIDE DEF u
    <3> QED
      BY <3>1, ToldAgain
  <2> HIDE DEF n, u
  <2>3. n = [session |-> v.session, vehicles |-> v.vehicles, incidents |-> v.incidents,
             mode |-> md]
    BY <2>1
  <2> QED
    BY <1>2, <1>3, <2>2, <2>3 DEF n, u
<1> QED
  BY <1>4, <1>5, <1>6, <1>7, MessageFacts

-----------------------------------------------------------------------------
(* Sequences of messages.                                                  *)

LEMMA ConveysNothing == ASSUME NEW t PROVE Conveys(t, <<>>, t)
BY DEF Conveys, Chain, LastTold

LEMMA ConveysOne ==
  ASSUME NEW t, NEW m \in Message, Leads(t, m)
  PROVE  Conveys(t, <<m>>, m.told)
BY DEF Conveys, Chain, LastTold, Before

LEMMA ConveysAll ==
  ASSUME NEW t, NEW u, NEW w, NEW r, NEW s, Conveys(t, r, u), Conveys(u, s, w)
  PROVE  Conveys(t, r \o s, w)
<1> DEFINE rs == r \o s
<1> USE DEF Conveys
<1>1. /\ r \in Seq(Message) /\ s \in Seq(Message) /\ Len(r) \in Nat /\ Len(s) \in Nat
      /\ rs \in Seq(Message) /\ Len(rs) = Len(r) + Len(s)
      /\ \A i \in 1..Len(r) : rs[i] = r[i]
      /\ \A i \in 1..Len(s) : rs[Len(r) + i] = s[i]
  BY ConcatProperties
<1>2. r = <<>> <=> Len(r) = 0
  BY <1>1, EmptySeq
<1>3. s = <<>> <=> Len(s) = 0
  BY <1>1, EmptySeq
<1>6. rs = <<>> <=> Len(rs) = 0
  BY <1>1, EmptySeq
<1> HIDE DEF rs
<1>4. Chain(t, rs)
  <2> SUFFICES ASSUME NEW n \in 1..Len(rs) PROVE Leads(Before(t, rs, n), rs[n])
    BY DEF Chain
  <2>1. CASE n <= Len(r)
    <3>1. Before(t, rs, n) = Before(t, r, n) /\ rs[n] = r[n] /\ n \in 1..Len(r)
      BY <1>1, <2>1 DEF Before
    <3> QED
      BY <3>1 DEF Chain
  <2>2. CASE n > Len(r)
    <3> DEFINE i == n - Len(r)
    <3>1. i \in 1..Len(s) /\ n = Len(r) + i
      BY <1>1, <2>2
    <3> HIDE DEF i
    <3>2. rs[n] = s[i]
      BY <1>1, <3>1
    <3>3. Before(t, rs, n) = Before(u, s, i)
      <4>1. CASE i = 1 /\ r = <<>>
        BY <1>2, <3>1, <4>1 DEF Before, LastTold
      <4>2. CASE i = 1 /\ r # <<>>
        <5>1. n # 1 /\ n - 1 = Len(r) /\ Len(r) \in 1..Len(r)
          BY <1>1, <1>2, <3>1, <4>2
        <5> QED
          BY <1>1, <4>2, <5>1 DEF Before, LastTold
      <4>3. CASE i # 1
        <5>1. i - 1 \in 1..Len(s) /\ n - 1 = Len(r) + (i - 1) /\ n # 1
          BY <1>1, <3>1, <4>3
        <5>2. rs[n - 1] = s[i - 1]
          BY <1>1, <5>1
        <5> QED
          BY <4>3, <5>1, <5>2 DEF Before
      <4> QED
        BY <4>1, <4>2, <4>3
    <3> QED
      BY <3>1, <3>2, <3>3 DEF Chain
  <2> QED
    BY <1>1, <2>1, <2>2
<1>5. LastTold(t, rs) = w
  <2>1. CASE s = <<>>
    BY <1>1, <1>2, <1>3, <1>6, <2>1 DEF LastTold
  <2>2. CASE s # <<>>
    <3>1. Len(s) \in 1..Len(s)
      BY <1>1, <1>3, <2>2
    <3>2. rs[Len(rs)] = s[Len(s)] /\ rs # <<>>
      BY <1>1, <1>6, <3>1
    <3> QED
      BY <2>2, <3>2 DEF LastTold
  <2> QED
    BY <2>1, <2>2
<1> QED
  BY <1>1, <1>4, <1>5 DEF rs
(* What leads on from what is published leads on from what fades to it.    *)
LEMMA FadesChain ==
  ASSUME NEW t, NEW p, NEW u, NEW ms, Fades(t, p), Conveys(p, ms, u)
  PROVE  Conveys(t, ms, LastTold(t, ms)) /\ Fades(LastTold(t, ms), u)
<1> USE DEF Conveys
<1>1. ms \in Seq(Message) /\ Len(ms) \in Nat
  OBVIOUS
<1>2. Chain(t, ms)
  <2> SUFFICES ASSUME NEW n \in 1..Len(ms) PROVE Leads(Before(t, ms, n), ms[n])
    BY DEF Chain
  <2>1. Leads(Before(p, ms, n), ms[n])
    BY DEF Chain
  <2>2. CASE n = 1
    BY <2>1, <2>2, FadesLeads DEF Before
  <2>3. CASE n # 1
    BY <2>1, <2>3 DEF Before
  <2> QED
    BY <2>2, <2>3
<1>3. Fades(LastTold(t, ms), u)
  <2>1. CASE ms = <<>>
    BY <2>1 DEF LastTold
  <2>2. CASE ms # <<>>
    <3>1. Len(ms) \in 1..Len(ms)
      BY <1>1, <2>2, EmptySeq
    <3>2. ms[Len(ms)] \in Message /\ Leads(Before(p, ms, Len(ms)), ms[Len(ms)])
      BY <1>1, <3>1, ElementOfSeq DEF Chain
    <3>3. Fades(ms[Len(ms)].told, ms[Len(ms)].told)
      BY <3>2, ToldFades
    <3> QED
      BY <2>2, <3>3 DEF LastTold
  <2> QED
    BY <2>1, <2>2
<1> QED
  BY <1>1, <1>2, <1>3

LEMMA ChainPrefix ==
  ASSUME NEW t, NEW r \in Seq(Message), NEW s \in Seq(Message), Chain(t, r \o s)
  PROVE  Chain(t, r)
<1> DEFINE rs == r \o s
<1>1. /\ Len(r) \in Nat /\ Len(s) \in Nat /\ Len(rs) = Len(r) + Len(s)
      /\ \A i \in 1..Len(r) : rs[i] = r[i]
  BY ConcatProperties
<1> SUFFICES ASSUME NEW n \in 1..Len(r) PROVE Leads(Before(t, r, n), r[n])
  BY DEF Chain
<1>2. n \in 1..Len(rs) /\ rs[n] = r[n]
  BY <1>1
<1>3. Before(t, rs, n) = Before(t, r, n)
  <2>1. n = 1 \/ n - 1 \in 1..Len(r)
    BY <1>1
  <2> QED
    BY <1>1, <2>1 DEF Before
<1> QED
  BY <1>2, <1>3 DEF Chain

LEMMA ChainTail ==
  ASSUME NEW t, NEW ms \in Seq(Message), ms # <<>>, Chain(t, ms)
  PROVE  /\ Leads(t, Head(ms))
         /\ Chain(Head(ms).told, Tail(ms))
         /\ LastTold(Head(ms).told, Tail(ms)) = LastTold(t, ms)
<1> DEFINE h == Head(ms)
           r == Tail(ms)
<1>1. /\ Len(ms) \in Nat \ {0} /\ h = ms[1] /\ r \in Seq(Message) /\ Len(r) = Len(ms) - 1
      /\ \A i \in 1..Len(r) : r[i] = ms[i + 1]
  BY EmptySeq, HeadTailProperties
<1>2. r = <<>> <=> Len(r) = 0
  BY <1>1, EmptySeq
<1> HIDE DEF h, r
<1>3. Leads(t, h)
  <2>1. 1 \in 1..Len(ms) /\ Before(t, ms, 1) = t
    BY <1>1 DEF Before
  <2> QED
    BY <1>1, <2>1 DEF Chain
<1>4. Chain(h.told, r)
  <2> SUFFICES ASSUME NEW n \in 1..Len(r) PROVE Leads(Before(h.told, r, n), r[n])
    BY DEF Chain
  <2>1. n + 1 \in 1..Len(ms) /\ r[n] = ms[n + 1] /\ n + 1 # 1 /\ (n + 1) - 1 = n
    BY <1>1
  <2>2. Before(t, ms, n + 1) = Before(h.told, r, n)
    <3>1. CASE n = 1
      BY <1>1, <2>1, <3>1 DEF Before
    <3>2. CASE n # 1
      <4>1. n - 1 \in 1..Len(r) /\ (n - 1) + 1 = n
        BY <1>1, <3>2
      <4> QED
        BY <1>1, <2>1, <3>2, <4>1 DEF Before
    <3> QED
      BY <3>1, <3>2
  <2> QED
    BY <2>1, <2>2 DEF Chain
<1>5. LastTold(h.told, r) = LastTold(t, ms)
  <2>1. CASE r = <<>>
    <3>1. Len(ms) = 1
      BY <1>1, <1>2, <2>1
    <3> QED
      BY <1>1, <2>1, <3>1 DEF LastTold
  <2>2. CASE r # <<>>
    <3>1. Len(r) \in 1..Len(r) /\ Len(r) + 1 = Len(ms)
      BY <1>1, <1>2, <2>2
    <3> QED
      BY <1>1, <2>2, <3>1 DEF LastTold
  <2> QED
    BY <2>1, <2>2
<1> QED
  BY <1>3, <1>4, <1>5 DEF h, r

(* The states the messages tell of: those on their way in the mirror.      *)
ToldIn(ms) == [n \in 1..Len(ms) |-> ms[n].told]

LEMMA ToldInFacts ==
  ASSUME NEW r \in Seq(Message)
  PROVE  /\ ToldIn(r) \in Seq(Tolds) /\ Len(ToldIn(r)) = Len(r)
         /\ ToldIn(<<>>) = <<>>
         /\ r # <<>> => /\ ToldIn(r) # <<>>
                        /\ Head(ToldIn(r)) = Head(r).told
                        /\ Tail(ToldIn(r)) = ToldIn(Tail(r))
                        /\ \A t : ToldIn(r)[Len(r)] = LastTold(t, r)
<1>1. ASSUME NEW s \in Seq(Message)
      PROVE  ToldIn(s) \in Seq(Tolds) /\ Len(ToldIn(s)) = Len(s)
  <2>1. \A n \in 1..Len(s) : s[n].told \in Tolds
    BY MessageFacts
  <2>2. Len(s) \in Nat
    OBVIOUS
  <2> QED
    BY <2>1, <2>2 DEF ToldIn
<1>2. ToldIn(<<>>) = <<>>
  BY DEF ToldIn
<1>3. ASSUME r # <<>>
      PROVE  /\ ToldIn(r) # <<>> /\ Head(ToldIn(r)) = Head(r).told
             /\ Tail(ToldIn(r)) = ToldIn(Tail(r))
             /\ \A t : ToldIn(r)[Len(r)] = LastTold(t, r)
  <2>1. /\ Len(r) \in Nat \ {0} /\ Tail(r) \in Seq(Message) /\ Len(Tail(r)) = Len(r) - 1
        /\ \A i \in 1..Len(Tail(r)) : Tail(r)[i] = r[i + 1]
    BY <1>3, EmptySeq, HeadTailProperties
  <2>2. ToldIn(r) # <<>>
    BY <1>1, <2>1
  <2>3. Head(ToldIn(r)) = Head(r).told /\ \A t : ToldIn(r)[Len(r)] = LastTold(t, r)
    BY <1>1, <1>3, <2>1, <2>2 DEF ToldIn, LastTold
  <2>4. Tail(ToldIn(r)) = ToldIn(Tail(r))
    <3> DEFINE a == Tail(ToldIn(r))
               b == ToldIn(Tail(r))
    <3>1. /\ a \in Seq(Tolds) /\ Len(a) = Len(r) - 1
          /\ \A i \in 1..Len(a) : a[i] = ToldIn(r)[i + 1]
      BY ZenonT(20), <1>1, <2>2, HeadTailProperties
    <3>2. b \in Seq(Tolds) /\ Len(b) = Len(r) - 1
      BY ZenonT(20), <1>1, <2>1
    <3>3. ASSUME NEW i \in 1..Len(a) PROVE a[i] = b[i]
      <4>1. i + 1 \in 1..Len(r) /\ i \in 1..Len(Tail(r))
        BY <2>1, <3>1
      <4> QED
        BY <2>1, <3>1, <4>1 DEF ToldIn
    <3> HIDE DEF a, b
    <3>4. a = b
      BY <3>1, <3>2, <3>3, SeqEqual
    <3> QED
      BY <3>4 DEF a, b
  <2> QED
    BY <2>2, <2>3, <2>4
<1> QED
  BY <1>1, <1>2, <1>3

LEMMA ToldInConcat ==
  ASSUME NEW r \in Seq(Message), NEW s \in Seq(Message)
  PROVE  ToldIn(r \o s) = ToldIn(r) \o ToldIn(s)
<1> DEFINE a == ToldIn(r \o s)
           b == ToldIn(r) \o ToldIn(s)
<1>1. /\ r \o s \in Seq(Message) /\ Len(r) \in Nat /\ Len(s) \in Nat
      /\ Len(r \o s) = Len(r) + Len(s)
      /\ \A i \in 1..Len(r) + Len(s) : (r \o s)[i] = IF i <= Len(r) THEN r[i] ELSE s[i - Len(r)]
  BY ConcatProperties
<1>2. /\ ToldIn(r) \in Seq(Tolds) /\ Len(ToldIn(r)) = Len(r)
      /\ ToldIn(s) \in Seq(Tolds) /\ Len(ToldIn(s)) = Len(s)
      /\ a \in Seq(Tolds) /\ Len(a) = Len(r) + Len(s)
  BY <1>1, ToldInFacts
<1>3. /\ b \in Seq(Tolds) /\ Len(b) = Len(r) + Len(s)
      /\ \A i \in 1..Len(r) + Len(s) :
           b[i] = IF i <= Len(r) THEN ToldIn(r)[i] ELSE ToldIn(s)[i - Len(r)]
  BY <1>2, ConcatProperties
<1>4. ASSUME NEW i \in 1..Len(a) PROVE a[i] = b[i]
  <2>1. i \in 1..Len(r) + Len(s) /\ a[i] = (r \o s)[i].told
    BY <1>1, <1>2 DEF ToldIn
  <2>2. CASE i <= Len(r)
    <3>1. i \in 1..Len(r)
      BY <2>1, <2>2
    <3> QED
      BY <1>1, <1>3, <2>1, <2>2, <3>1 DEF ToldIn
  <2>3. CASE ~(i <= Len(r))
    <3>1. i - Len(r) \in 1..Len(s)
      BY <1>1, <2>1, <2>3
    <3> HIDE DEF a, b
    <3> QED
      BY <1>1, <1>3, <2>1, <2>3, <3>1 DEF ToldIn
  <2> QED
    BY <2>2, <2>3
<1> HIDE DEF a, b
<1>5. a = b
  BY <1>2, <1>3, <1>4, SeqEqual
<1> QED
  BY <1>5 DEF a, b

(* What stood in front and what was added, as the mirror takes them apart. *)
LEMMA Parted ==
  ASSUME NEW s \in Seq(Tolds), NEW a \in Seq(Tolds)
  PROVE  /\ Len(s) <= Len(s \o a) /\ s = SubSeq(s \o a, 1, Len(s))
         /\ SubSeq(s \o a, Len(s) + 1, Len(s \o a)) = a
         /\ a # <<>> => (s \o a)[Len(s \o a)] = a[Len(a)]
<1> DEFINE sa == s \o a
           p == SubSeq(sa, 1, Len(s))
           q == SubSeq(sa, Len(s) + 1, Len(sa))
<1>1. /\ sa \in Seq(Tolds) /\ Len(s) \in Nat /\ Len(a) \in Nat /\ Len(sa) = Len(s) + Len(a)
      /\ \A i \in 1..Len(s) : sa[i] = s[i]
      /\ \A i \in 1..Len(a) : sa[Len(s) + i] = a[i]
  BY ConcatProperties
<1>2. \A i \in 1..Len(sa) : sa[i] \in Tolds
  BY <1>1, ElementOfSeq
<1> HIDE DEF sa
<1>3. p \in Seq(Tolds) /\ Len(p) = Len(s) /\ \A i \in 1..Len(s) : p[i] = sa[i]
  <2>1. \A i \in 1..Len(s) : sa[i] \in Tolds
    BY <1>1, <1>2
  <2>2. /\ p \in Seq(Tolds) /\ Len(p) = IF 1 <= Len(s) THEN Len(s) - 1 + 1 ELSE 0
        /\ \A i \in 1..Len(s) - 1 + 1 : p[i] = sa[1 + i - 1]
    BY <1>1, <2>1, SubSeqProperties
  <2> HIDE DEF p
  <2> QED
    BY <1>1, <2>2
<1>4. q \in Seq(Tolds) /\ Len(q) = Len(a) /\ \A i \in 1..Len(a) : q[i] = sa[Len(s) + i]
  <2>1. \A i \in Len(s) + 1..Len(sa) : sa[i] \in Tolds
    BY <1>1, <1>2
  <2>2. /\ q \in Seq(Tolds)
        /\ Len(q) = IF Len(s) + 1 <= Len(sa) THEN Len(sa) - (Len(s) + 1) + 1 ELSE 0
        /\ \A i \in 1..Len(sa) - (Len(s) + 1) + 1 : q[i] = sa[Len(s) + 1 + i - 1]
    BY <1>1, <2>1, SubSeqProperties
  <2> HIDE DEF q
  <2>3. Len(sa) - (Len(s) + 1) + 1 = Len(a)
    BY <1>1
  <2>4. \A i \in 1..Len(a) : Len(s) + 1 + i - 1 = Len(s) + i
    BY <1>1
  <2>5. Len(q) = Len(a)
    BY <1>1, <2>2, <2>3
  <2> QED
    BY <2>2, <2>3, <2>4, <2>5
<1> HIDE DEF p, q
<1>5. p = s
  BY <1>1, <1>3, SeqEqual
<1>6. q = a
  BY <1>1, <1>4, SeqEqual
<1>7. Len(s) <= Len(sa)
  BY <1>1
<1>8. a # <<>> => sa[Len(sa)] = a[Len(a)]
  <2>1. a # <<>> => Len(a) \in 1..Len(a)
    BY EmptySeq
  <2> QED
    BY <1>1, <2>1
<1> QED
  BY <1>5, <1>6, <1>7, <1>8 DEF p, q, sa
-----------------------------------------------------------------------------
(* What each message of the hub leads to.                                  *)

LEMMA WithFacts ==
  ASSUME NEW b \in Books, NEW i \in Incidents, NEW st \in Statuses
  PROVE  /\ With(b, i, st) \in Books /\ i \in DOMAIN With(b, i, st) /\ With(b, i, st)[i] = st
         /\ i \in DOMAIN b => With(b, i, b[i]) = b
<1>1. DOMAIN b \in SUBSET Incidents /\ b \in [DOMAIN b -> Statuses]
  BY DEF Books, PartialMaps
<1>2. With(b, i, st) \in [DOMAIN b \cup {i} -> Statuses] /\ With(b, i, st)[i] = st
  BY <1>1 DEF With
<1>3. With(b, i, st) \in Books
  BY <1>1, <1>2 DEF Books, PartialMaps
<1>4. i \in DOMAIN b => With(b, i, b[i]) = b
  BY <1>1 DEF With
<1> QED
  BY <1>2, <1>3, <1>4

LEMMA FleetWith ==
  ASSUME NEW f \in Fleets, NEW v \in Vehicles, NEW x \in VehicleState
  PROVE  With(f, v, x) \in Fleets
<1>1. DOMAIN f \in SUBSET Vehicles /\ f \in [DOMAIN f -> VehicleState]
  BY DEF Fleets, PartialMaps
<1>2. With(f, v, x) \in [DOMAIN f \cup {v} -> VehicleState]
  BY <1>1 DEF With
<1> QED
  BY <1>1, <1>2 DEF Fleets, PartialMaps

LEMMA EmptyIn == Empty \in Fleets /\ Empty \in Books
<1>1. \A T : Empty \in [{} -> T] /\ DOMAIN Empty = {}
  BY DEF Empty
<1> QED
  BY <1>1 DEF Fleets, Books, PartialMaps

(* A delta makes the old fleet the new one.                                *)
LEMMA DeltaLeads ==
  ASSUME NEW s \in SessionIds, NEW old \in Fleets, NEW new \in Fleets, NEW b \in Books,
         NEW u \in SUBSET Incidents
  PROVE  Conveys(Told(s, old, b, u), Flush(s, old, new, b, u), Told(s, new, b, u))
<1> DEFINE m == Delta(s, old, new, b, u)
           changed == {v \in DOMAIN new : v \notin DOMAIN old \/ old[v] # new[v]}
<1>1. CASE old = new
  BY <1>1, ConveysNothing DEF Flush
<1>2. CASE old # new
  <2>1. /\ m.kind = "vehicles.delta" /\ m.session = s /\ m.told = Told(s, new, b, u)
        /\ m.vehicles = [v \in changed |-> new[v]] /\ m.removed = DOMAIN old \ DOMAIN new
    BY DEF Delta
  <2>2. DOMAIN m.vehicles = changed /\ \A v \in changed : m.vehicles[v] = new[v]
    BY <2>1
  <2> HIDE DEF m
  <2>3. (DOMAIN old \cup changed) \ (DOMAIN old \ DOMAIN new) = DOMAIN new
    OBVIOUS
  <2>4. UpsertVehicles(old, m) = [v \in DOMAIN new |-> new[v]]
    <3>1. \A v \in DOMAIN new : v \notin changed => old[v] = new[v]
      OBVIOUS
    <3> HIDE DEF changed
    <3> QED
      BY <2>1, <2>2, <2>3, <3>1 DEF UpsertVehicles
  <2>5. new = [v \in DOMAIN new |-> new[v]]
    BY DEF Fleets, PartialMaps
  <2>6. Leads(Told(s, old, b, u), m)
    BY <2>1, <2>4, <2>5, ToldFields, ToldAgain DEF Leads
  <2>7. m \in Message
    BY Constructors DEF m
  <2> QED
    BY <1>2, <2>1, <2>6, <2>7, ConveysOne DEF Flush, m
<1> QED
  BY <1>1, <1>2

LEMMA StatusLeads ==
  ASSUME NEW s \in SessionIds, NEW vs \in Fleets, NEW b \in Books, NEW u \in SUBSET Incidents,
         NEW m \in Modes
  PROVE  /\ Conveys(Told(s, vs, b, u), <<Status(s, vs, b, u, m)>>, Told(s, vs, b, u))
         /\ Conveys(Told(s, vs, b, u), <<Other(s, vs, b, u)>>, Told(s, vs, b, u))
         /\ \A t : Conveys(t, <<Snapshot(s, vs, b, u, m)>>, Told(s, vs, b, u))
<1>1. /\ Status(s, vs, b, u, m) \in Message /\ Other(s, vs, b, u) \in Message
      /\ Snapshot(s, vs, b, u, m) \in Message
  BY Constructors
<1>2. /\ Status(s, vs, b, u, m).told = Told(s, vs, b, u) /\ Other(s, vs, b, u).told = Told(s, vs, b, u)
      /\ Snapshot(s, vs, b, u, m).told = Told(s, vs, b, u)
  BY DEF Status, Other, Snapshot
<1>3. Leads(Told(s, vs, b, u), Status(s, vs, b, u, m))
  BY <1>2, ToldFields, ToldAgain DEF Leads, Status
<1>4. Leads(Told(s, vs, b, u), Other(s, vs, b, u))
  BY <1>2, ToldFields, ToldAgain DEF Leads, Other
<1>5. \A t : Leads(t, Snapshot(s, vs, b, u, m))
  BY <1>2, ToldFields DEF Leads, Snapshot
<1> QED
  BY <1>1, <1>2, <1>3, <1>4, <1>5, ConveysOne

(* An incident in the book changes, or is told again as it is: nothing is  *)
(* kept silent about it from then on.                                      *)
LEMMA IncidentLeads ==
  ASSUME NEW s \in SessionIds, NEW vs \in Fleets, NEW b \in Books, NEW u \in SUBSET Incidents,
         NEW i \in Incidents, NEW st \in Statuses
  PROVE  /\ Conveys(Told(s, vs, b, u), <<IncidentMessage(s, vs, With(b, i, st), u \ {i}, i)>>,
                    Told(s, vs, With(b, i, st), u \ {i}))
         /\ i \in DOMAIN b =>
              Conveys(Told(s, vs, b, u), <<IncidentMessage(s, vs, b, u \ {i}, i)>>,
                      Told(s, vs, b, u \ {i}))
<1> DEFINE c == With(b, i, st)
<1>1. ASSUME NEW e \in Books, i \in DOMAIN e, With(b, i, e[i]) = e
      PROVE  Conveys(Told(s, vs, b, u), <<IncidentMessage(s, vs, e, u \ {i}, i)>>,
                     Told(s, vs, e, u \ {i}))
  <2> DEFINE m == IncidentMessage(s, vs, e, u \ {i}, i)
  <2>1. m \in Message
    BY <1>1, Constructors
  <2>2. /\ m.told = Told(s, vs, e, u \ {i}) /\ m.kind = "incident" /\ m.session = s
        /\ m.id = i /\ m.status = e[i]
    BY DEF IncidentMessage
  <2> HIDE DEF m
  <2>3. Leads(Told(s, vs, b, u), m)
    <3>1. u \subseteq (u \ {i}) \cup {i}
      OBVIOUS
    <3>2. Without(With(Without(b, u), i, e[i]), u \ {i}) = Without(e, u \ {i})
      BY <1>1, <3>1, WithoutChanged
    <3>3. Told(s, vs, With(Without(b, u), i, e[i]), u \ {i}) = Told(s, vs, e, u \ {i})
      BY <3>2 DEF Told
    <3> QED
      BY <2>2, <3>1, <3>3, ToldFields DEF Leads
  <2>4. Conveys(Told(s, vs, b, u), <<m>>, Told(s, vs, e, u \ {i}))
    BY <2>1, <2>2, <2>3, ConveysOne
  <2> QED
    BY <2>4 DEF m
<1>2. c \in Books /\ i \in DOMAIN c /\ c[i] = st
  BY WithFacts
<1>3. i \in DOMAIN b => With(b, i, b[i]) = b
  BY WithFacts
<1>4. Conveys(Told(s, vs, b, u), <<IncidentMessage(s, vs, c, u \ {i}, i)>>, Told(s, vs, c, u \ {i}))
  <2>1. With(b, i, c[i]) = c
    BY <1>2
  <2> HIDE DEF c
  <2> QED
    BY <1>1, <1>2, <2>1
<1> QED
  BY <1>1, <1>3, <1>4
-----------------------------------------------------------------------------
(* The steps.  Types of what is not a connection or a dashboard's store:   *)
HubTypes ==
  /\ session \in SessionIds
  /\ fleet \in Fleets /\ book \in Books /\ mode \in Modes /\ inPass \in BOOLEAN
  /\ lastSent \in Fleets /\ statusKey \in Modes \cup {None}
  /\ missed \subseteq Incidents

ConnectionTypes ==
  /\ clients \subseteq Dashboards
  /\ DOMAIN queue = Dashboards /\ DOMAIN wire = Dashboards
  /\ \A d \in Dashboards :
       /\ queue[d] = <<Closing>> \/ queue[d] \in Seq(Message)
       /\ Len(queue[d]) <= QueueSize
       /\ wire[d] \in Seq(Message)
  /\ link \in [Dashboards -> {"down", "up", "closing"}]

ViewType ==
  [session: SessionIds, vehicles: Fleets, incidents: Books, mode: Modes \cup {None}]

ScreenTypes ==
  view \in [Dashboards -> ViewType] /\ unsure \in [Dashboards -> SUBSET Incidents]

LEMMA TypeParts == TypeOK <=> HubTypes /\ ConnectionTypes /\ ScreenTypes
BY DEF TypeOK, HubTypes, ConnectionTypes, ScreenTypes, ViewType, SessionIds

LEMMA OnTheWayIs == ASSUME NEW d PROVE OnTheWay(d) = ToldIn(Pending(d))
BY DEF OnTheWay, ToldIn, Pending

LEMMA Regrouped ==
  ASSUME NEW r \in Seq(Message), NEW s \in Seq(Message), NEW t \in Seq(Message)
  PROVE  r \o (s \o t) = (r \o s) \o t
BY SMTT(30), ConcatAssociative

(* The messages tell of the step to the clients that stay.                 *)
Announces(ms) == \E u : Conveys(Present, ms, u) /\ (clients' # {} => Present' = u)

(* A broadcast continues what was told to every client that stays one, and *)
(* ends with the new present state.                                        *)
LEMMA Broadcasts ==
  ASSUME IInv, NEW ms, Broadcast(ms), Announces(ms), UNCHANGED screen
  PROVE  /\ ConnectionTypes' /\ SocketsMatch' /\ InOrder' /\ LeadsToPresent'
         /\ \A d \in clients' : /\ d \in clients /\ Pending(d) \in Seq(Message)
                                /\ Pending(d)' = Pending(d) \o ms
         /\ \A d \in Dashboards \ clients' :
              \E r, s \in Seq(Message) : Pending(d)' = r /\ Pending(d) = r \o s
         /\ ms = <<>> => \A d \in Dashboards : Pending(d)' = Pending(d)
         /\ ms = <<>> => clients' = clients
<1> USE StreamAssumption, TypeParts DEF IInv, Broadcast
<1>1. ms \in Seq(Message) /\ Len(ms) \in Nat
  BY DEF Announces, Conveys
<1>2. clients' \subseteq clients /\ clients \subseteq Dashboards /\ wire' = wire /\ link' = link
  BY DEF ConnectionTypes
<1>3. ASSUME NEW d \in clients'
      PROVE  /\ d \in clients /\ d \in Dashboards /\ Fits(d, ms)
             /\ queue'[d] = queue[d] \o ms /\ queue'[d] \in Seq(Message)
             /\ Len(queue'[d]) <= QueueSize
             /\ Pending(d) \in Seq(Message) /\ Pending(d)' = Pending(d) \o ms
  <2>1. d \in clients /\ d \in Dashboards /\ Fits(d, ms) /\ queue'[d] = queue[d] \o ms
    BY <1>2
  <2>2. queue[d] \in Seq(Message) /\ wire[d] \in Seq(Message)
    BY <2>1 DEF SocketsMatch, ConnectionTypes
  <2>3. queue'[d] \in Seq(Message) /\ Len(queue'[d]) = Len(queue[d]) + Len(ms)
    BY <1>1, <2>1, <2>2, ConcatProperties
  <2>4. Pending(d) = wire[d] \o queue[d] /\ Pending(d)' = wire[d] \o (queue[d] \o ms)
    BY <1>2, <2>1 DEF Pending
  <2>5. wire[d] \o (queue[d] \o ms) = (wire[d] \o queue[d]) \o ms
    <3> HIDE StreamAssumption, TypeParts DEF Broadcast, IInv
    <3> QED
      BY <1>1, <2>2, Regrouped
  <2>6. Pending(d)' = Pending(d) \o ms
    BY <2>4, <2>5
  <2> QED
    BY <2>1, <2>2, <2>3, <2>4, <2>6, ConcatProperties DEF Fits
<1>4. ASSUME NEW d \in Dashboards, d \notin clients'
      PROVE  /\ queue'[d] \in {<<>>, <<Closing>>} /\ Len(queue'[d]) <= QueueSize
             /\ d \notin clients => queue'[d] = queue[d]
             /\ wire[d] \in Seq(Message) /\ Pending(d)' = wire[d]
             /\ \E x \in Seq(Message) : Pending(d) = wire[d] \o x
  <2>1. wire[d] \in Seq(Message) /\ <<>> \in Seq(Message)
    BY DEF ConnectionTypes
  <2>2. Pending(d)' = wire[d]
    BY <1>2, <1>4, <2>1, ConcatEmptySeq DEF Pending
  <2>3. Pending(d) = wire[d] \o <<>> \/ (Pending(d) = wire[d] \o queue[d] /\ d \in clients)
    BY DEF Pending
  <2>4. d \in clients => queue[d] \in Seq(Message)
    BY DEF SocketsMatch
  <2>5. d \notin clients => queue'[d] = queue[d]
    OBVIOUS
  <2>6. queue'[d] \in {<<>>, <<Closing>>}
    BY <1>4, <2>5 DEF SocketsMatch
  <2>7. Len(queue'[d]) <= QueueSize
    <3>1. Len(<<>>) <= QueueSize /\ Len(<<Closing>>) <= QueueSize
      OBVIOUS
    <3> QED
      BY <2>6, <3>1
  <2> QED
    BY <2>1, <2>2, <2>3, <2>4, <2>5, <2>6, <2>7
<1>5. ConnectionTypes'
  <2>1. DOMAIN queue' = Dashboards /\ DOMAIN wire' = Dashboards
    BY <1>2 DEF ConnectionTypes
  <2>2. ASSUME NEW d \in Dashboards
        PROVE  /\ queue'[d] = <<Closing>> \/ queue'[d] \in Seq(Message)
               /\ Len(queue'[d]) <= QueueSize
               /\ wire'[d] \in Seq(Message)
    <3>1. CASE d \in clients'
      BY <1>2, <1>3, <3>1 DEF ConnectionTypes
    <3>2. CASE d \notin clients'
      <4>1. <<>> \in Seq(Message)
        OBVIOUS
      <4> QED
        BY <1>2, <1>4, <3>2, <4>1
    <3> QED
      BY <3>1, <3>2
  <2> QED
    BY <1>2, <2>1, <2>2 DEF ConnectionTypes
<1>6. SocketsMatch'
  <2>1. ASSUME NEW d \in Dashboards
        PROVE  /\ d \in clients' => queue'[d] \in Seq(Message) /\ link[d] = "up"
               /\ d \notin clients' => queue'[d] \in {<<>>, <<Closing>>}
               /\ link[d] # "up" => queue'[d] = <<>>
               /\ link[d] = "down" => wire[d] = <<>>
    BY <1>2, <1>3, <1>4 DEF SocketsMatch
  <2> QED
    BY <1>2, <2>1 DEF SocketsMatch
<1>7. ASSUME NEW d \in clients'
      PROVE  /\ Pending(d)' \in Seq(Message) /\ Chain(Shown(d), Pending(d)')
             /\ Fades(LastTold(Shown(d), Pending(d)'), Present')
  <2> DEFINE t == LastTold(Shown(d), Pending(d))
  <2>1. Conveys(Shown(d), Pending(d), t) /\ Fades(t, Present)
    BY <1>2, <1>3 DEF Conveys, InOrder, LeadsToPresent
  <2>2. PICK u : Conveys(Present, ms, u) /\ (clients' # {} => Present' = u)
    BY DEF Announces
  <2>3. Present' = u
    BY <1>7, <2>2
  <2> HIDE DEF t
  <2>4. Conveys(t, ms, LastTold(t, ms)) /\ Fades(LastTold(t, ms), u)
    BY <2>1, <2>2, FadesChain
  <2>5. Conveys(Shown(d), Pending(d) \o ms, LastTold(t, ms))
    BY <2>1, <2>4, ConveysAll
  <2> QED
    BY <1>3, <2>3, <2>4, <2>5 DEF Conveys
<1>8. ASSUME NEW d \in Dashboards, d \notin clients'
      PROVE  Pending(d)' \in Seq(Message) /\ Chain(Shown(d), Pending(d)')
  <2>1. Chain(Shown(d), Pending(d))
    BY DEF InOrder
  <2>2. PICK x \in Seq(Message) : Pending(d) = wire[d] \o x
    BY <1>4, <1>8
  <2>3. Chain(Shown(d), wire[d] \o x)
    BY <2>1, <2>2
  <2> QED
    BY <1>4, <1>8, <2>3, ChainPrefix
<1>9. \A d \in Dashboards : Shown(d)' = Shown(d)
  BY DEF Shown, screen
<1>10. InOrder' /\ LeadsToPresent'
  BY <1>2, <1>7, <1>8, <1>9 DEF InOrder, LeadsToPresent
<1>11. ASSUME ms = <<>>
       PROVE  clients' = clients /\ \A d \in Dashboards : Pending(d)' = Pending(d)
  <2>1. \A d \in clients : Fits(d, ms)
    <3>1. \A d \in clients : Len(queue[d]) <= QueueSize /\ Len(queue[d]) \in Nat
      BY <1>2 DEF ConnectionTypes, SocketsMatch
    <3> QED
      BY <1>11, <3>1 DEF Fits
  <2>2. clients' = clients
    BY <2>1
  <2>3. \A d \in clients' : Pending(d)' = Pending(d)
    BY <1>3, <1>11, ConcatEmptySeq
  <2>4. \A d \in Dashboards \ clients' : Pending(d)' = Pending(d)
    BY <1>2, <1>4, <2>2, ConcatEmptySeq DEF Pending
  <2> QED
    BY <2>2, <2>3, <2>4
<1>12. \A d \in clients' : /\ d \in clients /\ Pending(d) \in Seq(Message)
                           /\ Pending(d)' = Pending(d) \o ms
  BY <1>3
<1>13. ASSUME NEW d \in Dashboards \ clients'
       PROVE  \E r, s \in Seq(Message) : Pending(d)' = r /\ Pending(d) = r \o s
  BY <1>4
<1> QED
  BY <1>5, <1>6, <1>10, <1>11, <1>12, <1>13
LEMMA PresentTyped == ASSUME HubTypes PROVE Present \in Tolds
BY Constructors DEF Present, HubTypes

(* The mirror sees a broadcast as a publication, or not at all.            *)
LEMMA Published ==
  ASSUME IInv, NEW ms, Broadcast(ms), Announces(ms), UNCHANGED screen, HubTypes'
  PROVE  Mirror!Publish \/ UNCHANGED Mirror!vars
<1> DEFINE old == [d \in Dashboards |-> OnTheWay(d)]
           new == [d \in Dashboards |-> OnTheWay(d)']
           shown == [d \in Dashboards |-> Shown(d)]
<1>1. /\ \A d \in clients' : /\ d \in clients /\ Pending(d) \in Seq(Message)
                             /\ Pending(d)' = Pending(d) \o ms
      /\ \A d \in Dashboards \ clients' :
           \E r, s \in Seq(Message) : Pending(d)' = r /\ Pending(d) = r \o s
      /\ ms = <<>> => \A d \in Dashboards : Pending(d)' = Pending(d)
      /\ ms = <<>> => clients' = clients
  BY Broadcasts
<1>2. clients \subseteq Dashboards
  BY TypeParts DEF IInv, ConnectionTypes
<1>3. \A d : OnTheWay(d)' = ToldIn(Pending(d)')
  BY OnTheWayIs DEF OnTheWay, ToldIn, Pending
<1>4. \A d : OnTheWay(d) = ToldIn(Pending(d))
  BY OnTheWayIs
<1>5. [d \in Dashboards |-> Shown(d)]' = shown
  BY DEF Shown, screen
<1>6. CASE ms = <<>> /\ clients' # {}
  <2>1. new = old
    BY <1>1, <1>3, <1>4, <1>6
  <2>2. Present' = Present /\ clients' = clients
    BY <1>1, <1>6 DEF Announces, Conveys, LastTold
  <2> QED
    BY <1>5, <2>1, <2>2 DEF Mirror!vars, Present
<1>7. CASE ms # <<>> \/ clients' = {}
  <2>1. ASSUME NEW d \in clients'
        PROVE  /\ ms \in Seq(Message) /\ ToldIn(ms) \in Seq(Tolds) /\ ToldIn(ms) # <<>>
               /\ Len(ToldIn(ms)) = Len(ms) /\ ToldIn(ms)[Len(ms)] = Present'
               /\ Len(ms) \in Nat \ {0}
    <3>1. PICK u : Conveys(Present, ms, u) /\ Present' = u
      BY DEF Announces
    <3> QED
      BY <1>7, <3>1, ToldInFacts, EmptySeq DEF Conveys
  <2>2. ASSUME NEW d \in clients'
        PROVE  /\ Len(old[d]) <= Len(new[d]) /\ old[d] = SubSeq(new[d], 1, Len(old[d]))
               /\ SubSeq(new[d], Len(old[d]) + 1, Len(new[d])) = ToldIn(ms)
               /\ new[d][Len(new[d])] = Present'
    <3>1. d \in Dashboards /\ Pending(d) \in Seq(Message) /\ Pending(d)' = Pending(d) \o ms
      BY <1>1, <1>2
    <3>2. old[d] = ToldIn(Pending(d)) /\ new[d] = ToldIn(Pending(d) \o ms)
      BY <1>3, <1>4, <3>1
    <3>3. old[d] \in Seq(Tolds) /\ new[d] = old[d] \o ToldIn(ms)
      BY ZenonT(30), <2>1, <3>1, <3>2, ToldInFacts, ToldInConcat
    <3> HIDE DEF old, new
    <3>4. LET a == ToldIn(ms)
          IN  /\ Len(old[d]) <= Len(old[d] \o a) /\ old[d] = SubSeq(old[d] \o a, 1, Len(old[d]))
              /\ SubSeq(old[d] \o a, Len(old[d]) + 1, Len(old[d] \o a)) = a
              /\ (old[d] \o a)[Len(old[d] \o a)] = a[Len(a)]
      BY <2>1, <3>3, Parted
    <3> QED
      BY <2>1, <3>3, <3>4
  <2>3. ASSUME NEW d \in Dashboards \ clients'
        PROVE  Len(new[d]) <= Len(old[d]) /\ new[d] = SubSeq(old[d], 1, Len(new[d]))
    <3>1. PICK r \in Seq(Message), s \in Seq(Message) : Pending(d)' = r /\ Pending(d) = r \o s
      BY <1>1
    <3>2. new[d] = ToldIn(r) /\ old[d] = ToldIn(r \o s)
      BY <1>3, <1>4, <3>1
    <3>3. new[d] \in Seq(Tolds) /\ ToldIn(s) \in Seq(Tolds) /\ old[d] = new[d] \o ToldIn(s)
      BY SMTT(30), <3>2, ToldInFacts, ToldInConcat
    <3> HIDE DEF old, new
    <3> QED
      BY <3>3, Parted
  <2>4. Present' \in Tolds /\ clients' \subseteq clients
    BY <1>1, Constructors DEF HubTypes, Present
  <2>5. new = [d \in Dashboards |-> new[d]]
    OBVIOUS
  <2>6. /\ Told(session, lastSent, book, missed)' \in Tolds /\ clients' \subseteq clients
        /\ new = [d \in Dashboards |-> new[d]]
        /\ \A d \in clients' : /\ Mirror!IsPrefixOf(old[d], new[d])
                               /\ SubSeq(new[d], Len(old[d]) + 1, Len(new[d])) # <<>>
                               /\ new[d][Len(new[d])] = Told(session, lastSent, book, missed)'
                               /\ \A e \in clients' : SubSeq(new[e], Len(old[e]) + 1, Len(new[e]))
                                                    = SubSeq(new[d], Len(old[d]) + 1, Len(new[d]))
        /\ \A d \in Dashboards \ clients' : Mirror!IsPrefixOf(new[d], old[d])
    BY <2>1, <2>2, <2>3, <2>4, <2>5 DEF Mirror!IsPrefixOf, Present
  <2>7. Mirror!Publish
    BY <1>5, <2>6 DEF Mirror!Publish, Mirror!Added, Tolds, SessionIds
  <2> QED
    BY <2>7
<1> QED
  BY <1>6, <1>7
LEMMA BroadcastStep ==
  ASSUME IInv, NEW ms, Broadcast(ms), Announces(ms), UNCHANGED screen, HubTypes'
  PROVE  IInv' /\ (Mirror!Publish \/ UNCHANGED Mirror!vars)
<1>1. ConnectionTypes' /\ SocketsMatch' /\ InOrder' /\ LeadsToPresent'
  BY Broadcasts
<1>2. ScreenTypes'
  BY TypeParts DEF IInv, ScreenTypes, screen
<1>3. TypeOK'
  BY <1>1, <1>2, TypeParts DEF TypeOK, HubTypes, ConnectionTypes, ScreenTypes, ViewType, SessionIds
<1> QED
  BY <1>1, <1>3, Published DEF IInv

(* What the hub does not tell of does not change the mirror.               *)
LEMMA SilentStep ==
  ASSUME IInv, HubTypes', UNCHANGED <<session, lastSent, book, missed, connection, screen>>
  PROVE  IInv' /\ UNCHANGED Mirror!vars
<1> USE DEF connection, screen
<1>1. TypeOK'
  BY DEF IInv, TypeOK, HubTypes, SessionIds
<1>2. \A d : Pending(d)' = Pending(d) /\ Shown(d)' = Shown(d) /\ OnTheWay(d)' = OnTheWay(d)
  BY DEF Pending, Shown, OnTheWay
<1>3. Present' = Present
  BY DEF Present
<1>4. SocketsMatch' /\ InOrder' /\ LeadsToPresent'
  BY <1>2, <1>3 DEF IInv, SocketsMatch, InOrder, LeadsToPresent
<1>5. UNCHANGED Mirror!vars
  BY <1>2 DEF Mirror!vars, Shown, OnTheWay
<1> QED
  BY <1>1, <1>4, <1>5 DEF IInv

LEMMA HubTypesNow == ASSUME IInv PROVE HubTypes /\ Present \in Tolds
BY TypeParts, PresentTyped DEF IInv

LEMMA Pair == ASSUME NEW x, NEW y PROVE <<x>> \o <<y>> = <<x, y>>
<1> DEFINE S == {x, y}
           c == <<x>> \o <<y>>
<1>1. <<x>> \in Seq(S) /\ <<y>> \in Seq(S) /\ <<x, y>> \in Seq(S)
  OBVIOUS
<1>2. Len(<<x>>) = 1 /\ Len(<<y>>) = 1 /\ Len(<<x, y>>) = 2
  OBVIOUS
<1> HIDE DEF S
<1>3. /\ c \in Seq(S) /\ Len(c) = 1 + 1
      /\ \A i \in 1..1 + 1 : c[i] = IF i <= 1 THEN <<x>>[i] ELSE <<y>>[i - 1]
  BY <1>1, <1>2, ConcatProperties
<1>4. c[1] = x /\ c[2] = y /\ Len(c) = 2
  BY <1>3
<1> HIDE DEF c
<1>5. c = <<x, y>>
  BY <1>1, <1>2, <1>3, <1>4, SeqEqual
<1> QED
  BY <1>5 DEF c

LEMMA SessionStep ==
  ASSUME IInv, NEW s \in Sessions, SessionBegins(s)
  PROVE  IInv' /\ (Mirror!Publish \/ UNCHANGED Mirror!vars)
<1> DEFINE t == Told(s, Empty, Empty, {})
           snapshot == Snapshot(s, Empty, Empty, {}, mode')
           status == Status(s, Empty, Empty, {}, mode')
<1> USE HubTypesNow DEF HubTypes
<1>1. fleet' \in Fleets
  <2>1. CASE fleet' = Empty
    BY <2>1, EmptyIn
  <2>2. CASE \E v \in Vehicles, look \in Looks :
               fleet' = [x \in {v} |-> [look |-> look, badge |-> None]]
    <3>1. PICK v \in Vehicles, look \in Looks :
               fleet' = [x \in {v} |-> [look |-> look, badge |-> None]]
      BY <2>2
    <3>2. [look |-> look, badge |-> None] \in VehicleState
      BY DEF VehicleState
    <3>3. fleet' \in [{v} -> VehicleState] /\ {v} \in SUBSET Vehicles
      BY <3>1, <3>2
    <3> QED
      BY <3>3 DEF Fleets, PartialMaps
  <2> QED
    BY <2>1, <2>2 DEF SessionBegins
<1>2. mode' \in Modes
  BY <1>1, EmptyIn, StreamAssumption DEF SessionBegins
<1>3. HubTypes'
  BY <1>1, <1>2, EmptyIn DEF SessionBegins, SessionIds
<1>4. Present' = t
  BY DEF SessionBegins, Present
<1>5. Conveys(Present, <<snapshot>>, t) /\ Conveys(t, <<status>>, t)
  BY <1>2, EmptyIn, StatusLeads DEF SessionIds
<1>6. Conveys(Present, <<snapshot>> \o <<status>>, t)
  BY <1>5, ConveysAll
<1>7. <<snapshot>> \o <<status>> = <<snapshot, status>>
  BY Pair
<1>8. Broadcast(<<snapshot, status>>) /\ UNCHANGED screen
  BY DEF SessionBegins
<1> HIDE DEF t, snapshot, status
<1>9. Announces(<<snapshot, status>>)
  BY <1>4, <1>6, <1>7 DEF Announces
<1> QED
  BY <1>3, <1>8, <1>9, BroadcastStep

LEMMA ReportStep ==
  ASSUME IInv, SessionReported
  PROVE  IInv' /\ (Mirror!Publish \/ UNCHANGED Mirror!vars)
<1>1. HubTypes'
  BY HubTypesNow DEF SessionReported, Misses, runtimeVars, HubTypes
<1>2. clients' # {} => Present' = Present
  BY DEF SessionReported, Misses, runtimeVars, Present
<1>3. Conveys(Present, <<Status(session, lastSent, book, missed, mode)>>, Present)
  BY HubTypesNow, StatusLeads DEF HubTypes, Present
<1>4. Announces(<<Status(session, lastSent, book, missed, mode)>>)
  BY <1>2, <1>3 DEF Announces
<1> QED
  BY <1>1, <1>4, BroadcastStep DEF SessionReported

LEMMA AckStep ==
  ASSUME IInv, NEW i \in Incidents, Ack(i)
  PROVE  IInv' /\ (Mirror!Publish \/ UNCHANGED Mirror!vars)
<1> DEFINE st == IF book[i] = "resolved" THEN "resolved" ELSE "ack"
           b == With(book, i, st)
<1> USE HubTypesNow DEF HubTypes
<1>1. st \in Statuses
  BY DEF Statuses
<1>2. b \in Books
  BY <1>1, WithFacts
<1>3. Conveys(Present, Event(b, missed, i), Told(session, lastSent, b, missed \ {i}))
  BY <1>1, IncidentLeads DEF Present, Event
<1>4. book' = b /\ Broadcast(Event(b, missed, i)) /\ Misses(missed \ {i})
      /\ UNCHANGED <<session, fleet, mode, inPass, lastSent, statusKey, screen>>
  BY DEF Ack, hub
<1> HIDE DEF b
<1>5. HubTypes'
  BY <1>2, <1>4 DEF Misses
<1>6. clients' # {} => Present' = Told(session, lastSent, b, missed \ {i})
  BY <1>4 DEF Present, Misses
<1>7. Announces(Event(b, missed, i))
  BY <1>3, <1>6 DEF Announces
<1> QED
  BY <1>4, <1>5, <1>7, BroadcastStep

LEMMA OutcomeLeads ==
  ASSUME IInv, NEW b \in Books, NEW u \in SUBSET Incidents, NEW v \in Vehicles,
         NEW out \in Outcomes(b, u, v)
  PROVE  /\ out.book \in Books /\ out.unsure \in SUBSET Incidents
         /\ Conveys(Told(session, lastSent, b, u), out.events,
                    Told(session, lastSent, out.book, out.unsure))
<1> USE HubTypesNow DEF HubTypes
<1>1. CASE out = [book |-> b, unsure |-> u, events |-> <<>>]
  BY <1>1, ConveysNothing
<1>2. CASE \E i \in Active(b, v) : out = [book |-> b, unsure |-> u \ {i}, events |-> Event(b, u, i)]
  <2>1. PICK i \in Active(b, v) : out = [book |-> b, unsure |-> u \ {i}, events |-> Event(b, u, i)]
    BY <1>2
  <2>2. i \in DOMAIN b /\ i \in Incidents /\ "open" \in Statuses
    BY DEF Active, Books, PartialMaps, Statuses
  <2>3. Conveys(Told(session, lastSent, b, u), Event(b, u, i), Told(session, lastSent, b, u \ {i}))
    BY <2>2, IncidentLeads DEF Event
  <2> QED
    BY <2>1, <2>3
<1>3. CASE \E i \in Incidents : out = [book |-> With(b, i, "open"), unsure |-> u \ {i},
                                       events |-> Event(With(b, i, "open"), u, i)]
  <2>1. PICK i \in Incidents : out = [book |-> With(b, i, "open"), unsure |-> u \ {i},
                                      events |-> Event(With(b, i, "open"), u, i)]
    BY <1>3
  <2>2. "open" \in Statuses
    BY DEF Statuses
  <2>3. With(b, i, "open") \in Books
    BY <2>2, WithFacts
  <2>4. Conveys(Told(session, lastSent, b, u), Event(With(b, i, "open"), u, i),
                Told(session, lastSent, With(b, i, "open"), u \ {i}))
    BY <2>2, IncidentLeads DEF Event
  <2> QED
    BY <2>1, <2>3, <2>4
<1> QED
  BY <1>1, <1>2, <1>3 DEF Outcomes

(* The record of a vehicle after its incidents.                            *)
LEMMA ReportedTyped ==
  ASSUME IInv, NEW v \in Vehicles, Reported(v), book' \in Books
  PROVE  fleet' \in Fleets
<1> USE HubTypesNow DEF HubTypes
<1>1. Badge(book', v) \in Incidents \cup {None}
  <2>1. Active(book', v) \subseteq Incidents
    BY DEF Active, Books, PartialMaps
  <2> QED
    BY <2>1 DEF Badge
<1>2. PICK look \in Looks : fleet' = With(fleet, v, [look |-> look, badge |-> Badge(book', v)])
  BY DEF Reported
<1>3. [look |-> look, badge |-> Badge(book', v)] \in VehicleState
  BY <1>1 DEF VehicleState
<1> QED
  BY <1>2, <1>3, FleetWith

LEMMA ApplyStep ==
  ASSUME IInv, NEW v \in Vehicles, ApplyVehicle(v)
  PROVE  IInv' /\ (Mirror!Publish \/ UNCHANGED Mirror!vars)
<1> USE HubTypesNow DEF HubTypes
<1>1. PICK ms : \E w \in SUBSET Incidents :
         /\ Broadcast(ms) /\ book' \in Books /\ Misses(w)
         /\ Conveys(Present, ms, Told(session, lastSent, book', w))
  <2>1. CASE \E out \in Outcomes(book, missed, v) :
               book' = out.book /\ Broadcast(out.events) /\ Misses(out.unsure)
    <3>1. PICK out \in Outcomes(book, missed, v) :
             book' = out.book /\ Broadcast(out.events) /\ Misses(out.unsure)
      BY <2>1
    <3>2. missed \in SUBSET Incidents
      OBVIOUS
    <3>3. /\ out.book \in Books /\ out.unsure \in SUBSET Incidents
          /\ Conveys(Present, out.events, Told(session, lastSent, out.book, out.unsure))
      BY <3>2, OutcomeLeads DEF Present
    <3> QED
      BY <3>1, <3>3
  <2>2. CASE \E i \in Active(book, v) :
               LET b == With(book, i, "resolved")
                   u == missed \ {i}
               IN  \E out \in Outcomes(b, u, v) :
                     /\ book' = out.book
                     /\ Broadcast(Event(b, missed, i) \o out.events) /\ Misses(out.unsure)
    <3>1. PICK i \in Active(book, v) :
               LET b == With(book, i, "resolved")
                   u == missed \ {i}
               IN  \E out \in Outcomes(b, u, v) :
                     /\ book' = out.book
                     /\ Broadcast(Event(b, missed, i) \o out.events) /\ Misses(out.unsure)
      BY <2>2
    <3> DEFINE b == With(book, i, "resolved")
               u == missed \ {i}
    <3>2. i \in Incidents /\ "resolved" \in Statuses
      BY DEF Active, Books, PartialMaps, Statuses
    <3>3. b \in Books
      BY <3>2, WithFacts
    <3>4. Conveys(Present, Event(b, missed, i), Told(session, lastSent, b, u))
      BY <3>2, IncidentLeads DEF Event, Present
    <3>5. PICK out \in Outcomes(b, u, v) :
               /\ book' = out.book
               /\ Broadcast(Event(b, missed, i) \o out.events) /\ Misses(out.unsure)
      BY <3>1
    <3>6. u \in SUBSET Incidents
      OBVIOUS
    <3> HIDE DEF b, u
    <3>7. /\ out.book \in Books /\ out.unsure \in SUBSET Incidents
          /\ Conveys(Told(session, lastSent, b, u), out.events,
                     Told(session, lastSent, out.book, out.unsure))
      BY <3>3, <3>6, OutcomeLeads
    <3>8. Conveys(Present, Event(b, missed, i) \o out.events,
                  Told(session, lastSent, out.book, out.unsure))
      BY <3>4, <3>7, ConveysAll
    <3> DEFINE ms == Event(b, missed, i) \o out.events
    <3>9. /\ Broadcast(ms) /\ book' \in Books /\ Misses(out.unsure)
          /\ Conveys(Present, ms, Told(session, lastSent, book', out.unsure))
      BY <3>5, <3>7, <3>8
    <3> HIDE DEF ms
    <3> QED
      BY <3>7, <3>9
  <2> QED
    BY <2>1, <2>2 DEF ApplyVehicle
<1>2. PICK w \in SUBSET Incidents :
         /\ Broadcast(ms) /\ book' \in Books /\ Misses(w)
         /\ Conveys(Present, ms, Told(session, lastSent, book', w))
  BY <1>1
<1>3. inPass' = TRUE /\ UNCHANGED <<session, mode, lastSent, statusKey, screen>> /\ Reported(v)
  BY DEF ApplyVehicle, InTask, hub
<1>4. fleet' \in Fleets
  BY <1>2, <1>3, ReportedTyped
<1>5. HubTypes'
  BY <1>2, <1>3, <1>4 DEF Misses
<1>6. clients' # {} => Present' = Told(session, lastSent, book', w)
  BY <1>2, <1>3 DEF Present, Misses
<1>7. Announces(ms)
  BY <1>2, <1>6 DEF Announces
<1> QED
  BY <1>2, <1>3, <1>5, <1>7, BroadcastStep

Silent(s, vs, b, u, i) ==
  [session |-> s, vehicles |-> vs, incidents |-> [j \in DOMAIN b \ {i} |-> b[j]],
   withdrawn |-> u \cup {i}]

Plain(s, vs, b, u) == [session |-> s, vehicles |-> vs, incidents |-> b, withdrawn |-> u]

LEMMA Lapsed ==
  ASSUME NEW s, NEW vs, NEW b, NEW u, NEW i, NEW p, p = Plain(s, vs, b, u)
  PROVE  Mirror!SilentAbout(i, p) = Silent(s, vs, b, u, i)
<1> DEFINE inc == [j \in DOMAIN p.incidents \ {i} |-> p.incidents[j]]
           wit == p.withdrawn \cup {i}
<1> USE DEF Plain
<1>1. p.incidents = b /\ p.withdrawn = u
  OBVIOUS
<1>2. inc = [j \in DOMAIN b \ {i} |-> b[j]] /\ wit = u \cup {i}
  BY <1>1
<1> HIDE DEF inc, wit
<1>3. ASSUME NEW q, q = [p EXCEPT !.incidents = inc, !.withdrawn = wit]
      PROVE  q = [session |-> s, vehicles |-> vs, incidents |-> inc, withdrawn |-> wit]
  BY <1>3
<1>4. [p EXCEPT !.incidents = inc, !.withdrawn = wit]
        = [session |-> s, vehicles |-> vs, incidents |-> inc, withdrawn |-> wit]
  BY <1>3, Zenon
<1> QED
  BY <1>2, <1>4, Zenon DEF inc, wit, Mirror!SilentAbout, Silent

(* The mirror lapses, or nobody listens.                                   *)
LEMMA RaiseStep ==
  ASSUME IInv, NEW v \in Vehicles, VehicleRaises(v)
  PROVE  IInv' /\ (Mirror!Lapse \/ Mirror!Publish \/ UNCHANGED Mirror!vars)
<1> USE HubTypesNow DEF HubTypes
<1>1. PICK i \in Active(book, v) : book' = With(book, i, "resolved") /\ Misses(missed \cup {i})
  BY DEF VehicleRaises
<1>2. /\ inPass' = TRUE /\ UNCHANGED <<session, mode, lastSent, statusKey>> /\ Reported(v)
      /\ UNCHANGED connection /\ UNCHANGED screen
  BY DEF VehicleRaises, InTask, hub
<1>3. i \in DOMAIN book /\ i \in Incidents /\ "resolved" \in Statuses
  BY DEF Active, Books, PartialMaps, Statuses
<1>4. book' \in Books
  BY <1>1, <1>3, BookWith
<1>5. HubTypes'
  BY <1>1, <1>2, <1>3, <1>4, ReportedTyped DEF Misses
<1>6. \A d : /\ Pending(d)' = Pending(d) /\ Shown(d)' = Shown(d) /\ OnTheWay(d)' = OnTheWay(d)
             /\ OnTheWay(d) = ToldIn(Pending(d))
  BY <1>2, OnTheWayIs DEF Pending, Shown, OnTheWay, connection, screen
<1>7. ASSUME clients # {}
      PROVE  Present' = Told(session, lastSent, Without(book, missed), missed \cup {i})
  <2>1. Present' = Told(session, lastSent, With(book, i, "resolved"), missed \cup {i})
    BY <1>1, <1>2, <1>7 DEF Misses, Present, connection
  <2>2. Without(With(book, i, "resolved"), missed \cup {i}) = Without(book, missed \cup {i})
    <3> DEFINE c == With(book, i, "resolved")
               w == missed \cup {i}
    <3>1. DOMAIN c = DOMAIN book /\ \A j \in DOMAIN book \ w : c[j] = book[j]
      BY <1>3 DEF With
    <3> HIDE DEF c, w
    <3>2. Without(c, w) = Without(book, w)
      BY <3>1 DEF Without
    <3> QED
      BY <3>2 DEF c, w
  <2>3. Told(session, lastSent, With(book, i, "resolved"), missed \cup {i})
          = Told(session, lastSent, book, missed \cup {i})
    BY <2>2 DEF Told
  <2>4. missed \subseteq missed \cup {i}
    OBVIOUS
  <2> QED
    BY <2>1, <2>3, <2>4, ToldAgain
<1>8. ASSUME clients # {} PROVE Fades(Present, Present')
  <2>1. /\ Present.session = session /\ Present.vehicles = lastSent
        /\ Present.incidents = Without(book, missed) /\ Present.withdrawn = missed
    BY ToldFields DEF Present
  <2>2. Present'.withdrawn = missed \cup {i}
    BY <1>7, <1>8, ToldFields
  <2> QED
    BY <1>7, <1>8, <2>1, <2>2 DEF Fades
<1>9. IInv'
  <2>1. TypeOK'
    BY <1>2, <1>5 DEF IInv, TypeOK, HubTypes, SessionIds, connection, screen
  <2>2. SocketsMatch' /\ InOrder'
    BY <1>2, <1>6 DEF IInv, SocketsMatch, InOrder, connection
  <2>3. LeadsToPresent'
    <3> SUFFICES ASSUME NEW d \in clients' PROVE Fades(LastTold(Shown(d), Pending(d))', Present')
      BY DEF LeadsToPresent
    <3>1. d \in clients /\ clients # {}
      BY <1>2 DEF connection
    <3>2. Fades(LastTold(Shown(d), Pending(d)), Present)
      BY <3>1 DEF IInv, LeadsToPresent
    <3>3. LastTold(Shown(d), Pending(d))' = LastTold(Shown(d), Pending(d))
      BY <1>6 DEF LastTold
    <3> QED
      BY <1>8, <3>1, <3>2, <3>3, FadesOn
  <2> QED
    BY <2>1, <2>2, <2>3 DEF IInv
<1>10. /\ [d \in Dashboards |-> OnTheWay(d)]' = [d \in Dashboards |-> OnTheWay(d)]
       /\ [d \in Dashboards |-> Shown(d)]' = [d \in Dashboards |-> Shown(d)]
       /\ clients' = clients
  BY <1>2, <1>6 DEF connection
<1>11. CASE clients # {} /\ i \notin missed
  <2>1. i \in DOMAIN Present.incidents
    BY <1>3, <1>11 DEF Present, Told, Without
  <2>2. Present' = Mirror!SilentAbout(i, Present)
    <3> DEFINE b == Without(book, missed)
    <3>1. Present = Plain(session, lastSent, b, missed)
      BY DEF Present, Told, Plain
    <3>2. Present' = [session |-> session, vehicles |-> lastSent,
                      incidents |-> Without(b, missed \cup {i}), withdrawn |-> missed \cup {i}]
      BY <1>7, <1>11 DEF Told
    <3>3. DOMAIN b \ (missed \cup {i}) = DOMAIN b \ {i}
      BY DEF Without
    <3>4. Without(b, missed \cup {i}) = [j \in DOMAIN b \ {i} |-> b[j]]
      <4> HIDE DEF b
      <4> QED
        BY <3>3 DEF Without
    <3>5. Present' = Silent(session, lastSent, b, missed, i)
      BY <3>2, <3>4 DEF Silent
    <3> HIDE DEF b
    <3>6. Mirror!SilentAbout(i, Present) = Silent(session, lastSent, b, missed, i)
      BY <3>1, Lapsed, Zenon
    <3> QED
      BY <3>5, <3>6, Zenon
  <2>3. \E k \in DOMAIN Present.incidents : Present' = Mirror!SilentAbout(k, Present)
    BY <2>1, <2>2
  <2>4. Mirror!Lapse
    BY <1>10, <2>3 DEF Mirror!Lapse, Present
  <2> QED
    BY <1>9, <2>4
<1>12. CASE clients # {} /\ i \in missed
  <2>1. missed \cup {i} = missed
    BY <1>12
  <2>2. Present' = Present
    <3>1. Told(session, lastSent, Without(book, missed), missed) = Told(session, lastSent, book, missed)
      BY ToldAgain
    <3> QED
      BY <1>7, <1>12, <2>1, <3>1 DEF Present
  <2> QED
    BY <1>9, <1>10, <2>2 DEF Mirror!vars, Present
<1>13. CASE clients = {}
  <2> DEFINE way == [d \in Dashboards |-> OnTheWay(d)]
  <2>1. ASSUME NEW d \in Dashboards PROVE Mirror!IsPrefixOf(way[d], way[d])
    <3>1. way[d] \in Seq(Tolds)
      BY <1>6, ToldInFacts DEF IInv, InOrder
    <3> HIDE DEF way
    <3>2. <<>> \in Seq(Tolds) /\ way[d] \o <<>> = way[d]
      BY <3>1, ConcatEmptySeq
    <3>3. Len(way[d]) <= Len(way[d] \o <<>>) /\ way[d] = SubSeq(way[d] \o <<>>, 1, Len(way[d]))
      BY <3>1, <3>2, Parted
    <3> QED
      BY <3>2, <3>3 DEF Mirror!IsPrefixOf
  <2>2. Told(session, lastSent, book, missed)' \in Tolds
    BY <1>5, Constructors DEF HubTypes
  <2>3. way = [d \in Dashboards |-> way[d]]
    OBVIOUS
  <2> QED
    BY <1>9, <1>10, <1>13, <2>1, <2>2, <2>3 DEF Mirror!Publish, Tolds, SessionIds
<1> QED
  BY <1>9, <1>11, <1>12, <1>13

LEMMA PassEndsStep ==
  ASSUME IInv, PassEnds
  PROVE  IInv' /\ (Mirror!Publish \/ UNCHANGED Mirror!vars)
<1> USE HubTypesNow DEF HubTypes
<1>1. Conveys(Present, Flush(session, lastSent, fleet, book, missed),
              Told(session, fleet, book, missed))
  BY DeltaLeads DEF Present
<1>2. HubTypes' /\ (clients' # {} => Present' = Told(session, fleet, book, missed))
  BY DEF PassEnds, Misses, runtimeVars, Present
<1>3. Announces(Flush(session, lastSent, fleet, book, missed))
  BY <1>1, <1>2 DEF Announces
<1> QED
  BY <1>2, <1>3, BroadcastStep DEF PassEnds

LEMMA TickStep ==
  ASSUME IInv, HubTick
  PROVE  IInv' /\ (Mirror!Publish \/ UNCHANGED Mirror!vars)
<1> USE HubTypesNow DEF HubTypes
<1>1. PICK gone \in SUBSET DOMAIN fleet, other \in BOOLEAN :
       LET swept == [v \in DOMAIN fleet \ gone |-> fleet[v]]
           status == IF mode = statusKey THEN <<>> ELSE <<Status(session, swept, book, missed, mode)>>
           others == IF other THEN <<Other(session, swept, book, missed)>> ELSE <<>>
       IN  /\ fleet' = swept
           /\ lastSent' = swept
           /\ Broadcast(Flush(session, lastSent, swept, book, missed) \o status \o others)
  BY DEF HubTick
<1> DEFINE swept == [v \in DOMAIN fleet \ gone |-> fleet[v]]
           status == IF mode = statusKey THEN <<>> ELSE <<Status(session, swept, book, missed, mode)>>
           others == IF other THEN <<Other(session, swept, book, missed)>> ELSE <<>>
           flush == Flush(session, lastSent, swept, book, missed)
           t == Told(session, swept, book, missed)
<1>2. swept \in Fleets
  <2>1. DOMAIN fleet \in SUBSET Vehicles /\ fleet \in [DOMAIN fleet -> VehicleState]
    BY DEF Fleets, PartialMaps
  <2>2. swept \in [DOMAIN fleet \ gone -> VehicleState] /\ DOMAIN fleet \ gone \in SUBSET Vehicles
    BY <2>1
  <2> QED
    BY <2>2 DEF Fleets, PartialMaps
<1>3. fleet' = swept /\ lastSent' = swept
      /\ Broadcast((flush \o status) \o others)
  BY <1>1
<1> HIDE DEF swept
<1>4. Conveys(Present, flush, t)
  BY <1>2, DeltaLeads DEF Present
<1>5. Conveys(t, status, t) /\ Conveys(t, others, t)
  BY <1>2, StatusLeads, ConveysNothing
<1> HIDE DEF status, others, flush
<1>6. Conveys(Present, (flush \o status) \o others, t)
  BY <1>4, <1>5, ConveysAll
<1>7. statusKey' = mode /\ UNCHANGED <<session, book, mode, inPass, screen>> /\ Misses(missed)
  BY DEF HubTick
<1>8. HubTypes' /\ (clients' # {} => Present' = t)
  BY <1>2, <1>3, <1>7 DEF Present, Misses
<1> HIDE DEF t
<1>9. Announces((flush \o status) \o others)
  BY <1>6, <1>8 DEF Announces
<1> QED
  BY <1>3, <1>7, <1>8, <1>9, BroadcastStep

(* The backend changes and tells nobody yet.                               *)
LEMMA QuietStep ==
  ASSUME IInv, ModeChanges \/ PassRaises \/ \E v \in Vehicles : FrameStored(v)
  PROVE  IInv' /\ UNCHANGED Mirror!vars
<1> USE HubTypesNow DEF HubTypes
<1>1. UNCHANGED <<session, book, missed, lastSent, connection, screen, statusKey>>
  BY DEF ModeChanges, PassRaises, FrameStored, runtimeVars, hub
<1>2. fleet' \in Fleets /\ mode' \in Modes /\ inPass' \in BOOLEAN
  <2>1. CASE ModeChanges
    BY <2>1, StreamAssumption DEF ModeChanges, SessionIds
  <2>2. CASE PassRaises
    BY <2>2 DEF PassRaises, runtimeVars
  <2>3. ASSUME NEW v \in Vehicles, FrameStored(v)
        PROVE  fleet' \in Fleets /\ mode' \in Modes /\ inPass' \in BOOLEAN
    <3> DEFINE old == IF v \in DOMAIN fleet THEN fleet[v].badge ELSE None
    <3>1. old \in Incidents \cup {None}
      <4>1. \A x \in VehicleState : x.badge \in Incidents \cup {None}
        BY DEF VehicleState
      <4> QED
        BY <4>1 DEF Fleets, PartialMaps
    <3>2. PICK look \in Looks : fleet' = With(fleet, v, [look |-> look, badge |-> old])
      BY <2>3 DEF FrameStored
    <3>3. [look |-> look, badge |-> old] \in VehicleState
      BY <3>1 DEF VehicleState
    <3> HIDE DEF old
    <3> QED
      BY <2>3, <3>2, <3>3, FleetWith DEF FrameStored
  <2> QED
    BY <2>1, <2>2, <2>3
<1>3. HubTypes'
  BY <1>1, <1>2
<1> QED
  BY <1>1, <1>3, SilentStep
-----------------------------------------------------------------------------
(* The connections, one dashboard at a time.                               *)

LEMMA Moved ==
  ASSUME NEW w \in Seq(Message), NEW q \in Seq(Message), q # <<>>
  PROVE  /\ Append(w, Head(q)) \in Seq(Message) /\ Tail(q) \in Seq(Message)
         /\ Append(w, Head(q)) \o Tail(q) = w \o q
<1> DEFINE a == Append(w, Head(q))
           r == Tail(q)
<1>1. /\ Head(q) \in Message /\ r \in Seq(Message) /\ Len(r) = Len(q) - 1 /\ Len(q) \in Nat \ {0}
      /\ \A i \in 1..Len(r) : r[i] = q[i + 1]
      /\ Head(q) = q[1]
  BY EmptySeq, HeadTailProperties
<1>2. /\ a \in Seq(Message) /\ Len(a) = Len(w) + 1 /\ Len(w) \in Nat /\ a[Len(w) + 1] = q[1]
      /\ \A i \in 1..Len(w) : a[i] = w[i]
  BY <1>1
<1> HIDE DEF a, r
<1>3. /\ a \o r \in Seq(Message) /\ Len(a \o r) = Len(a) + Len(r)
      /\ \A i \in 1..Len(a) + Len(r) : (a \o r)[i] = IF i <= Len(a) THEN a[i] ELSE r[i - Len(a)]
  BY ZenonT(30), <1>1, <1>2, ConcatProperties
<1>4. /\ w \o q \in Seq(Message) /\ Len(w \o q) = Len(w) + Len(q)
      /\ \A i \in 1..Len(w) + Len(q) : (w \o q)[i] = IF i <= Len(w) THEN w[i] ELSE q[i - Len(w)]
  BY ConcatProperties
<1>5. Len(a \o r) = Len(w \o q)
  BY <1>1, <1>2, <1>3, <1>4
<1>6. ASSUME NEW i \in 1..Len(a \o r) PROVE (a \o r)[i] = (w \o q)[i]
  <2>1. i \in 1..Len(a) + Len(r) /\ i \in 1..Len(w) + Len(q) /\ Len(a) = Len(w) + 1
    BY <1>1, <1>2, <1>3
  <2>2. CASE i <= Len(w)
    <3>1. i \in 1..Len(w) /\ i <= Len(a)
      BY <1>2, <2>1, <2>2
    <3> QED
      BY <1>2, <1>3, <1>4, <2>1, <2>2, <3>1
  <2>3. CASE i = Len(w) + 1
    <3>1. i <= Len(a) /\ ~(i <= Len(w)) /\ i - Len(w) = 1
      BY <1>2, <2>1, <2>3
    <3> QED
      BY <1>2, <1>3, <1>4, <2>1, <2>3, <3>1
  <2>4. CASE i > Len(w) + 1
    <3>1. /\ ~(i <= Len(a)) /\ ~(i <= Len(w)) /\ i - Len(a) \in 1..Len(r)
          /\ (i - Len(a)) + 1 = i - Len(w)
      BY <1>1, <1>2, <2>1, <2>4
    <3> QED
      BY <1>1, <1>3, <1>4, <2>1, <3>1
  <2> QED
    BY <1>2, <2>1, <2>2, <2>3, <2>4
<1>7. a \o r = w \o q
  BY <1>3, <1>4, <1>5, <1>6, SeqEqual
<1> QED
  BY <1>1, <1>2, <1>7 DEF a, r

LEMMA Taken ==
  ASSUME NEW w \in Seq(Message), NEW q \in Seq(Message), w # <<>>
  PROVE  /\ Head(w) \in Message /\ Tail(w) \in Seq(Message) /\ w \o q # <<>>
         /\ Head(w \o q) = Head(w) /\ Tail(w \o q) = Tail(w) \o q
<1> DEFINE wq == w \o q
           r == Tail(w)
<1>1. /\ Head(w) \in Message /\ r \in Seq(Message) /\ Len(r) = Len(w) - 1 /\ Len(w) \in Nat \ {0}
      /\ \A i \in 1..Len(r) : r[i] = w[i + 1]
      /\ Head(w) = w[1]
  BY EmptySeq, HeadTailProperties
<1>2. /\ wq \in Seq(Message) /\ Len(wq) = Len(w) + Len(q) /\ Len(q) \in Nat
      /\ \A i \in 1..Len(w) + Len(q) : wq[i] = IF i <= Len(w) THEN w[i] ELSE q[i - Len(w)]
  BY ConcatProperties
<1> HIDE DEF wq, r
<1>3. wq # <<>>
  BY <1>1, <1>2, EmptySeq
<1>4. /\ Head(wq) = wq[1] /\ Tail(wq) \in Seq(Message) /\ Len(Tail(wq)) = Len(wq) - 1
      /\ \A i \in 1..Len(Tail(wq)) : Tail(wq)[i] = wq[i + 1]
  BY <1>2, <1>3, HeadTailProperties
<1>5. Head(wq) = Head(w)
  <2>1. 1 \in 1..Len(w) + Len(q) /\ 1 <= Len(w)
    BY <1>1, <1>2
  <2> QED
    BY <1>1, <1>2, <1>4, <2>1
<1>6. /\ r \o q \in Seq(Message) /\ Len(r \o q) = Len(r) + Len(q)
      /\ \A i \in 1..Len(r) + Len(q) : (r \o q)[i] = IF i <= Len(r) THEN r[i] ELSE q[i - Len(r)]
  BY <1>1, ConcatProperties
<1>7. Len(Tail(wq)) = Len(r \o q)
  BY <1>1, <1>2, <1>4, <1>6
<1>8. ASSUME NEW i \in 1..Len(Tail(wq)) PROVE Tail(wq)[i] = (r \o q)[i]
  <2>1. i \in 1..Len(r) + Len(q) /\ i + 1 \in 1..Len(w) + Len(q) /\ Tail(wq)[i] = wq[i + 1]
    BY <1>1, <1>2, <1>4
  <2>2. CASE i <= Len(r)
    <3>1. i \in 1..Len(r) /\ i + 1 <= Len(w)
      BY <1>1, <2>1, <2>2
    <3> QED
      BY <1>1, <1>2, <1>6, <2>1, <2>2, <3>1
  <2>3. CASE ~(i <= Len(r))
    <3>1. ~(i + 1 <= Len(w)) /\ (i + 1) - Len(w) = i - Len(r)
      BY <1>1, <2>1, <2>3
    <3> QED
      BY ZenonT(20), <1>2, <1>6, <2>1, <2>3, <3>1
  <2> QED
    BY <2>2, <2>3
<1>9. Tail(wq) = r \o q
  BY ZenonT(20), <1>4, <1>6, <1>7, <1>8, SeqEqual
<1> QED
  BY <1>1, <1>3, <1>5, <1>9 DEF wq, r
(* A step at one dashboard's connection: the others keep theirs.           *)
LEMMA OneConnection ==
  ASSUME IInv, NEW d \in Dashboards,
         DOMAIN queue' = Dashboards, DOMAIN wire' = Dashboards,
         queue'[d] = <<Closing>> \/ queue'[d] \in Seq(Message), Len(queue'[d]) <= QueueSize,
         wire'[d] \in Seq(Message), link' \in [Dashboards -> {"down", "up", "closing"}],
         ScreenTypes',
         \A e \in Dashboards \ {d} :
           /\ queue'[e] = queue[e] /\ wire'[e] = wire[e] /\ link'[e] = link[e]
           /\ view'[e] = view[e] /\ unsure'[e] = unsure[e]
           /\ e \in clients' <=> e \in clients,
         clients' \subseteq Dashboards,
         UNCHANGED <<runtimeVars, inPass, hub>>,
         missed' = missed \/ (missed' = {} /\ clients' = {}),
         d \in clients' => queue'[d] \in Seq(Message) /\ link'[d] = "up",
         d \notin clients' => queue'[d] \in {<<>>, <<Closing>>},
         link'[d] # "up" => queue'[d] = <<>>,
         link'[d] = "down" => wire'[d] = <<>>,
         Pending(d)' \in Seq(Message), Chain(Shown(d)', Pending(d)'),
         d \in clients' => Fades(LastTold(Shown(d)', Pending(d)'), Present)
  PROVE  /\ IInv' /\ (missed' = missed => Present' = Present)
         /\ [e \in Dashboards |-> OnTheWay(e)]'
              = [[e \in Dashboards |-> OnTheWay(e)] EXCEPT ![d] = ToldIn(Pending(d)')]
         /\ [e \in Dashboards |-> Shown(e)]'
              = [[e \in Dashboards |-> Shown(e)] EXCEPT ![d] = Shown(d)']
<1> USE DEF IInv
<1>1. missed' = missed => Present' = Present
  BY DEF runtimeVars, hub, Present
<1>2. \A e \in Dashboards \ {d} : /\ Pending(e)' = Pending(e) /\ Shown(e)' = Shown(e)
                                  /\ OnTheWay(e)' = OnTheWay(e)
  BY DEF Pending, Shown, OnTheWay
<1>3. HubTypes'
  BY HubTypesNow DEF HubTypes, runtimeVars, hub
<1>4. ConnectionTypes'
  <2>1. ASSUME NEW e \in Dashboards
        PROVE  /\ queue'[e] = <<Closing>> \/ queue'[e] \in Seq(Message)
               /\ Len(queue'[e]) <= QueueSize
               /\ wire'[e] \in Seq(Message)
    BY TypeParts DEF ConnectionTypes
  <2> QED
    BY <2>1 DEF ConnectionTypes
<1>5. TypeOK'
  BY <1>3, <1>4 DEF TypeOK, HubTypes, ConnectionTypes, ScreenTypes, ViewType, SessionIds
<1>6. SocketsMatch'
  <2>1. ASSUME NEW e \in Dashboards
        PROVE  /\ e \in clients' => queue'[e] \in Seq(Message) /\ link'[e] = "up"
               /\ e \notin clients' => queue'[e] \in {<<>>, <<Closing>>}
               /\ link'[e] # "up" => queue'[e] = <<>>
               /\ link'[e] = "down" => wire'[e] = <<>>
    <3>1. CASE e = d
      BY <3>1
    <3>2. CASE e # d
      BY <3>2 DEF SocketsMatch
    <3> QED
      BY <3>1, <3>2
  <2> QED
    BY <2>1 DEF SocketsMatch
<1>7. InOrder'
  <2>1. ASSUME NEW e \in Dashboards
        PROVE  Pending(e)' \in Seq(Message) /\ Chain(Shown(e)', Pending(e)')
    <3>1. CASE e # d
      BY <1>2, <3>1 DEF InOrder
    <3> QED
      BY <3>1
  <2> QED
    BY <2>1 DEF InOrder
<1>8. LeadsToPresent'
  <2>1. ASSUME NEW e \in clients'
        PROVE  Fades(LastTold(Shown(e)', Pending(e)'), Present')
    <3> USE <1>1
    <3>1. CASE e # d
      BY <1>1, <1>2, <3>1 DEF LeadsToPresent
    <3>2. CASE e = d
      BY <1>1, <3>2
    <3> QED
      BY <3>1, <3>2
  <2> QED
    BY <2>1 DEF LeadsToPresent
<1>9. OnTheWay(d)' = ToldIn(Pending(d)')
  BY DEF OnTheWay, ToldIn, Pending
<1>10. [e \in Dashboards |-> OnTheWay(e)']
         = [[e \in Dashboards |-> OnTheWay(e)] EXCEPT ![d] = ToldIn(Pending(d)')]
  BY <1>2, <1>9
<1>11. [e \in Dashboards |-> Shown(e)']
         = [[e \in Dashboards |-> Shown(e)] EXCEPT ![d] = Shown(d)']
  BY <1>2
<1> QED
  BY <1>1, <1>5, <1>6, <1>7, <1>8, <1>10, <1>11

(* The types of one dashboard's connection.                                *)
LEMMA ConnectionNow ==
  ASSUME IInv, NEW d \in Dashboards
  PROVE  /\ clients \subseteq Dashboards /\ DOMAIN queue = Dashboards /\ DOMAIN wire = Dashboards
         /\ queue[d] = <<Closing>> \/ queue[d] \in Seq(Message)
         /\ Len(queue[d]) <= QueueSize /\ wire[d] \in Seq(Message)
         /\ link \in [Dashboards -> {"down", "up", "closing"}]
         /\ ScreenTypes /\ view[d] \in ViewType
         /\ d \in clients => queue[d] \in Seq(Message) /\ link[d] = "up"
         /\ d \notin clients => queue[d] \in {<<>>, <<Closing>>}
         /\ link[d] # "up" => queue[d] = <<>> /\ d \notin clients
         /\ link[d] = "down" => wire[d] = <<>>
         /\ Pending(d) \in Seq(Message) /\ Chain(Shown(d), Pending(d))
         /\ d \in clients => /\ Fades(LastTold(Shown(d), Pending(d)), Present)
                             /\ Pending(d) = wire[d] \o queue[d]
         /\ d \notin clients => Pending(d) = wire[d]
<1> USE DEF IInv
<1>1. /\ clients \subseteq Dashboards /\ DOMAIN queue = Dashboards /\ DOMAIN wire = Dashboards
      /\ queue[d] = <<Closing>> \/ queue[d] \in Seq(Message)
      /\ Len(queue[d]) <= QueueSize /\ wire[d] \in Seq(Message)
      /\ link \in [Dashboards -> {"down", "up", "closing"}]
  BY TypeParts DEF ConnectionTypes
<1>2. ScreenTypes /\ view[d] \in ViewType
  BY TypeParts DEF ScreenTypes
<1>3. d \notin clients => Pending(d) = wire[d]
  BY <1>1, ConcatEmptySeq DEF Pending
<1>4. d \in clients => Pending(d) = wire[d] \o queue[d]
  BY DEF Pending
<1> QED
  BY <1>1, <1>2, <1>3, <1>4 DEF SocketsMatch, InOrder, LeadsToPresent
(* A step at a connection that neither loses nor adds a message.           *)
LEMMA Unseen ==
  ASSUME IInv, NEW d \in Dashboards,
         DOMAIN queue' = Dashboards, DOMAIN wire' = Dashboards,
         queue'[d] \in Seq(Message), Len(queue'[d]) <= QueueSize,
         wire'[d] \in Seq(Message), link' \in [Dashboards -> {"down", "up", "closing"}],
         \A e \in Dashboards \ {d} : queue'[e] = queue[e] /\ wire'[e] = wire[e] /\ link'[e] = link[e],
         UNCHANGED <<clients, screen, runtimeVars, inPass, hub, missed>>,
         d \in clients' => link'[d] = "up",
         d \notin clients' => queue'[d] = <<>>,
         link'[d] # "up" => queue'[d] = <<>>,
         link'[d] = "down" => wire'[d] = <<>>,
         Pending(d)' = Pending(d), Shown(d)' = Shown(d)
  PROVE  IInv' /\ UNCHANGED Mirror!vars
<1>1. /\ clients \subseteq Dashboards /\ ScreenTypes'
      /\ Pending(d) \in Seq(Message) /\ Chain(Shown(d), Pending(d))
      /\ d \in clients => Fades(LastTold(Shown(d), Pending(d)), Present)
  BY ConnectionNow DEF ScreenTypes, screen
<1>2. /\ IInv' /\ Present' = Present
      /\ [e \in Dashboards |-> OnTheWay(e)]'
           = [[e \in Dashboards |-> OnTheWay(e)] EXCEPT ![d] = ToldIn(Pending(d)')]
      /\ [e \in Dashboards |-> Shown(e)]'
           = [[e \in Dashboards |-> Shown(e)] EXCEPT ![d] = Shown(d)']
  BY <1>1, OneConnection DEF screen
<1>3. [e \in Dashboards |-> OnTheWay(e)]' = [e \in Dashboards |-> OnTheWay(e)]
  <2>1. ToldIn(Pending(d)') = OnTheWay(d)
    BY OnTheWayIs
  <2> QED
    BY <1>2, <2>1
<1>4. [e \in Dashboards |-> Shown(e)]' = [e \in Dashboards |-> Shown(e)]
  BY <1>2
<1> QED
  BY <1>2, <1>3, <1>4 DEF Mirror!vars, Present

LEMMA ConnectStep ==
  ASSUME IInv, NEW d \in Dashboards, Connect(d)
  PROVE  IInv' /\ Mirror!Subscribe(d)
<1> DEFINE m == Snapshot(session, lastSent, book, missed, mode)
<1>1. /\ m \in Message /\ m.told = Present /\ Conveys(Shown(d), <<m>>, Present)
      /\ Fades(Present, Present)
  BY HubTypesNow, Constructors, StatusLeads, ToldAgain DEF HubTypes, Snapshot, Present
<1>2. /\ link[d] = "down" /\ wire[d] = <<>> /\ link \in [Dashboards -> {"down", "up", "closing"}]
      /\ DOMAIN queue = Dashboards /\ DOMAIN wire = Dashboards /\ clients \subseteq Dashboards
      /\ ScreenTypes
  BY ConnectionNow DEF Connect
<1>3. /\ link' = [link EXCEPT ![d] = "up"] /\ queue' = [queue EXCEPT ![d] = <<m>>]
      /\ clients' = clients \cup {d} /\ wire' = wire /\ view' = view /\ unsure' = unsure
      /\ UNCHANGED <<runtimeVars, inPass, hub, missed>>
  BY DEF Connect, screen
<1> HIDE DEF m
<1>4. <<>> \in Seq(Message) /\ <<m>> \in Seq(Message) /\ Len(<<m>>) = 1 /\ 1 <= QueueSize
  BY <1>1, StreamAssumption
<1>5. /\ DOMAIN queue' = Dashboards /\ DOMAIN wire' = Dashboards /\ clients' \subseteq Dashboards
      /\ queue'[d] = <<m>> /\ wire'[d] = <<>> /\ link'[d] = "up" /\ d \in clients'
      /\ link' \in [Dashboards -> {"down", "up", "closing"}]
      /\ \A e \in Dashboards \ {d} :
           /\ queue'[e] = queue[e] /\ wire'[e] = wire[e] /\ link'[e] = link[e]
           /\ view'[e] = view[e] /\ unsure'[e] = unsure[e]
           /\ e \in clients' <=> e \in clients
  BY <1>2, <1>3
<1>6. Pending(d)' = <<m>>
  BY <1>4, <1>5, ConcatEmptySeq DEF Pending
<1>7. Shown(d)' = Shown(d)
  BY <1>3 DEF Shown
<1>8. Chain(Shown(d)', Pending(d)') /\ Fades(LastTold(Shown(d)', Pending(d)'), Present)
  BY <1>1, <1>6, <1>7 DEF Conveys
<1>9. ToldIn(<<m>>) = <<Present>>
  BY <1>1 DEF ToldIn
<1>10. /\ IInv' /\ Present' = Present
       /\ [e \in Dashboards |-> OnTheWay(e)]'
            = [[e \in Dashboards |-> OnTheWay(e)] EXCEPT ![d] = ToldIn(Pending(d)')]
       /\ [e \in Dashboards |-> Shown(e)]'
            = [[e \in Dashboards |-> Shown(e)] EXCEPT ![d] = Shown(d)']
  <2>1. /\ queue'[d] \in Seq(Message) /\ Len(queue'[d]) <= QueueSize /\ wire'[d] \in Seq(Message)
        /\ ScreenTypes' /\ Pending(d)' \in Seq(Message)
        /\ link'[d] # "down"
    BY <1>2, <1>3, <1>4, <1>5, <1>6 DEF ScreenTypes
  <2> QED
    BY <1>3, <1>5, <1>8, <2>1, OneConnection
<1>11. [e \in Dashboards |-> Shown(e)]' = [e \in Dashboards |-> Shown(e)]
  BY <1>7, <1>10
<1>12. Mirror!Subscribe(d)
  BY <1>3, <1>6, <1>9, <1>10, <1>11 DEF Mirror!Subscribe, Present
<1> QED
  BY <1>10, <1>12

LEMMA SendStep ==
  ASSUME IInv, NEW d \in Dashboards, Send(d)
  PROVE  IInv' /\ UNCHANGED Mirror!vars
<1> DEFINE q == queue[d]
           w == wire[d]
<1>1. /\ q = <<Closing>> \/ q \in Seq(Message)
      /\ Len(q) <= QueueSize /\ w \in Seq(Message)
      /\ link \in [Dashboards -> {"down", "up", "closing"}]
      /\ DOMAIN queue = Dashboards /\ DOMAIN wire = Dashboards /\ clients \subseteq Dashboards
      /\ d \in clients => q \in Seq(Message) /\ link[d] = "up"
      /\ d \notin clients => q \in {<<>>, <<Closing>>}
      /\ link[d] # "up" => q = <<>> /\ d \notin clients
      /\ Pending(d) \in Seq(Message) /\ Chain(Shown(d), Pending(d))
      /\ d \in clients => Pending(d) = w \o q
      /\ d \notin clients => Pending(d) = w
  BY ConnectionNow
<1>2. /\ q # <<>> /\ queue' = [queue EXCEPT ![d] = Tail(q)]
      /\ Head(q) = Closing => link' = [link EXCEPT ![d] = "closing"] /\ wire' = wire
      /\ Head(q) # Closing => link' = link /\ wire' = [wire EXCEPT ![d] = Append(w, Head(q))]
      /\ clients' = clients /\ view' = view /\ unsure' = unsure
      /\ UNCHANGED <<runtimeVars, inPass, hub, missed, screen>>
  BY DEF Send, screen
<1> HIDE DEF q, w
<1>3. <<>> \in Seq(Message) /\ Len(<<>>) <= QueueSize
  BY StreamAssumption
<1>4. CASE d \in clients
  <2>1. q \in Seq(Message) /\ Head(q) # Closing /\ Len(Tail(q)) <= QueueSize
    <3>1. q \in Seq(Message)
      BY <1>1, <1>4
    <3>2. Head(q) \in Message /\ Len(Tail(q)) = Len(q) - 1 /\ Len(q) \in Nat \ {0}
      BY <1>2, <3>1, HeadTailProperties, EmptySeq
    <3>3. Len(q) <= QueueSize /\ QueueSize \in Nat
      BY <1>1, StreamAssumption
    <3> QED
      BY <3>1, <3>2, <3>3, MessageFacts
  <2>2. /\ Append(w, Head(q)) \in Seq(Message) /\ Tail(q) \in Seq(Message)
        /\ Append(w, Head(q)) \o Tail(q) = w \o q
    BY <1>1, <1>2, <2>1, Moved
  <2>3. /\ queue'[d] = Tail(q) /\ wire'[d] = Append(w, Head(q)) /\ link' = link
        /\ DOMAIN queue' = Dashboards /\ DOMAIN wire' = Dashboards
        /\ \A e \in Dashboards \ {d} : queue'[e] = queue[e] /\ wire'[e] = wire[e]
    BY <1>1, <1>2, <2>1
  <2>4. Pending(d)' = Pending(d)
    BY <1>1, <1>2, <1>4, <2>2, <2>3 DEF Pending
  <2>5. Shown(d)' = Shown(d)
    BY <1>2 DEF Shown
  <2> QED
    BY <1>1, <1>2, <1>4, <2>1, <2>2, <2>3, <2>4, <2>5, Unseen
<1>5. CASE d \notin clients
  <2>1. q = <<Closing>>
    BY <1>1, <1>2, <1>5
  <2>2. Head(q) = Closing /\ Tail(q) = <<>>
    BY <2>1
  <2>3. /\ queue'[d] = <<>> /\ wire' = wire /\ link' = [link EXCEPT ![d] = "closing"]
        /\ link'[d] = "closing" /\ link' \in [Dashboards -> {"down", "up", "closing"}]
        /\ DOMAIN queue' = Dashboards /\ DOMAIN wire' = Dashboards
        /\ \A e \in Dashboards \ {d} : queue'[e] = queue[e] /\ link'[e] = link[e]
    BY ZenonT(20), <1>1, <1>2, <2>2
  <2>4. Pending(d)' = Pending(d)
    BY ZenonT(20), <1>1, <1>2, <1>3, <1>5, <2>3, ConcatEmptySeq DEF Pending, w
  <2>5. Shown(d)' = Shown(d)
    BY <1>2 DEF Shown
  <2>6. wire'[d] \in Seq(Message)
    BY <1>1, <2>3 DEF w
  <2> QED
    BY <1>1, <1>2, <1>3, <1>5, <2>3, <2>4, <2>5, <2>6, Unseen
<1> QED
  BY <1>4, <1>5

LEMMA ReceiveStep ==
  ASSUME IInv, NEW d \in Dashboards, Receive(d)
  PROVE  IInv' /\ Mirror!Show(d)
<1> DEFINE m == Head(wire[d])
           rest == IF d \in clients THEN queue[d] ELSE <<>>
<1>1. /\ queue[d] = <<Closing>> \/ queue[d] \in Seq(Message)
      /\ Len(queue[d]) <= QueueSize /\ wire[d] \in Seq(Message)
      /\ link \in [Dashboards -> {"down", "up", "closing"}]
      /\ DOMAIN queue = Dashboards /\ DOMAIN wire = Dashboards /\ clients \subseteq Dashboards
      /\ view[d] \in ViewType /\ ScreenTypes
      /\ d \in clients => queue[d] \in Seq(Message) /\ link[d] = "up"
      /\ d \notin clients => queue[d] \in {<<>>, <<Closing>>}
      /\ link[d] # "up" => queue[d] = <<>>
      /\ link[d] = "down" => wire[d] = <<>>
      /\ Pending(d) \in Seq(Message) /\ Chain(Shown(d), Pending(d))
      /\ d \in clients => Fades(LastTold(Shown(d), Pending(d)), Present)
  BY ConnectionNow
<1>2. /\ wire[d] # <<>> /\ wire' = [wire EXCEPT ![d] = Tail(@)]
      /\ view' = [view EXCEPT ![d] = OnMessage(@, Head(wire[d]))]
      /\ unsure' = [unsure EXCEPT ![d] = Head(wire[d]).told.withdrawn]
      /\ UNCHANGED <<clients, queue, link, runtimeVars, inPass, hub, missed>>
  BY DEF Receive
<1>3. Pending(d) = wire[d] \o rest
  BY DEF Pending
<1>4. <<>> \in Seq(Message)
  OBVIOUS
<1>5. rest \in Seq(Message)
  BY <1>1, <1>4
<1>6. /\ m \in Message /\ Tail(wire[d]) \in Seq(Message) /\ Pending(d) # <<>>
      /\ Head(Pending(d)) = m /\ Tail(Pending(d)) = Tail(wire[d]) \o rest
  BY SMTT(30), <1>1, <1>2, <1>3, <1>5, Taken
<1>7. /\ DOMAIN wire' = Dashboards /\ wire'[d] = Tail(wire[d])
      /\ \A e \in Dashboards \ {d} : /\ wire'[e] = wire[e] /\ view'[e] = view[e]
                                     /\ unsure'[e] = unsure[e]
      /\ view'[d] = OnMessage(view[d], m) /\ unsure'[d] = m.told.withdrawn
  BY <1>1, <1>2 DEF ScreenTypes
<1>8. Pending(d)' = Tail(wire[d]) \o rest
  BY <1>2, <1>7 DEF Pending
<1>9. Tail(Pending(d)) \in Seq(Message)
  BY <1>1, <1>6, HeadTailProperties
<1>10. /\ Leads(Shown(d), m) /\ Chain(m.told, Tail(Pending(d)))
       /\ LastTold(m.told, Tail(Pending(d))) = LastTold(Shown(d), Pending(d))
  BY <1>1, <1>6, ChainTail
<1> HIDE DEF m, rest
<1>11. OnMessage(view[d], m) \in ViewType /\ Shown(d)' = m.told
  <2>1. Leads(Told(view[d].session, view[d].vehicles, view[d].incidents, unsure[d]), m)
    BY <1>10 DEF Shown
  <2>2. view[d] \in [session: SessionIds, vehicles: Fleets, incidents: Books,
                     mode: Modes \cup {None}]
    BY <1>1 DEF ViewType
  <2>3. /\ OnMessage(view[d], m) \in ViewType
        /\ LET n == OnMessage(view[d], m)
           IN  Told(n.session, n.vehicles, n.incidents, m.told.withdrawn) = m.told
    BY <1>6, <2>1, <2>2, Understood DEF ViewType
  <2> QED
    BY <1>7, <2>3 DEF Shown
<1>12. ScreenTypes'
  <2>1. m.told.withdrawn \in SUBSET Incidents
    BY <1>6, MessageFacts DEF Tolds
  <2> QED
    BY <1>1, <1>2, <1>7, <1>11, <2>1 DEF m, ScreenTypes
<1>13. link'[d] = "down" => wire'[d] = <<>>
  BY <1>1, <1>2
<1>14. Pending(d)' = Tail(Pending(d)) /\ Pending(d)' \in Seq(Message)
  BY <1>6, <1>8, <1>9
<1>15. /\ Chain(Shown(d)', Pending(d)')
       /\ d \in clients' => Fades(LastTold(Shown(d)', Pending(d)'), Present)
  BY <1>1, <1>2, <1>10, <1>11, <1>14
<1>16. /\ queue' = queue /\ clients' = clients /\ link' = link /\ wire'[d] \in Seq(Message)
       /\ UNCHANGED <<runtimeVars, inPass, hub, missed>>
  BY <1>2, <1>6, <1>7
<1>17. /\ IInv' /\ Present' = Present
       /\ [e \in Dashboards |-> OnTheWay(e)]'
            = [[e \in Dashboards |-> OnTheWay(e)] EXCEPT ![d] = ToldIn(Pending(d)')]
       /\ [e \in Dashboards |-> Shown(e)]'
            = [[e \in Dashboards |-> Shown(e)] EXCEPT ![d] = Shown(d)']
  BY <1>1, <1>7, <1>12, <1>13, <1>14, <1>15, <1>16, OneConnection
<1>18. /\ OnTheWay(d) = ToldIn(Pending(d)) /\ OnTheWay(d) # <<>>
       /\ Head(OnTheWay(d)) = m.told /\ Tail(OnTheWay(d)) = ToldIn(Pending(d)')
  BY <1>1, <1>6, <1>14, OnTheWayIs, ToldInFacts
<1>19. Mirror!Show(d)
  BY <1>11, <1>16, <1>17, <1>18 DEF Mirror!Show, Present
<1> QED
  BY <1>17, <1>19
LEMMA ClosedStep ==
  ASSUME IInv, NEW d \in Dashboards, Closed(d)
  PROVE  IInv' /\ UNCHANGED Mirror!vars
<1>1. /\ link[d] = "closing" /\ wire[d] = <<>> /\ link' = [link EXCEPT ![d] = "down"]
      /\ UNCHANGED <<clients, queue, wire, runtimeVars, inPass, hub, missed, screen>>
  BY DEF Closed
<1>2. /\ link \in [Dashboards -> {"down", "up", "closing"}]
      /\ DOMAIN queue = Dashboards /\ DOMAIN wire = Dashboards
      /\ queue[d] = <<>> /\ d \notin clients /\ Len(queue[d]) <= QueueSize
  BY <1>1, ConnectionNow
<1>3. <<>> \in Seq(Message)
  OBVIOUS
<1>4. Pending(d)' = Pending(d) /\ Shown(d)' = Shown(d)
  BY <1>1 DEF Pending, Shown, screen
<1>5. /\ link' \in [Dashboards -> {"down", "up", "closing"}] /\ link'[d] = "down"
      /\ \A e \in Dashboards \ {d} : link'[e] = link[e]
  BY <1>1, <1>2
<1> QED
  BY <1>1, <1>2, <1>3, <1>4, <1>5, Unseen

LEMMA LostStep ==
  ASSUME IInv, NEW d \in Dashboards, SocketLost(d)
  PROVE  IInv' /\ (Mirror!CutOff(d) \/ Mirror!Publish)
<1>1. /\ link' = [e \in Dashboards |-> IF e \in {d} THEN "down" ELSE link[e]]
      /\ wire' = [e \in Dashboards |-> IF e \in {d} THEN <<>> ELSE wire[e]]
      /\ queue' = [e \in Dashboards |-> IF e \in {d} THEN <<>> ELSE queue[e]]
      /\ clients' = clients \ {d} /\ view' = view /\ unsure' = unsure
      /\ UNCHANGED <<runtimeVars, inPass, hub>>
      /\ missed' = missed \/ (missed' = {} /\ clients' = {})
  BY DEF SocketLost, Lose, Misses, screen
<1>2. /\ link \in [Dashboards -> {"down", "up", "closing"}] /\ clients \subseteq Dashboards
      /\ ScreenTypes /\ Pending(d) \in Seq(Message)
  BY ConnectionNow
<1>3. <<>> \in Seq(Message) /\ Len(<<>>) <= QueueSize
  BY StreamAssumption
<1>4. /\ DOMAIN queue' = Dashboards /\ DOMAIN wire' = Dashboards /\ clients' \subseteq Dashboards
      /\ queue'[d] = <<>> /\ wire'[d] = <<>> /\ link'[d] = "down" /\ d \notin clients'
      /\ link' \in [Dashboards -> {"down", "up", "closing"}]
      /\ \A e \in Dashboards \ {d} :
           /\ queue'[e] = queue[e] /\ wire'[e] = wire[e] /\ link'[e] = link[e]
           /\ view'[e] = view[e] /\ unsure'[e] = unsure[e]
           /\ e \in clients' <=> e \in clients
  BY <1>1, <1>2
<1>5. Pending(d)' = <<>>
  BY <1>3, <1>4, ConcatEmptySeq DEF Pending
<1>6. Shown(d)' = Shown(d)
  BY <1>1 DEF Shown
<1>7. Chain(Shown(d)', Pending(d)') /\ ToldIn(Pending(d)') = <<>>
  BY <1>5 DEF Chain, ToldIn
<1>8. /\ IInv' /\ (missed' = missed => Present' = Present)
      /\ [e \in Dashboards |-> OnTheWay(e)]'
           = [[e \in Dashboards |-> OnTheWay(e)] EXCEPT ![d] = ToldIn(Pending(d)')]
      /\ [e \in Dashboards |-> Shown(e)]'
           = [[e \in Dashboards |-> Shown(e)] EXCEPT ![d] = Shown(d)']
  <2>1. /\ queue'[d] \in Seq(Message) /\ Len(queue'[d]) <= QueueSize /\ wire'[d] \in Seq(Message)
        /\ ScreenTypes' /\ Pending(d)' \in Seq(Message)
    BY <1>1, <1>2, <1>3, <1>4, <1>5 DEF ScreenTypes
  <2> QED
    BY <1>1, <1>4, <1>7, <2>1, OneConnection
<1>9. [e \in Dashboards |-> Shown(e)]' = [e \in Dashboards |-> Shown(e)]
  BY <1>6, <1>8
<1>10. SubSeq(OnTheWay(d), 1, 0) = <<>> /\ 0 \in 0..Len(OnTheWay(d))
  <2>1. OnTheWay(d) \in Seq(Tolds)
    BY <1>2, OnTheWayIs, ToldInFacts
  <2> QED
    BY <2>1, SubSeqEmpty
<1>11. CASE missed' = missed
  <2>1. Mirror!CutOff(d)
    BY <1>1, <1>7, <1>8, <1>9, <1>10, <1>11 DEF Mirror!CutOff, Present
  <2> QED
    BY <1>8, <2>1
<1>12. CASE missed' = {} /\ clients' = {}
  <2> DEFINE way == [e \in Dashboards |-> OnTheWay(e)]
             new == [way EXCEPT ![d] = <<>>]
  <2>1. ASSUME NEW e \in Dashboards PROVE Mirror!IsPrefixOf(new[e], way[e])
    <3>1. way[e] \in Seq(Tolds) /\ new[e] \in {<<>>, way[e]} /\ <<>> \in Seq(Tolds)
      BY OnTheWayIs, ToldInFacts DEF IInv, InOrder
    <3> HIDE DEF way, new
    <3>2. <<>> \o way[e] = way[e] /\ way[e] \o <<>> = way[e]
      BY <3>1, ConcatEmptySeq
    <3>3. ASSUME NEW r \in Seq(Tolds), NEW s \in Seq(Tolds), r \o s = way[e]
          PROVE  Mirror!IsPrefixOf(r, way[e])
      <4>1. Len(r) <= Len(r \o s) /\ r = SubSeq(r \o s, 1, Len(r))
        BY Parted
      <4> QED
        BY <3>3, <4>1 DEF Mirror!IsPrefixOf
    <3> QED
      BY <3>1, <3>2, <3>3
  <2>2. HubTypes'
    BY <1>8, TypeParts DEF IInv, TypeOK, HubTypes, SessionIds
  <2>3. Told(session, lastSent, book, missed)' \in Tolds
    BY <2>2, Constructors DEF HubTypes
  <2>4. new = [e \in Dashboards |-> new[e]]
    OBVIOUS
  <2>5. Mirror!Publish
    BY <1>1, <1>7, <1>8, <1>9, <1>12, <2>1, <2>3, <2>4 DEF Mirror!Publish, Tolds, SessionIds
  <2> QED
    BY <1>8, <2>5
<1> QED
  BY <1>1, <1>11, <1>12

LEMMA RestartStep ==
  ASSUME IInv, BackendRestarts
  PROVE  IInv' /\ Mirror!Restart
<1>1. /\ session' = NoSession /\ fleet' = Empty /\ book' = Empty
      /\ mode' \in ModesIn(NoSession, Empty, Empty)
      /\ inPass' = FALSE /\ lastSent' = Empty /\ statusKey' = None /\ missed' = {}
      /\ view' = view /\ unsure' = unsure
      /\ link' = [d \in Dashboards |-> IF d \in Dashboards THEN "down" ELSE link[d]]
      /\ wire' = [d \in Dashboards |-> IF d \in Dashboards THEN <<>> ELSE wire[d]]
      /\ queue' = [d \in Dashboards |-> IF d \in Dashboards THEN <<>> ELSE queue[d]]
      /\ clients' = clients \ Dashboards
  BY DEF BackendRestarts, Lose, screen
<1>2. <<>> \in Seq(Message) /\ Len(<<>>) <= QueueSize
  BY StreamAssumption
<1>3. clients' = {} /\ ScreenTypes
  BY <1>1, TypeParts DEF IInv, ConnectionTypes
<1>4. mode' \in Modes
  BY <1>1, EmptyIn, StreamAssumption
<1>5. HubTypes'
  BY <1>1, <1>4, EmptyIn DEF HubTypes, SessionIds
<1>6. ConnectionTypes'
  BY <1>1, <1>2, <1>3 DEF ConnectionTypes
<1>7. TypeOK'
  BY <1>1, <1>3, <1>5, <1>6
    DEF TypeOK, HubTypes, ConnectionTypes, ScreenTypes, ViewType, SessionIds
<1>8. SocketsMatch'
  BY <1>1, <1>3 DEF SocketsMatch
<1>9. \A d \in Dashboards : Pending(d)' = <<>>
  BY <1>1, <1>2, <1>3, ConcatEmptySeq DEF Pending
<1>10. InOrder' /\ LeadsToPresent'
  BY <1>2, <1>3, <1>9, ConveysNothing DEF InOrder, LeadsToPresent, Conveys
<1>11. \A d \in Dashboards : OnTheWay(d)' = <<>> /\ Shown(d)' = Shown(d)
  BY <1>1, <1>9 DEF OnTheWay, Pending, Shown
<1>12. [d \in Dashboards |-> OnTheWay(d)]' = [d \in Dashboards |-> <<>>]
  BY <1>11
<1>13. [d \in Dashboards |-> Shown(d)]' = [d \in Dashboards |-> Shown(d)]
  BY <1>11
<1>14. Told(session, lastSent, book, missed)' \in Tolds
  BY <1>5, Constructors DEF HubTypes
<1> QED
  BY <1>3, <1>7, <1>8, <1>10, <1>12, <1>13, <1>14 DEF IInv, Mirror!Restart, Tolds, SessionIds

LEMMA InitStep == Init => IInv /\ Mirror!Init
<1> SUFFICES ASSUME Init PROVE IInv /\ Mirror!Init
  OBVIOUS
<1> USE DEF Init
<1>1. <<>> \in Seq(Message) /\ Len(<<>>) <= QueueSize
  BY StreamAssumption
<1>2. HubTypes
  BY EmptyIn, StreamAssumption DEF HubTypes, SessionIds
<1>3. ConnectionTypes
  BY <1>1 DEF ConnectionTypes
<1>4. ScreenTypes
  BY EmptyIn DEF ScreenTypes, ViewType, SessionIds
<1>5. TypeOK /\ SocketsMatch
  BY <1>2, <1>3, <1>4, TypeParts DEF SocketsMatch
<1>6. \A d \in Dashboards : Pending(d) = <<>>
  BY <1>1, ConcatEmptySeq DEF Pending
<1>7. InOrder /\ LeadsToPresent
  BY <1>1, <1>6, ConveysNothing DEF InOrder, LeadsToPresent, Conveys
<1>8. \A d \in Dashboards : OnTheWay(d) = <<>>
  BY <1>6, OnTheWayIs, ToldInFacts, <1>1
<1>9. \A d \in Dashboards : Shown(d) \in Tolds
  <2>1. Empty \in Fleets /\ Empty \in Books /\ NoSession \in SessionIds
    BY EmptyIn DEF SessionIds
  <2>2. \A d \in Dashboards : Shown(d) = Told(NoSession, Empty, Empty, {})
    BY DEF Shown
  <2> QED
    BY <2>1, <2>2, Constructors
<1>10. Told(session, lastSent, book, missed) \in Tolds
  BY <1>2, PresentTyped DEF Present
<1> QED
  BY <1>5, <1>7, <1>8, <1>9, <1>10 DEF IInv, Mirror!Init, Tolds, SessionIds

LEMMA NextStep ==
  ASSUME IInv, [Next]_vars
  PROVE  IInv' /\ [Mirror!Next]_(Mirror!vars)
<1>1. CASE UNCHANGED vars
  <2>1. HubTypes'
    BY <1>1, HubTypesNow DEF vars, HubTypes, runtimeVars, hub
  <2>2. UNCHANGED <<session, lastSent, book, missed, connection, screen>>
    BY <1>1 DEF vars, runtimeVars, hub
  <2> QED
    BY <2>1, <2>2, SilentStep
<1>2. CASE \/ \E s \in Sessions : SessionBegins(s)
           \/ SessionReported \/ PassEnds \/ HubTick
           \/ \E v \in Vehicles : ApplyVehicle(v)
           \/ \E i \in Incidents : Ack(i)
  <2>1. IInv' /\ (Mirror!Publish \/ UNCHANGED Mirror!vars)
    BY <1>2, SessionStep, ReportStep, PassEndsStep, TickStep, ApplyStep, AckStep
  <2> QED
    BY <2>1 DEF Mirror!Next
<1>3. CASE ModeChanges \/ PassRaises \/ \E v \in Vehicles : FrameStored(v)
  BY <1>3, QuietStep
<1>4. CASE \E d \in Dashboards : Connect(d) \/ Receive(d) \/ SocketLost(d)
  <2>1. /\ IInv'
        /\ \/ \E d \in Dashboards : Mirror!Subscribe(d) \/ Mirror!Show(d) \/ Mirror!CutOff(d)
           \/ Mirror!Publish
    BY <1>4, ConnectStep, ReceiveStep, LostStep
  <2> QED
    BY <2>1 DEF Mirror!Next
<1>5. CASE \E d \in Dashboards : Send(d) \/ Closed(d)
  BY <1>5, SendStep, ClosedStep
<1>6. CASE BackendRestarts
  BY <1>6, RestartStep DEF Mirror!Next
<1>7. CASE \E v \in Vehicles : VehicleRaises(v)
  <2>1. IInv' /\ (Mirror!Lapse \/ Mirror!Publish \/ UNCHANGED Mirror!vars)
    BY <1>7, RaiseStep
  <2> QED
    BY <2>1 DEF Mirror!Next
<1> QED
  BY <1>1, <1>2, <1>3, <1>4, <1>5, <1>6, <1>7 DEF Next

LEMMA Invariant == Spec => []IInv
<1>1. Init => IInv
  BY InitStep
<1>2. IInv /\ [Next]_vars => IInv'
  BY NextStep
<1> QED
  BY <1>1, <1>2, PTL DEF Spec

-----------------------------------------------------------------------------
(* The hub, its queues, the sockets and the dashboards keep their types,   *)
(* and no queue grows over its bound (ws.py).                              *)
THEOREM TypeCorrect == Spec => []TypeOK
<1>1. IInv => TypeOK
  BY DEF IInv
<1> QED
  BY <1>1, Invariant, PTL

(* Every dashboard goes through what the hub has published, in order and   *)
(* without gaps, whatever is broadcast and whenever it connects, lags      *)
(* behind, is cut off or loses the backend, but for incidents whose        *)
(* resolution was lost with an exception: StreamHub implements             *)
(* StreamMirror (ws.py, scheduler.py:96-112, ws.ts, stream.ts).            *)
THEOREM Promise == Spec => KeepsItsPromise
<1>1. Init => Mirror!Init
  BY InitStep
<1>2. IInv /\ [Next]_vars => [Mirror!Next]_(Mirror!vars)
  BY NextStep
<1> QED
  BY <1>1, <1>2, Invariant, PTL DEF Spec, KeepsItsPromise, Mirror!Spec
=============================================================================
