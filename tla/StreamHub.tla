------------------------------ MODULE StreamHub ------------------------------
(***************************************************************************)
(* The WebSocket stream, from the backend's state to the dashboards'       *)
(* copies of it: the hub with one bounded queue per client (app/ws.py),    *)
(* the events of Runtime, scheduler and REST that it broadcasts, and the   *)
(* dashboard's connection and store (dashboard/src/api/ws.ts,              *)
(* store/stream.ts).                                                       *)
(*                                                                         *)
(* The backend runs in one event loop; its handlers do not await between   *)
(* changing the state and broadcasting.  Only the application of a pass    *)
(* is split, vehicle by vehicle, and holds the loop until it ends.  What   *)
(* raises there after an incident was resolved loses the event of it: the  *)
(* dashboards that are connected do not hear of the change.                *)
(***************************************************************************)
EXTENDS Integers, Sequences

CONSTANTS
  Dashboards, Vehicles, Incidents,
  Owner,        \* the vehicle each incident id belongs to
  Looks,        \* what a VehicleState says besides its open incident
  Sessions,     \* session ids
  NoSession,    \* NO_SESSION, and what a dashboard has before a snapshot
  ModesIn(_, _, _), \* bound: the modes in a session, with a fleet and a book; none where
                   \* the two are left out
  Modes,        \* what check_status compares: mode, ML state, connections
  None,         \* no open incident, no status yet
  QueueSize,    \* CLIENT_QUEUE
  WireSize      \* bound: messages in the socket

VARIABLES
  session,     \* SimClock.session_id
  fleet,       \* Runtime.vehicle_states()
  book,        \* IncidentBook.incidents: their status
  mode,        \* system_status, as far as check_status looks at it
  inPass,      \* PipelineRunner.apply is under way
  lastSent,    \* WsHub.last_sent
  statusKey,   \* WsHub._status_key
  clients,     \* WsHub.clients: whose queue is in the set
  queue,       \* the client's asyncio.Queue
  wire,        \* messages sent and not yet received
  link,        \* the socket as the dashboard has it
  view,        \* the dashboard's store
  missed,      \* ghost: incidents whose change a dashboard now connected may have missed
  unsure       \* ghost: those when the last message shown was sent

runtimeVars == <<session, fleet, book, mode>>
hub == <<lastSent, statusKey>>
connection == <<clients, queue, wire, link>>
screen == <<view, unsure>>
vars == <<runtimeVars, inPass, hub, connection, screen, missed>>

PartialMaps(S, T) == UNION {[X -> T] : X \in SUBSET S}
VehicleState == [look: Looks, badge: Incidents \cup {None}]
Fleets == PartialMaps(Vehicles, VehicleState)
Statuses == {"open", "ack", "resolved"}
Books == PartialMaps(Incidents, Statuses)
Empty == [x \in {} |-> x]

ASSUME StreamAssumption ==
  /\ Owner \in [Incidents -> Vehicles]
  /\ NoSession \notin Sessions
  /\ None \notin Incidents /\ None \notin Modes
  /\ QueueSize \in Nat \ {0} /\ WireSize \in Nat \ {0}
  /\ \A s \in Sessions \cup {NoSession}, f \in Fleets, b \in Books : ModesIn(s, f, b) \subseteq Modes

Active(b, v) == {i \in DOMAIN b : Owner[i] = v /\ b[i] # "resolved"}
Badge(b, v) == IF Active(b, v) = {} THEN None ELSE CHOOSE i \in Active(b, v) : TRUE

(* upsert, in the book and in the dashboard's store.                       *)
With(f, x, y) == [z \in DOMAIN f \cup {x} |-> IF z = x THEN y ELSE f[z]]

(* A snapshot says everything: where nobody is connected nobody has missed *)
(* a change.                                                               *)
Misses(u) == missed' = IF clients' = {} THEN {} ELSE u

-----------------------------------------------------------------------------
(* Messages.  `told` is what a dashboard that got everything up to this    *)
(* message should show, nothing being said of the incidents in u: an       *)
(* observation, nobody reads it.                                           *)

Without(b, u) == [i \in DOMAIN b \ u |-> b[i]]

Told(s, vs, b, u) ==
  [session |-> s, vehicles |-> vs, incidents |-> Without(b, u), withdrawn |-> u]

\* Mistake: a snapshot shows the fleet as it is, ahead of the deltas.
SnapshotLive(s, vs, b, u, m) ==
  [kind |-> "snapshot", session |-> s, vehicles |-> fleet, incidents |-> b, mode |-> m,
   told |-> Told(s, vs, b, u)]

Snapshot(s, vs, b, u, m) ==
  [kind |-> "snapshot", session |-> s, vehicles |-> vs, incidents |-> b, mode |-> m,
   told |-> Told(s, vs, b, u)]

Delta(s, old, new, b, u) ==
  LET changed == {v \in DOMAIN new : v \notin DOMAIN old \/ old[v] # new[v]}
  IN  [kind |-> "vehicles.delta", session |-> s,
       vehicles |-> [v \in changed |-> new[v]], removed |-> DOMAIN old \ DOMAIN new,
       told |-> Told(s, new, b, u)]

IncidentMessage(s, vs, b, u, i) ==
  [kind |-> "incident", session |-> s, id |-> i, status |-> b[i], told |-> Told(s, vs, b, u)]

Status(s, vs, b, u, m) ==
  [kind |-> "system.status", session |-> s, mode |-> m, told |-> Told(s, vs, b, u)]

(* kpis and ping: they carry nothing that is modelled.                     *)
Other(s, vs, b, u) == [kind |-> "other", session |-> s, told |-> Told(s, vs, b, u)]

(* The end of a queue: a client that did not keep up.                      *)
Closing == [kind |-> "closing"]

-----------------------------------------------------------------------------
(* WsHub.broadcast.  A full queue is emptied, ends with Closing and leaves *)
(* the set of clients.                                                     *)

Fits(d, ms) == Len(queue[d]) + Len(ms) <= QueueSize

\* Mistake: a full queue only loses what does not fit.
BroadcastDropping(ms) ==
  /\ queue' = [d \in Dashboards |->
                 IF d \in clients /\ Fits(d, ms) THEN queue[d] \o ms ELSE queue[d]]
  /\ UNCHANGED <<clients, wire, link>>

Broadcast(ms) ==
  /\ queue' = [d \in Dashboards |->
                 IF d \notin clients THEN queue[d]
                 ELSE IF Fits(d, ms) THEN queue[d] \o ms ELSE <<Closing>>]
  /\ clients' = {d \in clients : Fits(d, ms)}
  /\ UNCHANGED <<wire, link>>

(* flush_delta: a message only if something changed.                       *)
Flush(s, old, new, b, u) == IF old = new THEN <<>> ELSE <<Delta(s, old, new, b, u)>>

Init ==
  /\ session = NoSession /\ fleet = Empty /\ book = Empty
  /\ mode \in ModesIn(NoSession, Empty, Empty)
  /\ inPass = FALSE
  /\ lastSent = Empty /\ statusKey = None
  /\ clients = {}
  /\ queue = [d \in Dashboards |-> <<>>]
  /\ wire = [d \in Dashboards |-> <<>>]
  /\ link = [d \in Dashboards |-> "down"]
  /\ view = [d \in Dashboards |->
               [session |-> NoSession, vehicles |-> Empty, incidents |-> Empty, mode |-> None]]
  /\ missed = {}
  /\ unsure = [d \in Dashboards |-> {}]

-----------------------------------------------------------------------------
(* What happens in the backend.                                            *)

(* A new session: apply_session, or start_auto_session with the frame that *)
(* began it.  Everything is wiped, then the hub hears of it.               *)
SessionBegins(s) ==
  /\ ~inPass
  /\ s # session
  /\ session' = s /\ book' = Empty /\ lastSent' = Empty /\ missed' = {}
  /\ \/ fleet' = Empty
     \/ \E v \in Vehicles, look \in Looks :
          fleet' = [x \in {v} |-> [look |-> look, badge |-> None]]
  /\ mode' \in ModesIn(s, fleet', Empty)
  /\ statusKey' = mode'
  /\ Broadcast(<<Snapshot(s, Empty, Empty, {}, mode'), Status(s, Empty, Empty, {}, mode')>>)
  /\ UNCHANGED <<inPass, screen>>

\* Mistake: the status is sent only if it changed.
SessionReportedUnforced ==
  /\ ~inPass
  /\ session # NoSession
  /\ statusKey' = mode
  /\ Broadcast(IF statusKey = mode THEN <<>> ELSE <<Status(session, lastSent, book, missed, mode)>>)
  /\ Misses(missed)
  /\ UNCHANGED <<runtimeVars, inPass, lastSent, screen>>

(* The replayer's heartbeat about the session the backend has.             *)
SessionReported ==
  /\ ~inPass
  /\ session # NoSession
  /\ statusKey' = mode
  /\ Broadcast(<<Status(session, lastSent, book, missed, mode)>>)
  /\ Misses(missed)
  /\ UNCHANGED <<runtimeVars, inPass, lastSent, screen>>

(* A stored frame: the vehicle appears or looks different.  Time does the  *)
(* latter too (stale, warming up).                                         *)
FrameStored(v) ==
  /\ ~inPass
  /\ \E look \in Looks :
       fleet' = With(fleet, v, [look |-> look,
                                badge |-> IF v \in DOMAIN fleet THEN fleet[v].badge ELSE None])
  /\ mode \in ModesIn(session, fleet', book)
  /\ UNCHANGED <<session, book, mode, inPass, hub, connection, screen, missed>>

(* Mode, connections and the ML client change by themselves.               *)
ModeChanges ==
  /\ ~inPass
  /\ mode' \in ModesIn(session, fleet, book) \ {mode}
  /\ UNCHANGED <<session, fleet, book, inPass, hub, connection, screen, missed>>

Event(b, u, i) == <<IncidentMessage(session, lastSent, b, u \ {i}, i)>>

Ack(i) ==
  /\ ~inPass
  /\ i \in DOMAIN book
  /\ LET b == With(book, i, IF book[i] = "resolved" THEN "resolved" ELSE "ack")
     IN  book' = b /\ Broadcast(Event(b, missed, i))
  /\ Misses(missed \ {i})
  /\ UNCHANGED <<session, fleet, mode, inPass, hub, screen>>

(* _incidents after the settlement: an active incident may be updated, and *)
(* without one a new one may be opened; the book and the event of it.      *)
Outcomes(b, u, v) ==
  {[book |-> b, unsure |-> u, events |-> <<>>]} \cup
  IF Active(b, v) # {}
  THEN {[book |-> b, unsure |-> u \ {i}, events |-> Event(b, u, i)] : i \in Active(b, v)}
  ELSE {[book |-> With(b, i, "open"), unsure |-> u \ {i}, events |-> Event(With(b, i, "open"), u, i)] :
          i \in {j \in Incidents \ DOMAIN b : Owner[j] = v}}

InTask(v) == session # NoSession /\ v \in DOMAIN fleet /\ inPass' = TRUE

Reported(v) ==
  \E look \in Looks : fleet' = With(fleet, v, [look |-> look, badge |-> Badge(book', v)])

(* One vehicle of the pass: its incidents, then its record.                *)
ApplyVehicle(v) ==
  /\ InTask(v)
  /\ \/ \E out \in Outcomes(book, missed, v) :
          book' = out.book /\ Broadcast(out.events) /\ Misses(out.unsure)
     \/ \E i \in Active(book, v) :
          LET b == With(book, i, "resolved")
              u == missed \ {i}
          IN  \E out \in Outcomes(b, u, v) :
                /\ book' = out.book
                /\ Broadcast(Event(b, missed, i) \o out.events) /\ Misses(out.unsure)
  /\ Reported(v)
  /\ mode \in ModesIn(session, fleet', book')
  /\ UNCHANGED <<session, mode, hub, screen>>

(* What follows the settlement raises, and apply only logs it: the list of *)
(* events is lost with the resolved one in it.  Where nothing was resolved *)
(* this is a vehicle without an event.                                     *)
VehicleRaises(v) ==
  /\ InTask(v)
  /\ UNCHANGED connection
  /\ \E i \in Active(book, v) :
       book' = With(book, i, "resolved") /\ Misses(missed \cup {i})
  /\ Reported(v)
  /\ UNCHANGED <<session, mode, hub, screen>>

(* run_pass emits "pass" after the last vehicle.                           *)
PassEnds ==
  /\ inPass
  /\ inPass' = FALSE
  /\ lastSent' = fleet
  /\ Broadcast(Flush(session, lastSent, fleet, book, missed))
  /\ Misses(missed)
  /\ UNCHANGED <<runtimeVars, statusKey, screen>>

(* What follows the vehicles raises: the loop only logs it.                *)
PassRaises ==
  /\ inPass
  /\ inPass' = FALSE
  /\ UNCHANGED <<runtimeVars, hub, connection, screen, missed>>

(* WsHub.run, once a second: sweep, deltas, status, and now and then KPIs  *)
(* and a ping.                                                             *)
HubTick ==
  /\ ~inPass
  /\ \E gone \in SUBSET {v \in DOMAIN fleet : Active(book, v) = {}}, other \in BOOLEAN :
       LET swept == [v \in DOMAIN fleet \ gone |-> fleet[v]]
           status == IF mode = statusKey THEN <<>> ELSE <<Status(session, swept, book, missed, mode)>>
           others == IF other THEN <<Other(session, swept, book, missed)>> ELSE <<>>
       IN  /\ fleet' = swept
           /\ lastSent' = swept
           /\ Broadcast(Flush(session, lastSent, swept, book, missed) \o status \o others)
  /\ statusKey' = mode
  /\ Misses(missed)
  /\ UNCHANGED <<session, book, mode, inPass, screen>>

-----------------------------------------------------------------------------
(* Connections.                                                            *)

(* serve, from accept to the two loops.                                    *)
Connect(d) ==
  /\ ~inPass
  /\ link[d] = "down"
  /\ link' = [link EXCEPT ![d] = "up"]
  /\ clients' = clients \cup {d}
  /\ queue' = [queue EXCEPT ![d] = <<Snapshot(session, lastSent, book, missed, mode)>>]
  /\ UNCHANGED <<wire, runtimeVars, inPass, hub, screen, missed>>

(* _send_loop; it ends at Closing, and serve closes the socket.            *)
Send(d) ==
  /\ ~inPass
  /\ queue[d] # <<>>
  /\ queue' = [queue EXCEPT ![d] = Tail(@)]
  /\ IF Head(queue[d]) = Closing
     THEN link' = [link EXCEPT ![d] = "closing"] /\ UNCHANGED wire
     ELSE /\ Len(wire[d]) < WireSize
          /\ wire' = [wire EXCEPT ![d] = Append(@, Head(queue[d]))]
          /\ UNCHANGED link
  /\ UNCHANGED <<clients, runtimeVars, inPass, hub, screen, missed>>

UpsertVehicles(vs, m) ==
  [v \in (DOMAIN vs \cup DOMAIN m.vehicles) \ m.removed |->
     IF v \in DOMAIN m.vehicles THEN m.vehicles[v] ELSE vs[v]]

(* onMessage: what is of another session is skipped.                       *)
OnMessage(s, m) ==
  IF m.kind = "snapshot"
  THEN [session |-> m.session, vehicles |-> m.vehicles, incidents |-> m.incidents,
        mode |-> m.mode]
  ELSE IF m.session # s.session THEN s
  ELSE CASE m.kind = "vehicles.delta" -> [s EXCEPT !.vehicles = UpsertVehicles(@, m)]
         [] m.kind = "incident" -> [s EXCEPT !.incidents = With(@, m.id, m.status)]
         [] m.kind = "system.status" -> [s EXCEPT !.mode = m.mode]
         [] m.kind = "other" -> s

Receive(d) ==
  /\ wire[d] # <<>>
  /\ wire' = [wire EXCEPT ![d] = Tail(@)]
  /\ view' = [view EXCEPT ![d] = OnMessage(@, Head(wire[d]))]
  /\ unsure' = [unsure EXCEPT ![d] = Head(wire[d]).told.withdrawn]
  /\ UNCHANGED <<clients, queue, link, runtimeVars, inPass, hub, missed>>

(* onclose after the server's close; a new connect is due after a pause.   *)
Closed(d) ==
  /\ link[d] = "closing"
  /\ wire[d] = <<>>
  /\ link' = [link EXCEPT ![d] = "down"]
  /\ UNCHANGED <<clients, queue, wire, runtimeVars, inPass, hub, screen, missed>>

Lose(D) ==
  /\ link' = [d \in Dashboards |-> IF d \in D THEN "down" ELSE link[d]]
  /\ wire' = [d \in Dashboards |-> IF d \in D THEN <<>> ELSE wire[d]]
  /\ queue' = [d \in Dashboards |-> IF d \in D THEN <<>> ELSE queue[d]]
  /\ clients' = clients \ D

(* The network, the watchdog or the browser closes the socket.             *)
SocketLost(d) ==
  /\ link[d] # "down"
  /\ Lose({d})
  /\ Misses(missed)
  /\ UNCHANGED <<runtimeVars, inPass, hub, screen>>

BackendRestarts ==
  /\ session' = NoSession /\ fleet' = Empty /\ book' = Empty
  /\ mode' \in ModesIn(NoSession, Empty, Empty)
  /\ inPass' = FALSE
  /\ lastSent' = Empty /\ statusKey' = None /\ missed' = {}
  /\ Lose(Dashboards)
  /\ UNCHANGED screen

-----------------------------------------------------------------------------
Next ==
  \/ \E s \in Sessions : SessionBegins(s)
  \/ SessionReported \/ ModeChanges
  \/ \E v \in Vehicles : FrameStored(v) \/ ApplyVehicle(v) \/ VehicleRaises(v)
  \/ \E i \in Incidents : Ack(i)
  \/ PassEnds \/ PassRaises \/ HubTick
  \/ \E d \in Dashboards : Connect(d) \/ Send(d) \/ Receive(d) \/ Closed(d) \/ SocketLost(d)
  \/ BackendRestarts

Spec == Init /\ [][Next]_vars

(* A pass ends, and the event loop then serves every task that is ready,   *)
(* however many passes follow (SF: a pass holds the loop for a moment).  A *)
(* dashboard reads what it has and connects again after a pause.           *)
Fairness ==
  /\ WF_vars(PassEnds \/ PassRaises)
  /\ SF_vars(HubTick)
  /\ \A d \in Dashboards :
       SF_vars(Connect(d)) /\ SF_vars(Send(d)) /\ WF_vars(Receive(d)) /\ WF_vars(Closed(d))

FairSpec == Spec /\ Fairness

-----------------------------------------------------------------------------
Message ==
  LET told == [session: Sessions \cup {NoSession}, vehicles: Fleets, incidents: Books,
               withdrawn: SUBSET Incidents]
      session_ == Sessions \cup {NoSession}
  IN  [kind: {"snapshot"}, session: session_, vehicles: Fleets, incidents: Books,
       mode: Modes, told: told]
      \cup [kind: {"vehicles.delta"}, session: session_, vehicles: Fleets,
            removed: SUBSET Vehicles, told: told]
      \cup [kind: {"incident"}, session: session_, id: Incidents, status: Statuses, told: told]
      \cup [kind: {"system.status"}, session: session_, mode: Modes, told: told]
      \cup [kind: {"other"}, session: session_, told: told]

(* Types; a queue never holds more than it may, and what ends a queue is   *)
(* alone in it.                                                            *)
TypeOK ==
  /\ session \in Sessions \cup {NoSession}
  /\ fleet \in Fleets /\ book \in Books /\ mode \in Modes /\ inPass \in BOOLEAN
  /\ lastSent \in Fleets /\ statusKey \in Modes \cup {None}
  /\ clients \subseteq Dashboards
  /\ DOMAIN queue = Dashboards /\ DOMAIN wire = Dashboards
  /\ \A d \in Dashboards :
       /\ queue[d] = <<Closing>> \/ queue[d] \in Seq(Message)
       /\ Len(queue[d]) <= QueueSize
       /\ wire[d] \in Seq(Message)
  /\ link \in [Dashboards -> {"down", "up", "closing"}]
  /\ view \in [Dashboards -> [session: Sessions \cup {NoSession}, vehicles: Fleets,
                              incidents: Books, mode: Modes \cup {None}]]
  /\ missed \subseteq Incidents /\ unsure \in [Dashboards -> SUBSET Incidents]

-----------------------------------------------------------------------------
(* The promise of StreamMirror.                                            *)

Shown(d) == Told(view[d].session, view[d].vehicles, view[d].incidents, unsure[d])

OnTheWay(d) ==
  LET ms == wire[d] \o (IF d \in clients THEN queue[d] ELSE <<>>)
  IN  [n \in 1..Len(ms) |-> ms[n].told]

Mirror == INSTANCE StreamMirror WITH
  States <- [session: Sessions \cup {NoSession}, vehicles: Fleets, incidents: Books,
             withdrawn: SUBSET Incidents],
  published <- Told(session, lastSent, book, missed),
  copies <- [d \in Dashboards |-> Shown(d)],
  pending <- [d \in Dashboards |-> OnTheWay(d)],
  subscribed <- clients

(* Every dashboard goes through what the hub has published, in order and   *)
(* without gaps, for as long as it is connected, whatever is broadcast, in *)
(* which order, and however slowly it reads; deltas against `last_sent`    *)
(* and the filter by session never make it miss a change.  Only of an      *)
(* incident whose resolution was lost with an exception nothing is         *)
(* promised, until its next message or as long as somebody is connected    *)
(* who may have missed it.                                                 *)
KeepsItsPromise == Mirror!Spec

(* A step that changes nothing the dashboards show and loses no client.    *)
Quiet == UNCHANGED <<session, fleet, book>> /\ clients \subseteq clients'

(* When changes and losses end, all dashboards show the backend's state,   *)
(* but for incidents whose resolution a connected dashboard was not told:  *)
(* those stay open there until it connects again.                          *)
AgreesInTheEnd ==
  <>[][Quiet]_vars =>
    <>[](\A d \in Dashboards :
           Told(view[d].session, view[d].vehicles, view[d].incidents, missed) =
             Told(session, fleet, book, missed))

(* The replayer's heartbeats about a session go on.                        *)
HeartbeatsGoOn == []<>(session # NoSession) /\ SF_vars(SessionReported)

(* While the replayer's heartbeats go on, the status banner too shows the  *)
(* present mode in the end, however it changed between ticks and           *)
(* connections (FRONTEND_TZ.md: "DEGRADED приходит от бэкенда и означает,  *)
(* что пропал поток телеметрии").                                          *)
ModeShownInTheEnd ==
  (<>[][Quiet /\ UNCHANGED mode]_vars /\ HeartbeatsGoOn) =>
    <>[](\A d \in Dashboards : view[d].mode = mode)
=============================================================================
