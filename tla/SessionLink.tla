----------------------------- MODULE SessionLink -----------------------------
(***************************************************************************)
(* How the backend learns of the replayer's session: the reporter of the   *)
(* replayer (replayer/session.py and the callers of report in engine.py),  *)
(* the POST /internal/sim/session, the frames of the terminals, and the    *)
(* session the backend keeps (Runtime.apply_session, start_auto_session).  *)
(*                                                                         *)
(* A report reads the session in one place (session_payload) and hands it  *)
(* to the worker in another (push); a command's thread may stand between   *)
(* the two while the loop begins and reports a newer session.  The two     *)
(* ways to the backend are not ordered with each other either.  A POST may *)
(* fail, or be given up by its sender and still be handled later; the      *)
(* backend may restart and forget its session.                             *)
(*                                                                         *)
(* The counter behind a session's id and the id are set in one step, and   *)
(* pause and resume look at the clock's state and set it in one.           *)
(***************************************************************************)
EXTENDS Integers, FiniteSets

CONSTANTS
  EventLoop,   \* the event loop of the replayer, as a caller of report
  Threads,     \* the threads that run POST /control
  AutoSid,     \* the ids of sessions started by a frame
  NoSession,   \* session_id = None
  Nothing,     \* no payload
  MaxSid,      \* bound: sessions of the replayer
  MaxFrames,   \* bound: frames on their way (sockets and the ingest queue)
  MaxDelayed   \* bound: POSTs given up and still on their way

ASSUME LinkAssumption ==
  /\ {MaxSid, MaxFrames, MaxDelayed} \subseteq Nat
  /\ AutoSid \notin Int /\ NoSession \notin Int /\ AutoSid # NoSession
  /\ EventLoop \notin Threads

VARIABLES
  sid,       \* the replayer's session: 0 before the first
  state,     \* ReplayClock.state
  caller,    \* the engine's functions under way: their place and what they have read
  latest,    \* SessionReporter._latest
  worker,    \* SessionReporter.run: its place and its payload
  delayed,   \* POSTs given up by the reporter
  frames,    \* number of frames on their way to apply_frame
  backend,   \* SimClock: session_id and state
  seen       \* ghost: the replayer's sessions this process of the backend has started
             \* since the last POST that came too late

replayer == <<sid, state>>
reporter == <<latest, worker, delayed>>
backendVars == <<backend, seen>>
linkVars == <<replayer, caller, reporter, frames, backendVars>>

States == {"running", "paused", "stopped"}
Callers == Threads \cup {EventLoop}

(* old is a ghost: a newer session had begun when the payload was pushed,  *)
(* or its POST was given up.                                               *)
Payload == [sid: 1..MaxSid, state: States, old: BOOLEAN]

(* A function is about to start the clock of its session, to report, or to *)
(* push a payload whose session it has read; a command that begins a       *)
(* session will report once more.                                          *)
Call == [at: {"idle", "start", "report", "push"}, sid: 0..MaxSid, state: States,
         again: BOOLEAN]
CallAt(place, again) == [at |-> place, sid |-> 0, state |-> "stopped", again |-> again]
NoCall == CallAt("idle", FALSE)

LinkTypeOK ==
  /\ sid \in 0..MaxSid /\ state \in States
  /\ caller \in [Callers -> Call]
  /\ latest \in Payload \cup {Nothing}
  /\ worker \in [at: {"idle", "took", "posting"}, payload: Payload \cup {Nothing}]
  /\ delayed \subseteq Payload
  /\ frames \in 0..MaxFrames
  /\ backend \in [sid: 1..MaxSid \cup {AutoSid, NoSession}, state: States]
  /\ seen \subseteq 1..MaxSid

LinkInit ==
  /\ sid = 0 /\ state = "stopped"
  /\ caller = [c \in Callers |-> NoCall]
  /\ latest = Nothing
  /\ worker = [at |-> "idle", payload |-> Nothing]
  /\ delayed = {}
  /\ frames = 0
  /\ backend = [sid |-> NoSession, state |-> "stopped"]
  /\ seen = {}

-----------------------------------------------------------------------------
(* The replayer.  The tasks of the event loop run one at a time, and the   *)
(* worker's two assignments are one of their turns; a command runs in a    *)
(* thread of its own and comes between any two steps of theirs.            *)

At(c, place) == caller[c].at = place

MayRun(c) ==
  /\ At(c, "idle")
  /\ c = EventLoop => worker.at # "took"

GoesTo(c, call) == caller' = [caller EXCEPT ![c] = call]

(* begin names the session first and starts its clock then.  A command     *)
(* reports after begin has reported, the loop does not.  When the loop     *)
(* begins one is ReplayEngine's business.                                  *)
BeginSession(c) ==
  /\ MayRun(c)
  /\ sid < MaxSid
  /\ sid' = sid + 1
  /\ GoesTo(c, CallAt("start", c \in Threads))
  /\ UNCHANGED <<state, reporter, frames, backendVars>>

(* A command is reported also when it changes nothing here: a new speed, a *)
(* pause or resume that finds the clock in another state.                  *)
PauseOrResume(t) ==
  /\ MayRun(t)
  /\ sid # 0
  /\ state' \in IF state = "stopped" THEN {"stopped"} ELSE {"running", "paused"}
  /\ GoesTo(t, CallAt("report", FALSE))
  /\ UNCHANGED <<sid, reporter, frames, backendVars>>

(* The end of the history without REPLAY_LOOP.                             *)
StopAtEnd ==
  /\ MayRun(EventLoop)
  /\ state = "running"
  /\ state' = "stopped"
  /\ GoesTo(EventLoop, CallAt("report", FALSE))
  /\ UNCHANGED <<sid, reporter, frames, backendVars>>

\* Mistake: only changes are reported.
HeartbeatNone ==
  /\ MayRun(EventLoop)
  /\ sid # 0 /\ latest # Nothing
  /\ GoesTo(EventLoop, CallAt("report", FALSE))
  /\ UNCHANGED <<replayer, reporter, frames, backendVars>>

(* Also the end of the warm-up, which is reported in the same way.         *)
Heartbeat ==
  /\ MayRun(EventLoop)
  /\ sid # 0
  /\ GoesTo(EventLoop, CallAt("report", FALSE))
  /\ UNCHANGED <<replayer, reporter, frames, backendVars>>

StartsClock(c) ==
  /\ At(c, "start")
  /\ state' = "running"
  /\ GoesTo(c, CallAt("report", caller[c].again))
  /\ UNCHANGED <<sid, reporter, frames, backendVars>>

(* session_payload, which reads the session first and the state later.     *)
ReadsSession(c) ==
  /\ At(c, "report")
  /\ GoesTo(c, [caller[c] EXCEPT !.at = "push", !.sid = sid, !.state = state])
  /\ UNCHANGED <<replayer, reporter, frames, backendVars>>

(* push replaces what is not sent, by a payload that may be out of date;   *)
(* its state is that of one end or the other of the time since its session *)
(* was read.                                                               *)
Pushes(c) ==
  /\ At(c, "push")
  /\ \E st \in {caller[c].state, state} :
       latest' = [sid |-> caller[c].sid, state |-> st, old |-> caller[c].sid # sid]
  /\ GoesTo(c, IF caller[c].again THEN CallAt("report", FALSE) ELSE NoCall)
  /\ UNCHANGED <<replayer, worker, delayed, frames, backendVars>>

FrameSent ==
  /\ state = "running"
  /\ frames < MaxFrames
  /\ frames' = frames + 1
  /\ UNCHANGED <<replayer, caller, reporter, backendVars>>

-----------------------------------------------------------------------------
(* The reporter's worker:  payload, self._latest = self._latest, None      *)

WorkerTakes ==
  /\ worker.at = "idle" /\ At(EventLoop, "idle")
  /\ latest # Nothing
  /\ worker' = [at |-> "took", payload |-> latest]
  /\ UNCHANGED <<replayer, caller, latest, delayed, frames, backendVars>>

WorkerClears ==
  /\ worker.at = "took"
  /\ latest' = Nothing
  /\ worker' = [worker EXCEPT !.at = "posting"]
  /\ UNCHANGED <<replayer, caller, delayed, frames, backendVars>>

WorkerFree == worker' = [at |-> "idle", payload |-> Nothing]

-----------------------------------------------------------------------------
(* The backend's session.                                                  *)

\* Mistake: a message about a session that was stopped begins it anew.
IsNewAfterStop(p) == p.sid # backend.sid \/ backend.state = "stopped"

IsNew(p) == p.sid # backend.sid

(* apply_session: a new session wipes the state and the ingest queue, with *)
(* whatever part of the frames has already reached it.                     *)
ApplySession(p) ==
  /\ backend' = [sid |-> p.sid, state |-> p.state]
  /\ seen' = IF p.old THEN {} ELSE seen \cup {p.sid}
  /\ frames' \in IF IsNew(p) THEN 0..frames ELSE {frames}

PostHandled ==
  /\ worker.at = "posting"
  /\ ApplySession(worker.payload)
  /\ WorkerFree
  /\ UNCHANGED <<replayer, caller, latest, delayed>>

PostLost ==
  /\ worker.at = "posting"
  /\ WorkerFree
  /\ UNCHANGED <<replayer, caller, latest, delayed, frames, backendVars>>

(* After POST_TIMEOUT_S the worker goes on; the request may still arrive.  *)
PostGivenUp ==
  /\ worker.at = "posting"
  /\ Cardinality(delayed) < MaxDelayed
  /\ delayed' = delayed \cup {[worker.payload EXCEPT !.old = TRUE]}
  /\ WorkerFree
  /\ UNCHANGED <<replayer, caller, latest, frames, backendVars>>

DelayedHandled(p) ==
  /\ delayed' = delayed \ {p}
  /\ ApplySession(p)
  /\ UNCHANGED <<replayer, caller, latest, worker>>

DelayedLost(p) ==
  /\ delayed' = delayed \ {p}
  /\ UNCHANGED <<replayer, caller, latest, worker, frames, backendVars>>

(* apply_frame: without a session the frame starts one by itself.  Whether *)
(* it is stored is AlertPipeline's business.                               *)
FrameArrives ==
  /\ frames # 0
  /\ frames' = frames - 1
  /\ IF backend.sid # NoSession /\ backend.state # "stopped"
     THEN UNCHANGED backend
     ELSE backend' = [sid |-> AutoSid, state |-> "running"]
  /\ UNCHANGED <<replayer, caller, reporter, seen>>

BackendRestarts ==
  /\ backend' = [sid |-> NoSession, state |-> "stopped"]
  /\ seen' = {}
  /\ frames' = 0 /\ delayed' = {}
  /\ UNCHANGED <<replayer, caller, latest, worker>>

(* What a function that is under way does next.                            *)
Goes(c) == StartsClock(c) \/ ReadsSession(c) \/ Pushes(c)

LinkNext ==
  \/ \E c \in Callers :
       BeginSession(c) \/ StartsClock(c) \/ ReadsSession(c) \/ Pushes(c)
  \/ \E t \in Threads : PauseOrResume(t)
  \/ StopAtEnd \/ Heartbeat \/ FrameSent
  \/ WorkerTakes \/ WorkerClears
  \/ PostHandled \/ PostLost \/ PostGivenUp
  \/ \E p \in delayed : DelayedHandled(p) \/ DelayedLost(p)
  \/ FrameArrives \/ BackendRestarts

LinkSpec == LinkInit /\ [][LinkNext]_linkVars

(* The event loop gives every task its turn: the heartbeat and the worker  *)
(* never end, and a POST ends.  Nothing is assumed of what is on its way,  *)
(* nor of the commands, not even that one that began goes on.              *)
LinkFairness ==
  /\ SF_linkVars(Heartbeat) /\ WF_linkVars(Goes(EventLoop))
  /\ SF_linkVars(WorkerTakes) /\ WF_linkVars(WorkerClears)
  /\ WF_linkVars(PostHandled \/ PostLost \/ PostGivenUp)

FairLinkSpec == LinkSpec /\ LinkFairness

-----------------------------------------------------------------------------
(* A step without a command, a fault of the network or a restart.          *)
Quiet ==
  /\ UNCHANGED replayer
  /\ worker.at = "posting" => worker' = worker \/ PostHandled
  /\ ~BackendRestarts

(* When commands and faults come to an end, the backend is in the session  *)
(* and the state of the replayer for good, whatever was lost, overwritten  *)
(* or out of date when it was pushed, delayed or forgotten before.         *)
AgreesInTheEnd ==
  <>[][Quiet]_linkVars =>
    <>[](sid # 0 => backend = [sid |-> sid, state |-> state])

Handled(p) == (p \in delayed /\ DelayedHandled(p)) \/ (PostHandled /\ p = worker.payload)

(* A step wipes a session the backend has seen only out of an automatic    *)
(* session, or once a POST has been handled that came too late: one given  *)
(* up by its sender, or one whose payload was read before a newer session  *)
(* began and pushed after it.                                              *)
WipesForCause ==
  \A p \in delayed \cup {worker.payload} :
    Handled(p) /\ IsNew(p) /\ p.sid \in seen => backend.sid = AutoSid \/ p.old

(* Without a late POST, the backend forgets a session it has once started  *)
(* only through a newer one, its own restart or a frame that found the     *)
(* session stopped: heartbeats, pauses, stops and the reports of two       *)
(* threads one over the other never wipe it.                               *)
WipedOnceUnlessAuto == [][WipesForCause]_linkVars

=============================================================================
