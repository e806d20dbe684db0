---------------------------- MODULE AlertPipeline ----------------------------
(***************************************************************************)
(* The core of the backend (services/backend/app): the session and its     *)
(* clock, the fleet store fed by NDTP frames, the prediction pass and the  *)
(* incident book.                                                          *)
(*                                                                         *)
(* One asyncio event loop runs every handler, so a handler is one action   *)
(* unless it awaits.  The prediction pass does: it snapshots its inputs,   *)
(* awaits the preparation thread and the ML service, and only then applies *)
(* its results (phase "inflight" below), so frames, session messages,      *)
(* acknowledgements and the sweep interleave with it.  Applying the        *)
(* results does not await; it is split into one step per vehicle (phase    *)
(* "applying") during which no other handler runs, only time passes.       *)
(***************************************************************************)
EXTENDS IncidentBook, FiniteSets

CONSTANTS
  SessionIds,     \* session ids the replayer reports
  AutoId,         \* the ids auto-0001, auto-0002, ... of sessions without a replayer
  NoSession,      \* session_id = None
  None,           \* no minute: last_t, warmup_until
  HorizonLow, HorizonHigh,   \* prepare.HORIZON
  Lookahead,      \* prepare.LOOKAHEAD
  Warmup,         \* settings.warmup_min
  StaleAfter,     \* settings.stale_after_sim_s
  RemoveAfter,    \* settings.remove_after_sim_s
  History,        \* settings.history_min: older frames are dropped
  Tolerance,      \* SimClock.tolerance_s: how far a frame may run ahead of the clock
  SmallRewind,    \* REWIND_IGNORE_WALL_S * speed
  \* bounds of the model
  MaxNow,         \* the last minute; it stands for every later one
  MaxEpoch,       \* sessions after start-up
  MaxDrift,       \* how far a message about the running session may move the clock
  MaxLag,         \* how far a frame may lie behind the clock
  StartTimes,     \* minutes at which a session reported for the first time may stand
  AutoStarts,     \* times of frames that may start a session by themselves
  MaySilence,     \* whether the stream may fall silent
  WarmEnds,       \* warmup_until of the messages (None: no declared warm-up)
  MessageStates,  \* states the messages report
  MaxPassErrors   \* passes, or vehicles of a pass, lost to an exception

Minutes == 0..MaxNow

ASSUME PipelineAssumption ==
  /\ {HorizonLow, HorizonHigh, Lookahead, Warmup, StaleAfter, RemoveAfter, History,
      Tolerance, SmallRewind, MaxNow, MaxEpoch, MaxDrift, MaxLag, MaxPassErrors}
       \subseteq Nat
  /\ HorizonLow < HorizonHigh
  /\ StartTimes \cup AutoStarts \subseteq Minutes
  /\ MaySilence \in BOOLEAN
  /\ MessageStates \subseteq {"running", "paused", "stopped"}
  /\ WarmEnds \subseteq Minutes \cup {None}
  /\ None \notin Nat \cup Visits
  /\ IsFiniteSet(Vehicles)
  /\ AutoId \notin SessionIds
  /\ NoSession \notin SessionIds \cup {AutoId}

VARIABLES
  clock,     \* SimClock: session id, state, auto, declared warm-up, current minute
  silent,    \* no NDTP packet for degraded_after_s of wall time
  epoch,     \* Runtime.session_epoch
  known,     \* keys of FleetStore.vehicles
  recs,      \* the records behind them (NewRecord for a vehicle not in known)
  book,      \* Runtime.book
  pass,      \* the prediction pass in progress and its captured inputs
  runner,    \* PipelineRunner.last_t and ._epoch
  applied,   \* ghost: passes applied in this session, counted up to MinStreak
  errors     \* exceptions so far (bounded by MaxPassErrors)

vars == <<clock, silent, epoch, known, recs, book, pass, runner, applied, errors>>
fleet == <<known, recs>>

-----------------------------------------------------------------------------
(* Types.                                                                  *)

Clock ==
  [sid: SessionIds \cup {AutoId, NoSession}, state: {"running", "paused", "stopped"},
   auto: BOOLEAN, warmUntil: Nat \cup {None}, held: BOOLEAN, now: Minutes]

Record ==
  [first: Minutes, last: Minutes, arrivals: [Visits -> Facts \cup {NoFact}],
   openIncident: Nat]

Task ==
  [stale: BOOLEAN, ready: BOOLEAN, follow: Visits \cup {None}]

Pass ==
  [phase: {"idle", "inflight", "applying"}, epoch: Nat, t: Minutes,
   todo: SUBSET Vehicles, tasks: [Vehicles -> Task], canAlert: BOOLEAN]

TypeOK ==
  /\ clock \in Clock
  /\ silent \in BOOLEAN
  /\ epoch \in Nat
  /\ known \subseteq Vehicles
  /\ recs \in [Vehicles -> Record]
  /\ book \in Book
  /\ pass \in Pass
  /\ runner \in [lastT: Minutes \cup {None}, epoch: Nat \cup {None}]
  /\ applied \in 0..MinStreak
  /\ errors \in Nat

-----------------------------------------------------------------------------
(* What the handlers read.                                                 *)

HasSession == clock.sid # NoSession /\ clock.state # "stopped"

NewRecord ==
  [first |-> 0, last |-> 0, arrivals |-> [w \in Visits |-> NoFact],
   openIncident |-> NoIncident]

IsStale(v) == clock.now - recs[v].last > StaleAfter
IsWarming(v) == recs[v].last - recs[v].first < Warmup

Mode ==
  IF ~HasSession THEN "OFFLINE"
  ELSE IF clock.state = "paused" THEN "PAUSED"
  ELSE IF silent THEN "DEGRADED"
  ELSE IF \/ clock.warmUntil # None /\ clock.now < clock.warmUntil
          \/ known # {} /\ \A v \in known : IsWarming(v) THEN "WARMING_UP"
  ELSE "LIVE"

ActiveTarget(v) ==
  IF book.active[v] = NoIncident THEN None ELSE book.incidents[book.active[v]].target

(* The event loop is free unless the results of a pass are being applied.  *)
LoopFree == pass.phase # "applying"

NoTask == [stale |-> FALSE, ready |-> FALSE, follow |-> None]
Idle ==
  [phase |-> "idle", epoch |-> 0, t |-> 0, todo |-> {},
   tasks |-> [v \in Vehicles |-> NoTask], canAlert |-> FALSE]

Init ==
  /\ clock = [sid |-> NoSession, state |-> "stopped", auto |-> FALSE,
              warmUntil |-> None, held |-> FALSE, now |-> 0]
  /\ silent = FALSE
  /\ epoch = 0
  /\ known = {}
  /\ recs = [v \in Vehicles |-> NewRecord]
  /\ book = EmptyBook
  /\ pass = Idle
  /\ runner = [lastT |-> None, epoch |-> None]
  /\ applied = 0
  /\ errors = 0

-----------------------------------------------------------------------------
(* Sessions: Runtime.apply_session, start_auto_session, _reset_session.    *)

ResetSession ==
  /\ epoch' = epoch + 1
  /\ known' = {}
  /\ recs' = [v \in Vehicles |-> NewRecord]
  /\ book' = EmptyBook
  /\ silent' = FALSE
  /\ applied' = 0

(* SimClock.apply: a small rewind of a running session is ignored.  held:   *)
(* the message was of the declared warm-up, so the clock waits at its end   *)
(* for the next one (SimClock.now).                                        *)
MovedClock(id, sim, st, warm) ==
  LET keep == /\ id = clock.sid
              /\ clock.state = "running" /\ st = "running"
              /\ sim <= clock.now /\ clock.now <= sim + SmallRewind
      now == IF keep THEN clock.now ELSE sim
  IN [sid |-> id, state |-> st, auto |-> FALSE, warmUntil |-> warm,
      held |-> warm # None /\ now < warm, now |-> now]

NewSession(id, sim, st, warm) ==
  /\ LoopFree
  /\ id # clock.sid
  /\ epoch < MaxEpoch
  /\ clock' = MovedClock(id, sim, st, warm)
  /\ ResetSession
  /\ UNCHANGED <<pass, runner, errors>>

SameSession(id, sim, st, warm) ==
  /\ LoopFree
  /\ id = clock.sid
  /\ AbsDiff(sim, clock.now) <= MaxDrift
  /\ clock' = MovedClock(id, sim, st, warm)
  /\ UNCHANGED <<silent, epoch, fleet, book, pass, runner, applied, errors>>

-----------------------------------------------------------------------------
(* Frames: ingest/worker.apply_frame, for a unit of the timetable.         *)

Added(rec, et) ==
  [rec EXCEPT !.first = IF et < @ THEN et ELSE @, !.last = IF et > @ THEN et ELSE @]

Stored(v, et) ==
  /\ known' = known \cup {v}
  /\ recs' = [recs EXCEPT ![v] =
                IF v \in known THEN Added(@, et)
                ELSE [NewRecord EXCEPT !.first = et, !.last = et]]

TooOld(et) == clock.now - et > History
Accepts(et) == clock.auto \/ et - clock.now <= Tolerance

(* Without a session the frame starts one by itself, at its own time.      *)
FrameStartsAutoSession(v, et) ==
  /\ LoopFree
  /\ ~HasSession
  /\ epoch < MaxEpoch
  /\ clock' = [sid |-> AutoId, state |-> "running", auto |-> TRUE,
               warmUntil |-> None, held |-> FALSE, now |-> et]
  /\ epoch' = epoch + 1
  /\ known' = {v}
  /\ recs' = [u \in Vehicles |->
                IF u = v THEN [NewRecord EXCEPT !.first = et, !.last = et] ELSE NewRecord]
  /\ book' = EmptyBook
  /\ silent' = FALSE
  /\ applied' = 0
  /\ UNCHANGED <<pass, runner, errors>>

FrameAccepted(v, et) ==
  /\ LoopFree
  /\ HasSession
  /\ ~TooOld(et) /\ Accepts(et)
  /\ et + MaxLag >= clock.now
  /\ clock' = IF clock.auto /\ clock.state = "running" /\ et > clock.now
              THEN [clock EXCEPT !.now = et] ELSE clock
  /\ Stored(v, et)
  /\ silent' = FALSE
  /\ UNCHANGED <<epoch, book, pass, runner, applied, errors>>

(* A tail of another session, or a frame of an unknown unit: it only ends  *)
(* the silence (stats.last_packet_wall is set on receipt).                 *)
FrameNotStored ==
  /\ LoopFree
  /\ silent
  /\ silent' = FALSE
  /\ UNCHANGED <<clock, epoch, fleet, book, pass, runner, applied, errors>>

-----------------------------------------------------------------------------
(* Runtime.sweep, called by the hub once a second.                         *)

\* Mistake: the sweep does not look at active incidents.
GoneAll == {v \in known : \E u \in known : recs[u].last - recs[v].last > RemoveAfter}

Gone ==
  {v \in known : /\ \E u \in known : recs[u].last - recs[v].last > RemoveAfter
                 /\ book.active[v] = NoIncident}

Sweep ==
  /\ LoopFree
  /\ Mode # "DEGRADED"
  /\ Gone # {}
  /\ known' = known \ Gone
  /\ recs' = [v \in Vehicles |-> IF v \in Gone THEN NewRecord ELSE recs[v]]
  /\ UNCHANGED <<clock, silent, epoch, book, pass, runner, applied, errors>>

(* The dispatcher's reaction: Runtime.ack.                                 *)
Ack(i) ==
  /\ LoopFree
  /\ i \in Ids(book)
  /\ book' = AckIncident(book, i)
  /\ UNCHANGED <<clock, silent, epoch, fleet, pass, runner, applied, errors>>

-----------------------------------------------------------------------------
(* The pass: PipelineRunner.due, inputs and run_pass up to its awaits.     *)

LastT == IF runner.epoch = epoch THEN runner.lastT ELSE None

\* Mistake: the minute of the previous pass is not remembered.
DueAnyMinute == HasSession

Due ==
  /\ HasSession
  /\ IF LastT = None THEN TRUE ELSE clock.now > LastT \/ clock.now = MaxNow

Snapshot(v) ==
  [stale |-> IsStale(v), ready |-> ~IsWarming(v), follow |-> ActiveTarget(v)]

(* `failed`: vehicles whose preparation raises in the thread; prepare       *)
(* leaves them out of the pass.                                            *)
StartPass(failed) ==
  /\ pass.phase = "idle"
  /\ Due
  /\ failed \subseteq known
  /\ errors + Cardinality(failed) <= MaxPassErrors
  /\ errors' = errors + Cardinality(failed)
  /\ pass' = [phase |-> "inflight", epoch |-> epoch, t |-> clock.now,
              todo |-> known \ failed,
              tasks |-> [v \in Vehicles |->
                           IF v \in known \ failed THEN Snapshot(v) ELSE NoTask],
              canAlert |-> FALSE]
  /\ runner' = [lastT |-> LastT, epoch |-> epoch]
  /\ UNCHANGED <<clock, silent, epoch, fleet, book, applied>>

(* The loop survives a pass that raises, and does not repeat its minute.   *)
PassRaises ==
  /\ pass.phase = "inflight"
  /\ errors < MaxPassErrors
  /\ errors' = errors + 1
  /\ pass' = Idle
  /\ runner' = [runner EXCEPT !.lastT = pass.t]
  /\ UNCHANGED <<clock, silent, epoch, fleet, book, applied>>

(* Predictions are back, but of a session that is over.                    *)
PassDiscarded ==
  /\ pass.phase = "inflight"
  /\ pass.epoch # epoch
  /\ pass' = Idle
  /\ UNCHANGED <<clock, silent, epoch, fleet, book, runner, applied, errors>>

\* Mistake: the epoch is not compared after the awaits.
PassReturnsAnyEpoch ==
  /\ pass.phase = "inflight"
  /\ pass' = IF pass.todo = {} THEN Idle
             ELSE [pass EXCEPT !.phase = "applying", !.canAlert = (Mode = "LIVE")]
  /\ runner' = [runner EXCEPT !.lastT = pass.t]
  /\ applied' = IF applied < MinStreak THEN applied + 1 ELSE applied
  /\ UNCHANGED <<clock, silent, epoch, fleet, book, errors>>

PassReturns ==
  /\ pass.phase = "inflight"
  /\ pass.epoch = epoch
  /\ pass' = IF pass.todo = {} THEN Idle
             ELSE [pass EXCEPT !.phase = "applying", !.canAlert = (Mode = "LIVE")]
  /\ runner' = [runner EXCEPT !.lastT = pass.t]
  /\ applied' = IF applied < MinStreak THEN applied + 1 ELSE applied
  /\ UNCHANGED <<clock, silent, epoch, fleet, book, errors>>
-----------------------------------------------------------------------------
(* Applying the results, vehicle by vehicle: PipelineRunner.apply.         *)

Window(v) ==
  {w \in Visits : /\ pass.t + HorizonLow < PlannedAt[v][w]
                  /\ PlannedAt[v][w] <= pass.t + HorizonHigh}

Beyond(v) ==
  {w \in Visits : /\ pass.t + HorizonHigh < PlannedAt[v][w]
                  /\ PlannedAt[v][w] <= pass.t + Lookahead}

Earliest(v, S) == {w \in S : \A u \in S : PlannedAt[v][w] <= PlannedAt[v][u]}

(* prepare.horizon_visits: the window, or the nearest visit after it.      *)
HorizonVisits(v) == IF Window(v) # {} THEN Window(v) ELSE Earliest(v, Beyond(v))
HorizonOk(v) == Window(v) # {}

Offered(v) == IF pass.tasks[v].ready THEN HorizonVisits(v) ELSE {}

(* prepare._follow_task: the target of the active incident, once it has    *)
(* left the window and while it is still ahead in the timetable.           *)
Followed(v) ==
  {w \in Visits : /\ pass.tasks[v].ready
                  /\ w = pass.tasks[v].follow
                  /\ w \notin Offered(v)
                  /\ PlannedAt[v][w] > pass.t}

(* The detector reports arrivals only at visits planned by the pass minute; *)
(* a fact recorded earlier is kept (dict.setdefault).                      *)
Arrivals(v) ==
  {a \in [Visits -> Facts \cup {NoFact}] :
     \A w \in Visits :
       /\ recs[v].arrivals[w] # NoFact => a[w] = recs[v].arrivals[w]
       /\ recs[v].arrivals[w] = NoFact /\ PlannedAt[v][w] > pass.t => a[w] = NoFact}

Observed(v, preds) ==
  Observe(book, v, {w \in Offered(v) : HorizonOk(v) /\ Hit(preds[w])})

(* _incidents up to settle.                                                *)
Settled(v, preds, arrivals, curDev) ==
  Settle(Observed(v, preds), v, arrivals, curDev, pass.t)

Alertable(b, v, preds) ==
  {w \in Offered(v) : CanOpen(b, v, w, HorizonOk(v), preds[w], clock.now)}

MayAlert(v) == pass.canAlert /\ ~pass.tasks[v].stale /\ pass.tasks[v].ready

TaskDone(v) ==
  pass' = IF pass.todo = {v} THEN Idle ELSE [pass EXCEPT !.todo = @ \ {v}]

Applying(v) == pass.phase = "applying" /\ v \in pass.todo

(* The vehicle was removed while the pass was in flight.                   *)
SkipTask(v) ==
  /\ Applying(v)
  /\ v \notin known
  /\ TaskDone(v)
  /\ UNCHANGED <<clock, silent, epoch, fleet, book, runner, applied, errors>>

\* Mistake: the copy is taken before the incidents are handled.
UpdateRecordEarly(v, arrivals) ==
  /\ recs' = [recs EXCEPT ![v] =
                [@ EXCEPT !.arrivals = arrivals, !.openIncident = book.active[v]]]
  /\ UNCHANGED known

UpdateRecord(v, arrivals) ==
  /\ recs' = [recs EXCEPT ![v] =
                [@ EXCEPT !.arrivals = arrivals, !.openIncident = book'.active[v]]]
  /\ UNCHANGED known

(* An incident stays active: it follows the new prediction of its target.  *)
TaskUpdates(v, preds, arrivals, curDev) ==
  LET b == Settled(v, preds, arrivals, curDev)
      i == b.active[v]
  IN /\ i # NoIncident
     /\ book' = IF b.incidents[i].target \in Offered(v) \cup Followed(v)
                THEN UpdateIncident(b, i, preds[b.incidents[i].target])
                ELSE b

TaskOpens(v, preds, arrivals, curDev) ==
  LET b == Settled(v, preds, arrivals, curDev)
  IN /\ b.active[v] = NoIncident
     /\ MayAlert(v)
     /\ \E w \in Earliest(v, Alertable(b, v, preds)) :
          book' = OpenIncident(b, v, w, preds[w], pass.epoch)

TaskQuiet(v, preds, arrivals, curDev) ==
  LET b == Settled(v, preds, arrivals, curDev)
  IN /\ b.active[v] = NoIncident
     /\ ~MayAlert(v) \/ Alertable(b, v, preds) = {}
     /\ book' = b

ApplyTask(v) ==
  /\ Applying(v)
  /\ v \in known
  /\ \E preds \in [Offered(v) \cup Followed(v) -> Predictions],
        arrivals \in Arrivals(v), curDev \in Facts \cup {NoFact} :
       /\ \/ TaskUpdates(v, preds, arrivals, curDev)
          \/ TaskOpens(v, preds, arrivals, curDev)
          \/ TaskQuiet(v, preds, arrivals, curDev)
       /\ UpdateRecord(v, arrivals)
  /\ TaskDone(v)
  /\ UNCHANGED <<clock, silent, epoch, runner, applied, errors>>

(* An exception in one vehicle's part is caught and the pass goes on: the  *)
(* book keeps what was done before it (nothing, or all but the opening).   *)
TaskRaises(v) ==
  /\ Applying(v)
  /\ v \in known
  /\ errors < MaxPassErrors
  /\ errors' = errors + 1
  /\ \E preds \in [Offered(v) \cup Followed(v) -> Predictions],
        arrivals \in Arrivals(v), curDev \in Facts \cup {NoFact} :
       LET b == Settled(v, preds, arrivals, curDev)
       IN \/ book' = book
          \/ /\ b.active[v] = NoIncident
             /\ MayAlert(v)
             /\ Alertable(b, v, preds) # {}
             /\ book' = b
       /\ UpdateRecord(v, arrivals)
  /\ TaskDone(v)
  /\ UNCHANGED <<clock, silent, epoch, runner, applied>>

-----------------------------------------------------------------------------
(* Time.                                                                   *)

Tick ==
  /\ clock.state = "running"
  /\ clock.now < MaxNow
  /\ clock.held => clock.now < clock.warmUntil
  /\ clock' = [clock EXCEPT !.now = @ + 1]
  /\ UNCHANGED <<silent, epoch, fleet, book, pass, runner, applied, errors>>

GoSilent ==
  /\ MaySilence
  /\ ~silent
  /\ silent' = TRUE
  /\ UNCHANGED <<clock, epoch, fleet, book, pass, runner, applied, errors>>

Next ==
  \/ \E id \in SessionIds, sim \in Minutes, st \in MessageStates,
        warm \in WarmEnds :
       \/ sim \in StartTimes /\ NewSession(id, sim, st, warm)
       \/ SameSession(id, sim, st, warm)
  \/ \E v \in Vehicles, et \in Minutes :
       \/ et \in AutoStarts /\ FrameStartsAutoSession(v, et)
       \/ FrameAccepted(v, et)
  \/ FrameNotStored
  \/ Sweep
  \/ \E i \in Ids(book) : Ack(i)
  \/ \E failed \in SUBSET Vehicles : StartPass(failed)
  \/ PassRaises \/ PassDiscarded \/ PassReturns
  \/ \E v \in Vehicles : SkipTask(v) \/ ApplyTask(v) \/ TaskRaises(v)
  \/ Tick \/ GoSilent

Spec == Init /\ [][Next]_vars

(* The scheduler task keeps running and an await ends (the ML client has a  *)
(* timeout); time passes.  Frames, messages, acknowledgements and the       *)
(* sweep are not assumed.                                                   *)
Fairness ==
  /\ WF_vars(Tick)
  /\ WF_vars(StartPass({}))
  /\ WF_vars(PassReturns)
  /\ WF_vars(PassDiscarded)
  /\ \A v \in Vehicles : WF_vars(SkipTask(v)) /\ WF_vars(ApplyTask(v))

FairSpec == Spec /\ Fairness
-----------------------------------------------------------------------------
(* Safety.                                                                 *)

(* The table of active incidents and the incidents themselves agree, over   *)
(* opening, settling, acknowledging and session changes: an incident is     *)
(* unresolved exactly while it is its vehicle's active one, so a vehicle    *)
(* never has two (engine.py: "не больше одного активного инцидента").       *)
ActiveIsTheUnresolved ==
  \A i \in Ids(book) :
    Unresolved(book, i) <=> book.active[book.incidents[i].vehicle] = i

(* One target, one incident: a target that was alerted once, resolved or    *)
(* not, is never alerted again in the session (IncidentBook.targets).       *)
OneIncidentPerTarget ==
  \A i, j \in Ids(book) :
    /\ book.incidents[i].vehicle = book.incidents[j].vehicle
    /\ book.incidents[i].target = book.incidents[j].target
    => i = j

(* Nothing of an old session survives into a new one: a pass that was in    *)
(* flight when the session changed opens nothing and counts for no streak   *)
(* (run_pass compares the epoch after its awaits; _reset_session clears).   *)
NothingCarriedOver ==
  /\ \A i \in Ids(book) : book.incidents[i].epoch = epoch
  /\ \A v \in Vehicles, w \in Visits : book.streaks[v][w] <= applied
  /\ Ids(book) # {} => applied = MinStreak
  /\ pass.phase = "applying" => pass.epoch = epoch

(* A vehicle with an active incident stays on the map until the incident is *)
(* settled: the sweep and the pass never lose it (runtime.py, sweep).       *)
ActiveStaysOnMap == \A v \in Vehicles : book.active[v] # NoIncident => v \in known

(* The follow-up target a pass captured before its awaits is still the      *)
(* active target when its results are used: only passes change it, and a    *)
(* session change discards the pass.                                        *)
CapturedTargetHolds ==
  pass.phase # "idle" /\ pass.epoch = epoch =>
    \A v \in pass.todo : pass.tasks[v].follow = ActiveTarget(v)

(* VehicleRecord.open_incident_id, a copy of the book's table that the REST *)
(* views read, never goes stale.                                            *)
CachedIncidentIsActive ==
  \A v \in known : recs[v].openIncident = book.active[v]

(* A dispatcher is never alerted about a visit the vehicle has already      *)
(* made: no step opens an incident whose target has a recorded arrival.     *)
(* Pass minutes must grow within a session even when the clock is moved     *)
(* back, or the window would return to visits that are behind.              *)
NoAlertAfterArrival ==
  [][\A i \in Ids(book') \ Ids(book) :
       recs'[book'.incidents[i].vehicle].arrivals[book'.incidents[i].target] = NoFact]_vars

(* Within a session a resolved incident is final: its outcome is never      *)
(* rewritten by a late acknowledgement or a later pass, and incidents are   *)
(* never dropped.                                                           *)
ResolvedIsFinal ==
  [][epoch' = epoch =>
       \A i \in Ids(book) :
         /\ i \in Ids(book')
         /\ ~Unresolved(book, i) =>
              /\ ~Unresolved(book', i)
              /\ book'.incidents[i].outcome = book.incidents[i].outcome]_vars

-----------------------------------------------------------------------------
(* Liveness.                                                               *)

(* No incident stays open for ever: while the session runs and its clock    *)
(* is not moved back again and again, an active incident is settled by an   *)
(* arrival or by the timeout, even if the vehicle never reports again, its  *)
(* prediction is refreshed, or some passes fail (engine.py, settle).        *)
EventuallySettled ==
  <>[][clock'.now >= clock.now]_vars =>
    \A v \in Vehicles :
      book.active[v] # NoIncident ~>
        (book.active[v] = NoIncident \/ clock.state # "running")
=============================================================================
