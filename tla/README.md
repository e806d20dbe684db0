# Transit Pulse in TLA+

Transit Pulse warns dispatchers of delays: a *replayer* plays a day of telemetry as NDTP
terminals, the *backend* keeps the fleet's state, predicts delays ten to fifteen minutes ahead
with the help of an *ML service*, opens incidents and streams everything to a *dashboard*.

    replayer ──NDTP/TCP (frames)──────────────► backend ──HTTP /predict, /health──► ml
       └─────HTTP POST /internal/sim/session──►    │
                                                   └──REST + WebSocket──► dashboard

This directory holds TLA+ modules of the parts of that system where time, order and concurrency
decide whether it is right, the TLC configurations that check them and TLAPS proofs about them.
`PROJECT.json` maps every definition to the lines it stands for.

    cd tla
    tlc -workers 2 -config AlertLifecycle.cfg MCAlertPipeline     # check a run
    tlapm AlertPipeline_proofs.tla                                # check the proofs

## 1. Inventory

`backend` is `services/backend/app`, `replayer` is `services/replayer/replayer`.

| Component | State | Operations | Talks to | What makes it right |
|---|---|---|---|---|
| Incident book (`alerts/engine.py`, `policy.py`) | streaks, incidents, active, targets | observe, can_open, open, update, settle, resolve, ack, clear | called by the pass, by `Runtime.ack`, by a session change | one active incident per vehicle, one per target, outcomes final, everything settled |
| Runtime (`runtime.py`, `degrade.py`) | session epoch, mode inputs | apply_session, start_auto_session, sweep, ack, mode | every handler of the event loop | a session's state never leaks into the next; no vehicle with an open incident is removed |
| Session clock (`state/clock.py`) | session id, state, speed, watermark, warm-up | apply, start_auto, observe, accepts | session messages and frames | time is that of the replayer, foreign frames are refused |
| Fleet store (`state/store.py`) | records of vehicles with an hour of points | record, add, remove, clear | ingest worker, pass, sweep | the records agree with the book; an hour of points is enough for every feature |
| Prediction pass (`pipeline/`) | last minute, epoch, captured inputs | due, inputs, prepare (thread), run_ml (HTTP), apply | store, book, ML client | results of awaits are only used where they still hold |
| ML client (`ml_client.py`) | breaker, health flag | predict, poll_health | ML service; shared by the pass and `/whatif` | a dead service is left alone, a live one is used again |
| Ingest (`ingest/`) | bounded queue, counters | server handle, queue, worker | terminals | order kept, drops counted, memory bounded |
| WebSocket hub (`ws.py`) and the dashboard's store (`dashboard/src/store`) | last sent states, client queues; the client's copy | snapshot, delta, events, overflow, reconnect | runtime events | a connected client's copy converges to the backend's state |
| Quality journal (`alerts/quality.py`) | pending and evaluated predictions | record, on_arrivals, on_pass | the pass | each prediction evaluated once |
| Replay engine and clock (`engine.py`, `clock.py`) | session, clock, cursor, link flags | begin, control, tick, watch_backend | event loop and a control thread | each row once per session, never early |
| Session reporter (`session.py`) | latest payload | push, run | `POST /internal/sim/session` | the backend learns the present session in the end |
| Terminal links (`link.py`) | queue, connection, counters | send, run, pump, drain | TCP to the backend | rows in order, every row sent or counted |
| NDTP codec (`transit_core/ndtp`) | the decoder's buffer | feed | ingest server | the cut of the stream does not matter |
| Map matcher (`matching.py`, `route_line.py`) | trip, progress, anchor, counters | update | the store, for every point | the published match is the one it tracks from, and goes forward |
| Stop detector, plan, features, labels, causes (`transit_core`) | none | pure functions of a plan and a buffer of points | the preparation thread, training, offline tools | online and offline get the same result |
| ML service (`services/ml/app/serve.py`, `inference.py`) | registry of models | start, predict, health, reload | ML client, the trainer's files | never an older model than before; in the end that of the disk |
| Training and calibration (`train.py`, `calibration.py`) | the directory of models | full training, refit, recalibration | the ML service, through files | intervals cover what they promise; an honest report |
| REST views, what-if (`state/views.py`, `whatif/`) | none | card, timeline, quality, scenario | the record, the ML service | views of one vehicle do not contradict each other |
| Scripts (`scripts/`) | `./data`, the dump of a run | preparing the dataset, evaluation run, replay of alert policies | the backend's own modules | what is tuned offline is what runs online |

What is hard: the backend is one event loop, but the pass gives it up twice in the middle (a
thread, then HTTP), so sessions, frames, sweeps and acknowledgements run between the capture of
its inputs and the use of its results. The ML client is shared by callers that overlap. The
replayer's commands run in a thread of their own beside its event loop, without locks. Session
messages and frames reach the backend over different connections that may each lose, delay or
reorder. Both sides may restart. A model is trained on whole tracks and asked about an hour of
them. The ML service reads a directory that another process rewrites file by file. Offline tools
repeat by other means what the backend decides. `PROJECT.json` lists each of these hazards at its
line.

## 2. Modules

| Module | What it is |
|---|---|
| `IncidentBook` | the incident book as a value and its methods as operators, the policy, the risk levels |
| `AlertPipeline`, `MCAlertPipeline` | the backend's core: session clock, fleet store, frames, sweep, pass, book |
| `MlBreaker` | the ML client: circuit breaker, overlapping calls, health checks, the service |
| `ReplayEngine` | the replayer's engine: two threads, cursor, clock, loops, lost backends |
| `SessionLink` | how the replayer's session reaches the backend: reporter, POST, frames, restarts |
| `StreamHub`, `MCStreamHub` | the WebSocket hub with its client queues, the sockets and the dashboards' copies |
| `StreamMirror` | what the stream promises: every published state, in order, without gaps |
| `UnitLink` | a terminal of the replayer: queue, pump, drain, reconnects, counters |
| `Ndtp` | frames and cells, and the decoder that resynchronises |
| `IngestPath`, `MCIngestPath` | `UnitLink` and `Ndtp` composed with TCP, the server, its queue and the worker |
| `RowChannel` | what the way of the rows promises: channels that lose but never reorder or repeat |
| `TripLine` | the line of a trip: distances, projection, planned time of a place |
| `RouteMatcher`, `MCRouteMatcher` | the matcher of one vehicle, point by point |
| `TripPlan` | the plan of a day, the visits ahead, the window, the labels |
| `StopDetector` | arrivals read from a track |
| `PointFeatures` | the features, the segment and the sequence at a moment |
| `Causes` | why a delay is forecast |
| `ForecastPass`, `MCForecastPass` | one vehicle from its points to the score of its forecasts: buffer, pass, record, journal |
| `WhatIf`, `FleetCards` | what a dispatcher asks and sees: operators over the state of `ForecastPass` |
| `Calibration` | bins, scales, the isotonic curve and the cross-fit report, as functions of the rows |
| `MlService`, `MCMlService` | the service, its reloads, the trainer and the files between them |
| `AlertReplay` | an evaluation run with the incident book, and the replay that only sees its dump |
| `StreamScore` | the scores of that run against the labels |
| `DataPrep` | the preparation of the dataset, which may die at any moment |
| `EvalRun`, `MCAlertReplay` | the preparation, then the run: the scripts in their order |
| `AlertPipeline_proofs` (with the book's), `Forecast_proofs` (breaker, pass, cards and journal), `Replayer_proofs` (engine and session link), `StreamHub_proofs`, `IngestPath_proofs` (with the link's, the decoder's and the channel's), `RouteMatcher_proofs`, `MlService_proofs` (with the calibration's), `EvalRun_proofs` (the preparation's) | lemmas and theorems |

`AlertPipeline` is composed with `IncidentBook` by EXTENDS, since one handler of the backend
calls several methods of the book without giving up the loop. `SessionLink` looks at the same
backend from the other side: it keeps of a session only its id and its state, and of frames only
that they exist, and spends its states on the network between the two programs. Definitions
named `...Kept`, `...AnyEpoch` and the like under a comment "Mistake:" are faulty versions of the
definition that follows; they show that the properties can fail.

### AlertPipeline and the code

| Model | Code |
|---|---|
| `clock` | `SimClock`; `held` is the branch of `now` that stops at `warmup_until` |
| `silent` | no packet for `degraded_after_wall_s` (`compute_mode`) |
| `epoch` | `Runtime.session_epoch` |
| `known`, `recs` | `FleetStore.vehicles` and its records |
| `book` | `Runtime.book` |
| `pass` | the local variables of a `run_pass` in progress, with the tasks it captured |
| `runner` | `PipelineRunner.last_t` and `_epoch` |
| `NewSession`, `SameSession`, `FrameStartsAutoSession` | `apply_session`, `start_auto_session` |
| `FrameAccepted`, `FrameNotStored` | `apply_frame` |
| `Sweep`, `Ack` | `Runtime.sweep`, `Runtime.ack` |
| `StartPass` … `PassReturns` | `loop`, `due`, `inputs`, `run_pass` around its awaits |
| `ApplyTask`, `SkipTask`, `TaskRaises` | one round of the loop in `apply`, with `_update_record` and `_incidents` |
| `Tick`, `GoSilent` | time |

A handler that does not await is one action. `apply` does not await either, but is split by
vehicle so that each action stays readable; in phase "applying" every other handler is disabled
(`LoopFree`), only time passes, as `can_open` reads the clock anew. One tick is a minute of the
session: passes are due once a minute, and every comparison of the code with a time is kept. The
window is `HorizonLow < tb - t <= HorizonHigh`. A prediction is a delay and a probability chosen
anew by every pass; an actual delay is chosen by the detector, which reports arrivals only at
visits planned by the pass's minute (`_detect`: `tb <= until`) and whose first report is kept
(`setdefault`). Vehicles without a timetable never have predictions and are left out. Streaks
stop counting at `MinStreak`, the only value they are compared with. `MaxNow`, the last minute,
stands for every later one, so a pass may repeat there.

### MlBreaker

`lock` is what is left of `open_until`, `failures` the counter, `calls` what each caller has in
flight. A call reads the breaker when it starts (`Call`) and changes it when it ends
(`CallSucceeds`, `CallFails`, `CallRaises`): between the two lies the await. A call succeeds only
if the service was up at some moment of it, and fails only if it was down at some moment of it
(up means that it answers, and answers properly).
`CallRaises` is an answer whose items are not objects: `_parse_item` raises an AttributeError that
`predict` does not catch, so the breaker hears nothing. `trial` and `age` are observations.

### ReplayEngine

The event loop's tick is split where the other thread can come between: `Watch`
(`watch_backend`), `TickReadsClock` (`advance`, `now`), `TickPlans`, `TickSends` (one row),
`TickReadsCursor` and `TickStoresCursor` (the two halves of `self._cursor = max(self._cursor,
end)`). A command that begins a session is split at its assignments (`CommandBegins`,
`CommandStartsClock`, `CommandSetsCursor`). One row of history stands for each minute. `count`
counts how often a row was handed to the links in the session, whether or not a link was
connected; `raced` records that a command overlapped a tick. Assumed: one command at a time, a
session begun by the event loop itself in one step, and no row that fails to encode.

### SessionLink

| Model | Code |
|---|---|
| `sid`, `state` | `ReplayEngine.session_id`, `ReplayClock.state` |
| `caller` | where the event loop and each thread of `POST /control` stand in `begin`, `control` and `report`, and the payload they have read |
| `latest`, `worker` | `SessionReporter._latest`, and the place of `run` |
| `BeginSession`, `StartsClock` | `begin` before and in `clock.start` |
| `PauseOrResume`, `StopAtEnd`, `Heartbeat` | the other callers of `report`, up to it |
| `ReadsSession`, `Pushes` | `session_payload`, then `push` |
| `WorkerTakes`, `WorkerClears` | `payload, self._latest = self._latest, None` |
| `PostHandled`, `PostLost`, `PostGivenUp` | a POST handled, failed, or given up after `POST_TIMEOUT_S` |
| `DelayedHandled`, `DelayedLost` | a POST its sender has given up |
| `FrameArrives`, `BackendRestarts` | `apply_frame`, a new process |

A thread may stand between any two of its steps while the event loop goes on: so an old payload
may be pushed over a newer one. The loop's own steps are not interrupted by its worker, but by the
threads. `frames` counts those on their way in sockets and the queue; a new session drops whatever
part of them had reached the queue. `old` in a payload and `seen` are observations. All automatic
sessions share the id `AutoSid`. Whether a frame is stored is left to `AlertPipeline`.

### StreamHub

| Model | Code |
|---|---|
| `session`, `fleet`, `book`, `mode` | `Runtime`, as the hub reads it: `clock.session_id`, `vehicle_states()`, `book.incidents`, the key of `check_status` |
| `lastSent`, `statusKey`, `clients`, `queue` | `WsHub.last_sent`, `_status_key`, `clients` and each client's `asyncio.Queue` |
| `wire`, `link` | the socket between `_send_loop` and `onmessage` |
| `view` | the dashboard's store |
| `SessionBegins`, `SessionReported` | `apply_session`, `start_auto_session` and `on_event("session")` |
| `ApplyVehicle`, `VehicleRaises` | one round of the loop in `PipelineRunner.apply` with its events, or with an exception after `settle` that loses them |
| `PassEnds`, `PassRaises` | `on_event("pass")`, or an exception before it |
| `HubTick` | one round of `WsHub.run` |
| `Connect`, `Send`, `Lose` | `serve` and its two loops |
| `Receive`, `Closed`, `SocketLost` | `onMessage` and `onclose`, the watchdog |

A vehicle's state is its badge (`open_incident_id`) and a look that stands for the rest. A handler
is one action with all the messages it broadcasts; a queue that cannot take them is emptied, ends
with `Closing` and leaves the set (what the code does at the first message that does not fit). The
application of a pass is split by vehicle and holds the loop (`inPass`). KPIs and pings carry
nothing that is compared and only take a place in the queues. A queue whose socket is lost goes
at once: in the code it stays until the server notices, but nobody reads it. `told` in a message
is an observation: what a dashboard that got everything up to that message should show. It is the
refinement mapping: the states pending for a dashboard are the `told` of the messages on their
way to it. `missed` and `unsure` are observations too: the incidents whose resolution was lost
(`VehicleRaises`) while a dashboard was connected, now and when the last message it shows was
sent. `StreamMirror` says nothing of these (`Lapse`) and is exact about everything else; the next
message about the incident ends the silence, and so does the end of all connections, since a
snapshot says everything.

### UnitLink, Ndtp and IngestPath

`UnitLink` splits `run`, `_serve` and `_pump` where they await: `phase` says where the task waits,
`hand` is the row between `writer.write` and the end of `drain`. A connection may end at each of
these places (`HelloFails`, `DrainFails`, `EncodeFails`, `PeerClosed`), and `Closed` is the way
out through `finally`. Rows are numbers. `Ndtp` scales the layout (a frame is a sequence of a few
cells: signature of two, size, checksum, type, kind, body), but keeps what resynchronisation
depends on: which cells the size and the checksum cover, what is skipped, and how much of the
buffer is kept. `IngestPath` writes the frames of the link to the sockets (`wire`), cuts what is
read anywhere (`Unread`), decodes, answers and stores (`Read`), and drops the oldest frame of a
full queue (`Put`). Connection 0 belongs to another terminal that writes noise, damaged and
truncated frames and cells of other kinds. A new session clears the queue (`QueueCleared`).
`RowChannel` is what the path promises of a row; the refinement mapping gives it the rows in the
sockets, the decoders and the queue, by connection.

### RouteMatcher

The streets are one road and a place is a distance along it and one beside it, so that the whole
geometry is in whole metres; everything else is `matching.py` statement by statement: late points,
outliers, the resynchronisation after `RESYNC_N` of them, standing against the anchor, the search
of all trips, the tracking of the present and the next, a trip that is overdue. Each way through
`update` is one action. `last` is what the record publishes. `MatcherAssumption` asks that every
line be longer than nothing (see Observations).

### ForecastPass and the modules under it

`TripPlan`, `StopDetector`, `PointFeatures` and `Causes` are functions of a plan and a track, with
the seconds and metres of the code; means are kept as sums and counts, missing values as sets.
`ForecastPass` is one record: `Point` adds a point and trims the buffer, `PassBegins` captures it
(`inputs`), and only `PassEnds` uses what was captured, after points, sweeps and sessions that come
in between; `PassFails` is an exception in the pass. The boolean masks and stable sorts of the code
are `Taken` and `ByTime`, the loop of `_detect` is a function over the visits (`Found` is one round
of it), and `setdefault` of the arrivals is `WithFacts`. The service gives any delay of `MlDelays`, or
nothing (then `fallback_item`), and explanations come or do not (`ItemFor`). `heard` keeps all
points and is what a training would see. Incidents are left to `AlertPipeline`. `WhatIf` and
`FleetCards` add no state: their operators are evaluated in every state of the record.

### Calibration and MlService

`Calibration` computes with whole multiples of `1/Unit`: the code's scales are floats rounded to
four digits, with a guard against quantiles that coincide; `OofRows` are the rows whose quantiles
grow and whose distances divide `Unit`, so that no score needs rounding and a scale reaches the
rows it is the score of. `ScoreAt` says which score an order statistic is by counting: the least
with enough scores up to it. Rows of a training are drawn from small sets made so that bins are
full, too small, or reached from outside. `disk` is the directory; a
file holds the number of the training that wrote it, or is torn while it is written in place
(`WriteStarts`, `WriteEnds`); models are renamed into place. A training is a list of writes in the
order of `train.main`, `refit` and `calibration.main`. A thread reads the registry file by file
(`Read` in the order of `load_registry`) under `RELOAD_LOCK`, then serves it (`Serve`). The
service and the trainer may die between any two steps.

### AlertReplay, StreamScore, DataPrep, EvalRun

`AlertReplay` extends the book of `IncidentBook`: `Pass` is a minute of `stream_eval_run` for the
whole fleet, with facts, forecasts and troubles (not ready, stale) chosen freely, and writes the
two tables of the dump. `Simulated` is `alert_replay.simulate` on those tables alone, `Evaluate`
its scores, `Contract` those of the journal. `CanAlert` is the mode LIVE: at the speed of an
evaluation every vehicle is stale long before the stream is DEGRADED, so that LIVE is "not all
warming up, not all stale". `StreamScore` adds the labels and what `stream_eval_metrics` says of
them.

`DataPrep` is `data_prep.main` chunk by chunk: `Dies` may come anywhere, `Person` puts a whole
archive or folder into `./data` or takes it away between runs. The script knows a file by its
size only, so a version of the dataset is the size of its files, and `dest` says of each file the
version last written to it and how much of it is there. `met` is an observation: the versions
whose files some run has gone through. `EvalRun` puts the two after one another: the evaluation is
explored from the state in which everything is in place.

## 3. Runs

| Run | Question | Bounds | Distinct states |
|---|---|---|---|
| `AlertLifecycle` | is every incident opened once per target, final when resolved, and settled in the end? | 1 bus, 2 visits one minute apart, 8 minutes, 1 session, 1 failure | 259,488 |
| `AlertFleet` | do book, store and records stay together over sweeps, failures and sessions? | 2 vehicles, 1 visit each, 2 sessions, 4 minutes, silence, 1 failure | 769,874 |
| `AlertSessions` | does nothing cross from one session, or one moment, to another? | 1 bus, 1 visit, 2 sessions and automatic ones, pauses, stops, a declared warm-up, rewinds by a minute | 497,613 |
| `MlBreaker` | does the breaker open when it should, and does the mode follow the service? | the pass and 2 requests, threshold 3, pause 3, failures to 4 | 96,222 |
| `ReplayEngine` | each row once, none early, and is the end reached? | 4 minutes of history, warm-up 1, commands without limit | 614,496 |
| `SessionLink` | does the backend end in the replayer's session, wiped once? | 2 sessions, the event loop and 1 thread of commands, 1 frame, 1 delayed POST, restarts without limit | 529,817 |
| `StreamHub` | does every dashboard show what was published, in order, and the present state and mode in the end? | 1 dashboard, 1 vehicle, 1 incident id, 2 sessions, 2 modes, queues of 2, restarts, lost sockets and failed applications without limit | 94,673 |
| `IngestPath` | is every row sent once and in order, or counted, and does the cut of the stream matter? | 3 rows, 2 connections and a foreign one, queues of 2 and 1, reads that leave 0 or 8 bytes | 30,860 |
| `RouteMatcher` | is the published match the one the next point is tracked from, and does it go forward? | 2 trips of 3 stops, 28 points in any order, 2 outliers to resynchronise, 2 losses to search | 12,512 |
| `ForecastPass` | does the pass see what training saw, and do record, card, journal and what-if agree? | 4 visits, 4 instants over an hour, 3 points and a second session, 3 sights, 2 models, 4 measures | 185,481 |
| `MlService` | is the newest training served in the end, and does calibration keep its promises? | 2 trainings, 2 reloading threads, 1 death, 3 sets of rows | 168,878 |
| `AlertReplay` | does the replay find what the book did, and is the dataset whole when services start? | a bus with 3 visits on 2 trips, a late tram, 10 minutes, 1 trouble; 2 required files and an optional one, versions of 1 and 2 chunks | 240,481 |

In `IngestPath`, `ImplementsChannel` is the refinement of `RowChannel`; in `StreamHub`,
`KeepsItsPromise` is that of `StreamMirror`. `CoversItsBins`, `HonestAfter`, `FeaturesAsOffline` and
`MeasuresKeepTheirWord` are about functions: they are evaluated whenever the state their arguments
come from changes. `TypeOK` of each module states the types of its variables; TLC finds it true on
the same instances, and it is proved where section 4 says so, but no run lists it.

Why the bounds are enough. An incident needs `MinStreak` passes in the window, the vehicle's
history and a visit that is still ahead; `MinStreak` is 2, so that a streak can be built, broken
and built again, and the window is 2 or 3 minutes wide so that it fits in. The horizon leaves
minutes for the follow-up between the window and the visit, and `MaxNow` leaves room for the
timeout after it, so all ways an incident can end occur. Two visits share the window, so there is
always a rival target while an incident is active. Two vehicles are the fewest for which the
sweep can remove one, and that run adds silence (DEGRADED), during which nothing is removed. Two
sessions are enough for a pass that outlives the first; `AlertSessions` adds automatic sessions, a
declared warm-up and its hold, pauses, stops and messages that move the clock by a minute either
way. In `MlBreaker` three callers overlap, and
`MaxFailures` exceeds the threshold so that late failures of an open breaker occur; the counter
is only compared with the threshold, so stopping it above loses nothing. In `ReplayEngine` a
session may start clamped at the day's beginning (the preset) or with a warm-up later in the day; commands and link
changes are unlimited. In `SessionLink` two sessions let a payload or a POST of the first arrive after
the second began, which is all the properties tell apart; one thread beside the event loop is enough
for a payload to be overtaken; the proof covers any number of each. In `StreamHub` the queues of different dashboards never touch, so one is
enough: what matters is that it may connect when others have made `last_sent` differ from the
fleet, and `last_sent` is kept with nobody connected too. A vehicle may appear, change its badge
and leave, and change back before the next delta. Two places hold a snapshot with its status or a
delta with its status, so queues both fill and overflow; a tick that adds KPIs overflows them
even when they are empty, which the code's larger queue would not, and only adds disconnections.
`ModesIn` bounds the mode, since status messages depend on neither the fleet nor the book: in one of
the two sessions it changes while the map is empty, and there are no incidents; the other has the
incidents, in one mode.

In `IngestPath` three rows overflow the link's queue of two and the server's of one; with two
connections a row can be in hand when the first ends and be followed by rows on the second. A read
that leaves eight cells cuts frames in the signature, the header, the body and between frames. In
`RouteMatcher` the state is finite by itself: the times and places of the points are chosen around
every limit of the code (12 and 35 km/h, standing, 150 m, the overdue half hour), and the trips go
out and back on one road, where a wrong direction is most tempting. In `ForecastPass` the last
instant is more than an hour after the first and lies within a minute, so that the pass of that
minute may see a buffer already trimmed by a point dated after it, and points leave the buffer
while a pass runs; a second session may begin in any state of the first. In `MlService` the second training may be a full one, a
refit or a recalibration; distances of the quantiles are such that every score is a multiple of the
step of the grid. In `DataPrep` a piece of the version of two chunks has the size of the whole
version of one, so sizes deceive; two required files are the fewest of which the first may be torn. In
`AlertReplay` the minutes are as few as let the end of an incident, by arrival
or timeout, decide about the next trip; the tram is red all day, so that two vehicles are in every
table.

`AlertFleet` uses symmetry: the two vehicles have the same plan and the two sessions the same
kind, so both sets may be permuted, and the run checks no liveness property.

`CHECK_DEADLOCK FALSE` in the alert runs: time ends at `MaxNow`, and a silent or stopped session
without messages really has nothing left to do. So in `IngestPath` (all rows handed over and
consumed), `ForecastPass` and `AlertReplay` (the day is over). `RouteMatcher` always has a point to
take, so nothing is lost by it there.

### Fairness

* `AlertPipeline`: `PipelineRunner.loop` never ends and catches every exception, its awaits end
  (the thread computes, httpx has a timeout), time passes. `StartPass({})`, a pass in which
  nothing fails, is always possible when any is. Frames, messages, acknowledgements and the sweep
  are not assumed. `EventuallySettled` further assumes that the clock is not moved back for ever.
* `MlBreaker`: calls and checks end (timeout), the health loop repeats, time passes, and the pass
  calls again, as it does while a session runs. Requests are not assumed.
* `ReplayEngine`: the tick task never ends, a started command completes, time passes.
* `SessionLink`: heartbeat and worker never end, the event loop finishes what it has begun, POSTs
  end. Of the commands nothing is assumed, not even that one that began goes on, nor of what is on its
  way. `AgreesInTheEnd` asks for agreement after commands and faults have come to an end.
* `StreamHub`: a pass ends, the hub's loop, the send loops and new connections get their turn in
  the event loop however many passes hold it in between (strong fairness; the loop serves what is
  ready in order), dashboards read and reconnect. `AgreesInTheEnd` asks for agreement after
  changes and losses of clients, overflows included, have come to an end. `ModeShownInTheEnd`
  further assumes the replayer's heartbeats about a session, as `HeartbeatsGoOn`.
* `IngestPath`: the pump goes on while there are rows and `drain` returns or raises; the backend's
  loop reads what has come and runs the worker. Neither rows nor connections are assumed.
* `MlService`: a started write ends unless the trainer dies, threads that read a registry go on, a
  dead service is started again (`restart: unless-stopped`). Trainings are not assumed;
  `ServedInTheEnd` asks for what happens when they have come to an end with the directory whole,
  and reloads are asked for again and again.
* `EvalRun`: the script, once started, goes on unless it dies. `PreparedInTheEnd` assumes that it is
  started again and again, that deaths come to an end and that the archive stays.
* `AlertFleet`, `RouteMatcher`, `ForecastPass` check safety and assume nothing.

### Observations

What was met while modelling and is true of the code as it stands; the models behave the same way.
None is stated as a violated property.

Backend and ML client

* `IncidentBook.targets` never decides anything within a session whose passes go forward:
  `PipelineRunner` only passes over growing minutes, so a target has left the window before its
  incident can be settled. `TargetsAlertedOnce` rests on it all the same, and so needs no
  assumption about time.
* If an exception follows `settle` in `_incidents`, the incident is resolved but its event is
  lost; the book stays consistent (`TaskRaises`), a connected dashboard keeps the incident open
  until its next snapshot (`VehicleRaises`).
* `ml_client.py:4-5` promises one trial call after the pause; line 64 lets every caller through
  until one fails. `TrialFailureReopens` is what holds.
* `docs/INTERFACES.md:86` says the same `session_id` only updates the clock. A frame that comes
  after a stop starts an auto session (`worker.py:46`), and the next heartbeat wipes it again.
* `ws.py:125`: a client that connects between a change of mode and its reversal keeps the banner
  of the moment it connected, until the next status. With heartbeats of a replayer it is
  corrected (`ModeShownInTheEnd`).
* What-if asks the service for a vehicle whose pass used the fallback because it was stale, and on
  partial answers mixes both sources. A reload of models between two calls of `run_ml` merges the
  numbers of one model with the contributions of another.
* `store.py:85-87` trims by the newest point, which may be dated after the pass's minute. When the
  hour before that point holds none up to the minute, the pass computes features from no point at
  all, where the training has the last one before the silence.
* After a rejected point, a failed search or an exception in the matcher the older match stays
  published (`store.py:98-99`); readers go by its age.
* A forecast may be scored against an arrival that the detector dates before the forecast. A swept
  vehicle that is heard again may have a stop detected a second time, with another delay.

Replayer, link, ingest

* `ReplayClock.now` may step back by the surplus of the warm-up when the clock is paused between
  the end of the warm-up and the next tick; `EveryRowOnce` holds in spite of it, as the cursor
  never moves back.
* `engine.py:184`: a seek that overlaps a tick may leave the cursor of the old moment; rows are
  then skipped.
* `session.py:34`: a command's thread that is overtaken between `session_payload` and `push` by a
  session the event loop begins pushes the old session over the new one. The backend is wiped back
  to the old one, and once more by the next report.
* The row in hand when `drain` fails is neither sent nor counted as lost; `RowsAccounted` allows
  one such row for each connection that ended, and no more.
* `tp_ingest_dropped` (`metrics.py:80`) is declared and never incremented; the drops are counted
  in `IngestStats`.
* A lone 0x7E in front of a frame whose crc byte equals the type swallows that frame. A second Nav
  cell is dropped, although the docstring of `Frame` (`codec.py:54-56`) says that the cells keep
  all but the first.
* A next trip whose stops all lie in one place would have no segment within the window of its
  beginning, and `_roll_to_next` would take the `argmin` of an empty array. No plan of the data
  has such a trip; the proofs of the matcher need that there is none.
* A late frame overwrites a newer snapshot of the doors; a point stamped in the future becomes the
  matcher's anchor.

ML service, training

* A calibration file read while it is written makes the mode be served without calibration until
  the next reload. A torn `metrics.json`, left by a trainer that died, makes every reload and
  every start fail until the next full training, and refit and recalibration refuse to run.
* During a full training the new calibration may be served with the old model. A recalibration
  alone is reported as "unchanged", since the fingerprint is that of the model's file. The file is
  read twice, for the model and for its fingerprint (`inference.py:127`): a training between the
  two reads leaves the old model under the new one's fingerprint until the next reload.
* `conformal_scale` takes an index one rank above the textbook's.

Scripts

* The backend's timeouts follow the incident's last *updated* delay (with its step, and with
  follow-ups past the window); the replay of policies uses the last forecast within the window.
  `docs/perf/alert_policy.md:9` puts every difference down to arrivals. A missing pass breaks the
  replay's streak, which counts minutes, and not the book's. After a fact more than ten minutes
  early the replay may open a second incident where the book is still busy with the first.
* `data_prep.py`: a run that dies while it writes the last required file, after which the archive
  goes, leaves a torn file that `is_extracted` accepts. So does one that dies while it replaces any
  file by one of another size, and a piece as long as the file of another version is taken for that
  file. Optional files and the emulator are never
  filled in once the required ones exist. A broken archive in `./data` blocks both the folder and
  the download. A newer archive whose file has the same size does not replace the old one.
* `make_label` gives the class `ontime` to a visit without a fact.

## 4. Proofs

TLC checks the instances above; the theorems hold for every value of the constants that satisfies
the assumptions: `BookAssumption`, `PipelineAssumption`, `BreakerAssumption`, `ReplayAssumption`,
`StreamAssumption`, `MatcherAssumption`, `IngestAssumption`, `CalibrationAssumption`, `MlAssumption`,
`PrepAssumption`, `ForecastAssumption` and the `LinkAssumption` of `UnitLink` and that of `SessionLink`.
They are weak: thresholds are integers, `MinStreak`, the pause and the sizes of the queues are
positive, the fleet is finite (so that the vehicles of a pass can be counted), the names for
"none" are not members of the sets they are added to, the modes a hub may be in are modes, the
history and its targets are minutes, the line of a trip is one: its distances grow by the
lengths of its segments, and it is longer than nothing; lead edges grow, trainings draw rows of
`OofRows`, some file is required and none twice, the sizes of versions are positive, and the event
loop is none of the threads; a visit of the plan is known by its key, times and places
are integers, and the instants of a day follow one another.

Each invariant was first checked by TLC on the instance of its run, then proved inductive. The
properties themselves are not inductive; what had to be added is the argument why they hold.

* `AlertPipeline_proofs` first states for each method of the book that it keeps `Consistent`:
  active table and incidents agree, one incident per target, every target recorded.
  `ReplaceLemma` carries the methods that change one incident without touching the tables. Then it
  proves `IInv` inductive with one lemma per action. That a vehicle with an active incident stays
  known needs the agreement of the tables; that the captured target is still valid needs that
  vehicles outside `pass.todo` are the only ones whose incidents have changed since; that a cached
  id is right needs that the pass is the only writer of `active`. `IInv` is the conjunction of the
  types, the consistency of the book, the three agreements and the separation of sessions. From it
  follow `TypeCorrect`, `BookAgrees`, `TargetsAlertedOnce`, `SessionsSeparate`, `ActiveKept`,
  `CaptureSound`, `CacheSound`, and with one more lemma per action the action property
  `OutcomesFinal`. `NoLateAlert` (`NoAlertAfterArrival`) strengthens it by two facts: the minutes
  of the passes of a session never decrease, although the clock may be moved back
  (`PassMinutesGrow`), and arrivals are recorded only at visits behind the last of them
  (`ArrivalsBehind`); the window of a pass lies ahead of its minute.
* `Replayer_proofs` proves `EveryRowOnce` for every history, warm-up and target. The invariant
  says where the knowledge of what was sent is: in the cursor between the sending parts of ticks,
  in the tick within them, and in the start of the session between the assignments of a command
  (`CursorTells`, `NothingSentYet`). A session that is not `raced` has a command or a tick at work,
  never both. That no row is early needs that the clock is not past `peak`, which is only so once a
  command has begun a session: a clock preset later in the day stands before that
  (`StandsUntilBegun`). For the session link it proves `WipedOnceUnlessAuto` for any number of threads,
  sessions, frames and POSTs on their way. A call that has read the session has read one no newer than
  the present (`CallsInSession`); of payloads pushed in time the worker's is not newer than the one
  that waits behind it (`ReportsInOrder`); as long as no late one was handled the backend has seen
  nothing newer than what will be posted in time (`NothingNewerSeen`), and is in the newest it has
  seen, or in none or an automatic one (`InNewestSeen`). Payloads that are out of date are told from
  the others when they are pushed, as nothing later can tell.
* `StreamHub_proofs` proves the refinement, `KeepsItsPromise`, for any number of dashboards,
  vehicles and incidents and any size of the queues. What is told by the messages on the wire and
  in the queue of a dashboard is a chain: each message, applied to what was told before it, gives
  what the hub meant (`InOrder`), and for a client of the hub the chain ends at what was published
  last (`LeadsToPresent`), up to incidents that were told of before their outcome was lost
  (`Fades`). Every broadcast extends all chains at once (`Conveys`), an overflow or a lost socket
  cuts one off, and a raised exception only makes what is published say less (`RaiseStep`); each
  action then is a step of `StreamMirror` or a stutter.
* `RouteMatcher_proofs` proves `MatchIsCurrent` and `ForwardUnlessAcquired` for every list of
  trips and every set of points. It rests on lemmas about lines: the cumulated distances grow, the
  projection of a place lies on its segment, the segment up to a distance and the window around it
  are never empty, the best of the candidates is one of them and lies in its window. Those that go
  along a line use induction over the naturals, obtained from the well-foundedness of `<` as a
  theorem about sets (`Induction`), as the rule about operators cannot be instantiated.
* `Forecast_proofs` is about what makes, shows and scores forecasts.
  * The breaker: `LockedExactly`, `PauseRespected` and `TrialFailureReopens` for any number of
    callers. `BreakerInv` says that a call in flight while the breaker is open is at least as old
    as the pause has lasted. The module can EXTEND both `MlBreaker` and `FleetCards` because the
    breaker names its specification `BreakerSpec`.
  * What the functions compute, for every plan and track. A function defined from one number to the
    next exists and is the only one (`Recursion`); with it `Taken`, the loop of the detector and the
    sums of the journal get their equations. The order of time has a place for each number
    (`ByTimeIs`), so the plan is the visits of the schedule, each once, in order of time (`PlanIs`).
    An arrival is read from the track, so it is not later than the moment the track was cut at, and
    belongs to a visit planned by then (`DetectType`, `ArrivalsType`). Forecasts are of visits more
    than ten minutes ahead (`HorizonIs`, `AssembledIs`).
  * `RecordInv` is the inductive invariant of the record. The card, its window and the arrivals come
    from one pass, so the target is in the window with the delay of the card and has no arrival
    (`CardFor`); arrivals are those of the last pass or of one before it in this session
    (`ArrivalsUpTo`), because a pass of an older session is dropped (`InTime`). Neither part holds
    alone: that a late result finds no arrival of its target needs that passes of a session come in
    order. From it follow `ViewsAgree` (`CardAgrees`), where the bound of ten minutes overdue is
    what keeps the target among the visits ahead, and `PassesInOrder`.
  * `JournalInv` adds the journal: what was shown is scored or waits (`Accounted`), what was scored
    was planned by the last pass (`DueBy`), so a visit that is forecast, being ahead, was not scored
    yet and nothing shown is lost; the time counted is covered by passes (`Covered`). A visit that
    was scored keeps its arrival until the vehicle leaves the map, after which the record knows that
    points were heard before it began. `PassesSeparate` (`NothingOfAnotherSession`) follows, and with
    `BucketsAddUp`, which goes through the errors one by one, `QualityCounts` (`QualityAddsUp`).
    TLC evaluated both invariants in all states of the run before they were proved.
* `IngestPath_proofs` goes from the link to the worker, for any limits of the queues, any number
  of rows and connections, and whatever another terminal writes.
  * `LinkSafe` is about the link alone: the counters account for every row handed over but at most
    one of every connection that ended, and nothing waits while there is no connection. The
    invariant says of each state of the pump which row it has in hand and that the queue is empty
    whenever nobody serves it.
  * The decoder. `Cut` is a function defined by itself on what is left of the buffer, and nothing
    can be proved of such a function before it is known to exist. `Recursion` gives that once for
    all: where arguments get smaller, a function with that equation exists. With it
    `FlattenSeq`, the checksum, `decode_cells` and `Cut` get their equations (`FlattenIs`,
    `CrcType`, `DecodeCellsIs`, `CutIs`). `CutConcat` then says what resynchronisation rests on:
    cutting `x \o y` gives the frames of `x`, followed by those of what `x` has left with `y`
    behind it. It goes by the length of the buffer through noise, a header that waits for more and
    a whole frame, and needs that skipping to the signature may be interrupted anywhere
    (`SkipConcat`): the half of a signature that is kept is what makes it true. `HandshakeCut`
    and `RealtimeCut` say that what the terminal writes is decoded to what it meant.
  * `IngestInv` is the inductive invariant: the link's; nothing is left of a connection that is
    closed or was never made; the decoder of each connection stands where the whole stream at once
    would have brought it; what the replayer's terminals have written ends with a whole frame;
    the queue and its counters agree. From it follow `TypeCorrect`, `CutsSound`, `FramesSafe` and
    `RowsSafe`.
  * `WayIsAChannel` is the refinement `ImplementsChannel`. The rows of a connection on their way
    are those queued at the server, those in the bytes (`InBytes`) and those that wait in the link
    (`WayIs`). A write moves the first of the third part to the end of the second, a chunk moves
    the beginning of the second to the end of the first, and neither changes the whole
    (`WriteChannel`, `ReadChannel`); what a full queue drops is a beginning, what the end of a
    handler loses is the middle, what the end of a connection loses is an end, and each of these
    is what the channel may lose (`LostThinned`).
  * The abstract channel keeps its promise: what is on its way is in order and newer than what was
    delivered, no row is on two connections, and each connection delivers in order. With
    `WayIsAChannel` this holds of the rows that the worker takes: `WaySafe` and `WayOrdered` say it
    of `IngestPath` itself.
* `MlService_proofs` is about the service with any number of reloading threads, trainings and
  crashes, and about calibration for every list of rows.
  * `NeverOlder` (`NewestServed`). The models on disk are those of the newest training that wrote
    any (`ModelsAreNewest`); no calibration that may yet be read is older than the one on disk,
    because the rows a recalibration starts from are written before what is fitted on them
    (`RowsFirst`, `NothingOlder`); `RELOAD_LOCK` lets one thread read (`OneLoads`). What is served
    was on disk before (`HeldIsPast`), and so what is read now is not older (`LoadsNewer`). The
    invariant follows a load through the order in which `load_registry` reads (`ReadsInOrder`).
  * `BinsCovered` (`CoversItsBins`). `ScoreAt` has a value because a finite set of integers has a
    least member and not more members than rows (`HasLeast`, `HasEnds`), and that value reaches at
    least `Place(n)` rows (`ScoreAtReaches`), which is at least four fifths of `n` (`PlaceIs`). The
    rows a bin was fitted on are those that the lookup sends to it, since the cuts of the fitted
    bins are those of the bins it was given (`FitIs`); a lead is in one bin at most (`OneBin`).
  * `Honest` (`HonestAfter`). The bins of the report depend on the leads alone, the calibration of
    a row on the rows of other folds, and the interval on that calibration and the row's quantiles;
    none of them changes with the row's delay (`CrossFitIsHonest`).
* `EvalRun_proofs` proves `StartedIsWhole` for every list of files and all sizes of versions. What is
  there is a piece of a version that was met (`PiecesOfMet`), so while one version was met a file of
  the source's size is whole (`SizedIsThere`, `WholeIsSized`). Files are copied in the order of the
  list and one is begun when the one before it has been closed, so, while one version was met, a
  required file is there only if those before it are whole (`FilledInOrder`), whatever died before; a
  run that copies has a beginning of the source's sizes and the rest still to come
  (`CopiesTheRest`), and the file it writes is not complete (`OpenIsTorn`). That the last file may be
  torn is what remains, and is the case the property excepts.

`TypeCorrect` (of each of these modules; `SessionTypes` of the session link, `ServiceTypes` of the
service, `BreakerTypes` of the breaker), `PassesInOrder`, `PauseRespected`, `TrialFailureReopens`, `WaySafe` and `WayOrdered` are proved and in no
run's list: the types are the least that can be said, `LockedByFailures` is the stronger thing
to run, and the channel's promise follows from `ImplementsChannel`.

Only model-checked:

* liveness (`EventuallySettled`, `ComesBack`, `FallsBack`, `ReachesTheEnd`, `AgreesInTheEnd`,
  `ModeShownInTheEnd`, `EverythingDrains`, `ServedInTheEnd`, `PreparedInTheEnd`), as fairness
  and ENABLED are out of this prover's reach;
* what the features, the what-if and the scripts compute: `FeaturesAsOffline`,
  `MeasuresKeepTheirWord`, `ReplayFindsThem`, `ScoresAgree` and `LabelsMeetForecasts`. The first
  compares the whole feature vector of two tracks, the second all measures of a scenario, the others
  two programs on the same table; each needs an equation for every function on the way, as the
  detector and the decoder have got them, and that has not been done. `MeasuresKeepTheirWord` is
  besides not true of every plan: the stop compared is the one on the card only while it is among
  the `MaxStops` stops ahead, which a plan with thirty visits before its target would break.

## 5. Not modelled, and the plan

Not modelled, and why:

* the incident and prediction database: appended to and never read back by the program;
* metrics, settings, schemas: declarations; the settings are the constants of the modules;
* the dashboard's components: rendering (its store is in `StreamHub`);
* fitting of models, folds and the check against leakage (`cv.py`, `dataset.py`), the sequence
  model and the blend of modes: numeric, their outputs are choices from small sets;
* texts, KPIs, pings, reports, benchmarks, submissions, the contract generator and the mock
  server: formatting and I/O;
* coordinates and floats: the matcher runs on a line of whole units;
* vehicles without a timetable, and the speed of the clocks, where a minute is one tick.

Next, in this order:

1. `SimClock` and `ReplayClock` as arithmetic with a speed: watermark, extrapolation, rewinds, the
   warm-up switch.
2. The folds of training, as functions of the rows, and that none leaks.
3. Proofs: `ReplayFindsThem`, for which the loop of `Simulated` needs an invariant beside that of
   the book, then `FeaturesAsOffline`.
