----------------------------- MODULE ReplayEngine -----------------------------
(***************************************************************************)
(* The replayer's engine and clock (replayer/engine.py, clock.py): which   *)
(* rows of the day's history are sent in which session.                    *)
(*                                                                         *)
(* Two threads share the engine without a lock.  The event loop ticks it   *)
(* (watch_backend, then tick); POST /control is a plain function, so       *)
(* FastAPI runs it in a thread of its own.  A tick is split at its reads   *)
(* and writes of the cursor, and a new session begun by a command at its   *)
(* three assignments.  One row of history stands for each minute.          *)
(***************************************************************************)
EXTENDS Integers, FiniteSets

CONSTANTS
  End,         \* loop_end, in minutes from day_start
  Preset,      \* preset_start: REPLAY_START
  Warmup,      \* settings.warmup_min
  SeekTo,      \* targets of seek commands
  Loops,       \* values of settings.loop
  None         \* no warm-up

ASSUME ReplayAssumption ==
  /\ End \in Nat \ {0} /\ Warmup \in Nat
  /\ Preset \in 0..(End - 1)
  /\ SeekTo \subseteq 0..(End - 1)
  /\ Loops \subseteq BOOLEAN
  /\ None \notin Int

VARIABLES
  loop,      \* settings.loop: does not change
  clock,     \* ReplayClock: state, sim-time, warmup_until
  begun,     \* session_id is set
  cursor,    \* _cursor: index of the next row
  tick,      \* the tick in progress: its place, sim-time and range of rows
  command,   \* the command in progress that begins a session, and its target
  links,     \* connected terminals: "none", "some" or "most" (nine of ten)
  seenUp,    \* _links_up
  lost,      \* _backend_lost
  from,      \* ghost: where the session began
  count,     \* ghost: how often each row was sent in this session
  peak,      \* ghost: the latest sim-time of this session
  raced      \* ghost: a command overlapped a tick since this session began

engine == <<clock, begun, cursor>>
watched == <<links, seenUp, lost>>
ghosts == <<from, count, peak, raced>>
vars == <<loop, engine, tick, command, watched, ghosts>>

Rows == 0..End
Free == "free"

TypeOK ==
  /\ loop \in BOOLEAN
  /\ clock \in [state: {"running", "paused", "stopped"}, sim: Rows, warm: Rows \cup {None}]
  /\ begun \in BOOLEAN
  /\ cursor \in 0..(End + 1)
  /\ tick \in [at: {Free, "read", "plan", "send", "store"}, now: Rows,
               next: 0..(End + 1), end: 0..(End + 1), store: 0..(End + 1)]
  /\ command \in [at: {Free, "clock", "cursor"}, target: Rows]
  /\ links \in {"none", "some", "most"} /\ seenUp \in BOOLEAN /\ lost \in BOOLEAN
  /\ from \in Rows /\ count \in [Rows -> 0..2] /\ peak \in Rows /\ raced \in BOOLEAN

Init ==
  /\ loop \in Loops
  /\ clock = [state |-> "stopped", sim |-> Preset, warm |-> None]
  /\ begun = FALSE
  /\ cursor = 0
  /\ tick = [at |-> Free, now |-> 0, next |-> 0, end |-> 0, store |-> 0]
  /\ command = [at |-> Free, target |-> 0]
  /\ links = "none" /\ seenUp = FALSE /\ lost = FALSE
  /\ from = 0 /\ count = [r \in Rows |-> 0] /\ peak = 0 /\ raced = FALSE

-----------------------------------------------------------------------------
(* begin: a new session from the warm-up of its target.                    *)

WarmupFrom(target) == IF target >= Warmup THEN target - Warmup ELSE 0

StartedClock(target) ==
  [state |-> "running", sim |-> WarmupFrom(target),
   warm |-> IF target > WarmupFrom(target) THEN target ELSE None]

(* The rows counted are those of the session; a session that begins while  *)
(* the other thread is at work may not be clean.                           *)
NewSession(target, overlap) ==
  /\ from' = WarmupFrom(target)
  /\ peak' = WarmupFrom(target)
  /\ count' = [r \in Rows |-> 0]
  /\ raced' = overlap

\* Mistake: a session of the loop thread goes on with the old cursor.
BeginKeepsCursor(target) ==
  /\ begun' = TRUE
  /\ clock' = StartedClock(target)
  /\ NewSession(target, command.at # Free)
  /\ UNCHANGED cursor

(* In the event loop a session is begun between two steps of a command.    *)
Begin(target) ==
  /\ begun' = TRUE
  /\ clock' = StartedClock(target)
  /\ cursor' = WarmupFrom(target)
  /\ NewSession(target, command.at # Free)

(* _autostart, once the terminals are connected or its deadline is over.   *)
Autostart ==
  /\ tick.at = Free
  /\ ~begun
  /\ Begin(Preset)
  /\ UNCHANGED <<loop, tick, command, watched>>

-----------------------------------------------------------------------------
(* The control thread.                                                     *)

CommandBegins(target) ==
  /\ command.at = Free
  /\ begun' = TRUE
  /\ command' = [at |-> "clock", target |-> target]
  /\ NewSession(target, tick.at # Free)
  /\ UNCHANGED <<loop, clock, cursor, tick, watched>>

CommandStartsClock ==
  /\ command.at = "clock"
  /\ clock' = StartedClock(command.target)
  /\ command' = [command EXCEPT !.at = "cursor"]
  /\ peak' = WarmupFrom(command.target)
  /\ raced' = (raced \/ tick.at # Free)
  /\ UNCHANGED <<loop, begun, cursor, tick, watched, from, count>>

CommandSetsCursor ==
  /\ command.at = "cursor"
  /\ cursor' = WarmupFrom(command.target)
  /\ command' = [at |-> Free, target |-> 0]
  /\ raced' = (raced \/ tick.at # Free)
  /\ UNCHANGED <<loop, clock, begun, tick, watched, from, count, peak>>

Pause ==
  /\ command.at = Free
  /\ clock.state = "running"
  /\ clock' = [clock EXCEPT !.state = "paused"]
  /\ UNCHANGED <<loop, begun, cursor, tick, command, watched, ghosts>>

(* A clock paused past the end of its warm-up, before a tick has switched  *)
(* its speed, may resume a little earlier: now() takes the surplus again.  *)
Resume ==
  /\ command.at = Free
  /\ clock.state = "paused"
  /\ \E sim \in {clock.sim, clock.sim - 1} :
       /\ sim # clock.sim => clock.warm # None /\ sim >= clock.warm
       /\ clock' = [clock EXCEPT !.state = "running", !.sim = sim]
  /\ UNCHANGED <<loop, begun, cursor, tick, command, watched, ghosts>>

(* set_speed ends the warm-up.                                             *)
SetSpeed ==
  /\ command.at = Free
  /\ clock.warm # None
  /\ clock' = [clock EXCEPT !.warm = None]
  /\ UNCHANGED <<loop, begun, cursor, tick, command, watched, ghosts>>

-----------------------------------------------------------------------------
(* The event loop: watch_backend, then tick.                               *)

Overlapped == raced' = (raced \/ command.at # Free)

Connected == links # "none"
Returned == lost /\ links = "most"

\* Mistake: a backend that has returned is still taken for lost.
LostForEver == lost \/ (~Connected /\ seenUp)

StillLost == (lost \/ (~Connected /\ seenUp)) /\ ~Returned

WatchRestarts == begun /\ clock.state = "running" /\ clock.warm = None

Watch ==
  /\ tick.at = Free
  /\ seenUp' = Connected
  /\ lost' = StillLost
  /\ IF Returned /\ WatchRestarts
     THEN Begin(IF clock.sim < End THEN clock.sim ELSE End - 1)
     ELSE UNCHANGED <<engine, from, count, peak>> /\ Overlapped
  /\ tick' = [tick EXCEPT !.at = "read"]
  /\ UNCHANGED <<loop, command, links>>

(* A clock that does not run ends the tick; advance ends the warm-up.      *)
TickIdle ==
  /\ tick.at = "read"
  /\ clock.state # "running"
  /\ tick' = [tick EXCEPT !.at = Free]
  /\ UNCHANGED <<loop, engine, command, watched, ghosts>>

TickReadsClock ==
  /\ tick.at = "read"
  /\ clock.state = "running"
  /\ clock' = [clock EXCEPT !.warm =
                 IF @ # None /\ clock.sim >= @ THEN None ELSE @]
  /\ tick' = [tick EXCEPT !.at = "plan", !.now = clock.sim]
  /\ Overlapped
  /\ UNCHANGED <<loop, begun, cursor, command, watched, from, count, peak>>

TickPlans ==
  /\ tick.at = "plan"
  /\ tick' = [tick EXCEPT !.at = "send", !.next = cursor, !.end = tick.now + 1]
  /\ Overlapped
  /\ UNCHANGED <<loop, engine, command, watched, from, count, peak>>

TickSends ==
  /\ tick.at = "send"
  /\ tick.next < tick.end
  /\ count' = [count EXCEPT ![tick.next] = IF @ < 2 THEN @ + 1 ELSE @]
  /\ tick' = [tick EXCEPT !.next = @ + 1]
  /\ Overlapped
  /\ UNCHANGED <<loop, engine, command, watched, from, peak>>

(* max(self._cursor, end): read, and then written.                         *)
TickReadsCursor ==
  /\ tick.at = "send"
  /\ tick.next >= tick.end
  /\ tick' = [tick EXCEPT !.at = "store",
                          !.store = IF cursor >= tick.end THEN cursor ELSE tick.end]
  /\ Overlapped
  /\ UNCHANGED <<loop, engine, command, watched, from, count, peak>>

TickDone == tick' = [at |-> Free, now |-> 0, next |-> 0, end |-> 0, store |-> 0]

TickStoresCursor ==
  /\ tick.at = "store"
  /\ tick.now < End
  /\ cursor' = tick.store
  /\ TickDone
  /\ Overlapped
  /\ UNCHANGED <<loop, clock, begun, command, watched, from, count, peak>>

(* The end of the loop: _finish_loop.                                      *)
FinishLoop ==
  /\ tick.at = "store"
  /\ tick.now = End
  /\ TickDone
  /\ IF loop THEN Begin(Preset)
     ELSE /\ clock' = [clock EXCEPT !.state = "stopped"]
          /\ cursor' = tick.store
          /\ Overlapped
          /\ UNCHANGED <<begun, from, count, peak>>
  /\ UNCHANGED <<loop, command, watched>>

-----------------------------------------------------------------------------
(* Time and the network.                                                   *)

TimePasses ==
  /\ clock.state = "running"
  /\ clock.sim < End
  /\ clock' = [clock EXCEPT !.sim = @ + 1]
  /\ peak' = IF clock.sim + 1 > peak THEN clock.sim + 1 ELSE peak
  /\ UNCHANGED <<loop, begun, cursor, tick, command, watched, from, count, raced>>

LinksChange ==
  /\ \E l \in {"none", "some", "most"} : l # links /\ links' = l
  /\ UNCHANGED <<loop, engine, tick, command, seenUp, lost, ghosts>>

CommandStep == CommandStartsClock \/ CommandSetsCursor
TickStep ==
  \/ Watch \/ TickIdle \/ TickReadsClock \/ TickPlans \/ TickSends
  \/ TickReadsCursor \/ TickStoresCursor \/ FinishLoop

Next ==
  \/ Autostart
  \/ \E target \in SeekTo \cup {Preset} : CommandBegins(target)
  \/ CommandStartsClock \/ CommandSetsCursor
  \/ Pause \/ Resume \/ SetSpeed
  \/ Watch \/ TickIdle \/ TickReadsClock \/ TickPlans \/ TickSends
  \/ TickReadsCursor \/ TickStoresCursor \/ FinishLoop
  \/ TimePasses \/ LinksChange

Spec == Init /\ [][Next]_vars

(* The tick task never ends, a command that has begun completes, time      *)
(* passes.  Commands and the network are not assumed.                      *)
Fairness ==
  /\ WF_vars(Autostart) /\ WF_vars(TickStep) /\ WF_vars(CommandStep) /\ WF_vars(TimePasses)

FairSpec == Spec /\ Fairness

-----------------------------------------------------------------------------
(* As long as no command overlaps a tick, every row between the start of   *)
(* the session and the cursor was sent in this session, exactly once, over *)
(* pauses, seeks, changes of speed, restarts of the backend and loops; and *)
(* none was sent ahead of its time.                                        *)
EveryRowOnce ==
  ~raced =>
    /\ (tick.at = Free /\ command.at = Free /\ begun) =>
         \A r \in Rows : count[r] = IF from <= r /\ r < cursor THEN 1 ELSE 0
    /\ \A r \in Rows : count[r] > 0 => r <= peak

(* Whatever commands did before, a replay that is left to run reaches the  *)
(* end of its loop again and again, or stops there.                        *)
ReachesTheEnd ==
  <>[](clock.state = "running" /\ command.at = Free /\ links = "most") =>
    []<><<FinishLoop>>_vars

=============================================================================
