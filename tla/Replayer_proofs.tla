---------------------------- MODULE Replayer_proofs ----------------------------
(***************************************************************************)
(* Proofs about the replayer.  Its engine, for every length of the         *)
(* history, warm-up, start and target of a command: which rows a session   *)
(* has sent when no command overlapped a tick of it.  Its reporter, for    *)
(* any number of sessions, threads, frames and POSTs: when the backend     *)
(* forgets a session it knows.                                             *)
(***************************************************************************)
EXTENDS ReplayEngine, SessionLink, TLAPS

-----------------------------------------------------------------------------
(* The engine.                                                             *)

(* The rows sent in this session are those from its start to `upTo`.       *)
SentUpTo(upTo) == \A r \in Rows : count[r] = IF from <= r /\ r < upTo THEN 1 ELSE 0

Sending == tick.at \in {"send", "store"}
InTick == tick.at \in {"plan", "send", "store"}

(* A clean session has either a command or a tick at work, never both.     *)
OneAtATime == ~raced => command.at = Free \/ tick.at = Free

(* Between the assignments of a command nothing has been sent yet.         *)
NothingSentYet ==
  ~raced /\ command.at # Free => from = WarmupFrom(command.target) /\ SentUpTo(from)

(* The end of the rows of a tick is that of its minute.                    *)
EndIsNext == Sending => tick.end = tick.now + 1

(* Outside the sending part of a tick the cursor tells what was sent; in   *)
(* it the tick does, which began at the cursor and stops at its end unless *)
(* the cursor was already further.                                         *)
CursorTells ==
  ~raced /\ command.at = Free =>
    /\ from <= cursor
    /\ ~Sending => SentUpTo(cursor)
    /\ Sending => /\ SentUpTo(tick.next)
                  /\ cursor <= tick.next
                  /\ tick.next = cursor \/ tick.next <= tick.end
    /\ tick.at = "store" => tick.store = tick.next

(* Before its first session the clock stands, wherever it is set.          *)
StandsUntilBegun == ~begun => clock.state = "stopped" /\ command.at = Free

(* Nothing is ahead of the latest sim-time of a clean session: neither its *)
(* clock, once a command has set it, nor the minute of a tick, nor a row.  *)
BehindPeak ==
  ~raced =>
    /\ begun /\ command.at # "clock" => clock.sim <= peak
    /\ InTick => tick.now <= peak
    /\ \A r \in Rows : count[r] > 0 => r <= peak

IInv ==
  /\ TypeOK /\ OneAtATime /\ NothingSentYet /\ EndIsNext /\ CursorTells
  /\ StandsUntilBegun /\ BehindPeak

-----------------------------------------------------------------------------
ClockType == [state: {"running", "paused", "stopped"}, sim: Rows, warm: Rows \cup {None}]
TickType ==
  [at: {Free, "read", "plan", "send", "store"}, now: Rows,
   next: 0..(End + 1), end: 0..(End + 1), store: 0..(End + 1)]

(* Where a session starts.                                                 *)
LEMMA StartLemma ==
  ASSUME NEW target \in Rows
  PROVE  /\ WarmupFrom(target) \in Rows
         /\ StartedClock(target).sim = WarmupFrom(target)
         /\ StartedClock(target) \in ClockType
  BY ReplayAssumption DEF ClockType, WarmupFrom, StartedClock, Rows

(* A command never waits in the middle of a tick of a clean session, so    *)
(* what is begun in the event loop is clean exactly when no command is in  *)
(* progress.                                                               *)
LEMMA BeginStep ==
  ASSUME IInv, NEW target \in Rows, Begin(target), tick'.at \in {Free, "read"},
         tick' \in TickType,
         UNCHANGED <<loop, command>>, links' \in {"none", "some", "most"},
         seenUp' \in BOOLEAN, lost' \in BOOLEAN
  PROVE  IInv'
<1> USE ReplayAssumption DEF IInv
<1>1. TypeOK'
  <2>1. clock' \in ClockType /\ cursor' \in 0..(End + 1)
    BY StartLemma DEF Begin, ClockType, Rows
  <2>2. from' \in Rows /\ count' \in [Rows -> 0..2] /\ peak' \in Rows /\ raced' \in BOOLEAN
    BY StartLemma DEF Begin, NewSession
  <2> QED
    BY <2>1, <2>2 DEF Begin, TypeOK, ClockType, TickType
<1>2. SentUpTo(cursor)' /\ from' = cursor' /\ cursor' \in Int
  BY StartLemma DEF Begin, NewSession, SentUpTo, Rows
<1>3. OneAtATime' /\ NothingSentYet'
  BY DEF Begin, NewSession, OneAtATime, NothingSentYet
<1>4. EndIsNext' /\ CursorTells'
  BY <1>2 DEF EndIsNext, CursorTells, Sending, Free
<1>5. BehindPeak'
  <2>1. clock'.sim = peak' /\ peak' \in Int
    BY StartLemma DEF Begin, NewSession, Rows
  <2>2. \A r \in Rows : count'[r] = 0
    BY DEF Begin, NewSession
  <2> QED
    BY <2>1, <2>2 DEF BehindPeak, InTick, Free
<1>6. StandsUntilBegun'
  BY DEF Begin, StandsUntilBegun
<1> QED
  BY <1>1, <1>3, <1>4, <1>5, <1>6

LEMMA InitStep == Init => IInv
<1> SUFFICES ASSUME Init PROVE IInv
  OBVIOUS
<1> USE ReplayAssumption DEF Init, Rows, Free
<1>1. TypeOK
  <2>1. clock \in ClockType
    BY DEF ClockType
  <2>2. tick \in TickType
    BY DEF TickType
  <2>3. count \in [Rows -> 0..2] /\ from \in Rows /\ peak \in Rows /\ cursor \in 0..(End + 1)
    OBVIOUS
  <2>4. command \in [at: {Free, "clock", "cursor"}, target: Rows]
    OBVIOUS
  <2> QED
    BY <2>1, <2>2, <2>3, <2>4 DEF TypeOK, ClockType, TickType
<1>2. OneAtATime /\ NothingSentYet /\ EndIsNext
  BY DEF OneAtATime, NothingSentYet, EndIsNext, Sending
<1>3. SentUpTo(cursor)
  BY DEF SentUpTo
<1>4. CursorTells
  BY <1>3 DEF CursorTells, Sending
<1>5. BehindPeak
  BY DEF BehindPeak, InTick
<1>6. StandsUntilBegun
  BY DEF StandsUntilBegun
<1> QED
  BY <1>1, <1>2, <1>4, <1>5, <1>6 DEF IInv

LEMMA AutostartStep == ASSUME IInv, Autostart PROVE IInv'
<1>1. Preset \in Rows
  BY ReplayAssumption DEF Rows
<1> QED
  BY <1>1, BeginStep DEF Autostart, IInv, TypeOK, TickType, watched

LEMMA WatchStep == ASSUME IInv, Watch PROVE IInv'
<1>1. tick' \in TickType /\ tick'.at = "read"
  BY DEF Watch, IInv, TypeOK, TickType
<1>2. links' \in {"none", "some", "most"} /\ seenUp' \in BOOLEAN /\ lost' \in BOOLEAN
  BY DEF Watch, IInv, TypeOK, Connected, StillLost
<1>3. CASE Returned /\ WatchRestarts
  <2>1. clock.sim \in Rows
    BY DEF IInv, TypeOK
  <2>2. (IF clock.sim < End THEN clock.sim ELSE End - 1) \in Rows
    BY <2>1, ReplayAssumption DEF Rows
  <2> QED
    BY <1>1, <1>2, <1>3, <2>2, BeginStep DEF Watch
<1>4. CASE ~(Returned /\ WatchRestarts)
  <2>1. UNCHANGED <<loop, engine, command, from, count, peak>> /\ Overlapped
    BY <1>4 DEF Watch
  <2> USE <1>1, <1>2, <2>1 DEF IInv, engine, Overlapped, Free
  <2>2. TypeOK'
    BY DEF TypeOK, TickType
  <2>3. OneAtATime' /\ NothingSentYet' /\ EndIsNext'
    BY DEF OneAtATime, NothingSentYet, EndIsNext, Sending
  <2>4. tick.at = Free
    BY DEF Watch
  <2>5. CursorTells'
    BY <2>4 DEF CursorTells, Sending, SentUpTo
  <2>6. BehindPeak' /\ StandsUntilBegun'
    BY <2>4 DEF BehindPeak, InTick, StandsUntilBegun
  <2> QED
    BY <2>2, <2>3, <2>5, <2>6
<1> QED
  BY <1>3, <1>4

LEMMA CommandStartsClockStep == ASSUME IInv, CommandStartsClock PROVE IInv'
<1> USE ReplayAssumption DEF CommandStartsClock, IInv, Rows, Free, watched
<1>1. TypeOK'
  <2>1. clock' \in ClockType
    BY StartLemma DEF TypeOK, ClockType
  <2>2. command' \in [at: {Free, "clock", "cursor"}, target: Rows]
    BY DEF TypeOK
  <2>3. tick' \in TickType
    BY DEF TypeOK, TickType
  <2>4. count' \in [Rows -> 0..2] /\ cursor' \in 0..(End + 1) /\ peak' \in Rows
    BY StartLemma DEF TypeOK, TickType
  <2> QED
    BY <2>1, <2>2, <2>3, <2>4 DEF TypeOK, ClockType, TickType
<1>2. OneAtATime'
  BY DEF OneAtATime
<1>3. NothingSentYet'
  <2>1. command'.target = command.target /\ raced' = (raced \/ tick.at # Free)
    BY DEF TypeOK
  <2> QED
    BY <2>1 DEF NothingSentYet, SentUpTo
<1>4. EndIsNext'
  BY DEF EndIsNext, Sending, TypeOK
<1>5. CursorTells'
  BY DEF CursorTells
<1>6. StandsUntilBegun'
  BY DEF StandsUntilBegun, TypeOK
<1>7. BehindPeak'
  <2>1. clock'.sim = peak' /\ peak' \in Int
    BY SMTT(30), StartLemma DEF TypeOK
  <2>2. ~raced' => \A r \in Rows : count'[r] = 0
    BY SMTT(30), StartLemma DEF NothingSentYet, SentUpTo, TypeOK
  <2>3. ~raced' => tick'.at = Free
    OBVIOUS
  <2> QED
    BY <2>1, <2>2, <2>3 DEF BehindPeak, InTick
<1> QED
  BY <1>1, <1>2, <1>3, <1>4, <1>5, <1>6, <1>7

LEMMA CommandSetsCursorStep == ASSUME IInv, CommandSetsCursor PROVE IInv'
<1> USE ReplayAssumption DEF CommandSetsCursor, IInv, Rows, Free, watched
<1>1. TypeOK'
  <2>1. clock' \in ClockType
    BY StartLemma DEF TypeOK, ClockType
  <2>2. command' \in [at: {Free, "clock", "cursor"}, target: Rows]
    BY DEF TypeOK
  <2>3. tick' \in TickType
    BY DEF TypeOK, TickType
  <2>4. count' \in [Rows -> 0..2] /\ cursor' \in 0..(End + 1) /\ peak' \in Rows
    <3>1. WarmupFrom(command.target) \in Rows
      BY StartLemma DEF TypeOK
    <3> QED
      BY <3>1 DEF TypeOK
  <2> QED
    BY <2>1, <2>2, <2>3, <2>4 DEF TypeOK, ClockType, TickType
<1>2. OneAtATime'
  BY DEF OneAtATime
<1>3. NothingSentYet'
  BY DEF OneAtATime, NothingSentYet, SentUpTo
<1>4. EndIsNext'
  BY DEF EndIsNext, Sending, TypeOK
<1>5. CursorTells'
  BY DEF TypeOK, OneAtATime, NothingSentYet, CursorTells, SentUpTo, Sending
<1>6. StandsUntilBegun'
  BY DEF StandsUntilBegun, TypeOK
<1>7. BehindPeak'
  BY DEF BehindPeak, InTick
<1> QED
  BY <1>1, <1>2, <1>3, <1>4, <1>5, <1>6, <1>7

(* What changes the clock alone, and neither starts it nor moves it on,    *)
(* keeps every fact about the rows.                                        *)
LEMMA ClockOnlyStep ==
  ASSUME IInv, TypeOK', UNCHANGED <<begun, cursor, tick, command, ghosts>>,
         clock'.sim <= clock.sim, clock.state = "stopped" => clock'.state = "stopped"
  PROVE  IInv'
<1> USE DEF IInv, ghosts
<1>1. OneAtATime' /\ EndIsNext' /\ StandsUntilBegun'
  BY DEF OneAtATime, EndIsNext, Sending, StandsUntilBegun
<1>2. NothingSentYet' /\ CursorTells'
  BY DEF NothingSentYet, CursorTells, SentUpTo, Sending
<1>3. BehindPeak'
  <2>1. clock.sim \in Int /\ clock'.sim \in Int /\ peak \in Int
    BY DEF TypeOK, Rows
  <2> QED
    BY <2>1 DEF BehindPeak, InTick
<1> QED
  BY <1>1, <1>2, <1>3

LEMMA PauseStep == ASSUME IInv, Pause PROVE IInv'
<1>1. TypeOK'
  BY DEF IInv, TypeOK, Pause, watched, ghosts
<1> QED
  BY <1>1, ClockOnlyStep DEF Pause, IInv, TypeOK, Rows

LEMMA ResumeStep == ASSUME IInv, Resume PROVE IInv'
<1> USE DEF Resume
<1>1. PICK sim \in {clock.sim, clock.sim - 1} :
        /\ sim # clock.sim => clock.warm # None /\ sim >= clock.warm
        /\ clock' = [clock EXCEPT !.state = "running", !.sim = sim]
  OBVIOUS
<1>2. sim \in Rows /\ sim <= clock.sim
  BY SMTT(30), <1>1, ReplayAssumption DEF IInv, TypeOK, Rows
<1>3. clock' \in ClockType /\ clock'.sim = sim
  BY <1>1, <1>2 DEF IInv, TypeOK, ClockType
<1>4. TypeOK'
  BY <1>3 DEF IInv, TypeOK, ClockType, watched, ghosts
<1> QED
  BY <1>2, <1>3, <1>4, ClockOnlyStep

LEMMA SetSpeedStep == ASSUME IInv, SetSpeed PROVE IInv'
<1>1. TypeOK'
  BY DEF IInv, TypeOK, SetSpeed, watched, ghosts
<1> QED
  BY <1>1, ClockOnlyStep DEF SetSpeed, IInv, TypeOK, Rows

LEMMA LinksChangeStep == ASSUME IInv, LinksChange PROVE IInv'
<1>1. TypeOK'
  BY DEF IInv, TypeOK, LinksChange, engine, ghosts
<1> QED
  BY <1>1, ClockOnlyStep DEF LinksChange, IInv, TypeOK, Rows, engine

LEMMA TickIdleStep == ASSUME IInv, TickIdle PROVE IInv'
<1> USE ReplayAssumption DEF TickIdle, IInv, Rows, Free, engine, watched, ghosts
<1>1. TypeOK'
  BY SMTT(30), StartLemma DEF TypeOK
<1>2. OneAtATime'
  BY DEF OneAtATime
<1>3. NothingSentYet'
  BY DEF OneAtATime, NothingSentYet, SentUpTo
<1>4. EndIsNext'
  BY DEF EndIsNext, Sending, TypeOK
<1>5. CursorTells'
  BY DEF CursorTells, SentUpTo, Sending
<1>6. StandsUntilBegun'
  BY DEF StandsUntilBegun, TypeOK
<1>7. BehindPeak'
  BY DEF BehindPeak, InTick
<1> QED
  BY <1>1, <1>2, <1>3, <1>4, <1>5, <1>6, <1>7

LEMMA TickReadsClockStep == ASSUME IInv, TickReadsClock PROVE IInv'
<1> USE ReplayAssumption DEF TickReadsClock, IInv, Rows, Free, Overlapped, watched
<1>1. TypeOK'
  BY StartLemma DEF TypeOK
<1>2. OneAtATime'
  BY DEF OneAtATime
<1>3. NothingSentYet'
  BY DEF OneAtATime, NothingSentYet, SentUpTo
<1>4. EndIsNext'
  BY DEF EndIsNext, Sending, TypeOK
<1>5. CursorTells'
  BY DEF TypeOK, CursorTells, SentUpTo, Sending
<1>6. StandsUntilBegun'
  BY DEF StandsUntilBegun, TypeOK
<1>7. BehindPeak'
  BY DEF TypeOK, StandsUntilBegun, BehindPeak
<1> QED
  BY <1>1, <1>2, <1>3, <1>4, <1>5, <1>6, <1>7

LEMMA TickPlansStep == ASSUME IInv, TickPlans PROVE IInv'
<1> USE ReplayAssumption DEF TickPlans, IInv, Rows, Free, Overlapped, engine, watched
<1>1. TypeOK'
  <2>1. clock' \in ClockType
    BY StartLemma DEF TypeOK, ClockType
  <2>2. command' \in [at: {Free, "clock", "cursor"}, target: Rows]
    BY DEF TypeOK
  <2>3. tick' \in TickType
    <3>1. tick.now + 1 \in 0..(End + 1) /\ cursor \in 0..(End + 1)
      BY SMTT(30) DEF TypeOK
    <3> QED
      BY <3>1 DEF TypeOK, TickType
  <2>4. count' \in [Rows -> 0..2] /\ cursor' \in 0..(End + 1) /\ peak' \in Rows
    BY StartLemma DEF TypeOK, TickType
  <2> QED
    BY <2>1, <2>2, <2>3, <2>4 DEF TypeOK, ClockType, TickType
<1>2. OneAtATime'
  BY DEF OneAtATime
<1>3. NothingSentYet'
  BY DEF OneAtATime, NothingSentYet, SentUpTo
<1>4. EndIsNext'
  BY DEF EndIsNext, Sending, TypeOK
<1>5. CursorTells'
  BY SMTT(30) DEF TypeOK, CursorTells, SentUpTo, Sending
<1>6. StandsUntilBegun'
  BY DEF StandsUntilBegun, TypeOK
<1>7. BehindPeak'
  BY DEF TypeOK, BehindPeak, InTick
<1> QED
  BY <1>1, <1>2, <1>3, <1>4, <1>5, <1>6, <1>7

LEMMA TickSendsStep == ASSUME IInv, TickSends PROVE IInv'
<1> USE ReplayAssumption DEF TickSends, IInv, Rows, Free, Overlapped, engine, watched
<1>1. TypeOK'
  <2>1. clock' \in ClockType
    BY StartLemma DEF TypeOK, ClockType
  <2>2. command' \in [at: {Free, "clock", "cursor"}, target: Rows]
    BY DEF TypeOK
  <2>3. tick' \in TickType
    <3>1. tick.next + 1 \in 0..(End + 1)
      BY SMTT(30) DEF TypeOK
    <3> QED
      BY <3>1 DEF TypeOK, TickType
  <2>4. count' \in [Rows -> 0..2] /\ cursor' \in 0..(End + 1) /\ peak' \in Rows
    BY SMTT(30), StartLemma DEF TypeOK, TickType
  <2> QED
    BY <2>1, <2>2, <2>3, <2>4 DEF TypeOK, ClockType, TickType
<1>2. OneAtATime'
  BY DEF OneAtATime
<1>3. NothingSentYet'
  BY DEF OneAtATime, NothingSentYet, SentUpTo
<1>4. EndIsNext'
  BY DEF EndIsNext, Sending, TypeOK
<1>5. CursorTells'
  <2>1. ASSUME ~raced' PROVE command.at = Free /\ ~raced
    BY <2>1
  <2>2. ASSUME ~raced' PROVE SentUpTo(tick.next)'
    <3>1. SentUpTo(tick.next) /\ from <= tick.next
      BY SMTT(30), <2>1, <2>2 DEF CursorTells, Sending, TypeOK
    <3>2. tick'.next = tick.next + 1 /\ tick.next \in Rows
      BY SMTT(30) DEF TypeOK
    <3>3. count[tick.next] = 0
      BY <3>1, <3>2 DEF SentUpTo
    <3>4. count' = [count EXCEPT ![tick.next] = 1]
      BY <3>3
    <3>5. count \in [Rows -> Int] /\ from \in Int /\ from' = from
      BY DEF TypeOK
    <3> QED
      BY SMTT(30), <3>1, <3>2, <3>4, <3>5 DEF SentUpTo
  <2>3. tick'.next = tick.next + 1 /\ tick'.end = tick.end /\ tick'.at = "send"
    BY DEF TypeOK
  <2>4. ASSUME ~raced' PROVE cursor' <= tick'.next /\ tick'.next <= tick'.end
    BY SMTT(30), <2>1, <2>3, <2>4 DEF CursorTells, Sending, TypeOK
  <2> QED
    BY <2>1, <2>2, <2>3, <2>4 DEF CursorTells, Sending
<1>6. StandsUntilBegun'
  BY DEF StandsUntilBegun, TypeOK
<1>7. BehindPeak'
  BY SMTT(30) DEF TypeOK, EndIsNext, Sending, BehindPeak, InTick
<1> QED
  BY <1>1, <1>2, <1>3, <1>4, <1>5, <1>6, <1>7

LEMMA TickReadsCursorStep == ASSUME IInv, TickReadsCursor PROVE IInv'
<1> USE ReplayAssumption DEF TickReadsCursor, IInv, Rows, Free, Overlapped, engine, watched
<1>1. TypeOK'
  BY ZenonT(30), StartLemma DEF TypeOK
<1>2. OneAtATime'
  BY DEF OneAtATime
<1>3. NothingSentYet'
  BY DEF OneAtATime, NothingSentYet, SentUpTo
<1>4. EndIsNext'
  BY DEF EndIsNext, Sending, TypeOK
<1>5. CursorTells'
  BY SMTT(30) DEF TypeOK, CursorTells, SentUpTo, Sending
<1>6. StandsUntilBegun'
  BY DEF StandsUntilBegun, TypeOK
<1>7. BehindPeak'
  BY DEF TypeOK, BehindPeak, InTick
<1> QED
  BY <1>1, <1>2, <1>3, <1>4, <1>5, <1>6, <1>7

LEMMA TickStoresCursorStep == ASSUME IInv, TickStoresCursor PROVE IInv'
<1> USE ReplayAssumption DEF TickStoresCursor, IInv, Rows, Free, Overlapped, TickDone, watched
<1>1. TypeOK'
  BY StartLemma DEF TypeOK
<1>2. OneAtATime'
  BY DEF OneAtATime
<1>3. NothingSentYet'
  BY DEF OneAtATime, NothingSentYet, SentUpTo
<1>4. EndIsNext'
  BY DEF EndIsNext, Sending, TypeOK
<1>5. CursorTells'
  BY DEF TypeOK, CursorTells, SentUpTo, Sending
<1>6. StandsUntilBegun'
  BY DEF StandsUntilBegun, TypeOK
<1>7. BehindPeak'
  BY DEF BehindPeak, InTick
<1> QED
  BY <1>1, <1>2, <1>3, <1>4, <1>5, <1>6, <1>7

LEMMA TimePassesStep == ASSUME IInv, TimePasses PROVE IInv'
<1> USE ReplayAssumption DEF TimePasses, IInv, Rows, Free, watched
<1>1. TypeOK'
  <2>1. clock' \in ClockType
    <3>1. clock.sim + 1 \in Rows
      BY SMTT(30) DEF TypeOK
    <3> QED
      BY <3>1 DEF TypeOK, ClockType
  <2>2. command' \in [at: {Free, "clock", "cursor"}, target: Rows]
    BY DEF TypeOK
  <2>3. tick' \in TickType
    BY DEF TypeOK, TickType
  <2>4. count' \in [Rows -> 0..2] /\ cursor' \in 0..(End + 1) /\ peak' \in Rows
    BY SMTT(30), StartLemma DEF TypeOK, TickType
  <2> QED
    BY <2>1, <2>2, <2>3, <2>4 DEF TypeOK, ClockType, TickType
<1>2. OneAtATime'
  BY DEF OneAtATime
<1>3. NothingSentYet'
  BY DEF OneAtATime, NothingSentYet, SentUpTo
<1>4. EndIsNext'
  BY DEF EndIsNext, Sending, TypeOK
<1>5. CursorTells'
  BY DEF CursorTells, SentUpTo, Sending
<1>6. StandsUntilBegun'
  BY DEF StandsUntilBegun, TypeOK
<1>7. BehindPeak'
  BY SMTT(30) DEF TypeOK, BehindPeak, InTick
<1> QED
  BY <1>1, <1>2, <1>3, <1>4, <1>5, <1>6, <1>7

LEMMA FinishLoopStep == ASSUME IInv, FinishLoop PROVE IInv'
<1> USE ReplayAssumption DEF FinishLoop, TickDone, IInv
<1>1. tick' \in TickType /\ tick'.at = Free /\ UNCHANGED <<loop, command, watched>>
  BY DEF TickType, Rows
<1>2. CASE loop
  <2>1. Preset \in Rows
    BY DEF Rows
  <2> QED
    BY <1>1, <1>2, <2>1, BeginStep DEF TypeOK, watched
<1>3. CASE ~loop
  <2> USE <1>1, <1>3 DEF Overlapped, watched, Free
  <2>1. TypeOK'
    <3>1. clock' \in ClockType /\ cursor' \in 0..(End + 1)
      BY DEF TypeOK, ClockType
    <3> QED
      BY <3>1 DEF TypeOK, ClockType, TickType
  <2>2. OneAtATime' /\ NothingSentYet' /\ EndIsNext'
    BY DEF OneAtATime, NothingSentYet, EndIsNext, Sending
  <2>3. CursorTells'
    <3>1. ASSUME ~raced'
          PROVE  SentUpTo(tick.next) /\ from <= cursor /\ cursor <= tick.next
                 /\ tick.store = tick.next
      BY <3>1 DEF CursorTells, Sending
    <3>2. ASSUME ~raced' PROVE SentUpTo(cursor)' /\ from' <= cursor'
      <4>1. cursor' = tick.next /\ UNCHANGED <<from, count>>
        BY <3>1, <3>2
      <4>2. from \in Int /\ cursor \in Int /\ tick.next \in Int
        BY DEF TypeOK, Rows
      <4> QED
        BY <3>1, <3>2, <4>1, <4>2 DEF SentUpTo
    <3> QED
      BY <3>2 DEF CursorTells, Sending
  <2>4. BehindPeak' /\ StandsUntilBegun'
    BY DEF BehindPeak, InTick, StandsUntilBegun, TypeOK
  <2> QED
    BY <2>1, <2>2, <2>3, <2>4
<1> QED
  BY <1>2, <1>3

LEMMA CommandBeginsStep ==
  ASSUME IInv, NEW target \in Rows, CommandBegins(target)
  PROVE  IInv'
<1> USE ReplayAssumption DEF CommandBegins, NewSession, IInv, Free
<1>1. /\ WarmupFrom(target) \in Rows
      /\ command' = [at |-> "clock", target |-> target]
  BY StartLemma
<1>2. TypeOK'
  <2>1. command' \in [at: {Free, "clock", "cursor"}, target: Rows]
    BY <1>1
  <2>2. count' \in [Rows -> 0..2] /\ raced' \in BOOLEAN
    OBVIOUS
  <2> QED
    BY <1>1, <2>1, <2>2 DEF TypeOK, watched
<1>3. SentUpTo(from)'
  BY <1>1 DEF SentUpTo, Rows
<1>4. command'.at = "clock" /\ command'.target = target
  BY <1>1
<1>5. OneAtATime' /\ NothingSentYet'
  BY <1>3, <1>4 DEF OneAtATime, NothingSentYet
<1>6. EndIsNext' /\ CursorTells' /\ StandsUntilBegun'
  BY <1>4 DEF EndIsNext, Sending, CursorTells, StandsUntilBegun
<1>7. BehindPeak'
  <2>1. \A r \in Rows : count'[r] = 0
    OBVIOUS
  <2>2. ~raced' => tick'.at = Free
    OBVIOUS
  <2> QED
    BY <1>4, <2>1, <2>2 DEF BehindPeak, InTick
<1> QED
  BY <1>2, <1>5, <1>6, <1>7

LEMMA NextStep == IInv /\ [Next]_vars => IInv'
<1> SUFFICES ASSUME IInv, [Next]_vars PROVE IInv'
  OBVIOUS
<1>1. CASE UNCHANGED vars
  BY <1>1 DEF vars, engine, watched, ghosts, IInv, TypeOK, OneAtATime, NothingSentYet, EndIsNext,
     CursorTells, StandsUntilBegun, BehindPeak, SentUpTo, Sending, InTick
<1>2. ASSUME NEW target \in SeekTo \cup {Preset}, CommandBegins(target) PROVE IInv'
  BY <1>2, CommandBeginsStep, ReplayAssumption DEF Rows
<1> QED
  BY <1>1, <1>2, AutostartStep, CommandStartsClockStep, CommandSetsCursorStep, PauseStep,
     ResumeStep, SetSpeedStep, WatchStep, TickIdleStep, TickReadsClockStep, TickPlansStep,
     TickSendsStep, TickReadsCursorStep, TickStoresCursorStep, FinishLoopStep, TimePassesStep,
     LinksChangeStep DEF Next

LEMMA Invariant == Spec => []IInv
  BY InitStep, NextStep, PTL DEF Spec

(* Every variable of the engine keeps its type.                            *)
THEOREM TypeCorrect == Spec => []TypeOK
<1>1. IInv => TypeOK
  BY DEF IInv
<1> QED
  BY <1>1, Invariant, PTL

(* As long as no command overlaps a tick, a session sends every row from   *)
(* its start to the cursor exactly once and none ahead of its time, over   *)
(* pauses, seeks, loops and returns of the backend (engine.py).            *)
THEOREM RowsOnce == Spec => []EveryRowOnce
<1>1. IInv => EveryRowOnce
  BY DEF IInv, EveryRowOnce, CursorTells, BehindPeak, SentUpTo, Sending, Free
<1> QED
  BY <1>1, Invariant, PTL

-----------------------------------------------------------------------------
(* The session the backend keeps.                                          *)

Busy == worker.at # "idle"
WaitsInTime == latest # Nothing /\ ~latest.old

(* A function under way reports a session that has begun.                  *)
CallsInSession ==
  \A c \in Callers :
    /\ ~At(c, "idle") => sid # 0
    /\ At(c, "push") => caller[c].sid \in 1..sid

(* What the reporter holds is of a session the replayer has begun, and the *)
(* payload of the worker is not newer than one that waits behind it, unless *)
(* that one was out of date when it was pushed.  What was given up is late. *)
ReportsInOrder ==
  /\ latest # Nothing => latest \in Payload /\ latest.sid <= sid
  /\ Busy => worker.payload \in Payload /\ worker.payload.sid <= sid
  /\ WaitsInTime /\ Busy => worker.payload.sid <= latest.sid
  /\ \A p \in delayed : p.old

(* Since its last late POST the backend has not seen a session that is     *)
(* newer than what will be posted next, but for what is itself late.       *)
NothingNewerSeen ==
  \A s \in seen :
    /\ s <= sid
    /\ WaitsInTime => s <= latest.sid
    /\ Busy /\ ~worker.payload.old => s <= worker.payload.sid

(* A session of the replayer that the backend is in is the newest of those *)
(* seen since the last late POST.                                          *)
InNewestSeen ==
  /\ backend.sid = NoSession => seen = {}
  /\ backend.sid \in Int /\ seen # {} => backend.sid \in seen /\ \A s \in seen : s <= backend.sid

(* Before its first session the replayer stands.                           *)
StandsBeforeFirst == sid = 0 => state = "stopped"

SessionInv ==
  LinkTypeOK /\ CallsInSession /\ ReportsInOrder /\ NothingNewerSeen /\ InNewestSeen
    /\ StandsBeforeFirst

-----------------------------------------------------------------------------
LEMMA SessionInit == LinkInit => SessionInv
<1> SUFFICES ASSUME LinkInit PROVE SessionInv
  OBVIOUS
<1> USE LinkAssumption DEF LinkInit
<1>1. MaxSid \in Nat /\ MaxFrames \in Nat
  OBVIOUS
<1>2. NoCall \in Call
  BY <1>1 DEF NoCall, CallAt, Call, States
<1>3. LinkTypeOK
  <2>1. worker \in [at: {"idle", "took", "posting"}, payload: Payload \cup {Nothing}]
    OBVIOUS
  <2>2. backend \in [sid: 1..MaxSid \cup {AutoSid, NoSession}, state: States]
    BY DEF States
  <2>3. sid \in 0..MaxSid /\ state \in States /\ frames \in 0..MaxFrames
    BY <1>1 DEF States
  <2>4. caller \in [Callers -> Call]
    BY <1>2
  <2> QED
    BY <2>1, <2>2, <2>3, <2>4 DEF LinkTypeOK
<1>4. CallsInSession
  BY DEF CallsInSession, At, NoCall, CallAt
<1>5. ReportsInOrder /\ NothingNewerSeen /\ InNewestSeen /\ StandsBeforeFirst
  BY DEF ReportsInOrder, NothingNewerSeen, InNewestSeen, StandsBeforeFirst, Busy, WaitsInTime
<1> QED
  BY <1>3, <1>4, <1>5 DEF SessionInv

(* What the calls under way look like after one of them has gone on.       *)
LEMMA CallGoesOn ==
  ASSUME LinkTypeOK, CallsInSession, NEW c \in Callers, NEW call \in Call, GoesTo(c, call),
         sid' \in 0..MaxSid, sid <= sid',
         call.at # "idle" => sid' # 0, call.at = "push" => call.sid \in 1..sid'
  PROVE  caller' \in [Callers -> Call] /\ CallsInSession'
<1> USE LinkAssumption DEF LinkTypeOK, GoesTo
<1>1. caller' \in [Callers -> Call]
  OBVIOUS
<1>2. \A d \in Callers : caller'[d] = IF d = c THEN call ELSE caller[d]
  OBVIOUS
<1>3. sid \in Nat /\ sid' \in Nat
  OBVIOUS
<1>4. ASSUME NEW d \in Callers
      PROVE  (~At(d, "idle"))' => sid' # 0
  BY <1>2, <1>3, <1>4 DEF At, CallsInSession
<1>5. ASSUME NEW d \in Callers, At(d, "push")'
      PROVE  caller'[d].sid \in 1..sid'
  <2>1. CASE d = c
    BY <1>2, <1>5, <2>1 DEF At
  <2>2. CASE d # c
    <3>1. caller'[d] = caller[d] /\ At(d, "push")
      BY <1>2, <1>5, <2>2 DEF At
    <3>2. caller[d].sid \in 1..sid
      BY <3>1 DEF CallsInSession
    <3> QED
      BY <1>3, <3>1, <3>2
  <2> QED
    BY <2>1, <2>2
<1> QED
  BY <1>1, <1>4, <1>5 DEF CallsInSession

(* A newer session does not disturb what is on its way.                    *)
LEMMA CallStep ==
  ASSUME SessionInv, NEW c \in Callers, NEW call \in Call, GoesTo(c, call),
         sid' \in 0..MaxSid, sid <= sid', sid' # 0, state' \in States,
         call.at = "push" => call.sid \in 1..sid', UNCHANGED <<reporter, frames, backendVars>>
  PROVE  SessionInv'
<1> USE LinkAssumption DEF SessionInv, reporter, backendVars
<1>1. caller' \in [Callers -> Call] /\ CallsInSession'
  BY CallGoesOn
<1>2. LinkTypeOK'
  BY <1>1 DEF LinkTypeOK
<1>3. sid \in Int /\ sid' \in Int /\ seen \subseteq Int
  BY DEF LinkTypeOK
<1>4. \A p \in Payload : p.sid \in Int
  BY DEF Payload
<1>5. ReportsInOrder'
  BY <1>3, <1>4 DEF ReportsInOrder, Busy, WaitsInTime
<1>6. \A s \in seen : s <= sid'
  BY <1>3 DEF NothingNewerSeen
<1>7. UNCHANGED <<latest, worker, seen>>
  OBVIOUS
<1>8. NothingNewerSeen'
  BY <1>6, <1>7, Zenon DEF NothingNewerSeen, Busy, WaitsInTime
<1> QED
  BY <1>1, <1>2, <1>5, <1>8 DEF InNewestSeen, StandsBeforeFirst

LEMMA CallForms ==
  ASSUME NEW place \in {"idle", "start", "report"}, NEW again \in BOOLEAN
  PROVE  CallAt(place, again) \in Call /\ CallAt(place, again).at = place
<1>1. 0 \in 0..MaxSid
  BY LinkAssumption
<1> QED
  BY <1>1 DEF Call, CallAt, States

LEMMA StartStep ==
  ASSUME SessionInv,
         \/ \E c \in Callers : BeginSession(c) \/ StartsClock(c) \/ ReadsSession(c)
         \/ \E t \in Threads : PauseOrResume(t)
         \/ StopAtEnd \/ Heartbeat
  PROVE  SessionInv'
<1> USE LinkAssumption DEF SessionInv
<1>1. sid \in 0..MaxSid /\ state \in States /\ MaxSid \in Nat
  BY DEF LinkTypeOK
<1>2. "running" \in States /\ "paused" \in States /\ "stopped" \in States
  BY DEF States
<1>3. ASSUME NEW c \in Callers, BeginSession(c) PROVE SessionInv'
  <2>0. sid < MaxSid /\ sid' = sid + 1
    BY <1>3, Zenon DEF BeginSession
  <2>1. sid' \in 0..MaxSid /\ sid <= sid' /\ sid' # 0
    BY <1>1, <2>0
  <2>2. (c \in Threads) \in BOOLEAN
    OBVIOUS
  <2>3. PICK again \in BOOLEAN : again = (c \in Threads)
    BY <2>2
  <2>4. PICK call \in Call : GoesTo(c, call) /\ call.at = "start"
    BY <1>3, <2>3, CallForms DEF BeginSession
  <2> QED
    BY <1>1, <1>3, <2>1, <2>4, CallStep DEF BeginSession
<1>4. ASSUME NEW c \in Callers, StartsClock(c) PROVE SessionInv'
  <2>1. caller[c] \in Call /\ caller[c].again \in BOOLEAN
    BY DEF LinkTypeOK, Call
  <2>2. PICK call \in Call : GoesTo(c, call) /\ call.at = "report"
    BY <1>4, <2>1, CallForms DEF StartsClock
  <2>3. sid # 0
    BY <1>4 DEF StartsClock, CallsInSession, At
  <2> QED
    BY <1>1, <1>2, <1>4, <2>2, <2>3, CallStep DEF StartsClock
<1>5. ASSUME NEW c \in Callers, ReadsSession(c) PROVE SessionInv'
  <2> DEFINE call == [caller[c] EXCEPT !.at = "push", !.sid = sid, !.state = state]
  <2>0. sid # 0
    BY <1>5 DEF ReadsSession, CallsInSession, At
  <2>1. sid # 0 /\ sid \in 1..sid
    BY <1>1, <2>0
  <2>2. call \in Call /\ call.sid = sid
    BY <1>1 DEF LinkTypeOK, Call
  <2>3. GoesTo(c, call) /\ UNCHANGED <<replayer, reporter, frames, backendVars>>
    BY <1>5 DEF ReadsSession
  <2> HIDE DEF call
  <2> QED
    BY <1>1, <2>1, <2>2, <2>3, CallStep DEF replayer
<1>6. ASSUME NEW c \in Callers, sid # 0, sid' = sid, state' \in States,
             GoesTo(c, CallAt("report", FALSE)), UNCHANGED <<reporter, frames, backendVars>>
      PROVE  SessionInv'
  <2>1. PICK call \in Call : GoesTo(c, call) /\ call.at = "report"
    BY <1>6, CallForms
  <2> QED
    BY <1>1, <1>6, <2>1, CallStep
<1>7. ASSUME NEW t \in Threads, PauseOrResume(t) PROVE SessionInv'
  BY <1>2, <1>6, <1>7 DEF PauseOrResume, Callers
<1>8. CASE StopAtEnd
  BY <1>2, <1>6, <1>8 DEF StopAtEnd, Callers, StandsBeforeFirst
<1>9. CASE Heartbeat
  BY <1>1, <1>6, <1>9 DEF Heartbeat, Callers, replayer
<1> QED
  BY <1>3, <1>4, <1>5, <1>7, <1>8, <1>9

(* A report may replace the one that waits; it is late when its session is *)
(* not the present one any more.                                           *)
LEMMA PushStep == ASSUME SessionInv, NEW c \in Callers, Pushes(c) PROVE SessionInv'
<1> USE LinkAssumption DEF SessionInv
<1>1. PICK st \in {caller[c].state, state} :
        latest' = [sid |-> caller[c].sid, state |-> st, old |-> caller[c].sid # sid]
  BY DEF Pushes
<1>2. UNCHANGED <<sid, state, worker, delayed, frames, backend, seen>>
  BY DEF Pushes, replayer, backendVars
<1>3. caller[c] \in Call /\ caller[c].sid \in 1..sid /\ sid \in 1..MaxSid
  BY DEF Pushes, CallsInSession, At, LinkTypeOK
<1>4. caller[c].sid \in 1..MaxSid /\ st \in States
  BY <1>1, <1>3 DEF LinkTypeOK, Call
<1>5. latest' \in Payload /\ latest'.sid <= sid /\ (~latest'.old => latest'.sid = sid)
  <2>1. PICK old \in BOOLEAN : old = (caller[c].sid # sid)
    OBVIOUS
  <2>2. latest' = [sid |-> caller[c].sid, state |-> st, old |-> old]
    BY <1>1, <2>1, Zenon
  <2>3. latest' \in Payload
    BY <1>4, <2>2 DEF Payload
  <2>4. latest'.sid = caller[c].sid /\ latest'.old = old
    BY <2>2
  <2>5. caller[c].sid <= sid
    BY <1>3 DEF LinkTypeOK
  <2>6. CASE caller[c].sid = sid
    BY <2>3, <2>4, <2>5, <2>6
  <2>7. CASE caller[c].sid # sid
    <3>1. old = TRUE
      BY <2>1, <2>7
    <3> QED
      BY <2>3, <2>4, <2>5, <3>1
  <2> QED
    BY <2>6, <2>7
<1>6. PICK call \in Call : GoesTo(c, call) /\ call.at # "push"
  BY <1>3, CallForms DEF Pushes, NoCall, Call
<1>7. caller' \in [Callers -> Call] /\ CallsInSession'
  BY <1>2, <1>3, <1>6, CallGoesOn
<1>8. LinkTypeOK'
  BY <1>2, <1>5, <1>7 DEF LinkTypeOK
<1>9. ReportsInOrder'
  BY <1>2, <1>5 DEF ReportsInOrder, Busy, WaitsInTime
<1>10. NothingNewerSeen'
  BY <1>2, <1>5 DEF NothingNewerSeen, Busy, WaitsInTime
<1> QED
  BY <1>2, <1>7, <1>8, <1>9, <1>10 DEF InNewestSeen, StandsBeforeFirst

(* What the worker does with a payload, but for handing it over.           *)
LEMMA WorkerStep ==
  ASSUME SessionInv, WorkerTakes \/ WorkerClears \/ PostLost \/ PostGivenUp
  PROVE  SessionInv'
<1> USE LinkAssumption DEF SessionInv
<1>1. UNCHANGED <<sid, state, caller, frames, backend, seen>>
  BY DEF WorkerTakes, WorkerClears, PostLost, PostGivenUp, replayer, backendVars
<1>2. CallsInSession' /\ InNewestSeen' /\ StandsBeforeFirst'
  BY <1>1 DEF CallsInSession, At, InNewestSeen, StandsBeforeFirst
<1>3. CASE WorkerTakes
  <2> USE <1>1, <1>3 DEF WorkerTakes
  <2>1. worker' = [at |-> "took", payload |-> latest] /\ latest \in Payload
    BY DEF ReportsInOrder
  <2>2. \A p \in Payload : p.sid \in Int
    BY DEF Payload
  <2>3. LinkTypeOK'
    BY <2>1 DEF LinkTypeOK
  <2>4. ReportsInOrder' /\ NothingNewerSeen'
    BY <2>1, <2>2 DEF ReportsInOrder, NothingNewerSeen, Busy, WaitsInTime
  <2> QED
    BY <1>2, <2>3, <2>4
<1>4. CASE WorkerClears
  <2> USE <1>1, <1>4 DEF WorkerClears
  <2>1. LinkTypeOK'
    BY DEF LinkTypeOK
  <2>2. worker'.payload = worker.payload /\ worker.at # "idle"
    BY DEF LinkTypeOK
  <2>3. ReportsInOrder' /\ NothingNewerSeen'
    BY <2>2 DEF ReportsInOrder, NothingNewerSeen, Busy, WaitsInTime
  <2> QED
    BY <1>2, <2>1, <2>3
<1>5. CASE PostLost \/ PostGivenUp
  <2>1. WorkerFree /\ UNCHANGED latest /\ Busy
    BY <1>5 DEF PostLost, PostGivenUp, Busy
  <2>2. worker.payload \in Payload
    BY <2>1 DEF ReportsInOrder
  <2> DEFINE given == [worker.payload EXCEPT !.old = TRUE]
  <2>3. given \in Payload /\ given.old
    BY <2>2 DEF Payload
  <2>4. delayed' \subseteq delayed \cup {given}
    BY <1>5 DEF PostLost, PostGivenUp
  <2> HIDE DEF given
  <2> USE <1>1, <2>1, <2>3, <2>4 DEF WorkerFree
  <2>5. LinkTypeOK'
    BY DEF LinkTypeOK
  <2>6. ReportsInOrder' /\ NothingNewerSeen'
    BY DEF ReportsInOrder, NothingNewerSeen, Busy, WaitsInTime
  <2> QED
    BY <1>2, <2>5, <2>6
<1> QED
  BY <1>3, <1>4, <1>5

(* What a handled POST leaves: the backend is in its session.              *)
LEMMA AppliedLemma ==
  ASSUME SessionInv, NEW p \in Payload, ApplySession(p)
  PROVE  /\ backend' \in [sid: 1..MaxSid \cup {AutoSid, NoSession}, state: States]
         /\ backend'.sid = p.sid /\ p.sid \in 1..MaxSid
         /\ frames' \in 0..MaxFrames
         /\ seen' \subseteq 1..MaxSid /\ seen' = IF p.old THEN {} ELSE seen \cup {p.sid}
<1> USE LinkAssumption DEF SessionInv, LinkTypeOK, ApplySession
<1>1. backend'.sid = p.sid /\ p.sid \in 1..MaxSid /\ p.state \in States
  BY DEF Payload
<1>2. frames' \in 0..MaxFrames
  <2>1. frames \in 0..MaxFrames /\ MaxFrames \in Nat /\ frames' \in 0..frames \cup {frames}
    OBVIOUS
  <2> QED
    BY <2>1
<1> QED
  BY <1>1, <1>2

LEMMA PostHandledStep == ASSUME SessionInv, PostHandled PROVE SessionInv'
<1> DEFINE p == worker.payload
<1> USE LinkAssumption DEF SessionInv, PostHandled, WorkerFree, replayer
<1>1. Busy /\ p \in Payload /\ p.sid \in Int /\ p.sid <= sid
  BY DEF ReportsInOrder, Busy, Payload
<1>2. /\ backend'.sid = p.sid /\ seen' = IF p.old THEN {} ELSE seen \cup {p.sid}
      /\ backend' \in [sid: 1..MaxSid \cup {AutoSid, NoSession}, state: States]
      /\ frames' \in 0..MaxFrames /\ seen' \subseteq 1..MaxSid
      /\ p.sid \in 1..MaxSid
  BY <1>1, AppliedLemma
<1>3. worker' = [at |-> "idle", payload |-> Nothing]
  OBVIOUS
<1>4. UNCHANGED <<sid, state, caller, latest, delayed>>
  OBVIOUS
<1>5. ~p.old => /\ WaitsInTime => p.sid <= latest.sid
                /\ \A s \in seen : s <= p.sid
  BY <1>1 DEF ReportsInOrder, NothingNewerSeen
<1> HIDE DEF p, PostHandled
<1>6. LinkTypeOK'
  BY <1>2, <1>3, <1>4 DEF LinkTypeOK
<1>7. CallsInSession' /\ ReportsInOrder' /\ StandsBeforeFirst'
  BY <1>3, <1>4 DEF CallsInSession, At, ReportsInOrder, StandsBeforeFirst, Busy, WaitsInTime
<1>8. NothingNewerSeen'
  <2>1. CASE p.old
    BY <1>2, <2>1 DEF NothingNewerSeen
  <2>2. CASE ~p.old
    BY <1>1, <1>2, <1>3, <1>4, <1>5, <2>2 DEF NothingNewerSeen, Busy, WaitsInTime
  <2> QED
    BY <2>1, <2>2
<1>9. InNewestSeen'
  BY <1>1, <1>2, <1>5 DEF InNewestSeen
<1> QED
  BY <1>6, <1>7, <1>8, <1>9

LEMMA DelayedStep ==
  ASSUME SessionInv, NEW p \in delayed, DelayedHandled(p) \/ DelayedLost(p)
  PROVE  SessionInv'
<1> USE LinkAssumption DEF SessionInv, replayer
<1>1. p \in Payload /\ p.old /\ p.sid \in Int
  BY DEF LinkTypeOK, ReportsInOrder, Payload
<1>2. UNCHANGED <<sid, state, caller, latest, worker>> /\ delayed' \subseteq delayed
  BY DEF DelayedHandled, DelayedLost
<1>3. CallsInSession' /\ ReportsInOrder' /\ StandsBeforeFirst'
  BY <1>2 DEF CallsInSession, At, ReportsInOrder, StandsBeforeFirst, Busy, WaitsInTime
<1>4. CASE DelayedHandled(p)
  <2>1. /\ backend'.sid = p.sid /\ seen' = {}
        /\ backend' \in [sid: 1..MaxSid \cup {AutoSid, NoSession}, state: States]
        /\ frames' \in 0..MaxFrames
    BY <1>1, <1>4, AppliedLemma DEF DelayedHandled
  <2>2. LinkTypeOK'
    BY <1>2, <2>1 DEF LinkTypeOK
  <2> QED
    BY <1>3, <2>1, <2>2 DEF NothingNewerSeen, InNewestSeen
<1>5. CASE DelayedLost(p)
  BY <1>2, <1>3, <1>5 DEF DelayedLost, backendVars, LinkTypeOK, NothingNewerSeen, InNewestSeen,
     Busy, WaitsInTime
<1> QED
  BY <1>4, <1>5

(* Frames, and what happens to all of the backend.                         *)
LEMMA BackendStep ==
  ASSUME SessionInv, FrameSent \/ FrameArrives \/ BackendRestarts
  PROVE  SessionInv'
<1> USE LinkAssumption DEF SessionInv, replayer, reporter
<1>1. UNCHANGED <<sid, state, caller, latest, worker>>
  BY DEF FrameSent, FrameArrives, BackendRestarts
<1>2. frames \in 0..MaxFrames /\ MaxFrames \in Nat
  BY DEF LinkTypeOK
<1>3. CallsInSession' /\ StandsBeforeFirst'
  BY <1>1 DEF CallsInSession, At, StandsBeforeFirst
<1>4. CASE FrameSent
  <2>1. UNCHANGED <<delayed, backend, seen>> /\ frames' \in 0..MaxFrames
    BY <1>2, <1>4 DEF FrameSent, backendVars
  <2>2. LinkTypeOK'
    BY <1>1, <2>1 DEF LinkTypeOK
  <2> QED
    BY <1>1, <1>3, <2>1, <2>2 DEF ReportsInOrder, NothingNewerSeen, InNewestSeen, Busy, WaitsInTime
<1>5. CASE FrameArrives
  <2>1. UNCHANGED <<delayed, seen>> /\ frames' \in 0..MaxFrames
    BY <1>2, <1>5 DEF FrameArrives
  <2>2. LinkTypeOK'
    BY <1>1, <1>5, <2>1 DEF FrameArrives, LinkTypeOK, States
  <2>3. ReportsInOrder' /\ NothingNewerSeen'
    BY <1>1, <2>1 DEF ReportsInOrder, NothingNewerSeen, Busy, WaitsInTime
  <2>4. InNewestSeen'
    <3>1. CASE backend' = backend
      BY <2>1, <3>1 DEF InNewestSeen
    <3>2. CASE backend' = [sid |-> AutoSid, state |-> "running"]
      <4>1. backend'.sid \notin Int /\ backend'.sid # NoSession
        BY <3>2
      <4> QED
        BY <4>1 DEF InNewestSeen
    <3> QED
      BY <1>5, <3>1, <3>2 DEF FrameArrives
  <2> QED
    BY <1>3, <2>2, <2>3, <2>4
<1>6. CASE BackendRestarts
  <2>1. backend' = [sid |-> NoSession, state |-> "stopped"] /\ seen' = {}
        /\ frames' = 0 /\ delayed' = {}
    BY <1>6 DEF BackendRestarts
  <2>2. backend' \in [sid: 1..MaxSid \cup {AutoSid, NoSession}, state: States]
    BY <2>1 DEF States
  <2>3. LinkTypeOK'
    BY <1>1, <1>2, <2>1, <2>2 DEF LinkTypeOK
  <2> QED
    BY <1>1, <1>3, <2>1, <2>3 DEF ReportsInOrder, NothingNewerSeen, InNewestSeen, Busy, WaitsInTime
<1> QED
  BY <1>4, <1>5, <1>6

LEMMA SessionNext == SessionInv /\ [LinkNext]_linkVars => SessionInv'
<1> SUFFICES ASSUME SessionInv, [LinkNext]_linkVars PROVE SessionInv'
  OBVIOUS
<1>1. CASE UNCHANGED linkVars
  BY <1>1 DEF linkVars, replayer, reporter, backendVars, SessionInv, LinkTypeOK, CallsInSession, At,
     ReportsInOrder, NothingNewerSeen, InNewestSeen, StandsBeforeFirst, Busy, WaitsInTime
<1> QED
  BY <1>1, StartStep, PushStep, WorkerStep, PostHandledStep, DelayedStep, BackendStep DEF LinkNext

LEMMA SessionInvariant == LinkSpec => []SessionInv
  BY SessionInit, SessionNext, PTL DEF LinkSpec

-----------------------------------------------------------------------------
(* The reporter, its callers, the frames and the backend keep their types. *)
THEOREM SessionTypes == LinkSpec => []LinkTypeOK
<1>1. SessionInv => LinkTypeOK
  BY DEF SessionInv
<1> QED
  BY <1>1, SessionInvariant, PTL

(* A POST that wipes a session the backend has seen since its last late    *)
(* POST is itself late, or finds a session that a frame has started.       *)
LEMMA WipeStep ==
  ASSUME SessionInv, [LinkNext]_linkVars
  PROVE  WipesForCause
<1> SUFFICES ASSUME NEW p \in delayed \cup {worker.payload}, Handled(p), IsNew(p),
                    p.sid \in seen, ~p.old
             PROVE  backend.sid = AutoSid
  BY DEF WipesForCause
<1> USE LinkAssumption DEF SessionInv
<1>1. PostHandled /\ p = worker.payload
  BY DEF Handled, ReportsInOrder
<1>2. Busy /\ p \in Payload /\ p.sid \in Int
  BY <1>1 DEF PostHandled, ReportsInOrder, Busy, Payload
<1>3. seen \subseteq Int /\ \A s \in seen : s <= p.sid
  BY <1>1, <1>2 DEF NothingNewerSeen, LinkTypeOK
<1>4. p.sid # backend.sid
  BY DEF IsNew
<1>5. backend.sid \notin Int
  BY <1>2, <1>3, <1>4 DEF InNewestSeen
<1>6. backend.sid # NoSession
  BY DEF InNewestSeen
<1>7. backend.sid \in 1..MaxSid \cup {AutoSid, NoSession} /\ 1..MaxSid \subseteq Int
  BY DEF LinkTypeOK
<1> QED
  BY <1>5, <1>6, <1>7

(* Without a late POST, a session the backend has once started is begun    *)
(* anew only after a frame has started one by itself: heartbeats, pauses,  *)
(* stops, lost POSTs and the reports of several threads never wipe it      *)
(* (runtime.py, apply_session; session.py, push).                          *)
THEOREM WipedRarely == LinkSpec => WipedOnceUnlessAuto
<1>1. SessionInv /\ [LinkNext]_linkVars => [WipesForCause]_linkVars
  BY WipeStep
<1> QED
  BY <1>1, SessionInvariant, PTL DEF LinkSpec, WipedOnceUnlessAuto
=============================================================================
