--------------------------- MODULE MlService_proofs ---------------------------
(***************************************************************************)
(* The forecasting service for any number of threads that reload, of       *)
(* trainings, crashes and rows: what is served never goes back, what the   *)
(* calibration promises of its intervals holds for the rows it came from,  *)
(* and the report judges a row by intervals that have not seen it.         *)
(*                                                                         *)
(* The first follows from an invariant.  The models on disk are those of   *)
(* the newest training that wrote any, no calibration that may yet be read *)
(* is older than one that was, one thread reads at a time, and so what it  *)
(* has read is not older than what is served meanwhile.                    *)
(***************************************************************************)
EXTENDS MlService, FiniteSetTheorems, WellFoundedInduction, TLAPS

Loaded == [mode: Modes, model: Nat, cal: Nat, scale: Nat, print: Nat]
Load == [at: Nat \ {0}, metrics: Nat, lm: SUBSET Loaded, models: SUBSET Loaded]
Writes == [file: Files, holds: Nat, atomic: BOOLEAN]

TypeOK ==
  /\ disk \in [Files -> Nat \cup {Torn}]
  /\ job \in Seq(Writes)
  /\ runs \in 0..MaxTrainings
  /\ oof \in Seq(AllRows) /\ Len(oof) <= runs
  /\ up \in {"down", "starting", "up"}
  /\ reg \in [models: SUBSET Loaded]
  /\ loads \in [Callers -> Load \cup {NoLoad}]
  /\ crashes \in Nat

(* A write in place is that of a model, and models are written by the      *)
(* newest training.                                                        *)
ModelsAreNewest ==
  /\ \A i \in DOMAIN job : \A m \in Modes :
       job[i].file = Model(m) => job[i].atomic /\ job[i].holds = runs
  /\ \A m \in Modes : disk[Model(m)] # Torn /\ disk[Model(m)] <= runs

(* No calibration that is read or written from now on is older than n.     *)
NothingOlder(n, m) ==
  /\ n <= Len(oof)
  /\ \A f \in {Cal(m), Oof(m)} :
       /\ disk[f] # Absent /\ disk[f] # Torn => n <= disk[f]
       /\ \A i \in DOMAIN job : job[i].file = f => n <= job[i].holds

(* A calibration is written beside the rows it came from. *)
RowsFirst ==
  \A m \in Modes :
    /\ disk[Oof(m)] <= Len(oof)
    /\ disk[Cal(m)] # Torn => NothingOlder(disk[Cal(m)], m)
    /\ \A i \in DOMAIN job : job[i].file \in {Cal(m), Oof(m)} =>
         /\ job[i].holds <= Len(oof)
         /\ \A j \in DOMAIN job : job[j].file \in {Cal(m), Oof(m)} => job[j].holds = job[i].holds
    /\ \A i \in DOMAIN job : job[i].file = Cal(m) =>
         disk[Oof(m)] = job[i].holds \/ \E j \in 1..(i - 1) : job[j].file = Oof(m)

(* RELOAD_LOCK. *)
OneLoads ==
  /\ \A c, d \in Callers : Loading(c) /\ Loading(d) => c = d
  /\ up = "down" => \A c \in Callers : ~Loading(c)

(* What is served or read was on disk before. *)
Held == reg.models \cup UNION {loads[c].lm \cup loads[c].models : c \in {d \in Callers : Loading(d)}}
HeldIsPast ==
  \A lm \in Held :
    /\ lm.model <= disk[Model(lm.mode)] /\ lm.print <= disk[Model(lm.mode)]
    /\ NothingOlder(lm.cal, lm.mode)

(* What is being read may take the place of what is served. *)
NoOlder(old, new) ==
  old.mode = new.mode =>
    /\ old.model <= new.model
    /\ new.cal = Absent \/ old.cal <= new.cal

LoadsNewer ==
  \A c \in Callers : Loading(c) =>
    /\ \A old \in reg.models, new \in loads[c].lm \cup loads[c].models : NoOlder(old, new)
    /\ \A old \in reg.models, new \in loads[c].models : old.mode = new.mode => old.print <= new.print

(* A model is loaded with the calibration and the fingerprint of its mode. *)
InOrder(l) ==
  /\ \A lm \in l.lm : \/ l.at \in {4, 5} /\ lm.mode = "stream"
                      \/ l.at \in {7, 8} /\ lm.mode = "submission"
  /\ l.at \in {4, 5, 7, 8} => l.lm # {}
ReadsInOrder == \A c \in Callers : Loading(c) => InOrder(loads[c])

IInv ==
  TypeOK /\ ModelsAreNewest /\ RowsFirst /\ OneLoads /\ HeldIsPast /\ LoadsNewer /\ ReadsInOrder

-----------------------------------------------------------------------------
(* The files of the directory are different ones. *)
LEMMA FilesAre ==
  /\ Features \in Files /\ Metrics \in Files
  /\ \A m \in Modes :
       /\ Model(m) \in Files /\ Cal(m) \in Files /\ Oof(m) \in Files
       /\ \A n \in Modes :
            /\ Model(m) # Cal(n) /\ Model(m) # Oof(n) /\ Cal(m) # Oof(n)
            /\ Model(m) # Features /\ Cal(m) # Features /\ Oof(m) # Features
            /\ Model(m) # Metrics /\ Cal(m) # Metrics /\ Oof(m) # Metrics
            /\ m # n => Model(m) # Model(n) /\ Cal(m) # Cal(n) /\ Oof(m) # Oof(n)
<1>1. \A m \in Modes : Model(m) \in Files /\ Cal(m) \in Files /\ Oof(m) \in Files
  <2> TAKE m \in Modes
  <2> DEFINE fs == {[k \in Modes |-> Model(k)], [k \in Modes |-> Cal(k)], [k \in Modes |-> Oof(k)]}
  <2>1. \A f \in fs : f[m] \in Files
    BY DEF Files
  <2>2. QED
    BY <2>1
<1>2. Features \in Files /\ Metrics \in Files
  BY DEF Files
<1>3. QED
  BY <1>1, <1>2 DEF Model, Cal, Oof, Features, Metrics, Modes

LEMMA WriteIs ==
  ASSUME NEW f \in Files, NEW n \in Nat
  PROVE  /\ Write(f, n) \in Writes /\ Write(f, n).file = f /\ Write(f, n).holds = n
         /\ (\E m \in Modes : f = Model(m)) => Write(f, n).atomic
<1>1. (f[1] = "model") \in BOOLEAN
  OBVIOUS
<1>2. Write(f, n) \in Writes
  BY <1>1, Zenon DEF Write, Writes
<1>3. Write(f, n).file = f /\ Write(f, n).holds = n /\ Write(f, n).atomic = (f[1] = "model")
  BY Zenon DEF Write
<1>4. \A m \in Modes : f = Model(m) => f[1] = "model"
  BY DEF Model
<1>5. QED
  BY <1>2, <1>3, <1>4, Zenon

(* Nothing is on disk, nothing is served. *)
LEMMA InitIInv == Init => IInv
<1> SUFFICES ASSUME Init PROVE IInv
  OBVIOUS
<1>1. TypeOK
  BY MlAssumption DEF Init, TypeOK, NoRegistry, Absent
<1>2. \A m \in Modes : disk[Model(m)] = 0 /\ disk[Cal(m)] = 0 /\ disk[Oof(m)] = 0
  BY FilesAre DEF Init, Absent
<1>3. job = <<>> /\ oof = <<>> /\ reg.models = {} /\ \A c \in Callers : ~Loading(c)
  BY DEF Init, NoRegistry, Loading
<1>4. ModelsAreNewest
  BY <1>1, <1>2, <1>3 DEF ModelsAreNewest, TypeOK, Torn
<1>5. RowsFirst
  BY <1>2, <1>3 DEF RowsFirst, NothingOlder, Torn, Absent
<1>6. Held = {}
  BY <1>3 DEF Held
<1>7. QED
  BY <1>1, <1>3, <1>4, <1>5, <1>6 DEF IInv, OneLoads, HeldIsPast, LoadsNewer, ReadsInOrder

-----------------------------------------------------------------------------
(* The write that is next.                                                 *)
LEMMA FirstWrite ==
  ASSUME TypeOK, job # <<>>
  PROVE  /\ 1 \in DOMAIN job /\ Head(job) = job[1]
         /\ job[1].file \in Files /\ job[1].holds \in Nat
<1>1. job \in Seq(Writes)
  BY DEF TypeOK
<1>2. 1 \in DOMAIN job /\ Head(job) = job[1] /\ job[1] \in Writes
  BY <1>1
<1>3. QED
  BY <1>2 DEF Writes

(* A step of the trainer leaves what is served and read as it is.          *)
LEMMA TrainerKeeps ==
  ASSUME IInv, UNCHANGED service, TypeOK', ModelsAreNewest', RowsFirst',
         \A m \in Modes : disk[Model(m)] <= disk'[Model(m)],
         \A n \in Nat, m \in Modes : NothingOlder(n, m) => NothingOlder(n, m)'
  PROVE  IInv'
<1>1. Held' = Held /\ UNCHANGED <<up, reg, loads>>
  BY DEF service, Held, Loading
<1>2. Held \subseteq Loaded
  BY DEF IInv, TypeOK, Held, Loading, Load
<1>3. HeldIsPast'
  <2> SUFFICES ASSUME NEW lm \in Held
               PROVE  /\ lm.model <= disk'[Model(lm.mode)] /\ lm.print <= disk'[Model(lm.mode)]
                      /\ NothingOlder(lm.cal, lm.mode)'
    BY <1>1 DEF HeldIsPast
  <2>1. lm.mode \in Modes /\ lm.model \in Nat /\ lm.cal \in Nat /\ lm.print \in Nat
    BY <1>2 DEF Loaded
  <2>2. /\ lm.model <= disk[Model(lm.mode)] /\ lm.print <= disk[Model(lm.mode)]
        /\ NothingOlder(lm.cal, lm.mode)
    BY DEF IInv, HeldIsPast
  <2>3. disk[Model(lm.mode)] \in Int /\ disk'[Model(lm.mode)] \in Int
    BY <2>1, FilesAre DEF IInv, TypeOK, Torn
  <2>4. disk[Model(lm.mode)] <= disk'[Model(lm.mode)]
    BY <2>1
  <2>5. NothingOlder(lm.cal, lm.mode)'
    BY <2>1, <2>2
  <2>6. QED
    BY <2>1, <2>2, <2>3, <2>4, <2>5
<1>4. OneLoads' /\ LoadsNewer' /\ ReadsInOrder'
  BY <1>1 DEF IInv, OneLoads, LoadsNewer, ReadsInOrder, Loading
<1>5. QED
  BY <1>3, <1>4 DEF IInv

(* The steps of the trainer.                                               *)
LEMMA StartFullStep == ASSUME IInv, StartFull PROVE IInv'
<1> DEFINE n == Len(oof) + 1
           ws == <<Write(Oof("submission"), n), Write(Cal("submission"), n),
                   Write(Oof("stream"), n), Write(Cal("stream"), n),
                   Write(Model("submission"), runs + 1), Write(Model("stream"), runs + 1),
                   Write(Features, n), Write(Metrics, n)>>
<1>1. PICK rows \in Drawn[Len(oof) + 1] : oof' = Append(oof, rows)
  BY DEF StartFull
<1>2. /\ job = <<>> /\ runs < MaxTrainings /\ job' = ws /\ runs' = runs + 1
      /\ disk' = disk /\ UNCHANGED service
  BY DEF StartFull, Starts, Idle
<1>3. "submission" \in Modes /\ "stream" \in Modes /\ \A m \in Modes : m = "submission" \/ m = "stream"
  BY DEF Modes
<1>4. /\ runs \in Nat /\ Len(oof) \in Nat /\ Len(oof) <= runs
      /\ MaxTrainings \in Nat /\ n \in Nat /\ n \in 1..MaxTrainings
  BY <1>2, MlAssumption DEF IInv, TypeOK
<1>5. /\ Oof("submission") \in Files /\ Cal("submission") \in Files
      /\ Oof("stream") \in Files /\ Cal("stream") \in Files
      /\ Model("submission") \in Files /\ Model("stream") \in Files
      /\ Features \in Files /\ Metrics \in Files
  BY <1>3, FilesAre
<1>6. rows \in AllRows
  BY <1>1, <1>4, MlAssumption DEF AllRows
<1>7. oof' \in Seq(AllRows) /\ Len(oof') = n
  BY <1>1, <1>6 DEF IInv, TypeOK
<1>8. ws \in Seq(Writes) /\ DOMAIN ws = 1..8
  BY <1>4, <1>5, WriteIs
<1>9. /\ ws[1].file = Oof("submission") /\ ws[1].holds = n
      /\ ws[2].file = Cal("submission") /\ ws[2].holds = n
      /\ ws[3].file = Oof("stream") /\ ws[3].holds = n
      /\ ws[4].file = Cal("stream") /\ ws[4].holds = n
      /\ ws[5].file = Model("submission") /\ ws[5].holds = runs + 1 /\ ws[5].atomic
      /\ ws[6].file = Model("stream") /\ ws[6].holds = runs + 1 /\ ws[6].atomic
      /\ ws[7].file = Features /\ ws[8].file = Metrics
  BY <1>3, <1>4, <1>5, WriteIs
<1>10. \A i \in DOMAIN ws : i = 1 \/ i = 2 \/ i = 3 \/ i = 4 \/ i = 5 \/ i = 6 \/ i = 7 \/ i = 8
  BY <1>8
<1> HIDE DEF ws
<1>11. TypeOK'
  BY <1>2, <1>4, <1>7, <1>8 DEF IInv, TypeOK, service
<1>12. \A i \in DOMAIN ws : \A m \in Modes :
         /\ ws[i].file = Model(m) => ws[i].atomic /\ ws[i].holds = runs + 1
         /\ ws[i].file \in {Cal(m), Oof(m)} => ws[i].holds = n
  BY <1>3, <1>9, <1>10, FilesAre
<1>13. \A i \in DOMAIN ws : \A m \in Modes : ws[i].file = Cal(m) =>
         \E j \in 1..(i - 1) : ws[j].file = Oof(m)
  <2> SUFFICES ASSUME NEW i \in DOMAIN ws, NEW m \in Modes, ws[i].file = Cal(m)
               PROVE  \E j \in 1..(i - 1) : ws[j].file = Oof(m)
    OBVIOUS
  <2>1. (i = 2 /\ m = "submission") \/ (i = 4 /\ m = "stream")
    <3>1. /\ Cal(m) # Oof("submission") /\ Cal(m) # Oof("stream")
          /\ Cal(m) # Model("submission") /\ Cal(m) # Model("stream")
          /\ Cal(m) # Features /\ Cal(m) # Metrics
          /\ m # "submission" => Cal(m) # Cal("submission")
          /\ m # "stream" => Cal(m) # Cal("stream")
      BY <1>3, FilesAre
    <3>2. i # 1 /\ i # 3 /\ i # 5 /\ i # 6 /\ i # 7 /\ i # 8
      BY <1>9, <3>1
    <3>3. (i = 2 => m = "submission") /\ (i = 4 => m = "stream")
      BY <1>9, <3>1
    <3>4. QED
      BY <1>10, <3>2, <3>3
  <2>2. CASE i = 2 /\ m = "submission"
    BY <1>9, <2>2
  <2>3. CASE i = 4 /\ m = "stream"
    BY <1>9, <2>3
  <2>4. QED
    BY <2>1, <2>2, <2>3
<1>14. ModelsAreNewest'
  <2>1. \A m \in Modes : disk[Model(m)] \in Int
    BY FilesAre DEF IInv, TypeOK, Torn
  <2>2. QED
    BY <1>2, <1>4, <1>12, <2>1 DEF IInv, ModelsAreNewest
<1>15. ASSUME NEW k \in Nat, NEW m \in Modes, NothingOlder(k, m) PROVE NothingOlder(k, m)'
  BY <1>2, <1>4, <1>7, <1>12, <1>15 DEF NothingOlder
<1>16. RowsFirst'
  <2> SUFFICES ASSUME NEW m \in Modes
               PROVE  /\ disk[Oof(m)] <= n
                      /\ disk[Cal(m)] # Torn => NothingOlder(disk[Cal(m)], m)'
    BY <1>2, <1>4, <1>7, <1>12, <1>13 DEF RowsFirst
  <2>1. disk[Oof(m)] \in Int /\ disk[Cal(m)] \in Nat \cup {Torn}
    BY FilesAre DEF IInv, TypeOK, Torn
  <2>2. disk[Oof(m)] <= Len(oof) /\ (disk[Cal(m)] # Torn => NothingOlder(disk[Cal(m)], m))
    BY DEF IInv, RowsFirst
  <2>3. ASSUME disk[Cal(m)] # Torn PROVE NothingOlder(disk[Cal(m)], m)'
    <3>1. PICK k \in Nat : k = disk[Cal(m)]
      BY <2>1, <2>3
    <3>2. NothingOlder(k, m)'
      BY <1>15, <2>2, <2>3, <3>1
    <3>3. k = disk'[Cal(m)]
      BY <1>2, <3>1
    <3>4. QED
      BY <3>2, <3>3 DEF NothingOlder
  <2>4. QED
    BY <1>4, <2>1, <2>2, <2>3
<1>17. \A m \in Modes : disk[Model(m)] <= disk'[Model(m)]
  BY <1>2, FilesAre DEF IInv, TypeOK, Torn
<1>18. QED
  BY <1>2, <1>11, <1>14, <1>15, <1>16, <1>17, TrainerKeeps

LEMMA StartRefitStep == ASSUME IInv, StartRefit PROVE IInv'
<1> DEFINE ws == <<Write(Model("submission"), runs + 1), Write(Model("stream"), runs + 1),
                   Write(Metrics, disk[Metrics])>>
<1>1. /\ job = <<>> /\ runs < MaxTrainings /\ job' = ws /\ runs' = runs + 1
      /\ disk' = disk /\ oof' = oof /\ UNCHANGED service
      /\ disk[Metrics] # Absent /\ disk[Metrics] # Torn
  BY DEF StartRefit, Starts, Idle, Readable
<1>2. "submission" \in Modes /\ "stream" \in Modes
  BY DEF Modes
<1>3. /\ Model("submission") \in Files /\ Model("stream") \in Files /\ Metrics \in Files
  BY <1>2, FilesAre
<1>4. runs \in Nat /\ Len(oof) \in Nat /\ MaxTrainings \in Nat /\ disk[Metrics] \in Nat
  BY <1>1, <1>3, MlAssumption DEF IInv, TypeOK
<1>5. ws \in Seq(Writes) /\ DOMAIN ws = 1..3
  BY <1>3, <1>4, WriteIs
<1>6. /\ ws[1].file = Model("submission") /\ ws[1].holds = runs + 1 /\ ws[1].atomic
      /\ ws[2].file = Model("stream") /\ ws[2].holds = runs + 1 /\ ws[2].atomic
      /\ ws[3].file = Metrics
  BY <1>2, <1>3, <1>4, WriteIs
<1>7. \A i \in DOMAIN ws : i = 1 \/ i = 2 \/ i = 3
  BY <1>5
<1> HIDE DEF ws
<1>8. TypeOK'
  BY <1>1, <1>4, <1>5 DEF IInv, TypeOK, service
<1>9. \A i \in DOMAIN ws : \A m \in Modes :
        /\ ws[i].file = Model(m) => ws[i].atomic /\ ws[i].holds = runs + 1
        /\ ws[i].file # Cal(m) /\ ws[i].file # Oof(m)
  BY <1>2, <1>6, <1>7, FilesAre
<1>10. ModelsAreNewest'
  <2>1. \A m \in Modes : disk[Model(m)] \in Int
    BY FilesAre DEF IInv, TypeOK, Torn
  <2>2. QED
    BY <1>1, <1>4, <1>9, <2>1 DEF IInv, ModelsAreNewest
<1>11. \A k \in Nat, m \in Modes : NothingOlder(k, m) => NothingOlder(k, m)'
  BY <1>1, <1>9 DEF NothingOlder
<1>12. RowsFirst'
  BY <1>1, <1>9 DEF IInv, RowsFirst, NothingOlder
<1>13. \A m \in Modes : disk[Model(m)] <= disk'[Model(m)]
  BY <1>1, FilesAre DEF IInv, TypeOK, Torn
<1>14. QED
  BY <1>1, <1>8, <1>10, <1>11, <1>12, <1>13, TrainerKeeps

(* What a new calibration of a mode is written from.                       *)
LEMMA RedoIs ==
  ASSUME IInv, NEW m \in Modes, disk[Oof(m)] # Torn, disk[Oof(m)] # Absent
  PROVE  /\ disk[Oof(m)] \in Nat
         /\ Write(Cal(m), disk[Oof(m)]) \in Writes
         /\ Write(Cal(m), disk[Oof(m)]).file = Cal(m)
         /\ Write(Cal(m), disk[Oof(m)]).holds = disk[Oof(m)]
  BY FilesAre, WriteIs DEF IInv, TypeOK

LEMMA RecalibrateStep == ASSUME IInv, Recalibrate PROVE IInv'
<1> DEFINE Redo(m) == IF disk[Oof(m)] = Absent THEN <<>> ELSE <<Write(Cal(m), disk[Oof(m)])>>
           mets == <<Write(Metrics, disk[Metrics])>>
<1>1. /\ job = <<>> /\ runs < MaxTrainings /\ runs' = runs + 1
      /\ disk' = disk /\ oof' = oof /\ UNCHANGED service
      /\ disk[Metrics] # Absent /\ disk[Metrics] # Torn
  BY DEF Recalibrate, Starts, Idle, Readable
<1>2. \/ job' = <<>>
      \/ disk[Oof("submission")] # Torn /\ job' = Redo("submission")
      \/ /\ disk[Oof("submission")] # Torn /\ disk[Oof("stream")] # Torn
         /\ job' = Redo("submission") \o Redo("stream") \o mets
  BY DEF Recalibrate, Starts
<1>3. "submission" \in Modes /\ "stream" \in Modes /\ "submission" # "stream"
  BY DEF Modes
<1>4. /\ runs \in Nat /\ Len(oof) \in Nat /\ MaxTrainings \in Nat
      /\ Metrics \in Files /\ disk[Metrics] \in Nat
  BY <1>1, FilesAre, MlAssumption DEF IInv, TypeOK
<1>5. /\ mets \in Seq(Writes) /\ Len(mets) = 1 /\ mets[1].file = Metrics
  BY <1>4, WriteIs
<1>6. ASSUME NEW m \in Modes, disk[Oof(m)] # Torn
      PROVE  /\ Redo(m) \in Seq(Writes)
             /\ \/ Len(Redo(m)) = 0
                \/ /\ Len(Redo(m)) = 1 /\ disk[Oof(m)] # Absent
                   /\ Redo(m)[1].file = Cal(m) /\ Redo(m)[1].holds = disk[Oof(m)]
  BY <1>6, RedoIs
<1>7. /\ job' \in Seq(Writes)
      /\ \A i \in DOMAIN job' :
           \/ job'[i].file = Metrics
           \/ \E m \in Modes : /\ disk[Oof(m)] # Torn /\ disk[Oof(m)] # Absent
                               /\ job'[i].file = Cal(m) /\ job'[i].holds = disk[Oof(m)]
  <2> HIDE DEF Redo, mets
  <2>1. CASE job' = <<>>
    BY <2>1
  <2>2. CASE disk[Oof("submission")] # Torn /\ job' = Redo("submission")
    BY <1>3, <1>6, <2>2
  <2>3. CASE /\ disk[Oof("submission")] # Torn /\ disk[Oof("stream")] # Torn
             /\ job' = Redo("submission") \o Redo("stream") \o mets
    <3>1. job' \in Seq(Writes)
      BY <1>3, <1>5, <1>6, <2>3
    <3>2. \A s, t \in Seq(Writes) : \A i \in DOMAIN (s \o t) :
            \/ i \in DOMAIN s /\ (s \o t)[i] = s[i]
            \/ i - Len(s) \in DOMAIN t /\ (s \o t)[i] = t[i - Len(s)]
      OBVIOUS
    <3> DEFINE both == Redo("submission") \o Redo("stream")
    <3>3. both \in Seq(Writes)
      BY <1>3, <1>6, <2>3
    <3>4. \A i \in DOMAIN both :
            \/ i \in DOMAIN Redo("submission") /\ both[i] = Redo("submission")[i]
            \/ \E j \in DOMAIN Redo("stream") : both[i] = Redo("stream")[j]
      BY <1>3, <1>6, <2>3, <3>2
    <3> HIDE DEF both
    <3>5. \A i \in DOMAIN job' :
            \/ i \in DOMAIN both /\ job'[i] = both[i]
            \/ \E j \in DOMAIN mets : job'[i] = mets[j]
      BY <1>5, <2>3, <3>2, <3>3 DEF both
    <3>6. \A j \in DOMAIN mets : mets[j].file = Metrics
      BY <1>5
    <3>7. ASSUME NEW m \in Modes, disk[Oof(m)] # Torn, NEW j \in DOMAIN Redo(m)
          PROVE  /\ disk[Oof(m)] # Absent
                 /\ Redo(m)[j].file = Cal(m) /\ Redo(m)[j].holds = disk[Oof(m)]
      BY <1>6, <3>7
    <3>8. SUFFICES ASSUME NEW i \in DOMAIN job'
                   PROVE  \/ job'[i].file = Metrics
                          \/ \E m \in Modes : /\ disk[Oof(m)] # Torn /\ disk[Oof(m)] # Absent
                                              /\ job'[i].file = Cal(m) /\ job'[i].holds = disk[Oof(m)]
      BY <3>1
    <3>9. CASE \E j \in DOMAIN mets : job'[i] = mets[j]
      BY <3>6, <3>9
    <3>10. CASE i \in DOMAIN Redo("submission") /\ job'[i] = Redo("submission")[i]
      BY <1>3, <2>3, <3>7, <3>10
    <3>11. CASE \E j \in DOMAIN Redo("stream") : job'[i] = Redo("stream")[j]
      BY <1>3, <2>3, <3>7, <3>11
    <3>12. QED
      BY <3>4, <3>5, <3>9, <3>10, <3>11
  <2>4. QED
    BY <1>2, <2>1, <2>2, <2>3
<1> HIDE DEF Redo, mets
<1>8. TypeOK'
  BY <1>1, <1>4, <1>7 DEF IInv, TypeOK, service
<1>9. \A i \in DOMAIN job' : \A m \in Modes :
        /\ job'[i].file # Model(m) /\ job'[i].file # Oof(m)
        /\ job'[i].file = Cal(m) =>
             disk[Oof(m)] # Torn /\ disk[Oof(m)] # Absent /\ job'[i].holds = disk[Oof(m)]
  BY <1>7, FilesAre
<1>10. ModelsAreNewest'
  <2>1. \A m \in Modes : disk[Model(m)] \in Int
    BY FilesAre DEF IInv, TypeOK, Torn
  <2>2. QED
    BY <1>1, <1>4, <1>9, <2>1 DEF IInv, ModelsAreNewest
<1>11. \A k \in Nat, m \in Modes : NothingOlder(k, m) => NothingOlder(k, m)'
  BY <1>1, <1>9 DEF NothingOlder
<1>12. RowsFirst'
  <2> SUFFICES ASSUME NEW m \in Modes
               PROVE  disk[Cal(m)] # Torn => NothingOlder(disk[Cal(m)], m)'
    BY <1>1, <1>9 DEF IInv, RowsFirst
  <2>1. disk[Cal(m)] # Torn => NothingOlder(disk[Cal(m)], m)
    BY DEF IInv, RowsFirst
  <2>2. QED
    BY <1>1, <1>9, <2>1 DEF NothingOlder
<1>13. \A m \in Modes : disk[Model(m)] <= disk'[Model(m)]
  BY <1>1, FilesAre DEF IInv, TypeOK, Torn
<1>14. QED
  BY <1>1, <1>8, <1>10, <1>11, <1>12, <1>13, TrainerKeeps

LEMMA WriteStartsStep == ASSUME IInv, WriteStarts PROVE IInv'
<1> DEFINE f == Head(job).file
<1>1. /\ job # <<>> /\ ~Head(job).atomic /\ disk' = [disk EXCEPT ![f] = Torn]
      /\ UNCHANGED <<job, runs, oof>> /\ UNCHANGED service
  BY DEF WriteStarts, Idle, trainer
<1>2. 1 \in DOMAIN job /\ Head(job) = job[1] /\ f \in Files
  BY <1>1, FirstWrite DEF IInv
<1>3. \A m \in Modes : f # Model(m)
  BY <1>1, <1>2 DEF IInv, ModelsAreNewest
<1> HIDE DEF f
<1>4. TypeOK' /\ \A g \in Files : g # f => disk'[g] = disk[g]
  BY <1>1, <1>2 DEF IInv, TypeOK, service
<1>5. disk'[f] = Torn
  BY <1>1, <1>2 DEF IInv, TypeOK
<1>6. \A m \in Modes : disk'[Model(m)] = disk[Model(m)] /\ disk[Model(m)] \in Int
  BY <1>3, <1>4, FilesAre DEF IInv, TypeOK, Torn
<1>7. ModelsAreNewest'
  BY <1>1, <1>6 DEF IInv, ModelsAreNewest
<1>8. \A k \in Nat, m \in Modes : NothingOlder(k, m) => NothingOlder(k, m)'
  BY <1>1, <1>4, <1>5, FilesAre DEF NothingOlder
<1>9. RowsFirst'
  <2>1. SUFFICES ASSUME NEW m \in Modes
        PROVE  /\ disk'[Oof(m)] <= Len(oof)
               /\ disk'[Cal(m)] # Torn => NothingOlder(disk[Cal(m)], m)'
               /\ \A i \in DOMAIN job : job[i].file = Cal(m) =>
                    disk'[Oof(m)] = job[i].holds \/ \E j \in 1..(i - 1) : job[j].file = Oof(m)
    BY <1>1 DEF IInv, RowsFirst
  <2>2. Oof(m) \in Files /\ Cal(m) \in Files /\ Len(oof) \in Nat
    BY FilesAre DEF IInv, TypeOK
  <2>3. disk'[Oof(m)] <= Len(oof)
    BY <1>4, <1>5, <2>2 DEF IInv, RowsFirst, Torn
  <2>4. ASSUME disk'[Cal(m)] # Torn PROVE NothingOlder(disk[Cal(m)], m)'
    <3>1. disk'[Cal(m)] = disk[Cal(m)] /\ disk[Cal(m)] # Torn
      BY <1>4, <1>5, <2>2, <2>4
    <3>2. PICK k \in Nat : k = disk[Cal(m)]
      BY <2>2, <3>1 DEF IInv, TypeOK
    <3>3. NothingOlder(k, m)'
      BY <1>8, <3>1, <3>2 DEF IInv, RowsFirst
    <3>4. QED
      BY <3>1, <3>2, <3>3 DEF NothingOlder
  <2>5. ASSUME NEW i \in DOMAIN job, job[i].file = Cal(m)
        PROVE  disk'[Oof(m)] = job[i].holds \/ \E j \in 1..(i - 1) : job[j].file = Oof(m)
    <3>1. CASE f # Oof(m)
      BY <1>4, <2>2, <2>5, <3>1 DEF IInv, RowsFirst
    <3>2. CASE f = Oof(m)
      <4>1. job[1].file = Oof(m) /\ i # 1
        BY <1>2, <2>5, <3>2, FilesAre DEF f
      <4>2. 1 \in 1..(i - 1)
        BY <2>5, <4>1 DEF IInv, TypeOK
      <4>3. QED
        BY <4>1, <4>2
    <3>3. QED
      BY <3>1, <3>2
  <2>6. QED
    BY <2>3, <2>4, <2>5
<1>10. \A m \in Modes : disk[Model(m)] <= disk'[Model(m)]
  BY <1>6
<1>11. QED
  BY <1>1, <1>4, <1>7, <1>8, <1>9, <1>10, TrainerKeeps

LEMMA WriteEndsStep == ASSUME IInv, WriteEnds PROVE IInv'
<1> DEFINE f == Head(job).file
           h == Head(job).holds
<1>1. /\ job # <<>> /\ disk' = [disk EXCEPT ![f] = h] /\ job' = Tail(job)
      /\ UNCHANGED <<runs, oof>> /\ UNCHANGED service
  BY DEF WriteEnds, Idle
<1>2. 1 \in DOMAIN job /\ f = job[1].file /\ h = job[1].holds /\ f \in Files /\ h \in Nat
  BY <1>1, FirstWrite DEF IInv
<1>3. /\ job' \in Seq(Writes)
      /\ \A i \in DOMAIN job' : i + 1 \in DOMAIN job /\ job'[i] = job[i + 1]
  BY <1>1 DEF IInv, TypeOK
<1> HIDE DEF f, h
<1>4. TypeOK' /\ disk'[f] = h /\ \A g \in Files : g # f => disk'[g] = disk[g]
  BY <1>1, <1>2, <1>3 DEF IInv, TypeOK, service
<1>5. \A m \in Modes : Model(m) \in Files /\ Cal(m) \in Files /\ Oof(m) \in Files
  BY FilesAre
<1>6. Len(oof) \in Nat /\ runs \in Nat
  BY DEF IInv, TypeOK
<1>7. ASSUME NEW m \in Modes
      PROVE  /\ disk'[Model(m)] # Torn /\ disk'[Model(m)] <= runs
             /\ disk[Model(m)] <= disk'[Model(m)]
  <2>1. disk[Model(m)] # Torn /\ disk[Model(m)] <= runs /\ disk[Model(m)] \in Nat
    BY <1>5 DEF IInv, ModelsAreNewest, TypeOK
  <2>2. f = Model(m) => h = runs
    BY <1>2 DEF IInv, ModelsAreNewest
  <2>3. QED
    BY <1>4, <1>5, <1>6, <2>1, <2>2 DEF Torn
<1>8. ModelsAreNewest'
  BY <1>1, <1>3, <1>7 DEF IInv, ModelsAreNewest
<1>9. ASSUME NEW k \in Nat, NEW m \in Modes, NothingOlder(k, m) PROVE NothingOlder(k, m)'
  BY <1>1, <1>2, <1>3, <1>4, <1>5, <1>9 DEF NothingOlder
<1>10. RowsFirst'
  <2>1. SUFFICES ASSUME NEW m \in Modes
        PROVE  /\ disk'[Oof(m)] <= Len(oof)
               /\ disk'[Cal(m)] # Torn => NothingOlder(disk[Cal(m)], m)'
               /\ \A i \in DOMAIN job' : job'[i].file \in {Cal(m), Oof(m)} =>
                    /\ job'[i].holds <= Len(oof)
                    /\ \A j \in DOMAIN job' : job'[j].file \in {Cal(m), Oof(m)} => job'[j].holds = job'[i].holds
               /\ \A i \in DOMAIN job' : job'[i].file = Cal(m) =>
                    disk'[Oof(m)] = job'[i].holds \/ \E j \in 1..(i - 1) : job'[j].file = Oof(m)
    BY <1>1 DEF RowsFirst
  <2>2. /\ disk[Oof(m)] <= Len(oof)
        /\ disk[Cal(m)] # Torn => NothingOlder(disk[Cal(m)], m)
        /\ \A i \in DOMAIN job : job[i].file \in {Cal(m), Oof(m)} =>
             /\ job[i].holds <= Len(oof)
             /\ \A j \in DOMAIN job : job[j].file \in {Cal(m), Oof(m)} => job[j].holds = job[i].holds
        /\ \A i \in DOMAIN job : job[i].file = Cal(m) =>
             disk[Oof(m)] = job[i].holds \/ \E j \in 1..(i - 1) : job[j].file = Oof(m)
    BY DEF IInv, RowsFirst
  <2>3. disk'[Oof(m)] <= Len(oof)
    BY <1>2, <1>4, <1>5, <2>2
  <2>4. ASSUME disk'[Cal(m)] # Torn PROVE NothingOlder(disk[Cal(m)], m)'
    <3>1. CASE f # Cal(m)
      <4>1. disk'[Cal(m)] = disk[Cal(m)] /\ disk[Cal(m)] # Torn
        BY <1>4, <1>5, <2>4, <3>1
      <4>2. PICK k \in Nat : k = disk[Cal(m)]
        BY <1>5, <4>1 DEF IInv, TypeOK
      <4>3. NothingOlder(k, m)'
        BY <1>9, <2>2, <4>1, <4>2
      <4>4. QED
        BY <4>1, <4>2, <4>3 DEF NothingOlder
    <3>2. CASE f = Cal(m)
      <4>1. disk'[Cal(m)] = h /\ Cal(m) # Oof(m)
        BY <1>4, <3>2, FilesAre
      <4>2. disk[Oof(m)] = h
        <5>1. job[1].file = Cal(m) /\ job[1].holds = h /\ 1 \in DOMAIN job
          BY <1>2, <3>2
        <5>2. disk[Oof(m)] = job[1].holds \/ \E j \in 1..(1 - 1) : job[j].file = Oof(m)
          BY <2>2, <5>1
        <5>3. QED
          BY <5>1, <5>2
      <4>3. disk'[Oof(m)] = h
        BY <1>4, <1>5, <3>2, <4>1, <4>2
      <4>4. h <= Len(oof)
        BY <1>2, <2>2, <3>2
      <4>5. \A i \in DOMAIN job' : job'[i].file \in {Cal(m), Oof(m)} => job'[i].holds = h
        <5>1. job[1].file \in {Cal(m), Oof(m)} /\ job[1].holds = h /\ 1 \in DOMAIN job
          BY <1>2, <3>2
        <5>2. \A j \in DOMAIN job : job[j].file \in {Cal(m), Oof(m)} => job[j].holds = h
          BY <2>2, <5>1
        <5>3. QED
          BY <1>3, <5>2
      <4>6. QED
        BY <1>1, <1>2, <4>1, <4>3, <4>4, <4>5 DEF NothingOlder
    <3>3. QED
      BY <3>1, <3>2
  <2>5. ASSUME NEW i \in DOMAIN job', job'[i].file = Cal(m)
        PROVE  disk'[Oof(m)] = job'[i].holds \/ \E j \in 1..(i - 1) : job'[j].file = Oof(m)
    <3>1. i + 1 \in DOMAIN job /\ job'[i] = job[i + 1] /\ i \in Nat \ {0}
      BY <1>3
    <3>2. CASE f = Oof(m)
      <4>1. job[1].file \in {Cal(m), Oof(m)} /\ job[1].holds = h /\ 1 \in DOMAIN job
        BY <1>2, <3>2
      <4>2. job[i + 1].file \in {Cal(m), Oof(m)}
        BY <2>5, <3>1
      <4>3. job[i + 1].holds = h
        BY <2>2, <3>1, <4>1, <4>2
      <4>4. QED
        BY <1>4, <3>1, <3>2, <4>3
    <3>3. CASE f # Oof(m) /\ disk[Oof(m)] = job[i + 1].holds
      BY <1>4, <1>5, <3>1, <3>3
    <3>4. CASE f # Oof(m) /\ \E j \in 1..((i + 1) - 1) : job[j].file = Oof(m)
      <4>1. PICK j \in 1..((i + 1) - 1) : job[j].file = Oof(m)
        BY <3>4
      <4>2. j # 1
        BY <1>2, <3>4, <4>1
      <4>3. j - 1 \in 1..(i - 1) /\ j - 1 \in DOMAIN job'
        BY <1>3, <3>1, <4>1, <4>2
      <4>4. job'[j - 1] = job[j]
        BY <1>3, <4>1, <4>3
      <4>5. QED
        BY <4>1, <4>3, <4>4
    <3>5. QED
      BY <2>2, <2>5, <3>1, <3>2, <3>3, <3>4
  <2>6. QED
    BY <1>3, <2>2, <2>3, <2>4, <2>5
<1>11. QED
  BY <1>1, <1>4, <1>7, <1>8, <1>9, <1>10, TrainerKeeps

LEMMA TrainerDiesStep == ASSUME IInv, TrainerDies PROVE IInv'
<1>1. job' = <<>> /\ UNCHANGED <<disk, runs, oof>> /\ UNCHANGED service
  BY DEF TrainerDies
<1>2. TypeOK' /\ ModelsAreNewest'
  BY <1>1 DEF IInv, TypeOK, ModelsAreNewest, service
<1>3. \A k \in Nat, m \in Modes : NothingOlder(k, m) => NothingOlder(k, m)'
  BY <1>1 DEF NothingOlder
<1>4. RowsFirst'
  BY <1>1 DEF IInv, RowsFirst, NothingOlder
<1>5. \A m \in Modes : disk[Model(m)] <= disk'[Model(m)]
  BY <1>1, FilesAre DEF IInv, TypeOK, Torn
<1>6. QED
  BY <1>1, <1>2, <1>3, <1>4, <1>5, TrainerKeeps

-----------------------------------------------------------------------------
(* What is on disk now, and what was loaded before, beside what is served. *)
Sound(new) ==
  /\ new \in Loaded
  /\ new.model <= disk[Model(new.mode)] /\ new.print <= disk[Model(new.mode)]
  /\ NothingOlder(new.cal, new.mode)
  /\ \A old \in reg.models : NoOlder(old, new)
SoundFor(new) == Sound(new) /\ \A old \in reg.models : old.mode = new.mode => old.print <= new.print
SoundLoad(l) ==
  l \in Load /\ InOrder(l) /\ (\A new \in l.lm : Sound(new)) /\ (\A new \in l.models : SoundFor(new))

LEMMA ReadingIsSound == ASSUME IInv, NEW c \in Callers, Loading(c) PROVE SoundLoad(loads[c])
<1>1. loads[c] \in Load
  BY DEF IInv, TypeOK, Loading
<1>2. loads[c].lm \cup loads[c].models \subseteq Held
  BY DEF Held
<1>3. \A new \in loads[c].lm \cup loads[c].models : new \in Loaded
  BY <1>1 DEF Load
<1>4. \A new \in loads[c].lm \cup loads[c].models : Sound(new)
  BY <1>2, <1>3 DEF IInv, HeldIsPast, LoadsNewer, Sound
<1>5. QED
  BY <1>1, <1>4 DEF IInv, LoadsNewer, ReadsInOrder, SoundFor, SoundLoad

LEMMA ServedIsPast ==
  ASSUME IInv, NEW old \in reg.models
  PROVE  /\ old \in Loaded
         /\ old.model <= disk[Model(old.mode)] /\ old.print <= disk[Model(old.mode)]
         /\ NothingOlder(old.cal, old.mode)
  BY DEF IInv, TypeOK, HeldIsPast, Held

LEMMA NothingIsOlder == ASSUME IInv, NEW m \in Modes PROVE NothingOlder(Absent, m)
<1>1. Cal(m) \in Files /\ Oof(m) \in Files
  BY FilesAre
<1>2. \A i \in DOMAIN job : job[i] \in Writes
  BY DEF IInv, TypeOK
<1>3. \A i \in DOMAIN job : job[i].holds \in Nat
  BY <1>2 DEF Writes
<1>4. \A g \in {Cal(m), Oof(m)} : disk[g] # Torn => disk[g] \in Nat
  BY <1>1 DEF IInv, TypeOK
<1>5. Len(oof) \in Nat
  BY DEF IInv, TypeOK
<1>6. QED
  BY <1>3, <1>4, <1>5 DEF NothingOlder, Absent

LEMMA ReadIsSound ==
  ASSUME IInv, NEW c \in Callers, Loading(c),
         loads[c].at <= Len(ReadOrder), ~CannotRead(loads[c])
  PROVE  SoundLoad(ReadFile(loads[c]))
<1> DEFINE l == loads[c]
           f == ReadOrder[l.at]
           next == [l EXCEPT !.at = l.at + 1]
<1>1. SoundLoad(l)
  BY ReadingIsSound
<1>2. l \in Load /\ l.at \in 1..8
  BY <1>1 DEF SoundLoad, ReadOrder, Load
<1>3. /\ l.at = 1 => f = Features
      /\ l.at = 2 => f = Metrics
      /\ l.at \in {3, 5} => f = Model("stream")
      /\ l.at = 4 => f = Cal("stream")
      /\ l.at \in {6, 8} => f = Model("submission")
      /\ l.at = 7 => f = Cal("submission")
  BY <1>2 DEF ReadOrder
<1>4. Features # Metrics /\ Features[1] = "features" /\ Metrics[1] = "metrics"
  BY DEF Features, Metrics
<1>5. \A m \in Modes : /\ Model(m)[1] = "model" /\ Model(m)[2] = m
                       /\ Cal(m)[1] = "calibration" /\ Cal(m)[2] = m
                       /\ Model(m) # Features /\ Model(m) # Metrics
                       /\ Cal(m) # Features /\ Cal(m) # Metrics
                       /\ disk[Model(m)] \in Nat
  BY FilesAre DEF Model, Cal, IInv, TypeOK, ModelsAreNewest
<1>6. disk[Metrics] = Torn => f # Metrics
  BY <1>2 DEF CannotRead, ReadOrder
<1>7. next \in Load /\ next.lm = l.lm /\ next.models = l.models /\ next.at = l.at + 1
  BY <1>2 DEF Load
<1>8. InOrder(l) /\ (\A new \in l.lm : Sound(new)) /\ \A new \in l.models : SoundFor(new)
  BY <1>1 DEF SoundLoad
<1>9. "stream" \in Modes /\ "submission" \in Modes
  BY DEF Modes
<1> HIDE DEF f, l, next
<1>10. CASE f = Features
  <2>1. ReadFile(l) = next
    BY <1>4, <1>10, Zenon DEF ReadFile, f, next
  <2>2. l.at = 1
    BY <1>2, <1>3, <1>4, <1>5, <1>9, <1>10
  <2>3. InOrder(next)
    BY <1>7, <1>8, <2>2 DEF InOrder
  <2>4. QED
    BY <1>7, <1>8, <2>1, <2>3 DEF l, SoundLoad
<1>11. CASE f = Metrics
  <2>1. ReadFile(l) = [next EXCEPT !.metrics = disk[f]]
    BY <1>4, <1>11 DEF ReadFile, f, next
  <2>2. disk[f] \in Nat
    BY <1>6, <1>11, FilesAre DEF IInv, TypeOK
  <2>3. l.at = 2
    BY <1>2, <1>3, <1>4, <1>5, <1>9, <1>11
  <2>4. /\ ReadFile(l) \in Load /\ ReadFile(l).lm = l.lm /\ ReadFile(l).models = l.models
        /\ ReadFile(l).at = l.at + 1
    BY <1>7, <2>1, <2>2 DEF Load
  <2>5. l.lm = {}
    BY <1>8, <2>3 DEF InOrder
  <2>6. QED
    BY <1>8, <2>3, <2>4, <2>5 DEF l, SoundLoad, InOrder
<1>12. ASSUME NEW m \in Modes, f = Cal(m)
       PROVE  SoundLoad(ReadFile(l))
  <2>1. f[1] = "calibration" /\ f[2] = m /\ f # Features /\ f # Metrics
    BY <1>5, <1>12
  <2> DEFINE cal == LoadCalibration(m)
             lms == {[lm EXCEPT !.cal = cal] : lm \in next.lm}
  <2>2. ReadFile(l) = [next EXCEPT !.lm = lms]
    BY <2>1 DEF ReadFile, f, next
  <2>3. cal \in Nat /\ (cal = Absent \/ (disk[Cal(m)] # Torn /\ disk[Cal(m)] # Absent /\ cal = disk[Cal(m)]))
    BY FilesAre DEF LoadCalibration, Readable, IInv, TypeOK, Absent
  <2> HIDE DEF cal
  <2>4. (l.at = 4 /\ m = "stream") \/ (l.at = 7 /\ m = "submission")
    BY <1>2, <1>3, <1>5, <1>9, <1>12, <2>1
  <2>5. \A lm \in l.lm : lm \in Loaded /\ lm.mode = m /\ Sound(lm)
    BY <1>8, <2>4 DEF InOrder, Sound
  <2>6. NothingOlder(cal, m)
    <3>1. CASE cal = Absent
      BY <3>1, NothingIsOlder
    <3>2. CASE disk[Cal(m)] # Torn /\ cal = disk[Cal(m)]
      BY <3>2 DEF IInv, RowsFirst
    <3>3. QED
      BY <2>3, <3>1, <3>2
  <2>7. \A old \in reg.models : old.mode = m => cal = Absent \/ old.cal <= cal
    BY <2>3, ServedIsPast DEF NothingOlder
  <2>8. \A new \in lms : Sound(new) /\ new.mode = m
    <3> SUFFICES ASSUME NEW lm \in l.lm
                 PROVE  Sound([lm EXCEPT !.cal = cal]) /\ [lm EXCEPT !.cal = cal].mode = m
      BY <1>7
    <3> DEFINE new == [lm EXCEPT !.cal = cal]
    <3>1. lm \in Loaded /\ lm.mode = m /\ Sound(lm)
      BY <2>5
    <3>2. /\ new \in Loaded /\ new.mode = m /\ new.cal = cal
          /\ new.model = lm.model /\ new.print = lm.print
      BY <2>3, <3>1 DEF Loaded
    <3> HIDE DEF new
    <3>3. \A old \in reg.models : NoOlder(old, new)
      BY <2>7, <3>1, <3>2 DEF Sound, NoOlder
    <3>4. QED
      BY <2>6, <3>1, <3>2, <3>3 DEF Sound, new
  <2>9. ReadFile(l) \in Load /\ ReadFile(l).lm = lms /\ ReadFile(l).models = l.models
        /\ ReadFile(l).at = l.at + 1
    <3>1. lms \subseteq Loaded
      BY <2>8 DEF Sound
    <3> HIDE DEF lms
    <3>2. QED
      BY <1>7, <2>2, <3>1 DEF Load
  <2> HIDE DEF lms
  <2>10. InOrder(ReadFile(l))
    <3>1. lms # {}
      BY <1>7, <1>8, <2>4 DEF InOrder, lms
    <3>2. QED
      BY <2>4, <2>8, <2>9, <3>1 DEF InOrder
  <2>11. QED
    BY <1>8, <2>8, <2>9, <2>10 DEF l, SoundLoad
<1>13. ASSUME NEW m \in Modes, f = Model(m), l.lm # {}
       PROVE  SoundLoad(ReadFile(l))
  <2>1. f[1] = "model" /\ f # Features /\ f # Metrics
    BY <1>5, <1>13
  <2> DEFINE more == {[lm EXCEPT !.print = disk[f]] : lm \in l.lm}
  <2>2. ReadFile(l) = [next EXCEPT !.lm = {}, !.models = next.models \cup more]
    BY <1>13, <2>1 DEF ReadFile, f, next
  <2>3. (l.at = 5 /\ m = "stream") \/ (l.at = 8 /\ m = "submission")
    BY <1>2, <1>3, <1>4, <1>5, <1>8, <1>9, <1>13 DEF InOrder
  <2>4. \A lm \in l.lm : lm \in Loaded /\ lm.mode = m /\ Sound(lm)
    BY <1>8, <2>3 DEF InOrder, Sound
  <2>5. \A new \in more : SoundFor(new)
    <3> SUFFICES ASSUME NEW lm \in l.lm
                 PROVE  SoundFor([lm EXCEPT !.print = disk[f]])
      OBVIOUS
    <3> DEFINE new == [lm EXCEPT !.print = disk[f]]
    <3>1. lm \in Loaded /\ lm.mode = m /\ Sound(lm) /\ disk[f] \in Nat
      BY <1>5, <1>13, <2>4
    <3>2. /\ new \in Loaded /\ new.mode = m /\ new.cal = lm.cal
          /\ new.model = lm.model /\ new.print = disk[Model(m)]
      BY <1>13, <3>1 DEF Loaded
    <3> HIDE DEF new
    <3>3. \A old \in reg.models : NoOlder(old, new)
      BY <3>1, <3>2 DEF Sound, NoOlder
    <3>4. \A old \in reg.models : old.mode = m => old.print <= disk[Model(m)]
      BY ServedIsPast
    <3>5. QED
      BY <1>5, <3>1, <3>2, <3>3, <3>4 DEF Sound, SoundFor, new
  <2>6. /\ ReadFile(l) \in Load /\ ReadFile(l).lm = {}
        /\ ReadFile(l).models = l.models \cup more /\ ReadFile(l).at = l.at + 1
    <3>1. more \subseteq Loaded
      BY <2>5 DEF SoundFor, Sound
    <3> HIDE DEF more
    <3>2. QED
      BY <1>7, <2>2, <3>1 DEF Load
  <2> HIDE DEF more
  <2>7. QED
    BY <1>8, <2>3, <2>5, <2>6 DEF l, SoundLoad, InOrder
<1>14. ASSUME NEW m \in Modes, f = Model(m), l.lm = {}
       PROVE  SoundLoad(ReadFile(l))
  <2>1. f[1] = "model" /\ f[2] = m /\ f # Features /\ f # Metrics
    BY <1>5, <1>14
  <2>2. CASE disk[f] = Absent
    <3>1. ReadFile(l) = [l EXCEPT !.at = l.at + 3]
      BY <1>14, <2>1, <2>2 DEF ReadFile, f
    <3>2. /\ ReadFile(l) \in Load /\ ReadFile(l).lm = {} /\ ReadFile(l).models = l.models
          /\ ReadFile(l).at = l.at + 3
      BY <1>2, <1>14, <3>1 DEF Load
    <3>3. l.at \in {3, 6}
      BY <1>2, <1>3, <1>5, <1>8, <1>9, <1>14, <2>1 DEF InOrder
    <3>4. QED
      BY <1>8, <3>2, <3>3 DEF l, SoundLoad, InOrder
  <2>3. CASE disk[f] # Absent
    <3> DEFINE new == [mode |-> m, model |-> disk[f], cal |-> Absent,
                       scale |-> l.metrics, print |-> Absent]
    <3>1. ReadFile(l) = [next EXCEPT !.lm = {new}]
      BY <1>14, <2>1, <2>3 DEF ReadFile, f, next
    <3>2. (l.at = 3 /\ m = "stream") \/ (l.at = 6 /\ m = "submission")
      BY <1>2, <1>3, <1>4, <1>5, <1>8, <1>9, <1>14, <2>1 DEF InOrder
    <3>3. /\ new \in Loaded /\ new.mode = m /\ new.cal = Absent
          /\ new.model = disk[Model(m)] /\ new.print = 0
      BY <1>2, <1>5, <1>14 DEF Loaded, Load, Absent
    <3> HIDE DEF new
    <3>4. NothingOlder(Absent, m)
      BY NothingIsOlder
    <3>5. Sound(new)
      BY <1>5, <3>3, <3>4, ServedIsPast DEF Sound, NoOlder
    <3>6. /\ ReadFile(l) \in Load /\ ReadFile(l).lm = {new}
          /\ ReadFile(l).models = l.models /\ ReadFile(l).at = l.at + 1
      BY <1>7, <3>1, <3>3 DEF Load
    <3>7. InOrder(ReadFile(l))
      BY <3>2, <3>3, <3>6 DEF InOrder
    <3>8. QED
      BY <1>8, <3>5, <3>6, <3>7 DEF l, SoundLoad
  <2>4. QED
    BY <2>2, <2>3
<1>15. QED
  BY <1>2, <1>3, <1>9, <1>10, <1>11, <1>12, <1>13, <1>14 DEF l

-----------------------------------------------------------------------------
(* A step of the service leaves the directory and the trainer as they are. *)
LEMMA ServiceKeeps ==
  ASSUME IInv, UNCHANGED disk, UNCHANGED trainer
  PROVE  /\ ModelsAreNewest' /\ RowsFirst'
         /\ \A k \in Nat, m \in Modes : NothingOlder(k, m) => NothingOlder(k, m)'
  BY DEF IInv, ModelsAreNewest, RowsFirst, NothingOlder, trainer

(* What is read beside what is served is past, and newer.                  *)
LEMMA SoundIsEnough ==
  ASSUME IInv, UNCHANGED disk, UNCHANGED trainer, TypeOK', OneLoads',
         \A old \in reg'.models : /\ old \in Loaded
                                  /\ old.model <= disk[Model(old.mode)]
                                  /\ old.print <= disk[Model(old.mode)]
                                  /\ NothingOlder(old.cal, old.mode),
         \A c \in Callers : loads'[c] # NoLoad =>
           /\ SoundLoad(loads'[c])
           /\ reg'.models = reg.models
  PROVE  IInv'
<1>1. /\ ModelsAreNewest' /\ RowsFirst' /\ disk' = disk
      /\ \A k \in Nat, m \in Modes : NothingOlder(k, m) => NothingOlder(k, m)'
  BY ServiceKeeps
<1>2. \A lm \in Held' :
        lm \in reg'.models \/ \E c \in Callers : loads'[c] # NoLoad /\ lm \in loads'[c].lm \cup loads'[c].models
  BY DEF Held, Loading
<1>3. ASSUME NEW lm \in Held'
      PROVE  /\ lm \in Loaded
             /\ lm.model <= disk[Model(lm.mode)] /\ lm.print <= disk[Model(lm.mode)]
             /\ NothingOlder(lm.cal, lm.mode)
  <2>1. CASE lm \in reg'.models
    BY <2>1
  <2>2. CASE \E c \in Callers : loads'[c] # NoLoad /\ lm \in loads'[c].lm \cup loads'[c].models
    BY <2>2 DEF SoundLoad, SoundFor, Sound
  <2>3. QED
    BY <1>2, <2>1, <2>2
<1>4. HeldIsPast'
  <2> SUFFICES ASSUME NEW lm \in Held'
               PROVE  /\ lm.model <= disk'[Model(lm.mode)] /\ lm.print <= disk'[Model(lm.mode)]
                      /\ NothingOlder(lm.cal, lm.mode)'
    BY DEF HeldIsPast
  <2>1. lm.cal \in Nat /\ lm.mode \in Modes
    BY <1>3 DEF Loaded
  <2>2. QED
    BY <1>1, <1>3, <2>1
<1>5. LoadsNewer'
  <2> SUFFICES ASSUME NEW c \in Callers, loads'[c] # NoLoad, reg'.models = reg.models
               PROVE  /\ \A old \in reg.models, new \in loads'[c].lm \cup loads'[c].models : NoOlder(old, new)
                      /\ \A old \in reg.models, new \in loads'[c].models :
                           old.mode = new.mode => old.print <= new.print
    BY DEF LoadsNewer, Loading, NoOlder
  <2>1. QED
    BY DEF SoundLoad, SoundFor, Sound
<1>6. ReadsInOrder'
  BY DEF ReadsInOrder, Loading, SoundLoad, InOrder
<1>7. QED
  BY <1>1, <1>4, <1>5, <1>6 DEF IInv

(* The steps of the service.                                               *)
LEMMA ReadStep == ASSUME IInv, NEW c \in Callers, Read(c) PROVE IInv'
<1> DEFINE l == ReadFile(loads[c])
<1>1. /\ Loading(c) /\ loads[c].at <= Len(ReadOrder) /\ ~CannotRead(loads[c])
      /\ loads' = [loads EXCEPT ![c] = l]
      /\ UNCHANGED disk /\ UNCHANGED trainer /\ UNCHANGED <<up, reg, crashes>>
  BY DEF Read, Put
<1>2. SoundLoad(l)
  BY <1>1, ReadIsSound
<1> HIDE DEF l
<1>3. l \in Load /\ l # NoLoad
  BY <1>2 DEF SoundLoad, Load, NoLoad
<1>4. TypeOK'
  BY <1>1, <1>3 DEF IInv, TypeOK, trainer
<1>5. \A d \in Callers : loads'[d] # NoLoad => loads[d] # NoLoad /\ SoundLoad(loads'[d])
  <2>1. \A d \in Callers : loads'[d] = IF d = c THEN l ELSE loads[d]
    BY <1>1 DEF IInv, TypeOK
  <2>2. QED
    BY <1>1, <1>2, <2>1, ReadingIsSound DEF Loading
<1>6. OneLoads'
  BY <1>1, <1>5 DEF IInv, OneLoads, Loading
<1>7. \A old \in reg'.models : /\ old \in Loaded
                               /\ old.model <= disk[Model(old.mode)]
                               /\ old.print <= disk[Model(old.mode)]
                               /\ NothingOlder(old.cal, old.mode)
  BY <1>1, ServedIsPast
<1>8. \A d \in Callers : loads'[d] # NoLoad => SoundLoad(loads'[d])
  BY <1>5
<1>9. reg'.models = reg.models
  BY <1>1
<1>10. QED
  BY <1>1, <1>4, <1>6, <1>7, <1>8, <1>9, SoundIsEnough

LEMMA BegunIsSound == SoundLoad(Begun) /\ Begun \in Load /\ Begun # NoLoad
                      /\ Begun.lm = {} /\ Begun.models = {}
  BY DEF SoundLoad, Begun, Load, Absent, NoLoad, InOrder

LEMMA BeginStep ==
  ASSUME IInv, NEW c \in Callers, ReloadModels(c) \/ (ServiceStarts /\ Put(c, Begun))
  PROVE  IInv'
<1>1. /\ \A d \in Callers : ~Loading(d)
      /\ loads' = [loads EXCEPT ![c] = Begun] /\ up' \in {"starting", "up"}
      /\ UNCHANGED disk /\ UNCHANGED trainer /\ UNCHANGED <<reg, crashes>>
  BY DEF ReloadModels, ServiceStarts, Put, Unlocked, IInv, OneLoads
<1>2. TypeOK'
  BY <1>1, BegunIsSound DEF IInv, TypeOK, trainer
<1>3. \A d \in Callers : loads'[d] # NoLoad => d = c /\ SoundLoad(loads'[d])
  <2>1. \A d \in Callers : loads'[d] = IF d = c THEN Begun ELSE loads[d]
    BY <1>1 DEF IInv, TypeOK
  <2>2. QED
    BY <1>1, <2>1, BegunIsSound DEF Loading
<1>4. OneLoads'
  BY <1>1, <1>3 DEF OneLoads, Loading
<1>5. \A old \in reg'.models : /\ old \in Loaded
                               /\ old.model <= disk[Model(old.mode)]
                               /\ old.print <= disk[Model(old.mode)]
                               /\ NothingOlder(old.cal, old.mode)
  BY <1>1, ServedIsPast
<1>6. \A d \in Callers : loads'[d] # NoLoad => SoundLoad(loads'[d])
  BY <1>3
<1>7. reg'.models = reg.models
  BY <1>1
<1>8. QED
  BY <1>1, <1>2, <1>4, <1>5, <1>6, <1>7, SoundIsEnough

LEMMA ServeStep ==
  ASSUME IInv, NEW c \in Callers, Serve(c)
  PROVE  /\ IInv'
         /\ \A old \in reg.models, new \in reg'.models : old.mode = new.mode =>
              /\ old.model <= new.model /\ old.print <= new.print
              /\ (new.cal = Absent \/ old.cal <= new.cal)
<1>1. /\ Loading(c) /\ reg' = [models |-> loads[c].models]
      /\ up' = "up" /\ loads' = [loads EXCEPT ![c] = NoLoad]
      /\ UNCHANGED disk /\ UNCHANGED trainer /\ UNCHANGED crashes
  BY DEF Serve, Put
<1>2. SoundLoad(loads[c])
  BY <1>1, ReadingIsSound
<1>3. reg'.models = loads[c].models /\ loads[c] \in Load
  BY <1>1, <1>2 DEF SoundLoad
<1>4. TypeOK'
  BY <1>1, <1>3 DEF IInv, TypeOK, trainer, Load
<1>5. \A d \in Callers : loads'[d] = NoLoad
  <2>1. \A d \in Callers : loads'[d] = IF d = c THEN NoLoad ELSE loads[d]
    BY <1>1 DEF IInv, TypeOK
  <2>2. QED
    BY <1>1, <2>1 DEF IInv, OneLoads, Loading
<1>6. OneLoads'
  BY <1>5 DEF OneLoads, Loading
<1>7. \A new \in reg'.models : SoundFor(new)
  BY <1>2, <1>3 DEF SoundLoad
<1>8. IInv'
  BY <1>1, <1>4, <1>5, <1>6, <1>7, SoundIsEnough DEF SoundFor, Sound
<1>9. QED
  BY <1>7, <1>8 DEF SoundFor, Sound, NoOlder

LEMMA LoadFailsStep == ASSUME IInv, NEW c \in Callers, LoadFails(c) PROVE IInv'
<1>1. /\ Loading(c) /\ loads' = [loads EXCEPT ![c] = NoLoad]
      /\ up' = (IF up = "starting" THEN "down" ELSE up)
      /\ UNCHANGED disk /\ UNCHANGED trainer /\ UNCHANGED <<reg, crashes>>
  BY DEF LoadFails, Put
<1>2. TypeOK'
  BY <1>1 DEF IInv, TypeOK, trainer
<1>3. \A d \in Callers : loads'[d] = NoLoad
  <2>1. \A d \in Callers : loads'[d] = IF d = c THEN NoLoad ELSE loads[d]
    BY <1>1 DEF IInv, TypeOK
  <2>2. QED
    BY <1>1, <2>1 DEF IInv, OneLoads, Loading
<1>4. OneLoads'
  BY <1>3 DEF OneLoads, Loading
<1>5. QED
  BY <1>1, <1>2, <1>3, <1>4, ServedIsPast, SoundIsEnough

LEMMA ServiceStopsStep == ASSUME IInv, ServiceStops PROVE IInv' /\ reg'.models = {}
<1>1. /\ loads' = [c \in Callers |-> NoLoad] /\ up' = "down" /\ reg' = NoRegistry
      /\ crashes' = crashes + 1
      /\ UNCHANGED disk /\ UNCHANGED trainer
  BY DEF ServiceStops
<1>2. reg'.models = {} /\ reg' \in [models: SUBSET Loaded]
  BY <1>1 DEF NoRegistry
<1>3. TypeOK'
  BY <1>1, <1>2 DEF IInv, TypeOK, trainer
<1>4. \A d \in Callers : loads'[d] = NoLoad
  BY <1>1
<1>5. OneLoads'
  BY <1>4 DEF OneLoads, Loading
<1>6. QED
  BY <1>1, <1>2, <1>3, <1>4, <1>5, SoundIsEnough

Newer ==
  \A old \in reg.models, new \in reg'.models : old.mode = new.mode =>
    /\ old.model <= new.model /\ old.print <= new.print
    /\ (new.cal = Absent \/ old.cal <= new.cal)

(* Every step keeps the invariant, and serves nothing older.               *)
LEMMA NextIInv == IInv /\ [Next]_vars => IInv' /\ (reg' = reg \/ Newer)
<1> SUFFICES ASSUME IInv, [Next]_vars PROVE IInv' /\ (reg' = reg \/ Newer)
  OBVIOUS
<1>1. CASE Trainer
  <2>1. IInv'
    BY <1>1, StartFullStep, StartRefitStep, RecalibrateStep, WriteStartsStep, WriteEndsStep,
       TrainerDiesStep DEF Trainer
  <2>2. reg' = reg
    BY <1>1 DEF Trainer, StartFull, StartRefit, Recalibrate, Starts, WriteStarts, WriteEnds,
       TrainerDies, service
  <2>3. QED
    BY <2>1, <2>2
<1>2. ASSUME NEW c \in Callers, ReloadModels(c) \/ Read(c) \/ LoadFails(c)
      PROVE  IInv' /\ reg' = reg
  BY <1>2, BeginStep, ReadStep, LoadFailsStep DEF ReloadModels, Read, LoadFails
<1>3. ASSUME NEW c \in Callers, Serve(c) PROVE IInv' /\ Newer
  BY <1>3, ServeStep DEF Newer
<1>4. CASE ServiceStarts
  <2>1. PICK c \in Callers : Put(c, Begun)
    BY <1>4 DEF ServiceStarts
  <2>2. QED
    BY <1>4, <2>1, BeginStep DEF ServiceStarts
<1>5. CASE ServiceStops
  BY <1>5, ServiceStopsStep DEF Newer
<1>6. CASE UNCHANGED vars
  <2>1. UNCHANGED service /\ disk' = disk /\ UNCHANGED trainer /\ reg' = reg
    BY <1>6 DEF vars, service, trainer
  <2>2. TypeOK' /\ ModelsAreNewest' /\ RowsFirst'
    BY <2>1 DEF IInv, TypeOK, ModelsAreNewest, RowsFirst, NothingOlder, service, trainer
  <2>3. \A k \in Nat, m \in Modes : NothingOlder(k, m) => NothingOlder(k, m)'
    BY <2>1, ServiceKeeps
  <2>4. \A m \in Modes : disk[Model(m)] <= disk'[Model(m)]
    BY <2>1, FilesAre DEF IInv, TypeOK, Torn
  <2>5. QED
    BY <2>1, <2>2, <2>3, <2>4, TrainerKeeps
<1>7. QED
  BY <1>1, <1>2, <1>3, <1>4, <1>5, <1>6 DEF Next, Service

(* What is read never goes back to an older training (serve.py, the lock   *)
(* around load_registry).                                                  *)
THEOREM NeverOlder == Spec => NewestServed
<1>1. IInv /\ [Next]_vars => [Newer]_reg
  BY NextIInv
<1>2. QED
  BY InitIInv, NextIInv, <1>1, PTL DEF Spec, NewestServed, Newer

(* What is on disk, in the trainer's and in the service's memory is of its *)
(* type.                                                                   *)
THEOREM ServiceTypes == Spec => []TypeOK
<1>1. IInv => TypeOK
  BY DEF IInv
<1>2. QED
  BY InitIInv, NextIInv, <1>1, PTL DEF Spec

-----------------------------------------------------------------------------
(* The interval the report gives to a row: from the rows of the other folds. *)
LEMMA CrossFitAt ==
  ASSUME NEW rows, NEW i \in DOMAIN rows
  PROVE  CrossFit(rows)[i] =
           Interval(Fit(Restrict(rows, {j \in DOMAIN rows : rows[j].fold # rows[i].fold}),
                        LeadBins(LeadsOf(rows))), rows[i])
  BY Zenon DEF CrossFit

(* The rows are such that no score needs rounding.                         *)
LEMMA AllRowsAre == AllRows \subseteq Seq(OofRows)
  BY MlAssumption DEF AllRows

(* The report on these rows does not depend on the delay of the row judged. *)
HonestReport(rows) ==
  \A i \in DOMAIN rows :
    \A y \in {rows[j].y : j \in DOMAIN rows} :
      CrossFit([rows EXCEPT ![i].y = y])[i] = Report[rows][i]

LEMMA CrossFitIsHonest ==
  ASSUME NEW rows \in AllRows
  PROVE  HonestReport(rows)
<1>0. rows \in Seq(OofRows) /\ Report[rows] = CrossFit(rows)
  BY AllRowsAre DEF Report
<1> SUFFICES ASSUME NEW i \in DOMAIN rows, NEW y
             PROVE  CrossFit([rows EXCEPT ![i].y = y])[i] = Report[rows][i]
  BY DEF HonestReport
<1> DEFINE other == [rows EXCEPT ![i].y = y]
           f == rows[i].fold
<1>1. /\ DOMAIN other = DOMAIN rows
      /\ \A j \in DOMAIN rows : other[j] = IF j = i THEN [rows[i] EXCEPT !.y = y] ELSE rows[j]
  BY <1>0
<1>2. rows[i] \in OofRows
  BY <1>0
<1>3. [rows[i] EXCEPT !.y = y].lead = rows[i].lead /\ [rows[i] EXCEPT !.y = y].fold = rows[i].fold
      /\ [rows[i] EXCEPT !.y = y].q = rows[i].q
  BY <1>2 DEF OofRows
<1>4. \A j \in DOMAIN rows : other[j].lead = rows[j].lead /\ other[j].fold = rows[j].fold
  BY <1>1, <1>3
<1>5. other[i].q = rows[i].q /\ other[i].lead = rows[i].lead /\ other[i].fold = f
  BY <1>1, <1>3
<1> HIDE DEF other
<1>6. LeadsOf(other) = LeadsOf(rows)
  BY <1>1, <1>4 DEF LeadsOf
<1>7. {j \in DOMAIN other : other[j].fold # other[i].fold} = {j \in DOMAIN rows : rows[j].fold # f}
  BY <1>1, <1>4, <1>5
<1>8. Restrict(other, {j \in DOMAIN rows : rows[j].fold # f})
        = Restrict(rows, {j \in DOMAIN rows : rows[j].fold # f})
  BY <1>1 DEF Restrict
<1>9. \A art : Interval(art, other[i]) = Interval(art, rows[i])
  BY <1>5, Zenon DEF Interval
<1>10. CrossFit(other)[i] = CrossFit(rows)[i]
  <2>1. i \in DOMAIN other
    BY <1>1
  <2>2. CrossFit(other)[i] =
          Interval(Fit(Restrict(other, {j \in DOMAIN other : other[j].fold # other[i].fold}),
                       LeadBins(LeadsOf(other))), other[i])
    BY <2>1, CrossFitAt
  <2>3. CrossFit(rows)[i] =
          Interval(Fit(Restrict(rows, {j \in DOMAIN rows : rows[j].fold # f}),
                       LeadBins(LeadsOf(rows))), rows[i])
    BY CrossFitAt
  <2>4. QED
    BY <1>6, <1>7, <1>8, <1>9, <2>2, <2>3, Zenon
<1>11. QED
  BY <1>0, <1>10 DEF other

(* A set of naturals that is not empty has a least one. *)
LEMMA HasLeast ==
  ASSUME NEW T \in SUBSET Nat, T # {}
  PROVE  \E k \in T : \A n \in T : k <= n
<1> DEFINE R == OpToRel(<, Nat)
<1>1. IsWellFoundedOn(R, Nat)
  BY NatLessThanWellFounded
<1> HIDE DEF R
<1>2. PICK k \in T : \A n \in T : ~(<<n, k>> \in R)
  BY <1>1, WFMin
<1>3. \A n, m \in Nat : <<n, m>> \in R <=> n < m
  BY DEF R, OpToRel
<1>4. \A n \in T : n \in Nat /\ k \in Nat /\ ~(n < k)
  BY <1>2, <1>3
<1>5. QED
  BY <1>4

(* A finite set of integers that is not empty has a least one and a        *)
(* greatest one.                                                           *)
LEMMA HasEnds ==
  ASSUME NEW S \in SUBSET Int, IsFiniteSet(S), S # {}
  PROVE  /\ \E s \in S : \A t \in S : s <= t
         /\ \E s \in S : \A t \in S : t <= s
<1> DEFINE Up(s) == {t \in S : t <= s}
           Down(s) == {t \in S : s <= t}
<1>1. \A T \in SUBSET S : IsFiniteSet(T) /\ Cardinality(T) \in Nat
  BY FS_Subset, FS_CardinalityType
<1>2. \E s \in S : \A t \in S : s <= t
  <2>1. {Cardinality(Up(s)) : s \in S} \in SUBSET Nat /\ {Cardinality(Up(s)) : s \in S} # {}
    BY <1>1
  <2>2. PICK s \in S : \A t \in S : Cardinality(Up(s)) <= Cardinality(Up(t))
    <3> HIDE DEF Up
    <3>1. PICK k \in {Cardinality(Up(s)) : s \in S} : \A n \in {Cardinality(Up(s)) : s \in S} : k <= n
      BY <2>1, HasLeast
    <3>2. QED
      BY <3>1
  <2>3. ASSUME NEW t \in S, t < s PROVE FALSE
    <3>1. Up(t) \in SUBSET Up(s) /\ s \in Up(s) /\ s \notin Up(t)
      <4>1. \A r \in S : r <= t => r <= s
        BY <2>3
      <4>2. s <= s /\ ~(s <= t)
        BY <2>3
      <4>3. Up(t) \subseteq Up(s)
        BY <4>1
      <4>4. QED
        BY <4>2, <4>3
    <3>2. IsFiniteSet(Up(s)) /\ Cardinality(Up(s)) \in Nat /\ Cardinality(Up(t)) \in Nat
      BY <1>1
    <3>3. Cardinality(Up(s)) <= Cardinality(Up(t))
      BY <2>2
    <3> HIDE DEF Up
    <3>4. Cardinality(Up(t)) <= Cardinality(Up(s)) /\ (Cardinality(Up(s)) = Cardinality(Up(t)) => Up(s) = Up(t))
      BY <3>1, <3>2, FS_Subset
    <3>5. QED
      BY <3>1, <3>2, <3>3, <3>4
  <2>4. QED
    BY <2>3
<1>3. \E s \in S : \A t \in S : t <= s
  <2>1. {Cardinality(Down(s)) : s \in S} \in SUBSET Nat /\ {Cardinality(Down(s)) : s \in S} # {}
    BY <1>1
  <2>2. PICK s \in S : \A t \in S : Cardinality(Down(s)) <= Cardinality(Down(t))
    <3> HIDE DEF Down
    <3>1. PICK k \in {Cardinality(Down(s)) : s \in S} : \A n \in {Cardinality(Down(s)) : s \in S} : k <= n
      BY <2>1, HasLeast
    <3>2. QED
      BY <3>1
  <2>3. ASSUME NEW t \in S, s < t PROVE FALSE
    <3>1. Down(t) \in SUBSET Down(s) /\ s \in Down(s) /\ s \notin Down(t)
      <4>1. \A r \in S : t <= r => s <= r
        BY <2>3
      <4>2. s <= s /\ ~(t <= s)
        BY <2>3
      <4>3. Down(t) \subseteq Down(s)
        BY <4>1
      <4>4. QED
        BY <4>2, <4>3
    <3>2. IsFiniteSet(Down(s)) /\ Cardinality(Down(s)) \in Nat /\ Cardinality(Down(t)) \in Nat
      BY <1>1
    <3>3. Cardinality(Down(s)) <= Cardinality(Down(t))
      BY <2>2
    <3> HIDE DEF Down
    <3>4. Cardinality(Down(t)) <= Cardinality(Down(s)) /\ (Cardinality(Down(s)) = Cardinality(Down(t)) => Down(s) = Down(t))
      BY <3>1, <3>2, FS_Subset
    <3>5. QED
      BY <3>1, <3>2, <3>3, <3>4
  <2>4. QED
    BY <2>3
<1>4. QED
  BY <1>2, <1>3

(* Up to the score at a place there are as many scores as its number. *)
LEMMA ScoreAtReaches ==
  ASSUME NEW rows, IsFiniteSet(DOMAIN rows), NEW place \in Nat,
         1 <= place, place <= Cardinality(DOMAIN rows),
         \A i \in DOMAIN rows : RowScore(rows[i]) \in Int
  PROVE  /\ ScoreAt(rows, place) \in Int
         /\ place <= Cardinality(ScoredUpTo(rows, ScoreAt(rows, place)))
<1> DEFINE f == [i \in DOMAIN rows |-> RowScore(rows[i])]
           S == {RowScore(rows[i]) : i \in DOMAIN rows}
           Q == {s \in S : Cardinality(ScoredUpTo(rows, s)) >= place}
<1>1. Cardinality(DOMAIN rows) \in Nat /\ DOMAIN rows # {}
  BY FS_CardinalityType, FS_EmptySet
<1>2. S \in SUBSET Int /\ S # {}
  BY <1>1
<1>3. IsFiniteSet(S)
  <2>1. f \in Surjection(DOMAIN rows, S)
    BY DEF Surjection
  <2> HIDE DEF f, S
  <2>2. QED
    BY <2>1, FS_Surjection
<1>4. PICK top \in S : \A s \in S : s <= top
  <2> HIDE DEF S
  <2>1. QED
    BY <1>2, <1>3, HasEnds
<1>5. ScoredUpTo(rows, top) = DOMAIN rows
  BY <1>4 DEF ScoredUpTo
<1>6. top \in Q
  BY <1>1, <1>5
<1>7. IsFiniteSet(Q) /\ Q \in SUBSET Int
  <2>1. Q \in SUBSET S
    OBVIOUS
  <2> HIDE DEF Q, S
  <2>2. QED
    BY <1>2, <1>3, <2>1, FS_Subset
<1>8. PICK low \in Q : \A s \in Q : low <= s
  <2> HIDE DEF Q
  <2>1. QED
    BY <1>6, <1>7, HasEnds
<1>9. ScoreAt(rows, place) \in Q
  <2>1. ScoreAt(rows, place) = CHOOSE x \in Q : \A y \in Q : x <= y
    BY DEF ScoreAt, Min
  <2> HIDE DEF Q
  <2>2. QED
    BY <1>8, <2>1
<1>10. \A s \in S : Cardinality(ScoredUpTo(rows, s)) \in Nat
  <2>1. \A s \in S : ScoredUpTo(rows, s) \in SUBSET DOMAIN rows
    BY DEF ScoredUpTo
  <2>2. QED
    BY <2>1, FS_Subset, FS_CardinalityType
<1>11. QED
  BY <1>2, <1>9, <1>10

(* The quantile of level 0.8, with the one row more, leaves at least 80%   *)
(* of n scores at or below it.                                             *)
LEMMA PlaceIs ==
  ASSUME NEW n \in Nat \ {0}
  PROVE  Place(n) \in Nat /\ 1 <= Place(n) /\ Place(n) <= n /\ 8 * n <= 10 * Place(n)
<1> DEFINE k == CeilDiv(8 * (n + 1), 10)
           m == Smaller(n, k)
           p == CeilDiv((n - 1) * m, n)
<1>1. k \in Nat /\ 10 * k >= 8 * (n + 1)
  BY DEF CeilDiv
<1> HIDE DEF k
<1>2. m \in Nat /\ m <= n /\ (m = n \/ 10 * m >= 8 * (n + 1))
  BY <1>1 DEF Smaller
<1> HIDE DEF m
<1>3. ASSUME NEW a \in Nat, NEW d \in Nat \ {0}
      PROVE  CeilDiv(a, d) \in Nat /\ a <= d * CeilDiv(a, d) /\ d * CeilDiv(a, d) <= a + d - 1
  BY DEF CeilDiv
<1>4. (n - 1) * m \in Nat
  <2>1. n - 1 \in Nat
    OBVIOUS
  <2>2. QED
    BY <1>2, <2>1
<1>5. p \in Nat /\ (n - 1) * m <= n * p /\ n * p <= (n - 1) * m + n - 1
  BY <1>3, <1>4
<1> HIDE DEF p
<1>6. p <= n - 1
  <2>1. (n - 1) * m <= (n - 1) * n
    BY <1>2
  <2>2. SUFFICES ASSUME p >= n PROVE FALSE
    BY <1>5
  <2>3. n * p >= n * n
    BY <1>5, <2>2
  <2>4. n * p <= n * n - 1
    BY <1>4, <1>5, <2>1
  <2>5. n * n \in Int /\ n * p \in Int
    BY <1>5
  <2>6. QED
    BY <2>3, <2>4, <2>5
<1>7. 8 * n <= 10 * (1 + p)
  <2>1. CASE m = n
    <3>1. p >= n - 1
      <4>1. SUFFICES ASSUME p <= n - 2 PROVE FALSE
        BY <1>5
      <4>2. n * p <= n * (n - 2)
        BY <1>5, <4>1
      <4>3. QED
        BY <1>5, <2>1, <4>2
    <3>2. QED
      BY <1>5, <3>1
  <2>2. CASE 10 * m >= 8 * (n + 1)
    <3>1. SUFFICES ASSUME 10 * (1 + p) <= 8 * n - 1 PROVE FALSE
      BY <1>5
    <3>2. n * (10 * (1 + p)) <= n * (8 * n - 1)
      BY <1>5, <3>1
    <3>3. (n - 1) * (10 * m) >= (n - 1) * (8 * (n + 1))
      BY <1>2, <2>2
    <3>4. 10 * ((n - 1) * m) >= 8 * (n * n) - 8
      BY <1>2, <3>3
    <3>5. 10 * (n * p) + 10 * n <= 8 * (n * n) - n
      BY <1>5, <3>2
    <3>6. 11 * n <= 8
      BY <1>4, <1>5, <3>4, <3>5
    <3>7. QED
      BY <3>6
  <2>3. QED
    BY <1>2, <2>1, <2>2
<1>8. Place(n) = 1 + p
  BY DEF Place, p, m, k
<1>9. QED
  BY <1>5, <1>6, <1>7, <1>8
(* A row of known lead is in one bin. *)
LEMMA OneBin ==
  ASSUME NEW row \in OofRows, NEW cuts, NEW b \in BinOf(row.lead, cuts)
  PROVE  BinOf(row.lead, cuts) = {b}
<1>1. \A l, k \in row.lead : l = k
  BY DEF OofRows
<1>2. \A a \in BinOf(row.lead, cuts) : a = b
  BY <1>1, Zenon DEF BinOf
<1>3. QED
  BY <1>2

(* A row is covered at every scale from its score on. *)
LEMMA CoveredFrom ==
  ASSUME NEW row \in OofRows
  PROVE  /\ RowScore(row) \in Int
         /\ \A s \in Int : RowScore(row) <= s => Covers(Widen(row.q, s), row.y)
<1> DEFINE q == row.q
           y == row.y
           a == Unit * (q[2] - y)
           d == q[2] - q[1]
           b == Unit * (y - q[2])
           e == q[3] - q[2]
<1>1. /\ q[1] \in Int /\ q[2] \in Int /\ q[3] \in Int /\ y \in Int
      /\ q[1] < q[2] /\ q[2] < q[3] /\ Unit \in Nat
  <2>1. q \in Seq(Int) /\ Len(q) = 3 /\ y \in Int /\ q[1] < q[2] /\ q[2] < q[3]
    BY DEF OofRows
  <2>2. QED
    BY <2>1, CalibrationAssumption
<1> HIDE DEF q, y
<1>2. /\ a \in Int /\ d \in Int /\ b \in Int /\ e \in Int /\ d > 0 /\ e > 0
      /\ a = Unit * q[2] - Unit * y /\ b = Unit * y - Unit * q[2]
  BY <1>1
<1>3. RowScore(row) = Larger(CeilDiv(a, d), CeilDiv(b, e))
  BY Zenon DEF RowScore, a, b, d, e, q, y
<1> HIDE DEF a, b, d, e
<1>4. ASSUME NEW n \in Int, NEW m \in Int, m > 0
      PROVE  CeilDiv(n, m) \in Int /\ n <= m * CeilDiv(n, m)
  BY <1>4 DEF CeilDiv
<1>5. /\ CeilDiv(a, d) \in Int /\ a <= d * CeilDiv(a, d)
      /\ CeilDiv(b, e) \in Int /\ b <= e * CeilDiv(b, e)
  BY <1>2, <1>4
<1>6. RowScore(row) \in Int /\ CeilDiv(a, d) <= RowScore(row) /\ CeilDiv(b, e) <= RowScore(row)
  BY <1>3, <1>5 DEF Larger
<1>7. ASSUME NEW s \in Int, RowScore(row) <= s
      PROVE  Covers(Widen(q, s), y)
  <2>1. CeilDiv(a, d) <= s /\ CeilDiv(b, e) <= s
    BY <1>5, <1>6, <1>7
  <2>2. a <= d * s /\ b <= e * s
    BY <1>2, <1>5, <2>1
  <2>3. s * (q[2] - q[1]) = d * s /\ s * (q[3] - q[2]) = e * s
    BY <1>1 DEF d, e
  <2>4. /\ Widen(q, s)[1] = Unit * q[2] - s * (q[2] - q[1])
        /\ Widen(q, s)[3] = Unit * q[2] + s * (q[3] - q[2])
    BY DEF Widen
  <2>5. Unit * q[2] \in Int /\ Unit * y \in Int /\ d * s \in Int /\ e * s \in Int
    BY <1>1, <1>2
  <2>6. QED
    BY <1>2, <2>2, <2>3, <2>4, <2>5 DEF Covers
<1>8. QED
  BY <1>6, <1>7 DEF q, y

InBin(rows, cuts, b) == {i \in DOMAIN rows : b \in BinOf(rows[i].lead, cuts)}

(* What fit makes of the bins: their edges stay, and the scale of a bin    *)
(* with rows enough is that of its rows.                                   *)
LEMMA FitIs ==
  ASSUME NEW rows, NEW bins, NEW b \in DOMAIN bins
  PROVE  /\ Cuts(Fit(rows, bins).bins) = Cuts(bins)
         /\ DOMAIN Fit(rows, bins).bins = DOMAIN bins
         /\ Cardinality(InBin(rows, Cuts(bins), b)) >= MinFit =>
              Fit(rows, bins).bins[b].scale = ConformalScale(Restrict(rows, InBin(rows, Cuts(bins), b)))
<1> DEFINE in(k) == InBin(rows, Cuts(bins), k)
           scaled == [k \in DOMAIN bins |->
                   [lo |-> bins[k].lo, hi |-> bins[k].hi,
                    scale |-> IF Cardinality(DOMAIN Restrict(rows, in(k))) >= MinFit
                              THEN ConformalScale(Restrict(rows, in(k))) ELSE ConformalScale(rows)]]
<1>1. Fit(rows, bins).bins = scaled
  BY Zenon DEF Fit, InBin
<1>2. DOMAIN scaled = DOMAIN bins /\ \A k \in DOMAIN bins : scaled[k].hi = bins[k].hi
  OBVIOUS
<1>3. DOMAIN Restrict(rows, in(b)) = in(b)
  BY DEF Restrict
<1>4. Cardinality(in(b)) >= MinFit => scaled[b].scale = ConformalScale(Restrict(rows, in(b)))
  BY <1>3
<1> HIDE DEF scaled, in
<1>5. Cuts(scaled) = Cuts(bins)
  BY <1>2 DEF Cuts
<1>6. QED
  BY <1>1, <1>2, <1>4, <1>5 DEF in

(* Of the rows of a bin fitted on its own at least 80% lie in the interval *)
(* that is served.                                                         *)
LEMMA ArtifactCovers ==
  ASSUME NEW rows \in Seq(OofRows), NEW b \in DOMAIN Artifact(rows).bins
  PROVE  LET art == Artifact(rows)
             in == {i \in DOMAIN rows : b \in BinOf(rows[i].lead, Cuts(art.bins))}
             hit == {i \in in : Covers(Interval(art, rows[i]), rows[i].y)}
         IN Cardinality(in) >= MinFit => 10 * Cardinality(hit) >= 8 * Cardinality(in)
<1> DEFINE art == Artifact(rows)
           bins == LeadBins(LeadsOf(rows))
           cuts == Cuts(bins)
           in == InBin(rows, cuts, b)
           hit == {i \in in : Covers(Interval(art, rows[i]), rows[i].y)}
           part == Restrict(rows, in)
           n == Cardinality(in)
           scale == ConformalScale(part)
<1>1. art = Fit(rows, bins)
  BY DEF Artifact
<1> HIDE DEF bins, art
<1>2. DOMAIN art.bins = DOMAIN bins
  <2>1. CASE DOMAIN bins = {}
    BY <1>1, <2>1, Zenon DEF Fit
  <2>2. ASSUME NEW k \in DOMAIN bins PROVE DOMAIN art.bins = DOMAIN bins
    BY <1>1, FitIs
  <2>3. QED
    BY <2>1, <2>2
<1>3. b \in DOMAIN bins
  BY <1>2 DEF art
<1>4. Cuts(art.bins) = cuts /\ (n >= MinFit => art.bins[b].scale = scale)
  <2>1. /\ Cuts(Fit(rows, bins).bins) = Cuts(bins)
        /\ Cardinality(InBin(rows, Cuts(bins), b)) >= MinFit =>
             Fit(rows, bins).bins[b].scale = ConformalScale(Restrict(rows, InBin(rows, Cuts(bins), b)))
    BY <1>3, FitIs, Zenon
  <2>2. QED
    BY <1>1, <2>1, Zenon
<1> SUFFICES ASSUME n >= MinFit PROVE 10 * Cardinality(hit) >= 8 * n
  BY <1>4 DEF art, InBin
<1>5. IsFiniteSet(DOMAIN rows)
  BY FS_Interval
<1>6. IsFiniteSet(in) /\ n \in Nat
  BY <1>5, FS_Subset, FS_CardinalityType DEF InBin
<1>7. n \in Nat \ {0}
  BY <1>6, CalibrationAssumption
<1>8. DOMAIN part = in /\ \A i \in in : part[i] = rows[i] /\ rows[i] \in OofRows
  BY DEF Restrict, InBin
<1> HIDE DEF part
<1>9. \A i \in DOMAIN part : RowScore(part[i]) \in Int
  BY <1>8, CoveredFrom
<1>10. Place(n) \in Nat /\ 1 <= Place(n) /\ Place(n) <= n /\ 8 * n <= 10 * Place(n)
  BY <1>7, PlaceIs
<1>11. scale = ScoreAt(part, Place(n))
  BY <1>8 DEF ConformalScale
<1> HIDE DEF scale
<1>12. scale \in Int /\ Place(n) <= Cardinality(ScoredUpTo(part, scale))
  BY <1>6, <1>8, <1>9, <1>10, <1>11, ScoreAtReaches
<1>13. ScoredUpTo(part, scale) \in SUBSET hit
  <2> SUFFICES ASSUME NEW i \in in, RowScore(rows[i]) <= scale
               PROVE  Covers(Interval(art, rows[i]), rows[i].y)
    BY <1>8 DEF ScoredUpTo
  <2>1. Covers(Widen(rows[i].q, scale), rows[i].y)
    BY <1>8, <1>12, CoveredFrom
  <2>2. BinOf(rows[i].lead, Cuts(art.bins)) = {b}
    <3>1. b \in BinOf(rows[i].lead, cuts) /\ rows[i] \in OofRows
      BY <1>8 DEF InBin
    <3> HIDE DEF cuts, in, hit
    <3>2. QED
      BY <1>4, <3>1, OneBin
  <2>3. ScaleFor(art, rows[i].lead) = art.bins[b].scale
    BY <2>2 DEF ScaleFor
  <2>4. QED
    BY <1>4, <2>1, <2>3 DEF Interval
<1>14. IsFiniteSet(hit) /\ Cardinality(hit) \in Nat
  <2>1. hit \in SUBSET in
    OBVIOUS
  <2> HIDE DEF hit, in
  <2>2. QED
    BY <1>6, <2>1, FS_Subset, FS_CardinalityType
<1>15. Cardinality(ScoredUpTo(part, scale)) <= Cardinality(hit) /\ Cardinality(ScoredUpTo(part, scale)) \in Nat
  BY <1>13, <1>14, FS_Subset, FS_CardinalityType
<1>16. QED
  BY <1>6, <1>10, <1>12, <1>14, <1>15

-----------------------------------------------------------------------------
(* No step trains and serves at once. *)
LEMMA ServedLeavesRows == [Next]_vars => reg' = reg \/ oof' = oof
  BY DEF Next, Trainer, Service, StartFull, StartRefit, Recalibrate, Starts, WriteStarts, WriteEnds,
     TrainerDies, ReloadModels, Read, Serve, LoadFails, ServiceStarts, ServiceStops, vars, service, trainer

(* The bins of every artifact that may be served. *)
LEMMA BinsAreCovered ==
  ASSUME NEW rows \in AllRows
  PROVE  LET art == Calibrations[rows]
             In(b) == {i \in DOMAIN rows : b \in BinOf(rows[i].lead, Cuts(art.bins))}
             Hit(b) == {i \in In(b) : Covers(Interval(art, rows[i]), rows[i].y)}
         IN \A b \in DOMAIN art.bins :
              Cardinality(In(b)) >= MinFit => 10 * Cardinality(Hit(b)) >= 8 * Cardinality(In(b))
<1>1. Calibrations[rows] = Artifact(rows) /\ rows \in Seq(OofRows)
  BY AllRowsAre DEF Calibrations
<1>2. QED
  BY <1>1, ArtifactCovers, Zenon

ServedCovers ==
  \A lm \in reg'.models : lm.cal # Absent =>
    LET rows == oof[lm.cal]
        art == Calibrations[rows]
        In(b) == {i \in DOMAIN rows : b \in BinOf(rows[i].lead, Cuts(art.bins))}
        Hit(b) == {i \in In(b) : Covers(Interval(art, rows[i]), rows[i].y)}
    IN \A b \in DOMAIN art.bins :
         Cardinality(In(b)) >= MinFit => 10 * Cardinality(Hit(b)) >= 8 * Cardinality(In(b))

LEMMA ServedAreCovered == IInv' /\ oof' = oof => ServedCovers
<1> SUFFICES ASSUME IInv', oof' = oof, NEW lm \in reg'.models, lm.cal # Absent
             PROVE  oof[lm.cal] \in AllRows
  BY BinsAreCovered, Zenon DEF ServedCovers
<1>1. lm \in Held' /\ lm.cal \in Nat
  BY DEF IInv, TypeOK, Held, Loaded
<1>2. lm.cal <= Len(oof)
  BY <1>1 DEF IInv, HeldIsPast, NothingOlder
<1>3. lm.cal \in 1..Len(oof) /\ oof \in Seq(AllRows)
  BY <1>1, <1>2 DEF IInv, TypeOK, Absent
<1>4. QED
  BY <1>3

(* Of the rows a calibration came from, at least 80% lie in the interval   *)
(* that serving looks up, in every bin fitted on its own: the bins of fit, *)
(* the lookup of scale_for and the quantile of conformal_scale agree.      *)
THEOREM BinsCovered == Spec => CoversItsBins
<1>1. IInv /\ [Next]_vars => [reg' # reg => ServedCovers]_reg
  BY NextIInv, ServedLeavesRows, ServedAreCovered
<1>2. QED
  BY InitIInv, NextIInv, <1>1, PTL DEF Spec, CoversItsBins, ServedCovers

(* The rows of a training that begins are among those assumed. *)
LEMMA ReportIsHonest == IInv /\ [Next]_vars /\ oof' # oof => HonestReport(oof'[Len(oof')])
<1> SUFFICES ASSUME IInv, [Next]_vars, oof' # oof
             PROVE  HonestReport(oof'[Len(oof')])
  OBVIOUS
<1>1. StartFull
  BY DEF Next, Trainer, Service, StartRefit, Recalibrate, WriteStarts, WriteEnds,
     TrainerDies, ReloadModels, Read, Serve, LoadFails, ServiceStarts, ServiceStops, vars, service, trainer
<1>2. PICK rows \in Drawn[Len(oof) + 1] : oof' = Append(oof, rows)
  BY <1>1 DEF StartFull
<1>3. /\ runs < MaxTrainings /\ runs \in Nat /\ Len(oof) \in Nat /\ Len(oof) <= runs /\ oof \in Seq(AllRows)
  BY <1>1, MlAssumption DEF StartFull, IInv, TypeOK
<1>4. rows \in AllRows
  BY <1>2, <1>3, MlAssumption DEF AllRows
<1>5. oof'[Len(oof')] = rows
  BY <1>2, <1>3, <1>4
<1>6. QED
  BY <1>4, <1>5, CrossFitIsHonest

(* The interval a row is judged by in the report does not depend on that   *)
(* row's own delay (calibration.py, _cross_fit).                           *)
THEOREM Honest == Spec => HonestAfter
<1>1. IInv /\ [Next]_vars => [oof' # oof => HonestReport(oof'[Len(oof')])]_oof
  BY ReportIsHonest
<1>2. QED
  BY InitIInv, NextIInv, <1>1, PTL DEF Spec, HonestAfter, HonestReport
=============================================================================
