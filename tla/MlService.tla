----------------------------- MODULE MlService -----------------------------
(***************************************************************************)
(* The forecasting service (services/ml/app/serve.py, inference.py) beside *)
(* the trainer (train.py, calibration.py) that writes its directory of     *)
(* models: a registry is read file by file while the files are rewritten,  *)
(* and the service and the trainer may each die at any moment.             *)
(*                                                                         *)
(* A file holds the number of the training that wrote it (a calibration,   *)
(* an OOF cache or the metrics: of the full training whose rows it comes   *)
(* from).  Trainings are started by hand, one at a time.                   *)
(***************************************************************************)
EXTENDS Calibration, FiniteSets

CONSTANTS
  Callers,      \* threads that may answer POST /model/reload
  Drawn,        \* Drawn[n]: the OOF rows the n-th full training may end with
  Outputs,      \* what a model may give for an item: three quantiles in any order
  Bases,        \* values of cur_dev
  Leads,        \* values of lead
  MaxTrainings, \* bound on the trainer's runs
  MaxCrashes    \* bound on the service's deaths

ASSUME MlAssumption ==
  /\ MaxTrainings \in Nat /\ MaxCrashes \in Nat
  /\ 1..MaxTrainings \subseteq DOMAIN Drawn
  /\ \A n \in DOMAIN Drawn : Drawn[n] \subseteq Seq(OofRows)

VARIABLES
  disk,         \* file -> what it holds
  job,          \* the writes the running trainer has left
  runs,         \* trainer runs begun
  oof,          \* the rows of each full training
  up,           \* the service: "down", "starting", "up"
  reg,          \* STATE["reg"]
  loads,        \* thread -> the registry it is reading
  crashes

vars == <<disk, job, runs, oof, up, reg, loads, crashes>>
trainer == <<job, runs, oof>>
service == <<up, reg, loads, crashes>>

Modes == {"stream", "submission"}
Absent == 0
Torn == -1
Features == <<"features", "all">>
Metrics == <<"metrics", "all">>
Model(m) == <<"model", m>>
Cal(m) == <<"calibration", m>>
Oof(m) == <<"oof", m>>
Files == {Features, Metrics} \cup {f[m] : f \in {[m \in Modes |-> Model(m)], [m \in Modes |-> Cal(m)],
                                                  [m \in Modes |-> Oof(m)]}, m \in Modes}
Readable(f) == disk[f] # Absent /\ disk[f] # Torn

NoRegistry == [models |-> {}]
NoLoad == [at |-> 0]

-----------------------------------------------------------------------------
(* What a registry answers.  A loaded model is [mode, model, cal, scale,   *)
(* print]: its training, the calibration read beside it or Absent, the     *)
(* metrics' interval_scale or Absent, the fingerprint of its file.         *)

AllRows == UNION {Drawn[n] : n \in DOMAIN Drawn}
Calibrations == [rows \in AllRows |-> Artifact(rows)]
Scales == [rows \in AllRows |-> IntervalScale(rows)]

Shifted(w, base) == <<w[1] + Unit * base, w[2] + Unit * base, w[3] + Unit * base>>
Scale(lm, lead) ==
  IF lm.cal # Absent THEN ScaleFor(Calibrations[oof[lm.cal]], lead)
  ELSE IF lm.scale # Absent THEN Scales[oof[lm.scale]] ELSE Unit

(* predict: the quantiles are sorted, widened and put on the current       *)
(* deviation; the probability goes through the isotonic map of the mode.   *)
Predict(lm, out, base, lead) ==
  LET q == SortSeq(out, LAMBDA a, b : a < b)
      w == Shifted(Widen(q, Scale(lm, lead)), base)
      p == PExceed(w)
  IN [lo |-> w[1], med |-> w[2], hi |-> w[3],
      late |-> IF lm.cal = Absent THEN p ELSE PLate(Calibrations[oof[lm.cal]].iso, p)]

-----------------------------------------------------------------------------
(* The trainer.  A write is [file, holds, atomic]: a text file is torn from *)
(* the moment it is opened until it is whole, a model is put in place at   *)
(* once.                                                                   *)

Write(f, n) == [file |-> f, holds |-> n, atomic |-> f[1] = "model"]

Idle == job = <<>>
Starts(writes) == job' = writes /\ runs' = runs + 1 /\ UNCHANGED <<disk, service>>

(* train.main: each mode is evaluated, then both final models are fitted.  *)
StartFull ==
  /\ Idle /\ runs < MaxTrainings
  /\ \E rows \in Drawn[Len(oof) + 1] :
       /\ oof' = Append(oof, rows)
       /\ LET n == Len(oof) + 1 IN
          Starts(<<Write(Oof("submission"), n), Write(Cal("submission"), n),
                   Write(Oof("stream"), n), Write(Cal("stream"), n),
                   Write(Model("submission"), runs + 1), Write(Model("stream"), runs + 1),
                   Write(Features, n), Write(Metrics, n)>>)

(* --refit: new models with the parameters the metrics keep.               *)
StartRefit ==
  /\ Idle /\ runs < MaxTrainings /\ Readable(Metrics)
  /\ Starts(<<Write(Model("submission"), runs + 1), Write(Model("stream"), runs + 1),
              Write(Metrics, disk[Metrics])>>)
  /\ UNCHANGED oof

(* calibration.main: from the OOF caches; a mode without one is skipped, a *)
(* broken one ends the run.                                                *)
Recalibrate ==
  /\ Idle /\ runs < MaxTrainings /\ Readable(Metrics)
  /\ LET Redo(m) == IF disk[Oof(m)] = Absent THEN <<>> ELSE <<Write(Cal(m), disk[Oof(m)])>>
     IN Starts(IF disk[Oof("submission")] = Torn THEN <<>>
               ELSE IF disk[Oof("stream")] = Torn THEN Redo("submission")
               ELSE Redo("submission") \o Redo("stream") \o <<Write(Metrics, disk[Metrics])>>)
  /\ UNCHANGED oof

WriteStarts ==
  /\ ~Idle /\ ~Head(job).atomic /\ disk[Head(job).file] # Torn
  /\ disk' = [disk EXCEPT ![Head(job).file] = Torn]
  /\ UNCHANGED <<trainer, service>>

WriteEnds ==
  /\ ~Idle /\ (Head(job).atomic \/ disk[Head(job).file] = Torn)
  /\ disk' = [disk EXCEPT ![Head(job).file] = Head(job).holds]
  /\ job' = Tail(job)
  /\ UNCHANGED <<runs, oof, service>>

TrainerDies == ~Idle /\ job' = <<>> /\ UNCHANGED <<disk, runs, oof, service>>

-----------------------------------------------------------------------------
(* load_registry: the order in which the files are read; a model's file is *)
(* read twice, to load it and for its fingerprint.                         *)
ReadOrder == <<Features, Metrics, Model("stream"), Cal("stream"), Model("stream"),
               Model("submission"), Cal("submission"), Model("submission")>>

Begun == [at |-> 1, metrics |-> Absent, lm |-> {}, models |-> {}]
Put(c, l) == loads' = [loads EXCEPT ![c] = l]

\* Mistake: a calibration already served is not read again.
CalOnce(m) ==
  LET had == {lm \in reg.models : lm.mode = m /\ lm.cal # Absent}
  IN IF had # {} THEN (CHOOSE lm \in had : TRUE).cal
     ELSE IF Readable(Cal(m)) THEN disk[Cal(m)] ELSE Absent

(* load_calibration: a missing or a broken file is no calibration.         *)
LoadCalibration(m) == IF Readable(Cal(m)) THEN disk[Cal(m)] ELSE Absent

(* One file of the registry a thread is reading, where reading succeeds.   *)
ReadFile(l) ==
  LET f == ReadOrder[l.at]
      next == [l EXCEPT !.at = @ + 1]
  IN CASE f = Features -> next
       [] f = Metrics -> [next EXCEPT !.metrics = disk[f]]
       [] f[1] = "calibration" -> [next EXCEPT !.lm = {[lm EXCEPT !.cal = LoadCalibration(f[2])] : lm \in @}]
       [] f[1] = "model" /\ l.lm # {} ->
            [next EXCEPT !.lm = {}, !.models = @ \cup {[lm EXCEPT !.print = disk[f]] : lm \in l.lm}]
       [] f[1] = "model" /\ l.lm = {} ->
            IF disk[f] = Absent THEN [l EXCEPT !.at = @ + 3]
            ELSE [next EXCEPT !.lm = {[mode |-> f[2], model |-> disk[f], cal |-> Absent,
                                       scale |-> l.metrics, print |-> Absent]}]

(* A features list that is not there, a broken one or broken metrics end   *)
(* the load, and so does a directory without models.                       *)
CannotRead(l) ==
  IF l.at > Len(ReadOrder) THEN l.models = {}
  ELSE \/ ReadOrder[l.at] = Features /\ ~Readable(Features)
       \/ ReadOrder[l.at] = Metrics /\ disk[Metrics] = Torn
       \/ ReadOrder[l.at][1] = "model" /\ l.lm = {} /\ disk[ReadOrder[l.at]] = Torn

Loading(c) == loads[c] # NoLoad
Read(c) ==
  /\ Loading(c) /\ loads[c].at <= Len(ReadOrder) /\ ~CannotRead(loads[c])
  /\ Put(c, ReadFile(loads[c]))
  /\ UNCHANGED <<disk, trainer, up, reg, crashes>>

(* reload_models under RELOAD_LOCK; lifespan's own load is one of these,   *)
(* before any request.                                                     *)
\* Mistake: no lock.
NoLock == TRUE
Unlocked == \A c \in Callers : ~Loading(c)

ReloadModels(c) ==
  /\ up = "up" /\ Unlocked /\ ~Loading(c)
  /\ Put(c, Begun)
  /\ UNCHANGED <<disk, trainer, up, reg, crashes>>

(* The registry read is served from here on.                               *)
Serve(c) ==
  /\ Loading(c) /\ loads[c].at > Len(ReadOrder) /\ ~CannotRead(loads[c])
  /\ reg' = [models |-> loads[c].models]
  /\ up' = "up" /\ Put(c, NoLoad)
  /\ UNCHANGED <<disk, trainer, crashes>>

(* A reload that fails leaves the old registry, a start that fails ends    *)
(* the process.                                                            *)
LoadFails(c) ==
  /\ Loading(c) /\ CannotRead(loads[c])
  /\ up' = (IF up = "starting" THEN "down" ELSE up)
  /\ Put(c, NoLoad)
  /\ UNCHANGED <<disk, trainer, reg, crashes>>

ServiceStarts ==
  /\ up = "down" /\ up' = "starting"
  /\ \E c \in Callers : Put(c, Begun)
  /\ UNCHANGED <<disk, trainer, reg, crashes>>

ServiceStops ==
  /\ up # "down" /\ crashes < MaxCrashes
  /\ up' = "down" /\ reg' = NoRegistry /\ loads' = [c \in Callers |-> NoLoad]
  /\ crashes' = crashes + 1
  /\ UNCHANGED <<disk, trainer>>

-----------------------------------------------------------------------------
Init ==
  /\ disk = [f \in Files |-> Absent] /\ job = <<>> /\ runs = 0 /\ oof = <<>>
  /\ up = "down" /\ reg = NoRegistry /\ loads = [c \in Callers |-> NoLoad] /\ crashes = 0

Trainer == StartFull \/ StartRefit \/ Recalibrate \/ WriteStarts \/ WriteEnds \/ TrainerDies
Service == \/ \E c \in Callers : ReloadModels(c) \/ Read(c) \/ Serve(c) \/ LoadFails(c)
           \/ ServiceStarts \/ ServiceStops
Next == Trainer \/ Service

(* A process that runs goes on; the container is started again.  Nobody    *)
(* must start a training or ask for a reload.                              *)
Fairness ==
  /\ WF_vars(WriteStarts) /\ WF_vars(WriteEnds)
  /\ \A c \in Callers : WF_vars(Read(c)) /\ WF_vars(Serve(c)) /\ WF_vars(LoadFails(c))
  /\ WF_vars(ServiceStarts)

Spec == Init /\ [][Next]_vars /\ Fairness

-----------------------------------------------------------------------------
(* Reloads asked at the same time take turns: what is served never goes    *)
(* back to an older training, neither a model nor the calibration beside   *)
(* it (serve.py, RELOAD_LOCK).                                             *)
NewestServed ==
  [][\A old \in reg.models, new \in reg'.models : old.mode = new.mode =>
       /\ old.model <= new.model /\ old.print <= new.print
       /\ (new.cal = Absent \/ old.cal <= new.cal)]_reg

(* What the directory amounts to when nobody writes to it.                 *)
OnDisk ==
  {[mode |-> m, model |-> disk[Model(m)], cal |-> disk[Cal(m)],
    scale |-> disk[Metrics], print |-> disk[Model(m)]] : m \in {n \in Modes : disk[Model(n)] # Absent}}
Whole == Readable(Features) /\ OnDisk # {} /\ \A f \in Files : disk[f] # Torn

(* "POST /model/reload picks the new models up without a restart": once    *)
(* the trainer has finished, reloads that keep coming end with exactly     *)
(* what is on disk, and with fingerprints that tell the models served.     *)
ServedInTheEnd ==
  (<>[](Idle /\ Whole) /\ []<><<\E c \in Callers : ReloadModels(c)>>_vars)
     => <>[](reg.models = OnDisk)

(* "until 80% of the points are covered": of the rows the calibration came *)
(* from at least that share lies in the interval that serving looks up,    *)
(* in every bin of leads that was fitted on its own (calibration.py, fit). *)
CoversItsBins ==
  [][reg' # reg => \A lm \in reg'.models : lm.cal # Absent =>
    LET rows == oof[lm.cal]
        art == Calibrations[rows]
        In(b) == {i \in DOMAIN rows : b \in BinOf(rows[i].lead, Cuts(art.bins))}
        Hit(b) == {i \in In(b) : Covers(Interval(art, rows[i]), rows[i].y)}
    IN \A b \in DOMAIN art.bins :
         Cardinality(In(b)) >= MinFit => 10 * Cardinality(Hit(b)) >= 8 * Cardinality(In(b))]_reg

(* "the estimate after is honest": the interval a row is judged by in the  *)
(* report does not depend on that row's own delay (calibration.py,         *)
(* _cross_fit).                                                            *)
Report == [rows \in AllRows |-> CrossFit(rows)]
HonestAfter ==
  [][oof' # oof => LET rows == oof'[Len(oof')]
    IN \A i \in DOMAIN rows :
         \A y \in {rows[j].y : j \in DOMAIN rows} :
           CrossFit([rows EXCEPT ![i].y = y])[i] = Report[rows][i]]_oof
=============================================================================
