------------------------------- MODULE EvalRun -------------------------------
(***************************************************************************)
(* The scripts in the order they are run: the dataset is prepared, then    *)
(* the evaluation run reads it and its dump is replayed.  The evaluation   *)
(* is explored once everything is in its place and ./data is tidy; later   *)
(* preparations change nothing it reads.                                   *)
(***************************************************************************)
EXTENDS StreamScore, DataPrep

run == vars

Tidy ==
  /\ archive = NoArchive /\ folder = NoFolder /\ ~part
  /\ job.exit = "ok" /\ job.via = "dest"
  /\ \E v \in Versions : /\ met = {v} /\ \A w \in Versions : w <= v
                       /\ \A f \in DOMAIN dest : dest[f] = Whole(v)

PrepStep == t = 0 /\ PrepNext /\ UNCHANGED run
EvalStep == Tidy /\ Pass /\ UNCHANGED prep

EvalInit == Init /\ PrepInit
EvalNext == PrepStep \/ EvalStep
EvalSpec == EvalInit /\ [][EvalNext]_<<run, prep>> /\ WF_prep(t = 0 /\ Works /\ UNCHANGED run)
=============================================================================
