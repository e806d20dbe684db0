------------------------------ MODULE DataPrep ------------------------------
(***************************************************************************)
(* Preparing the dataset (scripts/data_prep.py, the service data-init): an *)
(* archive in ./data, a folder unpacked by hand or a download end up as    *)
(* files in ./data/raw.  The script may die at any moment; the other       *)
(* services wait for its exit code and it is run again by hand.            *)
(*                                                                         *)
(* There are versions of the dataset.  The script tells them apart by the  *)
(* sizes of their files only, so a version is known by the size, in        *)
(* chunks, of each of its files.  A person changes ./data only while the   *)
(* script does not run, puts whole files there, and never touches          *)
(* ./data/raw.                                                             *)
(***************************************************************************)
EXTENDS Naturals, Sequences, FiniteSets, SequencesExt

CONSTANTS
  Required,     \* REQUIRED_FILES, in order
  Optional,     \* OPTIONAL_FILES and the emulator
  Versions,     \* the versions of the dataset: the sizes of their files
  AutoDownload  \* DATASET_AUTO_DOWNLOAD

(* REQUIRED_FILES names no file twice; the first one marks a folder.       *)
ASSUME PrepAssumption ==
  /\ Required \in Seq(ToSet(Required)) /\ Optional \in Seq(ToSet(Optional))
  /\ Required # <<>>
  /\ \A i, j \in DOMAIN Required : Required[i] = Required[j] => i = j
  /\ Versions \subseteq Nat \ {0}

VARIABLES
  archive,  \* the zip found in ./data: its kind, and its version if it is whole
  part,     \* dataset.zip.part is there
  folder,   \* the unpacked folder: its files and their version
  dest,     \* the files of ./data/raw: the version written there, and how much of it
  job,      \* the script: its place, the files left to write, their version,
            \* where from, its exit code
  met       \* the versions of which the script has ever gone through the files

prep == <<archive, part, folder, dest, job, met>>
inputs == <<archive, part, folder>>

Absent == [of |-> 0, size |-> 0]
Whole(v) == [of |-> v, size |-> v]
IsWhole(f) == dest[f] # Absent /\ dest[f].size = dest[f].of
NoArchive == [kind |-> "none", of |-> 0]
NoFolder == [files |-> {}, of |-> 0]
Archives ==
  {NoArchive} \cup [kind: {"broken", "foreign"}, of: {0}] \cup [kind: {"whole"}, of: Versions]

PrepInit ==
  /\ archive = NoArchive /\ part = FALSE /\ folder = NoFolder
  /\ dest = [f \in ToSet(Required \o Optional) |-> Absent]
  /\ job = [at |-> "off", todo |-> <<>>, of |-> 0, via |-> "none", exit |-> "none"]
  /\ met = {}

Goes(at) == job' = [job EXCEPT !.at = at]
Exits(code, via) == job' = [at |-> "off", todo |-> <<>>, of |-> job.of, via |-> via, exit |-> code]

(* is_extracted *)
IsExtracted == \A f \in ToSet(Required) : dest[f] # Absent

\* Mistake: a file that is there is taken for a file that is whole.
IsThere(f) == dest[f] # Absent

(* exists() with the source's size.  What is there may be a piece of a     *)
(* longer file.                                                            *)
SameSize(f) == dest[f] # Absent /\ dest[f].size = job.of

-----------------------------------------------------------------------------
Start ==
  /\ job.at = "off"
  /\ job' = [at |-> "main", todo |-> <<>>, of |-> 0, via |-> "none", exit |-> "none"]
  /\ UNCHANGED <<inputs, dest, met>>

Copies(files, v, via) ==
  job' = [at |-> "files", todo |-> files, of |-> v, via |-> via, exit |-> "none"]

(* extract_dataset opens the archive: one that is no zip or lacks required *)
(* files ends the run.                                                     *)
Extracts(zip) ==
  IF zip.kind = "whole" THEN Copies(Required \o Optional, zip.of, "archive")
  ELSE Exits("failed", "archive")

(* The files of the list that are among those given, in the list's order.  *)
Among(list, files) ==
  LET is == {i \in DOMAIN list : list[i] \in files}
  IN [n \in 1..Cardinality(is) |-> list[CHOOSE i \in is : Cardinality({j \in is : j <= i}) = n]]

(* _prepare_without_archive: an unpacked folder, or else the download.     *)
WithoutArchive ==
  IF ToSet(Required) \subseteq folder.files
  THEN Copies(Required \o Among(Optional, folder.files), folder.of, "folder")
  ELSE IF AutoDownload THEN Goes("download") ELSE Exits("failed", "none")

\* Mistake: what is already there is preferred to the archive.
MainKeeps ==
  IF IsExtracted THEN Exits("ok", "dest")
  ELSE IF archive # NoArchive THEN Extracts(archive) ELSE WithoutArchive

(* main *)
MainDecides ==
  IF archive # NoArchive THEN Extracts(archive)
  ELSE IF IsExtracted THEN Exits("ok", "dest") ELSE WithoutArchive

Meets == met' = IF job'.at = "files" THEN met \cup {job'.of} ELSE met

Main == job.at = "main" /\ MainDecides /\ Meets /\ UNCHANGED <<inputs, dest>>

OpenPart == part' = TRUE /\ UNCHANGED archive

DownloadStarts ==
  /\ job.at = "download" /\ OpenPart
  /\ Goes("receive") /\ UNCHANGED <<folder, dest, met>>

(* Any failure up to the check of the zip removes the part.                *)
DownloadFails ==
  /\ job.at \in {"download", "receive"}
  /\ part' = FALSE /\ Exits("failed", "none")
  /\ UNCHANGED <<archive, folder, dest, met>>

(* os.replace; the public folder may hold another zip.                     *)
DownloadEnds ==
  /\ job.at = "receive"
  /\ part' = FALSE /\ archive' \in {a \in Archives : a.kind \in {"whole", "foreign"}}
  /\ Extracts(archive') /\ Meets
  /\ UNCHANGED <<folder, dest>>

FileKept ==
  /\ job.at = "files" /\ job.todo # <<>> /\ SameSize(Head(job.todo))
  /\ job' = [job EXCEPT !.todo = Tail(@)]
  /\ UNCHANGED <<inputs, dest, met>>

FileOpened ==
  /\ job.at = "files" /\ job.todo # <<>> /\ ~SameSize(Head(job.todo))
  /\ dest' = [dest EXCEPT ![Head(job.todo)] = [of |-> job.of, size |-> 0]]
  /\ Goes("write") /\ UNCHANGED <<inputs, met>>

(* One more chunk; the last one closes the file.                           *)
ChunkWritten ==
  /\ job.at = "write"
  /\ dest' = [dest EXCEPT ![Head(job.todo)].size = @ + 1]
  /\ job' = IF dest'[Head(job.todo)] = Whole(job.of)
            THEN [job EXCEPT !.at = "files", !.todo = Tail(@)] ELSE job
  /\ UNCHANGED <<inputs, met>>

Ends ==
  /\ job.at = "files" /\ job.todo = <<>>
  /\ Exits("ok", job.via) /\ UNCHANGED <<inputs, dest, met>>

(* A signal, a full disk.                                                  *)
Dies == job.at # "off" /\ Exits("failed", job.via) /\ UNCHANGED <<inputs, dest, met>>

Person ==
  /\ job.at = "off"
  /\ \/ archive' \in Archives \ {archive} /\ UNCHANGED folder
     \/ folder' \in [files: {ToSet(Required), DOMAIN dest, ToSet(Tail(Required))}, of: Versions]
                     \cup {NoFolder}
        /\ folder' # folder /\ UNCHANGED archive
  /\ UNCHANGED <<part, dest, job, met>>

Works ==
  Main \/ DownloadStarts \/ DownloadEnds \/ FileKept \/ FileOpened \/ ChunkWritten \/ Ends
PrepNext == Start \/ Works \/ DownloadFails \/ Dies \/ Person
PrepSpec == PrepInit /\ [][PrepNext]_prep /\ WF_prep(Works)

-----------------------------------------------------------------------------
(* service_completed_successfully lets the other services start.  After a  *)
(* run that went through the files each has the size it has in the source, *)
(* and while all sources were of one version each required file is whole,  *)
(* however often the script died before.  Only the last one may be torn,   *)
(* when the run found every file "in place" after another had died in it   *)
(* (data_prep.py, main, is_extracted).  With sources of several sizes the  *)
(* latter is no more so: a run that dies while it replaces a file leaves   *)
(* it torn before others, and a piece may have another version's size.     *)
OneVersion == \A v, w \in met : v = w
StartedIsWhole ==
  job.exit = "ok" =>
    \A i \in DOMAIN Required :
      /\ job.via # "dest" => dest[Required[i]].size = job.of
      /\ OneVersion => IsWhole(Required[i]) \/ (job.via = "dest" /\ i = Len(Required))

(* With an archive in place, runs that are repeated until one is left      *)
(* alone end with every required file of the archive's size, and whole if  *)
(* no other version was met (extract_dataset).                             *)
PreparedInTheEnd ==
  \A v \in Versions :
    (<>[](archive = [kind |-> "whole", of |-> v]) /\ <>[][~Dies]_prep /\ []<><<Start>>_prep)
      => <>[](\A f \in ToSet(Required) :
                dest[f].size = v /\ (met \subseteq {v} => dest[f] = Whole(v)))
=============================================================================
