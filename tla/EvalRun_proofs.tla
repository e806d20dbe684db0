---------------------------- MODULE EvalRun_proofs ----------------------------
(***************************************************************************)
(* Proofs about the preparation of the dataset, for every list of files:   *)
(* what the services that wait for data-init find when it has ended well,  *)
(* however often it died before.                                           *)
(***************************************************************************)
EXTENDS EvalRun, FiniteSetTheorems, TLAPS

Listed == ToSet(Required \o Optional)
Needed == Len(Required)

PrepTypeOK ==
  /\ archive \in Archives
  /\ folder \in [files: SUBSET Listed, of: Versions] \cup {NoFolder}
  /\ dest \in [Listed -> [of: Nat, size: Nat]]
  /\ job \in [at: {"off", "main", "files", "write", "download", "receive"},
              todo: Seq(Listed),
              of: Nat,
              via: {"none", "dest", "archive", "folder"},
              exit: {"none", "ok", "failed"}]

(* A file that is there is of a version that was met, and not longer than  *)
(* that version has it.                                                    *)
PiecesOfMet == \A f \in Listed : dest[f].size <= dest[f].of /\ (dest[f].of # 0 => dest[f].of \in met)

(* While one version was met, a required file is there only if those       *)
(* before it are whole: the files are copied in the order of the list, and *)
(* one is begun when the last one has been closed.                         *)
FilledInOrder ==
  OneVersion =>
    \A i, j \in 1..Needed : i < j /\ dest[Required[j]] # Absent => IsWhole(Required[i])

(* The first k required files have the size of the source's and the others *)
(* are still to come.                                                      *)
CopiedTo(k) ==
  /\ \A i \in 1..k : dest[Required[i]].size = job.of
  /\ Len(job.todo) >= Needed - k
  /\ \A j \in 1..(Needed - k) : job.todo[j] = Required[k + j]

Copying == job.at \in {"files", "write"}
CopiesTheRest ==
  Copying => /\ job.of \in met /\ job.of # 0
             /\ job.via # "dest" /\ \E k \in 0..Needed : CopiedTo(k)

(* The file that is open is of the source's version, and not yet complete. *)
OpenIsTorn ==
  job.at = "write" => /\ job.todo # <<>>
                      /\ dest[Head(job.todo)].of = job.of
                      /\ dest[Head(job.todo)].size < job.of

OnlyDoneIsOk == job.exit = "ok" => job.at = "off"

PrepInv ==
  PrepTypeOK /\ PiecesOfMet /\ FilledInOrder /\ CopiesTheRest /\ OpenIsTorn /\ OnlyDoneIsOk
  /\ StartedIsWhole

-----------------------------------------------------------------------------
(* Sequences.                                                              *)

LEMMA RequiredIs ==
  /\ Needed \in Nat /\ DOMAIN Required = 1..Needed
  /\ Required \in Seq(Listed) /\ Optional \in Seq(Listed)
  /\ ToSet(Required) = {Required[i] : i \in 1..Needed}
  /\ \A i \in 1..Needed : Required[i] \in Listed
<1>1. Required \in Seq(ToSet(Required)) /\ Optional \in Seq(ToSet(Optional))
  BY PrepAssumption
<1>2. /\ Needed \in Nat /\ DOMAIN Required = 1..Needed
      /\ Len(Optional) \in Nat /\ DOMAIN Optional = 1..Len(Optional)
  BY <1>1 DEF Needed
<1>3. /\ DOMAIN (Required \o Optional) = 1..(Needed + Len(Optional))
      /\ \A i \in 1..Needed : (Required \o Optional)[i] = Required[i]
      /\ \A i \in 1..Len(Optional) : (Required \o Optional)[Needed + i] = Optional[i]
  BY <1>1 DEF Needed
<1>4. \A i \in 1..Needed : Required[i] \in Listed
  BY <1>2, <1>3 DEF Listed, ToSet
<1>5. \A i \in 1..Len(Optional) : Optional[i] \in Listed
  <2> TAKE i \in 1..Len(Optional)
  <2>1. Needed + i \in 1..(Needed + Len(Optional))
    BY <1>2
  <2> QED
    BY <1>3, <2>1 DEF Listed, ToSet
<1>6. Required \in Seq(Listed) /\ Optional \in Seq(Listed)
  BY <1>1, <1>2, <1>4, <1>5
<1> QED
  BY <1>2, <1>4, <1>6 DEF ToSet

(* Files that are among others are files of the list.                      *)
LEMMA AmongIs ==
  ASSUME NEW list \in Seq(Listed), NEW files
  PROVE  Among(list, files) \in Seq(Listed)
<1> DEFINE is == {i \in DOMAIN list : list[i] \in files}
           Place(n) == CHOOSE i \in is : Cardinality({j \in is : j <= i}) = n
<1>1. is \subseteq 1..Len(list) /\ Len(list) \in Nat
  OBVIOUS
<1>2. IsFiniteSet(is)
  <2>1. IsFiniteSet(1..Len(list))
    BY <1>1, FS_Interval
  <2> QED
    BY <1>1, <2>1, FS_Subset, Zenon
<1>3. Cardinality(is) \in Nat
  BY <1>2, FS_CardinalityType
<1> DEFINE card == Cardinality(is)
           Upto(i) == {j \in is : j <= i}
           rank == [i \in is |-> Cardinality(Upto(i))]
<1> HIDE DEF is
<1>4. ASSUME NEW i \in is
      PROVE  /\ IsFiniteSet(Upto(i)) /\ Cardinality(Upto(i)) \in 1..card
  <2>1. Upto(i) \in SUBSET is
    OBVIOUS
  <2>2. IsFiniteSet(Upto(i)) /\ Cardinality(Upto(i)) <= card
    BY <1>2, <2>1, FS_Subset, Zenon
  <2>3. Cardinality(Upto(i)) \in Nat
    BY <2>2, FS_CardinalityType
  <2>4. i \in Upto(i)
    BY <1>1
  <2>5. Cardinality(Upto(i)) # 0
    BY <2>2, <2>4, FS_EmptySet
  <2> QED
    BY <1>3, <2>2, <2>3, <2>5
<1>5. ASSUME NEW i \in is, NEW j \in is, i < j
      PROVE  rank[i] # rank[j]
  <2>0. \A k \in is : k \in Nat
    BY <1>1
  <2>1. Upto(i) \in SUBSET Upto(j)
    BY <2>0, <1>5
  <2>2. j \in Upto(j) /\ j \notin Upto(i)
    BY <1>1, <1>5
  <2>3. Cardinality(Upto(i)) # Cardinality(Upto(j))
    BY <1>4, <2>1, <2>2, FS_Subset
  <2> QED
    BY <2>3
<1>6. rank \in [is -> 1..card]
  BY <1>4
<1>7. \A i, j \in is : rank[i] = rank[j] => i = j
  <2> SUFFICES ASSUME NEW i \in is, NEW j \in is, rank[i] = rank[j] PROVE i = j
    BY Zenon
  <2>1. i \in Nat /\ j \in Nat
    BY <1>1
  <2>2. ~(i < j) /\ ~(j < i)
    BY <1>5
  <2> QED
    BY <2>1, <2>2
<1>8. rank \in Surjection(is, 1..card)
  <2>1. IsFiniteSet(1..card) /\ Cardinality(1..card) = card
    BY <1>3, FS_Interval
  <2>2. rank \in Injection(is, 1..card)
    BY <1>6, <1>7, Zenon DEF Injection, IsInjective
  <2> QED
    BY <2>1, <2>2, FS_Injection
<1>9. ASSUME NEW n \in 1..card PROVE Place(n) \in is
  <2>1. PICK i \in is : rank[i] = n
    BY <1>8, Zenon DEF Surjection
  <2>2. Cardinality(Upto(i)) = n
    BY <2>1
  <2> QED
    BY <2>2
<1>10. \A n \in 1..card : list[Place(n)] \in Listed
  <2> TAKE n \in 1..card
  <2>1. Place(n) \in 1..Len(list)
    BY <1>1, <1>9
  <2> QED
    BY <2>1
<1> HIDE DEF Place
<1>11. [n \in 1..card |-> list[Place(n)]] \in Seq(Listed)
  BY <1>3, <1>10
<1>12. Among(list, files) = [n \in 1..card |-> list[Place(n)]]
  BY Zenon DEF Among, is, Place
<1> QED
  BY <1>11, <1>12

-----------------------------------------------------------------------------
(* The steps.                                                              *)

LEMMA VersionsAre == \A v \in Versions : v \in Nat /\ v # 0
  BY PrepAssumption

(* Two facts about a file that has the size the source has it in.          *)
LEMMA SizedIsThere ==
  ASSUME PrepInv, Copying, NEW f \in Listed, dest[f].size = job.of
  PROVE  dest[f] # Absent /\ SameSize(f) /\ (OneVersion => IsWhole(f))
<1>1. job.of \in Nat /\ job.of # 0 /\ job.of \in met
  BY DEF PrepInv, PrepTypeOK, CopiesTheRest
<1>2. dest[f].of \in Nat /\ dest[f].size \in Nat /\ dest[f].size <= dest[f].of
  BY DEF PrepInv, PrepTypeOK, PiecesOfMet
<1>3. dest[f].of # 0 /\ dest[f].of \in met
  BY <1>1, <1>2 DEF PrepInv, PiecesOfMet
<1>4. dest[f] # Absent
  BY <1>1 DEF Absent
<1>5. OneVersion => dest[f].of = job.of
  BY <1>1, <1>3 DEF OneVersion
<1> QED
  BY <1>4, <1>5 DEF SameSize, IsWhole

(* And a whole file has that size while one version was met.               *)
LEMMA WholeIsSized ==
  ASSUME PrepInv, Copying, OneVersion, NEW f \in Listed, IsWhole(f)
  PROVE  SameSize(f)
<1>1. job.of \in met
  BY DEF PrepInv, CopiesTheRest
<1>2. /\ dest[f] \in [of: Nat, size: Nat] /\ dest[f] # Absent /\ dest[f].size = dest[f].of
  BY DEF IsWhole, PrepInv, PrepTypeOK
<1>3. dest[f].of # 0
  BY <1>2 DEF Absent
<1>4. dest[f].of = job.of
  BY <1>1, <1>3 DEF PrepInv, PiecesOfMet, OneVersion
<1> QED
  BY <1>2, <1>4 DEF SameSize

LEMMA PrepStart == PrepInit => PrepInv
<1> SUFFICES ASSUME PrepInit PROVE PrepInv
  OBVIOUS
<1>1. /\ dest = [f \in Listed |-> Absent] /\ archive = NoArchive /\ folder = NoFolder
      /\ job = [at |-> "off", todo |-> <<>>, of |-> 0, via |-> "none", exit |-> "none"]
  BY DEF PrepInit, Listed
<1>2. PrepTypeOK
  BY <1>1 DEF PrepTypeOK, Archives, Absent
<1>3. \A f \in Listed : dest[f] = Absent
  BY <1>1
<1>4. PiecesOfMet /\ FilledInOrder
  BY <1>3, RequiredIs DEF PiecesOfMet, FilledInOrder, Absent
<1> QED
  BY <1>1, <1>2, <1>4
  DEF PrepInv, CopiesTheRest, Copying, OpenIsTorn, OnlyDoneIsOk, StartedIsWhole

(* A step that leaves the files as they are, and neither copies nor ends   *)
(* well.                                                                   *)
LEMMA Elsewhere ==
  ASSUME PrepInv, dest' = dest, met' = met, PrepTypeOK',
         job'.at \notin {"files", "write"}, job'.exit # "ok"
  PROVE  PrepInv'
<1>1. PiecesOfMet' /\ FilledInOrder'
  BY DEF PrepInv, PiecesOfMet, FilledInOrder, OneVersion, IsWhole
<1> QED
  BY <1>1 DEF PrepInv, CopiesTheRest, Copying, OpenIsTorn, OnlyDoneIsOk, StartedIsWhole

LEMMA GoesStep ==
  ASSUME PrepInv, dest' = dest, met' = met, archive' = archive, folder' = folder,
         job.at \in {"main", "download"}, NEW at \in {"download", "receive"}, Goes(at)
  PROVE  PrepInv'
<1>1. job' = [job EXCEPT !.at = at] /\ job.exit # "ok"
  BY DEF Goes, PrepInv, OnlyDoneIsOk
<1>2. job'.at = at /\ job'.exit = job.exit
  BY <1>1 DEF PrepInv, PrepTypeOK
<1>3. PrepTypeOK'
  BY <1>1 DEF PrepInv, PrepTypeOK
<1> QED
  BY <1>1, <1>2, <1>3, Elsewhere

LEMMA FailsStep ==
  ASSUME PrepInv, dest' = dest, met' = met, archive' \in Archives, folder' = folder,
         NEW via \in {"none", "dest", "archive", "folder"}, Exits("failed", via)
  PROVE  PrepInv'
<1>1. job' = [at |-> "off", todo |-> <<>>, of |-> job.of, via |-> via, exit |-> "failed"]
  BY DEF Exits
<1>2. PrepTypeOK'
  BY <1>1 DEF PrepInv, PrepTypeOK
<1> QED
  BY <1>1, <1>2, Elsewhere

(* The list to copy begins with the required files.                        *)
LEMMA CopiesStep ==
  ASSUME PrepInv, dest' = dest, Meets, archive' \in Archives, folder' = folder,
         NEW more \in Seq(Listed), NEW v \in Versions, NEW via \in {"archive", "folder"},
         Copies(Required \o more, v, via)
  PROVE  PrepInv'
<1>1. job' = [at |-> "files", todo |-> Required \o more, of |-> v, via |-> via, exit |-> "none"]
  BY DEF Copies
<1>2. /\ Required \o more \in Seq(Listed) /\ Len(Required \o more) >= Needed
      /\ \A j \in 1..Needed : (Required \o more)[j] = Required[j]
  BY RequiredIs DEF Needed
<1>3. v \in Nat /\ v # 0 /\ met' = met \cup {v}
  BY <1>1, VersionsAre DEF Meets
<1>4. PrepTypeOK'
  BY <1>1, <1>2, <1>3 DEF PrepInv, PrepTypeOK
<1>5. PiecesOfMet'
  BY <1>3 DEF PrepInv, PiecesOfMet
<1>6. FilledInOrder'
  <2>1. OneVersion' => OneVersion
    BY <1>3 DEF OneVersion
  <2> QED
    BY <2>1 DEF PrepInv, FilledInOrder, IsWhole
<1>7. CopiedTo(0)'
  BY <1>1, <1>2, RequiredIs DEF CopiedTo
<1>8. CopiesTheRest'
  BY <1>1, <1>3, <1>7, RequiredIs DEF CopiesTheRest
<1> QED
  BY <1>1, <1>4, <1>5, <1>6, <1>8 DEF PrepInv, OpenIsTorn, OnlyDoneIsOk, StartedIsWhole

LEMMA ExtractsStep ==
  ASSUME PrepInv, dest' = dest, Meets, archive' \in Archives, folder' = folder,
         NEW zip \in Archives, Extracts(zip)
  PROVE  PrepInv'
<1>1. CASE zip.kind = "whole"
  <2>1. zip.of \in Versions
    BY <1>1 DEF Archives, NoArchive
  <2> QED
    BY <1>1, <2>1, CopiesStep, RequiredIs DEF Extracts
<1>2. CASE zip.kind # "whole"
  <2>1. Exits("failed", "archive")
    BY <1>2 DEF Extracts
  <2>2. met' = met
    BY <2>1 DEF Exits, Meets
  <2> QED
    BY <2>1, <2>2, FailsStep
<1> QED
  BY <1>1, <1>2

LEMMA WithoutArchiveStep ==
  ASSUME PrepInv, dest' = dest, Meets, UNCHANGED inputs, job.at = "main", WithoutArchive
  PROVE  PrepInv'
<1>1. archive' \in Archives /\ folder' = folder /\ archive' = archive
  BY DEF inputs, PrepInv, PrepTypeOK
<1>2. CASE ToSet(Required) \subseteq folder.files
  <2>1. Required[1] \in ToSet(Required)
    BY RequiredIs, PrepAssumption
  <2>2. folder.of \in Versions
    BY <1>2, <2>1 DEF PrepInv, PrepTypeOK, NoFolder
  <2>3. Among(Optional, folder.files) \in Seq(Listed)
    BY AmongIs, RequiredIs
  <2>4. Copies(Required \o Among(Optional, folder.files), folder.of, "folder")
    BY <1>2 DEF WithoutArchive
  <2> QED
    BY <1>1, <2>2, <2>3, <2>4, CopiesStep
<1>3. CASE ~(ToSet(Required) \subseteq folder.files)
  <2>1. Goes("download") \/ Exits("failed", "none")
    BY <1>3 DEF WithoutArchive
  <2>2. met' = met
    BY <2>1 DEF Goes, Exits, Meets, PrepInv, PrepTypeOK
  <2> QED
    BY <1>1, <2>1, <2>2, GoesStep, FailsStep
<1> QED
  BY <1>2, <1>3

(* When every required file is there, all but the last one are whole, if   *)
(* one version was met.                                                    *)
LEMMA InPlaceStep ==
  ASSUME PrepInv, dest' = dest, Meets, UNCHANGED inputs, IsExtracted, Exits("ok", "dest")
  PROVE  PrepInv'
<1>1. job' = [at |-> "off", todo |-> <<>>, of |-> job.of, via |-> "dest", exit |-> "ok"]
  BY DEF Exits
<1>2. PrepTypeOK' /\ met' = met
  BY <1>1 DEF PrepInv, PrepTypeOK, inputs, Meets
<1>3. ASSUME OneVersion, NEW i \in 1..Needed, i # Needed
      PROVE  IsWhole(Required[i])
  <2>1. Needed \in 1..Needed /\ i < Needed
    BY <1>3, RequiredIs
  <2>2. dest[Required[Needed]] # Absent
    BY <2>1, RequiredIs DEF IsExtracted
  <2> QED
    BY <1>3, <2>1, <2>2 DEF PrepInv, FilledInOrder
<1>4. PiecesOfMet' /\ FilledInOrder'
  BY <1>2 DEF PrepInv, PiecesOfMet, FilledInOrder, OneVersion, IsWhole
<1>5. StartedIsWhole'
  BY <1>1, <1>2, <1>3, RequiredIs DEF StartedIsWhole, Needed, OneVersion, IsWhole
<1> QED
  BY <1>1, <1>2, <1>4, <1>5 DEF PrepInv, CopiesTheRest, Copying, OpenIsTorn, OnlyDoneIsOk

LEMMA MainStep == ASSUME PrepInv, Main PROVE PrepInv'
<1>1. dest' = dest /\ MainDecides /\ Meets /\ UNCHANGED inputs /\ job.at = "main"
  BY DEF Main
<1>2. archive' \in Archives /\ folder' = folder /\ archive \in Archives
  BY <1>1 DEF inputs, PrepInv, PrepTypeOK
<1>3. CASE archive # NoArchive
  BY <1>1, <1>2, <1>3, ExtractsStep DEF MainDecides
<1>4. CASE archive = NoArchive /\ IsExtracted
  BY <1>1, <1>4, InPlaceStep DEF MainDecides
<1>5. CASE archive = NoArchive /\ ~IsExtracted
  BY <1>1, <1>5, WithoutArchiveStep DEF MainDecides
<1> QED
  BY <1>3, <1>4, <1>5

LEMMA DownloadStep ==
  ASSUME PrepInv, DownloadStarts \/ DownloadFails \/ DownloadEnds
  PROVE  PrepInv'
<1>1. CASE DownloadStarts \/ DownloadFails
  <2>1. archive \in Archives /\ archive' = archive
    BY <1>1 DEF DownloadStarts, OpenPart, DownloadFails, PrepInv, PrepTypeOK
  <2> QED
    BY <1>1, <2>1, GoesStep, FailsStep DEF DownloadStarts, DownloadFails
<1>2. CASE DownloadEnds
  <2>1. archive' \in Archives /\ folder' = folder /\ dest' = dest /\ Meets
    BY <1>2 DEF DownloadEnds
  <2>2. PICK zip \in Archives : zip = archive' /\ Extracts(zip)
    BY <1>2, <2>1 DEF DownloadEnds
  <2> QED
    BY <2>1, <2>2, ExtractsStep
<1> QED
  BY <1>1, <1>2

(* While files are copied, the first of the list is the next required one, *)
(* or all of those have the source's size.                                 *)
LEMMA NextFile ==
  ASSUME PrepInv, Copying, job.todo # <<>>
  PROVE  /\ Head(job.todo) \in Listed
         /\ \E k \in 0..Needed :
              /\ CopiedTo(k)
              /\ k < Needed => k + 1 \in 1..Needed /\ Head(job.todo) = Required[k + 1]
<1>1. job.todo \in Seq(Listed)
  BY DEF PrepInv, PrepTypeOK
<1>2. Head(job.todo) = job.todo[1] /\ Head(job.todo) \in Listed
  BY <1>1
<1>3. PICK k \in 0..Needed : CopiedTo(k)
  BY DEF PrepInv, CopiesTheRest
<1>4. ASSUME k < Needed PROVE k + 1 \in 1..Needed /\ Head(job.todo) = Required[k + 1]
  <2>1. 1 \in 1..(Needed - k) /\ k + 1 \in 1..Needed
    BY <1>4, RequiredIs
  <2> QED
    BY <1>2, <1>3, <2>1 DEF CopiedTo
<1> QED
  BY <1>2, <1>3, <1>4

(* The first file has the source's size, and is taken off the list.        *)
LEMMA ListShrinks ==
  ASSUME PrepInv, Copying, job.todo # <<>>, met' = met,
         job' = [job EXCEPT !.at = "files", !.todo = Tail(@)],
         PrepTypeOK', dest'[Head(job.todo)].size = job.of,
         \A f \in Listed \ {Head(job.todo)} : dest'[f] = dest[f]
  PROVE  CopiesTheRest'
<1> DEFINE todo == job.todo
<1>1. /\ todo \in Seq(Listed) /\ todo # <<>>
      /\ job'.todo = Tail(todo) /\ job'.via = job.via /\ job'.of = job.of
  BY DEF PrepInv, PrepTypeOK
<1> HIDE DEF todo
<1>2. PICK k \in 0..Needed :
        /\ CopiedTo(k)
        /\ k < Needed => k + 1 \in 1..Needed /\ Head(todo) = Required[k + 1]
  BY NextFile DEF todo
<1>3. /\ Len(Tail(todo)) = Len(todo) - 1 /\ Len(todo) \in Nat
      /\ \A j \in 1..(Len(todo) - 1) : Tail(todo)[j] = todo[j + 1]
  BY <1>1
<1>4. /\ \A i \in 1..k : dest[Required[i]].size = job.of
      /\ Len(todo) >= Needed - k
      /\ \A j \in 1..(Needed - k) : todo[j] = Required[k + j]
  BY <1>2 DEF CopiedTo, todo
<1>5. \A i \in 1..Needed : Required[i] \in Listed
  BY RequiredIs
<1>6. \A i \in 1..k : dest'[Required[i]].size = job.of
  <2> TAKE i \in 1..k
  <2>1. i \in 1..Needed
    BY RequiredIs
  <2>2. Required[i] \in Listed /\ dest[Required[i]].size = job.of
    BY <1>4, <1>5, <2>1
  <2> QED
    BY <2>2
<1>7. CASE k < Needed
  <2>1. \A i \in 1..(k + 1) : dest'[Required[i]].size = job.of
    BY <1>2, <1>6, <1>7 DEF todo
  <2>2. \A j \in 1..(Needed - (k + 1)) : Tail(todo)[j] = Required[(k + 1) + j]
    <3> TAKE j \in 1..(Needed - (k + 1))
    <3>1. j + 1 \in 1..(Needed - k) /\ j \in 1..(Len(todo) - 1) /\ k + (j + 1) = (k + 1) + j
      BY <1>3, <1>4, <1>7, RequiredIs
    <3>2. todo[j + 1] = Required[k + (j + 1)]
      BY <1>4, <3>1
    <3> QED
      BY <1>3, <3>1, <3>2
  <2>3. Len(Tail(todo)) >= Needed - (k + 1)
    BY <1>3, <1>4, RequiredIs
  <2>4. CopiedTo(k + 1)'
    BY <1>1, <2>1, <2>2, <2>3 DEF CopiedTo
  <2> QED
    BY <1>1, <1>2, <1>7, <2>4 DEF PrepInv, CopiesTheRest
<1>8. CASE k = Needed
  <2>1. CopiedTo(k)'
    BY <1>1, <1>3, <1>6, <1>8, RequiredIs DEF CopiedTo
  <2> QED
    BY <1>1, <1>2, <2>1 DEF PrepInv, CopiesTheRest
<1> QED
  BY <1>2, <1>7, <1>8, RequiredIs

LEMMA FileKeptStep == ASSUME PrepInv, FileKept PROVE PrepInv'
<1>1. /\ job.at = "files" /\ job.todo # <<>> /\ dest[Head(job.todo)].size = job.of
      /\ job' = [job EXCEPT !.todo = Tail(job.todo)] /\ dest' = dest /\ met' = met
      /\ archive' = archive /\ folder' = folder
  BY DEF FileKept, SameSize, inputs
<1>2. PrepTypeOK'
  <2>1. job.todo \in Seq(Listed)
    BY DEF PrepInv, PrepTypeOK
  <2>2. Tail(job.todo) \in Seq(Listed)
    BY <1>1, <2>1
  <2> QED
    BY <1>1, <2>2 DEF PrepInv, PrepTypeOK
<1>3. job' = [job EXCEPT !.at = "files", !.todo = Tail(job.todo)]
  BY <1>1 DEF PrepInv, PrepTypeOK
<1>4. CopiesTheRest'
  BY <1>1, <1>2, <1>3, ListShrinks DEF Copying
<1>5. job'.at = "files" /\ job'.exit = job.exit
  BY <1>1 DEF PrepInv, PrepTypeOK
<1>6. PiecesOfMet' /\ FilledInOrder'
  BY <1>1 DEF PrepInv, PiecesOfMet, FilledInOrder, OneVersion, IsWhole
<1> QED
  BY <1>1, <1>2, <1>4, <1>5, <1>6 DEF PrepInv, OpenIsTorn, OnlyDoneIsOk, StartedIsWhole

(* A file is opened to be written only when all before it have the size of *)
(* the source's, and it has not.  While one version was met those are      *)
(* whole, it was not, and none after it is there.                          *)
LEMMA FileOpenedStep == ASSUME PrepInv, FileOpened PROVE PrepInv'
<1> DEFINE f == Head(job.todo)
<1>1. /\ job.at = "files" /\ job.todo # <<>> /\ ~SameSize(f)
      /\ dest' = [dest EXCEPT ![f] = [of |-> job.of, size |-> 0]]
      /\ job' = [job EXCEPT !.at = "write"] /\ met' = met
      /\ archive' = archive /\ folder' = folder
  BY DEF FileOpened, Goes, inputs
<1>2. Copying
  BY <1>1 DEF Copying
<1>3. f \in Listed
  BY <1>1, <1>2, NextFile
<1>4. PICK k \in 0..Needed :
        CopiedTo(k) /\ (k < Needed => k + 1 \in 1..Needed /\ f = Required[k + 1])
  BY <1>1, <1>2, NextFile
<1>5. f = Head(job.todo)
  OBVIOUS
<1> HIDE DEF f
<1>6. dest \in [Listed -> [of: Nat, size: Nat]] /\ job.of \in Nat /\ job.of # 0 /\ job.of \in met
  BY <1>2 DEF PrepInv, PrepTypeOK, CopiesTheRest
<1>7. /\ PrepTypeOK' /\ job'.at = "write" /\ job'.via = job.via /\ job'.todo = job.todo
      /\ job'.exit = job.exit /\ job'.of = job.of
  BY <1>1, <1>6 DEF PrepInv, PrepTypeOK
<1>8. /\ dest'[f] = [of |-> job.of, size |-> 0]
      /\ \A g \in Listed : g # f => dest'[g] = dest[g]
  BY <1>1, <1>3, <1>6
<1>9. \A i \in 1..Needed :
        /\ Required[i] \in Listed
        /\ Required[i] # f => dest'[Required[i]] = dest[Required[i]]
  BY <1>8, RequiredIs
<1>10. \A i \in 1..k : /\ i \in 1..Needed /\ Required[i] # f /\ dest[Required[i]].size = job.of
                       /\ OneVersion => IsWhole(Required[i])
  <2> SUFFICES ASSUME NEW i \in 1..k
               PROVE  /\ i \in 1..Needed /\ Required[i] # f /\ dest[Required[i]].size = job.of
                      /\ OneVersion => IsWhole(Required[i])
    OBVIOUS
  <2>1. i \in 1..Needed /\ dest[Required[i]].size = job.of
    BY <1>4, RequiredIs DEF CopiedTo
  <2>2. Required[i] \in Listed
    BY <1>9, <2>1
  <2>3. SameSize(Required[i]) /\ (OneVersion => IsWhole(Required[i]))
    BY <1>2, <2>1, <2>2, SizedIsThere
  <2> QED
    BY <1>1, <2>1, <2>3
<1>11. CopiesTheRest'
  <2>1. \A i \in 1..k : dest'[Required[i]].size = job'.of
    BY <1>7, <1>9, <1>10
  <2>2. CopiedTo(k)'
    BY <1>4, <1>7, <2>1 DEF CopiedTo
  <2> QED
    BY <1>1, <1>2, <1>4, <1>6, <1>7, <2>2 DEF PrepInv, CopiesTheRest
<1>12. FilledInOrder'
  <2> SUFFICES ASSUME OneVersion', NEW i \in 1..Needed, NEW j \in 1..Needed, i < j,
                      dest'[Required[j]] # Absent
               PROVE  IsWhole(Required[i])'
    BY DEF FilledInOrder
  <2>1. OneVersion
    BY <1>1 DEF OneVersion
  <2>2. ~IsWhole(f)
    BY <1>1, <1>2, <1>3, <2>1, WholeIsSized
  <2>3. IsWhole(Required[i])
    <3>1. CASE Required[j] # f
      BY <1>9, <2>1, <3>1 DEF PrepInv, FilledInOrder
    <3>2. CASE Required[j] = f
      <4>1. k < Needed
        BY <1>4, <1>10, <3>2, RequiredIs
      <4>2. j = k + 1
        BY <1>4, <3>2, <4>1, RequiredIs, PrepAssumption
      <4>3. i \in 1..k
        BY <1>4, <4>2, RequiredIs
      <4> QED
        BY <1>10, <2>1, <4>3
    <3> QED
      BY <3>1, <3>2
  <2>4. dest'[Required[i]] = dest[Required[i]]
    BY <1>9, <2>2, <2>3
  <2> QED
    BY <2>3, <2>4 DEF IsWhole
<1>13. PiecesOfMet'
  <2> SUFFICES ASSUME NEW g \in Listed
               PROVE  dest'[g].size <= dest'[g].of /\ (dest'[g].of # 0 => dest'[g].of \in met')
    BY DEF PiecesOfMet
  <2>1. CASE g = f
    BY <1>1, <1>6, <1>8, <2>1
  <2>2. CASE g # f
    BY <1>1, <1>8, <2>2 DEF PrepInv, PiecesOfMet
  <2> QED
    BY <2>1, <2>2
<1>14. OpenIsTorn'
  <2>1. Head(job'.todo) = f /\ job'.todo # <<>>
    BY <1>1, <1>5, <1>7
  <2> QED
    BY <1>6, <1>7, <1>8, <2>1 DEF OpenIsTorn
<1>15. job'.exit # "ok"
  BY <1>1, <1>7 DEF PrepInv, OnlyDoneIsOk
<1> QED
  BY <1>7, <1>11, <1>12, <1>13, <1>14, <1>15 DEF PrepInv, OnlyDoneIsOk, StartedIsWhole

(* A chunk makes the open file longer, or complete.                        *)
LEMMA ChunkWrittenStep == ASSUME PrepInv, ChunkWritten PROVE PrepInv'
<1> DEFINE f == Head(job.todo)
<1>1. /\ job.at = "write" /\ job.todo # <<>> /\ met' = met
      /\ dest' = [dest EXCEPT ![f].size = dest[f].size + 1]
      /\ dest[f].of = job.of /\ dest[f].size < job.of
      /\ archive' = archive /\ folder' = folder
  BY DEF ChunkWritten, PrepInv, OpenIsTorn, inputs
<1>2. \/ job' = job /\ dest'[f] # Whole(job.of)
      \/ job' = [job EXCEPT !.at = "files", !.todo = Tail(@)] /\ dest'[f] = Whole(job.of)
  BY DEF ChunkWritten
<1>3. Copying
  BY <1>1 DEF Copying
<1>4. f \in Listed
  BY <1>1, <1>3, NextFile
<1>5. /\ dest \in [Listed -> [of: Nat, size: Nat]] /\ job.todo \in Seq(Listed)
      /\ job.of \in Nat /\ job.of # 0 /\ job.of \in met
  BY <1>3 DEF PrepInv, PrepTypeOK, CopiesTheRest
<1>6. PICK n \in Nat : n = dest[f].size + 1 /\ n <= job.of
  BY <1>1, <1>4, <1>5
<1>7. /\ dest'[f] = [of |-> job.of, size |-> n]
      /\ \A g \in Listed : g # f => dest'[g] = dest[g]
  <2>1. dest[f] \in [of: Nat, size: Nat]
    BY <1>4, <1>5
  <2>2. dest'[f] = [dest[f] EXCEPT !.size = dest[f].size + 1]
    BY <1>1, <1>4, <1>5
  <2>3. dest'[f] = [of |-> job.of, size |-> n]
    BY <1>1, <1>6, <2>1, <2>2
  <2> QED
    BY <1>1, <1>4, <1>5, <2>3
<1>8. dest' \in [Listed -> [of: Nat, size: Nat]]
  <2>1. DOMAIN dest' = Listed /\ dest' = [g \in Listed |-> dest'[g]]
    BY <1>1, <1>5
  <2>2. \A g \in Listed : dest'[g] \in [of: Nat, size: Nat]
    BY <1>5, <1>7
  <2> QED
    BY <2>1, <2>2
<1>9. PrepTypeOK' /\ job'.exit = job.exit /\ job'.of = job.of
  <2>1. Tail(job.todo) \in Seq(Listed)
    BY <1>1, <1>5
  <2> QED
    BY <1>1, <1>2, <1>8, <2>1 DEF PrepInv, PrepTypeOK
<1>10. dest[f].size # job.of /\ ~IsWhole(f)
  BY <1>1, <1>4, <1>5 DEF IsWhole
<1>11. CopiesTheRest'
  <2>1. CASE job' = [job EXCEPT !.at = "files", !.todo = Tail(@)] /\ dest'[f] = Whole(job.of)
    <3>1. dest'[f].size = job.of
      BY <2>1 DEF Whole
    <3> QED
      BY <1>1, <1>3, <1>7, <1>9, <2>1, <3>1, ListShrinks
  <2>2. CASE job' = job
    <3>1. PICK k \in 0..Needed : CopiedTo(k)
      BY <1>3 DEF PrepInv, CopiesTheRest
    <3>2. \A i \in 1..k : dest'[Required[i]].size = job.of
      <4> TAKE i \in 1..k
      <4>1. Required[i] \in Listed /\ dest[Required[i]].size = job.of
        BY <3>1, RequiredIs DEF CopiedTo
      <4> QED
        BY <1>7, <1>10, <4>1
    <3>3. CopiedTo(k)'
      BY <2>2, <3>1, <3>2 DEF CopiedTo
    <3> QED
      BY <1>1, <1>3, <2>2, <3>3 DEF PrepInv, CopiesTheRest
  <2> QED
    BY <1>2, <2>1, <2>2
<1>12. OpenIsTorn'
  <2>1. CASE job' = [job EXCEPT !.at = "files", !.todo = Tail(@)]
    BY <2>1 DEF OpenIsTorn, PrepInv, PrepTypeOK
  <2>2. CASE job' = job /\ dest'[f] # Whole(job.of)
    <3>1. n # job.of
      BY <1>7, <2>2 DEF Whole
    <3>2. n < job.of /\ dest'[f].of = job.of /\ dest'[f].size = n
      BY <1>5, <1>6, <1>7, <3>1
    <3> QED
      BY <1>1, <2>2, <3>2 DEF OpenIsTorn
  <2> QED
    BY <1>2, <2>1, <2>2
<1> HIDE DEF f
<1>13. FilledInOrder'
  <2> SUFFICES ASSUME OneVersion', NEW i \in 1..Needed, NEW j \in 1..Needed, i < j,
                      dest'[Required[j]] # Absent
               PROVE  IsWhole(Required[i])'
    BY DEF FilledInOrder
  <2>1. OneVersion
    BY <1>1 DEF OneVersion
  <2>2. dest[f] # Absent
    BY <1>1, <1>5 DEF Absent
  <2>3. dest[Required[j]] # Absent
    BY <1>7, <2>2, RequiredIs
  <2>4. IsWhole(Required[i])
    BY <2>1, <2>3 DEF PrepInv, FilledInOrder
  <2>5. dest'[Required[i]] = dest[Required[i]]
    BY <1>7, <1>10, <2>4, RequiredIs
  <2> QED
    BY <2>4, <2>5 DEF IsWhole
<1>14. PiecesOfMet'
  <2> SUFFICES ASSUME NEW g \in Listed
               PROVE  dest'[g].size <= dest'[g].of /\ (dest'[g].of # 0 => dest'[g].of \in met')
    BY DEF PiecesOfMet
  <2>1. CASE g = f
    BY <1>1, <1>5, <1>6, <1>7, <2>1
  <2>2. CASE g # f
    BY <1>1, <1>7, <2>2 DEF PrepInv, PiecesOfMet
  <2> QED
    BY <2>1, <2>2
<1>15. job'.exit # "ok"
  BY <1>1, <1>9 DEF PrepInv, OnlyDoneIsOk
<1> QED
  BY <1>9, <1>11, <1>12, <1>13, <1>14, <1>15 DEF PrepInv, OnlyDoneIsOk, StartedIsWhole

(* A run that has copied its whole list leaves every required file in the  *)
(* size of the source's, and whole if one version was met.                 *)
LEMMA EndsStep == ASSUME PrepInv, Ends PROVE PrepInv'
<1>1. /\ job.at = "files" /\ job.todo = <<>> /\ dest' = dest /\ met' = met
      /\ job' = [at |-> "off", todo |-> <<>>, of |-> job.of, via |-> job.via, exit |-> "ok"]
      /\ archive' = archive /\ folder' = folder
  BY DEF Ends, Exits, inputs
<1>2. PrepTypeOK'
  BY <1>1 DEF PrepInv, PrepTypeOK
<1>3. PICK k \in 0..Needed : CopiedTo(k)
  BY <1>1 DEF PrepInv, CopiesTheRest, Copying
<1>4. k = Needed
  BY <1>1, <1>3, RequiredIs DEF CopiedTo
<1>5. \A i \in 1..Needed : dest[Required[i]].size = job.of
  BY <1>3, <1>4 DEF CopiedTo
<1>6. \A i \in 1..Needed : OneVersion => IsWhole(Required[i])
  BY <1>1, <1>5, SizedIsThere, RequiredIs DEF Copying
<1>7. StartedIsWhole'
  BY <1>1, <1>5, <1>6, RequiredIs DEF StartedIsWhole, OneVersion, IsWhole
<1>8. PiecesOfMet' /\ FilledInOrder'
  BY <1>1 DEF PrepInv, PiecesOfMet, FilledInOrder, OneVersion, IsWhole
<1> QED
  BY <1>1, <1>2, <1>7, <1>8 DEF PrepInv, CopiesTheRest, Copying, OpenIsTorn, OnlyDoneIsOk

(* The script is started, dies, or a person changes ./data.                *)
LEMMA OutsideStep == ASSUME PrepInv, Start \/ Dies \/ Person PROVE PrepInv'
<1>1. CASE Start
  <2>1. /\ dest' = dest /\ met' = met /\ archive' = archive /\ folder' = folder
        /\ job' = [at |-> "main", todo |-> <<>>, of |-> 0, via |-> "none", exit |-> "none"]
    BY <1>1 DEF Start, inputs
  <2>2. PrepTypeOK'
    BY <2>1 DEF PrepInv, PrepTypeOK
  <2> QED
    BY <2>1, <2>2, Elsewhere
<1>2. CASE Dies
  <2>1. /\ dest' = dest /\ met' = met /\ archive' \in Archives /\ folder' = folder
        /\ Exits("failed", job.via) /\ job.via \in {"none", "dest", "archive", "folder"}
    BY <1>2 DEF Dies, inputs, PrepInv, PrepTypeOK
  <2> QED
    BY <2>1, FailsStep
<1>3. CASE Person
  <2>1. dest' = dest /\ met' = met /\ job' = job /\ job.at = "off"
    BY <1>3 DEF Person
  <2>2. archive' \in Archives
    BY <1>3 DEF Person, PrepInv, PrepTypeOK
  <2>3. folder' \in [files: SUBSET Listed, of: Versions] \cup {NoFolder}
    <3>1. ToSet(Required) \subseteq Listed /\ DOMAIN dest = Listed
      BY RequiredIs DEF PrepInv, PrepTypeOK
    <3>2. ToSet(Tail(Required)) \subseteq Listed
      <4>1. Required \in Seq(Listed) /\ Required # <<>>
        BY RequiredIs, PrepAssumption
      <4>2. Tail(Required) \in Seq(Listed)
        BY <4>1
      <4> QED
        BY <4>2 DEF ToSet
    <3> QED
      BY <1>3, <3>1, <3>2 DEF Person, PrepInv, PrepTypeOK
  <2>4. PrepTypeOK'
    BY <2>1, <2>2, <2>3 DEF PrepInv, PrepTypeOK
  <2>5. PiecesOfMet' /\ FilledInOrder' /\ StartedIsWhole'
    BY <2>1 DEF PrepInv, PiecesOfMet, FilledInOrder, OneVersion, IsWhole, StartedIsWhole
  <2> QED
    BY <2>1, <2>4, <2>5 DEF PrepInv, CopiesTheRest, Copying, OpenIsTorn, OnlyDoneIsOk
<1> QED
  BY <1>1, <1>2, <1>3

LEMMA PrepPreserves == PrepInv /\ [PrepNext]_prep => PrepInv'
<1> SUFFICES ASSUME PrepInv, [PrepNext]_prep PROVE PrepInv'
  OBVIOUS
<1>1. CASE UNCHANGED prep
  BY <1>1 DEF prep, PrepInv, PrepTypeOK, PiecesOfMet, FilledInOrder, CopiesTheRest, Copying, CopiedTo,
              OpenIsTorn, OnlyDoneIsOk, StartedIsWhole, OneVersion, IsWhole
<1> QED
  BY <1>1, MainStep, DownloadStep, FileKeptStep, FileOpenedStep, ChunkWrittenStep, EndsStep, OutsideStep
  DEF PrepNext, Works

-----------------------------------------------------------------------------
(* data_prep.py, main, whose good end lets the other services start        *)
(* (docker-compose.yml, service_completed_successfully): after a run over  *)
(* the files each required file has the size of the source's; and while    *)
(* one version of the dataset was met it is whole, in whatever order the   *)
(* runs before died, but for the last one if this run found every file in  *)
(* place.                                                                  *)
THEOREM StartsWhole == EvalSpec => []StartedIsWhole
<1>1. EvalInit => PrepInv
  BY PrepStart DEF EvalInit
<1>2. PrepInv /\ [EvalNext]_<<run, prep>> => PrepInv'
  BY PrepPreserves DEF EvalNext, PrepStep, EvalStep
<1>3. PrepInv => StartedIsWhole
  BY DEF PrepInv
<1> QED
  BY <1>1, <1>2, <1>3, PTL DEF EvalSpec
=============================================================================
