--------------------------- MODULE SnapshotProofs ---------------------------
(***************************************************************************)
(* For any number of fetches, readers, days and files: a day's folder is     *)
(* never a mix of two fetches, a fetch that succeeds left the whole of its   *)
(* snapshot, and a reader whose folder was not replaced meanwhile has read   *)
(* one snapshot, also where files of another kind come at any time.  The     *)
(* argument is one about ownership: a temporary folder only ever holds what *)
(* its own writer put there, and it is renamed whole.                       *)
(* And of an AWS account that changes while it is listed, for any number of  *)
(* queues, functions, changes and fetches: the findings were true once.      *)
(***************************************************************************)
EXTENDS SnapshotFolder, AwsSnapshot, TLAPS

(* The files of f that are there are all of version v.                      *)
OnlyOf(f, v) == \A k \in Keys : f[k] \in {v, Absent}

(* What a writer has at hand in each of its phases.                         *)
OwnTemp ==
  \A w \in Writers :
    /\ temp[w] # Absent => OnlyOf(temp[w], w)
    /\ pc[w] = "start" => temp[w] = Absent
    /\ PastTheLook(w) => temp[w] # Absent /\ (day[w] \in foreign => w \in unaware)
    /\ pc[w] \in {"removing", "renaming"} => Whole(temp[w], w)

(* A reader has read of one version, and the folder it goes on reading has   *)
(* no other, unless that folder was replaced.                               *)
OneSource(r, v) ==
  /\ OnlyOf(seen[r], v)
  /\ from[r] \in Days /\ dirs[from[r]] # Absent => OnlyOf(dirs[from[r]], v)
  /\ from[r] \in Writers => v = from[r]

ReadersKeepOneSource ==
  \A r \in Readers :
    /\ rpc[r] = "start" => seen[r] = Empty
    /\ rpc[r] = "reading" => from[r] \in Days \cup Writers
    /\ rpc[r] = "reading" /\ ~swapped[r] => \E v \in Versions : OneSource(r, v)

IInv ==
  /\ TypeOK
  /\ NeverMixed
  /\ NoTempLeft
  /\ OwnTemp
  /\ ReadersKeepOneSource
  /\ ReadIsOneSnapshot

-----------------------------------------------------------------------------
(* A folder that is not mixed is of some version.                           *)
LEMMA UnmixedIsOfOneVersion ==
  ASSUME NEW f \in Folder, \A j, k \in Written(f) : f[j] = f[k]
  PROVE  \E v \in Versions : OnlyOf(f, v)
<1>1. CASE Written(f) = {}
  BY <1>1 DEF Written, OnlyOf, Versions
<1>2. CASE Written(f) # {}
  <2>1. PICK k \in Written(f) : TRUE
    BY <1>2
  <2>2. f[k] \in Versions
    BY <2>1 DEF Written, Folder
  <2>3. OnlyOf(f, f[k])
    BY <2>1 DEF Written, OnlyOf
  <2> QED
    BY <2>2, <2>3
<1> QED
  BY <1>1, <1>2

(* Conversely, a folder of one version is not mixed.                        *)
LEMMA OnlyOfIsUnmixed ==
  ASSUME NEW f, NEW v, OnlyOf(f, v)
  PROVE  \A j, k \in Written(f) : f[j] = f[k]
BY DEF OnlyOf, Written

LEMMA EmptyIsAFolder == Empty \in Folder /\ Empty # Absent
BY AbsentAssumption DEF Empty, Folder

-----------------------------------------------------------------------------
LEMMA InitIInv == Init => IInv
<1> SUFFICES ASSUME Init PROVE IInv
  OBVIOUS
<1> USE DEF Init
<1>1. TypeOK
  <2>1. [k \in Keys |-> Old] \in Folder /\ Empty \in Folder
    BY DEF Folder, Empty, Versions
  <2>2. dirs \in [Days -> Folder \cup {Absent}]
    BY <2>1
  <2>3. foreign \subseteq Days /\ late \in 0..MaxLate
    BY KeyAssumption
  <2> QED
    BY <2>1, <2>2, <2>3 DEF TypeOK
<1>2. NeverMixed
  BY DEF NeverMixed, Written
<1>3. NoTempLeft
  BY DEF NoTempLeft
<1>4. OwnTemp
  BY DEF OwnTemp, PastTheLook
<1>5. ReadersKeepOneSource /\ ReadIsOneSnapshot
  BY DEF ReadersKeepOneSource, ReadIsOneSnapshot
<1> QED
  BY <1>1, <1>2, <1>3, <1>4, <1>5 DEF IInv

(* A step that leaves the days and the readers alone, and no file of a       *)
(* temporary folder to another than its owner.                              *)
LEMMA NothingShownChanges ==
  ASSUME IInv, UNCHANGED <<dirs, reading>>
  PROVE  NeverMixed' /\ ReadersKeepOneSource' /\ ReadIsOneSnapshot'
<1> USE DEF IInv, reading
<1>1. NeverMixed'
  BY DEF NeverMixed
<1>2. \A r, v : OneSource(r, v) => OneSource(r, v)'
  BY DEF OneSource
<1>3. ReadersKeepOneSource'
  BY <1>2 DEF ReadersKeepOneSource
<1>4. ReadIsOneSnapshot'
  BY DEF ReadIsOneSnapshot
<1> QED
  BY <1>1, <1>3, <1>4

(* A day's folder loses files or goes: what is read of it stays of one       *)
(* version.                                                                 *)
LEMMA FilesOnlyGo ==
  ASSUME IInv, NEW d \in Days,
         dirs' \in [Days -> Folder \cup {Absent}],
         \A e \in Days : e # d => dirs'[e] = dirs[e],
         dirs'[d] # Absent => \A k \in Keys :
           dirs'[d][k] = Absent \/ (dirs[d] # Absent /\ dirs'[d][k] = dirs[d][k]),
         UNCHANGED reading
  PROVE  NeverMixed' /\ ReadersKeepOneSource' /\ ReadIsOneSnapshot'
<1> USE DEF IInv, reading
<1>1. NeverMixed'
  BY DEF NeverMixed, Written
<1>2. \A r, v : OneSource(r, v) => OneSource(r, v)'
  BY DEF OneSource, OnlyOf
<1>3. ReadersKeepOneSource'
  BY <1>2 DEF ReadersKeepOneSource
<1>4. ReadIsOneSnapshot'
  BY DEF ReadIsOneSnapshot
<1> QED
  BY <1>1, <1>3, <1>4

-----------------------------------------------------------------------------
LEMMA RefuseStep == ASSUME IInv, NEW w \in Writers, Refuse(w) PROVE IInv'
<1> USE DEF IInv, PastTheLook, others, Refuse
<1>1. TypeOK'
  BY DEF TypeOK, reading
<1>2. NoTempLeft' /\ OwnTemp'
  BY DEF NoTempLeft, OwnTemp, TypeOK
<1> QED
  BY <1>1, <1>2, NothingShownChanges

LEMMA MakeTempStep == ASSUME IInv, NEW w \in Writers, MakeTemp(w) PROVE IInv'
<1> USE DEF IInv, PastTheLook, others, MakeTemp
<1>1. TypeOK'
  BY EmptyIsAFolder DEF TypeOK, reading
<1>2. OwnTemp'
  BY EmptyIsAFolder DEF OwnTemp, TypeOK, OnlyOf, Empty, MayReplace
<1>3. NoTempLeft'
  BY DEF NoTempLeft, TypeOK
<1> QED
  BY <1>1, <1>2, <1>3, NothingShownChanges

LEMMA WriteKeyStep == ASSUME IInv, NEW w \in Writers, WriteKey(w) PROVE IInv'
<1> USE DEF IInv, PastTheLook, others, WriteKey
<1>1. PICK k \in Keys : temp' = [temp EXCEPT ![w][k] = w]
  OBVIOUS
<1>2. temp[w] \in Folder
  BY DEF OwnTemp, TypeOK
<1>3. temp'[w] \in Folder /\ temp'[w] = [temp[w] EXCEPT ![k] = w]
  BY <1>1, <1>2 DEF TypeOK, Folder, Versions
<1>4. \A v \in Writers : v # w => temp'[v] = temp[v]
  BY <1>1 DEF TypeOK
<1>5. TypeOK'
  BY <1>1, <1>3 DEF TypeOK, reading
<1>6. temp'[w] # Absent
  BY <1>3, AbsentAssumption
<1>7. OnlyOf(temp'[w], w)
  BY <1>2, <1>3, AbsentAssumption DEF OwnTemp, OnlyOf, Folder
<1>8. OwnTemp'
  BY <1>4, <1>6, <1>7 DEF OwnTemp, OnlyOf
<1>9. NoTempLeft'
  BY <1>4 DEF NoTempLeft
<1> QED
  BY <1>5, <1>8, <1>9, NothingShownChanges

LEMMA StartRemovingStep == ASSUME IInv, NEW w \in Writers, StartRemoving(w) PROVE IInv'
<1> USE DEF IInv, PastTheLook, others, StartRemoving
<1>1. TypeOK'
  BY DEF TypeOK, reading
<1>2. Whole(temp[w], w)
  BY DEF OwnTemp, OnlyOf, AllWritten, Written, Whole
<1>3. NoTempLeft' /\ OwnTemp'
  BY <1>2 DEF NoTempLeft, OwnTemp, TypeOK
<1> QED
  BY <1>1, <1>3, NothingShownChanges

LEMMA RemoveEntryStep == ASSUME IInv, NEW w \in Writers, RemoveEntry(w) PROVE IInv'
<1> USE DEF IInv, PastTheLook, others, RemoveEntry, writing
<1>1. PICK k \in Written(dirs[day[w]]) : dirs' = [dirs EXCEPT ![day[w]][k] = Absent]
  OBVIOUS
<1>2. day[w] \in Days /\ dirs[day[w]] \in Folder
  BY DEF TypeOK
<1>3. dirs' \in [Days -> Folder \cup {Absent}]
  BY <1>1, <1>2 DEF TypeOK, Folder, Written
<1>4. \A e \in Days : e # day[w] => dirs'[e] = dirs[e]
  BY <1>1, <1>2 DEF TypeOK
<1>5. \A j \in Keys : dirs'[day[w]][j] \in {dirs[day[w]][j], Absent}
  BY <1>1, <1>2 DEF TypeOK, Folder
<1>6. TypeOK'
  BY <1>3 DEF TypeOK, reading
<1>7. NoTempLeft' /\ OwnTemp'
  BY DEF NoTempLeft, OwnTemp
<1> QED
  BY <1>2, <1>3, <1>4, <1>5, <1>6, <1>7, FilesOnlyGo

LEMMA RemoveForeignStep == ASSUME IInv, NEW w \in Writers, RemoveForeign(w) PROVE IInv'
<1> USE DEF IInv, RemoveForeign
<1>1. TypeOK'
  BY DEF TypeOK, writing, reading
<1>2. NoTempLeft' /\ OwnTemp'
  BY DEF NoTempLeft, OwnTemp, PastTheLook, writing
<1> QED
  BY <1>1, <1>2, NothingShownChanges

(* A file of another kind comes: those past their look do not know of it.   *)
LEMMA AddForeignStep == ASSUME IInv, NEW d \in Days, AddForeign(d) PROVE IInv'
<1> USE DEF IInv, AddForeign, writing
<1>1. dirs' \in [Days -> Folder \cup {Absent}]
  BY EmptyIsAFolder DEF TypeOK
<1>2. \A e \in Days : e # d => dirs'[e] = dirs[e]
  BY DEF TypeOK
<1>3. dirs'[d] # Absent => \A k \in Keys :
        dirs'[d][k] = Absent \/ (dirs[d] # Absent /\ dirs'[d][k] = dirs[d][k])
  BY DEF TypeOK, Empty
<1>4. TypeOK'
  <2>1. late' \in 0..MaxLate
    BY KeyAssumption DEF TypeOK
  <2> QED
    BY <1>1, <2>1 DEF TypeOK, reading
<1>5. NoTempLeft'
  BY DEF NoTempLeft
<1>6. OwnTemp'
  BY DEF OwnTemp, PastTheLook
<1> QED
  BY <1>1, <1>2, <1>3, <1>4, <1>5, <1>6, FilesOnlyGo

LEMMA RemovedStep == ASSUME IInv, NEW w \in Writers, Removed(w) PROVE IInv'
<1> USE DEF IInv, PastTheLook, others, Removed
<1>1. day[w] \in Days
  BY DEF TypeOK
<1>2. dirs' \in [Days -> Folder \cup {Absent}]
  BY <1>1 DEF TypeOK
<1>3. dirs'[day[w]] = Absent /\ \A e \in Days : e # day[w] => dirs'[e] = dirs[e]
  BY <1>1 DEF TypeOK
<1>4. TypeOK'
  BY <1>2 DEF TypeOK, reading
<1>5. NoTempLeft' /\ OwnTemp'
  BY DEF NoTempLeft, OwnTemp, TypeOK
<1> QED
  BY <1>1, <1>2, <1>3, <1>4, <1>5, FilesOnlyGo

LEMMA RenameStep == ASSUME IInv, NEW w \in Writers, Rename(w) PROVE IInv'
<1> USE DEF IInv, PastTheLook, others, Rename
<1>1. day[w] \in Days /\ temp[w] \in Folder /\ Whole(temp[w], w)
  BY DEF TypeOK, OwnTemp
<1>2. dirs'[day[w]] = temp[w] /\ \A e \in Days : e # day[w] => dirs'[e] = dirs[e]
  BY <1>1 DEF TypeOK
<1>3. TypeOK'
  BY <1>1 DEF TypeOK
<1>4. NeverMixed'
  BY <1>1, <1>2 DEF NeverMixed, Written, Whole
<1>5. NoTempLeft' /\ OwnTemp'
  BY DEF NoTempLeft, OwnTemp, TypeOK
<1>6. ASSUME NEW r \in Readers, rpc[r] = "reading", ~swapped'[r]
      PROVE  from[r] # day[w] /\ ~swapped[r]
  BY <1>6 DEF TypeOK
<1>7. ASSUME NEW r, NEW v, from[r] # day[w], OneSource(r, v) PROVE OneSource(r, v)'
  BY <1>2, <1>7 DEF OneSource, OnlyOf
<1>8. ReadersKeepOneSource'
  BY <1>6, <1>7 DEF ReadersKeepOneSource
<1>9. ReadIsOneSnapshot'
  BY DEF ReadIsOneSnapshot, TypeOK
<1> QED
  BY <1>3, <1>4, <1>5, <1>8, <1>9

LEMMA CatchStep ==
  ASSUME IInv, NEW w \in Writers, NotEmpty(w) \/ Throws(w)
  PROVE  IInv'
<1> USE DEF IInv, PastTheLook, others, NotEmpty, Throws
<1>1. TypeOK'
  BY DEF TypeOK, reading
<1>2. NoTempLeft' /\ OwnTemp'
  BY DEF NoTempLeft, OwnTemp, TypeOK
<1> QED
  BY <1>1, <1>2, NothingShownChanges

LEMMA CleanUpStep == ASSUME IInv, NEW w \in Writers, CleanUp(w) PROVE IInv'
<1> USE DEF IInv, PastTheLook, others, CleanUp
<1>1. TypeOK'
  BY DEF TypeOK, reading
<1>2. NoTempLeft' /\ OwnTemp'
  BY DEF NoTempLeft, OwnTemp, TypeOK
<1> QED
  BY <1>1, <1>2, NothingShownChanges

LEMMA KillStep == ASSUME IInv, NEW w \in Writers, Kill(w) PROVE IInv'
<1> USE DEF IInv, PastTheLook, others, Kill
<1>1. TypeOK'
  BY DEF TypeOK, reading
<1>2. NoTempLeft' /\ OwnTemp'
  BY DEF NoTempLeft, OwnTemp, TypeOK
<1> QED
  BY <1>1, <1>2, NothingShownChanges

-----------------------------------------------------------------------------
(* A reader that opens a folder: of one version, as no folder is a mix.     *)
LEMMA StartReadingStep == ASSUME IInv, NEW r \in Readers, StartReading(r) PROVE IInv'
<1> USE DEF IInv, PastTheLook, others, StartReading, writing
<1>1. PICK f \in Readable : from' = [from EXCEPT ![r] = f]
  OBVIOUS
<1>2. f \in Days \cup Writers
  BY DEF Readable, Present
<1>3. f \in Days => dirs[f] \in Folder
  BY VersionAssumption DEF Readable, Present, TypeOK
<1>4. TypeOK'
  BY <1>1, <1>2 DEF TypeOK
<1>5. seen[r] = Empty
  BY DEF ReadersKeepOneSource
<1>6. PICK v \in Versions : /\ f \in Days => OnlyOf(dirs[f], v)
                            /\ f \in Writers => v = f
  <2>1. CASE f \in Writers
    BY <2>1, VersionAssumption DEF Versions
  <2>2. CASE f \in Days
    <3>1. \A j, k \in Written(dirs[f]) : dirs[f][j] = dirs[f][k]
      BY <2>2, <1>3, AbsentAssumption DEF NeverMixed
    <3>2. \E v \in Versions : OnlyOf(dirs[f], v)
      BY <3>1, <2>2, <1>3, UnmixedIsOfOneVersion
    <3> QED
      BY <3>2, <2>2, VersionAssumption
  <2> QED
    BY <2>1, <2>2, <1>2
<1>7. from'[r] = f /\ \A q \in Readers : q # r => from'[q] = from[q] /\ rpc'[q] = rpc[q]
  BY <1>1 DEF TypeOK
<1>8. OneSource(r, v)'
  BY <1>5, <1>6, <1>7 DEF OneSource, OnlyOf, Empty
<1>9. \A q \in Readers : \A u \in Versions : q # r /\ OneSource(q, u) => OneSource(q, u)'
  BY <1>7 DEF OneSource
<1>10. ReadersKeepOneSource'
  <2>1. rpc'[r] = "reading"
    BY DEF TypeOK
  <2> QED
    BY <1>2, <1>7, <1>8, <1>9, <2>1 DEF ReadersKeepOneSource
<1>11. ReadIsOneSnapshot'
  BY <1>7 DEF ReadIsOneSnapshot, TypeOK
<1>12. NeverMixed' /\ NoTempLeft' /\ OwnTemp'
  BY DEF NeverMixed, NoTempLeft, OwnTemp
<1> QED
  BY <1>4, <1>10, <1>11, <1>12

(* A reader that finds the next file adds a file of its one version.        *)
LEMMA ReadKeyStep == ASSUME IInv, NEW r \in Readers, ReadKey(r) PROVE IInv'
<1> USE DEF IInv, PastTheLook, others, ReadKey, writing
<1>1. PICK k \in Keys :
        /\ Written(seen[r]) = 1..(k - 1)
        /\ IF Contents(from[r]) # Absent /\ Contents(from[r])[k] # Absent
             THEN /\ seen' = [seen EXCEPT ![r][k] = Contents(from[r])[k]]
                  /\ rpc' = IF k = LastKey THEN [rpc EXCEPT ![r] = "read"] ELSE rpc
             ELSE /\ rpc' = [rpc EXCEPT ![r] = "unreadable"]
                  /\ UNCHANGED seen
  OBVIOUS
<1> DEFINE f == Contents(from[r])
<1>2. f \in Folder \cup {Absent}
  BY DEF Contents, ReadersKeepOneSource, TypeOK
<1>3. NeverMixed' /\ NoTempLeft' /\ OwnTemp'
  BY DEF NeverMixed, NoTempLeft, OwnTemp
<1>4. CASE f # Absent /\ f[k] # Absent
  <2>1. seen' = [seen EXCEPT ![r][k] = f[k]] /\ f[k] \in Versions
    BY <1>1, <1>2, <1>4 DEF Folder
  <2>2. seen[r] \in Folder /\ seen'[r] = [seen[r] EXCEPT ![k] = f[k]]
    BY <2>1 DEF TypeOK
  <2>3. rpc' = IF k = LastKey THEN [rpc EXCEPT ![r] = "read"] ELSE rpc
    BY <1>1, <1>4
  <2>4. TypeOK'
    <3>1. seen'[r] \in Folder
      BY <2>1, <2>2 DEF Folder
    <3>2. seen' \in [Readers -> Folder]
      BY <2>1, <3>1 DEF TypeOK
    <3>3. rpc' \in [Readers -> {"start", "reading", "read", "unreadable"}]
      BY <2>3 DEF TypeOK
    <3> QED
      BY <3>2, <3>3 DEF TypeOK
  <2>5. \A q \in Readers : q # r => seen'[q] = seen[q] /\ rpc'[q] = rpc[q]
    BY <2>1, <2>3 DEF TypeOK
  <2>6. ASSUME NEW v \in Versions, OneSource(r, v) PROVE OnlyOf(seen'[r], v)
    <3>1. f[k] \in {v, Absent}
      <4>1. CASE from[r] \in Days
        BY <4>1, <2>6, <1>4 DEF Contents, OneSource, OnlyOf
      <4>2. CASE from[r] \in Writers
        BY <4>2, <2>6, <1>4, VersionAssumption DEF Contents, OneSource, OwnTemp, OnlyOf
      <4> QED
        BY <4>1, <4>2 DEF ReadersKeepOneSource
    <3> QED
      BY <3>1, <2>2, <2>6 DEF OneSource, OnlyOf, Folder
  <2>7. ASSUME NEW v \in Versions, OneSource(r, v) PROVE OneSource(r, v)'
    BY <2>6, <2>7 DEF OneSource
  <2>8. \A q \in Readers : \A u \in Versions : q # r /\ OneSource(q, u) => OneSource(q, u)'
    BY <2>5 DEF OneSource
  <2>9. rpc'[r] # "start" /\ \A q \in Readers : rpc'[q] = "reading" => rpc[q] = "reading"
    BY <2>3, <2>5 DEF TypeOK
  <2>10. ReadersKeepOneSource'
    BY <2>5, <2>7, <2>8, <2>9 DEF ReadersKeepOneSource
  <2>11. ASSUME rpc'[r] = "read", ~swapped[r] PROVE \E v \in Versions : Whole(seen'[r], v)
    <3>1. k = LastKey
      BY <2>3, <2>11
    <3>2. PICK v \in Versions : OneSource(r, v)
      BY <2>11 DEF ReadersKeepOneSource
    <3>3. OnlyOf(seen'[r], v)
      BY <2>6, <3>2
    <3>4. \A j \in Keys : seen'[r][j] # Absent
      <4>1. ASSUME NEW j \in Keys, j # k PROVE seen'[r][j] # Absent
        <5>1. j \in Written(seen[r])
          BY <1>1, <3>1, <4>1, KeyAssumption DEF Keys
        <5> QED
          BY <5>1, <2>2, <4>1 DEF Written, Folder
      <4>2. seen'[r][k] # Absent
        BY <2>2, <1>4 DEF Folder
      <4> QED
        BY <4>1, <4>2
    <3> QED
      BY <3>3, <3>4 DEF OnlyOf, Whole
  <2>12. ReadIsOneSnapshot'
    BY <2>5, <2>11 DEF ReadIsOneSnapshot
  <2> QED
    BY <1>3, <2>4, <2>10, <2>12
<1>5. CASE ~(f # Absent /\ f[k] # Absent)
  <2>1. rpc' = [rpc EXCEPT ![r] = "unreadable"] /\ UNCHANGED seen
    BY <1>1, <1>5
  <2>2. TypeOK'
    BY <2>1 DEF TypeOK
  <2>3. \A q, u : OneSource(q, u) => OneSource(q, u)'
    BY <2>1 DEF OneSource
  <2>4. ReadersKeepOneSource' /\ ReadIsOneSnapshot'
    BY <2>1, <2>3 DEF ReadersKeepOneSource, ReadIsOneSnapshot, TypeOK
  <2> QED
    BY <1>3, <2>2, <2>4
<1> QED
  BY <1>4, <1>5

-----------------------------------------------------------------------------
LEMMA NextIInv == IInv /\ [Next]_vars => IInv'
<1> SUFFICES ASSUME IInv, [Next]_vars PROVE IInv'
  OBVIOUS
<1>1. ASSUME NEW w \in Writers, WriteStep(w) PROVE IInv'
  BY <1>1, RefuseStep, MakeTempStep, WriteKeyStep, StartRemovingStep, RemoveEntryStep,
     RemoveForeignStep, RemovedStep, RenameStep, CatchStep, CleanUpStep DEF WriteStep
<1>2. ASSUME NEW w \in Writers, Throws(w) \/ Kill(w) PROVE IInv'
  BY <1>2, CatchStep, KillStep
<1>3. ASSUME NEW r \in Readers, ReadStep(r) PROVE IInv'
  BY <1>3, StartReadingStep, ReadKeyStep DEF ReadStep
<1>4. ASSUME NEW d \in Days, AddForeign(d) PROVE IInv'
  BY <1>4, AddForeignStep
<1>5. CASE UNCHANGED vars
  <2> USE <1>5 DEF vars, writing, others, PastTheLook, IInv
  <2>1. TypeOK' /\ NoTempLeft' /\ OwnTemp'
    BY DEF TypeOK, NoTempLeft, OwnTemp, reading
  <2> QED
    BY <2>1, NothingShownChanges
<1> QED
  BY <1>1, <1>2, <1>3, <1>4, <1>5 DEF Next

LEMMA AlwaysIInv == Spec => []IInv
BY InitIInv, NextIInv, PTL DEF Spec

(* What is on disk is snapshots: no day's folder ever mixes two fetches and  *)
(* only a killed fetch leaves its temporary folder behind, whatever throws  *)
(* and whoever else writes the same day.                                    *)
THEOREM DiskHoldsSnapshots == Spec => []FoldersAreSnapshots
<1>1. IInv => FoldersAreSnapshots
  BY DEF IInv, FoldersAreSnapshots
<1> QED
  BY <1>1, AlwaysIInv, PTL

(* A reader whose folder was not replaced meanwhile has read one fetch's     *)
(* answer, also where the folder was being removed under it, and also where *)
(* the only folder there was is a temporary one.                            *)
THEOREM ReadsAreOneSnapshot == Spec => []ReadIsOneSnapshot
<1>1. IInv => ReadIsOneSnapshot
  BY DEF IInv
<1> QED
  BY <1>1, AlwaysIInv, PTL

(* The step that reports success leaves the whole of its own snapshot and   *)
(* nothing else; and a folder that holds other files is touched only by a   *)
(* fetch that had looked into it before they came, whenever others put them *)
(* there.                                                                   *)
THEOREM SnapshotsReplaceWhole == Spec => ReplacesOnlyByAWhole
<1> DEFINE Excused(d) == \E w \in unaware : day[w] = d /\ pc[w] = "removing"
           Spared == \A d \in foreign : dirs'[d] # dirs[d] \/ d \notin foreign' => Excused(d)
           Success == \A w \in Writers : pc[w] # "done" /\ pc'[w] = "done" =>
                        /\ dirs'[day[w]] # Absent /\ Whole(dirs'[day[w]], w)
                        /\ day[w] \notin foreign'
<1>1. ASSUME IInv, Next PROVE Spared /\ Success
  <2> USE <1>1 DEF IInv, others
  <2>1. ASSUME NEW w \in Writers, Rename(w) PROVE Spared /\ Success
    <3>1. day[w] \in Days /\ temp[w] # Absent /\ Whole(temp[w], w) /\ day[w] \notin foreign
      BY <2>1 DEF Rename, Occupied, TypeOK, OwnTemp, PastTheLook
    <3>2. dirs'[day[w]] = temp[w] /\ \A d \in Days : d # day[w] => dirs'[d] = dirs[d]
      BY <2>1, <3>1 DEF Rename, TypeOK
    <3>3. \A v \in Writers : v # w => pc'[v] = pc[v]
      BY <2>1 DEF Rename, TypeOK
    <3>4. foreign' = foreign
      BY <2>1 DEF Rename
    <3> QED
      BY <3>1, <3>2, <3>3, <3>4 DEF TypeOK
  <2>2. ASSUME NEW w \in Writers, RemoveEntry(w) \/ RemoveForeign(w) \/ Removed(w)
        PROVE  Spared /\ Success
    <3>1. day[w] \in Days /\ (day[w] \in foreign => Excused(day[w]))
      BY <2>2 DEF RemoveEntry, RemoveForeign, Removed, TypeOK, OwnTemp, PastTheLook
    <3>2. \A d \in Days : d # day[w] => dirs'[d] = dirs[d] /\ (d \in foreign => d \in foreign')
      BY <2>2, <3>1 DEF RemoveEntry, RemoveForeign, Removed, TypeOK
    <3>3. \A v \in Writers : pc'[v] = "done" => pc[v] = "done"
      BY <2>2 DEF RemoveEntry, RemoveForeign, Removed, TypeOK, writing
    <3>4. Spared
      <4> HIDE DEF Excused
      <4> QED
        BY <3>1, <3>2 DEF TypeOK
    <3> QED
      BY <3>3, <3>4
  <2>3. ASSUME NEW w \in Writers,
               Refuse(w) \/ MakeTemp(w) \/ WriteKey(w) \/ StartRemoving(w) \/ NotEmpty(w)
                 \/ CleanUp(w) \/ Throws(w) \/ Kill(w)
        PROVE  Spared /\ Success
    BY <2>3 DEF Refuse, MakeTemp, WriteKey, StartRemoving, NotEmpty, CleanUp, Throws, Kill, TypeOK
  <2>4. ASSUME NEW r \in Readers, ReadStep(r) PROVE Spared /\ Success
    BY <2>4 DEF ReadStep, StartReading, ReadKey, writing
  <2>5. ASSUME NEW d \in Days, AddForeign(d) PROVE Spared /\ Success
    BY <2>5 DEF AddForeign, TypeOK, writing
  <2> QED
    BY <1>1, <2>1, <2>2, <2>3, <2>4, <2>5 DEF Next, WriteStep
<1>2. IInv /\ [Next]_vars => [Spared /\ Success]_vars
  BY <1>1
<1> QED
  BY <1>2, AlwaysIInv, PTL DEF Spec, ReplacesOnlyByAWhole

-----------------------------------------------------------------------------
(* An AWS fetch that has listed the mappings has each queue in them that has  *)
(* a consumer by then; one that got its only consumer later was alone first.*)
Listed(q) == \E m \in folder["mappings"].holds : m[2] = q

FolderTypes ==
  /\ at \in 0..4
  /\ fetch \in Nat
  /\ DOMAIN folder = {"mappings", "queues", "buckets", "notifications"}
  /\ \A name \in DOMAIN folder : folder[name].of \in 0..fetch
  /\ queues \subseteq Queues

(* Which files are of the fetch that is running.                            *)
Stamped ==
  /\ at # 0 => fetch > 0
  /\ at = 1 => folder["mappings"].of # fetch
  /\ at \in {1, 2} => folder["queues"].of # fetch
  /\ folder["queues"].of = 0 => folder["queues"].holds = {}

ListedOrAlone ==
  at = 2 => \A q \in Queues : (q \in queues \/ Consumed(q)) => Listed(q) \/ <<fetch, q>> \in alone

FoundAlone ==
  folder["mappings"].of = folder["queues"].of =>
    \A q \in folder["queues"].holds : Listed(q) \/ <<folder["queues"].of, q>> \in alone

Coupled ==
  /\ at = 4 => \A c \in out : <<fetch, c>> \in coupled
  /\ CouplingsStood

FolderInv == FolderTypes /\ Stamped /\ ListedOrAlone /\ FoundAlone /\ Coupled

-----------------------------------------------------------------------------
LEMMA AwsInitInv == AwsInit => FolderInv
BY DEF AwsInit, Unreadable, FolderInv, FolderTypes, Stamped, ListedOrAlone, FoundAlone, Coupled,
       CouplingsStood, BucketCouplings

LEMMA WitnessesStay == Witnessed => alone \subseteq alone' /\ coupled \subseteq coupled'
BY DEF Witnessed

(* A queue that is new, or new to its consumers, was there or is alone.      *)
LEMMA AccountKeeps == ASSUME FolderInv, AccountChanges PROVE FolderInv'
<1>1. UNCHANGED fetchVars /\ Witnessed
  BY DEF AccountChanges
<1>2. /\ queues' \subseteq Queues
      /\ \A q \in Queues : Consumed(q)' => Consumed(q) \/ q \in queues
      /\ \A q \in Queues : q \in queues' /\ q \notin queues => mappings' = mappings
  BY DEF FolderInv, FolderTypes, AccountChanges, CreateQueue, DeleteQueue, Consume, Release,
         Couple, Uncouple, Consumed
<1>3. FolderTypes' /\ Stamped'
  BY <1>1, <1>2 DEF FolderInv, FolderTypes, Stamped, fetchVars
<1>4. ASSUME at' = 2, NEW q \in Queues, q \in queues' \/ Consumed(q)'
      PROVE  Listed(q)' \/ <<fetch', q>> \in alone'
  <2>1. CASE q \in queues \/ Consumed(q)
    <3>1. Listed(q) \/ <<fetch, q>> \in alone
      BY <1>1, <1>4, <2>1 DEF FolderInv, ListedOrAlone, fetchVars
    <3> QED
      BY <1>1, <3>1, WitnessesStay DEF Listed, fetchVars
  <2>2. CASE q \notin queues /\ ~Consumed(q)
    <3>1. q \in queues' /\ ~Consumed(q)'
      BY <1>2, <1>4, <2>2
    <3> QED
      BY <1>1, <1>4, <3>1 DEF Witnessed
  <2> QED
    BY <2>1, <2>2
<1>5. FoundAlone' /\ Coupled'
  BY <1>1, WitnessesStay DEF FolderInv, FoundAlone, Listed, Coupled, CouplingsStood, BucketCouplings, fetchVars
<1> QED
  BY <1>3, <1>4, <1>5 DEF FolderInv, ListedOrAlone

LEMMA StartFetchKeeps == ASSUME FolderInv, StartFetch PROVE FolderInv'
<1> USE DEF FolderInv, StartFetch
<1>1. FolderTypes' /\ Stamped'
  BY DEF FolderTypes, Stamped, accountVars
<1>2. ListedOrAlone' /\ FoundAlone' /\ Coupled'
  BY WitnessesStay DEF ListedOrAlone, FoundAlone, Listed, Coupled, CouplingsStood, BucketCouplings
<1> QED
  BY <1>1, <1>2

LEMMA ListKeeps == ASSUME FolderInv, List PROVE FolderInv'
<1> USE DEF FolderInv, List, Writes, FolderTypes
<1>1. alone \subseteq alone' /\ coupled \subseteq coupled' /\ UNCHANGED <<accountVars, fetch>> /\ fetch > 0
  BY WitnessesStay DEF Stamped
<1>2. CASE at = 1
  <2>1. folder' = [folder EXCEPT !["mappings"] = [of |-> fetch, holds |-> mappings]]
    BY <1>2 DEF Steps, Answer
  <2>2. FolderTypes' /\ Stamped'
    BY <1>1, <1>2, <2>1 DEF Stamped, accountVars
  <2>3. \A q \in Queues : Consumed(q)' => Listed(q)'
    BY <1>1, <2>1 DEF Consumed, Listed, accountVars
  <2>4. \A q \in queues' : ~Consumed(q)' => <<fetch', q>> \in alone'
    BY <1>2 DEF Witnessed
  <2>5. ListedOrAlone' /\ FoundAlone' /\ Coupled'
    BY <1>1, <1>2, <2>1, <2>3, <2>4 DEF ListedOrAlone, FoundAlone, Stamped, Coupled, CouplingsStood, BucketCouplings
  <2> QED
    BY <2>2, <2>5
<1>3. CASE at = 2
  <2>1. folder' = [folder EXCEPT !["queues"] = [of |-> fetch, holds |-> queues]]
    BY <1>3 DEF Steps, Answer
  <2>2. FolderTypes' /\ Stamped'
    BY <1>1, <1>3, <2>1 DEF Stamped, accountVars
  <2>3. \A q \in queues : Listed(q) \/ <<fetch, q>> \in alone
    BY <1>3 DEF ListedOrAlone
  <2>4. \A q \in queues : Listed(q)' \/ <<fetch', q>> \in alone'
    BY <1>1, <2>1, <2>3 DEF Listed
  <2>5. ListedOrAlone' /\ FoundAlone' /\ Coupled'
    BY <1>1, <1>3, <2>1, <2>4 DEF ListedOrAlone, FoundAlone, Coupled, CouplingsStood, BucketCouplings
  <2> QED
    BY <2>2, <2>5
<1>4. CASE at = 3
  <2>1. folder' = [folder EXCEPT !["buckets"] = [of |-> fetch, holds |-> Buckets]]
    BY <1>4 DEF Steps, Answer
  <2>2. FolderTypes' /\ Stamped'
    BY <1>1, <1>4, <2>1 DEF Stamped, accountVars
  <2>3. ListedOrAlone' /\ FoundAlone' /\ Coupled'
    BY <1>1, <1>4, <2>1 DEF ListedOrAlone, FoundAlone, Listed, Coupled, CouplingsStood, BucketCouplings
  <2> QED
    BY <2>2, <2>3
<1> QED
  BY <1>2, <1>3, <1>4

LEMMA ReadBucketKeeps == ASSUME FolderInv, NEW b \in Buckets, ReadBucket(b) PROVE FolderInv'
<1> USE DEF FolderInv, ReadBucket
<1>1. FolderTypes' /\ Stamped'
  BY DEF FolderTypes, Stamped, accountVars
<1>2. \A c \in couplings : <<fetch, c>> \in coupled'
  BY DEF Witnessed, accountVars
<1>3. ListedOrAlone' /\ FoundAlone' /\ Coupled'
  BY <1>2, WitnessesStay DEF ListedOrAlone, FoundAlone, Listed, Coupled, CouplingsStood, BucketCouplings
<1> QED
  BY <1>1, <1>3

LEMMA WriteNotificationsKeeps == ASSUME FolderInv, WriteNotifications PROVE FolderInv'
<1> USE DEF FolderInv, WriteNotifications, Writes
<1>1. FolderTypes' /\ Stamped'
  BY DEF FolderTypes, Stamped, accountVars
<1>2. ListedOrAlone' /\ FoundAlone' /\ Coupled'
  BY WitnessesStay DEF FolderTypes, ListedOrAlone, FoundAlone, Listed, Coupled, CouplingsStood, BucketCouplings
<1> QED
  BY <1>1, <1>2

(* A file cut short is of no fetch, so it is compared with nothing.          *)
LEMMA FetchEndsKeeps == ASSUME FolderInv, FetchEnds PROVE FolderInv'
<1> USE DEF FolderInv, FetchEnds
<1>1. at \in 1..4 /\ Steps[at] \in DOMAIN folder
  BY DEF FolderTypes, Steps
<1>2. \/ folder' = folder
      \/ folder' = [folder EXCEPT ![Steps[at]] = [of |-> 0, holds |-> {}]]
  BY DEF Unreadable
<1>3. FolderTypes'
  BY <1>1, <1>2 DEF FolderTypes, accountVars
<1>4. Stamped'
  BY <1>1, <1>2 DEF FolderTypes, Stamped
<1>5. FoundAlone' /\ CouplingsStood'
  <2>1. CASE folder' = folder
    BY <2>1, WitnessesStay DEF FoundAlone, Listed, Coupled, CouplingsStood, BucketCouplings
  <2>2. CASE folder' = [folder EXCEPT ![Steps[at]] = [of |-> 0, holds |-> {}]]
    BY <1>1, <2>2, WitnessesStay DEF FolderTypes, Stamped, FoundAlone, Listed, Coupled, CouplingsStood, BucketCouplings
  <2> QED
    BY <1>2, <2>1, <2>2
<1> QED
  BY <1>3, <1>4, <1>5 DEF ListedOrAlone, Coupled

LEMMA AwsNextInv == FolderInv /\ [AwsNext]_awsVars => FolderInv'
<1> SUFFICES ASSUME FolderInv, [AwsNext]_awsVars PROVE FolderInv'
  OBVIOUS
<1>1. CASE UNCHANGED awsVars
  BY <1>1 DEF awsVars, accountVars, fetchVars, FolderInv, FolderTypes, Stamped, ListedOrAlone, Consumed,
              FoundAlone, Listed, Coupled, CouplingsStood, BucketCouplings
<1> QED
  BY <1>1, AccountKeeps, StartFetchKeeps, ListKeeps, ReadBucketKeeps, WriteNotificationsKeeps, FetchEndsKeeps
     DEF AwsNext

(* Whatever the account does between two calls and wherever fetches end, a   *)
(* queue reported without a consumer had none at some moment of the fetch,  *)
(* unless an unknown function consumes it, and a coupling reported was there.*)
THEOREM FindingsWereTrue == AwsSpec => []FindingsStood
<1>1. FolderInv => FindingsStood
  <2> SUFFICES ASSUME FolderInv PROVE FindingsStood
    OBVIOUS
  <2>1. ASSUME folder["mappings"].of = folder["queues"].of,
               NEW q \in OrphanQueues
        PROVE  \/ <<folder["queues"].of, q>> \in alone
               \/ \E m \in folder["mappings"].holds : m[2] = q /\ m[1] \notin Known
    <3>1. Listed(q) \/ <<folder["queues"].of, q>> \in alone
      BY <2>1 DEF FolderInv, FoundAlone, OrphanQueues
    <3>2. \A m \in folder["mappings"].holds : m[2] = q => m[1] \notin Known
      BY DEF OrphanQueues, BoundQueues
    <3> QED
      BY <3>1, <3>2 DEF Listed
  <2> QED
    BY <2>1 DEF FolderInv, Coupled, FindingsStood, OrphansStoodAlone
<1> QED
  BY <1>1, AwsInitInv, AwsNextInv, PTL DEF AwsSpec
=============================================================================
