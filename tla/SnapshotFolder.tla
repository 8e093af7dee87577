--------------------------- MODULE SnapshotFolder ---------------------------
(***************************************************************************)
(* snapshotFolder of discovery/src/snapshot-dir.ts: how the Jira and the    *)
(* Datadog fetch leave a day's snapshot on disk, one JSON file per key, and *)
(* how discover reads one back.  Every file system call is a step of its    *)
(* own; any of them may throw, a process may be killed between two of them, *)
(* and other processes write and read the same home at the same time.  So   *)
(* does the user, who may put a file of another kind into a day's folder.   *)
(***************************************************************************)
EXTENDS Integers, FiniteSets

CONSTANTS Writers,  (* the fetch processes, each of which runs once         *)
          Readers,  (* the discover processes                               *)
          Days,     (* the folder names, in the order of dates              *)
          LastKey,  (* the files of a snapshot are 1..LastKey, in order     *)
          MaxLate,  (* bound: files others put into a folder                *)
          Old,      (* the content of the snapshots there already           *)
          Absent

Keys == 1..LastKey
Versions == Writers \cup {Old}

ASSUME DaysAssumption == Days \subseteq Nat \ {0}
ASSUME KeyAssumption == LastKey \in Nat \ {0} /\ MaxLate \in Nat
ASSUME VersionAssumption == Old \notin Writers /\ Absent \notin Versions /\ Absent \notin Nat
                            /\ Days \cap Writers = {}

VARIABLES
  dirs,     (* dirs[d]: the version of each file of <home>/<d>, or Absent   *)
  foreign,  (* the days whose folder holds something else as well           *)
  late,     (* how many such files came after the start                     *)
  unaware,  (* the writers past their look at the folder when one came;     *)
            (* kept to state whose files a fetch may take                   *)
  temp,     (* temp[w]: the hidden folder mkdtemp gave w, or Absent         *)
  pc,       (* pc[w]: what the writer is doing                              *)
  day,      (* day[w]: the folder it writes                                 *)
  rpc,      (* rpc[r]: what the reader is doing                             *)
  from,     (* from[r]: the day it reads, or the writer whose temporary     *)
            (* folder it reads                                              *)
  seen,     (* seen[r]: what it read of each key                            *)
  swapped   (* swapped[r]: whether that folder was renamed in meanwhile;    *)
            (* kept to state what a read returns                            *)

others == <<foreign, late, unaware>>
writing == <<temp, pc, day>>
reading == <<rpc, from, seen, swapped>>
vars == <<dirs, others, writing, reading>>

Folder == [Keys -> Versions \cup {Absent}]

ASSUME AbsentAssumption == Absent \notin Folder

Empty == [k \in Keys |-> Absent]
Written(f) == {k \in Keys : f[k] # Absent}
Whole(f, v) == \A k \in Keys : f[k] = v

TypeOK ==
  /\ dirs \in [Days -> Folder \cup {Absent}]
  /\ foreign \subseteq Days
  /\ late \in 0..MaxLate
  /\ unaware \subseteq Writers
  /\ temp \in [Writers -> Folder \cup {Absent}]
  /\ pc \in [Writers -> {"start", "writing", "removing", "renaming", "catch",
                         "done", "refused", "threw", "killed"}]
  /\ day \in [Writers -> Days]
  /\ rpc \in [Readers -> {"start", "reading", "read", "unreadable"}]
  /\ from \in [Readers -> Days \cup Writers \cup {Absent}]
  /\ seen \in [Readers -> Folder]
  /\ swapped \in [Readers -> BOOLEAN]

Init ==
  /\ dirs \in [Days -> {[k \in Keys |-> Old], Absent}]
  /\ foreign \in SUBSET {d \in Days : dirs[d] # Absent}
  /\ late = 0
  /\ unaware = {}
  /\ temp = [w \in Writers |-> Absent]
  /\ pc = [w \in Writers |-> "start"]
  /\ day \in [Writers -> Days]
  /\ rpc = [r \in Readers |-> "start"]
  /\ from = [r \in Readers |-> Absent]
  /\ seen = [r \in Readers |-> Empty]
  /\ swapped = [r \in Readers |-> FALSE]

-----------------------------------------------------------------------------
(* Someone puts a file of another kind into a day's folder, which is there  *)
(* or is made for it, whatever the fetches are doing.                       *)
PastTheLook(w) == pc[w] \in {"writing", "removing", "renaming"}

AddForeign(d) ==
  /\ late < MaxLate
  /\ d \notin foreign
  /\ late' = late + 1
  /\ foreign' = foreign \cup {d}
  /\ dirs' = [dirs EXCEPT ![d] = IF @ = Absent THEN Empty ELSE @]
  /\ unaware' = unaware \cup {w \in Writers : day[w] = d /\ PastTheLook(w)}
  /\ UNCHANGED <<writing, reading>>

(* Mutant: what the folder holds is not looked at.                          *)
AlwaysReplace(d) == TRUE

(* holdsOnlySnapshotFiles, or no folder: looked at once, as the write begins.*)
MayReplace(d) == d \notin foreign

Refuse(w) ==
  /\ pc[w] = "start"
  /\ ~MayReplace(day[w])
  /\ pc' = [pc EXCEPT ![w] = "refused"]
  /\ UNCHANGED <<dirs, others, temp, day, reading>>

MakeTemp(w) ==
  /\ pc[w] = "start"
  /\ MayReplace(day[w])
  /\ temp' = [temp EXCEPT ![w] = Empty]
  /\ pc' = [pc EXCEPT ![w] = "writing"]
  /\ UNCHANGED <<dirs, others, day, reading>>

AllWritten(w) == Written(temp[w]) = Keys

(* Mutant: the files are written where they are to be.                      *)
WriteKeyInPlace(w) ==
  /\ pc[w] = "writing"
  /\ \E k \in Keys :
       /\ Written(temp[w]) = 1..(k - 1)
       /\ temp' = [temp EXCEPT ![w][k] = w]
       /\ dirs' = [dirs EXCEPT ![day[w]] = [IF @ = Absent THEN Empty ELSE @ EXCEPT ![k] = w]]
  /\ UNCHANGED <<others, pc, day, reading>>

WriteKey(w) ==
  /\ pc[w] = "writing"
  /\ \E k \in Keys : /\ Written(temp[w]) = 1..(k - 1)
                     /\ temp' = [temp EXCEPT ![w][k] = w]
  /\ UNCHANGED <<dirs, others, pc, day, reading>>

StartRemoving(w) ==
  /\ pc[w] = "writing"
  /\ AllWritten(w)
  /\ pc' = [pc EXCEPT ![w] = "removing"]
  /\ UNCHANGED <<dirs, others, temp, day, reading>>

(* rmSync takes the entries of the old folder one by one, then the folder.  *)
RemoveEntry(w) ==
  /\ pc[w] = "removing"
  /\ dirs[day[w]] # Absent
  /\ \E k \in Written(dirs[day[w]]) : dirs' = [dirs EXCEPT ![day[w]][k] = Absent]
  /\ UNCHANGED <<others, writing, reading>>

(* It asks nobody what the other entries are.                               *)
RemoveForeign(w) ==
  /\ pc[w] = "removing"
  /\ day[w] \in foreign
  /\ foreign' = foreign \ {day[w]}
  /\ UNCHANGED <<dirs, late, unaware, writing, reading>>

Removed(w) ==
  /\ pc[w] = "removing"
  /\ dirs[day[w]] \in {Absent, Empty}
  /\ day[w] \notin foreign
  /\ dirs' = [dirs EXCEPT ![day[w]] = Absent]
  /\ pc' = [pc EXCEPT ![w] = "renaming"]
  /\ UNCHANGED <<others, temp, day, reading>>

(* renameSync: the whole folder at once, unless another one has come there. *)
Occupied(d) == dirs[d] \notin {Absent, Empty} \/ d \in foreign

Rename(w) ==
  /\ pc[w] = "renaming"
  /\ ~Occupied(day[w])
  /\ dirs' = [dirs EXCEPT ![day[w]] = temp[w]]
  /\ temp' = [temp EXCEPT ![w] = Absent]
  /\ pc' = [pc EXCEPT ![w] = "done"]
  /\ swapped' = [r \in Readers |-> swapped[r] \/ (rpc[r] = "reading" /\ from[r] = day[w])]
  /\ UNCHANGED <<others, day, rpc, from, seen>>

(* Mutant: the rename waits for the other folder to go.                     *)
WaitForEmpty(w) ==
  /\ pc[w] = "renaming"
  /\ Occupied(day[w])
  /\ UNCHANGED vars

NotEmpty(w) ==
  /\ pc[w] = "renaming"
  /\ Occupied(day[w])
  /\ pc' = [pc EXCEPT ![w] = "catch"]
  /\ UNCHANGED <<dirs, others, temp, day, reading>>

(* A full disk, a missing permission, a file in use: the call throws.       *)
Throws(w) ==
  /\ pc[w] \in {"writing", "removing", "renaming"}
  /\ pc' = [pc EXCEPT ![w] = "catch"]
  /\ UNCHANGED <<dirs, others, temp, day, reading>>

(* Mutant: the failure is only rethrown.                                    *)
Rethrow(w) ==
  /\ pc[w] = "catch"
  /\ pc' = [pc EXCEPT ![w] = "threw"]
  /\ UNCHANGED <<dirs, others, temp, day, reading>>

(* The catch removes the temporary folder, which only w ever touched, and   *)
(* rethrows.                                                                *)
CleanUp(w) ==
  /\ pc[w] = "catch"
  /\ temp' = [temp EXCEPT ![w] = Absent]
  /\ pc' = [pc EXCEPT ![w] = "threw"]
  /\ UNCHANGED <<dirs, others, day, reading>>

Kill(w) ==
  /\ pc[w] \in {"writing", "removing", "renaming", "catch"}
  /\ pc' = [pc EXCEPT ![w] = "killed"]
  /\ UNCHANGED <<dirs, others, temp, day, reading>>

-----------------------------------------------------------------------------
(* latestSnapshotDir is the last folder by name, and --jira or --datadog    *)
(* may name another day.  A temporary folder is ".<day>-<random>", which    *)
(* sorts before every day: it is taken for a snapshot only where there is   *)
(* no day at all.                                                           *)
Present == {d \in Days : dirs[d] # Absent}
Readable == IF Present # {} THEN Present ELSE {w \in Writers : temp[w] # Absent}

Contents(f) == IF f \in Days THEN dirs[f] ELSE temp[f]

StartReading(r) ==
  /\ rpc[r] = "start"
  /\ \E f \in Readable : from' = [from EXCEPT ![r] = f]
  /\ rpc' = [rpc EXCEPT ![r] = "reading"]
  /\ UNCHANGED <<dirs, others, writing, seen, swapped>>

(* readFile of the next key: "cannot be read" without the file.             *)
ReadKey(r) ==
  /\ rpc[r] = "reading"
  /\ \E k \in Keys :
       /\ Written(seen[r]) = 1..(k - 1)
       /\ IF Contents(from[r]) # Absent /\ Contents(from[r])[k] # Absent
            THEN /\ seen' = [seen EXCEPT ![r][k] = Contents(from[r])[k]]
                 /\ rpc' = IF k = LastKey THEN [rpc EXCEPT ![r] = "read"] ELSE rpc
            ELSE /\ rpc' = [rpc EXCEPT ![r] = "unreadable"]
                 /\ UNCHANGED seen
  /\ UNCHANGED <<dirs, others, writing, from, swapped>>

WriteStep(w) ==
  \/ Refuse(w) \/ MakeTemp(w) \/ WriteKey(w) \/ StartRemoving(w) \/ RemoveEntry(w)
  \/ RemoveForeign(w) \/ Removed(w) \/ Rename(w) \/ NotEmpty(w) \/ CleanUp(w)

ReadStep(r) == StartReading(r) \/ ReadKey(r)

Next ==
  \/ \E w \in Writers : WriteStep(w) \/ Throws(w) \/ Kill(w)
  \/ \E r \in Readers : ReadStep(r)
  \/ \E d \in Days : AddForeign(d)

Spec == Init /\ [][Next]_vars

(* Each process is one synchronous sequence of calls that return or throw.  *)
FairSpec == Spec /\ \A w \in Writers : WF_vars(WriteStep(w))

-----------------------------------------------------------------------------
(* No day's folder ever holds files of two fetches, whoever writes at the   *)
(* same time, whatever fails and wherever a process is killed.              *)
NeverMixed ==
  \A d \in Days : dirs[d] # Absent =>
    \A j, k \in Written(dirs[d]) : dirs[d][j] = dirs[d][k]

(* A fetch that reports success left the whole of its own snapshot, and no  *)
(* fetch touches a folder that holds files other than a snapshot (it "is    *)
(* never replaced"), but one that looked into it before such a file came:   *)
(* that fetch, unlike what the guide says, takes the file with the folder.  *)
ReplacesOnlyByAWhole ==
  [][/\ \A d \in foreign : dirs'[d] # dirs[d] \/ d \notin foreign' =>
          \E w \in unaware : day[w] = d /\ pc[w] = "removing"
     /\ \A w \in Writers : pc[w] # "done" /\ pc'[w] = "done" =>
          /\ dirs'[day[w]] # Absent /\ Whole(dirs'[day[w]], w)
          /\ day[w] \notin foreign']_vars

(* What discover reads is one fetch's answer, unless that very folder was   *)
(* replaced while it was reading.                                           *)
ReadIsOneSnapshot ==
  \A r \in Readers : rpc[r] = "read" /\ ~swapped[r] => \E v \in Versions : Whole(seen[r], v)

(* A fetch that ends by itself leaves no temporary folder behind.           *)
NoTempLeft == \A w \in Writers : pc[w] \in {"done", "refused", "threw"} => temp[w] = Absent

(* What is on disk is snapshots, and rests of a fetch only of a killed one.  *)
FoldersAreSnapshots == TypeOK /\ NeverMixed /\ NoTempLeft

(* A fetch that is not killed comes to an end.                              *)
WritesEnd == \A w \in Writers : <>(pc[w] \in {"done", "refused", "threw", "killed"})
=============================================================================
