------------------------------- MODULE Bound -------------------------------
(***************************************************************************)
(* The class Bound of discovery/src/net/at-most.ts: a limit on how many     *)
(* tasks run at once, with the waiting callers in a first-come queue.  A    *)
(* caller that ends hands its slot to the first waiting one, which resumes  *)
(* in a later job of the event loop; until then the slot is already its own.*)
(***************************************************************************)
EXTENDS Integers, Sequences, FiniteSets

CONSTANTS Callers,  (* the async functions that may be inside run           *)
          Limit     (* the argument of the constructor                      *)

ASSUME CallersAssumption == IsFiniteSet(Callers)
ASSUME LimitAssumption == Limit \in Nat \ {0}

VARIABLES free,     (* #free                                                *)
          waiting,  (* #waiting: the callers whose resolve is queued        *)
          at        (* where each caller is in run                          *)

vars == <<free, waiting, at>>

Places == {"out",      (* not in run                                        *)
           "waiting",  (* awaits the promise it queued                      *)
           "granted",  (* that promise is resolved, the job has not run yet *)
           "running"}  (* awaits its task                                   *)

TypeOK ==
  /\ free \in 0..Limit
  /\ waiting \in Seq(Callers)
  /\ at \in [Callers -> Places]

Init ==
  /\ free = Limit
  /\ waiting = <<>>
  /\ at = [c \in Callers |-> "out"]

(* run(task) with a free slot: the task starts in the same job.             *)
EnterFree(c) ==
  /\ at[c] = "out"
  /\ free > 0
  /\ free' = free - 1
  /\ at' = [at EXCEPT ![c] = "running"]
  /\ UNCHANGED waiting

(* run(task) with none free.                                                *)
EnterWaiting(c) ==
  /\ at[c] = "out"
  /\ free = 0
  /\ waiting' = Append(waiting, c)
  /\ at' = [at EXCEPT ![c] = "waiting"]
  /\ UNCHANGED free

(* The awaited promise was resolved: the task starts.                       *)
Resume(c) ==
  /\ at[c] = "granted"
  /\ at' = [at EXCEPT ![c] = "running"]
  /\ UNCHANGED <<free, waiting>>

(* Mutant: the slot is handed on and freed as well.                         *)
LeaveTwice(c) ==
  /\ at[c] = "running"
  /\ waiting # <<>>
  /\ waiting' = Tail(waiting)
  /\ at' = [at EXCEPT ![c] = "out", ![Head(waiting)] = "granted"]
  /\ free' = free + 1

(* Mutant: the slot is freed and nobody is woken.                           *)
LeaveUnheard(c) ==
  /\ at[c] = "running"
  /\ waiting # <<>>
  /\ at' = [at EXCEPT ![c] = "out"]
  /\ free' = free + 1
  /\ UNCHANGED waiting

(* Mutant: pop instead of shift.                                            *)
LeaveToLast(c) ==
  /\ at[c] = "running"
  /\ waiting # <<>>
  /\ waiting' = SubSeq(waiting, 1, Len(waiting) - 1)
  /\ at' = [at EXCEPT ![c] = "out", ![waiting[Len(waiting)]] = "granted"]
  /\ UNCHANGED free

(* The task returned or threw: finally runs either way.                     *)
LeaveToNext(c) ==
  /\ at[c] = "running"
  /\ waiting # <<>>
  /\ waiting' = Tail(waiting)
  /\ at' = [at EXCEPT ![c] = "out", ![Head(waiting)] = "granted"]
  /\ UNCHANGED free

LeaveFree(c) ==
  /\ at[c] = "running"
  /\ waiting = <<>>
  /\ free' = free + 1
  /\ at' = [at EXCEPT ![c] = "out"]
  /\ UNCHANGED waiting

Enter(c) == EnterFree(c) \/ EnterWaiting(c)
Leave(c) == LeaveToNext(c) \/ LeaveFree(c)

Next == \E c \in Callers : Enter(c) \/ Resume(c) \/ Leave(c)

(* Every task settles (requests carry a timeout) and every due job runs;    *)
(* nothing says that anyone calls run.                                      *)
Fairness == \A c \in Callers : WF_vars(Resume(c)) /\ WF_vars(Leave(c))

Spec == Init /\ [][Next]_vars

FairSpec == Spec /\ Fairness

-----------------------------------------------------------------------------
Holders == {c \in Callers : at[c] \in {"granted", "running"}}

(* No slot is lost or made up: the free ones and the held ones, a slot      *)
(* handed to a caller that has not resumed included, are always Limit.      *)
SlotsAccountedFor == free + Cardinality(Holders) = Limit

(* A slot is never free while a caller waits for one.                       *)
NoIdleSlot == waiting # <<>> => free = 0

(* Slots are given in the order of the calls: only the caller that waits    *)
(* longest gets one, and no newcomer goes before a waiting caller.          *)
NoOvertaking ==
  [][\A c \in Callers :
       c \notin Holders /\ c \in Holders' =>
         waiting = <<>> \/ c = Head(waiting)]_vars

(* A caller that waits runs its task in the end.                            *)
NoStarvation == \A c \in Callers : at[c] = "waiting" ~> at[c] = "running"
=============================================================================
