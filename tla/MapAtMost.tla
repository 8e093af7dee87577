----------------------------- MODULE MapAtMost -----------------------------
(***************************************************************************)
(* mapAtMost of discovery/src/net/at-most.ts: at most Limit calls of fn at  *)
(* a time, run by lanes that share one iterator over the items.  The code   *)
(* between two awaits is one step, as on the event loop; a call of fn       *)
(* settles on its own and its lane resumes in a later step.                 *)
(***************************************************************************)
EXTENDS Integers, FiniteSets

CONSTANTS N,       (* how many items there are                              *)
          Limit,   (* how many lanes may run                                *)
          Nothing  (* no item, no result                                    *)

ASSUME SizeAssumption == N \in Nat /\ Limit \in Nat \ {0}
ASSUME NothingAssumption == Nothing \notin Int

Items == 1..N
(* Mutant: a lane for every item.                                           *)
LanePerItem == N

LaneCount == IF Limit < N THEN Limit ELSE N
Lanes == 1..LaneCount

VARIABLES fails,    (* the items whose call will reject: fixed beforehand   *)
          taken,    (* how many items the shared iterator has given out     *)
          lane,     (* the item each lane awaits; Nothing once it returned  *)
          call,     (* the promise fn gave for each item                    *)
          out,      (* the results array                                    *)
          failures, (* the keys of the failures map                         *)
          status,   (* what the promise of mapAtMost did                    *)
          thrown    (* the item whose failure it threw                      *)

vars == <<fails, taken, lane, call, out, failures, status, thrown>>

TypeOK ==
  /\ fails \in SUBSET Items
  /\ taken \in 0..N
  /\ lane \in [Lanes -> Items \cup {Nothing}]
  /\ call \in [Items -> {"none", "running", "fulfilled", "rejected"}]
  /\ out \in [Items -> Items \cup {Nothing}]
  /\ failures \in SUBSET Items
  /\ status \in {"pending", "returned", "threw"}
  /\ thrown \in Items \cup {Nothing}

(* Array.from starts the lanes one after the other, synchronously: each     *)
(* takes the next item and calls fn before any call can settle.             *)
Init ==
  /\ fails \in SUBSET Items
  /\ taken = LaneCount
  /\ lane = [l \in Lanes |-> l]
  /\ call = [i \in Items |-> IF i <= LaneCount THEN "running" ELSE "none"]
  /\ out = [i \in Items |-> Nothing]
  /\ failures = {}
  /\ status = "pending"
  /\ thrown = Nothing

(* The call for item i settles; its lane has not resumed yet.               *)
Settle(i) ==
  /\ call[i] = "running"
  /\ call' = [call EXCEPT ![i] = IF i \in fails THEN "rejected" ELSE "fulfilled"]
  /\ UNCHANGED <<fails, taken, lane, out, failures, status, thrown>>

(* out[index] = await fn(item).  The guard of the loop is read after the    *)
(* result is stored.                                                        *)
Store(l) ==
  /\ lane[l] # Nothing
  /\ call[lane[l]] = "fulfilled"
  /\ out' = [out EXCEPT ![lane[l]] = lane[l]]
  /\ UNCHANGED <<fails, failures, status, thrown>>

(* Mutant: the loop goes on after a failure.                                *)
TakeAfterFailure(l) ==
  /\ Store(l)
  /\ taken < N
  /\ taken' = taken + 1
  /\ lane' = [lane EXCEPT ![l] = taken + 1]
  /\ call' = [call EXCEPT ![taken + 1] = "running"]

StoreAndTake(l) ==
  /\ Store(l)
  /\ failures = {}
  /\ taken < N
  /\ taken' = taken + 1
  /\ lane' = [lane EXCEPT ![l] = taken + 1]
  /\ call' = [call EXCEPT ![taken + 1] = "running"]

StoreAndReturn(l) ==
  /\ Store(l)
  /\ failures # {} \/ taken = N
  /\ lane' = [lane EXCEPT ![l] = Nothing]
  /\ UNCHANGED <<taken, call>>

(* Mutant: the lane keeps its failed item.                                  *)
FailAgain(l) ==
  /\ lane[l] # Nothing
  /\ call[lane[l]] = "rejected"
  /\ failures' = failures \cup {lane[l]}
  /\ UNCHANGED <<fails, taken, lane, call, out, status, thrown>>

(* catch: the failure is kept under its index and the loop ends.            *)
Fail(l) ==
  /\ lane[l] # Nothing
  /\ call[lane[l]] = "rejected"
  /\ failures' = failures \cup {lane[l]}
  /\ lane' = [lane EXCEPT ![l] = Nothing]
  /\ UNCHANGED <<fails, taken, call, out, status, thrown>>

(* Mutant: Promise.all of lanes that reject, which settles with the first.  *)
FirstFailureSettles == failures # {} \/ \A l \in Lanes : lane[l] = Nothing

(* Promise.all of the lanes has resolved.                                   *)
LanesDone == \A l \in Lanes : lane[l] = Nothing

Return ==
  /\ status = "pending"
  /\ LanesDone
  /\ failures = {}
  /\ status' = "returned"
  /\ UNCHANGED <<fails, taken, lane, call, out, failures, thrown>>

(* Mutant: whichever failure was recorded first is thrown.                  *)
ThrowAny ==
  /\ status = "pending"
  /\ LanesDone
  /\ thrown' \in failures
  /\ status' = "threw"
  /\ UNCHANGED <<fails, taken, lane, call, out, failures>>

Throw ==
  /\ status = "pending"
  /\ LanesDone
  /\ \E i \in failures :
       /\ \A j \in failures : i <= j
       /\ thrown' = i
  /\ status' = "threw"
  /\ UNCHANGED <<fails, taken, lane, call, out, failures>>

Resume(l) == StoreAndTake(l) \/ StoreAndReturn(l) \/ Fail(l)

Next ==
  \/ \E i \in Items : Settle(i)
  \/ \E l \in Lanes : Resume(l)
  \/ Return
  \/ Throw

(* Each call settles (the clients give every request a timeout) and the     *)
(* event loop runs every continuation that is due.                          *)
Fairness ==
  /\ \A i \in Items : WF_vars(Settle(i))
  /\ \A l \in Lanes : WF_vars(Resume(l))
  /\ WF_vars(Return \/ Throw)

Spec == Init /\ [][Next]_vars

FairSpec == Spec /\ Fairness

-----------------------------------------------------------------------------
Running == {i \in Items : call[i] = "running"}

(* mapAtMost never settles while a call it made is still running: what the  *)
(* lanes started is over before the caller sees the result or the failure.  *)
QuietOnceSettled == status # "pending" => Running = {}

(* There are never more than Limit calls running, whatever order the lanes  *)
(* resume in.                                                               *)
AtMostLimit == Cardinality(Running) <= Limit

(* "after a failure no task starts": once a lane has recorded a failure no  *)
(* call of fn is made any more.                                             *)
NoCallAfterFailure ==
  [][failures # {} => \A i \in Items : call[i] = "none" => call'[i] = "none"]_vars

(* mapAtMost settles as the sequential loop would: every result in place,   *)
(* or the failure of the first failing item, although later items may have  *)
(* failed before it and some were never called.                             *)
Held == [i \in Items |-> IF status = "returned" THEN out[i] ELSE Nothing]

Sequential == INSTANCE SequentialMap WITH results <- Held

LikeSequential == Sequential!Spec

(* mapAtMost settles, if every call does.                                   *)
Settles == <>(status # "pending")
=============================================================================
