-------------------------- MODULE MapAtMostProofs --------------------------
(* Machine-checked facts about MapAtMost for any number of items and lanes. *)
EXTENDS MapAtMost, FiniteSetTheorems, TLAPS

(* The part of the inductive invariant that ties the iterator, the lanes    *)
(* and the calls together.                                                  *)
TakenInv ==
  \A i \in Items : call[i] = "none" <=> taken < i

LanesInv ==
  /\ \A l \in Lanes : lane[l] # Nothing => call[lane[l]] # "none"
  /\ \A l, m \in Lanes : lane[l] # Nothing /\ lane[l] = lane[m] => l = m

OutcomeInv ==
  \A i \in Items : /\ call[i] = "fulfilled" => i \notin fails
                   /\ call[i] = "rejected" => i \in fails

(* A call that was made is awaited by a lane, or its outcome is recorded.   *)
RecordedInv ==
  \A i \in Items :
    \/ call[i] = "none"
    \/ \E l \in Lanes : lane[l] = i
    \/ call[i] = "fulfilled" /\ out[i] = i
    \/ call[i] = "rejected" /\ i \in failures

FailuresInv == failures \subseteq {i \in fails : i <= taken}

(* A lane returns early only after a failure.                               *)
BusyInv == failures = {} /\ taken < N => \A l \in Lanes : lane[l] # Nothing

StatusInv == status # "pending" => LanesDone

IInv ==
  /\ TypeOK
  /\ TakenInv
  /\ LanesInv
  /\ OutcomeInv
  /\ RecordedInv
  /\ FailuresInv
  /\ BusyInv
  /\ StatusInv
-----------------------------------------------------------------------------
LEMMA LaneCountFacts == /\ LaneCount \in 0..N
                        /\ LaneCount <= Limit
                        /\ N > 0 => LaneCount > 0
BY SizeAssumption DEF LaneCount

LEMMA InitInv == Init => IInv
<1> SUFFICES ASSUME Init PROVE IInv
  OBVIOUS
<1> USE LaneCountFacts, SizeAssumption, NothingAssumption DEF Init, Items, Lanes
<1>1. TypeOK
  BY DEF TypeOK
<1>2. TakenInv
  BY DEF TakenInv
<1>3. LanesInv
  BY DEF LanesInv
<1>4. OutcomeInv
  BY DEF OutcomeInv
<1>5. RecordedInv
  <2> SUFFICES ASSUME NEW i \in Items, i <= LaneCount
               PROVE  \E l \in Lanes : lane[l] = i
    BY DEF RecordedInv
  <2> QED OBVIOUS
<1>6. FailuresInv /\ BusyInv /\ StatusInv
  BY DEF FailuresInv, BusyInv, StatusInv
<1> QED BY <1>1, <1>2, <1>3, <1>4, <1>5, <1>6 DEF IInv

LEMMA SettleInv == ASSUME IInv, NEW i \in Items, Settle(i) PROVE IInv'
<1> USE SizeAssumption, NothingAssumption DEF IInv, Settle
<1>1. TypeOK'
  BY DEF TypeOK
<1>2. TakenInv'
  BY DEF TakenInv, TypeOK
<1>3. LanesInv'
  BY DEF LanesInv, TypeOK
<1>4. OutcomeInv'
  BY DEF OutcomeInv, TypeOK
<1>5. RecordedInv'
  BY DEF RecordedInv, TypeOK
<1>6. (FailuresInv /\ BusyInv /\ StatusInv)'
  BY DEF FailuresInv, BusyInv, StatusInv, LanesDone
<1> QED BY <1>1, <1>2, <1>3, <1>4, <1>5, <1>6

LEMMA StoreAndTakeInv == ASSUME IInv, NEW l \in Lanes, StoreAndTake(l) PROVE IInv'
<1> USE SizeAssumption, NothingAssumption DEF IInv, StoreAndTake, Store
<1>1. /\ lane[l] \in Items
      /\ taken + 1 \in Items
      /\ call[taken + 1] = "none"
  BY DEF TypeOK, Items, TakenInv
<1>2. TypeOK'
  BY <1>1 DEF TypeOK, Items
<1>3. TakenInv'
  BY <1>1 DEF TakenInv, TypeOK, Items
<1>4. LanesInv'
  BY <1>1 DEF LanesInv, TypeOK
<1>5. OutcomeInv'
  BY <1>1 DEF OutcomeInv, TypeOK
<1>6. RecordedInv'
  <2> SUFFICES ASSUME NEW i \in Items, call'[i] # "none", \A m \in Lanes : lane'[m] # i
               PROVE  \/ call'[i] = "fulfilled" /\ out'[i] = i
                      \/ call'[i] = "rejected" /\ i \in failures'
    BY DEF RecordedInv
  <2>1. i # taken + 1
    BY DEF TypeOK
  <2>2. CASE i = lane[l]
    BY <1>1, <2>1, <2>2 DEF TypeOK
  <2>3. CASE i # lane[l]
    <3>1. \A m \in Lanes : lane[m] # i
      BY <2>3 DEF TypeOK
    <3> QED BY <3>1, <2>1, <2>3, <1>1 DEF RecordedInv, TypeOK
  <2> QED BY <2>2, <2>3
<1>7. FailuresInv' /\ StatusInv'
  BY DEF FailuresInv, StatusInv, LanesDone
<1>8. BusyInv'
  BY <1>1 DEF BusyInv, TypeOK, Items
<1> QED BY <1>2, <1>3, <1>4, <1>5, <1>6, <1>7, <1>8

LEMMA StoreAndReturnInv == ASSUME IInv, NEW l \in Lanes, StoreAndReturn(l) PROVE IInv'
<1> USE SizeAssumption, NothingAssumption DEF IInv, StoreAndReturn, Store
<1>1. lane[l] \in Items
  BY DEF TypeOK
<1>2. TypeOK'
  BY <1>1 DEF TypeOK
<1>3. TakenInv' /\ OutcomeInv'
  BY DEF TakenInv, OutcomeInv
<1>4. LanesInv'
  BY <1>1 DEF LanesInv, TypeOK
<1>5. RecordedInv'
  <2> SUFFICES ASSUME NEW i \in Items, call'[i] # "none", \A m \in Lanes : lane'[m] # i
               PROVE  \/ call'[i] = "fulfilled" /\ out'[i] = i
                      \/ call'[i] = "rejected" /\ i \in failures'
    BY DEF RecordedInv
  <2>1. CASE i = lane[l]
    BY <1>1, <2>1 DEF TypeOK
  <2>2. CASE i # lane[l]
    <3>1. \A m \in Lanes : lane[m] # i
      BY <2>2 DEF TypeOK
    <3> QED BY <3>1, <2>2 DEF RecordedInv, TypeOK
  <2> QED BY <2>1, <2>2
<1>6. FailuresInv' /\ StatusInv' /\ BusyInv'
  BY DEF FailuresInv, StatusInv, BusyInv, LanesDone, TypeOK
<1> QED BY <1>2, <1>3, <1>4, <1>5, <1>6

LEMMA FailInv == ASSUME IInv, NEW l \in Lanes, Fail(l) PROVE IInv'
<1> USE SizeAssumption, NothingAssumption DEF IInv, Fail
<1>1. lane[l] \in Items
  BY DEF TypeOK
<1>2. TypeOK'
  BY <1>1 DEF TypeOK
<1>3. TakenInv' /\ OutcomeInv'
  BY DEF TakenInv, OutcomeInv
<1>4. LanesInv'
  BY <1>1 DEF LanesInv, TypeOK
<1>5. RecordedInv'
  <2> SUFFICES ASSUME NEW i \in Items, call'[i] # "none", \A m \in Lanes : lane'[m] # i
               PROVE  \/ call'[i] = "fulfilled" /\ out'[i] = i
                      \/ call'[i] = "rejected" /\ i \in failures'
    BY DEF RecordedInv
  <2>1. CASE i = lane[l]
    BY <1>1, <2>1
  <2>2. CASE i # lane[l]
    <3>1. \A m \in Lanes : lane[m] # i
      BY <2>2 DEF TypeOK
    <3> QED BY <3>1 DEF RecordedInv
  <2> QED BY <2>1, <2>2
<1>6. FailuresInv'
  <2>1. lane[l] \in fails
    BY <1>1 DEF OutcomeInv
  <2>2. ~(taken < lane[l])
    BY <1>1 DEF TakenInv
  <2>3. lane[l] <= taken
    BY <1>1, <2>2 DEF TypeOK, Items
  <2> QED BY <2>1, <2>3 DEF FailuresInv
<1>7. StatusInv' /\ BusyInv'
  BY <1>1 DEF StatusInv, BusyInv, LanesDone, TypeOK
<1> QED BY <1>2, <1>3, <1>4, <1>5, <1>6, <1>7

LEMMA EndInv == ASSUME IInv, Return \/ Throw PROVE IInv'
<1> USE DEF IInv
<1>1. TypeOK'
  BY DEF TypeOK, Return, Throw
<1>2. UNCHANGED <<fails, taken, lane, call, out, failures>> /\ LanesDone
  BY DEF Return, Throw
<1> QED BY <1>1, <1>2 DEF TakenInv, LanesInv, OutcomeInv, RecordedInv, FailuresInv,
                          BusyInv, StatusInv, LanesDone

LEMMA NextInv == IInv /\ [Next]_vars => IInv'
<1> SUFFICES ASSUME IInv, [Next]_vars PROVE IInv'
  OBVIOUS
<1>1. CASE \E i \in Items : Settle(i)
  BY <1>1, SettleInv
<1>2. CASE \E l \in Lanes : Resume(l)
  BY <1>2, StoreAndTakeInv, StoreAndReturnInv, FailInv DEF Resume
<1>3. CASE Return \/ Throw
  BY <1>3, EndInv
<1>4. CASE UNCHANGED vars
  BY <1>4 DEF vars, IInv, TypeOK, TakenInv, LanesInv, OutcomeInv, RecordedInv,
              FailuresInv, BusyInv, StatusInv, LanesDone
<1> QED BY <1>1, <1>2, <1>3, <1>4 DEF Next

(* Every reachable state is well typed and satisfies the inductive          *)
(* invariant that ties the iterator, the lanes, the calls and the failures  *)
(* map of mapAtMost together.                                               *)
THEOREM Invariance == Spec => []IInv
<1>1. Init => IInv
  BY InitInv
<1>2. IInv /\ [Next]_vars => IInv'
  BY NextInv
<1> QED BY <1>1, <1>2, PTL DEF Spec

(* The type invariant of mapAtMost, for any number of items and any limit.  *)
THEOREM TypeCorrect == Spec => []TypeOK
<1>1. IInv => TypeOK
  BY DEF IInv
<1> QED BY <1>1, Invariance, PTL
-----------------------------------------------------------------------------
LEMMA RunningOnLane == ASSUME IInv, NEW i \in Running PROVE \E l \in Lanes : lane[l] = i
BY DEF IInv, RecordedInv, Running

(* mapAtMost settles only when no call it made is still running.            *)
THEOREM Quiet == Spec => []QuietOnceSettled
<1>1. IInv => QuietOnceSettled
  <2> SUFFICES ASSUME IInv, status # "pending", NEW i \in Running PROVE FALSE
    BY DEF QuietOnceSettled
  <2>1. PICK l \in Lanes : lane[l] = i
    BY RunningOnLane
  <2> QED BY <2>1, NothingAssumption DEF IInv, StatusInv, LanesDone, Running, Items
<1> QED BY <1>1, Invariance, PTL

(* At most Limit calls of fn are running at any time.                       *)
THEOREM Bounded == Spec => []AtMostLimit
<1>1. IInv => AtMostLimit
  <2> SUFFICES ASSUME IInv PROVE Cardinality(Running) <= Limit
    BY DEF AtMostLimit
  <2> DEFINE Busy == {l \in Lanes : lane[l] \in Running}
             f == [l \in Busy |-> lane[l]]
  <2>1. IsFiniteSet(Lanes) /\ Cardinality(Lanes) = LaneCount
    BY FS_Interval, LaneCountFacts, SizeAssumption DEF Lanes
  <2>2. IsFiniteSet(Busy) /\ Cardinality(Busy) <= LaneCount
    BY <2>1, FS_Subset
  <2>3. f \in Surjection(Busy, Running)
    BY RunningOnLane DEF Surjection
  <2>4. IsFiniteSet(Running) /\ Cardinality(Running) <= Cardinality(Busy)
    BY <2>2, <2>3, FS_Surjection
  <2>5. Cardinality(Running) \in Nat /\ Cardinality(Busy) \in Nat
    BY <2>2, <2>4, FS_CardinalityType
  <2> QED BY <2>2, <2>4, <2>5, LaneCountFacts, SizeAssumption
<1> QED BY <1>1, Invariance, PTL

(* "after a failure no task starts" (at-most.test.ts): once a failure is    *)
(* recorded, no further call of fn is made.                                 *)
THEOREM NoLateCall == Spec => NoCallAfterFailure
<1> DEFINE Late == failures # {} => \A i \in Items : call[i] = "none" => call'[i] = "none"
<1>1. IInv /\ [Next]_vars => [Late]_vars
  <2> SUFFICES ASSUME IInv, Next, failures # {}, NEW i \in Items, call[i] = "none"
               PROVE  call'[i] = "none"
    BY DEF vars
  <2>1. CASE \E j \in Items : Settle(j)
    BY <2>1 DEF Settle, IInv, TypeOK
  <2>2. CASE \E l \in Lanes : Resume(l)
    BY <2>2 DEF Resume, StoreAndTake, StoreAndReturn, Fail
  <2>3. CASE Return \/ Throw
    BY <2>3 DEF Return, Throw
  <2> QED BY <2>1, <2>2, <2>3 DEF Next
<1> QED BY <1>1, Invariance, PTL DEF Spec, NoCallAfterFailure
-----------------------------------------------------------------------------
LEMMA AllRecorded == ASSUME IInv, LanesDone, NEW i \in Items, i <= taken
                     PROVE  \/ i \notin fails /\ out[i] = i
                            \/ i \in failures
BY NothingAssumption DEF IInv, TypeOK, LanesDone, TakenInv, RecordedInv, OutcomeInv, Items

(* mapAtMost implements the sequential map: it returns every result in its  *)
(* place when no call fails, and otherwise throws the failure a loop over   *)
(* the items would have met first.                                          *)
THEOREM ImplementsSequential == Spec => LikeSequential
<1>1. Init => Sequential!Init
  BY DEF Init, Sequential!Init, Held, Items, Sequential!Items
<1>2. IInv /\ [Next]_vars => [Sequential!Next]_Sequential!vars
  <2> SUFFICES ASSUME IInv, [Next]_vars PROVE [Sequential!Next]_Sequential!vars
    OBVIOUS
  <2> USE DEF Sequential!vars, Held
  <2>1. CASE \E i \in Items : Settle(i)
    BY <2>1 DEF Settle, IInv, StatusInv
  <2>2. CASE \E l \in Lanes : Resume(l)
    <3>1. status = "pending"
      BY <2>2 DEF Resume, StoreAndTake, StoreAndReturn, Store, Fail, IInv, StatusInv, LanesDone, TypeOK
    <3> QED BY <2>2, <3>1 DEF Resume, StoreAndTake, StoreAndReturn, Store, Fail
  <2>3. CASE Return
    <3>1. taken = N
      BY <2>3, LaneCountFacts, SizeAssumption DEF Return, IInv, BusyInv, LanesDone, Lanes, TypeOK
    <3>2. \A i \in Items : i \notin fails /\ out[i] = i
      BY <2>3, <3>1, AllRecorded, SizeAssumption DEF Return, Items
    <3>3. fails = {}
      BY <3>2 DEF IInv, TypeOK
    <3>4. Held' = [i \in Items |-> i]
      BY <2>3, <3>2 DEF Return
    <3> QED BY <2>3, <3>3, <3>4 DEF Return, Sequential!Next, Sequential!Return,
                                    Items, Sequential!Items
  <2>4. CASE Throw
    <3>1. PICK i \in failures : (\A j \in failures : i <= j) /\ thrown' = i
      BY <2>4 DEF Throw
    <3>2. i \in fails /\ i \in Items /\ i <= taken
      BY <3>1 DEF IInv, TypeOK, FailuresInv
    <3>3. \A j \in fails : i <= j
      <4> SUFFICES ASSUME NEW j \in fails, j < i PROVE FALSE
        BY <3>2 DEF IInv, TypeOK, Items
      <4>1. j \in Items /\ j <= taken
        BY <3>2 DEF IInv, TypeOK, Items
      <4>2. j \in failures
        BY <4>1, AllRecorded, <2>4 DEF Throw
      <4> QED BY <3>1, <3>2, <4>1, <4>2 DEF Items
    <3> QED BY <2>4, <3>1, <3>2, <3>3 DEF Throw, Sequential!Next, Sequential!Throw
  <2>5. CASE UNCHANGED vars
    BY <2>5 DEF vars
  <2> QED BY <2>1, <2>2, <2>3, <2>4, <2>5 DEF Next
<1> QED BY <1>1, <1>2, Invariance, PTL DEF Spec, LikeSequential, Sequential!Spec
=============================================================================
