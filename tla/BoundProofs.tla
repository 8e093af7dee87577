---------------------------- MODULE BoundProofs ----------------------------
(* Machine-checked facts about Bound for any number of callers and slots.   *)
EXTENDS Bound, FiniteSetTheorems, TLAPS

(* The queue holds exactly the waiting callers, each once.                  *)
QueueInv ==
  /\ \A c \in Callers : at[c] = "waiting" <=> \E k \in 1..Len(waiting) : waiting[k] = c
  /\ \A j, k \in 1..Len(waiting) : waiting[j] = waiting[k] => j = k

IInv ==
  /\ TypeOK
  /\ QueueInv
  /\ SlotsAccountedFor
  /\ NoIdleSlot
-----------------------------------------------------------------------------
LEMMA HoldersFinite ==
  /\ IsFiniteSet(Holders)
  /\ Cardinality(Holders) \in Nat
BY CallersAssumption, FS_Subset, FS_CardinalityType DEF Holders

LEMMA InitInv == Init => IInv
<1> SUFFICES ASSUME Init PROVE IInv
  OBVIOUS
<1>1. TypeOK /\ QueueInv /\ NoIdleSlot
  BY LimitAssumption DEF Init, TypeOK, QueueInv, NoIdleSlot, Places
<1>2. Holders = {}
  BY DEF Init, Holders
<1>3. SlotsAccountedFor
  BY <1>2, FS_EmptySet, LimitAssumption DEF Init, SlotsAccountedFor
<1> QED BY <1>1, <1>3 DEF IInv

LEMMA EnterFreeInv == ASSUME IInv, NEW c \in Callers, EnterFree(c) PROVE IInv'
<1> USE LimitAssumption DEF IInv, EnterFree
<1>1. TypeOK'
  BY DEF TypeOK, Places
<1>2. QueueInv'
  BY DEF QueueInv, TypeOK
<1>3. Holders' = Holders \cup {c} /\ c \notin Holders
  BY DEF Holders, TypeOK
<1>4. SlotsAccountedFor'
  <2>1. Cardinality(Holders') = Cardinality(Holders) + 1
    BY <1>3, HoldersFinite, FS_AddElement
  <2> QED BY <2>1, HoldersFinite DEF SlotsAccountedFor, TypeOK
<1>5. NoIdleSlot'
  BY DEF NoIdleSlot, TypeOK
<1> QED BY <1>1, <1>2, <1>4, <1>5

LEMMA EnterWaitingInv == ASSUME IInv, NEW c \in Callers, EnterWaiting(c) PROVE IInv'
<1> USE LimitAssumption DEF IInv, EnterWaiting
<1>1. TypeOK'
  BY DEF TypeOK, Places
<1>2. /\ Len(waiting') = Len(waiting) + 1
      /\ \A k \in 1..Len(waiting) : waiting'[k] = waiting[k]
      /\ waiting'[Len(waiting) + 1] = c
      /\ Len(waiting) \in Nat
  BY DEF TypeOK
<1>3. QueueInv'
  <2>1. \A k \in 1..Len(waiting) : waiting[k] # c
    BY DEF QueueInv
  <2>2. \A j, k \in 1..Len(waiting') : waiting'[j] = waiting'[k] => j = k
    BY <1>2, <2>1 DEF QueueInv
  <2>3. ASSUME NEW d \in Callers
        PROVE  at'[d] = "waiting" <=> \E k \in 1..Len(waiting') : waiting'[k] = d
    <3>1. CASE d = c
      BY <1>2, <3>1 DEF TypeOK
    <3>2. CASE d # c
      <4>1. at'[d] = at[d]
        BY <3>2 DEF TypeOK
      <4>2. (\E k \in 1..Len(waiting) : waiting[k] = d)
              <=> \E k \in 1..Len(waiting') : waiting'[k] = d
        BY <1>2, <3>2
      <4> QED BY <4>1, <4>2 DEF QueueInv
    <3> QED BY <3>1, <3>2
  <2> QED BY <2>2, <2>3 DEF QueueInv
<1>4. Holders' = Holders
  BY DEF Holders, TypeOK
<1>5. SlotsAccountedFor' /\ NoIdleSlot'
  BY <1>4 DEF SlotsAccountedFor, NoIdleSlot
<1> QED BY <1>1, <1>3, <1>5

LEMMA ResumeInv == ASSUME IInv, NEW c \in Callers, Resume(c) PROVE IInv'
<1> USE DEF IInv, Resume
<1>1. TypeOK'
  BY DEF TypeOK, Places
<1>2. QueueInv'
  BY DEF QueueInv, TypeOK
<1>3. Holders' = Holders
  BY DEF Holders, TypeOK
<1>4. SlotsAccountedFor' /\ NoIdleSlot'
  BY <1>3 DEF SlotsAccountedFor, NoIdleSlot
<1> QED BY <1>1, <1>2, <1>4

LEMMA LeaveToNextInv == ASSUME IInv, NEW c \in Callers, LeaveToNext(c) PROVE IInv'
<1> USE LimitAssumption DEF IInv, LeaveToNext
<1> DEFINE h == Head(waiting)
<1>1. /\ Len(waiting) \in Nat /\ Len(waiting) > 0
      /\ h = waiting[1]
      /\ h \in Callers
      /\ Len(waiting') = Len(waiting) - 1
      /\ \A k \in 1..Len(waiting') : waiting'[k] = waiting[k + 1]
      /\ waiting' \in Seq(Callers)
  BY DEF TypeOK
<1>2. at[h] = "waiting" /\ h # c
  BY <1>1 DEF QueueInv
<1>3. at' = [d \in Callers |-> IF d = h THEN "granted" ELSE IF d = c THEN "out" ELSE at[d]]
  BY <1>1, <1>2 DEF TypeOK
<1> HIDE DEF h
<1>4. TypeOK'
  BY <1>1, <1>3 DEF TypeOK, Places
<1>5. QueueInv'
  <2>1. \A j, k \in 1..Len(waiting') : waiting'[j] = waiting'[k] => j = k
    BY <1>1 DEF QueueInv
  <2>2. ASSUME NEW d \in Callers
        PROVE  at'[d] = "waiting" <=> \E k \in 1..Len(waiting') : waiting'[k] = d
    <3>1. CASE d = h
      <4>1. \A k \in 2..Len(waiting) : waiting[k] # h
        BY <1>1 DEF QueueInv
      <4> QED BY <1>1, <1>3, <3>1, <4>1
    <3>2. CASE d # h
      <4>1. at'[d] = "waiting" <=> at[d] = "waiting"
        BY <1>3, <3>2
      <4>2. (\E k \in 1..Len(waiting) : waiting[k] = d)
              => \E k \in 1..Len(waiting') : waiting'[k] = d
        <5> SUFFICES ASSUME NEW k \in 1..Len(waiting), waiting[k] = d
                     PROVE  \E m \in 1..Len(waiting') : waiting'[m] = d
          OBVIOUS
        <5>1. k # 1
          BY <1>1, <3>2
        <5>2. k - 1 \in 1..Len(waiting') /\ waiting'[k - 1] = d
          BY <1>1, <5>1
        <5> QED BY <5>2
      <4>3. (\E k \in 1..Len(waiting') : waiting'[k] = d)
              => \E k \in 1..Len(waiting) : waiting[k] = d
        <5> SUFFICES ASSUME NEW k \in 1..Len(waiting'), waiting'[k] = d
                     PROVE  \E m \in 1..Len(waiting) : waiting[m] = d
          OBVIOUS
        <5>1. k + 1 \in 1..Len(waiting) /\ waiting[k + 1] = d
          BY <1>1
        <5> QED BY <5>1
      <4> QED BY <4>1, <4>2, <4>3 DEF QueueInv
    <3> QED BY <3>1, <3>2
  <2> QED BY <2>1, <2>2 DEF QueueInv
<1>6. SlotsAccountedFor'
  <2>1. c \in Holders /\ h \notin Holders
    BY <1>1, <1>2 DEF Holders
  <2>2. Holders' = (Holders \ {c}) \cup {h}
    BY <1>1, <1>2, <1>3 DEF Holders
  <2>3. Cardinality(Holders \ {c}) = Cardinality(Holders) - 1 /\ IsFiniteSet(Holders \ {c})
    BY <2>1, HoldersFinite, FS_RemoveElement
  <2>4. Cardinality(Holders') = Cardinality(Holders \ {c}) + 1
    BY <2>1, <2>2, <2>3, FS_AddElement
  <2> QED BY <2>3, <2>4, HoldersFinite DEF SlotsAccountedFor
<1>7. NoIdleSlot'
  BY DEF NoIdleSlot
<1> QED BY <1>4, <1>5, <1>6, <1>7

LEMMA LeaveFreeInv == ASSUME IInv, NEW c \in Callers, LeaveFree(c) PROVE IInv'
<1> USE LimitAssumption DEF IInv, LeaveFree
<1>1. c \in Holders /\ Holders' = Holders \ {c}
  BY DEF Holders, TypeOK
<1>2. Cardinality(Holders') = Cardinality(Holders) - 1 /\ Cardinality(Holders') \in Nat
  BY <1>1, HoldersFinite, FS_RemoveElement, FS_CardinalityType
<1>3. SlotsAccountedFor'
  BY <1>2, HoldersFinite DEF SlotsAccountedFor, TypeOK
<1>4. TypeOK'
  BY <1>2, <1>3, HoldersFinite DEF TypeOK, Places, SlotsAccountedFor
<1>5. QueueInv' /\ NoIdleSlot'
  BY DEF QueueInv, NoIdleSlot, TypeOK
<1> QED BY <1>3, <1>4, <1>5

LEMMA NextInv == IInv /\ [Next]_vars => IInv'
<1> SUFFICES ASSUME IInv, [Next]_vars PROVE IInv'
  OBVIOUS
<1>1. CASE Next
  BY <1>1, EnterFreeInv, EnterWaitingInv, ResumeInv, LeaveToNextInv, LeaveFreeInv
     DEF Next, Enter, Leave
<1>2. CASE UNCHANGED vars
  BY <1>2 DEF vars, IInv, TypeOK, QueueInv, SlotsAccountedFor, NoIdleSlot, Holders
<1> QED BY <1>1, <1>2

(* The queue, the places and the free slots agree in every reachable state. *)
THEOREM Invariance == Spec => []IInv
BY InitInv, NextInv, PTL DEF Spec

(* The type invariant of Bound: free stays between 0 and Limit.             *)
THEOREM TypeCorrect == Spec => []TypeOK
<1>1. IInv => TypeOK
  BY DEF IInv
<1> QED BY <1>1, Invariance, PTL

(* Bound never loses a slot and never runs more than Limit tasks.           *)
THEOREM SlotsKept == Spec => []SlotsAccountedFor
<1>1. IInv => SlotsAccountedFor
  BY DEF IInv
<1> QED BY <1>1, Invariance, PTL

(* Bound never leaves a slot free while a caller waits.                     *)
THEOREM WorkConserving == Spec => []NoIdleSlot
<1>1. IInv => NoIdleSlot
  BY DEF IInv
<1> QED BY <1>1, Invariance, PTL

(* Bound gives its slots in the order of the calls.                         *)
THEOREM FirstComeFirstServed == Spec => NoOvertaking
<1> DEFINE Fair == \A c \in Callers : c \notin Holders /\ c \in Holders' =>
                     waiting = <<>> \/ c = Head(waiting)
<1>1. IInv /\ [Next]_vars => [Fair]_vars
  <2> SUFFICES ASSUME IInv, Next, NEW c \in Callers, c \notin Holders, c \in Holders',
                      waiting # <<>>
               PROVE  c = Head(waiting)
    BY DEF vars
  <2>1. PICK d \in Callers : Enter(d) \/ Resume(d) \/ Leave(d)
    BY DEF Next
  <2>2. CASE Enter(d)
    BY <2>2 DEF Enter, EnterFree, EnterWaiting, Holders, IInv, TypeOK, NoIdleSlot
  <2>3. CASE Resume(d)
    BY <2>3 DEF Resume, Holders, IInv, TypeOK
  <2>4. CASE Leave(d)
    BY <2>4 DEF Leave, LeaveToNext, LeaveFree, Holders, IInv, TypeOK
  <2> QED BY <2>1, <2>2, <2>3, <2>4
<1> QED BY <1>1, Invariance, PTL DEF Spec, NoOvertaking
=============================================================================
