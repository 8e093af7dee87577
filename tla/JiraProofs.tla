----------------------------- MODULE JiraProofs -----------------------------
(***************************************************************************)
(* A round of probes for any number of prefixes, lanes, slots and attempts. *)
(* A step of the round is a step of mapAtMost or none and a step of Bound   *)
(* or none, so what MapAtMostProofs and BoundProofs prove of each holds     *)
(* here; what is left is how the two hang together.                         *)
(***************************************************************************)
EXTENDS JiraProbes, LabelSearch, FiniteSetTheorems, SequenceTheorems, TLAPS

LaneFacts == INSTANCE MapAtMostProofs WITH Limit <- AtOnce
SlotFacts == INSTANCE BoundProofs WITH Callers <- 1..N, Limit <- InFlight

(* A probe is in run only while its lane awaits it, and one that sleeps has  *)
(* an attempt left.                                                         *)
Coupled ==
  /\ sends \in [Probes -> 0..Attempts]
  /\ \A i \in Probes : at[i] # "out" => call[i] = "running"
  /\ \A i \in Probes : Asleep(i) => sends[i] < Attempts

IInv == LaneFacts!IInv /\ SlotFacts!IInv /\ Coupled

-----------------------------------------------------------------------------
(* The facts of the two components, for the constants they have here.       *)
LEMMA ProbesFinite == IsFiniteSet(1..N)
BY SizeAssumption, FS_Interval

LEMMA LanesInit == LaneFacts!Init => LaneFacts!IInv
BY LaneFacts!InitInv, SizeAssumption, NothingAssumption

LEMMA LanesNext == LaneFacts!IInv /\ [LaneFacts!Next]_(LaneFacts!vars) => LaneFacts!IInv'
BY LaneFacts!NextInv, SizeAssumption, NothingAssumption

LEMMA SlotsNext == SlotFacts!IInv /\ [SlotFacts!Next]_(SlotFacts!vars) => SlotFacts!IInv'
BY SlotFacts!NextInv, SizeAssumption, ProbesFinite DEF IsFiniteSet, SlotFacts!IsFiniteSet

LEMMA SameCardinality == \A S : SlotFacts!Cardinality(S) = Cardinality(S)
BY DEF SlotFacts!Cardinality, Cardinality

(* Each action is one of mapAtMost, or leaves it alone, and one of Bound, or *)
(* leaves it alone.                                                         *)
LEMMA StepOfLanes == [Next]_vars => [LaneFacts!Next]_(LaneFacts!vars)
<1> SUFFICES ASSUME [Next]_vars PROVE [LaneFacts!Next]_(LaneFacts!vars)
  OBVIOUS
<1> USE DEF LaneFacts!vars, mapVars
<1>1. ASSUME NEW i \in Probes, Granted(i) \/ TooMany(i) \/ Wake(i)
      PROVE  UNCHANGED mapVars
  BY <1>1 DEF Granted, TooMany, Wake
<1>2. ASSUME NEW i \in Probes, Answered(i) \/ Refused(i) \/ TooManyTimes(i)
      PROVE  LaneFacts!Next
  BY <1>2 DEF Answered, Refused, TooManyTimes, Probes, Lanes!Settle,
              LaneFacts!Settle, LaneFacts!Next, LaneFacts!Items
<1>3. ASSUME NEW l \in Lanes!Lanes, NextProbe(l) \/ LaneEnds(l)
      PROVE  LaneFacts!Next
  BY <1>3 DEF NextProbe, LaneEnds, LaneFacts!Next, LaneFacts!Resume,
              Lanes!Lanes, Lanes!LaneCount, LaneFacts!Lanes, LaneFacts!LaneCount,
              Lanes!StoreAndTake, LaneFacts!StoreAndTake, Lanes!Store, LaneFacts!Store,
              Lanes!StoreAndReturn, LaneFacts!StoreAndReturn, Lanes!Fail, LaneFacts!Fail
<1>4. ASSUME RoundEnds PROVE LaneFacts!Next
  BY <1>4 DEF RoundEnds, LaneFacts!Next, Lanes!Return, LaneFacts!Return, Lanes!Throw,
              LaneFacts!Throw, Lanes!LanesDone, LaneFacts!LanesDone, Lanes!Lanes,
              LaneFacts!Lanes, Lanes!LaneCount, LaneFacts!LaneCount
<1> QED
  BY <1>1, <1>2, <1>3, <1>4 DEF Next, Answer, vars

LEMMA StepOfSlots == IInv /\ [Next]_vars => [SlotFacts!Next]_(SlotFacts!vars)
<1> SUFFICES ASSUME IInv, [Next]_vars PROVE [SlotFacts!Next]_(SlotFacts!vars)
  OBVIOUS
<1> USE DEF SlotFacts!vars, boundVars
<1>1. ASSUME NEW i \in Probes, Granted(i) PROVE SlotFacts!Next
  BY <1>1 DEF Granted, Probes, SlotFacts!Next, Slots!Resume, SlotFacts!Resume
<1>2. ASSUME NEW i \in Probes, Answer(i) PROVE SlotFacts!Next
  <2>1. Slots!Leave(i)
    BY <1>2 DEF Answer, Answered, Refused, TooMany, TooManyTimes
  <2> QED
    BY <2>1 DEF Probes, SlotFacts!Next, Slots!Leave, SlotFacts!Leave, Slots!LeaveToNext,
                SlotFacts!LeaveToNext, Slots!LeaveFree, SlotFacts!LeaveFree
<1>3. ASSUME NEW i \in Probes, Slots!Enter(i) PROVE SlotFacts!Next
  BY <1>3 DEF Probes, SlotFacts!Next, Slots!Enter, SlotFacts!Enter, Slots!EnterFree,
              SlotFacts!EnterFree, Slots!EnterWaiting, SlotFacts!EnterWaiting
<1>4. ASSUME NEW i \in Probes, Wake(i) PROVE SlotFacts!Next
  BY <1>3, <1>4 DEF Wake
<1>5. ASSUME NEW l \in Lanes!Lanes, NextProbe(l) PROVE SlotFacts!Next
  <2>1. taken + 1 \in Probes
    BY <1>5, SizeAssumption DEF NextProbe, Lanes!StoreAndTake, IInv, LaneFacts!IInv,
                                LaneFacts!TypeOK, Probes
  <2> QED
    BY <1>3, <1>5, <2>1 DEF NextProbe
<1>6. ASSUME (\E l \in Lanes!Lanes : LaneEnds(l)) \/ RoundEnds PROVE UNCHANGED boundVars
  BY <1>6 DEF LaneEnds, RoundEnds
<1> QED
  BY <1>1, <1>2, <1>4, <1>5, <1>6 DEF Next, vars

-----------------------------------------------------------------------------
LEMMA StartedFacts ==
  /\ Started \in 0..N /\ Slotted \in 0..Started /\ Slotted <= InFlight
  /\ Slotted < Started => Slotted = InFlight
BY SizeAssumption DEF Started, Slotted, Lanes!LaneCount

(* The lanes have started: Bound is not in its initial state, but its        *)
(* invariant holds.                                                         *)
LEMMA InitSlots == Init => SlotFacts!IInv
<1> SUFFICES ASSUME Init PROVE SlotFacts!IInv
  OBVIOUS
<1> USE SizeAssumption, StartedFacts DEF Init, Probes
<1>1. waiting \in Seq(1..N) /\ Len(waiting) = Started - Slotted
  <2>1. waiting \in [1..(Started - Slotted) -> 1..N]
    OBVIOUS
  <2>2. Started - Slotted \in Nat
    OBVIOUS
  <2>3. waiting \in Seq(1..N)
    BY <2>1, <2>2, SeqDef
  <2> QED
    BY <2>1, <2>2, <2>3, LenProperties
<1>2. SlotFacts!TypeOK
  BY <1>1 DEF SlotFacts!TypeOK, SlotFacts!Places
<1>3. SlotFacts!QueueInv
  <2>1. ASSUME NEW c \in 1..N
        PROVE  at[c] = "waiting" <=> \E k \in 1..Len(waiting) : waiting[k] = c
    <3>1. CASE at[c] = "waiting"
      <4>1. c - Slotted \in 1..(Started - Slotted) /\ waiting[c - Slotted] = c
        BY <3>1
      <4> QED
        BY <3>1, <4>1, <1>1
    <3>2. CASE \E k \in 1..Len(waiting) : waiting[k] = c
      BY <3>2, <1>1
    <3> QED
      BY <3>1, <3>2
  <2>2. \A j, k \in 1..Len(waiting) : waiting[j] = waiting[k] => j = k
    BY <1>1
  <2> QED
    BY <2>1, <2>2 DEF SlotFacts!QueueInv
<1>4. SlotFacts!SlotsAccountedFor
  <2>1. SlotFacts!Holders = 1..Slotted
    BY DEF SlotFacts!Holders
  <2>2. Cardinality(1..Slotted) = Slotted
    BY FS_Interval
  <2> QED
    BY <2>1, <2>2, SameCardinality DEF SlotFacts!SlotsAccountedFor
<1>5. SlotFacts!NoIdleSlot
  BY <1>1 DEF SlotFacts!NoIdleSlot
<1> QED
  BY <1>2, <1>3, <1>4, <1>5 DEF SlotFacts!IInv

LEMMA InitLanes == Init => LaneFacts!Init
BY DEF Init, Lanes!Init, LaneFacts!Init, Lanes!Items, LaneFacts!Items, Lanes!Lanes,
       LaneFacts!Lanes, Lanes!LaneCount, LaneFacts!LaneCount

LEMMA InitIInv == Init => IInv
<1> SUFFICES ASSUME Init PROVE IInv
  OBVIOUS
<1>1. Coupled
  BY SizeAssumption, AttemptsAssumption, StartedFacts
     DEF Init, Coupled, Asleep, Probes, Started, Lanes!Init, Lanes!Items
<1> QED
  BY <1>1, InitSlots, InitLanes, LanesInit DEF IInv

-----------------------------------------------------------------------------
(* What the actions of Bound do to the places of the probes.                *)
LEMMA LeavePlaces ==
  ASSUME SlotFacts!IInv, NEW i \in Probes, Slots!Leave(i)
  PROVE  /\ at[i] = "running" /\ at'[i] = "out"
         /\ \A j \in Probes : j # i => (at'[j] = "out" <=> at[j] = "out")
<1> USE DEF SlotFacts!IInv, SlotFacts!TypeOK, Probes
<1>1. CASE Slots!LeaveFree(i)
  BY <1>1 DEF Slots!LeaveFree
<1>2. CASE Slots!LeaveToNext(i)
  <2>1. waiting[1] \in Probes /\ Head(waiting) = waiting[1] /\ 1 \in 1..Len(waiting)
    <3>1. waiting \in Seq(1..N) /\ waiting # <<>>
      BY <1>2 DEF Slots!LeaveToNext
    <3>2. Len(waiting) \in Nat \ {0}
      BY <3>1, EmptySeq
    <3>3. 1 \in 1..Len(waiting) /\ Head(waiting) = waiting[1]
      BY <3>1, <3>2
    <3> QED
      BY <3>1, <3>3, ElementOfSeq
  <2>2. at[Head(waiting)] = "waiting"
    BY <2>1 DEF SlotFacts!QueueInv
  <2> QED
    BY <1>2, <2>1, <2>2 DEF Slots!LeaveToNext
<1> QED
  BY <1>1, <1>2 DEF Slots!Leave

LEMMA EnterPlaces ==
  ASSUME SlotFacts!IInv, NEW i \in Probes, Slots!Enter(i)
  PROVE  /\ at[i] = "out" /\ at'[i] # "out"
         /\ \A j \in Probes : j # i => at'[j] = at[j]
BY DEF SlotFacts!IInv, SlotFacts!TypeOK, Probes, Slots!Enter, Slots!EnterFree, Slots!EnterWaiting

LEMMA CoupledNext == IInv /\ [Next]_vars => Coupled'
<1> SUFFICES ASSUME IInv, [Next]_vars PROVE Coupled'
  OBVIOUS
<1> USE DEF IInv, Coupled, Asleep
<1>0. SlotFacts!TypeOK /\ LaneFacts!TypeOK
  BY DEF SlotFacts!IInv, LaneFacts!IInv
<1>1. ASSUME NEW i \in Probes, Granted(i) PROVE Coupled'
  BY <1>0, <1>1 DEF Granted, Slots!Resume, mapVars, SlotFacts!TypeOK, Probes
<1>2. ASSUME NEW i \in Probes, Answered(i) \/ Refused(i) \/ TooManyTimes(i) PROVE Coupled'
  <2>1. /\ at'[i] = "out"
        /\ \A j \in Probes : j # i => (at'[j] = "out" <=> at[j] = "out")
    BY <1>2, LeavePlaces DEF Answered, Refused, TooManyTimes
  <2>2. /\ call'[i] # "running"
        /\ \A j \in Probes : j # i => call'[j] = call[j]
        /\ sends' = sends
    BY <1>0, <1>2 DEF Answered, Refused, TooManyTimes, Lanes!Settle, LaneFacts!TypeOK,
                      LaneFacts!Items, Probes
  <2> QED
    BY <2>1, <2>2
<1>3. ASSUME NEW i \in Probes, TooMany(i) PROVE Coupled'
  BY <1>3, LeavePlaces DEF TooMany, mapVars
<1>4. ASSUME NEW i \in Probes, Wake(i) PROVE Coupled'
  <2>1. sends[i] \in 0..Attempts /\ sends[i] < Attempts
    BY <1>4 DEF Wake
  <2>2. sends' \in [Probes -> 0..Attempts]
    BY <1>4, <2>1, AttemptsAssumption DEF Wake
  <2>3. \A j \in Probes : j # i => sends'[j] = sends[j]
    BY <1>4 DEF Wake
  <2> QED
    BY <1>4, <2>2, <2>3, EnterPlaces DEF Wake, mapVars
<1>5. ASSUME NEW l \in Lanes!Lanes, NextProbe(l) PROVE Coupled'
  <2>1. taken + 1 \in Probes
    BY <1>0, <1>5, SizeAssumption DEF NextProbe, Lanes!StoreAndTake, LaneFacts!TypeOK, Probes
  <2>2. /\ call'[taken + 1] = "running"
        /\ \A j \in Probes : j # taken + 1 => call'[j] = call[j]
    BY <1>0, <1>5, <2>1 DEF NextProbe, Lanes!StoreAndTake, LaneFacts!TypeOK, LaneFacts!Items, Probes
  <2>3. /\ sends' \in [Probes -> 0..Attempts]
        /\ \A j \in Probes : j # taken + 1 => sends'[j] = sends[j]
    BY <1>5, <2>1, AttemptsAssumption DEF NextProbe
  <2> QED
    BY <1>5, <2>1, <2>2, <2>3, EnterPlaces DEF NextProbe
<1>6. ASSUME NEW l \in Lanes!Lanes, LaneEnds(l) PROVE Coupled'
  BY <1>6 DEF LaneEnds, Lanes!StoreAndReturn, Lanes!Fail, boundVars
<1>7. CASE RoundEnds
  BY <1>7 DEF RoundEnds, Lanes!Return, Lanes!Throw, boundVars
<1>8. CASE UNCHANGED vars
  BY <1>8 DEF vars
<1> QED
  BY <1>1, <1>2, <1>3, <1>4, <1>5, <1>6, <1>7, <1>8 DEF Next, Answer

LEMMA NextIInv == IInv /\ [Next]_vars => IInv'
BY StepOfLanes, StepOfSlots, LanesNext, SlotsNext, CoupledNext DEF IInv

LEMMA AlwaysIInv == Spec => []IInv
BY InitIInv, NextIInv, PTL DEF Spec

-----------------------------------------------------------------------------
(* The probes that hold a slot include those whose request is out.          *)
LEMMA RequestsHoldSlots == IInv => InFlightBound
<1> SUFFICES ASSUME IInv PROVE InFlightBound
  OBVIOUS
<1> DEFINE held == {i \in 1..N : at[i] \in {"granted", "running"}}
<1>1. free \in 0..InFlight /\ free + Cardinality(held) = InFlight
  BY SameCardinality DEF IInv, SlotFacts!IInv, SlotFacts!TypeOK, SlotFacts!SlotsAccountedFor,
                         SlotFacts!Holders
<1>2. IsFiniteSet(held) /\ Cardinality(held) \in Nat
  BY ProbesFinite, FS_Subset, FS_CardinalityType
<1>3. Requests \subseteq held
  BY DEF Requests, Probes
<1>4. Cardinality(Requests) <= Cardinality(held) /\ Cardinality(Requests) \in Nat
  BY <1>2, <1>3, FS_Subset, FS_CardinalityType
<1> QED
  BY <1>1, <1>2, <1>4, SizeAssumption DEF InFlightBound

(* A settled round has no call running, hence no probe in run.              *)
LEMMA SettledRoundIsQuiet == IInv => NothingLeftBehind
<1> SUFFICES ASSUME IInv, status # "pending"
             PROVE  free = InFlight /\ \A i \in Probes : at[i] = "out" /\ ~Asleep(i)
  BY DEF NothingLeftBehind
<1>1. ASSUME NEW i \in Probes PROVE call[i] # "running"
  <2>1. \A l \in LaneFacts!Lanes : lane[l] = Nothing
    BY DEF IInv, LaneFacts!IInv, LaneFacts!StatusInv, LaneFacts!LanesDone
  <2>2. i # Nothing
    BY NothingAssumption DEF Probes
  <2> QED
    BY <2>1, <2>2 DEF IInv, LaneFacts!IInv, LaneFacts!RecordedInv, LaneFacts!Items, Probes
<1>2. \A i \in Probes : at[i] = "out" /\ ~Asleep(i)
  BY <1>1 DEF IInv, Coupled, Asleep
<1>3. SlotFacts!Holders = {}
  BY <1>2 DEF Probes, SlotFacts!Holders
<1>4. free = InFlight
  <2>1. free \in 0..InFlight /\ free + Cardinality({}) = InFlight
    BY <1>3, SameCardinality DEF IInv, SlotFacts!IInv, SlotFacts!TypeOK, SlotFacts!SlotsAccountedFor
  <2> QED
    BY <2>1, FS_EmptySet, SizeAssumption
<1> QED
  BY <1>2, <1>4

(* However many prefixes, lanes, slots and attempts: Jira never sees more    *)
(* than IN_FLIGHT requests of a round, no probe is sent more often than     *)
(* ATTEMPTS, and a round that has settled has nothing out, queued or asleep.*)
THEOREM RoundsKeepTheirBounds == Spec => []RequestsInBounds
<1>1. IInv => TypeOK
  BY DEF IInv, Coupled, TypeOK, LaneFacts!IInv, SlotFacts!IInv, Lanes!TypeOK, LaneFacts!TypeOK,
         Slots!TypeOK, SlotFacts!TypeOK, Lanes!Items, LaneFacts!Items, Lanes!Lanes,
         LaneFacts!Lanes, Lanes!LaneCount, LaneFacts!LaneCount, Slots!Places, SlotFacts!Places
<1>2. IInv => RequestsInBounds
  BY <1>1, RequestsHoldSlots, SettledRoundIsQuiet DEF RequestsInBounds
<1> QED
  BY <1>2, AlwaysIInv, PTL

(* Every step of a round is a step of mapAtMost, or none.                    *)
LEMMA RoundIsAMapAtMost == Spec => LaneFacts!Spec
<1>1. Init => LaneFacts!Init
  BY InitLanes
<1>2. [Next]_vars => [LaneFacts!Next]_(LaneFacts!vars)
  BY StepOfLanes
<1> QED
  BY <1>1, <1>2, PTL DEF Spec, LaneFacts!Spec

(* mapAtMost's own theorem, for the lanes of a round.                        *)
LEMMA LanesLikeSequential == LaneFacts!Spec => LaneFacts!LikeSequential
BY LaneFacts!ImplementsSequential, SizeAssumption, NothingAssumption

(* A round is one run of mapAtMost, so it settles as the sequential loop     *)
(* over its prefixes would.                                                 *)
THEOREM RoundsImplementSequential == Spec => LikeSequential
<1> USE DEF Lanes!Held, LaneFacts!Held, Lanes!Items, LaneFacts!Items,
            Lanes!Sequential!Items, LaneFacts!Sequential!Items
<1>1. LaneFacts!Sequential!Init => Lanes!Sequential!Init
  BY DEF LaneFacts!Sequential!Init, Lanes!Sequential!Init
<1>2. [LaneFacts!Sequential!Next]_(LaneFacts!Sequential!vars)
        => [Lanes!Sequential!Next]_(Lanes!Sequential!vars)
  BY DEF LaneFacts!Sequential!Next, Lanes!Sequential!Next, LaneFacts!Sequential!Return,
         Lanes!Sequential!Return, LaneFacts!Sequential!Throw, Lanes!Sequential!Throw,
         LaneFacts!Sequential!vars, Lanes!Sequential!vars
<1> QED
  BY <1>1, <1>2, RoundIsAMapAtMost, LanesLikeSequential, PTL
     DEF LikeSequential, Lanes!LikeSequential, LaneFacts!LikeSequential,
         Lanes!Sequential!Spec, LaneFacts!Sequential!Spec

-----------------------------------------------------------------------------
(* The search over the rounds, for any labels, characters and limits.       *)
(* The prefixes of a level are of one length, which no probed one has, and   *)
(* each but the empty one extends an opened one.                            *)
Levelled ==
  \E depth \in 0..(MaxPrefix + 1) :
    /\ \A t \in level : /\ t \in Seq(Range(LabelChars)) /\ Len(t) = depth /\ depth <= MaxPrefix
                        /\ t # <<>> => \E p \in opened, c \in Range(LabelChars) :
                                         p \in Seq(Range(LabelChars)) /\ t = Append(p, c)
    /\ \A t \in probed : Len(t) < depth

(* A label not found lies under a prefix still to probe, or falls through.   *)
FoundOrDue == ~threw => \A w \in labels \ found : (\E t \in level : IsPrefix(t, w)) \/ FallsThrough(w)

LabelInv == /\ labels \subseteq Words
            /\ left \in Nat
            /\ IsFiniteSet(level)
            /\ Levelled
            /\ <<>> \in level => left > 0 \/ threw
            /\ FoundOrDue

LEMMA LabelInitInv == LabelInit => LabelInv
<1> SUFFICES ASSUME LabelInit PROVE LabelInv
  OBVIOUS
<1>1. labels \subseteq Words
  BY DEF LabelInit, kSubset
<1>2. \A w \in Words : Len(w) \in Nat /\ IsPrefix(<<>>, w)
  <2> TAKE w \in Words
  <2>1. w \in Seq(Range(w))
    BY LabelAssumption
  <2> QED
    BY <2>1 DEF IsPrefix
<1>3. IsFiniteSet(level)
  BY FS_Singleton DEF LabelInit
<1>4. Levelled
  BY LabelAssumption DEF LabelInit, Levelled
<1> QED
  BY <1>1, <1>2, <1>3, <1>4, LabelAssumption DEF LabelInv, LabelInit, FoundOrDue

(* A level within the calls left is probed whole; the empty prefix is.       *)
LEMMA BatchIsTheLevel ==
  ASSUME IsFiniteSet(level), left \in Nat
  PROVE  /\ BatchSize \in Nat /\ BatchSize <= left
         /\ Batch # level => left - BatchSize = 0
         /\ left > 0 /\ <<>> \in level /\ (\A t \in level : t = <<>>) => <<>> \in Batch
<1>1. Cardinality(level) \in Nat
  BY FS_CardinalityType
<1>2. ASSUME Cardinality(level) < left PROVE Batch = level
  <2>1. \A t \in level : Cardinality({u \in level : Before(u, t)}) <= Cardinality(level)
    BY FS_Subset
  <2>2. \A t \in level : Cardinality({u \in level : Before(u, t)}) \in Nat
    BY FS_Subset, FS_CardinalityType
  <2> QED
    BY <2>1, <2>2, <1>1, <1>2 DEF Batch
<1>3. ASSUME left > 0, <<>> \in level PROVE <<>> \in Batch
  <2>1. {u \in level : Before(u, <<>>)} = {}
    BY DEF Before
  <2> QED
    BY <2>1, <1>3, FS_EmptySet DEF Batch
<1> QED
  BY <1>1, <1>2, <1>3 DEF BatchSize

(* What a next level holds.                                                  *)
LEMMA NextLevelIs ==
  ASSUME NEW batch, NEW answers, NEW t
  PROVE  t \in NextLevel(batch, answers)
           <=> \E p \in batch, c \in Range(LabelChars) : Opens(p, answers[p]) /\ t = Append(p, c)
BY DEF NextLevel, Extensions

LEMMA NextLevelIsFinite ==
  ASSUME NEW batch, IsFiniteSet(batch), NEW answers
  PROVE  IsFiniteSet(NextLevel(batch, answers))
<1> DEFINE pairs == batch \X Range(LabelChars)
           extend == [pair \in pairs |-> Append(pair[1], pair[2])]
           all == {extend[pair] : pair \in pairs}
<1>1. IsFiniteSet(Range(LabelChars))
  <2>1. IsFiniteSet(DOMAIN LabelChars)
    BY LabelAssumption, FS_Interval
  <2>2. LabelChars \in [DOMAIN LabelChars -> Range(LabelChars)]
    BY LabelAssumption
  <2>3. LabelChars \in Surjection(DOMAIN LabelChars, Range(LabelChars))
    BY <2>2 DEF Surjection, Range
  <2> QED
    BY <2>1, <2>3, FS_Surjection
<1>2. IsFiniteSet(pairs)
  BY <1>1, FS_Product
<1>3. extend \in Surjection(pairs, all)
  BY DEF Surjection
<1>4. IsFiniteSet(all)
  <2> HIDE DEF pairs, extend, all
  <2> QED
    BY <1>2, <1>3, FS_Surjection
<1>5. \A p \in batch, c \in Range(LabelChars) : extend[<<p, c>>] = Append(p, c)
  OBVIOUS
<1>6. \A t \in NextLevel(batch, answers) : t \in all
  <2> TAKE t \in NextLevel(batch, answers)
  <2>1. PICK p \in batch, c \in Range(LabelChars) : t = Append(p, c)
    BY NextLevelIs
  <2>2. <<p, c>> \in pairs /\ extend[<<p, c>>] = t
    BY <2>1, <1>5
  <2> HIDE DEF pairs, extend
  <2> QED
    BY <2>2
<1> QED
  BY <1>4, <1>6, FS_Subset

(* The prefix of a label and its next character.                            *)
LEMMA PrefixGrows ==
  ASSUME NEW w, w \in Seq(Range(w)), NEW S, NEW t \in Seq(S), IsPrefix(t, w)
  PROVE  /\ Len(t) <= Len(w)
         /\ Len(t) = Len(w) => t = w
         /\ Len(t) < Len(w) => IsPrefix(Append(t, w[Len(t) + 1]), w)
<1> DEFINE c == w[Len(t) + 1]
<1>1. Len(t) \in Nat /\ Len(w) \in Nat /\ Len(t) <= Len(w) /\ \A k \in 1..Len(t) : t[k] = w[k]
  BY DEF IsPrefix
<1>2. ASSUME Len(t) = Len(w) PROVE t = w
  BY <1>1, <1>2
<1>3. ASSUME Len(t) < Len(w) PROVE IsPrefix(Append(t, c), w)
  <2>1. Append(t, c) \in Seq(S \cup {c}) /\ Len(Append(t, c)) = Len(t) + 1
    OBVIOUS
  <2>2. \A k \in 1..(Len(t) + 1) : Append(t, c)[k] = w[k]
    BY <1>1
  <2> QED
    BY <1>1, <1>3, <2>1, <2>2 DEF IsPrefix
<1> QED
  BY <1>1, <1>2, <1>3

LEMMA PrefixShrinks ==
  ASSUME NEW w, w \in Seq(Range(w)), NEW S, NEW p \in Seq(S), NEW c \in S, IsPrefix(Append(p, c), w)
  PROVE  IsPrefix(p, w) /\ w[Len(p) + 1] = c /\ Len(p) < Len(w)
<1>1. Append(p, c) \in Seq(S) /\ Len(Append(p, c)) = Len(p) + 1 /\ Len(p) \in Nat /\ Len(w) \in Nat
  OBVIOUS
<1>2. Len(p) + 1 <= Len(w) /\ \A k \in 1..(Len(p) + 1) : Append(p, c)[k] = w[k]
  BY <1>1 DEF IsPrefix
<1>3. \A k \in 1..Len(p) : p[k] = w[k]
  BY <1>1, <1>2
<1>4. w[Len(p) + 1] = c
  BY <1>1, <1>2
<1> QED
  BY <1>1, <1>2, <1>3, <1>4 DEF IsPrefix

(* A label that its suggestions leave out was one of more than they hold.    *)
LEMMA LeftOutOfAFullAnswer ==
  ASSUME NEW t, NEW answer \in Suggestions(t), NEW w \in labels, IsPrefix(t, w), w \notin answer
  PROVE  Full(answer)
<1>1. w \in Matching(t)
  BY DEF Matching
<1>2. Cardinality(answer) = FullAnswer
  BY <1>1 DEF Suggestions, kSubset
<1> QED
  BY <1>2, LabelAssumption DEF Full

LEMMA RoundKeeps == ASSUME LabelInv, Round PROVE LabelInv'
<1>1. PICK answers :
        /\ answers \in [Batch -> UNION {Suggestions(typed) : typed \in Batch}]
        /\ \A typed \in Batch : answers[typed] \in Suggestions(typed)
        /\ found' = found \cup UNION {answers[typed] : typed \in Batch}
        /\ opened' = opened \cup {typed \in Batch : Full(answers[typed])}
        /\ level' = NextLevel(Batch, answers)
  BY DEF Round
<1>2. /\ level # {} /\ left > 0 /\ ~threw /\ left' = left - BatchSize
      /\ probed' = probed \cup Batch /\ labels' = labels /\ threw' = threw
  BY DEF Round, Probing
<1>3. Batch \subseteq level /\ IsFiniteSet(Batch)
  BY FS_Subset DEF Batch, LabelInv
<1>4. left' \in Nat /\ (Batch # level => left' = 0)
  BY <1>2, BatchIsTheLevel DEF LabelInv
<1>5. PICK depth \in 0..(MaxPrefix + 1) :
        /\ \A t \in level : /\ t \in Seq(Range(LabelChars)) /\ Len(t) = depth /\ depth <= MaxPrefix
                            /\ t # <<>> => \E p \in opened, c \in Range(LabelChars) :
                                             p \in Seq(Range(LabelChars)) /\ t = Append(p, c)
        /\ \A t \in probed : Len(t) < depth
  BY DEF LabelInv, Levelled
<1>6. depth <= MaxPrefix /\ depth \in Nat /\ depth + 1 \in 0..(MaxPrefix + 1)
  BY <1>2, <1>5, LabelAssumption
<1>7. ASSUME NEW t \in Batch
      PROVE  t \in Seq(Range(LabelChars)) /\ Len(t) = depth /\ (Full(answers[t]) => t \in opened')
  BY <1>1, <1>3, <1>5
<1>8. Levelled'
  <2>1. ASSUME NEW t \in level'
        PROVE  /\ t \in Seq(Range(LabelChars)) /\ Len(t) = depth + 1 /\ depth + 1 <= MaxPrefix
               /\ \E p \in opened', c \in Range(LabelChars) : p \in Seq(Range(LabelChars)) /\ t = Append(p, c)
    <3>1. PICK p \in Batch, c \in Range(LabelChars) : Opens(p, answers[p]) /\ t = Append(p, c)
      BY <1>1, <2>1, NextLevelIs
    <3>2. Full(answers[p]) /\ Len(p) < MaxPrefix
      BY <3>1 DEF Opens
    <3>3. p \in Seq(Range(LabelChars)) /\ Len(p) = depth /\ p \in opened'
      BY <3>1, <3>2, <1>7
    <3>4. t \in Seq(Range(LabelChars)) /\ Len(t) = depth + 1
      BY <3>1, <3>3
    <3>5. depth + 1 <= MaxPrefix
      BY <3>2, <3>3, <1>6, LabelAssumption
    <3> QED
      BY <3>1, <3>3, <3>4, <3>5
  <2>2. ASSUME NEW t \in probed' PROVE Len(t) < depth + 1
    <3>1. CASE t \in probed
      <4>1. Len(t) < depth
        BY <3>1, <1>5
      <4> QED
        BY <4>1, <1>6
    <3>2. CASE t \in Batch
      BY <3>2, <1>6, <1>7
    <3> QED
      BY <2>2, <3>1, <3>2, <1>2
  <2> QED
    BY <1>6, <2>1, <2>2 DEF Levelled
<1>9. FoundOrDue'
  <2> SUFFICES ASSUME NEW w \in labels \ found' PROVE (\E t \in level' : IsPrefix(t, w)) \/ FallsThrough(w)'
    BY <1>2 DEF FoundOrDue
  <2>1. w \in labels /\ w \notin found /\ w \in Words
    BY <1>1 DEF LabelInv
  <2>2. w \in Seq(Range(w))
    BY <2>1, LabelAssumption
  <2>3. opened \subseteq opened'
    BY <1>1
  <2>4. CASE FallsThrough(w)
    BY <1>2, <2>3, <2>4 DEF FallsThrough, LabelInv
  <2>5. ASSUME NEW t \in level, IsPrefix(t, w), t \in Batch
        PROVE  (\E u \in level' : IsPrefix(u, w)) \/ FallsThrough(w)'
    <3>1. w \notin answers[t] /\ answers[t] \in Suggestions(t)
      BY <1>1, <2>5
    <3>2. Full(answers[t])
      BY <3>1, <2>1, <2>5, LeftOutOfAFullAnswer
    <3>3. t \in Seq(Range(LabelChars)) /\ Len(t) = depth /\ t \in opened'
      BY <3>2, <2>5, <1>7
    <3>4. /\ Len(t) <= Len(w)
          /\ Len(t) = Len(w) => t = w
          /\ Len(t) < Len(w) => IsPrefix(Append(t, w[Len(t) + 1]), w)
      BY <2>2, <2>5, <3>3, PrefixGrows
    <3>5. CASE t = w \/ Len(t) = MaxPrefix \/ w[Len(t) + 1] \notin Range(LabelChars)
      BY <3>3, <3>5, <2>5 DEF FallsThrough
    <3>6. CASE t # w /\ Len(t) # MaxPrefix /\ w[Len(t) + 1] \in Range(LabelChars)
      <4>1. Len(t) < Len(w) /\ Len(t) < MaxPrefix
        BY <3>3, <3>4, <3>6, <1>6, <2>2, LabelAssumption
      <4>2. Append(t, w[Len(t) + 1]) \in level'
        BY <4>1, <3>2, <3>6, <2>5, <1>1, NextLevelIs DEF Opens
      <4> QED
        BY <4>1, <4>2, <3>4
    <3> QED
      BY <3>5, <3>6
  <2>6. ASSUME NEW t \in level, IsPrefix(t, w), t \notin Batch
        PROVE  FallsThrough(w)'
    <3>1. left' = 0
      BY <2>6, <1>4
    <3>2. t # <<>>
      <4> SUFFICES ASSUME t = <<>> PROVE FALSE
        OBVIOUS
      <4>1. depth = 0
        BY <1>5
      <4>2. \A u \in level : u = <<>>
        BY <4>1, <1>5
      <4> QED
        BY <4>2, <2>6, <1>2, BatchIsTheLevel DEF LabelInv
    <3>3. PICK p \in opened, c \in Range(LabelChars) : p \in Seq(Range(LabelChars)) /\ t = Append(p, c)
      BY <3>2, <1>5
    <3>4. IsPrefix(p, w) /\ w[Len(p) + 1] = c
      BY <3>3, <2>2, <2>6, PrefixShrinks
    <3>5. t \notin probed'
      BY <1>2, <1>5, <1>6, <2>6
    <3> QED
      BY <3>1, <3>3, <3>4, <3>5, <2>3 DEF FallsThrough
  <2> QED
    BY <1>2, <2>1, <2>4, <2>5, <2>6 DEF LabelInv, FoundOrDue
<1>10. IsFiniteSet(level')
  BY <1>1, <1>3, NextLevelIsFinite
<1>11. <<>> \notin level'
  <2> SUFFICES ASSUME <<>> \in level' PROVE FALSE
    OBVIOUS
  <2>1. PICK p \in Batch, c \in Range(LabelChars) : <<>> = Append(p, c)
    BY <1>1, NextLevelIs
  <2> QED
    BY <2>1, <1>7
<1> QED
  BY <1>2, <1>4, <1>8, <1>9, <1>10, <1>11 DEF LabelInv

LEMMA LabelNextInv == LabelInv /\ [LabelNext]_labelVars => LabelInv'
<1>1. ASSUME LabelInv, RoundThrows PROVE LabelInv'
  <2>1. BatchSize \in Nat /\ BatchSize <= left
    BY <1>1, BatchIsTheLevel DEF LabelInv
  <2> QED
    BY <1>1, <2>1 DEF LabelInv, RoundThrows, Levelled, FoundOrDue
<1>2. ASSUME LabelInv, UNCHANGED labelVars PROVE LabelInv'
  BY <1>2 DEF LabelInv, labelVars, Levelled, FoundOrDue, FallsThrough
<1> QED
  BY <1>1, <1>2, RoundKeeps DEF LabelNext

(* A label is lost only where a full answer cuts it: a search that returns  *)
(* has found every other one, whatever Jira suggests on the way.            *)
THEOREM NoLabelIsLost == LabelSpec => []LabelsFoundUnlessCut
<1>1. LabelInv => LabelsFoundUnlessCut
  <2> SUFFICES ASSUME LabelInv, Returned, NEW w \in labels \ found PROVE FallsThrough(w)
    BY DEF LabelsFoundUnlessCut
  <2>1. CASE \E t \in level : IsPrefix(t, w)
    <3>1. PICK t \in level : IsPrefix(t, w)
      BY <2>1
    <3>2. left = 0 /\ t # <<>>
      BY <3>1 DEF Returned, LabelInv
    <3>3. PICK depth \in 0..(MaxPrefix + 1) :
            /\ \A u \in level : /\ u \in Seq(Range(LabelChars)) /\ Len(u) = depth /\ depth <= MaxPrefix
                                /\ u # <<>> => \E p \in opened, c \in Range(LabelChars) :
                                                 p \in Seq(Range(LabelChars)) /\ u = Append(p, c)
            /\ \A u \in probed : Len(u) < depth
      BY DEF LabelInv, Levelled
    <3>4. PICK p \in opened, c \in Range(LabelChars) : p \in Seq(Range(LabelChars)) /\ t = Append(p, c)
      BY <3>1, <3>2, <3>3
    <3>5. w \in Seq(Range(w))
      BY LabelAssumption DEF LabelInv
    <3>6. IsPrefix(p, w) /\ w[Len(p) + 1] = c
      BY <3>1, <3>4, <3>5, PrefixShrinks
    <3>7. t \notin probed
      BY <3>1, <3>3, LabelAssumption
    <3> QED
      BY <3>2, <3>4, <3>6, <3>7 DEF FallsThrough
  <2> QED
    BY <2>1 DEF LabelInv, FoundOrDue, Returned
<1> QED
  BY <1>1, LabelInitInv, LabelNextInv, PTL DEF LabelSpec
=============================================================================
