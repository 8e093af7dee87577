----------------------------- MODULE JiraProbes -----------------------------
(***************************************************************************)
(* One round of label probes of discovery/src/jira/snapshot.ts: mapAtMost   *)
(* runs LABEL_PROBES_AT_ONCE lanes, each probe is one get of the Jira       *)
(* client, get retries a 429 after a pause (retrying), and every single     *)
(* request, but not the pause, holds one of the IN_FLIGHT slots of the      *)
(* client's Bound.  MapAtMost and Bound are composed: a lane that takes an  *)
(* item enters Bound in the same job of the event loop.                     *)
(***************************************************************************)
EXTENDS Integers, Sequences, FiniteSets

CONSTANTS N,         (* prefixes in the round                               *)
          AtOnce,    (* LABEL_PROBES_AT_ONCE                                *)
          InFlight,  (* IN_FLIGHT                                           *)
          Attempts,  (* ATTEMPTS                                            *)
          Nothing

ASSUME AttemptsAssumption == Attempts \in Nat \ {0}
ASSUME SizeAssumption == N \in Nat /\ AtOnce \in Nat \ {0} /\ InFlight \in Nat \ {0}
ASSUME NothingAssumption == Nothing \notin Int

VARIABLES fails, taken, lane, call, out, failures, status, thrown,  \* MapAtMost
          free, waiting, at,                                        \* Bound
          sends                     (* requests sent for each probe so far  *)

mapVars == <<fails, taken, lane, call, out, failures, status, thrown>>
boundVars == <<free, waiting, at>>
vars == <<fails, taken, lane, call, out, failures, status, thrown, free, waiting, at, sends>>

Lanes == INSTANCE MapAtMost WITH Limit <- AtOnce
Slots == INSTANCE Bound WITH Callers <- 1..N, Limit <- InFlight

Probes == 1..N

(* No probe is sent more often than Attempts, and its lane and slot are      *)
(* those of mapAtMost and Bound.                                            *)
TypeOK ==
  /\ Lanes!TypeOK
  /\ Slots!TypeOK
  /\ sends \in [Probes -> 0..Attempts]

(* The lanes start in one job: the first InFlight probes get a slot and the *)
(* others queue behind them.                                                *)
Started == Lanes!LaneCount
Slotted == IF Started < InFlight THEN Started ELSE InFlight

Init ==
  /\ Lanes!Init
  /\ free = InFlight - Slotted
  /\ waiting = [k \in 1..(Started - Slotted) |-> Slotted + k]
  /\ at = [i \in Probes |-> IF i <= Slotted THEN "running"
                            ELSE IF i <= Started THEN "waiting" ELSE "out"]
  /\ sends = [i \in Probes |-> IF i <= Started THEN 1 ELSE 0]

(* A request that waited for its slot goes out.                             *)
Granted(i) == Slots!Resume(i) /\ UNCHANGED <<mapVars, sends>>

(* The answer the probe can use.                                            *)
Answered(i) ==
  /\ i \notin fails
  /\ Slots!Leave(i)
  /\ Lanes!Settle(i)
  /\ UNCHANGED sends

(* Any other failure than a 429: another status, the network, the timeout,  *)
(* a body that is no JSON.  retrying throws it on.                          *)
Refused(i) ==
  /\ i \in fails
  /\ Slots!Leave(i)
  /\ Lanes!Settle(i)
  /\ UNCHANGED sends

(* A 429 with attempts left: the slot is given back, the pause begins.      *)
TooMany(i) ==
  /\ sends[i] < Attempts
  /\ Slots!Leave(i)
  /\ UNCHANGED <<mapVars, sends>>

(* A 429 on the last attempt: Exhausted.                                    *)
TooManyTimes(i) ==
  /\ sends[i] = Attempts
  /\ i \in fails
  /\ Slots!Leave(i)
  /\ Lanes!Settle(i)
  /\ UNCHANGED sends

Asleep(i) == call[i] = "running" /\ at[i] = "out"

(* Mutant: a retry goes out beside the Bound.                               *)
WakeBesideBound(i) ==
  /\ Asleep(i)
  /\ at' = [at EXCEPT ![i] = "running"]
  /\ sends' = [sends EXCEPT ![i] = @ + 1]
  /\ UNCHANGED <<mapVars, free, waiting>>

(* Mutant: attempt is not counted.                                          *)
WakeUncounted(i) ==
  /\ Asleep(i)
  /\ Slots!Enter(i)
  /\ UNCHANGED <<mapVars, sends>>

(* The pause is over: the next attempt asks for a slot.                     *)
Wake(i) ==
  /\ Asleep(i)
  /\ Slots!Enter(i)
  /\ sends' = [sends EXCEPT ![i] = @ + 1]
  /\ UNCHANGED mapVars

(* A lane stores its result, takes the next prefix and sends its request.   *)
NextProbe(l) ==
  /\ Lanes!StoreAndTake(l)
  /\ Slots!Enter(taken + 1)
  /\ sends' = [sends EXCEPT ![taken + 1] = 1]

LaneEnds(l) ==
  /\ Lanes!StoreAndReturn(l) \/ Lanes!Fail(l)
  /\ UNCHANGED <<boundVars, sends>>

(* Mutant: the failures are kept but never thrown.                          *)
RoundForgives ==
  /\ status = "pending"
  /\ Lanes!LanesDone
  /\ status' = "returned"
  /\ UNCHANGED <<fails, taken, lane, call, out, failures, thrown, boundVars, sends>>

RoundEnds ==
  /\ Lanes!Return \/ Lanes!Throw
  /\ UNCHANGED <<boundVars, sends>>

Answer(i) == Answered(i) \/ Refused(i) \/ TooMany(i) \/ TooManyTimes(i)

Next ==
  \/ \E i \in Probes : Granted(i) \/ Answer(i) \/ Wake(i)
  \/ \E l \in Lanes!Lanes : NextProbe(l) \/ LaneEnds(l)
  \/ RoundEnds

(* A request ends by its timeout, a pause ends, a due job runs.             *)
Fairness ==
  /\ \A i \in Probes : WF_vars(Granted(i)) /\ WF_vars(Answer(i)) /\ WF_vars(Wake(i))
  /\ \A l \in Lanes!Lanes : WF_vars(NextProbe(l) \/ LaneEnds(l))
  /\ WF_vars(RoundEnds)

Spec == Init /\ [][Next]_vars

FairSpec == Spec /\ Fairness

-----------------------------------------------------------------------------
Requests == {i \in Probes : at[i] = "running"}

(* Jira never sees more than IN_FLIGHT requests of the client at once,      *)
(* although more lanes than that are open, some asleep, some queued.        *)
InFlightBound == Cardinality(Requests) <= InFlight

(* When the round settles, nothing of it is left behind: no request out, no *)
(* probe queued for a slot, no pause running, and every slot is free again, *)
(* also when it settles by a failure while others were retrying.            *)
NothingLeftBehind ==
  status # "pending" => /\ free = InFlight
                        /\ \A i \in Probes : at[i] = "out" /\ ~Asleep(i)

(* What Jira sees of a round: no probe is sent more often than Attempts, no  *)
(* more than IN_FLIGHT at once, and nothing is sent or owed once the round  *)
(* has settled.                                                             *)
RequestsInBounds == TypeOK /\ InFlightBound /\ NothingLeftBehind

(* The round settles as a loop over the prefixes would have, whatever       *)
(* requests are retried and in whatever order they are answered.            *)
LikeSequential == Lanes!LikeSequential

(* The round ends: lanes waiting for slots and slots held by lanes never    *)
(* wait for each other for good.                                            *)
RoundSettles == <>(status # "pending")
=============================================================================
