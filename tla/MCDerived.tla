------------------------------ MODULE MCDerived ------------------------------
(* What is derived from the dataset and the sources by an algorithm, one per  *)
(* behaviour (part): the verdict of a check on a reference, the comparison of *)
(* a state machine, the cascade of a write, the impact of a failure.        *)
EXTENDS MCChecks, MCMachine, MCCascade, MCImpact

VARIABLE part

vars == <<part, sourceVars, machineVars, surface, impactVars>>

NoReference == ref = (CHOOSE r \in References : TRUE) /\ code = {} /\ checkedOut = {}
NoMachine == MachineInit
NoListeners == CascadeInit
NoFailure == connections = {} /\ relations = {} /\ origin = Resource /\ entries = {} /\ level = {}

Init ==
  \/ part = "checks" /\ SourceInit /\ NoMachine /\ NoListeners /\ NoFailure
  \/ part = "machine" /\ NoReference /\ MachineInit /\ NoListeners /\ NoFailure
  \/ part = "cascade" /\ NoReference /\ NoMachine /\ CascadeInit /\ NoFailure
  \/ part = "impact" /\ NoReference /\ NoMachine /\ NoListeners /\ ImpactInit

Checks == part = "checks" /\ SourceNext /\ UNCHANGED <<part, machineVars, surface, impactVars>>
Machine == part = "machine" /\ MachineNext /\ UNCHANGED <<part, sourceVars, surface, impactVars>>
Cascade == part = "cascade" /\ CascadeNext /\ UNCHANGED <<part, sourceVars, machineVars, impactVars>>
Impact == part = "impact" /\ ImpactNext /\ UNCHANGED <<part, sourceVars, machineVars, surface>>

Next == Checks \/ Machine \/ Cascade \/ Impact

Spec == Init /\ [][Next]_vars
=============================================================================
