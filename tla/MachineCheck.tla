---------------------------- MODULE MachineCheck ----------------------------
(***************************************************************************)
(* An authored state machine against its Step Functions definition:           *)
(* discovery/src/state-machine-check.ts, the walk of data/state-machines.ts, *)
(* and of state-machine-source.ts that a definition, a file or an entry of   *)
(* States may be unreadable.  A machine is its start and its states; a state *)
(* has the name of the one it is nested in, or Top, and its arrows: next,    *)
(* default, choice, catch, start (of an item processor) and branch, each     *)
(* with how often it is there.  Either side is edited at any time, and the   *)
(* flow authored anew.                                                      *)
(***************************************************************************)
EXTENDS Naturals, FiniteSets

CONSTANTS CodeStates,   (* states a definition may have, variants of a name  *)
          Starts,       (* names a machine may start with                   *)
          FirstMachine, (* the definition in the beginning                  *)
          MaxEdits,     (* edits of the flow by hand before it is authored anew *)
          Top, Absent

VARIABLES definition, (* [start, states], as it runs                        *)
          source,   (* "found", "no definition" or "not checked out"       *)
          authored, (* the flow's machine                                  *)
          edits

machineVars == <<definition, source, authored, edits>>

Terminal == {"succeed", "fail"}
Arrow(kind, to) == [kind |-> kind, to |-> to, count |-> 1]

(* What can be read of the definition; the other entries are unresolved.    *)
Source == {s \in definition.states : s.readable}
Unresolved == {s \in definition.states : ~s.readable}

TerminalNames(states) == {s.name : s \in {x \in states : x.type \in Terminal}}
Level(states, in) == {s \in states : s.in = in}
Named(states, name) == CHOOSE s \in states : s.name = name
To(s, kind) == {r \in s.arrows : r.kind = kind}

-----------------------------------------------------------------------------
(* compare: one authored state against the state of its name at its level.  *)
NextDiffers(a, s, level) ==
  IF To(a, "next") # {} THEN To(s, "next") # To(a, "next")
  ELSE /\ ~s.end /\ a.type # "choice"
       /\ ~\E r \in To(s, "next") : r.to \in TerminalNames(level)

(* Mutant: a state that does not catch in the flow is not looked at.        *)
CatchesDifferOneWay(a, s) == To(a, "catch") # {} /\ ~(To(a, "catch") \subseteq To(s, "catch"))

CatchesDiffer(a, s) ==
  IF To(a, "catch") # {} THEN ~(To(a, "catch") \subseteq To(s, "catch")) ELSE To(s, "catch") # {}

Differences(a, s, level) ==
  {kind \in {"next", "catch", "default", "choice", "concurrency", "handler", "start", "branch"} :
     CASE kind = "next" -> NextDiffers(a, s, level)
       [] kind = "catch" -> CatchesDiffer(a, s)
       [] kind \in {"default", "choice"} -> a.type = "choice" /\ To(s, kind) # To(a, kind)
       [] kind = "concurrency" -> a.type = "map" /\ s.concurrency # a.concurrency
       [] kind = "handler" -> a.type = "task" /\ a.handler # Absent /\ s.handler # a.handler
       [] kind = "start" -> a.type = "map" /\ To(s, kind) # To(a, kind)
       [] kind = "branch" -> a.type = "parallel" /\ To(s, kind) # To(a, kind)}

StateFindings(a, level) ==
  IF a.name \notin {s.name : s \in level} THEN {<<a.name, "not in code">>}
  ELSE LET s == Named(level, a.name) IN
       IF s.type # a.type THEN {<<a.name, "type">>}
       ELSE {<<a.name, kind>> : kind \in Differences(a, s, level)}

Matches(a, level) ==
  \E s \in level : s.name = a.name /\ s.type = a.type

LevelDrift(in) ==
  LET level == Level(Source, in)
      mine == Level(authored.states, in)
  IN (UNION {StateFindings(a, level) : a \in mine})
     \cup {<<s.name, "not authored">> :
             s \in {x \in level : x.type \notin Terminal /\ x.name \notin {a.name : a \in mine}}}

(* The levels, by the state they are in: the outermost, and that in each     *)
(* of the open states at one of them.                                       *)
Levels(open) ==
  LET levels[n \in Nat] ==
        IF n = 0 THEN {Top}
        ELSE LET before == levels[n - 1] IN before \cup {s.name : s \in {x \in open : x.in \in before}}
  IN  levels[Cardinality(open)]

(* What is nested in a state is compared if the state matches.              *)
Compared == Levels({a \in authored.states : Matches(a, Level(Source, a.in))})

Drift == UNION {LevelDrift(in) : in \in Compared}

(* checkStateMachines, for one machine.                                     *)
MachineFindings ==
  IF source = "not checked out" THEN {}
  ELSE IF source = "no definition" THEN {<<Top, "definition not found">>}
  ELSE {<<s.name, "not read">> : s \in Unresolved}
       \cup (IF definition.start # authored.start THEN {<<Top, "start">>} ELSE {})
       \cup Drift

-----------------------------------------------------------------------------
(* A flow drawn after the definition: the final states are left out, with    *)
(* the arrows to them, and a state has one catch.                           *)
OneOf(set) == IF set = {} THEN {} ELSE {CHOOSE r \in set : TRUE}

Draw(s) ==
  [name |-> s.name, in |-> s.in, type |-> s.type, concurrency |-> s.concurrency, handler |-> s.handler,
   arrows |-> LET drawn == {r \in s.arrows : r.to \notin TerminalNames(definition.states)}
              IN {r \in drawn : r.kind # "catch"} \cup OneOf({r \in drawn : r.kind = "catch"})]

Drawing == [start |-> definition.start, states |-> {Draw(s) : s \in {x \in definition.states : x.type \notin Terminal}}]

(* What Step Functions takes: the arrows of a state are those of its type and *)
(* it ends or goes on; it is nested in Top or in a map or parallel state that *)
(* is, and its arrows end at its own level, or, for a start or a branch,    *)
(* inside of it.                                                            *)
ArrowKinds ==
  [task |-> {"next", "catch"}, map |-> {"next", "catch", "start"}, parallel |-> {"next", "catch", "branch"},
   choice |-> {"default", "choice"}, pass |-> {"next"}, wait |-> {"next"}, succeed |-> {}, fail |-> {}]

Proper(s) ==
  /\ s.name # Top /\ s.type \in DOMAIN ArrowKinds
  /\ \A r \in s.arrows : r.kind \in ArrowKinds[s.type]
  /\ \A r, q \in To(s, "next") : r = q
  /\ s.end => To(s, "next") = {}
  /\ s.type \in Terminal \cup {"choice"} \/ s.end \/ To(s, "next") # {}

Nested(states) == Levels({s \in states : s.type \in {"map", "parallel"}})

WellFormed(machine) ==
  LET names(in) == {s.name : s \in Level(machine.states, in)} IN
  /\ machine.start \in names(Top)
  /\ \A s \in machine.states :
       /\ s.in \in Nested(machine.states)
       /\ \A r \in s.arrows : r.to \in names(IF r.kind \in {"start", "branch"} THEN s.name ELSE s.in)

ASSUME MachineAssumption ==
  /\ FirstMachine = [start |-> FirstMachine.start, states |-> FirstMachine.states]
  /\ IsFiniteSet(FirstMachine.states) /\ WellFormed(FirstMachine)
  /\ \A s, x \in FirstMachine.states : s.name = x.name => s = x
  /\ \A s \in CodeStates \cup FirstMachine.states : Proper(s)

MachineInit ==
  /\ definition = FirstMachine
  /\ source = "found"
  /\ authored = Drawing
  /\ edits = 0

Author == authored' = Drawing /\ edits' = 0 /\ UNCHANGED <<definition, source>>

DefinitionBecomes(machine) ==
  /\ edits < MaxEdits
  /\ WellFormed(machine)
  /\ definition' = machine
  /\ edits' = edits + 1
  /\ UNCHANGED <<source, authored>>

(* A state of the definition is added or changed, or goes with those in it.  *)
DefinitionChanges(s) ==
  DefinitionBecomes([definition EXCEPT !.states = {x \in @ : x.name # s.name} \cup {s}])

DefinitionLoses(s) ==
  DefinitionBecomes([definition EXCEPT !.states = {x \in @ : s.name \notin {x.name, x.in}}])

DefinitionStarts(name) == DefinitionBecomes([definition EXCEPT !.start = name])

(* The definition is moved to another file, or the repository is or is not  *)
(* checked out.                                                             *)
SourceMoves ==
  /\ source' \in {"found", "no definition", "not checked out"} \ {source}
  /\ UNCHANGED <<definition, authored, edits>>

(* An arrow of the flow is drawn or wiped out by hand.                      *)
FlowChanges(a, r) ==
  /\ edits < MaxEdits /\ a \in authored.states
  /\ authored' = [authored EXCEPT !.states =
       (@ \ {a}) \cup {[a EXCEPT !.arrows = IF r \in @ THEN @ \ {r} ELSE {x \in @ : x.kind # r.kind} \cup {r}]}]
  /\ edits' = edits + 1
  /\ UNCHANGED <<definition, source>>

MachineNext ==
  \/ Author
  \/ \E s \in CodeStates : DefinitionChanges(s) \/ DefinitionLoses(s)
  \/ \E name \in Starts : DefinitionStarts(name)
  \/ SourceMoves
  \/ \E a \in authored.states : \E kind \in {"next", "catch"} : \E name \in Starts : FlowChanges(a, Arrow(kind, name))

MachineSpec == MachineInit /\ [][MachineNext]_machineVars

-----------------------------------------------------------------------------
(* What is run, as far as a flow can draw it.                               *)
Running == {s \in definition.states : s.type \notin Terminal}
Drawn(s, kinds) == {<<s.name, r.kind, r.to, r.count>> : r \in {x \in s.arrows : x.kind \in kinds}}
Ways(states, kinds) == UNION {Drawn(s, kinds) : s \in states}
WaysOn(states) ==
  {w \in Ways(states, {"next", "default", "choice", "start", "branch"}) : w[3] \notin TerminalNames(definition.states)}

Shape(s) == <<s.name, s.in, s.type, IF s.type = "map" THEN s.concurrency ELSE Absent>>

(* A machine without a finding is the one that runs: the same states, nested *)
(* alike, with the same arrows except those to a final state, the same      *)
(* states catching, and what is drawn of a task's handler right.            *)
CleanMachineIsTheCode ==
  source # "not checked out" /\ MachineFindings = {} =>
    /\ {Shape(a) : a \in authored.states} = {Shape(s) : s \in Running}
    /\ authored.start = definition.start
    /\ WaysOn(authored.states) = WaysOn(Running)
    /\ Ways(authored.states, {"catch"}) \subseteq Ways(Running, {"catch"})
    /\ {w[1] : w \in Ways(authored.states, {"catch"})} = {w[1] : w \in Ways(Running, {"catch"})}
    /\ \A a \in authored.states : \A s \in Running :
         a.name = s.name /\ a.type = "task" /\ a.handler # Absent => a.handler = s.handler

(* A choice to a final state has no way to be authored, nor a catch to one,  *)
(* nor a map or a branch that starts with one.                              *)
Authorable ==
  /\ Unresolved = {}
  /\ \A s \in Running : \A r \in s.arrows : r.kind # "next" => r.to \notin TerminalNames(definition.states)

(* A flow drawn after the definition is without a finding.                  *)
DrawnAfterTheCodeIsClean ==
  source # "no definition" /\ Authorable /\ authored = Drawing => MachineFindings = {}

(* The findings of the check are the drift: none missed, none invented.     *)
FindingsAreTheDrift == CleanMachineIsTheCode /\ DrawnAfterTheCodeIsClean
=============================================================================
