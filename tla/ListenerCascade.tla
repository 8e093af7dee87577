--------------------------- MODULE ListenerCascade ---------------------------
(***************************************************************************)
(* What a write triggers through the monolith's listeners:                   *)
(* data/src/listeners-derive.ts cascadeFrom and alsoChanges.                 *)
(* A listener of a table runs on events and writes other tables; each of     *)
(* these writes runs some of the target's listeners, and so on.  The walk    *)
(* follows every path and ends it at a (table, event) that is on the path.  *)
(* The surface is what is committed of it; a discovery run adds a listener   *)
(* or drops one.  The Rails order, the mode and the grade of a hop do not    *)
(* change where the walk goes and are left out, and so is the mark of a      *)
(* cycle on a hop.                                                          *)
(***************************************************************************)
EXTENDS Naturals, FiniteSets

CONSTANTS Listeners,  (* [id, table, events, phase, touches, effects]; an effect *)
                      (* is a write, [table, events, runs]                  *)
          Tables

Events == {"create", "update", "destroy"}

ASSUME ListenersAssumption ==
  /\ IsFiniteSet(Listeners) /\ IsFiniteSet(Tables)
  /\ \A l \in Listeners :
       /\ l.table \in Tables /\ l.events \subseteq Events
       /\ \A write \in l.effects : write.table \in Tables /\ write.events \subseteq Events

VARIABLE surface      (* the listeners there are                            *)

Of(table) == {l \in surface : l.table = table}

(* listenersRun: an effect names no listeners, so "subset" runs none.       *)
OnTouch(l, events) ==
  \/ l.phase = "touch"
  \/ l.touches /\ l.events \cap events # {}
  \/ l.phase \in {"commit", "rollback"} /\ "update" \in l.events

ListenersRun(runs, events, candidates) ==
  {l \in candidates :
     CASE runs = "all" -> l.events \cap events # {}
       [] runs = "validation" -> l.phase = "validation" /\ l.events \cap events # {}
       [] runs = "touch" -> OnTouch(l, events)
       [] OTHER -> FALSE}

Keys(table, events) == {<<table, event>> : event \in events}

(* Mutant: a table that is on the path is not walked again, whatever event. *)
FreshTable(write, path) ==
  IF \E event \in Events : <<write.table, event>> \in path THEN {} ELSE write.events

Fresh(write, path) == {event \in write.events : <<write.table, event>> \notin path}

Writes(running) == UNION {l.effects : l \in running}

(* A visit of the walk: the listeners that run, how many they are behind, and *)
(* the keys on the path to them.                                            *)
First(table, event) ==
  [running |-> {l \in Of(table) : event \in l.events}, via |-> 0, path |-> {<<table, event>>}]

Behind(visit) ==
  {LET fresh == Fresh(write, visit.path) IN
   [running |-> ListenersRun(write.runs, fresh, Of(write.table)),
    via |-> visit.via + 1, path |-> visit.path \cup Keys(write.table, fresh)] :
     write \in {w \in Writes(visit.running) : w.runs # "none" /\ Fresh(w, visit.path) # {}}}

(* cascadeFrom for each of the events.  A visit has a key more on its path   *)
(* than the one before, so the walk is over when the keys are used up.      *)
Visits(table) ==
  LET visits[n \in Nat] ==
        IF n = 0 THEN {First(table, event) : event \in Events}
                 ELSE LET before == visits[n - 1] IN before \cup UNION {Behind(visit) : visit \in before}
  IN  visits[Cardinality(Tables \X Events)]

Hops(table) ==
  UNION {{[table |-> write.table, via |-> visit.via + 1] : write \in Writes(visit.running)} : visit \in Visits(table)}

(* flattenCascade over the three events: a table once, by its shortest path. *)
AlsoChanges(table) ==
  LET hops == {h \in Hops(table) : h.table # table}
  IN {h \in hops : \A other \in hops : other.table = h.table => h.via <= other.via}

-----------------------------------------------------------------------------
CascadeInit == surface = {}

(* discover --apply writes the surface of a commit that has a listener more  *)
(* or one less.                                                             *)
SurfaceChanges(l) == surface' = IF l \in surface THEN surface \ {l} ELSE surface \cup {l}

CascadeNext == \E l \in Listeners : SurfaceChanges(l)

CascadeSpec == CascadeInit /\ [][CascadeNext]_surface

-----------------------------------------------------------------------------
(* The listeners that run behind those that run, without any path.          *)
RunBy(l) ==
  UNION {ListenersRun(write.runs, write.events, Of(write.table)) : write \in {w \in l.effects : w.runs # "none"}}

Start(table) == {l \in Of(table) : l.events # {}}
RunWithin(table, most) ==
  LET run[n \in Nat] ==
        IF n = 0 THEN Start(table) ELSE LET before == run[n - 1] IN before \cup UNION {RunBy(l) : l \in before}
  IN  run[most]

Written(running) == {write.table : write \in Writes(running)}
Reached(table) == Written(RunWithin(table, Cardinality(surface))) \ {table}

(* The fewest listeners a table is behind.                                  *)
Distance(table, target) ==
  CHOOSE n \in 1..Cardinality(surface) :
    /\ target \in Written(RunWithin(table, n - 1))
    /\ n > 1 => target \notin Written(RunWithin(table, n - 2))

(* A write that runs the listeners of its events, or none of them.          *)
WholeWrites == \A l \in surface : \A write \in l.effects : write.runs \in {"all", "none"}

(* Also changes names a table only if a chain of listeners writes it, with   *)
(* the length of the shortest; and it misses none as long as every write     *)
(* runs all the listeners of its events or none.                            *)
AlsoChangesAreTheChains ==
  \A table \in Tables :
    LET changes == AlsoChanges(table)
        found == {c.table : c \in changes}
    IN  /\ found \subseteq Reached(table)
        /\ WholeWrites => /\ found = Reached(table)
                          /\ \A c \in changes : c.via = Distance(table, c.table)
=============================================================================
