------------------------------ MODULE MCMachine ------------------------------
(* A definition with a task, a choice, a map that holds a parallel state and  *)
(* both final states, and the states an edit may put into it.               *)
EXTENDS MachineCheck

State(name, in, type, arrows) ==
  [name |-> name, in |-> in, type |-> type, arrows |-> arrows, end |-> FALSE, concurrency |-> Absent,
   handler |-> IF type = "task" THEN name ELSE Absent, readable |-> TRUE]

Fetch == State("fetch", Top, "task", {Arrow("next", "empty"), Arrow("catch", "broken")})
Empty == State("empty", Top, "choice", {Arrow("choice", "each"), Arrow("default", "each")})
Each == [State("each", Top, "map", {Arrow("next", "done"), Arrow("start", "item")}) EXCEPT !.concurrency = "one"]
Item == [State("item", "each", "parallel", {Arrow("branch", "step")}) EXCEPT !.end = TRUE]
Step == [State("step", "item", "task", {}) EXCEPT !.end = TRUE]
Broken == State("broken", Top, "task", {Arrow("next", "failed")})
Done == State("done", Top, "succeed", {})
Failed == State("failed", Top, "fail", {})

MCFirst == [start |-> "fetch", states |-> {Fetch, Empty, Each, Item, Step, Broken, Done, Failed}]

MCStates ==
  {Fetch, [Fetch EXCEPT !.arrows = {Arrow("next", "empty")}], [Fetch EXCEPT !.arrows = @ \cup {Arrow("catch", "each")}],
   [Fetch EXCEPT !.handler = "other", !.arrows = {Arrow("next", "failed")}], [Fetch EXCEPT !.readable = FALSE],
   Empty, [Empty EXCEPT !.arrows = {Arrow("choice", "each"), Arrow("default", "done")}],
   [Empty EXCEPT !.arrows = {[Arrow("choice", "each") EXCEPT !.count = 2], Arrow("default", "each")}],
   Each, [Each EXCEPT !.concurrency = "two"],
   [Each EXCEPT !.type = "parallel", !.arrows = {Arrow("next", "done"), Arrow("branch", "item")}],
   Step, [State("mend", "item", "pass", {}) EXCEPT !.end = TRUE]}
MCStarts == {"fetch", "broken"}
=============================================================================
