------------------------------ MODULE MCCascade ------------------------------
(* Callbacks of four tables that run each other in circles, by every kind of *)
(* write and of callback.                                                   *)
EXTENDS ListenerCascade

Write(table, events, runs) == [table |-> table, events |-> events, runs |-> runs]
Callback(id, table, events, phase, effects) ==
  [id |-> id, table |-> table, events |-> events, phase |-> phase, touches |-> FALSE, effects |-> effects]

MCListeners == {
  Callback("1", "a", {"create", "update"}, "save", {Write("b", {"update"}, "all")}),
  Callback("2", "b", {"update"}, "save", {Write("b", {"create", "update"}, "all"), Write("c", {"update"}, "none")}),
  Callback("3", "b", {"create"}, "save", {Write("d", {"update"}, "all")}),
  Callback("4", "c", {"update"}, "validation", {Write("c", {"update"}, "all")}),
  Callback("5", "c", {"update"}, "save", {Write("a", {"update"}, "all"), Write("d", {"destroy"}, "all")}),
  Callback("6", "a", {"destroy"}, "event", {Write("c", {"update"}, "validation")}),
  [Callback("7", "d", {"update"}, "event", {Write("a", {"update"}, "touch")}) EXCEPT !.touches = TRUE],
  Callback("8", "a", {"update"}, "commit", {Write("b", {"create"}, "all")}),
  Callback("9", "a", {"create", "update"}, "touch", {Write("c", {"update"}, "all")}) }

MCTables == {"a", "b", "c", "d"}
=============================================================================
