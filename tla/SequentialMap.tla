--------------------------- MODULE SequentialMap ---------------------------
(***************************************************************************)
(* What a caller of mapAtMost is promised, with the lanes left out: the     *)
(* call settles once, as a plain loop over the items would have.  It        *)
(* returns every result in its place when no call fails, and otherwise it   *)
(* throws the failure of the first item that fails.                         *)
(***************************************************************************)
EXTENDS Integers

CONSTANTS N,       (* how many items the caller passes                      *)
          Nothing  (* no result at an index, no failure thrown              *)

Items == 1..N

VARIABLES fails,   (* the items whose call of fn will reject                *)
          status,  (* "pending", "returned" or "threw"                      *)
          thrown,  (* the item whose failure is thrown                      *)
          results  (* what the caller holds at each index                   *)

vars == <<fails, status, thrown, results>>

Init ==
  /\ fails \in SUBSET Items
  /\ status = "pending"
  /\ thrown = Nothing
  /\ results = [i \in Items |-> Nothing]

Return ==
  /\ status = "pending"
  /\ fails = {}
  /\ status' = "returned"
  /\ results' = [i \in Items |-> i]
  /\ UNCHANGED <<fails, thrown>>

Throw ==
  /\ status = "pending"
  /\ \E i \in fails :
       /\ \A j \in fails : i <= j
       /\ thrown' = i
  /\ status' = "threw"
  /\ UNCHANGED <<fails, results>>

Next == Return \/ Throw

Spec == Init /\ [][Next]_vars
=============================================================================
