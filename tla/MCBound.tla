------------------------------ MODULE MCBound ------------------------------
(* Five callers for two slots: a queue of up to three, and callers that     *)
(* come back while others wait.                                             *)
EXTENDS Bound
=============================================================================
