----------------------------- MODULE MCPinning -----------------------------
(* Two repositories, one with code, and production branches of two commits: *)
(* several runs, so that worktrees and graphs of an older commit are found. *)
EXTENDS Pinning
=============================================================================
