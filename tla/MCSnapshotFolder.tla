-------------------------- MODULE MCSnapshotFolder --------------------------
(* Two fetches and one discover over two days, snapshots of two files.      *)
EXTENDS SnapshotFolder
=============================================================================
