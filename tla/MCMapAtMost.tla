---------------------------- MODULE MCMapAtMost ----------------------------
(* Five items on three lanes: more items than lanes, so lanes go back to    *)
(* the iterator, and any set of the calls may fail.                         *)
EXTENDS MapAtMost
=============================================================================
