-------------------------- MODULE MCWatchSnapshot --------------------------
(* Model-checking instances of WatchSnapshot. *)
EXTENDS WatchSnapshot
=============================================================================
