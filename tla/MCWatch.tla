------------------------------ MODULE MCWatch ------------------------------
(* Model-checking instances of Watch. *)
EXTENDS Watch
=============================================================================
