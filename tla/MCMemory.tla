------------------------------ MODULE MCMemory ------------------------------
(* Two threads of one directory; the bounds are in the configurations. *)
EXTENDS ObservationalMemory
=============================================================================
