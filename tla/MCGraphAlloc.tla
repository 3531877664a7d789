---------------------------- MODULE MCGraphAlloc ----------------------------
(* Instances of GraphAlloc for TLC: see the .cfg files for the constants. *)
EXTENDS GraphAlloc
=============================================================================
