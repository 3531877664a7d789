--------------------------- MODULE MCMoePrefetch ---------------------------
(* Instances of MoePrefetch for TLC: see the .cfg files for the constants. *)
EXTENDS MoePrefetch

(* Node selections: one expert, and none (ids that are all -1). *)
McSelections == {{1}, {}}
=============================================================================
