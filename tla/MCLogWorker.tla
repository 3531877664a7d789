---------------------------- MODULE MCLogWorker ----------------------------
(* Instances of LogWorker for TLC: see the .cfg files for the constants. *)
EXTENDS LogWorker
=============================================================================
