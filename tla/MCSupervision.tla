---------------------------- MODULE MCSupervision ----------------------------
(* A small instance of supervision for TLC.  Processes are interchangeable. *)
EXTENDS Supervision

Symmetry == Permutations(Process)
=============================================================================
