------------------------- MODULE MCDurableDispatch -------------------------
(* Small instances of DurableDispatch.                                     *)
EXTENDS DurableDispatch, TLC

WorkerSymmetry == Permutations(Worker)
=============================================================================
