---------------------------- MODULE MCCallerWork ----------------------------
(* Small instances of CallerWork.                                          *)
EXTENDS CallerWork, TLC

DriverSymmetry == Permutations(Driver)
=============================================================================
