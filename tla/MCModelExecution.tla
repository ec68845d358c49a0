-------------------------- MODULE MCModelExecution --------------------------
(* Instances of ModelExecution for TLC.                                    *)
EXTENDS ModelExecution, TLC

\* Reconcilers and catalogs are interchangeable.
Symmetry == Permutations(Reconciler) \cup Permutations(Catalog)

=============================================================================
