------------------------ MODULE MCOperationRegistry ------------------------
(* Small instances of OperationRegistry.                                   *)
EXTENDS OperationRegistry
=============================================================================
