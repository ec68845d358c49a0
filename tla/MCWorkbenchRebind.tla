------------------------- MODULE MCWorkbenchRebind -------------------------
(* WorkbenchRebind for TLC: the bounds come from Rebind.cfg. *)
EXTENDS WorkbenchRebind
=============================================================================
