------------------------- MODULE MCProgramWorkspace -------------------------
(* A small instance of the workspaces for TLC. *)
EXTENDS ProgramWorkspace
=============================================================================
