---------------------------- MODULE MCPackedRun ----------------------------
(* PackedRun for the layouts and programs of MCPacker.                      *)
EXTENDS PackedRun, MCPacker
=============================================================================
