--------------------------- MODULE MCPatchHandoff ---------------------------
(* Small instances of PatchHandoff.                                        *)
EXTENDS PatchHandoff
=============================================================================
