---------------------------- MODULE MCToolCalls ----------------------------
(* Small instances of ToolCalls for TLC.                                    *)
EXTENDS ToolCalls

CONSTANTS r1, w1, w2, w3
=============================================================================
