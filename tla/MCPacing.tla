------------------------------ MODULE MCPacing ------------------------------
(***************************************************************************)
(* Pacing for two or three pollers.                                        *)
(***************************************************************************)
EXTENDS Pacing, TLC

CONSTANTS p1, p2, p3
=============================================================================
