------------------------------- MODULE MCHub -------------------------------
(***************************************************************************)
(* Hub for two Subscribe calls. Three pollers are enough for a restored    *)
(* one and one more per call.                                              *)
(***************************************************************************)
EXTENDS Hub, TLC

CONSTANTS s1, s2, p1, p2, p3

MCSubs == {s1, s2}
MCPollers == {p1, p2, p3}
Symmetric == Permutations(MCSubs) \cup Permutations(MCPollers)
=============================================================================
