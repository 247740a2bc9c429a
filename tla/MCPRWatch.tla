----------------------------- MODULE MCPRWatch -----------------------------
(***************************************************************************)
(* PRWatch with one comment and one review decision: every surface is      *)
(* reported, shed and carried forward on its own.                          *)
(***************************************************************************)
EXTENDS PRWatch

AllTiers == Tiers
FullOnly == {TierFull}
=============================================================================
