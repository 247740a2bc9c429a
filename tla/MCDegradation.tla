--------------------------- MODULE MCDegradation ---------------------------
(***************************************************************************)
(* Degradation with the two surfaces the hub reports ("graphql", "rest")   *)
(* and two error messages, over seven fetches and two takeovers.           *)
(***************************************************************************)
EXTENDS Degradation

MCSurfaces == {"graphql", "rest"}
MCMessages == {"timeout", "forbidden"}
=============================================================================
