------------------------------ MODULE MCBroker ------------------------------
(***************************************************************************)
(* Broker with one target, a pull request or a run, in one repository.     *)
(***************************************************************************)
EXTENDS Broker, TLC

CONSTANTS target, repo
MCRepoOf == target :> repo
=============================================================================
