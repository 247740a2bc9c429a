------------------------------ MODULE MCClient ------------------------------
(***************************************************************************)
(* Command lines for Client: a named watch for the end of its target, a    *)
(* named one-shot read, a watch with a deadline, and a branch watch that   *)
(* starts from a commit seen before.                                       *)
(***************************************************************************)
EXTENDS Client

Plain == [named |-> FALSE, once |-> FALSE, seeded |-> Nil, timeout |-> FALSE, until |-> {}, events |-> {}]
MCInvocations == {
  [Plain EXCEPT !.named = TRUE, !.until = {"issue-closed"}],
  [Plain EXCEPT !.named = TRUE, !.once = TRUE],
  [Plain EXCEPT !.timeout = TRUE, !.until = {"issue-closed"}, !.events = {"issue-new-comment"}],
  [Plain EXCEPT !.seeded = 1, !.until = {AnyEvent}] }
=============================================================================
