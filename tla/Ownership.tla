----------------------------- MODULE Ownership -----------------------------
(***************************************************************************)
(* What the daemons of one socket path promise together (internal/ipc,     *)
(* internal/handoff): at any time at most one process has the socket that  *)
(* clients connect to, and a handoff passes that very socket on in one     *)
(* step, so that connections queued on it are lost to nobody. Only a       *)
(* process that finds nobody in charge makes a new socket.                 *)
(*                                                                         *)
(* Daemon implements it, as long as its starts do not cross.               *)
(***************************************************************************)
CONSTANT Pids

VARIABLE charge  \* the process in charge, paired with the socket it has

Init == charge = {}

\* A process binds a socket of its own; a socket is named for who bound it.
Take(p) ==
  /\ charge = {}
  /\ charge' = {<<p, p>>}

\* The socket goes from one process to the next.
Pass(q, s, p) ==
  /\ charge = {<<q, s>>}
  /\ p # q
  /\ charge' = {<<p, s>>}

\* The process in charge closes the socket, or dies.
Leave ==
  /\ charge # {}
  /\ charge' = {}

Next ==
  \/ \E p \in Pids : Take(p)
  \/ \E q, s, p \in Pids : Pass(q, s, p)
  \/ Leave

Spec == Init /\ [][Next]_charge
=============================================================================
