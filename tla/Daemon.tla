------------------------------- MODULE Daemon -------------------------------
(***************************************************************************)
(* The processes that own the daemon socket, one after the other           *)
(* (internal/ipc, internal/handoff, cmd/daemon.go,                         *)
(* cmd/daemon_supervision.go).                                             *)
(*                                                                         *)
(* A process starts, finds a socket at the path or none, probes it, and    *)
(* binds the path (Listen) or adopts the listening socket of the daemon    *)
(* that answers (Adopt). It serves until it is stopped, killed, or has     *)
(* passed its socket on. The steps of Listen, of an exit and of the        *)
(* handoff's two sides are separate actions, since other processes run     *)
(* between them. A socket is named for the process that bound it; a        *)
(* process runs once, so its pid is its name.                              *)
(*                                                                         *)
(* Sockets passed by the service manager (socket activation) are left out: *)
(* nobody binds or removes their path.                                     *)
(***************************************************************************)
EXTENDS Naturals

CONSTANTS Pids,  \* processes that may ever run
          Unit,  \* those that belong to the service manager's unit
          None   \* no process, no socket

ASSUME UnitAssumption == Unit \subseteq Pids
ASSUME NoneAssumption == None \notin Pids

VARIABLES
  pc,         \* pc[p]: where process p is
  path,       \* the socket the path leads to
  record,     \* the pid in the owner record (OwnerPath)
  holds,      \* holds[p]: the socket p has a listening descriptor of
  unlinks,    \* unlinks[p]: closing p's listener unlinks the path
  handedOff,  \* handedOff[p]: daemon.go's flag
  server,     \* server[p]: the daemon handling p's OpHandoffFD
  stage,      \* stage[p]: how far that handler has come
  inbox,      \* inbox[p]: the socket on its way to p
  pre,        \* pre[p]: the pid p learned by OpInfo
  mainPID,    \* the unit's main process, as the service manager believes
  \* History: the processes since whose start nothing has failed or stopped, and
  \* which steps of two processes crossed.
  calm, crossed, contended

handoffVars == <<handedOff, server, stage, inbox, pre>>
history == <<calm, crossed, contended>>
vars == <<pc, path, record, holds, unlinks, handoffVars, mainPID, history>>

Absent == {"off", "gone"}
Alive(p) == p \in Pids /\ pc[p] \notin Absent
Serving(p) == pc[p] = "serving"

\* Whether connections to socket s are queued: someone has it open.
Listens(s) == \E q \in Pids : Alive(q) /\ s \in {holds[q], inbox[q]} \ {None}

\* Where a process is while it talks to its predecessor.
Adopting == {"state", "ask", "wait"}

\* Where a process is on its way out.
Leaving == {"closing", "exiting", "releasing"}

\* Whether q has passed its socket on, and is about to stop or stopping.
PassedOn(q) == \E p \in Pids : server[p] = q /\ stage[p] = "sent"
Retiring(q) == pc[q] \in Leaving \/ PassedOn(q)

Go(p, where) == pc' = [pc EXCEPT ![p] = where]

Init ==
  /\ pc = [p \in Pids |-> "off"]
  /\ path = None /\ record = None /\ mainPID = None
  /\ holds = [p \in Pids |-> None]
  /\ unlinks = [p \in Pids |-> FALSE]
  /\ handedOff = [p \in Pids |-> FALSE]
  /\ server = [p \in Pids |-> None]
  /\ stage = [p \in Pids |-> "none"]
  /\ inbox = [p \in Pids |-> None]
  /\ pre = [p \in Pids |-> None]
  /\ calm = {} /\ crossed = FALSE /\ contended = FALSE

----------------------------------------------------------------------------
(* A process's end. The kernel closes its descriptors; the service manager *)
(* takes the rest of the unit down with the main process                   *)
(* (KillMode=control-group).                                               *)

Casualties(p, main) == IF p = main THEN {p} \cup {q \in Unit : Alive(q)} ELSE {p}

Die(dead, main) ==
  /\ pc' = [p \in Pids |-> IF p \in dead THEN "gone" ELSE pc[p]]
  /\ holds' = [p \in Pids |-> IF p \in dead THEN None ELSE holds[p]]
  /\ inbox' = [p \in Pids |-> IF p \in dead THEN None ELSE inbox[p]]
  /\ stage' = [p \in Pids |->
                 IF server[p] \in dead /\ stage[p] \in {"asked", "marked"}
                   THEN "failed" ELSE stage[p]]
  /\ mainPID' = IF main \in dead THEN None ELSE main

\* Mutant: the announcement is not sent.
MutantNotify(p) == mainPID

\* sd_notify's MAINPID: the manager heeds it for a live process of the unit.
Notify(p) == IF p \in Unit /\ Alive(p) THEN p ELSE mainPID

Crash(p) ==
  /\ Alive(p)
  /\ Die(Casualties(p, mainPID), mainPID)
  /\ calm' = {}
  /\ UNCHANGED <<path, record, unlinks, handedOff, server, pre, crossed, contended>>

----------------------------------------------------------------------------
(* Listen.                                                                 *)

\* A client starts a process, the service manager the first of its unit, and a
\* daemon (an upgrade, OpReload) a successor in its own unit.
Start(p) ==
  /\ pc[p] = "off"
  /\ p \in Unit => mainPID = None \/ \E q \in Unit : Serving(q)
  /\ Go(p, "stat")
  /\ mainPID' = IF mainPID = None /\ p \in Unit THEN p ELSE mainPID
  /\ calm' = IF \E q \in Pids : Retiring(q) THEN calm ELSE calm \cup {p}
  /\ UNCHANGED <<path, record, holds, unlinks, handoffVars, crossed, contended>>

Stat(p) ==
  /\ pc[p] = "stat"
  /\ Go(p, IF path = None THEN "bind" ELSE "dial")
  /\ UNCHANGED <<path, record, holds, unlinks, handoffVars, mainPID, history>>

\* A live daemon that is not accepting refuses as a dead one does.
Dial(p) ==
  /\ pc[p] = "dial"
  /\ \/ Listens(path) /\ Go(p, "info")
     \/ Go(p, "owner")
  /\ UNCHANGED <<path, record, holds, unlinks, handoffVars, mainPID, history>>

\* Mutant: the record is not consulted.
MutantOwnerAlive(p) == FALSE

ownerAlive(p) == record # p /\ Alive(record)

\* Whether somebody has the path's socket whom the record does not name: it has
\* bound or been passed the socket and not claimed it yet.
Unclaimed ==
  \E q \in Pids : Alive(q) /\ record # q /\ path \in {holds[q], inbox[q]} \ {None}

CheckOwner(p) ==
  /\ pc[p] = "owner"
  /\ Go(p, IF ownerAlive(p) THEN "info" ELSE "reclaim")
  /\ crossed' = (crossed \/ (~ownerAlive(p) /\ Unclaimed))
  /\ UNCHANGED <<path, record, holds, unlinks, handoffVars, mainPID, calm, contended>>

\* Mutant: the stale socket is left where it is.
MutantReclaim(p) ==
  /\ pc[p] = "reclaim"
  /\ Go(p, "bind")
  /\ UNCHANGED <<path, record, holds, unlinks, handoffVars, mainPID, history>>

Reclaim(p) ==
  /\ pc[p] = "reclaim"
  /\ path' = None
  /\ Go(p, "bind")
  /\ UNCHANGED <<record, holds, unlinks, handoffVars, mainPID, history>>

\* Whether another process is about to unlink the path by its name.
AboutToUnlink(q) == pc[q] = "reclaim" \/ (pc[q] = "exiting" /\ ~handedOff[q])

Bind(p) ==
  /\ pc[p] = "bind"
  /\ path = None
  /\ path' = p
  /\ holds' = [holds EXCEPT ![p] = p]
  /\ unlinks' = [unlinks EXCEPT ![p] = TRUE]
  /\ Go(p, "claim")
  /\ crossed' = (crossed \/ \E q \in Pids : AboutToUnlink(q))
  /\ UNCHANGED <<record, handoffVars, mainPID, calm, contended>>

\* The path is in use: the start fails.
AddressInUse(p) ==
  /\ pc[p] = "bind"
  /\ path # None
  /\ Die(Casualties(p, mainPID), mainPID)
  /\ UNCHANGED <<path, record, unlinks, handedOff, server, pre, history>>

\* ClaimOwner after a bind or an adoption; then the daemon accepts.
ClaimOwner(p) ==
  /\ pc[p] \in {"claim", "adopted"}
  /\ record' = p
  /\ Go(p, "serving")
  /\ UNCHANGED <<path, holds, unlinks, handoffVars, mainPID, history>>

\* The record cannot be written: Listen closes the listener and fails, a
\* successor serves all the same.
ClaimFails(p) ==
  /\ calm' = {}
  /\ \/ /\ pc[p] = "claim"
        /\ path' = None
        /\ Die(Casualties(p, mainPID), mainPID)
     \/ /\ pc[p] = "adopted"
        /\ Go(p, "serving")
        /\ UNCHANGED <<path, holds, inbox, stage, mainPID>>
  /\ UNCHANGED <<record, unlinks, handedOff, server, pre, crossed, contended>>

----------------------------------------------------------------------------
(* Adopt, the successor's side of the handoff.                             *)

\* A daemon that can answer at the path.
Answers(q) == Serving(q) /\ holds[q] = path

\* Whether q has another's request for its socket in hand.
Engaged(q) ==
  \E r \in Pids : server[r] = q /\ stage[r] \in {"asked", "marked", "sent"}

\* OpInfo and BeforeFD: a successor outside the unit of its predecessor
\* refuses, one inside announces itself.
AskInfo(p) ==
  /\ pc[p] = "info"
  /\ \E q \in Pids :
       /\ Answers(q)
       /\ IF q \in Unit /\ p \notin Unit
            THEN /\ Die({p}, mainPID)
                 /\ UNCHANGED <<pre, contended>>
            ELSE /\ Go(p, "state")
                 /\ pre' = [pre EXCEPT ![p] = q]
                 /\ mainPID' = Notify(p)
                 /\ contended' = (contended \/ Engaged(q) \/ \E r \in Pids : pc[r] \in Adopting)
                 /\ UNCHANGED <<holds, inbox, stage>>
  /\ UNCHANGED <<path, record, unlinks, handedOff, server, calm, crossed>>

\* OpHandoff.
AskState(p) ==
  /\ pc[p] = "state"
  /\ \E q \in Pids : Answers(q)
  /\ Go(p, "ask")
  /\ UNCHANGED <<path, record, holds, unlinks, handoffVars, mainPID, history>>

\* OpHandoffFD: the dial, the hello and the request.
AskSocket(p) ==
  /\ pc[p] = "ask"
  /\ \E q \in Pids :
       /\ Answers(q)
       /\ server' = [server EXCEPT ![p] = q]
       /\ contended' = (contended \/ Engaged(q))
  /\ stage' = [stage EXCEPT ![p] = "asked"]
  /\ Go(p, "wait")
  /\ UNCHANGED <<path, record, holds, unlinks, handedOff, inbox, pre, mainPID, calm, crossed>>

Receive(p) ==
  /\ pc[p] = "wait"
  /\ inbox[p] # None
  /\ holds' = [holds EXCEPT ![p] = inbox[p]]
  /\ inbox' = [inbox EXCEPT ![p] = None]
  /\ Go(p, "adopted")
  /\ UNCHANGED <<path, record, unlinks, handedOff, server, stage, pre, mainPID, history>>

\* AbortFD: the service is pointed back at the predecessor.
Abort(p) == IF p \in Unit /\ pc[p] \in Adopting THEN Notify(pre[p]) ELSE mainPID

\* The handoff fails, the start with it, and its connection is closed.
Withdraw(p) ==
  /\ Die(Casualties(p, Abort(p)), Abort(p))
  /\ UNCHANGED <<path, record, unlinks, handedOff, server, pre, crossed, contended>>

\* Nobody is left who could answer.
Unanswered(p) ==
  /\ \/ /\ pc[p] \in {"info", "state", "ask"}
        /\ \A q \in Pids : holds[q] = path => pc[q] \notin {"claim", "adopted", "serving"}
        /\ \A q \in Pids : inbox[q] = None
     \/ /\ pc[p] = "wait" /\ inbox[p] = None
        /\ \/ stage[p] = "failed"
           \/ stage[p] = "asked" /\ ~Serving(server[p])
  /\ Withdraw(p)
  /\ UNCHANGED calm

\* The exchange bound passes first, whatever is on its way.
TimeOut(p) ==
  /\ pc[p] \in Adopting \cup {"info"}
  /\ Withdraw(p)
  /\ calm' = {}

----------------------------------------------------------------------------
(* handleHandoffOp, the predecessor's side.                                *)

Mark(p) ==
  /\ stage[p] = "asked"
  /\ Alive(server[p])
  /\ handedOff' = [handedOff EXCEPT ![server[p]] = TRUE]
  /\ stage' = [stage EXCEPT ![p] = "marked"]
  /\ UNCHANGED <<pc, path, record, holds, unlinks, server, inbox, pre, mainPID, history>>

\* SendListener fails on a listener that is closed, and on a successor that
\* hung up; the daemon goes on as it was.
Send(p) ==
  /\ stage[p] = "marked"
  /\ LET q == server[p]
         passed == pc[p] = "wait" /\ holds[q] # None
     IN /\ unlinks' = [unlinks EXCEPT ![q] = FALSE]
        /\ inbox' = [inbox EXCEPT ![p] = IF passed THEN holds[q] ELSE None]
        /\ stage' = [stage EXCEPT ![p] = IF passed THEN "sent" ELSE "failed"]
  /\ UNCHANGED <<pc, path, record, holds, handedOff, server, pre, mainPID, history>>

\* Mutant: the daemon that passed its socket on serves on.
MutantShutdown(p) ==
  /\ stage[p] = "sent"
  /\ stage' = [stage EXCEPT ![p] = "done"]
  /\ UNCHANGED <<pc, path, record, holds, unlinks, handedOff, server, inbox, pre, mainPID, history>>

Shutdown(p) ==
  /\ stage[p] = "sent"
  /\ stage' = [stage EXCEPT ![p] = "done"]
  /\ IF Serving(server[p]) THEN Go(server[p], "closing") ELSE UNCHANGED pc
  /\ UNCHANGED <<path, record, holds, unlinks, handedOff, server, inbox, pre, mainPID, history>>

----------------------------------------------------------------------------
(* The exit: close, wait for the handlers, remove the path, release.       *)

\* SIGTERM.
Stop(q) ==
  /\ Serving(q)
  /\ Go(q, "closing")
  /\ calm' = {}
  /\ UNCHANGED <<path, record, holds, unlinks, handoffVars, mainPID, crossed, contended>>

Close(q) ==
  /\ pc[q] = "closing"
  /\ path' = IF unlinks[q] THEN None ELSE path
  /\ holds' = [holds EXCEPT ![q] = None]
  /\ Go(q, "exiting")
  /\ UNCHANGED <<record, unlinks, handoffVars, mainPID, history>>

Remove(q) ==
  /\ pc[q] = "exiting"
  /\ \A p \in Pids : server[p] = q => stage[p] \notin {"marked", "sent"}
  /\ path' = IF handedOff[q] THEN path ELSE None
  /\ Go(q, "releasing")
  /\ UNCHANGED <<record, holds, unlinks, handoffVars, mainPID, history>>

\* ReleaseOwner leaves the record of a successor alone.
KeptRecord(q) == IF record = q THEN None ELSE record

ReleaseOwner(q) ==
  /\ pc[q] = "releasing"
  /\ record' = KeptRecord(q)
  /\ Die(Casualties(q, mainPID), mainPID)
  /\ UNCHANGED <<path, unlinks, handedOff, server, pre, history>>

----------------------------------------------------------------------------
\* What a running process does unless the kernel kills it.
Proceed(p) ==
  \/ Stat(p) \/ Dial(p) \/ CheckOwner(p) \/ Reclaim(p) \/ Bind(p) \/ AddressInUse(p)
  \/ ClaimOwner(p) \/ AskInfo(p) \/ AskState(p) \/ AskSocket(p) \/ Receive(p)
  \/ Unanswered(p) \/ Mark(p) \/ Send(p) \/ Shutdown(p)
  \/ Close(p) \/ Remove(p) \/ ReleaseOwner(p)

Next ==
  \E p \in Pids :
    \/ Start(p) \/ Proceed(p)
    \/ Crash(p) \/ ClaimFails(p) \/ TimeOut(p) \/ Stop(p)

Spec == Init /\ [][Next]_vars

FairSpec == Spec /\ \A p \in Pids : WF_vars(Proceed(p))

----------------------------------------------------------------------------
Places == {"off", "stat", "dial", "owner", "reclaim", "bind", "claim", "info",
           "state", "ask", "wait", "adopted", "serving",
           "closing", "exiting", "releasing", "gone"}
Maybe == Pids \cup {None}

\* The type invariant; only a listener its process bound itself unlinks.
TypeOK ==
  /\ pc \in [Pids -> Places]
  /\ path \in Maybe /\ record \in Maybe /\ mainPID \in Unit \cup {None}
  /\ holds \in [Pids -> Maybe]
  /\ unlinks \in [Pids -> BOOLEAN]
  /\ \A p \in Pids : unlinks[p] => holds[p] \in {p, None}
  /\ handedOff \in [Pids -> BOOLEAN]
  /\ server \in [Pids -> Maybe]
  /\ stage \in [Pids -> {"none", "asked", "marked", "sent", "failed", "done"}]
  /\ inbox \in [Pids -> Maybe]
  /\ pre \in [Pids -> Maybe]
  /\ calm \in SUBSET Pids
  /\ crossed \in BOOLEAN /\ contended \in BOOLEAN

\* A daemon in charge, and one that clients reach.
InCharge(q) == Serving(q) /\ ~PassedOn(q)
Up(q) == InCharge(q) /\ holds[q] = path

\* The path that an exiting daemon is about to remove leads to no daemon that
\* serves (daemon.go, of a starter: "it cannot bind a new socket here only to have
\* this exit unlink it"). It fails: closing a listener that was bound unlinks its
\* path, so a starter finds none and consults no record.
ExitSparesOthers ==
  \A q, r \in Pids : pc[q] = "exiting" /\ ~handedOff[q] => ~Up(r)

\* No bind crossed another process's unlinking of the path by name, no socket was
\* judged stale before its owner was recorded, and no two successors asked for
\* one socket at once.
Orderly == ~crossed /\ ~contended

\* Every daemon that serves is reachable through the path (ipc.go: "at most one
\* daemon binds the path"): refusals, handoffs, stops, crashes and timeouts alone
\* cost no daemon its path.
Reachable == Orderly => \A q \in Pids : InCharge(q) => Up(q)

\* Once no handoff is under way the service manager's main process is the daemon
\* of the unit that serves (sdnotify.go: "the service's main process is always
\* one that is still serving"), however the attempts before it ended. A daemon that
\* bound the path behind the main process's exit goes down with it.
MainServes ==
  Orderly =>
    \A q \in Unit :
      InCharge(q) /\ (\A p \in Pids : pc[p] \notin Adopting)
        => \/ mainPID = q
           \/ holds[q] = q /\ mainPID \in Unit /\ Retiring(mainPID)

\* Whatever earlier daemons left behind, a start finds a daemon or becomes one,
\* unless something fails or stops after it, another start crosses it, or it meets
\* a daemon on its way out.
StartServes ==
  \A p \in Pids :
    (pc[p] = "stat" /\ p \in calm) ~> (p \notin calm \/ ~Orderly \/ \E q \in Pids : Up(q))

----------------------------------------------------------------------------
\* What the abstract specification knows of a state: who has a socket that
\* clients' connections are queued on, or is on its way out having passed it on.
LeftBehind(q) == PassedOn(q) \/ (pc[q] = "closing" /\ \E p \in Pids : server[p] = q /\ stage[p] = "done")

Charge ==
  IF Orderly
    THEN {qs \in Pids \X Pids : qs[2] \in {holds[qs[1]], inbox[qs[1]]} /\ ~LeftBehind(qs[1])}
    ELSE {}

Owned == INSTANCE Ownership WITH charge <- Charge

\* The daemons of a path implement Ownership: one process at a time has the
\* socket, and only a handoff that has succeeded passes it on (ipc.go: "at most
\* one daemon binds the path"; handoff.go: "one daemon on the socket rather than
\* two").
OneOwner == Owned!Spec
=============================================================================
