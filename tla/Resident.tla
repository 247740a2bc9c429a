------------------------------ MODULE Resident ------------------------------
(***************************************************************************)
(* The resident processes: daemons that run from copies of the binary      *)
(* (internal/reexec), watch the installed file and hand over to what an    *)
(* upgrade puts there (cmd/selfupdate.go, cmd/daemon_supervision.go), are  *)
(* started again by clients (spawnDaemon) or reloaded (cmd/reload.go), and *)
(* keep a sub-daemon alive each (internal/subdaemon).                      *)
(*                                                                         *)
(* The steps of the handoff itself are in Daemon; here it succeeds or not. *)
(* A process is named by its daemon.  An image is a version of the binary. *)
(***************************************************************************)
EXTENDS Naturals, FiniteSets

CONSTANTS
  MaxDaemons,               \* bound: daemon processes, numbered as they are started
  Nil,                      \* no daemon, no version, no file
  maxReexecDepth,           \* the fuse of MaybeReexec
  MinBackoff, MaxBackoff, MaxRapidFails,   \* the launcher's tunables
  MaxVersion, MaxDeaths, MaxFaults,        \* bounds: upgrades, children's deaths, faults
  MaxStarting               \* bound: daemons that start at the same time

ASSUME ResidentAssumption ==
  /\ {MaxDaemons, maxReexecDepth, MinBackoff, MaxBackoff, MaxRapidFails, MaxVersion, MaxStarting} \subseteq Nat \ {0}
  /\ MinBackoff <= MaxBackoff
  /\ {MaxDeaths, MaxFaults} \subseteq Nat
  /\ Nil \notin Nat

VARIABLES
  installed,   \* the version of the installed file
  client,      \* the version that the watching client runs, from a copy
  daemon,      \* [Daemons -> [st, img, maps, depth, known, base, cur, awaits, excused]]
  launcher,    \* [Daemons -> [pc, backoff, fails, delay]]
  child,       \* the daemons whose sub-daemon process lives
  holder,      \* the daemon whose sub-daemon has the private socket, or Nil
  counts       \* deaths of children and faults so far

Daemons == 1..MaxDaemons

residentVars == <<installed, client, daemon, launcher, child, holder, counts>>
children == <<launcher, child, holder>>

Serves(d) == daemon[d].st = "serving"
Server == {d \in Daemons : Serves(d)}
Starting(d) == daemon[d].st \in {"exec", "starting"}
Lives(d) == daemon[d].st \notin {"unborn", "gone"}

NoDaemon(st) == [ st |-> st, img |-> Nil, maps |-> Nil, depth |-> 0,
                  known |-> FALSE, base |-> Nil, cur |-> Nil, awaits |-> FALSE, excused |-> FALSE ]
Launcher(pc) == [pc |-> pc, backoff |-> MinBackoff, fails |-> 0, delay |-> 0]

ResidentInit ==
  /\ installed = 1 /\ client = 1
  /\ daemon = [d \in Daemons |-> NoDaemon("unborn")]
  /\ launcher = [d \in Daemons |-> Launcher("off")]
  /\ child = {} /\ holder = Nil
  /\ counts = [deaths |-> 0, faults |-> 0]

Once(what, max) == counts[what] < max /\ counts' = [counts EXCEPT ![what] = @ + 1]

\* An upgrade truncates and writes the installed file, which the system refuses
\* while a process runs from it.
Upgrade ==
  /\ installed < MaxVersion
  /\ \A d \in Daemons : Lives(d) => daemon[d].maps # "installed"
  /\ installed' = installed + 1
  /\ daemon' = [d \in Daemons |-> [daemon[d] EXCEPT !.excused = @ \/ Starting(d)]]
  /\ UNCHANGED <<client, children, counts>>

\* A client starts: its own copy is of what is installed now.
StartClient ==
  /\ client # installed /\ client' = installed
  /\ UNCHANGED <<installed, daemon, children, counts>>

----------------------------------------------------------------------------
\* Starting a daemon.

\* A process is made of the next daemon.
Unborn(d) ==
  /\ Cardinality({e \in Daemons : Starting(e)}) < MaxStarting
  /\ daemon[d].st = "unborn"
  /\ \A e \in 1..d-1 : daemon[e].st # "unborn"
Spawned(d, img, from, depth, known, old) ==
  /\ Unborn(d)
  /\ daemon' = [daemon EXCEPT ![d].st = "exec", ![d].img = img, ![d].maps = from,
                              ![d].depth = depth, ![d].known = known, ![d].excused = old]

\* The depth that a new chain of copies starts from, and the one that the
\* daemon's own environment carries over.
ChildEnv == 0
listEnvWithoutActivation(d) == daemon[d].depth

\* spawnDaemon: a client that finds no daemon runs its own image again.
spawnDaemon(d) ==
  /\ Server = {} /\ Spawned(d, client, "copy", ChildEnv, TRUE, client # installed)
  /\ UNCHANGED <<installed, client, children, counts>>

\* gh monitor daemon.
Operator(d) ==
  /\ Spawned(d, installed, "installed", ChildEnv, FALSE, FALSE)
  /\ UNCHANGED <<installed, client, children, counts>>

\* OpReload.  The successor is given the daemon's environment as it is.
spawnSuccessor(d, e) ==
  /\ Serves(d)
  /\ IF daemon[d].known THEN Spawned(e, installed, "installed", listEnvWithoutActivation(d), TRUE, FALSE)
     ELSE Spawned(e, daemon[d].img, daemon[d].maps, listEnvWithoutActivation(d), FALSE, daemon[d].img # installed)
  /\ UNCHANGED <<installed, client, children, counts>>

\* A copy is run as it is.  Anything else is copied and the copy run, unless the
\* chain of copies is too long or the copy fails: then the process runs in place,
\* and the launcher starts before the socket is opened.
isRuntimeCopy(d) == daemon[d].maps = "copy"

InPlace(d) ==
  /\ daemon' = [daemon EXCEPT ![d].st = "starting"]
  /\ launcher' = [launcher EXCEPT ![d].pc = "top"]
  /\ UNCHANGED <<installed, client, child, holder>>
MaybeReexec(d) ==
  /\ daemon[d].st = "exec"
  /\ IF isRuntimeCopy(d) \/ daemon[d].depth >= maxReexecDepth THEN InPlace(d)
     ELSE /\ daemon' = [daemon EXCEPT ![d].st = "starting", ![d].maps = "copy",
                                      ![d].known = TRUE, ![d].depth = @ + 1]
          /\ launcher' = [launcher EXCEPT ![d].pc = "top"]
          /\ UNCHANGED <<installed, client, child, holder>>
  /\ UNCHANGED counts
copyExecutableFails(d) ==
  /\ daemon[d].st = "exec" /\ ~isRuntimeCopy(d) /\ daemon[d].depth < maxReexecDepth
  /\ InPlace(d) /\ Once("faults", MaxFaults)

\* The daemon binds the socket or adopts it from the one that serves, which
\* leaves.  The upgrade watcher's first look at the file is its base.
openSocket(d) ==
  /\ daemon[d].st = "starting"
  /\ daemon' = [e \in Daemons |->
       IF e = d THEN [daemon[d] EXCEPT !.st = "serving",
                        !.base = IF daemon[d].known THEN installed ELSE Nil]
       ELSE IF Serves(e) THEN [daemon[e] EXCEPT !.st = "leaving"] ELSE daemon[e]]
  /\ UNCHANGED <<installed, client, children, counts>>

\* A daemon that dies without waiting for its launcher: what the launcher
\* started may have been interrupted just before.
Dies(d) ==
  /\ daemon' = [daemon EXCEPT ![d] = NoDaemon("gone")]
  /\ launcher' = [launcher EXCEPT ![d] = Launcher("dead")]
  /\ \/ UNCHANGED <<child, holder>>
     \/ child' = child \ {d} /\ holder' = IF holder = d THEN Nil ELSE holder
  /\ UNCHANGED <<installed, client>>

\* The daemon that serves refuses the handoff, or it breaks off.
Refused(d) ==
  /\ daemon[d].st = "starting" /\ Server # {} /\ Once("faults", MaxFaults) /\ Dies(d)
Crashes(d) == Lives(d) /\ Once("faults", MaxFaults) /\ Dies(d)

\* A daemon that leaves waits for its launcher, but not for ever.
Exit(d) ==
  /\ daemon[d].st = "leaving"
  /\ IF launcher[d].pc = "ended"
     THEN /\ daemon' = [daemon EXCEPT ![d] = NoDaemon("gone")]
          /\ UNCHANGED <<installed, client, children>>
     ELSE Dies(d)
  /\ UNCHANGED counts

\* A signal.
Signalled(d) ==
  /\ Serves(d) /\ Once("faults", MaxFaults)
  /\ daemon' = [daemon EXCEPT ![d].st = "leaving"]
  /\ UNCHANGED <<installed, client, children>>

----------------------------------------------------------------------------
\* watchInstalledBinary.

\* Mutant: the new file is taken for known before its daemon took over.
MutantTick(d, e) ==
  /\ Serves(d) /\ daemon[d].base \notin {Nil, installed} /\ ~daemon[d].awaits
  /\ Unborn(e)
  /\ daemon' = [daemon EXCEPT ![d].awaits = TRUE, ![d].base = installed, ![d].cur = installed,
                  ![e].st = "exec", ![e].img = installed, ![e].maps = "installed",
                  ![e].depth = ChildEnv, ![e].known = TRUE]
  /\ UNCHANGED <<installed, client, children, counts>>

\* A tick that finds another file starts it as the successor, on a chain of
\* copies of its own.
Tick(d, e) ==
  /\ Serves(d) /\ daemon[d].base \notin {Nil, installed} /\ ~daemon[d].awaits
  /\ Unborn(e)
  /\ daemon' = [daemon EXCEPT ![d].awaits = TRUE, ![d].cur = installed,
                  ![e].st = "exec", ![e].img = installed, ![e].maps = "installed",
                  ![e].depth = ChildEnv, ![e].known = TRUE]
  /\ UNCHANGED <<installed, client, children, counts>>

\* The spawn fails, or no successor takes over in time: the file is not tried
\* again until it changes.
Missed(d, version) ==
  /\ daemon' = [daemon EXCEPT ![d].awaits = FALSE, ![d].base = version, ![d].cur = Nil,
                              ![d].excused = TRUE]
  /\ UNCHANGED <<installed, client, children>>
SpawnFails(d) ==
  /\ Serves(d) /\ daemon[d].base \notin {Nil, installed} /\ ~daemon[d].awaits
  /\ Once("faults", MaxFaults) /\ Missed(d, installed)
NoTakeover(d) ==
  Serves(d) /\ daemon[d].awaits /\ Missed(d, daemon[d].cur) /\ UNCHANGED counts

----------------------------------------------------------------------------
\* superviseOne: the launcher's loop for the sub-daemon.

nextBackoff(cur) == IF 2 * cur > MaxBackoff THEN MaxBackoff ELSE 2 * cur

\* Mutant: when the burst is spent, the launcher gives up.
MutantGivesUp(l) ==
  IF l.fails + 1 >= MaxRapidFails THEN [l EXCEPT !.pc = "ended"]
  ELSE [l EXCEPT !.pc = "sleep", !.fails = @ + 1, !.delay = l.backoff, !.backoff = nextBackoff(@)]
\* A failure counts; when the burst is spent the retries are slow.
Fails(l) ==
  IF l.fails + 1 >= MaxRapidFails
  THEN [l EXCEPT !.pc = "sleep", !.fails = MaxRapidFails, !.delay = MaxBackoff]
  ELSE [l EXCEPT !.pc = "sleep", !.fails = @ + 1, !.delay = l.backoff, !.backoff = nextBackoff(@)]

Cancelled(d) == daemon[d].st = "leaving"

Sleeps(d) ==
  /\ launcher[d].pc = "sleep" /\ launcher' = [launcher EXCEPT ![d].pc = "top"]
  /\ UNCHANGED <<installed, client, daemon, child, holder, counts>>

\* A sub-daemon that finds its socket held goes on without it, until it exits.
startChild(d) ==
  /\ launcher[d].pc = "top"
  /\ \/ /\ Cancelled(d) /\ launcher' = [launcher EXCEPT ![d] = Launcher("ended")]
        /\ UNCHANGED <<child, holder, counts>>
     \/ /\ ~Cancelled(d) /\ launcher' = [launcher EXCEPT ![d].pc = "running"]
        /\ child' = child \cup {d}
        /\ holder' = IF holder = Nil THEN d ELSE holder
        /\ UNCHANGED counts
     \/ /\ ~Cancelled(d) /\ Once("deaths", MaxDeaths)
        /\ launcher' = [launcher EXCEPT ![d] = Fails(@)]
        /\ UNCHANGED <<child, holder>>
  /\ UNCHANGED <<installed, client, daemon>>

\* The child exits, and with what: it was interrupted, ran for long, or was
\* refused its socket or died soon.
Exited(d, l) ==
  /\ launcher[d].pc = "running" /\ launcher' = [launcher EXCEPT ![d] = l]
  /\ child' = child \ {d} /\ holder' = IF holder = d THEN Nil ELSE holder
  /\ UNCHANGED <<installed, client, daemon>>

\* Mutant: the launcher ends without waiting for the child.
MutantInterrupted(d) ==
  /\ Cancelled(d) /\ launcher[d].pc = "running"
  /\ launcher' = [launcher EXCEPT ![d] = Launcher("ended")]
  /\ UNCHANGED <<installed, client, daemon, child, holder, counts>>
Interrupted(d) ==
  Cancelled(d) /\ Exited(d, Launcher("ended")) /\ UNCHANGED counts
RanLong(d) ==
  /\ ~Cancelled(d) /\ Once("deaths", MaxDeaths)
  /\ Exited(d, [launcher[d] EXCEPT !.pc = "top", !.fails = 0, !.backoff = MinBackoff, !.delay = 0])
DiedSoon(d) ==
  /\ ~Cancelled(d) /\ Exited(d, Fails(launcher[d]))
  /\ IF holder = d THEN Once("deaths", MaxDeaths) ELSE UNCHANGED counts

Starts == \E d \in Daemons : spawnDaemon(d) \/ Operator(d) \/ MaybeReexec(d) \/ copyExecutableFails(d)
                         \/ openSocket(d) \/ Refused(d)
Ends == \E d \in Daemons : Crashes(d) \/ Exit(d) \/ Signalled(d)
Handover == \E d, e \in Daemons : spawnSuccessor(d, e) \/ Tick(d, e)
Watches == \E d \in Daemons : SpawnFails(d) \/ NoTakeover(d)
Supervises(d) == Sleeps(d) \/ startChild(d) \/ Interrupted(d) \/ RanLong(d) \/ DiedSoon(d)
ResidentNext == Upgrade \/ StartClient \/ Starts \/ Ends \/ Handover \/ Watches \/ \E d \in Daemons : Supervises(d)

\* The launchers run on, and their children exit when they are interrupted or
\* have no socket.  A start comes to its end.
Fairness ==
  /\ \A d \in Daemons : WF_residentVars(Supervises(d))
  /\ \A d \in Daemons : WF_residentVars(MaybeReexec(d)) /\ WF_residentVars(openSocket(d))
ResidentSpec == ResidentInit /\ [][ResidentNext]_residentVars /\ Fairness

----------------------------------------------------------------------------
\* Properties.

\* A daemon that watches the installed file, finds nothing new there and runs
\* another version was started from an old copy, or the upgrade landed while it
\* started, or a takeover failed: no upgrade is missed in any other way.
StaleExplained ==
  \A d \in Server : daemon[d].base = installed /\ daemon[d].img # installed => daemon[d].excused

Orphaned(d) == d # Nil /\ launcher[d].pc = "dead"

\* A sub-daemon without a launcher is left by a daemon that did not wait for it
\* (cmd/daemon.go waits five seconds so that nobody is "left with orphans").
OrphansExplained == \A d \in child : launcher[d].pc = "running" \/ launcher[d].pc = "dead"

\* The sub-daemon of a daemon that goes on serving gets its socket in the end,
\* however many upgrades and deaths came before, or an orphan keeps it.
WakeRearmed ==
  \A d \in Daemons : Serves(d) ~> (holder = d \/ Orphaned(holder) \/ ~Serves(d))

\* Violated: a successor is a new launch, and never trips the fuse.
FuseSpares == \A d \in Server : daemon[d].maps = "installed" => counts.faults > 0
\* Violated: a daemon leaves no sub-daemon behind that holds the private socket.
NoOrphans == counts.faults = 0 => \A d \in child : launcher[d].pc = "running"
============================================================================
