-------------------------------- MODULE Hub --------------------------------
(***************************************************************************)
(* The hub of internal/hub/hub.go for one watched identity: Subscribe and  *)
(* detach, the poller goroutine each identity shares, and the fan-out of   *)
(* snapshots and notices over each subscriber's bounded channels.          *)
(*                                                                         *)
(* An identity has at most one registered poller; a new one is created     *)
(* when the identity is subscribed to again. Pollers of other identities   *)
(* share no state with these, so one key is enough. What the target looks  *)
(* like is a version number, 0 standing for Go's nil.                      *)
(*                                                                         *)
(* An action is a critical section of the code: what happens under one     *)
(* acquisition of h.mu or p.mu, or between two channel operations.         *)
(***************************************************************************)
EXTENDS Naturals, Sequences

CONSTANTS
  Subs,         \* Subscribe calls, each with its sub, its loop and its cancel
  Pollers,      \* poller objects
  NoPoller,     \* a nil *poller
  Messages,     \* error messages of a failing fetch
  NoMessage,    \* no episode in flight; nothing heard yet
  Recovered,    \* the recovery notice
  NotifCap,     \* capacity of notifCh (4 in the code)
  Terminal,     \* versions in which the target is merged, closed or completed
  MaxVersion,   \* bound: changes of the target
  MaxNotices    \* bound: degraded notices broadcast

ASSUME HubAssumption ==
  /\ NoPoller \notin Pollers
  /\ NoMessage \notin Messages
  /\ Recovered \notin Messages \cup {NoMessage}
  /\ NotifCap \in Nat \ {0}
  /\ MaxVersion \in Nat \ {0}
  /\ Terminal \subseteq 1..MaxVersion
  /\ MaxNotices \in Nat

VARIABLES
  registered,  \* h.pollers[key], NoPoller when absent
  created,     \* the pollers allocated so far
  started,     \* pollers with p.started
  stopped,     \* pollers whose stopc is closed
  subs,        \* poller -> p.subs
  latest,      \* poller -> p.latest
  episode,     \* poller -> message announced for the failing surface
  run,         \* poller -> where its goroutine is
  fetched,     \* poller -> what the fetch in hand returned
  woken,       \* pollers with a token in wake
  pc,          \* Subscribe call -> where it is
  poller,      \* Subscribe call -> its p
  starter,     \* Subscribe calls whose start is true
  snapshotCh,  \* Subscribe call -> the buffered snapshot, 0 when empty
  notifCh,     \* Subscribe call -> the buffered notices
  baseline,    \* Subscribe call -> the version its consumer diffed last
  ended,       \* Subscribe calls whose consumer reached a terminal state
  heard,       \* history: the last notice the subscriber was sent on
  owed,        \* history: the last notice broadcast that its channel had a place for
  upstream,    \* the target's version on GitHub
  notices,     \* how many degraded notices were broadcast
  down,        \* Stop was called
  crossed      \* history: a Subscribe overlapped the last cancel of its poller

pollerVars == <<registered, created, started, stopped, subs>>
fetchVars == <<latest, episode, run, fetched, woken, notices>>
callVars == <<pc, poller, starter>>
loopVars == <<snapshotCh, notifCh, baseline, ended, heard, owed>>
vars == <<pollerVars, fetchVars, callVars, loopVars, upstream, down, crossed>>

Versions == 0..MaxVersion
Notice == [msg : Messages \cup {Recovered}, version : Versions]
Nothing == [msg |-> NoMessage, version |-> 0]

\* A daemon starts with no poller, or with one a predecessor handed over:
\* RestoreState creates it with its last payload and does not start it.
Init ==
  /\ \E p \in Pollers, restored \in BOOLEAN :
       /\ registered = IF restored THEN p ELSE NoPoller
       /\ created = IF restored THEN {p} ELSE {}
       /\ latest = [q \in Pollers |-> IF restored /\ q = p THEN 1 ELSE 0]
  /\ started = {}
  /\ stopped = {}
  /\ subs = [p \in Pollers |-> {}]
  /\ episode = [p \in Pollers |-> NoMessage]
  /\ run = [p \in Pollers |-> "unborn"]
  /\ fetched = [p \in Pollers |-> 0]
  /\ woken = {}
  /\ pc = [s \in Subs |-> "out"]
  /\ poller = [s \in Subs |-> NoPoller]
  /\ starter = {}
  /\ snapshotCh = [s \in Subs |-> 0]
  /\ notifCh = [s \in Subs |-> <<>>]
  /\ baseline = [s \in Subs |-> 0]
  /\ ended = {}
  /\ heard = [s \in Subs |-> Nothing]
  /\ owed = [s \in Subs |-> Nothing]
  /\ upstream = 1
  /\ notices = 0
  /\ down = FALSE
  /\ crossed = FALSE

----------------------------------------------------------------------------
(* Subscribe and its cancel.                                               *)

Subscribing(s) == pc[s] \in {"attach", "launch"}
Leaving(s) == pc[s] \in {"stop", "drop"}

\* Only the call that finds the poller unstarted will start it.
Claimants(s, p) == IF p \in started THEN starter ELSE starter \cup {s}

\* The first critical section: find or create the poller, and claim its start.
Lookup(s) ==
  /\ pc[s] = "out"
  /\ \E p \in Pollers :
       /\ \/ registered = p /\ UNCHANGED <<registered, created>>
          \/ /\ registered = NoPoller
             /\ p \notin created
             /\ registered' = p
             /\ created' = created \cup {p}
       /\ poller' = [poller EXCEPT ![s] = p]
       /\ starter' = Claimants(s, p)
       /\ started' = started \cup {p}
  /\ pc' = [pc EXCEPT ![s] = "attach"]
  /\ crossed' = (crossed \/ \E t \in Subs : Leaving(t))
  /\ UNCHANGED <<stopped, subs, fetchVars, loopVars, upstream, down>>

\* The second one: join p.subs and receive the poller's cached snapshot.
Attach(s) ==
  LET p == poller[s] IN
  /\ pc[s] = "attach"
  /\ subs' = [subs EXCEPT ![p] = @ \cup {s}]
  /\ snapshotCh' = [snapshotCh EXCEPT ![s] = latest[p]]
  /\ pc' = [pc EXCEPT ![s] = "launch"]
  /\ UNCHANGED <<registered, created, started, stopped, fetchVars, poller, starter,
                 notifCh, baseline, ended, heard, owed, upstream, down, crossed>>

\* Mutant: the poller is started before the first subscriber attaches.
MutantLaunch(s) ==
  /\ Subscribing(s)
  /\ run' = IF s \in starter THEN [run EXCEPT ![poller[s]] = "fetching"] ELSE run
  /\ pc' = [pc EXCEPT ![s] = IF @ = "attach" THEN "attach" ELSE "watching"]
  /\ UNCHANGED <<pollerVars, latest, episode, fetched, woken, notices, poller, starter,
                 loopVars, upstream, down, crossed>>

\* The poller starts once its first subscriber is attached; run fetches at
\* once. Subscribe returns.
Launch(s) ==
  /\ pc[s] = "launch"
  /\ run' = IF s \in starter THEN [run EXCEPT ![poller[s]] = "fetching"] ELSE run
  /\ pc' = [pc EXCEPT ![s] = "watching"]
  /\ UNCHANGED <<pollerVars, latest, episode, fetched, woken, notices, poller, starter,
                 loopVars, upstream, down, crossed>>

\* Mutants: any leaver stops the poller; the last one only unregisters it; no
\* one does either.
MutantStopAlways(s) == "stop"
MutantDropOnly(s) == IF subs[poller[s]] = {s} THEN "drop" ELSE "left"
MutantNeverStop(s) == "left"

\* The last consumer to leave stops the poller.
AfterCancel(s) == IF subs[poller[s]] = {s} THEN "stop" ELSE "left"

\* detach, first part: leave p.subs. The loop ends, so its channels are gone.
Cancel(s) ==
  LET p == poller[s] IN
  /\ pc[s] = "watching"
  /\ subs' = [subs EXCEPT ![p] = @ \ {s}]
  /\ pc' = [pc EXCEPT ![s] = AfterCancel(s)]
  /\ snapshotCh' = [snapshotCh EXCEPT ![s] = 0]
  /\ notifCh' = [notifCh EXCEPT ![s] = <<>>]
  /\ crossed' = (crossed \/ (subs[p] = {s} /\ \E t \in Subs : Subscribing(t)))
  /\ UNCHANGED <<registered, created, started, stopped, fetchVars, poller, starter,
                 baseline, ended, heard, owed, upstream, down>>

\* detach, second part: the last consumer to leave closes stopc ...
StopPoller(s) ==
  /\ pc[s] = "stop"
  /\ stopped' = stopped \cup {poller[s]}
  /\ pc' = [pc EXCEPT ![s] = "drop"]
  /\ UNCHANGED <<registered, created, started, subs, fetchVars, poller, starter,
                 loopVars, upstream, down, crossed>>

\* ... and removes the poller from the map, unless another took its place.
DropPoller(s) ==
  /\ pc[s] = "drop"
  /\ registered' = IF registered = poller[s] THEN NoPoller ELSE registered
  /\ pc' = [pc EXCEPT ![s] = "left"]
  /\ UNCHANGED <<created, started, stopped, subs, fetchVars, poller, starter,
                 loopVars, upstream, down, crossed>>

\* Hub.Stop, at the daemon's shutdown.
Stop ==
  /\ ~down
  /\ down' = TRUE
  /\ stopped' = stopped \cup ({registered} \ {NoPoller})
  /\ registered' = NoPoller
  /\ UNCHANGED <<created, started, subs, fetchVars, callVars, loopVars, upstream, crossed>>

----------------------------------------------------------------------------
(* The poller goroutine.                                                   *)

\* Mutant: a channel of one notice.
MutantOneSlot(s) == notifCh[s] = <<>>

\* Whether a non-blocking send of a notice to s succeeds.
HasRoom(s) == Len(notifCh[s]) < NotifCap

\* A non-blocking send of one notice to every subscriber of p: a full notifCh
\* drops it, and nobody sends it again.
broadcast(p, m) ==
  LET n == [msg |-> m, version |-> latest[p]] IN
  /\ notifCh' = [s \in Subs |->
       IF s \in subs[p] /\ HasRoom(s) THEN Append(notifCh[s], n) ELSE notifCh[s]]
  /\ owed' = [s \in Subs |->
       IF s \in subs[p] /\ Len(notifCh[s]) < NotifCap THEN n ELSE owed[s]]

\* fetchOnce fails: reportFailure announces the episode, or stays silent when
\* the ledger already holds this message.
FetchFails(p, m) ==
  /\ run[p] = "fetching"
  /\ IF episode[p] = m
       THEN UNCHANGED <<notifCh, owed, notices>>
       ELSE /\ notices < MaxNotices
            /\ notices' = notices + 1
            /\ broadcast(p, m)
  /\ episode' = [episode EXCEPT ![p] = m]
  /\ run' = [run EXCEPT ![p] = "idle"]
  /\ UNCHANGED <<pollerVars, latest, fetched, woken, callVars, snapshotCh, baseline,
                 ended, heard, upstream, down, crossed>>

\* fetchOnce succeeds: deliver first announces the recovery, if there is one.
FetchReturns(p) ==
  /\ run[p] = "fetching"
  /\ fetched' = [fetched EXCEPT ![p] = upstream]
  /\ IF episode[p] = NoMessage
       THEN UNCHANGED <<notifCh, owed>>
       ELSE broadcast(p, Recovered)
  /\ episode' = [episode EXCEPT ![p] = NoMessage]
  /\ run' = [run EXCEPT ![p] = "delivering"]
  /\ UNCHANGED <<pollerVars, latest, woken, notices, callVars, snapshotCh, baseline,
                 ended, heard, upstream, down, crossed>>

\* Mutant: an unchanged snapshot is not offered again.
MutantOffered(p, s) ==
  IF s \in subs[p] /\ snapshotCh[s] = 0 /\ fetched[p] # latest[p]
    THEN fetched[p] ELSE snapshotCh[s]

\* A non-blocking send of the fetched snapshot: a subscriber that has not
\* drained its previous one keeps that one.
Offered(p, s) ==
  IF s \in subs[p] /\ snapshotCh[s] = 0 THEN fetched[p] ELSE snapshotCh[s]

\* The rest of deliver: record the snapshot and offer it to every subscriber.
Deliver(p) ==
  /\ run[p] = "delivering"
  /\ latest' = [latest EXCEPT ![p] = fetched[p]]
  /\ snapshotCh' = [s \in Subs |-> Offered(p, s)]
  /\ fetched' = [fetched EXCEPT ![p] = 0]
  /\ run' = [run EXCEPT ![p] = "idle"]
  /\ UNCHANGED <<pollerVars, episode, woken, notices, callVars, notifCh, baseline,
                 ended, heard, owed, upstream, down, crossed>>

\* run's select: the timer fires. It may win over a closed stopc.
Tick(p) ==
  /\ run[p] = "idle"
  /\ run' = [run EXCEPT ![p] = "fetching"]
  /\ UNCHANGED <<pollerVars, latest, episode, fetched, woken, notices, callVars,
                 loopVars, upstream, down, crossed>>

\* run's select: a wake is received.
Wake(p) ==
  /\ run[p] = "idle"
  /\ p \in woken
  /\ woken' = woken \ {p}
  /\ run' = [run EXCEPT ![p] = "fetching"]
  /\ UNCHANGED <<pollerVars, latest, episode, fetched, notices, callVars, loopVars,
                 upstream, down, crossed>>

\* run's select: stopc is closed.
Exit(p) ==
  /\ run[p] = "idle"
  /\ p \in stopped
  /\ run' = [run EXCEPT ![p] = "exited"]
  /\ UNCHANGED <<pollerVars, latest, episode, fetched, woken, notices, callVars,
                 loopVars, upstream, down, crossed>>

\* Refresh, RefreshRepo and wakeAll: a wake that finds a token queued is lost
\* in it.
Refresh ==
  /\ registered # NoPoller
  /\ registered \notin woken
  /\ woken' = woken \cup {registered}
  /\ UNCHANGED <<pollerVars, latest, episode, run, fetched, notices, callVars, loopVars,
                 upstream, down, crossed>>

----------------------------------------------------------------------------
(* The subscriber's loop, whose select takes any ready channel.            *)

Looping(s) == pc[s] \in {"launch", "watching"} /\ s \notin ended

\* One snapshot is diffed against the baseline. A terminal one ends the loop.
TakeSnapshot(s) ==
  /\ Looping(s)
  /\ snapshotCh[s] # 0
  /\ baseline' = [baseline EXCEPT ![s] = snapshotCh[s]]
  /\ ended' = IF snapshotCh[s] \in Terminal THEN ended \cup {s} ELSE ended
  /\ snapshotCh' = [snapshotCh EXCEPT ![s] = 0]
  /\ UNCHANGED <<pollerVars, fetchVars, callVars, notifCh, heard, owed, upstream, down, crossed>>

\* One notice passes straight through.
TakeNotice(s) ==
  /\ Looping(s)
  /\ notifCh[s] # <<>>
  /\ heard' = [heard EXCEPT ![s] = Head(notifCh[s])]
  /\ notifCh' = [notifCh EXCEPT ![s] = Tail(@)]
  /\ UNCHANGED <<pollerVars, fetchVars, callVars, snapshotCh, baseline, ended, owed,
                 upstream, down, crossed>>

\* The target changes on GitHub, until it is merged or closed.
Change ==
  /\ upstream < MaxVersion
  /\ upstream \notin Terminal
  /\ upstream' = upstream + 1
  /\ UNCHANGED <<pollerVars, fetchVars, callVars, loopVars, down, crossed>>

----------------------------------------------------------------------------
Subscribe(s) == Lookup(s) \/ Attach(s) \/ Launch(s)
detach(s) == Cancel(s) \/ StopPoller(s) \/ DropPoller(s)
Fetch(p) == FetchReturns(p) \/ Deliver(p) \/ \E m \in Messages : FetchFails(p, m)

Next ==
  \/ \E s \in Subs : Subscribe(s) \/ detach(s) \/ TakeSnapshot(s) \/ TakeNotice(s)
  \/ \E p \in Pollers : Fetch(p) \/ Tick(p) \/ Wake(p) \/ Exit(p)
  \/ Refresh
  \/ Stop
  \/ Change

Spec == Init /\ [][Next]_vars

\* The scheduler runs every goroutine, a select with several ready channels
\* takes each of them in the long run, timers fire (the broker does not keep
\* timer polling paused for ever), and GitHub keeps answering some requests. Nobody has to subscribe, cancel, refresh, push or stop.
Fairness ==
  /\ \A s \in Subs :
       /\ WF_vars(Attach(s) \/ Launch(s) \/ StopPoller(s) \/ DropPoller(s))
       /\ SF_vars(TakeSnapshot(s)) /\ SF_vars(TakeNotice(s))
  /\ \A p \in Pollers :
       /\ WF_vars(Fetch(p)) /\ SF_vars(FetchReturns(p))
       /\ SF_vars(Tick(p) \/ Wake(p)) /\ SF_vars(Exit(p))

FairSpec == Spec /\ Fairness

----------------------------------------------------------------------------
Programs == {"unborn", "fetching", "delivering", "idle", "exited"}
Calls == {"out", "attach", "launch", "watching", "stop", "drop", "left"}

\* The type invariant of the hub, its pollers and its subscribers.
TypeOK ==
  /\ registered \in Pollers \cup {NoPoller}
  /\ created \in SUBSET Pollers
  /\ started \in SUBSET Pollers
  /\ stopped \in SUBSET Pollers
  /\ subs \in [Pollers -> SUBSET Subs]
  /\ latest \in [Pollers -> Versions]
  /\ episode \in [Pollers -> Messages \cup {NoMessage}]
  /\ run \in [Pollers -> Programs]
  /\ fetched \in [Pollers -> Versions]
  /\ woken \in SUBSET Pollers
  /\ pc \in [Subs -> Calls]
  /\ poller \in [Subs -> Pollers \cup {NoPoller}]
  /\ \A s \in Subs : pc[s] # "out" => poller[s] \in Pollers
  /\ starter \in SUBSET Subs
  /\ snapshotCh \in [Subs -> Versions]
  /\ notifCh \in [Subs -> Seq(Notice)]
  /\ \A s \in Subs : Len(notifCh[s]) <= NotifCap
  /\ baseline \in [Subs -> Versions]
  /\ ended \in SUBSET Subs
  /\ heard \in [Subs -> Notice \cup {Nothing}]
  /\ owed \in [Subs -> Notice \cup {Nothing}]
  /\ upstream \in 1..MaxVersion
  /\ notices \in 0..MaxNotices
  /\ down \in BOOLEAN
  /\ crossed \in BOOLEAN

Live == created \ stopped

\* "The hub owns one poller goroutine per identity": however Subscribe, cancel
\* and Stop interleave, at most one poller of the identity is not stopped.
OneLivePoller == \A p, q \in Live : p = q

\* run is launched at most once per poller: a call that claimed the start finds
\* the goroutine unborn, and no second call claims it.
StartedOnce ==
  \A s \in starter : Subscribing(s) =>
    /\ run[poller[s]] = "unborn"
    /\ \A t \in starter : poller[t] = poller[s] => t = s

\* A poller fetches only for an audience: someone is attached to it, or
\* attached and left (issue #190, a first notice nobody could hear).
FetchHasAudience ==
  \A p \in Pollers : run[p] = "fetching" =>
    \/ subs[p] # {}
    \/ \E s \in Subs : poller[s] = p /\ pc[s] \in {"stop", "drop", "left"}

\* A quiet repository leaks no fetch loop: a started poller that is not stopped
\* has a subscriber, or a call on its way to attach to it or to stop it.
NoOrphanPoller ==
  \A p \in Live \cap started : \E s \in Subs :
    poller[s] = p /\ (s \in subs[p] \/ pc[s] \in {"attach", "stop"})

\* A watcher's poller is alive: "the underlying poller stops once its last
\* consumer leaves", never while it has one.
NoBlindWatcher ==
  \A s \in Subs : pc[s] = "watching" /\ ~down => poller[s] \notin stopped

\* The overlap of a Subscribe with the last cancel of its poller is the only way
\* to a blind watcher: without it every watcher is on a poller that polls.
WatchersSee == ~crossed => NoBlindWatcher

Gone(s) == pc[s] # "watching" \/ s \in ended \/ down

\* A watcher gets every change of the target, directly or as part of a later one.
ChangesArrive ==
  \A s \in Subs, v \in 1..MaxVersion :
    (pc[s] = "watching" /\ upstream = v) ~> (baseline[s] >= v \/ Gone(s))

\* A watcher learns of every outage and recovery announced while it is attached,
\* the last one last, but for those that find NotifCap notices unheard.
NoticesArrive ==
  \A s \in Subs :
    (pc[s] = "watching" /\ heard[s] # owed[s]) ~> (heard[s] = owed[s] \/ Gone(s))

\* Violated: a watcher stops believing in an outage that is over.
OutagesEnd ==
  \A s \in Subs :
    <>[](~Gone(s) /\ episode[poller[s]] = NoMessage)
      => []<>(heard[s].msg \notin Messages)

\* When every consumer has left, no goroutine goes on polling.
PollingStops ==
  (\A s \in Subs : pc[s] = "left") ~> (\A p \in Pollers : run[p] \in {"unborn", "exited"})
=============================================================================
