------------------------------- MODULE Broker -------------------------------
(***************************************************************************)
(* The broker transport and what it does to the cadence of the pollers:    *)
(* the session and its reconnects (internal/broker), the coverage that     *)
(* delivered events earn a repository, the hub's health flag and wakes,    *)
(* and nextDelay and timerPollPaused, which stretch or suspend polling for *)
(* the repositories that the broker answers for.                           *)
(*                                                                         *)
(* Time passes in units, when nothing is due; a fetch takes none, and the  *)
(* jitter of a wait is left out.  The daemon has a budget guard and the    *)
(* budget is ample, so that its pace is the hub's interval (Pacing has the *)
(* other case).                                                            *)
(***************************************************************************)
EXTENDS Integers, FiniteSets

CONSTANTS
  Targets,          \* the watched targets, each with a poller
  Repos,
  RepoOf,           \* [Targets -> Repos]
  NoTarget,         \* an event that names no target
  Interval, RunInterval,            \* of the hub, and of a run's poller at most
  IdleCeiling, BrokerCap, MaxErrBackoff, QuietPolls,             \* cadence
  TTL,              \* the coverage that an event earns
  InitialBackoff, MaxBackoff,                                    \* reconnects
  MaxEvents         \* bound: events on their way

ASSUME BrokerAssumption ==
  /\ RepoOf \in [Targets -> Repos]
  /\ {Interval, RunInterval, IdleCeiling, BrokerCap, MaxErrBackoff} \subseteq Nat \ {0}
  /\ {TTL, InitialBackoff, MaxBackoff, MaxEvents} \subseteq Nat \ {0}
  /\ Interval <= BrokerCap /\ IdleCeiling <= BrokerCap /\ InitialBackoff <= MaxBackoff
  /\ QuietPolls \in Nat

VARIABLES
  pauses,      \* pauseWhenBrokerHealthy
  runs,        \* the targets that are workflow runs
  lowercase,   \* the repositories whose name GitHub spells in lower case
  webhooks,    \* the repositories whose webhook publishes events
  conn,        \* the session: connecting, waiting for the subscription, acked,
               \* live, lost, waking or backoff
  late,        \* a session ended whose onConnect is still to come
  retry,       \* [backoff, wait]: units
  health,      \* hub.brokerHealthy
  seen,        \* [Repos -> units since an event of it was delivered, TTL when lapsed]
  events,      \* the events on their way
  poller,      \* [Targets -> [pc, wake, timer, noChange, err]]
  age,         \* [Targets -> units since a fetch started]
  uncovered    \* [Repos -> units since the broker covered it]

settings == <<pauses, runs, lowercase>>
session == <<conn, late, retry>>
vars == <<settings, webhooks, session, health, seen, events, poller, age, uncovered>>

\* Units past these are not told apart.
MaxAge == BrokerCap + 2
Older(n, max) == IF n < max THEN n + 1 ELSE max
Min2(m, n) == IF m < n THEN m ELSE n
Max2(m, n) == IF m > n THEN m ELSE n

----------------------------------------------------------------------------
\* The cadence.

Covers(r) == seen[r] < TTL

\* Mutant: the session's health vouches for every repository.
MutantBrokerCovers(r) == health
brokerCovers(r) == health /\ Covers(r)

timerPollPaused(t) == pauses /\ brokerCovers(RepoOf[t])

IdleIntervalCapped(base, noChange, cap) ==
  LET d == IF noChange >= QuietPolls THEN base * 2^(noChange - QuietPolls) ELSE base
  IN  Max2(base, Min2(d, cap))
\* Idle counts past this one give the same interval.
MaxQuiet == QuietPolls + BrokerCap

\* newPoller: a run has a shorter interval of its own.
interval(t) == IF t \in runs THEN Min2(Interval, RunInterval) ELSE Interval

NextErrBackoff(t, cur) ==
  IF cur = 0 THEN Min2(interval(t), MaxErrBackoff) ELSE Min2(2 * cur, MaxErrBackoff)

\* While the budget is ample.
paceInterval == Interval

Ceiling(t) == IF t \in runs THEN interval(t)
              ELSE IF brokerCovers(RepoOf[t]) THEN BrokerCap ELSE IdleCeiling

\* The pace of the budget raises the wait, and the ceiling too.
Wait(t, noChange, err) ==
  LET d == Max2(err, IdleIntervalCapped(interval(t), noChange, Ceiling(t)))
  IN  Min2(Max2(d, paceInterval), Max2(Ceiling(t), paceInterval))

\* Mutant: a tick that is paused comes back as late as the broker lets a poll.
MutantNextDelay(t, noChange, err) ==
  IF timerPollPaused(t) THEN BrokerCap ELSE Wait(t, noChange, err)
nextDelay(t, noChange, err) ==
  IF timerPollPaused(t) THEN interval(t) ELSE Wait(t, noChange, err)

----------------------------------------------------------------------------
Init ==
  /\ pauses \in BOOLEAN /\ runs \in SUBSET Targets /\ lowercase \in SUBSET Repos
  /\ webhooks = Repos
  /\ conn = "connecting" /\ late = FALSE
  /\ retry = [backoff |-> InitialBackoff, wait |-> 0]
  /\ health = FALSE
  /\ seen = [r \in Repos |-> TTL] /\ uncovered = [r \in Repos |-> MaxAge]
  /\ events = {}
  /\ poller = [t \in Targets |-> [ pc |-> "wait", wake |-> TRUE, timer |-> 0,
                                   noChange |-> 0, err |-> 0 ]]
  /\ age = [t \in Targets |-> 0]

----------------------------------------------------------------------------
\* The hub.

Wakes(ts) == poller' = [t \in Targets |-> [poller[t] EXCEPT !.wake = @ \/ t \in ts]]

\* An event names a target, or a repository whose targets are all refreshed.  Its
\* name is compared as it is with that of the pollers, which is in lower case.
RefreshPR(e) == {t \in Targets \ runs : t = e.target}
RefreshRepo(e) ==
  {t \in Targets : e.target = NoTarget /\ RepoOf[t] = e.repo /\ e.repo \in lowercase}

Note(r) == seen' = [seen EXCEPT ![r] = 0]

OnWake(e) ==
  /\ e \in events /\ events' = events \ {e} /\ Note(e.repo)
  /\ Wakes(RefreshPR(e) \cup RefreshRepo(e))
  /\ UNCHANGED <<settings, webhooks, session, health, age, uncovered>>

----------------------------------------------------------------------------
\* The session: Watcher.Run and connectMQTT.

Connects ==
  /\ conn = "connecting" /\ conn' = "waiting"
  /\ UNCHANGED <<settings, webhooks, late, retry, health, seen, events, poller, age, uncovered>>

SubscribeAcked ==
  /\ conn = "waiting" /\ conn' = "acked"
  /\ UNCHANGED <<settings, webhooks, late, retry, health, seen, events, poller, age, uncovered>>

\* onConnect comes from a goroutine of its own: the session may be over.
onConnect ==
  /\ \/ conn = "acked" /\ conn' = "live" /\ UNCHANGED late
     \/ late /\ late' = FALSE /\ UNCHANGED conn
  /\ health' = TRUE
  /\ UNCHANGED <<settings, webhooks, retry, seen, events, poller, age, uncovered>>

\* The connection is refused, the subscription is, or it is lost: events that are
\* on their way are too.
SessionEnds ==
  /\ conn \in {"connecting", "waiting", "acked", "live"} /\ conn' = "lost" /\ events' = {}
  /\ late' = (late \/ conn = "acked")
  /\ UNCHANGED <<settings, webhooks, retry, health, seen, poller, age, uncovered>>

\* Mutant: the wakes of a lost session are forgotten.
MutantDegraded ==
  /\ conn = "lost" /\ health' = FALSE /\ conn' = "backoff"
  /\ retry' = [backoff |-> InitialBackoff, wait |-> InitialBackoff]
  /\ UNCHANGED <<settings, webhooks, late, seen, events, poller, age, uncovered>>

\* SetBrokerHealth(false): the pollers are woken after the flag is down, and only
\* if it was up.  Run backs off, from the start when the session lasted.
Degraded ==
  /\ conn = "lost" /\ health' = FALSE
  /\ conn' = IF health THEN "waking" ELSE "backoff"
  /\ \E b \in {InitialBackoff, Min2(2 * retry.backoff, MaxBackoff)} :
       retry' = [backoff |-> b, wait |-> b]
  /\ UNCHANGED <<settings, webhooks, late, seen, events, poller, age, uncovered>>

wakeAll ==
  /\ conn = "waking" /\ conn' = "backoff" /\ Wakes(Targets)
  /\ UNCHANGED <<settings, webhooks, late, retry, health, seen, events, age, uncovered>>

\* The next round: a healthy flag that a late onConnect left goes down first.
Reconnects ==
  /\ conn = "backoff" /\ retry.wait = 0
  /\ IF health THEN conn' = "waking" ELSE conn' = "connecting"
  /\ health' = FALSE
  /\ UNCHANGED <<settings, webhooks, late, retry, seen, events, poller, age, uncovered>>

----------------------------------------------------------------------------
\* The pollers.

FetchStarts(t, p) ==
  /\ poller' = [poller EXCEPT ![t] = [p EXCEPT !.pc = "fetch"]]
  /\ age' = [age EXCEPT ![t] = 0]

Wake(t) ==
  /\ poller[t].pc = "wait" /\ poller[t].wake
  /\ FetchStarts(t, [poller[t] EXCEPT !.wake = FALSE, !.noChange = 0])
  /\ UNCHANGED <<settings, webhooks, session, health, seen, events, uncovered>>

Fire(t) ==
  /\ poller[t].pc = "wait" /\ poller[t].timer = 0
  /\ IF timerPollPaused(t)
     THEN /\ poller' = [poller EXCEPT ![t].timer = nextDelay(t, poller[t].noChange, poller[t].err)]
          /\ UNCHANGED age
     ELSE FetchStarts(t, poller[t])
  /\ UNCHANGED <<settings, webhooks, session, health, seen, events, uncovered>>

Arms(t, p) ==
  /\ poller[t].pc = "fetch"
  /\ poller' = [poller EXCEPT ![t] = [p EXCEPT !.pc = "wait", !.timer = nextDelay(t, p.noChange, p.err)]]
  /\ UNCHANGED <<settings, webhooks, session, health, seen, events, age, uncovered>>
FetchChanged(t) == Arms(t, [poller[t] EXCEPT !.err = 0, !.noChange = 0])
FetchSame(t)    == Arms(t, [poller[t] EXCEPT !.err = 0, !.noChange = Older(@, MaxQuiet)])
FetchFails(t)   == Arms(t, [poller[t] EXCEPT !.err = NextErrBackoff(t, @)])

----------------------------------------------------------------------------
\* What is outside.

\* A target changes: the webhook publishes an event that names it, or only its
\* repository, and the broker hands it to who is subscribed.  It may be lost with
\* the session.
Change(t) ==
  /\ RepoOf[t] \in webhooks /\ conn \in {"acked", "live"} /\ Cardinality(events) < MaxEvents
  /\ \E n \in {t, NoTarget} : events' = events \cup {[repo |-> RepoOf[t], target |-> n]}
  /\ UNCHANGED <<settings, webhooks, session, health, seen, poller, age, uncovered>>

WebhookRemoved(r) ==
  /\ r \in webhooks /\ webhooks' = webhooks \ {r}
  /\ UNCHANGED <<settings, session, health, seen, events, poller, age, uncovered>>

Elapse ==
  /\ \A t \in Targets : poller[t].pc = "wait" /\ ~poller[t].wake /\ poller[t].timer > 0
  /\ conn \notin {"lost", "waking"} /\ ~(conn = "backoff" /\ retry.wait = 0)
  /\ poller' = [t \in Targets |-> [poller[t] EXCEPT !.timer = @ - 1]]
  /\ age' = [t \in Targets |-> Older(age[t], MaxAge)]
  /\ seen' = [r \in Repos |-> Older(seen[r], TTL)]
  /\ uncovered' = [r \in Repos |-> IF health /\ seen[r] < TTL THEN 0 ELSE Older(uncovered[r], MaxAge)]
  /\ retry' = [retry EXCEPT !.wait = IF @ > 0 THEN @ - 1 ELSE 0]
  /\ UNCHANGED <<settings, webhooks, conn, late, health, events>>

Session == Connects \/ SubscribeAcked \/ onConnect \/ SessionEnds \/ Degraded \/ wakeAll \/ Reconnects
Polls(t) == Wake(t) \/ Fire(t) \/ FetchChanged(t) \/ FetchSame(t) \/ FetchFails(t)
Next ==
  \/ Session \/ Elapse
  \/ \E e \in events : OnWake(e)
  \/ \E t \in Targets : Polls(t) \/ Change(t)
  \/ \E r \in Repos : WebhookRemoved(r)

Spec == Init /\ [][Next]_vars

----------------------------------------------------------------------------
\* Properties.

\* The longest wait of a poller without a broker: the pace of the hub, which a run's
\* own interval does not shorten, or the idle ceiling.
Limit(t) == IF t \in runs THEN paceInterval ELSE Max2(IdleCeiling, paceInterval)

\* Whatever the session says, a repository that the broker has not answered for
\* in a while is polled as if there were no broker: "health can never speak for a
\* repository coverage says nothing about" (hub.go).
NeverMuted ==
  \A t \in Targets : uncovered[RepoOf[t]] >= MaxAge => age[t] <= Limit(t)

\* Where polling is suspended, a coverage that lapses is noticed within a tick.
\* Where it is stretched, a lapse may be outlived by one wait, of a target that is no
\* run, and by no second one: the broker answered for the target since its last
\* fetch, and no wait after that fetch is longer than without a broker.
LapseNoticed ==
  \A t \in Targets :
    IF pauses THEN uncovered[RepoOf[t]] > interval(t) => age[t] <= Limit(t)
    ELSE age[t] <= IF t \in runs \/ uncovered[RepoOf[t]] >= age[t] THEN Limit(t) ELSE BrokerCap

\* A lost session is followed by normal polling, whatever wait was armed before.
DegradePolls ==
  \A t \in Targets : ~health /\ conn # "waking" /\ ~poller[t].wake => age[t] <= Limit(t)

\* Violated: a run is polled at its own interval, however quiet it is.
RunsKeepTheirPace ==
  \A t \in runs : ~(pauses /\ health) /\ conn # "waking" => age[t] <= interval(t)

\* Violated: no extended wait outlives the coverage it was armed under.
NoStaleWait ==
  \A t \in Targets : uncovered[RepoOf[t]] > interval(t) => age[t] <= Limit(t)

\* Violated: an event that names only its repository wakes every watched target of
\* it, however GitHub spells the name.
RepoEventWakes ==
  [][\A e \in events :
       e \notin events' /\ seen'[e.repo] = 0 /\ e.target = NoTarget =>
         \A t \in Targets : RepoOf[t] = e.repo => poller'[t].wake]_vars
=============================================================================
