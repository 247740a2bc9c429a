---------------------------- MODULE BrokerProofs ----------------------------
(***************************************************************************)
(* Proofs about Broker, for any targets, repositories and cadence: however *)
(* the session fails and returns, no target is polled later than the       *)
(* broker's answers for it allow.                                          *)
(***************************************************************************)
EXTENDS Broker, TLAPS

Pollers == [pc : {"wait", "fetch"}, wake : BOOLEAN, timer : Nat, noChange : Nat, err : Nat]

\* The types of the settings and the session, and of the pollers.
SessionType ==
  /\ pauses \in BOOLEAN /\ runs \subseteq Targets /\ lowercase \subseteq Repos
  /\ webhooks \subseteq Repos
  /\ conn \in {"connecting", "waiting", "acked", "live", "lost", "waking", "backoff"}
  /\ late \in BOOLEAN /\ retry \in [backoff : Nat \ {0}, wait : Nat]
  /\ health \in BOOLEAN
  /\ events \subseteq [repo : Repos, target : Targets \cup {NoTarget}]
CoverType == seen \in [Repos -> 0..TTL] /\ uncovered \in [Repos -> 0..MaxAge]
PollerType == poller \in [Targets -> Pollers] /\ age \in [Targets -> 0..MaxAge]
TypeOK == SessionType /\ CoverType /\ PollerType

\* How long the broker has not answered for a target.
Unanswered(t) == uncovered[RepoOf[t]]

\* The broker answers for a target now, or the pollers are about to be woken.
Answered(t) == brokerCovers(RepoOf[t]) \/ conn = "waking"

Idles(t) == poller[t].pc = "wait" /\ ~poller[t].wake

\* The three waits of a poller: the one without a broker, the ticks of a poller that
\* pauses, and the extended one.
Plain(t) == age[t] + poller[t].timer <= Limit(t)
Ticks(t) ==
  /\ pauses
  /\ \/ Answered(t) /\ poller[t].timer <= interval(t)
     \/ poller[t].timer + Unanswered(t) <= interval(t)
Stretched(t) ==
  /\ ~pauses /\ t \notin runs
  /\ age[t] + poller[t].timer <= BrokerCap
  /\ IF age[t] = 0 THEN Answered(t) ELSE Unanswered(t) < age[t]

\* A target whose last fetch is older than the limit was answered for since, or a
\* moment ago.
Excused(t) ==
  \/ age[t] <= Limit(t)
  \/ pauses /\ Unanswered(t) <= interval(t)
  \/ ~pauses /\ t \notin runs /\ Unanswered(t) < age[t] /\ age[t] <= BrokerCap
Waits(t) == Idles(t) => Plain(t) \/ Ticks(t) \/ Stretched(t)
Fetches(t) == poller[t].pc = "fetch" => age[t] = 0
Unaided(t) == ~health /\ conn # "waking" => (Idles(t) => Plain(t))

InTime == \A t \in Targets : Excused(t) /\ Waits(t) /\ Fetches(t) /\ Unaided(t)

\* The inductive invariant.
IInv == TypeOK /\ InTime

USE BrokerAssumption

----------------------------------------------------------------------------
(* The cadence.                                                            *)

\* The bounds of the constants, and of a target's interval and limit.
LEMMA Bounds ==
  /\ Interval \in Nat \ {0} /\ TTL \in Nat \ {0} /\ InitialBackoff \in Nat \ {0} /\ MaxBackoff \in Nat \ {0}
  /\ IdleCeiling \in Nat /\ BrokerCap \in Nat /\ MaxErrBackoff \in Nat
  /\ Interval <= BrokerCap /\ IdleCeiling <= BrokerCap
  /\ MaxAge = BrokerCap + 2 /\ MaxAge \in Nat
  /\ QuietPolls \in Nat /\ MaxQuiet \in Nat
  /\ \A t \in Targets :
       /\ RepoOf[t] \in Repos
       /\ interval(t) \in Nat \ {0} /\ interval(t) <= Interval
       /\ Limit(t) \in Nat /\ Interval <= Limit(t) /\ Limit(t) <= BrokerCap
<1>1. IdleCeiling \in Nat /\ BrokerCap \in Nat /\ MaxErrBackoff \in Nat
      /\ Interval \in Nat \ {0} /\ RunInterval \in Nat \ {0} /\ InitialBackoff \in Nat \ {0}
  OBVIOUS
<1>2. MaxBackoff \in Nat \ {0} /\ TTL \in Nat \ {0}
  OBVIOUS
<1>3. \A t \in Targets : interval(t) \in Nat \ {0} /\ interval(t) <= Interval
  BY <1>1 DEF interval, Min2
<1>4. \A t \in Targets : Limit(t) \in Nat /\ Interval <= Limit(t) /\ Limit(t) <= BrokerCap
  BY <1>1 DEF Limit, paceInterval, Max2
<1>. QED BY <1>1, <1>2, <1>3, <1>4 DEF MaxAge, MaxQuiet

\* The idle interval lies between the base and the larger of the base and the cap.
LEMMA IdleBounds ==
  ASSUME NEW base \in Nat, NEW n \in Nat, NEW cap \in Nat
  PROVE  IdleIntervalCapped(base, n, cap) \in base..Max2(base, cap)
<1>1. CASE n >= QuietPolls
  <2>1. n - QuietPolls \in Int  BY Bounds
  <2>2. 2^(n - QuietPolls) \in Int  BY <2>1
  <2>3. PICK k \in Int : k = 2^(n - QuietPolls)  BY <2>2
  <2>4. base * k \in Int  OBVIOUS
  <2>5. PICK d \in Int : d = base * 2^(n - QuietPolls)  BY <2>3, <2>4
  <2>6. IdleIntervalCapped(base, n, cap) = Max2(base, Min2(d, cap))
    BY <1>1, <2>5 DEF IdleIntervalCapped
  <2>. QED BY <2>6 DEF Max2, Min2
<1>2. CASE ~(n >= QuietPolls)
  <2>1. IdleIntervalCapped(base, n, cap) = Max2(base, Min2(base, cap))
    BY <1>2 DEF IdleIntervalCapped
  <2>. QED BY <2>1 DEF Max2, Min2
<1>. QED BY <1>1, <1>2

\* A wait is a tick of the poller's own interval when polling is paused; otherwise it
\* is at most the limit when the broker does not answer for the target, or when the
\* target is a run, and never more than the extended one.
LEMMA DelayBounds ==
  ASSUME NEW t \in Targets, NEW n \in Nat, NEW err \in Nat, pauses \in BOOLEAN
  PROVE  /\ nextDelay(t, n, err) \in Nat
         /\ timerPollPaused(t) => nextDelay(t, n, err) = interval(t)
         /\ ~brokerCovers(RepoOf[t]) \/ t \in runs => nextDelay(t, n, err) <= Limit(t)
         /\ nextDelay(t, n, err) <= BrokerCap
         /\ pauses => nextDelay(t, n, err) <= Limit(t)
<1>0. interval(t) \in Nat /\ interval(t) <= Interval /\ Interval \in Nat /\ Interval <= Limit(t)
      /\ Interval <= BrokerCap /\ BrokerCap \in Nat /\ IdleCeiling \in Nat /\ Limit(t) \in Nat
      /\ IdleCeiling <= BrokerCap
  BY Bounds
<1>1. /\ Ceiling(t) \in Nat
      /\ Max2(Ceiling(t), Interval) \in Nat
      /\ Max2(Ceiling(t), Interval) <= BrokerCap
      /\ ~brokerCovers(RepoOf[t]) \/ t \in runs => Max2(Ceiling(t), Interval) <= Limit(t)
  BY <1>0 DEF Ceiling, Limit, paceInterval, Max2
<1>2. PICK d \in Nat : d = IdleIntervalCapped(interval(t), n, Ceiling(t))
  <2>1. Max2(interval(t), Ceiling(t)) \in Nat
    BY <1>0, <1>1 DEF Max2
  <2>2. IdleIntervalCapped(interval(t), n, Ceiling(t)) \in interval(t)..Max2(interval(t), Ceiling(t))
    BY <1>0, <1>1, IdleBounds
  <2>. QED BY <2>1, <2>2, <1>0
<1>3. CASE timerPollPaused(t)
  BY <1>3, <1>0 DEF nextDelay
<1>4. CASE ~timerPollPaused(t)
  <2>1. nextDelay(t, n, err) = Min2(Max2(Max2(err, d), Interval), Max2(Ceiling(t), Interval))
    BY <1>2, <1>4 DEF nextDelay, Wait, paceInterval
  <2>2. nextDelay(t, n, err) \in Nat /\ nextDelay(t, n, err) <= Max2(Ceiling(t), Interval)
    BY <1>0, <1>1, <1>2, <2>1 DEF Min2, Max2
  <2>3. pauses => ~brokerCovers(RepoOf[t])
    BY <1>4 DEF timerPollPaused
  <2>. QED BY <1>0, <1>1, <1>4, <2>2, <2>3
<1>. QED BY <1>3, <1>4

----------------------------------------------------------------------------
(* The types.                                                              *)

\* Settings and webhooks keep their types with those of the session.
LEMMA Typing == TypeOK /\ [Next]_vars => TypeOK'
<1>. SUFFICES ASSUME TypeOK, [Next]_vars PROVE TypeOK'
  OBVIOUS
<1>. USE DEF settings, session
<1>b. /\ MaxAge \in Nat /\ TTL \in Nat \ {0} /\ InitialBackoff \in Nat \ {0} /\ MaxBackoff \in Nat \ {0}
      /\ MaxQuiet \in Nat /\ Interval \in Nat /\ MaxErrBackoff \in Nat
  BY Bounds
<1>p. SessionType /\ CoverType /\ PollerType
  BY DEF TypeOK
<1>s. UNCHANGED <<settings, webhooks, session, health, events>> => SessionType'
  BY <1>p DEF SessionType
<1>c. UNCHANGED <<seen, uncovered>> => CoverType'
  BY <1>p DEF CoverType
<1>l. UNCHANGED <<poller, age>> => PollerType'
  BY <1>p DEF PollerType
<1>f. ASSUME NEW t \in Targets, NEW p \in Pollers, FetchStarts(t, p) PROVE PollerType'
  <2>1. [p EXCEPT !.pc = "fetch"] \in Pollers  BY DEF Pollers
  <2>. QED BY <1>b, <1>f, <1>p, <2>1 DEF FetchStarts, PollerType
<1>a. ASSUME NEW t \in Targets, NEW p \in Pollers, Arms(t, p) PROVE TypeOK'
  <2>1. nextDelay(t, p.noChange, p.err) \in Nat
    BY <1>p, DelayBounds DEF SessionType, Pollers
  <2>2. [p EXCEPT !.pc = "wait", !.timer = nextDelay(t, p.noChange, p.err)] \in Pollers
    BY <2>1 DEF Pollers
  <2>3. PollerType'
    BY <1>a, <1>p, <2>2 DEF Arms, PollerType
  <2>. QED BY <1>a, <1>s, <1>c, <2>3 DEF Arms, TypeOK
<1>w. ASSUME NEW ts, Wakes(ts), age' = age PROVE PollerType'
  <2>1. \A t \in Targets : poller[t] \in Pollers /\ (poller[t].wake \/ t \in ts) \in BOOLEAN
    BY <1>p DEF PollerType, Pollers
  <2>2. \A t \in Targets : [poller[t] EXCEPT !.wake = @ \/ t \in ts] \in Pollers
    BY <2>1 DEF Pollers
  <2>. QED BY <1>w, <1>p, <2>2 DEF Wakes, PollerType
<1>0. CASE UNCHANGED vars
  BY <1>0, <1>s, <1>c, <1>l DEF vars, TypeOK
<1>1. CASE Connects \/ SubscribeAcked \/ SessionEnds
  <2>1. late' \in BOOLEAN
    BY <1>1, <1>p DEF Connects, SubscribeAcked, SessionEnds, SessionType
  <2>2. SessionType'
    BY <1>1, <1>p, <2>1 DEF Connects, SubscribeAcked, SessionEnds, SessionType
  <2>. QED BY <1>1, <2>2, <1>c, <1>l DEF Connects, SubscribeAcked, SessionEnds, TypeOK
<1>2. CASE onConnect
  <2>1. SessionType'
    BY <1>2, <1>p DEF onConnect, SessionType
  <2>. QED BY <1>2, <2>1, <1>c, <1>l DEF onConnect, TypeOK
<1>3. CASE Degraded
  <2>1. PICK b \in {InitialBackoff, Min2(2 * retry.backoff, MaxBackoff)} : retry' = [backoff |-> b, wait |-> b]
    BY <1>3 DEF Degraded
  <2>2. retry.backoff \in Nat \ {0}
    BY <1>p DEF SessionType
  <2>3. b \in Nat \ {0}
    BY <1>b, <2>2 DEF Min2
  <2>4. retry' \in [backoff : Nat \ {0}, wait : Nat]
    BY <2>1, <2>3
  <2>5. SessionType'
    BY <1>3, <1>p, <2>4 DEF Degraded, SessionType
  <2>. QED BY <1>3, <2>5, <1>c, <1>l DEF Degraded, TypeOK
<1>4. CASE wakeAll
  <2>1. SessionType'
    BY <1>4, <1>p DEF wakeAll, SessionType
  <2>. QED BY <1>4, <2>1, <1>c, <1>w DEF wakeAll, TypeOK
<1>5. CASE Reconnects
  <2>1. SessionType'
    BY <1>5, <1>p DEF Reconnects, SessionType
  <2>. QED BY <1>5, <2>1, <1>c, <1>l DEF Reconnects, TypeOK
<1>6. ASSUME NEW e \in events, OnWake(e) PROVE TypeOK'
  <2>1. SessionType'
    BY <1>6, <1>p DEF OnWake, SessionType
  <2>2. CoverType'
    <3>1. seen' = [seen EXCEPT ![e.repo] = 0] /\ uncovered' = uncovered /\ 0 \in 0..TTL
      BY <1>6, <1>b DEF OnWake, Note
    <3>. QED BY <3>1, <1>p DEF CoverType
  <2>. QED BY <1>6, <2>1, <2>2, <1>w DEF OnWake, TypeOK
<1>7. ASSUME NEW t \in Targets, Wake(t) PROVE TypeOK'
  <2>1. [poller[t] EXCEPT !.wake = FALSE, !.noChange = 0] \in Pollers
    BY <1>p DEF PollerType, Pollers
  <2>. QED BY <1>7, <2>1, <1>f, <1>s, <1>c DEF Wake, TypeOK
<1>8. ASSUME NEW t \in Targets, Fire(t) PROVE TypeOK'
  <2>0. poller[t] \in Pollers
    BY <1>p DEF PollerType
  <2>1. CASE timerPollPaused(t)
    <3>1. nextDelay(t, poller[t].noChange, poller[t].err) \in Nat
      BY <2>0, <1>p, DelayBounds DEF SessionType, Pollers
    <3>2. [poller[t] EXCEPT !.timer = nextDelay(t, poller[t].noChange, poller[t].err)] \in Pollers
      BY <3>1, <2>0 DEF Pollers
    <3>3. poller' = [poller EXCEPT ![t] = [poller[t] EXCEPT !.timer = nextDelay(t, poller[t].noChange, poller[t].err)]]
      BY <1>8, <2>1 DEF Fire
    <3>4. PollerType'
      BY <1>8, <2>1, <3>2, <3>3, <1>p DEF Fire, PollerType
    <3>. QED BY <1>8, <3>4, <1>s, <1>c DEF Fire, TypeOK
  <2>2. CASE ~timerPollPaused(t)
    BY <1>8, <2>0, <2>2, <1>f, <1>s, <1>c DEF Fire, TypeOK
  <2>. QED BY <2>1, <2>2
<1>9. ASSUME NEW t \in Targets, FetchChanged(t) \/ FetchSame(t) \/ FetchFails(t) PROVE TypeOK'
  <2>0. poller[t] \in Pollers /\ poller[t].noChange \in Nat /\ poller[t].err \in Nat
    BY <1>p DEF PollerType, Pollers
  <2>1. Older(poller[t].noChange, MaxQuiet) \in Nat /\ NextErrBackoff(t, poller[t].err) \in Nat
    BY <2>0, <1>b, Bounds DEF Older, NextErrBackoff, Min2
  <2>2. /\ [poller[t] EXCEPT !.err = 0, !.noChange = 0] \in Pollers
        /\ [poller[t] EXCEPT !.err = 0, !.noChange = Older(@, MaxQuiet)] \in Pollers
        /\ [poller[t] EXCEPT !.err = NextErrBackoff(t, @)] \in Pollers
    BY <2>0, <2>1 DEF Pollers
  <2>. QED BY <1>9, <2>2, <1>a DEF FetchChanged, FetchSame, FetchFails
<1>10. ASSUME NEW t \in Targets, Change(t) PROVE TypeOK'
  <2>1. SessionType'
    BY <1>10, <1>p, Bounds DEF Change, SessionType
  <2>. QED BY <1>10, <2>1, <1>c, <1>l DEF Change, TypeOK
<1>11. ASSUME NEW r \in Repos, WebhookRemoved(r) PROVE TypeOK'
  <2>1. SessionType'
    BY <1>11, <1>p DEF WebhookRemoved, SessionType
  <2>. QED BY <1>11, <2>1, <1>c, <1>l DEF WebhookRemoved, TypeOK
<1>12. CASE Elapse
  <2>1. \A n, max \in Nat : n <= max => Older(n, max) \in 0..max
    BY DEF Older
  <2>2. retry' \in [backoff : Nat \ {0}, wait : Nat]
    BY <1>12, <1>p DEF Elapse, SessionType
  <2>3. SessionType'
    BY <1>12, <1>p, <2>2 DEF Elapse, SessionType
  <2>4. CoverType'
    <3>1. \A r \in Repos : seen[r] \in 0..TTL /\ uncovered[r] \in 0..MaxAge
      BY <1>p DEF CoverType
    <3>2. \A r \in Repos : Older(seen[r], TTL) \in 0..TTL /\ Older(uncovered[r], MaxAge) \in 0..MaxAge
      BY <1>b, <2>1, <3>1
    <3>. QED BY <1>12, <3>2, <1>b DEF Elapse, CoverType
  <2>5. PollerType'
    <3>1. \A t \in Targets : poller[t] \in Pollers /\ age[t] \in 0..MaxAge /\ poller[t].timer > 0
      BY <1>p, <1>12 DEF PollerType, Elapse
    <3>2. \A t \in Targets : [poller[t] EXCEPT !.timer = @ - 1] \in Pollers
      BY <3>1 DEF Pollers
    <3>3. \A t \in Targets : Older(age[t], MaxAge) \in 0..MaxAge
      BY <1>b, <2>1, <3>1
    <3>. QED BY <1>12, <3>2, <3>3 DEF Elapse, PollerType
  <2>. QED BY <2>3, <2>4, <2>5 DEF TypeOK
<1>. QED
  BY <1>0, <1>1, <1>2, <1>3, <1>4, <1>5, <1>6, <1>7, <1>8, <1>9, <1>10, <1>11, <1>12
  DEF Next, Session, Polls

----------------------------------------------------------------------------
(* The steps, for one target.                                              *)

Holds(t) == Excused(t) /\ Waits(t) /\ Fetches(t) /\ Unaided(t)

\* A step that leaves the target alone, and the broker's answer for it, or has the
\* pollers woken.
LEMMA LeftAlone ==
  ASSUME NEW t \in Targets, Holds(t), UNCHANGED <<pauses, runs, uncovered>>,
         poller'[t] = poller[t], age'[t] = age[t],
         Answered(t) => Answered(t)', ~health' /\ conn' # "waking" => ~health /\ conn # "waking"
  PROVE  Holds(t)'
BY DEF Holds, Excused, Waits, Fetches, Unaided, Idles, Plain, Ticks, Stretched, Unanswered, Limit, interval

\* A poller that is woken waits no more.
LEMMA Woken ==
  ASSUME NEW t \in Targets, Holds(t), UNCHANGED <<pauses, runs, uncovered>>,
         poller'[t].wake, poller'[t].pc = poller[t].pc, age'[t] = age[t]
  PROVE  Holds(t)'
BY DEF Holds, Excused, Waits, Fetches, Unaided, Idles, Unanswered, Limit, interval

\* A fetch that starts makes the target as fresh as can be.
LEMMA Fetched ==
  ASSUME NEW t \in Targets, UNCHANGED <<pauses, runs, uncovered>>, TypeOK',
         poller'[t].pc = "fetch", age'[t] = 0
  PROVE  Holds(t)'
<1>1. Limit(t)' \in Nat
  BY Bounds DEF Limit
<1>. QED BY <1>1 DEF Holds, Excused, Waits, Fetches, Unaided, Idles

\* A fetch that ends arms a wait that fits what the broker answers for.
LEMMA Armed ==
  ASSUME TypeOK, NEW t \in Targets, Holds(t), NEW p \in Pollers, Arms(t, p)
  PROVE  Holds(t)'
<1>1. nextDelay(t, p.noChange, p.err) \in Nat
  BY DelayBounds DEF TypeOK, SessionType, Pollers
<1>2. PICK d \in Nat : d = nextDelay(t, p.noChange, p.err)
  BY <1>1
<1>3. /\ ~brokerCovers(RepoOf[t]) \/ t \in runs => d <= Limit(t)
      /\ d <= BrokerCap
      /\ pauses => d <= Limit(t)
  BY <1>2, DelayBounds DEF TypeOK, SessionType, Pollers
<1>4. /\ poller'[t].pc = "wait" /\ poller'[t].timer = d
      /\ UNCHANGED <<age, uncovered, pauses, runs, health, conn, seen>>
  BY <1>2 DEF Arms, settings, session, TypeOK, PollerType, Pollers
<1>5. age[t] = 0
  BY DEF Holds, Fetches, Arms
<1>6. Limit(t) \in Nat /\ BrokerCap \in Nat
  BY Bounds
<1>7. pauses \/ t \in runs \/ ~brokerCovers(RepoOf[t]) => Plain(t)'
  BY <1>3, <1>4, <1>5 DEF Plain, Limit
<1>8. ~pauses /\ t \notin runs /\ brokerCovers(RepoOf[t]) => Stretched(t)'
  BY <1>3, <1>4, <1>5 DEF Stretched, Answered, brokerCovers, Covers
<1>9. ~health => ~brokerCovers(RepoOf[t])
  BY DEF brokerCovers
<1>10. Excused(t)'
  BY <1>4, <1>5, <1>6 DEF Excused, Limit
<1>. QED BY <1>4, <1>5, <1>7, <1>8, <1>9, <1>10 DEF Holds, Waits, Fetches, Unaided

\* A timer that fires while polling is paused ticks again.
LEMMA Ticked ==
  ASSUME TypeOK, NEW t \in Targets, Holds(t), Fire(t), timerPollPaused(t)
  PROVE  Holds(t)'
<1>1. nextDelay(t, poller[t].noChange, poller[t].err) = interval(t)
  BY DEF nextDelay
<1>2. /\ poller[t].pc = "wait" /\ poller[t].timer = 0
      /\ poller'[t].pc = "wait" /\ poller'[t].timer = interval(t) /\ poller'[t].wake = poller[t].wake
      /\ UNCHANGED <<age, uncovered, pauses, runs, health, conn, seen>>
  BY <1>1 DEF Fire, settings, session, TypeOK, PollerType, Pollers
<1>3. pauses /\ brokerCovers(RepoOf[t]) /\ health
  BY DEF timerPollPaused, brokerCovers
<1>6. interval(t)' = interval(t) /\ interval(t) \in Nat
  BY <1>2, Bounds DEF interval
<1>4. Ticks(t)'
  BY <1>2, <1>3, <1>6 DEF Ticks, Answered, brokerCovers, Covers
<1>5. Excused(t)'
  BY <1>2, <1>6 DEF Holds, Excused, Limit, Unanswered
<1>. QED BY <1>2, <1>3, <1>4, <1>5 DEF Holds, Waits, Fetches, Unaided

\* A unit that passes is one that was left of the wait; when the broker answers for
\* the target, the unit counts as answered.
LEMMA Passed ==
  ASSUME TypeOK, NEW t \in Targets, Holds(t), Elapse
  PROVE  Holds(t)'
<1>0. /\ Limit(t) \in Nat /\ Limit(t) <= BrokerCap /\ BrokerCap \in Nat /\ MaxAge = BrokerCap + 2
      /\ interval(t) \in Nat \ {0} /\ interval(t) <= BrokerCap
      /\ RepoOf[t] \in Repos
  BY Bounds
<1>1. PICK a \in 0..MaxAge, k \in Nat \ {0}, u \in 0..MaxAge :
        /\ a = age[t] /\ k = poller[t].timer /\ u = Unanswered(t)
        /\ poller[t].pc = "wait" /\ ~poller[t].wake
  BY <1>0 DEF TypeOK, PollerType, CoverType, Pollers, Elapse, Unanswered
<1>2. /\ poller'[t].pc = "wait" /\ poller'[t].timer = k - 1
      /\ age'[t] = Older(a, MaxAge)
      /\ UNCHANGED <<pauses, runs, health, conn>> /\ conn # "waking"
  BY <1>1 DEF Elapse, settings, session, TypeOK, PollerType, Pollers
<1>3. Unanswered(t)' = IF brokerCovers(RepoOf[t]) THEN 0 ELSE Older(u, MaxAge)
  BY <1>0, <1>1 DEF Elapse, Unanswered, brokerCovers, Covers
<1>4. Limit(t)' = Limit(t) /\ interval(t)' = interval(t)
  BY <1>2 DEF Limit, interval
<1>5. CASE Plain(t)
  <2>1. a + k <= Limit(t)
    BY <1>1, <1>5 DEF Plain
  <2>2. age'[t] = a + 1 /\ age'[t] + poller'[t].timer <= Limit(t) /\ age'[t] <= Limit(t)
    BY <2>1, <1>0, <1>1, <1>2 DEF Older
  <2>3. Plain(t)' /\ Excused(t)'
    BY <2>2, <1>0, <1>2, <1>4 DEF Plain, Excused
  <2>. QED BY <2>3, <1>2 DEF Holds, Waits, Fetches, Unaided
<1>6. CASE Ticks(t) /\ ~Plain(t)
  <2>1. pauses /\ health
    BY <1>1, <1>2, <1>6 DEF Ticks, Holds, Unaided, Idles
  <2>2. \/ brokerCovers(RepoOf[t]) /\ k <= interval(t)
        \/ k + u <= interval(t)
    BY <1>1, <1>2, <1>6 DEF Ticks, Answered
  <2>3. poller'[t].timer + Unanswered(t)' <= interval(t) /\ Unanswered(t)' <= interval(t)
    BY <2>2, <1>0, <1>1, <1>2, <1>3 DEF Older
  <2>4. Ticks(t)' /\ Excused(t)'
    BY <2>1, <2>3, <1>2, <1>4 DEF Ticks, Excused
  <2>. QED BY <2>1, <2>4, <1>2 DEF Holds, Waits, Fetches, Unaided
<1>7. CASE Stretched(t) /\ ~Plain(t)
  <2>1. ~pauses /\ t \notin runs /\ health /\ a + k <= BrokerCap
    BY <1>1, <1>2, <1>7 DEF Stretched, Holds, Unaided, Idles
  <2>2. IF a = 0 THEN brokerCovers(RepoOf[t]) ELSE u < a
    BY <1>1, <1>2, <1>7 DEF Stretched, Answered
  <2>3. age'[t] = a + 1 /\ age'[t] + poller'[t].timer <= BrokerCap /\ Unanswered(t)' < age'[t]
    BY <2>1, <2>2, <1>0, <1>1, <1>2, <1>3 DEF Older
  <2>4. Stretched(t)'
    BY <2>1, <2>3, <1>1, <1>2 DEF Stretched
  <2>5. Excused(t)'
    BY <2>1, <2>3, <1>0, <1>1, <1>2 DEF Excused
  <2>. QED BY <2>1, <2>4, <2>5, <1>2 DEF Holds, Waits, Fetches, Unaided
<1>. QED BY <1>1, <1>5, <1>6, <1>7 DEF Holds, Waits, Idles

\* Every step keeps each target in time.
LEMMA Step ==
  ASSUME TypeOK, TypeOK', InTime, Next, NEW t \in Targets
  PROVE  Holds(t)'
<1>. USE DEF settings, session
<1>0. Holds(t) /\ poller[t] \in Pollers /\ poller \in [Targets -> Pollers] /\ age \in [Targets -> 0..MaxAge]
  BY DEF InTime, Holds, TypeOK, PollerType
<1>q. UNCHANGED <<pauses, runs, uncovered, poller, age, seen, health, conn>> => Holds(t)'
  BY <1>0, LeftAlone DEF Answered, brokerCovers, Covers
<1>1. CASE Connects \/ SubscribeAcked \/ SessionEnds
  BY <1>1, <1>0, LeftAlone DEF Connects, SubscribeAcked, SessionEnds, Answered, brokerCovers, Covers
<1>2. CASE onConnect
  BY <1>2, <1>0, LeftAlone DEF onConnect, Answered, brokerCovers, Covers
<1>3. CASE Degraded
  BY <1>3, <1>0, LeftAlone DEF Degraded, Answered, brokerCovers, Covers
<1>4. CASE wakeAll
  <2>1. poller'[t] = [poller[t] EXCEPT !.wake = @ \/ t \in Targets]
    BY <1>4 DEF wakeAll, Wakes
  <2>2. poller'[t].wake /\ poller'[t].pc = poller[t].pc
    BY <2>1, <1>0 DEF Pollers
  <2>. QED BY <1>4, <1>0, <2>2, Woken DEF wakeAll
<1>5. CASE Reconnects
  BY <1>5, <1>0, LeftAlone DEF Reconnects, Answered, brokerCovers, Covers
<1>6. ASSUME NEW e \in events, OnWake(e) PROVE Holds(t)'
  <2>1. PICK ts : poller'[t] = [poller[t] EXCEPT !.wake = @ \/ t \in ts]
    BY <1>6 DEF OnWake, Wakes
  <2>2. UNCHANGED <<pauses, runs, uncovered, age, health, conn>> /\ seen' = [seen EXCEPT ![e.repo] = 0]
    BY <1>6 DEF OnWake, Note
  <2>3. Answered(t) => Answered(t)'
    BY <2>2, Bounds DEF Answered, brokerCovers, Covers, TypeOK, CoverType
  <2>4. CASE t \in ts
    <3>1. poller'[t].wake /\ poller'[t].pc = poller[t].pc
      BY <2>1, <2>4, <1>0 DEF Pollers
    <3>. QED BY <3>1, <2>2, <1>0, Woken
  <2>5. CASE t \notin ts
    <3>1. poller'[t] = poller[t]
      BY <2>1, <2>5, <1>0 DEF Pollers
    <3>. QED BY <3>1, <2>2, <2>3, <1>0, LeftAlone
  <2>. QED BY <2>4, <2>5
<1>7. ASSUME NEW u \in Targets, NEW p \in Pollers, FetchStarts(u, p),
             UNCHANGED <<pauses, runs, uncovered, seen, health, conn>>
      PROVE  Holds(t)'
  <2>1. CASE u = t
    BY <1>7, <2>1, <1>0, Fetched DEF FetchStarts, Pollers
  <2>2. CASE u # t
    BY <1>7, <2>2, <1>0, LeftAlone DEF FetchStarts, Answered, brokerCovers, Covers
  <2>. QED BY <2>1, <2>2
<1>8. ASSUME NEW u \in Targets, Wake(u) PROVE Holds(t)'
  <2>1. [poller[u] EXCEPT !.wake = FALSE, !.noChange = 0] \in Pollers
    BY <1>0 DEF Pollers
  <2>. QED BY <1>7, <1>8, <2>1 DEF Wake
<1>9. ASSUME NEW u \in Targets, Fire(u) PROVE Holds(t)'
  <2>1. CASE timerPollPaused(u)
    <3>1. CASE u = t
      BY <1>9, <2>1, <3>1, <1>0, Ticked
    <3>2. CASE u # t
      BY <1>9, <2>1, <3>2, <1>0, LeftAlone DEF Fire, Answered, brokerCovers, Covers
    <3>. QED BY <3>1, <3>2
  <2>2. CASE ~timerPollPaused(u)
    BY <1>7, <1>9, <2>2, <1>0 DEF Fire
  <2>. QED BY <2>1, <2>2
<1>10. ASSUME NEW u \in Targets, NEW p \in Pollers, Arms(u, p) PROVE Holds(t)'
  <2>1. CASE u = t
    BY <1>10, <2>1, <1>0, Armed
  <2>2. CASE u # t
    BY <1>10, <2>2, <1>0, LeftAlone DEF Arms, Answered, brokerCovers, Covers
  <2>. QED BY <2>1, <2>2
<1>11. ASSUME NEW u \in Targets, FetchChanged(u) \/ FetchSame(u) \/ FetchFails(u) PROVE Holds(t)'
  <2>0. poller[u] \in Pollers /\ poller[u].noChange \in Nat /\ poller[u].err \in Nat
    BY <1>0 DEF Pollers
  <2>1. Older(poller[u].noChange, MaxQuiet) \in Nat /\ NextErrBackoff(u, poller[u].err) \in Nat
    BY <2>0, Bounds DEF Older, NextErrBackoff, Min2
  <2>2. /\ [poller[u] EXCEPT !.err = 0, !.noChange = 0] \in Pollers
        /\ [poller[u] EXCEPT !.err = 0, !.noChange = Older(@, MaxQuiet)] \in Pollers
        /\ [poller[u] EXCEPT !.err = NextErrBackoff(u, @)] \in Pollers
    BY <2>0, <2>1 DEF Pollers
  <2>. QED BY <1>10, <1>11, <2>2 DEF FetchChanged, FetchSame, FetchFails
<1>12. ASSUME NEW u \in Targets, Change(u) PROVE Holds(t)'
  BY <1>12, <1>q DEF Change
<1>13. ASSUME NEW r \in Repos, WebhookRemoved(r) PROVE Holds(t)'
  BY <1>13, <1>q DEF WebhookRemoved
<1>14. CASE Elapse
  BY <1>14, <1>0, Passed
<1>. QED
  BY <1>1, <1>2, <1>3, <1>4, <1>5, <1>6, <1>8, <1>9, <1>11, <1>12, <1>13, <1>14
  DEF Next, Session, Polls

----------------------------------------------------------------------------
(* The theorems.                                                           *)

\* The invariant is inductive: every target waits the plain wait, a tick or the
\* extended wait, and the last two only while the broker answers for it.
THEOREM BrokerInvariant == Spec => []IInv
<1>1. Init => IInv
  <2>. SUFFICES ASSUME Init PROVE IInv
    OBVIOUS
  <2>1. SessionType
    BY Bounds DEF Init, SessionType
  <2>2. CoverType
    BY Bounds DEF Init, CoverType
  <2>3. PollerType
    BY Bounds DEF Init, PollerType, Pollers
  <2>4. InTime
    BY Bounds DEF Init, InTime, Excused, Waits, Fetches, Unaided, Idles
  <2>. QED BY <2>1, <2>2, <2>3, <2>4 DEF IInv, TypeOK
<1>2. IInv /\ [Next]_vars => IInv'
  <2>. SUFFICES ASSUME IInv, [Next]_vars PROVE IInv'
    OBVIOUS
  <2>1. TypeOK /\ InTime /\ TypeOK'
    BY Typing DEF IInv
  <2>2. CASE UNCHANGED vars
    <3>1. \A t \in Targets : Holds(t)'
      BY <2>1, <2>2, LeftAlone
      DEF vars, settings, session, InTime, Holds, Answered, brokerCovers, Covers
    <3>. QED BY <2>1, <3>1 DEF IInv, InTime, Holds
  <2>3. CASE Next
    <3>1. \A t \in Targets : Holds(t)'
      BY <2>1, <2>3, Step
    <3>. QED BY <2>1, <3>1 DEF IInv, InTime, Holds
  <2>. QED BY <2>2, <2>3
<1>. QED BY <1>1, <1>2, PTL DEF Spec

\* A target the broker has not answered for in a while is polled as if there were no
\* broker, whatever the session says of its health.
THEOREM HealthNeverMutes == Spec => []NeverMuted
<1>1. IInv => NeverMuted
  <2>. SUFFICES ASSUME IInv, NEW t \in Targets, uncovered[RepoOf[t]] >= MaxAge
                PROVE  age[t] <= Limit(t)
    BY DEF NeverMuted
  <2>1. /\ age[t] \in 0..MaxAge /\ uncovered[RepoOf[t]] \in 0..MaxAge
        /\ pauses \in BOOLEAN /\ interval(t) <= BrokerCap /\ BrokerCap \in Nat /\ interval(t) \in Nat
        /\ MaxAge = BrokerCap + 2
    BY Bounds DEF IInv, TypeOK, SessionType, PollerType, CoverType
  <2>2. Excused(t)
    BY DEF IInv, InTime
  <2>. QED BY <2>1, <2>2 DEF Excused, Unanswered
<1>. QED BY <1>1, BrokerInvariant, PTL

\* A coverage that lapses is noticed within a tick where polling is suspended; where
\* it is stretched, one wait may outlive it, of a target that is no run.
THEOREM LapsesAreNoticed == Spec => []LapseNoticed
<1>1. IInv => LapseNoticed
  <2>. SUFFICES ASSUME IInv, NEW t \in Targets
                PROVE  IF pauses THEN Unanswered(t) > interval(t) => age[t] <= Limit(t)
                       ELSE age[t] <= IF t \in runs \/ Unanswered(t) >= age[t] THEN Limit(t) ELSE BrokerCap
    BY DEF LapseNoticed, Unanswered
  <2>1. /\ Unanswered(t) \in 0..MaxAge /\ interval(t) \in Nat /\ MaxAge \in Nat
        /\ age[t] \in 0..MaxAge /\ Limit(t) \in Nat /\ Limit(t) <= BrokerCap /\ BrokerCap \in Nat
    BY Bounds DEF IInv, TypeOK, CoverType, PollerType, Unanswered
  <2>2. Excused(t)
    BY DEF IInv, InTime
  <2>. QED BY <2>1, <2>2 DEF Excused
<1>. QED BY <1>1, BrokerInvariant, PTL

\* After a session is lost every target is polled as if there were no broker, whatever
\* wait was armed before.
THEOREM LossResumesPolling == Spec => []DegradePolls
<1>1. IInv => DegradePolls
  <2>. SUFFICES ASSUME IInv, NEW t \in Targets, ~health, conn # "waking", ~poller[t].wake
                PROVE  age[t] <= Limit(t)
    BY DEF DegradePolls
  <2>1. /\ age[t] \in 0..MaxAge /\ MaxAge \in Nat /\ Limit(t) \in Nat
        /\ poller[t].timer \in Nat /\ poller[t].pc \in {"wait", "fetch"}
    BY Bounds DEF IInv, TypeOK, PollerType, Pollers
  <2>2. CASE poller[t].pc = "fetch"
    BY <2>1, <2>2 DEF IInv, InTime, Fetches
  <2>3. CASE poller[t].pc = "wait"
    BY <2>1, <2>3 DEF IInv, InTime, Unaided, Idles, Plain
  <2>. QED BY <2>1, <2>2, <2>3
<1>. QED BY <1>1, BrokerInvariant, PTL
=============================================================================
