----------------------------- MODULE CoverWatch -----------------------------
(***************************************************************************)
(* A watch that moves between the polling hub and a webhook-driven         *)
(* sub-daemon (internal/mux: mux.go, covermap.go, route_coverage.go).      *)
(*                                                                         *)
(* One sub-daemon, one repository, one watch of a target in it. The        *)
(* registry probes the sub-daemon and reads its coverage stream into the   *)
(* coverage map; the watch reads the map and is served by the sub-daemon   *)
(* while it covers the repository, by the hub otherwise. The state of the  *)
(* target is the number of changes made to it so far: change 0 is the      *)
(* first poll, a status v says that changes 0..v are in it, and Nothing is *)
(* no status. A source reports what lies between its baseline and what it  *)
(* knows, as a batch of one update per change.                             *)
(*                                                                         *)
(* The sub-daemon's own code is external: it honours the baseline it is    *)
(* given, as BACKENDS.md asks, and may miss webhooks.                      *)
(***************************************************************************)
EXTENDS Integers, Sequences

CONSTANTS MaxVersion,  \* bound: changes made to the target
          MaxFaults,   \* bound: faults and dropped connections of the sub-daemon, upgrades
          MaxNews,     \* bound: changes of the sub-daemon's coverage and health
          Terminal,    \* changes that end the watch
          Pinned       \* whether another watch keeps the hub's poller running

ASSUME BoundsAssumption ==
  /\ {MaxVersion, MaxFaults, MaxNews} \subseteq Nat
  /\ Pinned \in BOOLEAN

Nothing == -1
Versions == 0..MaxVersion
Statuses == Versions \cup {Nothing}

VARIABLES
  version,    \* how many changes were made at GitHub
  latest,     \* the payload of the hub's poller; Nothing without a poller
  resume,     \* the baseline a predecessor exported for this watch
  up,         \* whether the sub-daemon answers on its socket
  known,      \* the status its webhooks have told the sub-daemon
  vouches,    \* whether it has events for the repository
  live,       \* Registry.live
  stream,     \* the coverage stream's goroutine: "off", "dial" or "open"
  linked,     \* whether the coverage connection stands
  feed,       \* coverage entries on their way
  seen,       \* runCoverage's seen: this connection reported the repository
  covered,    \* CoverageMap.repos has the repository
  degraded,   \* CoverageMap.degraded: "no", "grace", or "lapsed"
  fresh,      \* CoverageMap.epochs has moved on from the watch's servedEpoch
  pc,         \* where the watch is
  woken,      \* the channel the watch took from Changed is closed
  asking,     \* about to ask stillHere
  pending,    \* a change arrived mid-batch
  midBatch, baseline, forceHub,  \* coverWatch
  timer,      \* whether the safety timer is armed
  queue,      \* updates of the serving source, not delivered yet
  base,       \* the baseline that source diffs against
  serving,    \* whether the sub-daemon's watch stream stands
  heard,      \* heard[c]: how often change c was delivered, 2 for more
  faults, news,
  \* History: a batch lost its rest; a safety fetch ran ahead of the stream; the
  \* hub's poller answered with an older payload; the daemon was upgraded.
  cut, overtaken, stale, upgraded

github == <<version, latest, resume>>
subdaemon == <<up, known, vouches, faults, news>>
registry == <<live, stream, linked, feed, seen>>
map == <<covered, degraded, fresh>>
routing == <<asking, pending, forceHub>>
delivery == <<midBatch, baseline, heard>>
source == <<queue, base, serving>>
history == <<cut, overtaken, stale, upgraded>>
vars == <<github, subdaemon, registry, map, pc, woken, routing, delivery,
          timer, source, history>>

Init ==
  /\ version = 0 /\ latest \in (IF Pinned THEN {0} ELSE {Nothing}) /\ resume = Nothing
  /\ up = FALSE /\ known = Nothing /\ vouches = FALSE /\ faults = 0 /\ news = 0
  /\ live = FALSE /\ stream = "off" /\ linked = FALSE /\ feed = <<>> /\ seen = FALSE
  /\ covered \in BOOLEAN /\ degraded = "no" /\ fresh = FALSE
  /\ pc = "off" /\ woken = FALSE /\ asking = FALSE /\ pending = FALSE
  /\ midBatch = FALSE /\ baseline = Nothing /\ forceHub = FALSE
  /\ timer = FALSE /\ queue = <<>> /\ base = Nothing /\ serving = FALSE
  /\ heard = [c \in Versions |-> 0]
  /\ cut = FALSE /\ overtaken = FALSE /\ stale = FALSE /\ upgraded = FALSE

----------------------------------------------------------------------------
(* Updates.                                                                *)

\* What a source with baseline b reports of status v. A status older than the
\* baseline reads as one change back.
Batch(b, v) ==
  IF v < b THEN <<[change |-> Nothing, status |-> v, more |-> FALSE]>>
           ELSE [i \in 1..(v - b) |-> [change |-> b + i, status |-> v, more |-> b + i < v]]

Times(n) == IF n = 0 THEN 1 ELSE 2

\* Changes b+1..v reach the watcher, from a fetch.
Reports(b, v) == [c \in Versions |-> IF b < c /\ c <= v THEN Times(heard[c]) ELSE heard[c]]

Ends(b, v) == \E c \in Terminal : b < c /\ c <= v

----------------------------------------------------------------------------
(* The target, and the hub's poller of it.                                 *)

Change ==
  /\ version < MaxVersion
  /\ version' = version + 1
  /\ UNCHANGED <<latest, resume, subdaemon, registry, map, pc, woken, routing, delivery,
                 timer, source, history>>

OnHub == pc \in {"hub", "plain"}

\* The hub's poller fetches; its subscriber takes the payload when it has
\* delivered the last one.
HubPolls ==
  /\ Pinned \/ OnHub
  /\ latest # version
  /\ latest' = version
  /\ IF OnHub
       THEN /\ queue = <<>>
            /\ queue' = Batch(base, version) /\ base' = version
       ELSE UNCHANGED <<queue, base>>
  /\ UNCHANGED <<version, resume, subdaemon, registry, map, pc, woken, routing, delivery,
                 timer, serving, history>>

----------------------------------------------------------------------------
(* The sub-daemon.                                                         *)

\* What is left of a sequence on a broken connection.
Prefixes(s) == {SubSeq(s, 1, k) : k \in 0..Len(s)}

\* Whether a batch breaks off where the queue is cut to its prefix q.
Tears(q) == IF q = <<>> THEN midBatch /\ queue # <<>> ELSE q[Len(q)].more

\* Its watch stream and coverage stream break, with the frames not yet read.
Breaks(watch, cover) ==
  /\ IF watch /\ pc = "sub"
       THEN /\ queue' \in Prefixes(queue) /\ serving' = FALSE
            /\ cut' = (cut \/ Tears(queue'))
       ELSE UNCHANGED <<queue, serving, cut>>
  /\ IF cover
       THEN feed' \in Prefixes(feed) /\ linked' = FALSE
       ELSE UNCHANGED <<feed, linked>>
  /\ UNCHANGED base

Restart ==
  /\ ~up
  /\ up' = TRUE
  /\ vouches' \in BOOLEAN
  /\ UNCHANGED <<github, known, faults, news, registry, map, pc, woken, routing, delivery,
                 timer, source, history>>

Exit ==
  /\ up /\ faults < MaxFaults
  /\ up' = FALSE /\ known' = Nothing /\ vouches' = FALSE /\ faults' = faults + 1
  /\ Breaks(TRUE, TRUE)
  /\ UNCHANGED <<github, news, live, stream, seen, map, pc, woken, routing,
                 delivery, timer, overtaken, stale, upgraded>>

\* It drops one of its connections: a rejected target, a slow reader.
Drop ==
  /\ up /\ faults < MaxFaults
  /\ faults' = faults + 1
  /\ \/ serving /\ Breaks(TRUE, FALSE)
     \/ linked /\ Breaks(FALSE, TRUE)
  /\ UNCHANGED <<github, up, known, vouches, news, live, stream, seen, map, pc, woken,
                 routing, delivery, timer, overtaken, stale, upgraded>>

Hook ==
  /\ up /\ known < version
  /\ known' = version
  /\ UNCHANGED <<github, up, vouches, faults, news, registry, map, pc, woken, routing,
                 delivery, timer, source, history>>

SubdaemonSends ==
  /\ serving /\ queue = <<>> /\ base < known
  /\ queue' = Batch(base, known) /\ base' = known
  /\ UNCHANGED <<github, subdaemon, registry, map, pc, woken, routing, delivery, timer,
                 serving, history>>

Send(entry) == IF linked THEN Append(feed, entry) ELSE feed

\* It gains or loses the repository, or says how it is.
Announce ==
  /\ up /\ news < MaxNews
  /\ news' = news + 1
  /\ \/ /\ vouches' = ~vouches
        /\ feed' = Send(IF vouches THEN "uncovered" ELSE "covered")
     \/ /\ feed' = Send(IF degraded = "no" THEN "degraded" ELSE "well")
        /\ linked /\ UNCHANGED vouches
  /\ UNCHANGED <<github, up, known, faults, live, stream, linked, seen, map, pc, woken,
                 routing, delivery, timer, source, history>>

----------------------------------------------------------------------------
(* The registry and the coverage map. Wakes is bumpLocked: the channel     *)
(* every watch waits on is closed.                                         *)

\* The places where the watch holds a channel of Changed.
Waiting == {"route", "fetch", "open", "hub", "sub"}

Wakes(change) == woken' = (woken \/ (change /\ pc \in Waiting))

ProbeFails ==
  /\ ~up /\ live
  /\ live' = FALSE /\ stream' = "off" /\ linked' = FALSE /\ feed' = <<>> /\ seen' = FALSE
  /\ Wakes(TRUE)
  /\ UNCHANGED <<github, subdaemon, map, pc, routing, delivery, timer, source,
                 history>>

ProbeAnswers ==
  /\ up /\ (~live \/ stream = "off")
  /\ live' = TRUE
  /\ stream' = IF stream = "off" THEN "dial" ELSE stream
  /\ Wakes(~live)
  /\ UNCHANGED <<github, subdaemon, linked, feed, seen, map, pc, routing, delivery, timer,
                 source, history>>

\* The sub-daemon answers with its full set.
OpenCoverage ==
  /\ stream = "dial" /\ up
  /\ stream' = "open" /\ linked' = TRUE /\ seen' = FALSE
  /\ feed' = IF vouches THEN <<"covered", "synced">> ELSE <<"synced">>
  /\ UNCHANGED <<github, subdaemon, live, map, pc, woken, routing, delivery, timer, source,
                 history>>

CloseCoverage ==
  /\ stream = "open" /\ ~linked /\ feed = <<>>
  /\ stream' = "dial" /\ seen' = FALSE
  /\ Wakes(TRUE)
  /\ UNCHANGED <<github, subdaemon, live, linked, feed, map, pc, routing, delivery,
                 timer, source, history>>

Retain ==
  /\ covered' = (covered /\ seen)
  /\ degraded' = "no"
  /\ fresh' = TRUE
  /\ Wakes(TRUE)

setDegraded(bad) == degraded' = IF ~bad THEN "no" ELSE IF degraded = "no" THEN "grace" ELSE degraded

\* Mutant: a repository that is gained or lost wakes nobody.
MutantApply(entry) ==
  IF entry \in {"covered", "uncovered"}
    THEN /\ covered' = (entry = "covered")
         /\ UNCHANGED <<degraded, woken>>
    ELSE /\ setDegraded(entry = "degraded")
         /\ Wakes(TRUE)
         /\ UNCHANGED covered

Apply(entry) ==
  IF entry \in {"covered", "uncovered"}
    THEN /\ covered' = (entry = "covered")
         /\ Wakes(covered' # covered)
         /\ UNCHANGED degraded
    ELSE /\ setDegraded(entry = "degraded")
         /\ Wakes(TRUE)
         /\ UNCHANGED covered

ReadCoverage ==
  /\ stream = "open" /\ feed # <<>>
  /\ feed' = Tail(feed)
  /\ seen' = (seen \/ Head(feed) = "covered")
  /\ IF Head(feed) = "synced" THEN Retain
                              ELSE Apply(Head(feed)) /\ UNCHANGED fresh
  /\ UNCHANGED <<github, subdaemon, live, stream, linked, pc, routing, delivery, timer,
                 source, history>>

\* The grace period of a degraded sub-daemon ends.
GraceEnds ==
  /\ degraded = "grace"
  /\ degraded' = "lapsed"
  /\ Wakes(TRUE)
  /\ UNCHANGED <<github, subdaemon, registry, covered, fresh, pc, routing, delivery, timer,
                 source, history>>

----------------------------------------------------------------------------
(* The watch.                                                              *)

Covered == covered /\ degraded # "lapsed"
Covers == live /\ Covered
Belongs == Covers /\ (forceHub => fresh)

\* Whether RoutingSource.Watch hands the watch to coverageWatch: the sub-daemon is
\* live, or the map knows the repository.
routesByCoverage == live \/ covered

\* The baseline the hub's subscription starts from.
Subscribed == IF resume # Nothing THEN resume ELSE baseline

\* The hub subscribes the watch to its poller, whose payload it is handed.
SubscribeHub ==
  /\ resume' = Nothing
  /\ queue' = IF latest = Nothing THEN <<>> ELSE Batch(Subscribed, latest)
  /\ base' = IF latest = Nothing THEN Subscribed ELSE latest
  /\ stale' = (stale \/ latest \in 0..(Subscribed - 1))
  /\ UNCHANGED serving

\* A watch the coverage path does not take is the hub's until it ends.
Watch ==
  /\ pc = "off"
  /\ \/ /\ routesByCoverage
        /\ pc' = "start"
        /\ UNCHANGED <<resume, source, stale>>
     \/ /\ ~routesByCoverage
        /\ pc' = "plain"
        /\ SubscribeHub
  /\ UNCHANGED <<version, latest, subdaemon, registry, map, woken, routing, delivery, timer, cut,
                 overtaken, upgraded>>

TakeChanged ==
  /\ pc = "start"
  /\ woken' = FALSE
  /\ pc' = "route"
  /\ UNCHANGED <<github, subdaemon, registry, map, routing, delivery, timer, source,
                 history>>

Route ==
  /\ pc = "route"
  /\ IF Belongs
       THEN /\ forceHub' = FALSE
            /\ fresh' = FALSE
            /\ pc' = "fetch"
            /\ UNCHANGED <<resume, source, stale>>
       ELSE /\ forceHub' = (forceHub /\ Covers)
            /\ pc' = "hub"
            /\ SubscribeHub
            /\ UNCHANGED fresh
  /\ UNCHANGED <<version, latest, subdaemon, registry, covered, degraded, woken, asking, pending,
                 delivery, timer, cut, overtaken, upgraded>>

\* The fetch through the hub on a move to the sub-daemon, and its failure.
CatchUp ==
  /\ pc = "fetch"
  /\ \/ /\ heard' = Reports(baseline, version)
        /\ baseline' = version
        /\ midBatch' = (midBatch /\ version = baseline)
        /\ pc' = IF Ends(baseline, version) THEN "over" ELSE "open"
     \/ /\ pc' = "open"
        /\ UNCHANGED delivery
  /\ UNCHANGED <<github, subdaemon, registry, map, woken, routing, timer, source,
                 history>>

\* Mutant: the sub-daemon is given the caller's baseline.
MutantSeed == Nothing

\* The baseline the sub-daemon's stream starts from.
Seed == baseline

OpenWatch ==
  /\ pc = "open"
  /\ queue' = <<>> /\ base' = Seed
  /\ IF up
       THEN /\ pc' = "sub" /\ serving' = TRUE /\ timer' = TRUE
            /\ UNCHANGED forceHub
       ELSE /\ pc' = "start" /\ forceHub' = TRUE
            /\ UNCHANGED <<serving, timer>>
  /\ UNCHANGED <<github, subdaemon, registry, map, woken, asking, pending,
                 delivery, history>>

Serving == pc \in {"hub", "sub", "plain"}

Deliver ==
  /\ Serving /\ ~asking /\ queue # <<>>
  /\ LET u == Head(queue) IN
       /\ heard' = [c \in Versions |-> IF c = u.change THEN Times(heard[c]) ELSE heard[c]]
       /\ baseline' = u.status
       /\ midBatch' = u.more
       /\ asking' = (pending /\ ~u.more)
       /\ pending' = (pending /\ u.more)
       /\ pc' = IF u.change \in Terminal THEN "over" ELSE pc
  /\ queue' = Tail(queue)
  /\ UNCHANGED <<github, subdaemon, registry, map, woken, forceHub, timer,
                 base, serving, history>>

\* Mutant: a change mid-batch moves the watch at once.
MutantAwaits == FALSE

\* Whether a move waits for the batch to end.
Awaits == midBatch

\* The channel is closed; the next one is taken before the map is asked.
Wake ==
  /\ pc \in {"hub", "sub"} /\ ~asking /\ woken
  /\ woken' = FALSE
  /\ asking' = ~Awaits
  /\ pending' = (pending \/ Awaits)
  /\ UNCHANGED <<github, subdaemon, registry, map, pc, forceHub, delivery,
                 timer, source, history>>

\* stillHere, and the move: the source's context is cancelled and its unread
\* updates are dropped. A poller nobody else watches stops.
StillHere ==
  /\ asking /\ pc \in {"hub", "sub"}
  /\ asking' = FALSE
  /\ forceHub' = (forceHub /\ Covers)
  /\ IF Belongs = (pc = "sub")
       THEN UNCHANGED <<pc, latest, pending, timer, source>>
       ELSE /\ pc' = "start"
            /\ latest' = IF pc = "hub" /\ ~Pinned THEN Nothing ELSE latest
            /\ pending' = FALSE /\ timer' = FALSE
            /\ queue' = <<>> /\ base' = Nothing /\ serving' = FALSE
  /\ UNCHANGED <<version, resume, subdaemon, registry, map, woken, delivery, history>>

\* The sub-daemon's stream ends, with or without the end of the batch.
StreamEnds ==
  /\ pc = "sub" /\ ~asking /\ ~serving /\ queue = <<>>
  /\ pc' = "start" /\ forceHub' = TRUE /\ pending' = FALSE
  /\ midBatch' = FALSE /\ timer' = FALSE /\ base' = Nothing
  /\ UNCHANGED <<github, subdaemon, registry, map, woken, asking, baseline, heard, queue,
                 serving, history>>

\* The timer fires while the repository is not covered, and is not reset.
TimerIdles ==
  /\ pc = "sub" /\ ~asking /\ timer /\ ~Covered
  /\ timer' = FALSE
  /\ UNCHANGED <<github, subdaemon, registry, map, pc, woken, routing, delivery, source,
                 history>>

\* Mutant: the safety fetch reads nothing.
MutantSafetyReads == baseline

\* What the safety fetch finds.
SafetyReads == version

\* The timer fires after a quiet interval: one fetch, beside the stream.
SafetyFetch ==
  /\ pc = "sub" /\ ~asking /\ timer /\ Covered
  /\ SafetyReads # baseline
  /\ heard' = Reports(baseline, SafetyReads)
  /\ baseline' = SafetyReads
  /\ midBatch' = FALSE
  /\ pc' = IF Ends(baseline, SafetyReads) THEN "over" ELSE "sub"
  /\ overtaken' = TRUE /\ cut' = (cut \/ midBatch)
  /\ UNCHANGED <<github, subdaemon, registry, map, woken, routing, timer, source, stale,
                 upgraded>>

----------------------------------------------------------------------------
(* An upgrade: the successor has the coverage map, the hub's pollers and,  *)
(* of a watch the hub served, the baseline; its watcher reconnects with    *)
(* the options it began with. The sub-daemons are launched afresh.         *)

Takeover ==
  /\ faults < MaxFaults /\ pc \notin {"off", "over"}
  /\ faults' = faults + 1 /\ upgraded' = TRUE
  /\ pc' = "off"
  /\ resume' = IF OnHub THEN base ELSE Nothing
  /\ cut' = (cut \/ (OnHub /\ queue # <<>>))
  /\ up' = FALSE /\ known' = Nothing /\ vouches' = FALSE
  /\ live' = FALSE /\ stream' = "off" /\ linked' = FALSE /\ feed' = <<>> /\ seen' = FALSE
  /\ degraded' = "no" /\ fresh' = FALSE
  /\ woken' = FALSE /\ asking' = FALSE /\ pending' = FALSE
  /\ forceHub' = FALSE
  /\ baseline' = Nothing /\ midBatch' = FALSE
  /\ timer' = FALSE /\ queue' = <<>> /\ base' = Nothing /\ serving' = FALSE
  /\ UNCHANGED <<version, latest, news, covered, heard, overtaken, stale>>

----------------------------------------------------------------------------

External == Change \/ Restart \/ Exit \/ Drop \/ Hook \/ Announce \/ Takeover

Probe == ProbeFails \/ ProbeAnswers
runCoverage == OpenCoverage \/ CloseCoverage \/ ReadCoverage

coverageWatch ==
  \/ Watch \/ TakeChanged \/ Route \/ CatchUp \/ OpenWatch
  \/ Deliver \/ Wake \/ StillHere \/ StreamEnds \/ TimerIdles \/ SafetyFetch

Next ==
  \/ External \/ HubPolls \/ SubdaemonSends
  \/ Probe \/ runCoverage \/ GraceEnds \/ coverageWatch

Spec == Init /\ [][Next]_vars

\* The poller, the sub-daemon's stream, the probe, the coverage stream, the grace
\* timer and the watch go on, each a goroutine or a timer of its own; GitHub, the
\* webhooks, the supervisor and the operator owe nothing.
Fairness ==
  /\ WF_vars(HubPolls) /\ WF_vars(SubdaemonSends)
  /\ WF_vars(Probe) /\ WF_vars(runCoverage) /\ WF_vars(GraceEnds)
  /\ WF_vars(coverageWatch)

FairSpec == Spec /\ Fairness

----------------------------------------------------------------------------
(* Properties.                                                             *)

Updates == [change : Statuses, status : Versions, more : BOOLEAN]
Entries == {"covered", "uncovered", "synced", "degraded", "well"}

\* The types of the variables, and that the watch has a source's stream only while
\* that source serves it.
TypeOK ==
  /\ version \in Versions /\ latest \in Statuses /\ resume \in Statuses
  /\ up \in BOOLEAN /\ known \in Statuses /\ vouches \in BOOLEAN
  /\ live \in BOOLEAN /\ stream \in {"off", "dial", "open"} /\ linked \in BOOLEAN
  /\ feed \in Seq(Entries) /\ seen \in BOOLEAN
  /\ covered \in BOOLEAN /\ degraded \in {"no", "grace", "lapsed"} /\ fresh \in BOOLEAN
  /\ pc \in {"off", "plain", "start", "route", "fetch", "open", "hub", "sub", "over"}
  /\ woken \in BOOLEAN /\ asking \in BOOLEAN /\ pending \in BOOLEAN
  /\ midBatch \in BOOLEAN /\ baseline \in Statuses
  /\ forceHub \in BOOLEAN
  /\ timer \in BOOLEAN /\ queue \in Seq(Updates) /\ base \in Statuses
  /\ serving \in BOOLEAN /\ (serving => pc \in {"sub", "over"})
  /\ heard \in [Versions -> 0..2]
  /\ faults \in 0..MaxFaults /\ news \in 0..MaxNews
  /\ cut \in BOOLEAN /\ overtaken \in BOOLEAN /\ stale \in BOOLEAN /\ upgraded \in BOOLEAN

\* What the baseline accounts for was delivered, or is the rest of the batch being
\* delivered: a move never hides a change, unless a stream broke in the middle of a
\* batch.
NothingLost ==
  ~cut => \A c \in 0..baseline :
            heard[c] > 0 \/ \E i \in 1..Len(queue) : queue[i].change = c

\* Moving between the sources reports no change twice. It does once a safety fetch
\* has read ahead of the sub-daemon's stream, after the hub's poller answered with a
\* payload older than the baseline, and after an upgrade.
NothingTwice ==
  ~overtaken /\ ~stale /\ ~upgraded => \A c \in Versions : heard[c] < 2

\* Every change reaches the watcher, webhooks lost or not, unless a stream broke in
\* the middle of its batch, or the watch stays with a safety timer that fired while
\* its repository was not covered, and was not armed again.
ChangesArrive ==
  \A c \in Versions :
    version >= c ~> \/ heard[c] > 0 \/ cut \/ pc = "over"
                    \/ pc = "sub" /\ ~timer

\* A watch does not stay with a sub-daemon that does not cover its repository, nor
\* with the hub when it belongs to the sub-daemon.
Settles ==
  /\ pc = "sub" /\ ~Covers ~> pc # "sub" \/ Covers
  /\ pc = "hub" /\ Belongs /\ up ~> pc # "hub" \/ ~Belongs \/ ~up

\* One watch reports one first poll, upgrades included: its watcher reconnects to
\* the successor (README.md, "Upgrading while watchers run").
OneFirstPoll == ~overtaken => heard[0] < 2

=============================================================================
