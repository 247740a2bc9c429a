# gh-monitor in TLA+

gh-monitor watches pull requests, refs, commits, issues, workflow runs and
repositories for its users. A `gh monitor` client attaches over a Unix socket to
one daemon, which polls each watched target once and fans the result out to
every watcher of it; other commands act on pull requests. These modules model
the daemon, the client, the commands and what they make of GitHub's answers, TLC
checks them on small instances, and TLAPS proves the results that matter most
for every value of the constants.

Run a configuration with `tlc -config MCHub.cfg MCHub`, or on the module itself
where no MC module defines its constants (`tlc -config MCDaemon.cfg Daemon`), a
proof with `tlapm HubProofs.tla`. The configurations under "Where the code and its words
disagree" end in a counterexample and are not among the runs of PROJECT.json.

## The system

| Part | State it keeps | Operations | What is hard |
|---|---|---|---|
| Hub (`internal/hub/hub.go`) | `pollers` by identity; per poller `subs`, `latest`, timers, backoff, tier | Subscribe, detach, Refresh, Stop, Once, broker health | Subscribe works in three critical sections and detach in three, under two locks; bounded channels drop |
| Degradation ledger (`internal/hub/degradation.go`) | messages per failing surface, last good read, start of the window | fail, success | episodes that span several surfaces; silence for repeats; a takeover in the middle |
| Pacing (`nextDelay`, `grantTurn`, `monitor/pace.go`) | next free slot, each poller's last fetch | grant or deny a turn | all pollers compete for one slot; fairness |
| Reading a pull request (`tier.go`, `rest.go`, `diff.go`, `consumer.go`) | tier of the poller and of each subscriber, REST mode, each subscriber's baseline | fetch at a tier, cheaper retry, REST read, distil, diff | the tier changes between the fetch and the diff |
| State transfer (`internal/hub/handoff.go`) | pollers and resumable baselines | export, restore, resume | what is not exported |
| Upgrade handoff (`internal/handoff`, `cmd/selfupdate.go`, `cmd/daemon.go`) | who holds the listening socket, who is the main process | info, announce, state, socket pass, abort | crash or timeout of either side |
| Socket ownership (`internal/ipc`) | the socket path, the owner record | probe, reclaim, bind, claim, release | each is a separate step of several processes |
| Sub-daemon routing (`internal/mux`) | live providers, coverage map and epochs, where each watch is served | probe, apply, retain, move, fail over | a watch moves between two sources and must lose nothing |
| Broker transport (`internal/broker`) | connection state, repositories covered and since when | connect, event, loss, backoff | coverage is evidence that goes stale |
| Sub-daemon supervisor (`internal/subdaemon`) | rapid failures and backoff of each child | spawn, wait, back off, stop | a permanent failure, a cancelled backoff |
| Client (`cmd/monitor.go`, `backend/remote`) | stream, resume identity, baseline, retries | attach, reconnect, revive, time out | a daemon that dies, one that hands over |
| CI verdict, readiness, snapshots (`monitor/civerdict.go`, `readiness.go`, `monitor.go`, `consumers.go`) | each consumer's baseline | judge, snapshot, diff, fingerprint, bucket | many cases, absence read as success, pages that are cut |
| Resident processes (`internal/reexec`, `cmd/selfupdate.go`, `cmd/reload.go`) | the copy a process runs from, the fuse, the file's last known state | copy and exec, watch the file, spawn, reload | an upgrade that lands while a daemon starts |
| Commands (`internal/threads`, `review`, `comments`, `draft`, `reactions`, `report`; `backend/registry.go`, `backend/remote/mutate.go`) | none between calls | pick a backend, several calls to GitHub each | others act between the calls, answers are lost |

They interact by method calls inside the daemon (a broker event or a sub-daemon
calls Refresh; the timers of the pollers call fetchOnce), by channels between a
poller and its subscribers, and by line-delimited JSON over Unix sockets between
client, daemon, successor daemon and sub-daemons.

What makes each part correct: at most one poller of an identity polls, and it
polls while and only while somebody watches (hub); no gap in the reads is silent
and no notice repeats (ledger); every target is read in bounded time (pacing);
nothing shed by a tier is reported as a change, and nothing new goes unreported
(reading); exactly one daemon serves the path, and a start finds or becomes it
(ownership, handoff); a watch that moves loses nothing, repeats nothing and ends
where it belongs (routing); a repository is muted only while the broker answers
for it (broker); what is told is told once, and the cursor and the exit code
agree with it (client); what is called green or ready is so on GitHub (verdict);
no upgrade is missed and no sub-daemon lost (resident processes); a command acts
once and tells the truth (commands).

## The modules

| Module | Models | State and actions |
|---|---|---|
| `Hub` | the pollers of one identity and their subscribers | `registered`, `started`, `subs`, `latest`, the two channels of each subscriber. `Lookup`, `Attach`, `Launch` are the critical sections of Subscribe; `Cancel`, `StopPoller`, `DropPoller` those of detach; `FetchFails`, `FetchReturns`, `Deliver`, `Tick`, `Wake`, `Exit` the poller's goroutine; `TakeSnapshot`, `TakeNotice` the select of the subscriber's loop; `Stop`, `Refresh` the hub's own calls. History: `crossed`, a Subscribe that overlapped the last cancel of its poller |
| `Degradation` | the ledger and the notices of one poller | `surfaces`, `lastOK`, `blindFrom` as in the code; `fail`, `success`, `TakenOver`. History: what failed, what was read, what was declared, when successors began, what the watcher believes |
| `PRWatch` | one poller of a pull request and one subscriber | `tier`, `restMode`, `latest`, `subTier`, `snapshotCh`, `baseline`. `Poll`, `Answer`, `AnswerCheaper`, `ReadREST`, `AnswerREST`, `Fail`, `Deliver` are fetchOnce and what it calls; `Consume` is the subscriber's loop with its distillation, carrying forward and diff. A payload bears the tier it was read at. History: `mixed`, a payload distilled above its tier |
| `Pacing` | the pollers' timers and the slots of requests | `slot`, `place` (who is oldest), `age`, `timer`; `Fire` with `Granted` or `Denied`, `Wake`, `Elapse` |
| `Daemon` | the processes that own the daemon's socket | `pc`, `path`, `record`, `holds`, `handedOff`, `mainPID`. The steps of ipc.Listen (`Stat`, `Dial`, `CheckOwner`, `Reclaim`, `Bind`, `ClaimOwner`), of an exit (`Stop`, `Close`, `Remove`, `ReleaseOwner`), and of both sides of the handoff (`AskInfo`, `AskState`, `AskSocket`, `Mark`, `Send`, `Receive`, `Shutdown`, `TimeOut`, `Abort`); `Crash` |
| `CoverWatch` | the registry, the coverage map, and one watch that moves between the hub and a sub-daemon | `live`, `stream`, `feed`, `covered`, `degraded`, `fresh`; `pc`, `baseline`, `midBatch`, `forceHub`, `timer`. `ProbeFails`, `ProbeAnswers`; `OpenCoverage`, `ReadCoverage` (Retain, Apply), `CloseCoverage`, `GraceEnds`; `Watch`, `TakeChanged`, `Route`, `CatchUp`, `OpenWatch`, `Deliver`, `Wake`, `StillHere`, `StreamEnds`, `TimerIdles`, `SafetyFetch` are coverWatch's goroutine; `Takeover` an upgrade |
| `Ownership` | what the daemons of a path promise together, abstractly | `charge`, who has the socket and which; `Take`, `Pass`, `Leave`. `Daemon` implements it with `charge <- Charge` |
| `CIVerdict` | the verdict on a head commit and the two annotation filters, as operators | `JudgeCI` over a view of suites, runs and contexts; one operator per function of civerdict.go |
| `Snapshots` | snapshot, diff and consumer of pull requests, refs, issues and runs, the fingerprint, the readiness bucket, as operators | `Snapshot`, `Diff`, `ConsumePR`, `Fingerprint`, `Bucket` and their like for the other kinds |
| `CIWatch` | a head commit that evolves on GitHub, the discussion of its pull request, and the three readers that judge it, page by page | `head`, `talk`; `Creates`, `Queues`, `Completes`, `Concludes`, `Reports`, `Push`, `Closes` and `Discussion` (`Posts`, `Replies`, `Acks`, `Withdraws`, `Resolves`, `Reopens`, `Reviews`, `Dismisses`) are GitHub's; `PollPR`, `PollRef`, `ReadReadiness` the program's. History: `withdrawn`, whose thumbs-up was taken back since the watch's last read |
| `Client` | one watch from GitHub to the written line, with its process and its daemon | `Poll`, `Send`, `Done` are the daemon's side, `ExportState`, `PassSocket`, `Expire`, `Crash` its end; `Break`, `Reconnect`, `Fails` pumpWatch; `Starts`, `Take`, `Show`, `Finish`, `Timeout`, `Cancel`, `Kill` the process; `Save` the cursor. History: `told`, `before`, `windows`, `again` |
| `Broker` | the broker's session, coverage and health, and the cadence of a poller under them | `Connects`, `SubscribeAcked`, `onConnect`, `SessionEnds`, `Degraded`, `wakeAll`, `Reconnects`; `OnWake` an event; `Fire`, `Wake`, `FetchChanged`, `FetchSame`, `FetchFails` the poller; `Elapse` time |
| `Resident` | daemons that run from copies of the binary, hand over to upgrades and keep a sub-daemon | `MaybeReexec`, `openSocket`, `Tick` and `SpawnFails` (the watcher of the file), `spawnSuccessor`, `spawnDaemon`; `Fails`, `Exited`, `Sleeps`, `Cancelled`, `Interrupted` the launcher |
| `Actions` | the commands that act on a pull request | `Begin` finds the backend, each call to GitHub is an action (`Start`, `Reply`, `collectThreads`, `statusOf`, ...), `Interrupt` cuts a backend off, `Somebody...` are other people |
| `HubProofs`, `PollerProofs`, `DaemonProofs`, `CoverWatchProofs`, `ClientProofs`, `BrokerProofs`, `CIWatchProofs`, `ActionsProofs` | | the theorems; `PollerProofs` has those of `PRWatch`, `Degradation` and `Pacing`, `DaemonProofs` those of `Daemon` and `Resident`, whose names differ so that one module can extend both |
| `MC...` | | instances, symmetry, constants |

The granularity is the code's: one action for what happens under one hold of a
lock, or between two channel or socket operations. Everything another goroutine
or process may do in between is an action of its own.

A subscriber diffs against a baseline of its own, so `PRWatch` needs one of
them; the hub treats every kind of target alike, so `Hub` needs no content.
Payloads are version numbers in `Hub`, counts of changes in `CoverWatch`, and
the comments and the review decision in `PRWatch`: the decision is shed one tier
before the comments, and the other surfaces are shed and diffed like one or the
other. `Hub` leaves out the broker's pause of timer polling, which is in
`Broker`.

`CIVerdict` and `Snapshots` are used by `CIWatch` and by `Client`, which take
their events from the same operators. `Client` reduces the hub to one poller and
the ownership of the socket to a daemon that is on or off; `Resident` reduces a
handoff to success or failure: `Hub` and `Daemon` have the steps.

`Client` numbers the changes of a target: an issue's comments, a ref's commits;
0 is its end. `windows` collects how the code can lose a change, `again` that it
may repeat one, and the properties say that nothing else does. `Broker` counts
time in units and leaves out the jitter of a wait. A run has an interval of its own
there (hub.go:1122-1132), and the wait and its ceiling are raised to the pace of the
budget (1279-1293), which the daemon always wires (cmd/daemon.go:305, 318): ample, it
is the hub's interval, for a run too; a stretched budget is left out. `Resident` takes from outside
that a sub-daemon exits when it is interrupted or refused its socket, and leaves
out the permanent stop for a binary that is missing. `Actions` takes arguments
as valid and a backend of another process as doing what the built-in one does;
it leaves out texts, positions, the order of lists, the `--mine` filter of
`threads list` (threads/service.go:64), and a report's filters by reviewer, state
and author. In `CIWatch` nothing that was said is deleted: a deletion changes the ids
the fingerprint holds, and ids are not used again. The pages of comments and threads
(tier.go:148-181) are left out too: the fingerprint and the snapshot see the same one.

`CoverWatch` takes from outside the repository that a sub-daemon honours the
baseline it is given (docs/BACKENDS.md), so that the router's dropping of a
second first poll never applies. It reads the epoch together with the route,
counts the entries left in a cancelled coverage stream as lost, lets the quiet
interval end at any time, and gives the watcher's channel room.

## The runs

| Run | Shows | Bounds, fairness |
|---|---|---|
| `degradation` | gaps are declared, truthfully; the watcher's belief is current | 2 surfaces, 2 messages, 7 fetches, 2 takeovers |
| `hub` | one live poller per identity, first fetch with an audience, none without a subscriber, and no watcher on a stopped poller unless a subscription crossed a departure | 2 subscribers, 3 pollers (a restored one and one for each call), 1 version of the payload, room for one notice; symmetric |
| `hub_live` | changes reach a watcher that stays, and so does every notice that finds room; a poller nobody watches stops fetching | 1 subscriber, 1 poller, 2 versions, 2 outages and so up to 4 notices in a channel of 2, which overflows; weak fairness of every goroutine, strong fairness of a fetch that returns and of taking each channel (Go's select chooses at random) and of the loop's tick and exit |
| `prwatch` | nothing shed reads as cleared and no comment is told twice, unless a payload was distilled above its tier; comments arrive | 1 comment, 1 decision, every tier, 1 takeover; weak fairness of the goroutines, strong fairness of a poll at the full tier and of its answer: the budget allows full reads again and again |
| `pacing` | bounded wait | 3 pollers, a gap of one unit, delays up to 4 |
| `daemon` | the daemon in charge is reachable and the unit's main process; a start finds or becomes a daemon; the processes implement `Ownership` | 3 processes, 2 of them in the service manager's unit; weak fairness of each process's own steps, none of stops, crashes and timeouts |
| `cover` | no change is lost or told twice by a move, every change arrives, the watch settles where it belongs | 1 change after the first, 1 fault of the sub-daemon or upgrade, 1 change of its coverage or health; weak fairness of the poller, the stream, the probe, the coverage stream, the grace timer and the watch, none of webhooks, restarts and upgrades |
| `ci` | green and ready are true, a filter is accused truly; while the pages are whole the fingerprint hides no event but the return of what lost its thumbs-up | a workflow's check, an app without runs and a context; 2 suites and 2 runs in all, 6 steps of GitHub; pages of 2 suites and 2 runs, of 1 run for readiness; 1 comment, 1 thread of up to 2 comments, reviews of 3 kinds, where there are at most 1 suite, 5 steps, no context and no filter (the constraint `MCDiscussed`) |
| `client` | nothing is lost or written twice outside the named windows, the cursor is never ahead, the exit code is true, a comment is written in the end | an issue, a run or a ref with 1 change and its end; 1 crash, 1 upgrade, 1 failed write, 2 starts; 4 command lines; channels of 3. Weak fairness of the goroutines taken together, none of faults, the clock and the operator |
| `resident` | a stale daemon, an orphan and a sub-daemon without its socket have the one explanation the code allows | 2 daemons, 1 upgrade, 2 deaths, 1 fault, a fuse of 1; weak fairness of the launchers and of a start |
| `broker` | a repository the broker does not answer for is polled; a lapse and a lost session are noticed in bounded time | 1 target (a pull request or a run), cadence 2, a run's of its own 1, ceilings 3 and 5, coverage of 3 units, 1 event under way |
| `actions` | a command acts at most once, success is true, a list names what was there | 2 commands of 17 kinds, 5 settings of the backends, 2 states of the review, pages of 1 thread, 3 threads, 1 push, 1 act of others; symmetric |

Why these bounds are enough to be interesting. The races of Subscribe and detach
involve one call that leaves and one that comes; each can create one poller, and
a third is the one a predecessor restored. Two surfaces and two messages give
every way an episode can grow. Three pollers are the least for which "oldest
first" and "in turn" differ. Three processes are a daemon, its successor and a
starter that knows of neither; the safety properties of `daemon` were also checked once with
four. A watch with one change has a batch of two (the first poll and the change),
which a move, a fault or a safety fetch can break in the middle; the safety
properties of `cover` were also checked once with two changes and a poller that
another watch keeps, without upgrades. Two suites against a page of two and two
runs against a readiness page of one make every cut there is; six steps suffice
to queue, finish and repeat a run, or to post, acknowledge and withdraw beside them;
two comments make a thread whose last one counts. In `client` one change and the end make a batch
of two, which every fault can cut; in `resident` a fuse of one is spent by one
reload; in `broker` the coverage outlives a wait and a wait the coverage; in
`actions` a page of one thread makes every list take several requests.
`CHECK_DEADLOCK FALSE` stands where a bound or the end of a process stops the
system; `pacing` has no such end and is checked for deadlock.

Why the fairness is the code's. Every action with weak fairness is the next step
of a goroutine the scheduler runs, of a ticker or of an armed timer; strong
fairness is asked only where Go's select picks at random among ready channels or
where GitHub has to answer again and again for anything to be observed at all.
What users, operators, GitHub, webhooks and crashes do is never fair.

## The proofs

`HubProofs` proves, for any number of subscribers and pollers, the six safety
properties of `hub`. The inductive invariant `IInv` ties each call's place to the
poller it holds: the attached are exactly those past Attach and not past Cancel
(`AttachInv`), a live poller is the registered one (`LiveInv`), of those that
claim a start one is still subscribing or the goroutine runs (`StartInv`), and
behind a running goroutine there is a call that attached (`AudienceInv`).
`WatchersSee` needs more (`CrossInv`): until a subscription crosses a departure,
a call on its way out of an emptied poller is alone with it.

`PollerProofs` proves every property of the ledger for all sets of surfaces
and messages and any number of takeovers. `WindowInv` says that `blindFrom` is
the last good read of the episode whenever it is set, `MapInv` that what the
watcher was told of a surface is the ledger's entry, and `GapInv` that every
failed fetch lies in a window declared, in the open one, or across a takeover.

Of a pull request's reading it proves that shedding never reads as clearing and repeats no
comment unless a payload was distilled above its tier, that REST mode holds the
lowest tier, and the types, for all comments, decisions, budgets and takeovers.
`OrderInv` orders the five copies of the pull request (baseline, buffered,
latest, fetched, upstream): each shows all that the one before it shows, as far
as its tier reaches. `ReportInv` says the baseline holds what was reported.

Of pacing it proves, for any number of pollers and any gap, that no poller waits
longer than the longest delay and one slot of each other poller (`TurnComes`). The bound
on the ages is not inductive: a poller that is due waits for the slot, and who gets
it depends on all the timers. `TurnInv` says that places and ages agree, that a timer is
short or was armed with the age it had, and that the timer of the oldest, or the slot
it was refused for, ends before the poller in place k has waited k turns. The theorem supposes
`Restored = {}`: with a restored poller that nobody watches it is false, and
`MCPacingRestored.cfg` shows why.

`DaemonProofs` proves, for any number of processes, in the unit or not, that the
daemon in charge is reachable, that a unit with a process has a main process
that serves or is about to, and that `Daemon` implements `Ownership`. `Base`
holds always: who has descriptors, a request or a predecessor (`Fits`), what a
handler has done to the daemon it runs in (`Handlers`), and that a main process
lives (`MainLives`). `InOrder` holds until two starts cross: the path leads to the
one socket in charge, one process adopts it at a time, on its own request, and the
main process is in the line of succession. Reachability alone is not inductive: a
starter that found nobody could bind beside a successor that nothing names.

It also proves, for any number of daemons, upgrades, deaths and faults and any
fuse, that an upgrade is missed and a sub-daemon left behind only in the ways
`Resident` names. `Current` says that a daemon that starts runs what is
installed, and one that serves what it found installed, or is excused; `Supervised`
that a daemon before its start has no launcher, and that whoever has a child
waits for it or is dead.

`CoverWatchProofs` proves that a watch loses no change and repeats none when it
moves, for any number of changes, faults and upgrades. The queue is the rest of
one batch (`OneBatch`), a watch moves between two batches (`MovesBetween`), each
baseline accounts only for what was delivered or is queued (`Whole`), and what was
delivered lies below the baselines and below the queue, in order (`Ahead`).

`ClientProofs` proves, for every kind of target, any number of changes, crashes,
upgrades, reconnects and starts, any channel size and any command lines, that
nothing is lost but through a window, that the cursor is never ahead of what was
written, that nothing is written twice unless the watch was set back, and that the
exit code is true. The inductive invariant follows an update all the way, as one
queue from the hub's channel through the stream to the process. `Shape` says which
parts of a watch exist together, and that whatever is queued, held or saved is
the status of a state that the target had. `LossInv` says that each baseline
(the subscriber's, the exported and the held one, the process's) accounts only for
what is told, in hand or queued, and that between two batches the cursor and the
statuses do not run ahead of the updates (`Ahead`). `RepeatInv` is the converse: as long as the watch was not set back, the
queued updates tell different changes, none told before (`Fresh`), and each
baseline knows of all of them (`Covers`, `Knows`). `ExitInv` ties what the process
has met to what it told. The conclusions alone are not inductive: what a reconnect may skip rests on what the held
entry knows, and that on what the subscriber it came from had sent.

`BrokerProofs` proves, for any targets, cadences (the hub's and a run's), ceilings and
backoffs with `BrokerAssumption`, that health without coverage never mutes a poller,
that a lapse of coverage is noticed in bounded time, and that a lost session resumes
polling. The bound is the wait without a broker (`Limit`): the hub's pace for a run,
the idle ceiling for another target. Where polling is stretched a lapse may be outlived
by the one wait that was armed before it. `InTime` says of each poller which of the code's three waits it is in
(`Plain`, `Ticks`, `Stretched`) and so how the age of its last fetch, its timer
and the time without an answer bound each other; a bound on the age alone says
nothing of the wait armed next.

`CIWatchProofs` proves, for any checks and page sizes, that an announced green and
a ready bucket are true of the head commit, that a filter is not accused falsely,
and that an equal fingerprint of whole pages hides no event but the return of a
comment or thread whose thumbs-up was taken back since. The watch compares
with what it remembers, so `Remembered` says that its baseline and fingerprint are
those of one page of an older state of the commit (`Older`: suites and
runs only grow, and a run only ends) and of an older state of what was said
(`Follows`: threads only grow, and a thumbs-up that is gone was taken back or
answered), and `GitHubOK` that no two runs end at once.

`ActionsProofs` proves, for any number of commands and other people, that a command
changes the pull request at most once, that a success is true and that a list names
what was there. `moments` collects what GitHub was while a command ran; `Counted`
ties a command's effects to how far it is, `Truthful` and `Listed` what it has read
so far to a moment, page by page.

The assumptions are those the modules declare on their constants (`UnitAssumption`,
`NoneAssumption`, `BoundsAssumption`, `BrokerAssumption`, `CIAssumption`,
`ActionsAssumption`, `InputsAssumption`, `DegradationAssumption`, `HubAssumption`,
`PRWatchAssumption`, `PacingAssumption`, `ResidentAssumption`, `ClientAssumption`,
`NilAssumption`), and `Restored = {}` where it is said: types,
positive sizes, ceilings not below the cadence, names that are not the null value.
The bounds on GitHub's and the environment's steps are constants, so that the theorems
hold for every one of them. `TypeOK` of each proved module, `StartedOnce`,
`NoRepeatedNotice` and `RESTHoldsTier` are proved and no longer among the runs'
properties.

Every safety invariant of the runs, `NothingTwice` of both modules and the
refinement are proved. Model-checked only: liveness, which TLAPS does not prove
(`ChangesArrive`, `NoticesArrive`, `PollingStops`, `CommentsArrive`, `StartServes`,
`Settles`, `CommentsTold`, `WakeRearmed`, and `ChangesArrive` of `cover`).

The refinement. `Ownership` says that at most one process has the socket that
clients' connections are queued on, that a process makes a new one only when
nobody has any, and that a handoff passes the same socket on. `Daemon!Charge`
maps a state of the processes to it: whoever has the socket open or on its way to
it, except a daemon that passed it on and is about to close. `OneOwner` is the
abstract specification under that mapping, checked as a property of `daemon` and
proved in `DaemonProofs`, step by step: each step of a process takes, passes or
leaves the charge, or changes nothing of it. Once
two starts have crossed nothing is in charge by definition: see the next section.

## What the code does that a run excludes

A history variable or a premise of a property names each case below. They are
what the code does, read and met while modelling; most have no run of their own.

- A recovery notice can be overtaken by the payload it announces: they travel in
  two channels (hub.go:1622-1624 against the select at 1805).
- The newest payload is dropped when the channel is full (hub.go:1647); while the
  broker pauses timer polling no later one replaces it.
- A notice dropped on a full channel is not repeated (hub.go:1716-1733):
  `NoticesArrive` speaks of those that found room, and in `hub_live` others do not.
- An outage in progress at a takeover is never declared (handoff.go:84).
- The cheaper retry (hub.go:1442-1448), and a tier that moves before the payload is
  drained (1827-1830), distil a payload above the tier it was read at; what it
  shed then reads as cleared (`mixed`).
- Two starters that meet one stale socket can both reclaim it (ipc.go:58-72, which ipc.go:52-53 calls safe), and
  a socket can be judged stale before its owner has recorded itself (`crossed`).
- Two successors that ask at once both get the socket, and the second one's abort
  points the service manager at a predecessor on its way out (`contended`).
- A successor that times out after the socket was sent leaves nobody serving; a
  failed send leaves `handedOff` set.
- A batch broken off by a dying sub-daemon loses its rest: its first update
  already moved the baseline (`cut`; coverage_handoff_test.go:107-110 says why the
  move itself waits).
- A safety fetch that finds what the stream still holds reports it twice
  (`overtaken`); a poller that another watch keeps hands a returning watch an
  older payload (`stale`).
- The safety timer that fires while the repository is uncovered is not armed again
  (route_coverage.go:242), and stays off if coverage returns before the watch
  looks.
- A watch of a repository not yet known that begins before the first probe answers
  stays with the hub for life (route.go:77-101).
- The entries of a coverage stream that closed stay covered until its successor
  has sent a full set (mux.go:274).

- A change polled between the export of the baselines and the socket pass dies with
  the old daemon's channel, or is reported again (`handoff`, `again`; handoff.go:92).
- When a daemon stops, its hub's channels end as well as its connections; a client
  that is told of the former takes the watch for finished (server.go:150).
- What follows a terminal update in its batch is not sent (`terminal`), and a process
  or a daemon that ends inside a batch leaves a cursor ahead of it (`batch`).
- A run's watch ignores its baseline when it starts again (hub.go:797-848), and a
  cursor that cannot be saved repeats what it missed (`again`).
- An upgrade that lands between the copy of the binary and the watcher's first look
  at the file is missed; a revived daemon runs the client's own old copy
  (`excused`).
- A daemon waits five seconds for its launcher and leaves the child to itself after
  that (cmd/daemon.go:414-419); a daemon whose start ends in place never waits.
- The orphan guard never fires off Linux (parent_other.go:5-7).
- A filter is accused of naming no check when a run is cut off by the page
  (`WholeRuns`), and beyond a page of suites a branch can be called green.
- A reply is posted before it is read back: a failed read reports an error for a
  reply that stands (comments/service.go:115-139). The work of an external backend
  goes on after its client is cut off, and a call waits for an answer without a
  deadline (remote/mutate.go:71).
- `react` asks GraphQL for no result, so that the checks for an error body never
  run (ghcli.go:252, reactions.go:77): `SuccessIsTrue` leaves it out.
- A report reads the first 100 reviews and threads (report/service.go).

## Where the code and its words disagree

Each row is a configuration that TLC refutes.

| Configuration | Property | What the code does | What is said |
|---|---|---|---|
| `MCHubBlind.cfg` (`MCHub`) | `NoBlindWatcher` | Subscribe takes the poller under h.mu (hub.go:319-332) and joins it under p.mu (376-403); detach (742-760) may stop it in between, and the new watcher hears nothing | hub.go:311-312: "the underlying poller stops once its last consumer leaves" |
| `MCHubDrop.cfg` (`MCHub`) | `OutagesEnd` | broadcast drops a notice on a full channel (hub.go:1727-1731), and the ledger has forgotten the outage: a recovery that is dropped is not told later | hub.go:1717-1720: "(the next tier change or error re-notifies)" |
| `MCPRWatchFresh.cfg` (`MCPRWatch`) | `CommentsHeard` | run sets the tier to full (hub.go:1188-1190) after the subscriber took the zero tier, and announces only changes: the subscriber that starts a poller hears of no comment while the budget is full | hub.go:378-381, monitor.go:799-802 calls full "the zero value" |
| `MCPacingRestored.cfg` (`MCPacing`) | `NoStarvation` | a restored poller nobody watches never fetches and stays the oldest one due (hub.go:1323) | pace.go:154-155: "so no target starves" |
| `MCDaemonExit.cfg` (`Daemon`) | `ExitSparesOthers` | closing a bound listener unlinks the path, so a starter finds none, asks no record and binds; the exit's os.Remove (daemon.go:286) unlinks its socket | daemon.go:278-280 |
| `MCCoverReplay.cfg` (`CoverWatch`) | `OneFirstPoll` | the baseline of a watch the sub-daemon serves is not exported | README.md:522: "no second first-poll" |
| `MCClientBatch.cfg` (`MCClient`) | `BatchIsWhole` | the updates after a terminal one are dropped by the stream (client.go:290), and its status is the cursor's | monitor.go:683-685, update.go:60-63 |
| `MCClientDeadline.cfg` (`MCClient`) | `DeadlineIsSaid` | the server's own timeout (cmd/daemon.go:717-740) may end the stream first, and the process then ends as if the watch had | monitor.go:727-730, update.go:108-112 |
| `MCCIRuleset.cfg` (`MCCIWatch`) | `GreenKnowsRequired` | a poll takes over a ruleset that could not be read as one that requires nothing | hub.go:1176-1180, gh.go:223-225 |
| `MCCIFingerprint.cfg` (`MCCIWatch`) | `FingerprintTells` | the fingerprint has no completion times, by which Diff picks the newest run: a page that is cut off may move on to a run that ended like the one before it, but later than another suite's | monitor.go:344-346: "Two snapshots with equal fingerprints cannot produce a Diff event between them" |
| `MCCIAck.cfg` (`MCCIWatch`) | `WholeFingerprintTells` | the fingerprint holds the ids of comments and threads (monitor.go:411-424), and Snapshot drops those with a thumbs-up (864-889, 914-921): one taken back makes an event of an equal fingerprint | monitor.go:344-346, as above |
| `MCCIPages.cfg` (`MCCIWatch`) | `GreenBeyondPages` | the runs of a suite are asked for without their total (tier.go:129), and a red one beyond the page is not missed | civerdict.go:445-448 |
| `MCResidentFuse.cfg` (`Resident`) | `FuseSpares` | a successor inherits the depth of its predecessor's chain of copies (daemon_supervision.go:266); after a few reloads one runs in place and keeps the file busy | reexec.go:79-90 |
| `MCBrokerRun.cfg` (`MCBroker`) | `RunsKeepTheirPace` | with a budget guard, which the daemon always has (cmd/daemon.go:305, 318), the pace is at least the hub's interval and raises a run's wait to it (hub.go:1283-1289) | hub.go:1122-1125: "the daemon's 300s default would report its completion minutes late"; 1263-1267; poll_cadence_test.go:310-335, with no budget |
| `MCBrokerStale.cfg` (`MCBroker`) | `NoStaleWait` | a wait armed under coverage runs to its end after the coverage has lapsed, up to the broker's cap | hub.go:1236-1238: "no stale extended wait survives a lost wake path" |
| `MCBrokerCase.cfg` (`MCBroker`) | `RepoEventWakes` | RefreshRepo compares the event's spelling (hub.go:473) with keys in lower case (228-242) | hub.go:463: "wakes every currently-subscribed poller for owner/repo" |

Met on the way, without a configuration: a recovered broker wakes nobody, so with
`pollWhenBrokerHealthy: false` a change between the wake of the degradation and the
reconnect waits for the next event (hub.go:102-109, README.md:502); onConnect may run after its session
ended (broker.go:217-219 says it "never observes stale health"); `PendingSummaries`
and `currentViewer` unwrap a `data` that the client has removed already; run.go:220-223
asks for a success that diffImpl and DiffRef do not.

## What is not modelled, and the plan

Routing by kind and failover, several sub-daemons and repositories (`CoverWatch` has
one of each, and an instance with two is out of TLC's reach with its liveness); the
repository feed and the job logs of failed runs; deduplication across sources;
socket activation. The budget guard's own state is a table of newest readings; its
answers are choices here. Left out for good: the wording of notices, rendering,
logging, file formats, the parsing of flags and targets.

What would say more from here: two watches of one process, which share its reader and
its deadline; two sub-daemons that cover one repository; and `TurnComes` with
restored pollers that are all watched again.
