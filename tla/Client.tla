------------------------------- MODULE Client -------------------------------
(***************************************************************************)
(* One watch from end to end: a target on GitHub, the daemon's hub that    *)
(* polls it, the stream over the socket, and the gh monitor process that   *)
(* prints what arrives (cmd/monitor.go, backend/remote, internal/cursor).  *)
(* The daemon may crash or hand its socket to a successor, the stream then *)
(* breaks and the client reconnects or starts a daemon; the process may be *)
(* killed, run into its deadline or lose its reader, and a named instance  *)
(* starts again from its cursor file.                                      *)
(*                                                                         *)
(* A change of the target is a number: a comment, a new item or a state.   *)
(* How the hub shares a poller is in Hub, how a daemon comes to own the    *)
(* socket in Daemon; here the daemon is on or off and polls at any time.   *)
(***************************************************************************)
EXTENDS Snapshots

CONSTANTS
  Kinds,                \* the kinds of target, of {"issue", "run", "ref", "pr"}
  Invocations,          \* command lines: [named, once, seeded, timeout, until, events]
  AnyEvent,             \* the keyword of --until for an event of any type
  ReviveAfter, ReviveEvery,  \* reviveAfterAttempts, reviveEvery
  OutCap,               \* the updates that a channel of the stream holds
  MaxItems,             \* bound: the numbered changes of the target
  MaxCrashes, MaxHandoffs, MaxFailures, MaxStarts  \* bounds: faults and starts

EventTypes == {"first-poll", "issue-closed", "issue-new-comment", "new-general-comments",
               "new-commit", "closed", "run-queued", "run-in-progress", "run-completed"}
CommandLine ==
  [ named : BOOLEAN, once : BOOLEAN, seeded : Nat \cup {Nil}, timeout : BOOLEAN,
    until : SUBSET (EventTypes \cup {AnyEvent}), events : SUBSET EventTypes ]

ASSUME ClientAssumption ==
  /\ Kinds \subseteq {"issue", "run", "ref", "pr"}
  /\ Invocations \subseteq CommandLine
  /\ AnyEvent \notin EventTypes
  /\ {ReviveAfter, ReviveEvery, OutCap, MaxItems} \subseteq Nat \ {0}
  /\ {MaxCrashes, MaxHandoffs, MaxFailures, MaxStarts} \subseteq Nat

VARIABLES
  kind,        \* what is watched
  items,       \* GitHub: the numbered changes so far, 1..items
  ended,       \* GitHub: whether the target is closed or completed
  on,          \* whether a daemon serves the socket
  sub,         \* the hub's subscriber for the watch, [base, out, closed], or Nil
  held,        \* the baseline that a successor holds for the watch, or Nil
  exported,    \* the state that a successor was given before the socket, [base], or Nil
  conn,        \* the client's stream: "up", "lost" or "done"
  cut,         \* whether the server's end of the stream is gone
  attempts,    \* failed reconnects in a row
  inbox,       \* the client's update channel
  proc,        \* the process and its command line
  hand,        \* the update it has taken and not written yet, or Nil
  mid,         \* whether the last update it took leaves its batch open
  file,        \* the snapshot in the instance's cursor file, or Nil
  faults,      \* counts of the faults so far
  told,        \* the changes written, or kept back by --events
  before,      \* the changes that were there before the watch
  windows,     \* how changes were lost so far
  again        \* whether the watch was set back, so that it may repeat itself

target == <<kind, items, ended>>
daemon == <<on, sub, held, exported>>
stream == <<conn, cut, attempts>>
process == <<proc, hand, mid, file>>
history == <<told, before, windows, again>>
vars == <<target, daemon, stream, inbox, process, faults, history>>

----------------------------------------------------------------------------
\* The hub's traits of each kind.

NoView == [suites |-> <<>>, total |-> 0, contexts |-> {}]

\* A pull request of which only the conversation and the state change.
PRPayload(state, comments) ==
  [ state |-> state, merged |-> FALSE, mergeable |-> "MERGEABLE", mergeState |-> "CLEAN",
    draft |-> FALSE, author |-> None, oid |-> 1, comments |-> comments, threads |-> {},
    reviews |-> <<>>, view |-> NoView ]
PlainOptions == [ levels |-> defaultAnnotationLevels, checks |-> EveryCheck, ignored |-> {},
                  ruleset |-> FetchRequiredChecks(TRUE, {}), shed |-> {}, cap |-> 1 ]

\* distill: what the target looks like after n changes.
Distilled == [k \in Kinds |-> [n \in 0..MaxItems |-> [end \in BOOLEAN |->
  LET state == IF end THEN "CLOSED" ELSE "OPEN"
      comments == {[id |-> i, author |-> None, acked |-> FALSE] : i \in 1..n}
  IN  CASE k = "run"   -> [ status |-> IF end THEN "completed" ELSE IF n = 0 THEN "queued"
                                       ELSE "in_progress",
                            concl |-> IF end THEN "success" ELSE "" ]
        [] k = "ref"   -> SnapshotRef(n + 1, NoView)
        [] k = "issue" -> SnapshotIssue([state |-> state, comments |-> comments], {})
        [] k = "pr"    -> Snapshot(PRPayload(state, comments), PlainOptions)]]]
Distill(n, end) == Distilled[kind][n][end]

Consume(base, curr) ==
  CASE kind = "run"   -> ConsumeRun(base, curr)
    [] kind = "ref"   -> ConsumeRef(base, curr)
    [] kind = "issue" -> ConsumeIssue(base, curr)
    [] kind = "pr"    -> ConsumePR(base, curr, FALSE)

\* Mutant: the target as it is now.
MutantSeeded(baseline) == IF kind = "run" THEN Nil ELSE Distill(items, ended)

\* newHandle: the watch's own baseline seeds every consumer but a run's.
Seeded(baseline) == IF kind = "run" THEN Nil ELSE baseline

\* The order of one poll's events, at most one of each type that this target
\* can show.  A first poll tells last of an issue that it found closed;
\* otherwise the state comes before the comments.
OfType(events, type) ==
  LET es == {e \in events : e.type = type} IN IF es = {} THEN <<>> ELSE << CHOOSE e \in es : TRUE >>
InOrder(events) ==
  LET first == Told("first-poll") \in events
      Some(type) == OfType(events, type)
  IN  Some("first-poll") \o (IF first THEN <<>> ELSE Some("issue-closed"))
      \o Some("issue-new-comment") \o Some("new-general-comments")
      \o Some("new-commit") \o Some("closed")
      \o Some("run-queued") \o Some("run-in-progress") \o Some("run-completed")
      \o (IF first THEN Some("issue-closed") ELSE <<>>)

\* Mutant: every update ends its batch.
MutantBatch(events, status) ==
  LET es == InOrder(events)
  IN  [i \in DOMAIN es |-> [type |-> es[i].type, news |-> es[i].news, status |-> status, more |-> FALSE]]

\* Batch: every update but the last of an observation says that more follows.
Batch(events, status) ==
  LET es == InOrder(events)
  IN  [i \in DOMAIN es |-> [ type |-> es[i].type, news |-> es[i].news, status |-> status,
                             more |-> i < Len(es) ]]
Notice(type) == [type |-> type, news |-> {}, status |-> Nil, more |-> FALSE]

\* The values of the stream: snapshots, updates, subscribers, exported states.
Baselines == {Distilled[k][n][end] : k \in Kinds, n \in 0..MaxItems, end \in BOOLEAN}
NoticeTypes == {"lost", "reconnected", "restarting", "could-not-restart"}
News == Nat \cup {"success"}
Updates == [ type : EventTypes \cup NoticeTypes, news : SUBSET News,
             status : Baselines \cup {Nil}, more : BOOLEAN ]
Subscribers == [base : Baselines \cup {Nil}, out : Seq(Updates), closed : BOOLEAN]
Exports == [base : Baselines \cup {Nil}]
ASSUME NilAssumption ==
  Nil \notin CommandLine /\ Nil \notin Baselines /\ Nil \notin Updates
  /\ Nil \notin Subscribers /\ Nil \notin Exports
IsTerminal(u) == u.type \in TerminalEvents

----------------------------------------------------------------------------
\* For the properties: the changes that a baseline knows of and an update tells.

End == {0}   \* the number of the target's end
Facts(base) ==
  IF base = Nil THEN {}
  ELSE CASE kind = "run"  -> IF base.status = "completed" THEN End ELSE {}
         [] kind = "ref"  -> {base.oid - 1} \ {0}
         [] OTHER         -> base.comments \cup IF base.state = "CLOSED" THEN End ELSE {}
FactsOf(u) ==
  CASE IsTerminal(u)          -> End
    [] u.type = "new-commit" -> Facts(u.status)
    [] OTHER                 -> u.news
Carried(updates) == UNION {FactsOf(u) : u \in Range(updates)}

\* Whether the client has a batch of which the rest is still to come.
OpenBatch == IF inbox = <<>> THEN mid ELSE Last(inbox).more
Torn == IF OpenBatch THEN {"batch"} ELSE {}

----------------------------------------------------------------------------
NoProcess == [ opts |-> Nil, base |-> Nil, on |-> FALSE, met |-> FALSE, failed |-> FALSE,
               cancelled |-> FALSE, late |-> FALSE, timedOut |-> FALSE, degraded |-> FALSE,
               exit |-> Nil ]

Init ==
  /\ kind \in Kinds /\ items = 0 /\ ended = FALSE
  /\ on \in BOOLEAN /\ sub = Nil /\ held = Nil /\ exported = Nil
  /\ conn = "done" /\ cut = FALSE /\ attempts = 0 /\ inbox = <<>>
  /\ proc = NoProcess /\ hand = Nil /\ mid = FALSE /\ file = Nil
  /\ faults = [crashes |-> 0, handoffs |-> 0, failures |-> 0, starts |-> 0]
  /\ told = {} /\ before = {} /\ windows = {} /\ again = FALSE

Once(fault, max) == faults[fault] < max /\ faults' = [faults EXCEPT ![fault] = @ + 1]

\* GitHub.
Changes ==
  /\ ~ended
  /\ \/ items < MaxItems /\ items' = items + 1 /\ UNCHANGED ended
     \/ ended' = TRUE /\ kind # "ref" /\ UNCHANGED items
  /\ UNCHANGED <<kind, daemon, stream, inbox, process, faults, history>>

----------------------------------------------------------------------------
\* The daemon: its hub and its handoff.

NewSub(base) == [base |-> base, out |-> <<>>, closed |-> FALSE]

\* The poller fetches and the subscriber's loop diffs.  A target that has ended
\* closes the subscriber's channel, behind what it holds.
Poll ==
  /\ on /\ sub # Nil /\ ~sub.closed
  /\ \E c \in {Consume(sub.base, Distill(items, ended))} :
     \E out \in {sub.out \o Batch(c.events, c.baseline)} :
       /\ Len(out) <= OutCap /\ <<c.baseline, c.ends>> # <<sub.base, FALSE>>
       /\ sub' = [base |-> c.baseline, out |-> out, closed |-> c.ends]
  /\ UNCHANGED <<target, on, held, exported, stream, inbox, process, faults, history>>

\* serveWatch writes an update and the client's stream reads it.  The client
\* ends its stream at a terminal update, whatever the batch still holds.
Send ==
  /\ conn = "up" /\ ~cut /\ sub # Nil /\ sub.out # <<>> /\ Len(inbox) < OutCap
  /\ LET u == Head(sub.out)
         rest == Tail(sub.out)
     IN  /\ inbox' = Append(inbox, u)
         /\ IF IsTerminal(u)
            THEN /\ conn' = "done" /\ sub' = Nil
                 /\ windows' = windows \cup (IF Carried(rest) # {} THEN {"terminal"} ELSE {})
            ELSE /\ sub' = [sub EXCEPT !.out = rest]
                 /\ UNCHANGED <<conn, windows>>
  /\ UNCHANGED <<target, on, held, exported, cut, attempts, process, faults, told, before, again>>

\* The end-of-stream frame.
Done ==
  /\ conn = "up" /\ ~cut /\ sub # Nil /\ sub.out = <<>> /\ sub.closed
  /\ conn' = "done" /\ sub' = Nil
  /\ UNCHANGED <<target, on, held, exported, cut, attempts, inbox, process, faults, history>>

\* The daemon's own copy of --timeout closes the stream over what it holds.
ServerTimeout ==
  /\ proc.late /\ conn = "up" /\ ~cut /\ sub # Nil
  /\ conn' = "done" /\ sub' = Nil /\ windows' = windows \cup Torn
  /\ UNCHANGED <<target, on, held, exported, cut, attempts, inbox, process, faults, told, before, again>>

Stops == sub' = Nil /\ exported' = Nil
Cuts == cut' = (cut \/ conn = "up") /\ UNCHANGED conn

Crash ==
  /\ on /\ Once("crashes", MaxCrashes)
  /\ on' = FALSE /\ held' = Nil /\ Stops /\ Cuts
  /\ windows' = windows \cup (IF sub # Nil THEN Torn ELSE {})
  /\ UNCHANGED <<target, attempts, inbox, process, told, before, again>>

\* OpHandoff: every baseline travels, and those still held for a reconnect.
ExportState ==
  /\ on /\ exported = Nil /\ Once("handoffs", MaxHandoffs)
  /\ exported' = [base |-> IF sub # Nil THEN sub.base ELSE held]
  /\ UNCHANGED <<target, on, sub, held, stream, inbox, process, history>>

Abandon ==
  /\ exported # Nil /\ exported' = Nil
  /\ UNCHANGED <<target, on, sub, held, stream, inbox, process, faults, history>>

\* OpHandoffFD: the successor serves from the state exported before, and what
\* the old daemon had not written to the stream goes with it.  The end of the
\* daemon's context ends the hub's channel as well as the connection, and when
\* the channel's end comes first the client is told that the watch is over.
PassSocket ==
  /\ exported # Nil /\ held' = exported.base /\ Stops
  /\ \/ Cuts
     \/ sub # Nil /\ conn = "up" /\ ~cut /\ conn' = "done" /\ UNCHANGED cut
  /\ windows' = windows
       \cup (IF sub # Nil /\ Carried(sub.out) \cap Facts(exported.base) # {} THEN {"handoff"} ELSE {})
       \cup (IF sub # Nil THEN Torn ELSE {})
  /\ again' = (again \/ (sub # Nil /\ sub.base # exported.base))
  /\ UNCHANGED <<target, on, attempts, inbox, process, faults, told, before>>

\* resumeTTL.
Expire ==
  /\ held # Nil /\ conn = "lost" /\ held' = Nil
  /\ UNCHANGED <<target, on, sub, exported, stream, inbox, process, faults, history>>

----------------------------------------------------------------------------
\* The client's stream (pumpWatch).

shouldRevive(n) == n >= ReviveAfter /\ (n - ReviveAfter) % ReviveEvery = 0

Break ==
  /\ conn = "up" /\ cut /\ Len(inbox) < OutCap
  /\ conn' = "lost" /\ attempts' = 0 /\ inbox' = Append(inbox, Notice("lost"))
  /\ UNCHANGED <<target, daemon, cut, process, faults, history>>

SeededReconnect ==
  /\ conn = "lost" /\ on /\ Len(inbox) < OutCap
  /\ sub' = NewSub(Seeded(proc.base))
  /\ held' = Nil /\ again' = (again \/ held = Nil)
  /\ conn' = "up" /\ cut' = FALSE /\ attempts' = 0
  /\ inbox' = Append(inbox, Notice("reconnected"))
  /\ UNCHANGED <<target, on, exported, process, faults, told, before, windows>>

\* The watch's own baseline is what it started from, so that only a claimed
\* resume entry takes the watch up where it was.
Reconnect ==
  /\ conn = "lost" /\ on /\ Len(inbox) < OutCap
  /\ sub' = NewSub(IF held # Nil THEN held ELSE Seeded(proc.base))
  /\ held' = Nil /\ again' = (again \/ held = Nil)
  /\ conn' = "up" /\ cut' = FALSE /\ attempts' = 0
  /\ inbox' = Append(inbox, Notice("reconnected"))
  /\ UNCHANGED <<target, on, exported, process, faults, told, before, windows>>

\* Mutant: the attempts in a row are not counted.
MutantFails ==
  /\ conn = "lost" /\ ~on /\ Len(inbox) < OutCap
  /\ attempts' = 1
  /\ \/ ~shouldRevive(attempts') /\ UNCHANGED <<on, inbox, faults>>
     \/ /\ shouldRevive(attempts') /\ on' = TRUE /\ UNCHANGED faults
        /\ inbox' = IF attempts' = ReviveAfter THEN Append(inbox, Notice("restarting")) ELSE inbox
     \/ /\ shouldRevive(attempts') /\ Once("failures", MaxFailures) /\ UNCHANGED on
        /\ inbox' = Append(inbox, Notice("could-not-restart"))
  /\ UNCHANGED <<target, sub, held, exported, conn, cut, process, history>>

Fails ==
  /\ conn = "lost" /\ ~on /\ Len(inbox) < OutCap
  /\ attempts' = attempts + 1
  /\ \/ ~shouldRevive(attempts') /\ UNCHANGED <<on, inbox, faults>>
     \/ /\ shouldRevive(attempts') /\ on' = TRUE /\ UNCHANGED faults
        /\ inbox' = IF attempts' = ReviveAfter THEN Append(inbox, Notice("restarting")) ELSE inbox
     \/ /\ shouldRevive(attempts') /\ Once("failures", MaxFailures) /\ UNCHANGED on
        /\ inbox' = Append(inbox, Notice("could-not-restart"))
  /\ UNCHANGED <<target, sub, held, exported, conn, cut, process, history>>

----------------------------------------------------------------------------
\* The process (runMonitor).

Allowed(type) == proc.opts.events = {} \/ type \in proc.opts.events
Fires(u) ==
  \/ u.type \in proc.opts.until
  \/ AnyEvent \in proc.opts.until /\ Allowed(u.type)

\* Whatever ends it, the process leaves the stream and the hub lets it go.
Leaves(p, code, lost) ==
  /\ proc' = [p EXCEPT !.on = FALSE, !.exit = code]
  /\ conn' = "done" /\ cut' = FALSE /\ attempts' = 0 /\ inbox' = <<>>
  /\ sub' = Nil /\ held' = Nil /\ exported' = IF exported = Nil THEN Nil ELSE [base |-> Nil]
  /\ hand' = Nil /\ mid' = FALSE /\ windows' = windows \cup lost

\* Mutant: the deadline comes first.
MutantExitCode(p) ==
  IF p.timedOut THEN IF p.opts.until # {} THEN 2 ELSE 0
  ELSE IF p.opts.until # {} /\ p.met THEN 0
  ELSE IF p.failed THEN 1
  ELSE IF p.opts.until # {} /\ ~p.cancelled THEN 2 ELSE 0

\* A met --until wins over the deadline, and that over a lost reader.
ExitCode(p) ==
  IF p.opts.until # {} /\ p.met THEN 0
  ELSE IF p.timedOut THEN IF p.opts.until # {} THEN 2 ELSE 0
  ELSE IF p.failed THEN 1
  ELSE IF p.opts.until # {} /\ ~p.cancelled THEN 2 ELSE 0

Validate(o) == o.seeded # Nil => kind = "ref" /\ ~o.named

\* --baseline, or what the instance's cursor file holds.
Baseline(o) == IF o.seeded # Nil THEN Distill(o.seeded, FALSE) ELSE file

\* A one-shot read: one fetch compared with the baseline.
ReadOnce(base) ==
  LET c == Consume(Seeded(base), Distill(items, ended)) IN Batch(c.events, c.baseline)

\* A continuous watch attaches to the daemon, or starts one.  A one-shot read
\* uses a daemon only if there is one, and then its stream ends like any other.
attachDaemon(base) ==
  on' = TRUE /\ sub' = NewSub(Seeded(base)) /\ conn' = "up" /\ UNCHANGED <<inbox, windows>>
attachRunningDaemon(base) ==
  LET read == ReadOnce(base)
      first == SelectInSeq(read, IsTerminal)
      some == IF on /\ first # 0 THEN SubSeq(read, 1, first) ELSE read
  IN  /\ inbox' = some /\ conn' = "done" /\ UNCHANGED <<on, sub>>
      /\ windows' = windows \cup (IF Carried(read) = Carried(some) THEN {} ELSE {"terminal"})

Starts(o) ==
  LET base == Baseline(o)
  IN  /\ ~proc.on /\ Once("starts", MaxStarts)
      /\ proc.opts # Nil => o = proc.opts /\ o.named
      /\ Validate(o)
      /\ o.seeded # Nil => o.seeded <= items
      /\ proc' = [NoProcess EXCEPT !.opts = o, !.base = base, !.on = TRUE]
      /\ before' = IF o.seeded # Nil THEN Facts(base) ELSE before
      /\ again' = (again \/ (proc.opts # Nil /\ kind = "run"))
      /\ IF o.once THEN attachRunningDaemon(base) ELSE attachDaemon(base)
      /\ UNCHANGED <<target, held, exported, cut, attempts, hand, mid, file, told>>

\* persistFromUpdate: the status of an update becomes the cursor's snapshot.
\* The file is replaced as a whole, or not at all when that fails.
Snap(u) == IF proc.opts.named /\ u.status # Nil THEN u.status ELSE file
Save(u) ==
  \/ file' = Snap(u) /\ UNCHANGED <<faults, again>>
  \/ /\ proc.opts.named /\ u.status # Nil /\ Once("failures", MaxFailures)
     /\ again' = TRUE /\ UNCHANGED file

\* handleUpdate: the cursor is saved from an update before it is written.
Take ==
  /\ proc.on /\ hand = Nil /\ inbox # <<>>
  /\ \E u \in {Head(inbox)} :
       /\ hand' = u /\ mid' = u.more /\ inbox' = Tail(inbox)
       /\ proc' = [proc EXCEPT !.degraded =
            CASE u.type \in {"lost", "restarting", "could-not-restart"} -> TRUE
              [] u.type = "reconnected" -> FALSE
              [] OTHER -> @]
       /\ Save(u)
  /\ UNCHANGED <<target, daemon, stream, told, before, windows>>

\* The rest of handleUpdate.  A watch whose --until member fired goes on to the
\* end of the batch.  When its reader is gone the write fails and the watch is
\* cancelled, though what is in the channel is still taken.
Show(ok) ==
  LET q == [proc EXCEPT !.met = @ \/ Fires(hand), !.failed = @ \/ ~ok]
  IN  /\ hand # Nil
      /\ IF ok THEN UNCHANGED faults
         ELSE ~proc.failed /\ (Allowed(hand.type) \/ Fires(hand)) /\ Once("failures", MaxFailures)
      /\ told' = IF q.failed THEN told ELSE told \cup FactsOf(hand)
      /\ IF q.met /\ ~hand.more THEN Leaves(q, ExitCode(q), IF ok THEN {} ELSE {"output"})
         ELSE /\ proc' = q /\ hand' = Nil
              /\ IF ok THEN UNCHANGED <<conn, cut, sub, windows>>
                 ELSE conn' = "done" /\ cut' = FALSE /\ sub' = Nil /\ windows' = windows \cup {"output"}
              /\ UNCHANGED <<inbox, mid, attempts, held, exported>>
      /\ UNCHANGED <<target, on, file, before, again>>

EndsWith(p, lost) ==
  /\ proc.on /\ Leaves(p, ExitCode(p), lost)
  /\ UNCHANGED <<target, on, file, faults, told, before, again>>

\* The channel is closed and read to its end.
Finish == conn = "done" /\ inbox = <<>> /\ hand = Nil /\ EndsWith(proc, {})

\* --timeout: the time passes, and then either copy of the deadline may fire.
Deadline ==
  /\ proc.on /\ proc.opts.timeout /\ ~proc.late
  /\ proc' = [proc EXCEPT !.late = TRUE]
  /\ UNCHANGED <<target, daemon, stream, inbox, hand, mid, file, faults, history>>
Timeout ==
  proc.late /\ hand = Nil /\ EndsWith([proc EXCEPT !.timedOut = TRUE], IF mid THEN {"batch"} ELSE {})

\* A signal, or the owner's exit.
Cancel ==
  /\ proc.on /\ conn # "done"
  /\ proc' = [proc EXCEPT !.cancelled = TRUE]
  /\ conn' = "done" /\ cut' = FALSE /\ sub' = Nil
  /\ windows' = windows \cup Torn
  /\ UNCHANGED <<target, on, held, exported, attempts, inbox, hand, mid, file, faults, told, before, again>>

Kill ==
  /\ proc.on /\ Leaves(proc, 137, IF hand # Nil \/ mid THEN {"batch"} ELSE {})
  /\ UNCHANGED <<target, on, file, faults, told, before, again>>

HubSteps == Poll \/ Send \/ Done \/ ServerTimeout
Upgrade == ExportState \/ Abandon \/ PassSocket \/ Expire
StreamSteps == Break \/ Reconnect \/ Fails
ProcessSteps == Take \/ (\E ok \in BOOLEAN : Show(ok)) \/ Finish \/ Timeout
Operator == (\E o \in Invocations : Starts(o)) \/ Deadline \/ Cancel \/ Kill
Next == Changes \/ HubSteps \/ Crash \/ Upgrade \/ StreamSteps \/ ProcessSteps \/ Operator

\* The goroutines of the daemon and of the process run on, and a daemon that is
\* started comes up: while one of these steps can be taken, some are.  What the
\* network, the operator and the clock do is left open.
Runs == Poll \/ Send \/ Done \/ StreamSteps \/ Take \/ (\E ok \in BOOLEAN : Show(ok)) \/ Finish
Fairness == WF_vars(Runs)
Spec == Init /\ [][Next]_vars /\ Fairness

----------------------------------------------------------------------------
\* Properties.

Queued == Carried(inbox) \cup (IF hand = Nil THEN {} ELSE FactsOf(hand))

\* Every change that the hub has moved its baseline past is written, was there
\* before the watch, or is on its way, but through one of four windows: what an
\* upgrade finds unsent in the old daemon ("handoff"), what follows a terminal update
\* in its batch ("terminal"), the rest of a batch that the end of the daemon, of the
\* stream or of the process breaks off ("batch"), and what a lost reader did not take
\* ("output").  Crashes, reconnects and restarts between batches lose nothing.
NothingLost ==
  sub # Nil /\ windows \cap {"handoff", "terminal", "batch", "output"} = {}
    => Facts(sub.base) \subseteq before \cup told \cup Queued \cup Carried(sub.out)

\* The cursor file never gets ahead of what was written, except within a batch
\* that is being written: a restarted instance misses nothing, as long as no
\* end of the process or of the daemon cut a batch in two.
CursorIsTold ==
  windows = {} /\ hand = Nil /\ ~mid => Facts(file) \subseteq before \cup told

\* Nothing is written twice, unless the watch was set back: it reconnected with
\* no resume entry, an upgrade came between a poll and the export, a cursor
\* could not be saved, or a run's watch started again.
NothingTwice ==
  [][hand # Nil /\ hand' = Nil /\ FactsOf(hand) \cap told # {} => again]_vars

\* The exit code says whether the awaited end of the target was written, however
\* the deadline, a lost reader or the stream's end race it. A watch that awaits
\* another event as well may end with 0 on that one.
ExitIsTrue ==
  proc.exit # Nil /\ ~proc.opts.named /\ "issue-closed" \in proc.opts.until /\ kind = "issue" =>
    /\ proc.exit = 0 /\ proc.opts.until = {"issue-closed"} /\ ~proc.cancelled /\ ~proc.failed
         => End \subseteq told
    /\ proc.exit = 2 => told \cap End = {}

\* A comment is written in the end while the watch stays, through crashes and
\* upgrades of the daemon, or one of the windows took it.
CommentsTold ==
  \A n \in 1..MaxItems :
    (proc.on /\ kind = "issue" /\ n <= items) ~> (n \in told \/ ~proc.on \/ windows # {})

\* Violated: an --until watch writes the rest of the batch its member fired in.
BatchIsWhole ==
  proc.exit = 0 /\ proc.met /\ windows \subseteq {"terminal"} => Facts(file) \subseteq before \cup told

\* Violated: a watch that its deadline ended says so.
DeadlineIsSaid ==
  proc.exit \in {0, 2} /\ proc.late /\ ~proc.met /\ ~proc.cancelled /\ told \cap End = {}
    => proc.timedOut
============================================================================
