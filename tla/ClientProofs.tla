---------------------------- MODULE ClientProofs ----------------------------
(***************************************************************************)
(* What a watch tells, for every kind of target, any number of changes,    *)
(* crashes, upgrades, reconnects and starts, and whatever it waits for:    *)
(* nothing is lost but through the windows, nothing is told twice unless   *)
(* the watch was set back, the cursor is never ahead of what was written,  *)
(* and the exit code is true.                                              *)
(*                                                                         *)
(* The invariants speak of the whole way of an update: from the baseline   *)
(* of the hub's subscriber through the queue of the hub and of the stream  *)
(* to the process's hand, its output and its cursor.                       *)
(***************************************************************************)
EXTENDS Client, TLAPS, SequenceTheorems, WellFoundedInduction

----------------------------------------------------------------------------
\* The facts of the model as functions of the kind of target alone.

F(k, base) ==
  IF base = Nil THEN {}
  ELSE CASE k = "run" -> IF base.status = "completed" THEN End ELSE {}
         [] k = "ref" -> {base.oid - 1} \ {0}
         [] OTHER     -> base.comments \cup IF base.state = "CLOSED" THEN End ELSE {}
U(k, u) ==
  CASE IsTerminal(u)         -> End
    [] u.type = "new-commit" -> F(k, u.status)
    [] OTHER                 -> u.news

Streams == Seq(Updates)

\* What the first n updates of q tell.
Tells(k, q, n) == UNION {U(k, q[i]) : i \in 1..n}

\* The changes that a baseline leaves nothing to tell of: of a branch, every
\* commit up to the one it is at.
Known(k, base) == IF k = "ref" /\ base # Nil THEN 1..(base.oid - 1) ELSE F(k, base)

\* The snapshots that the target has shown.
Past == {Distill(n, FALSE) : n \in 0..items}
        \cup IF ended THEN {Distill(n, TRUE) : n \in 0..items} ELSE {}

\* What is on its way to the process, in order.
Queue == inbox \o IF sub = Nil THEN <<>> ELSE sub.out
InHand == IF hand = Nil THEN {} ELSE U(kind, hand)
Reached == before \cup told \cup InHand

----------------------------------------------------------------------------
\* How the parts of the watch go together.

\* With the kind k of target, of which P has been seen.
SnapshotOf(P, x) == x = Nil \/ x \in P
UpdateOf(k, P, u) ==
  /\ u \in Updates /\ SnapshotOf(P, u.status)
  /\ u.status = Nil => U(k, u) = {}
  /\ k = "issue" => (0 \in U(k, u) <=> u.type = "issue-closed")
QueueOf(k, P, q) == q \in Streams /\ \A i \in 1..Len(q) : UpdateOf(k, P, q[i])

\* The stream is up, and the daemon's end of it there, while there is a
\* subscriber; an entry of a successor waits for the process to reconnect.
TargetInv ==
  /\ kind \in Kinds /\ items \in 0..MaxItems /\ ended \in BOOLEAN
  /\ conn \in {"up", "lost", "done"} /\ cut \in BOOLEAN /\ mid \in BOOLEAN
  /\ sub # Nil <=> conn = "up" /\ ~cut
  /\ held # Nil => sub = Nil
ValueInv ==
  /\ SnapshotOf(Past, held) /\ SnapshotOf(Past, file)
  /\ exported # Nil => exported \in Exports /\ SnapshotOf(Past, exported.base)
  /\ QueueOf(kind, Past, inbox)
  /\ sub # Nil => /\ sub \in Subscribers /\ SnapshotOf(Past, sub.base) /\ QueueOf(kind, Past, sub.out)
                  /\ sub.out # <<>> => ~sub.out[Len(sub.out)].more
  /\ hand # Nil => UpdateOf(kind, Past, hand) /\ mid = hand.more

ProcessType ==
  [ opts : Invocations \cup {Nil}, base : Baselines \cup {Nil}, on : BOOLEAN, met : BOOLEAN,
    failed : BOOLEAN, cancelled : BOOLEAN, late : BOOLEAN, timedOut : BOOLEAN,
    degraded : BOOLEAN, exit : {0, 1, 2, 137, Nil} ]

\* A process that is gone left nothing behind but its cursor file.
ProcessInv ==
  /\ proc \in ProcessType /\ SnapshotOf(Past, proc.base)
  /\ ~proc.on => /\ conn = "done" /\ ~cut /\ held = Nil /\ inbox = <<>> /\ hand = Nil /\ ~mid
                 /\ exported # Nil => exported.base = Nil
  /\ proc.on => proc.opts # Nil /\ proc.exit = Nil
  /\ proc.opts = Nil => told = {} /\ before = {} /\ proc.exit = Nil
  /\ proc.opts # Nil /\ proc.opts.seeded # Nil => ~proc.opts.named
  /\ ~(proc.opts # Nil /\ proc.opts.named) => file = Nil
  /\ proc.failed => windows # {}

Shape == TargetInv /\ ValueInv /\ ProcessInv

----------------------------------------------------------------------------
\* Nothing lost.

\* Whether a batch ends with the nth update from now.
Settled(q, n, m) == IF n = 0 THEN ~m \/ q = <<>> ELSE ~q[n].more \/ n = Len(q)

\* Once the batch is told that an update belongs to, so is its status; and the
\* cursor's, once that of the last update taken is.
Ahead(k, q, p, m, f) ==
  \A n \in 0..Len(q) : Settled(q, n, m) =>
    /\ F(k, f) \subseteq p \cup Tells(k, q, n)
    /\ \A i \in 1..n : F(k, q[i].status) \subseteq p \cup Tells(k, q, n)

\* What the hub, or a successor, has moved past is told, in hand or on its way.
OnItsWay(base) == F(kind, base) \subseteq Reached \cup Tells(kind, Queue, Len(Queue))
LossInv ==
  windows = {} =>
    /\ Ahead(kind, Queue, Reached, mid, file)
    /\ sub # Nil => OnItsWay(sub.base)
    /\ conn # "done" => OnItsWay(held) /\ (exported # Nil => OnItsWay(exported.base))
    /\ F(kind, proc.base) \subseteq before \cup told

----------------------------------------------------------------------------
\* Nothing twice.

\* The updates of q tell different changes, none of which is in a.
Fresh(k, q, a) ==
  \A i \in 1..Len(q) : /\ U(k, q[i]) \cap a = {}
                       /\ \A j \in 1..Len(q) : i # j => U(k, q[i]) \cap U(k, q[j]) = {}
\* The status of an update knows of all that was told up to it.
Knows(k, q, a) ==
  \A i \in 1..Len(q) : q[i].status # Nil => a \cup Tells(k, q, i) \subseteq Known(k, q[i].status)

Shown == told \cup InHand
Covers(base) == Shown \cup Tells(kind, Queue, Len(Queue)) \subseteq Known(kind, base)
RepeatInv ==
  ~again =>
    /\ told \cap InHand = {}
    /\ Fresh(kind, Queue, Shown)
    /\ Knows(kind, Queue, Shown)
    /\ sub # Nil => Covers(sub.base)
    /\ held # Nil /\ conn # "done" => Covers(held)
    /\ exported # Nil /\ sub = Nil /\ conn # "done" /\ exported.base # Nil => Covers(exported.base)
    /\ proc.opts # Nil /\ proc.opts.named /\ kind # "run" => Shown \subseteq Known(kind, file)

----------------------------------------------------------------------------
\* The exit code.

\* A watch of its own that waits for the end of an issue, or for that alone.
Awaits(o) == o # Nil /\ ~o.named /\ "issue-closed" \in o.until
Alone(o) == o.until = {"issue-closed"}
ExitInv ==
  kind = "issue" /\ Awaits(proc.opts) =>
    /\ Alone(proc.opts) /\ proc.met => proc.failed \/ 0 \in told
    /\ 0 \in told => proc.met
    /\ ExitIsTrue
----------------------------------------------------------------------------
\* What the snapshots of each kind show.

LEMMA AllComments ==
  ASSUME NEW S
  PROVE  OpenComments({[id |-> i, author |-> None, acked |-> FALSE] : i \in S}, {}) = S
<1> DEFINE C == {[id |-> i, author |-> None, acked |-> FALSE] : i \in S}
<1>1. {d \in C : ~isAcknowledged(d) /\ d.author \notin {}} = C
  BY DEF isAcknowledged
<1>2. \A i \in S : \E c \in C : c.id = i
  <2>1. ASSUME NEW i \in S PROVE [id |-> i, author |-> None, acked |-> FALSE] \in C
    OBVIOUS
  <2>2. QED
    BY <2>1
<1>3. \A c \in C : c.id \in S
  OBVIOUS
<1> HIDE DEF C
<1>4. {c.id : c \in C} = S
  BY <1>2, <1>3
<1>5. QED
  BY <1>1, <1>4 DEF OpenComments, C

LEMMA DistilledIssue ==
  ASSUME "issue" \in Kinds, NEW n \in 0..MaxItems, NEW e \in BOOLEAN
  PROVE  Distilled["issue"][n][e] =
           [state |-> IF e THEN "CLOSED" ELSE "OPEN", comments |-> 1..n]
<1>1. Distilled["issue"][n][e] =
        SnapshotIssue([ state    |-> IF e THEN "CLOSED" ELSE "OPEN",
                        comments |-> {[id |-> i, author |-> None, acked |-> FALSE] : i \in 1..n} ], {})
  BY DEF Distilled
<1>2. QED
  BY <1>1, AllComments DEF SnapshotIssue

LEMMA DistilledRun ==
  ASSUME "run" \in Kinds, NEW n \in 0..MaxItems, NEW e \in BOOLEAN
  PROVE  /\ Distilled["run"][n][e].status =
              IF e THEN "completed" ELSE IF n = 0 THEN "queued" ELSE "in_progress"
         /\ Distilled["run"][n][e].concl = IF e THEN "success" ELSE ""
<1> DEFINE s == IF e THEN "completed" ELSE IF n = 0 THEN "queued" ELSE "in_progress"
           t == IF e THEN "success" ELSE ""
<1>1. Distilled["run"][n][e] = [status |-> s, concl |-> t]
  BY DEF Distilled
<1> HIDE DEF s, t
<1>2. Distilled["run"][n][e].status = s /\ Distilled["run"][n][e].concl = t
  BY <1>1
<1>3. QED
  BY <1>2 DEF s, t

LEMMA DistilledRef ==
  ASSUME "ref" \in Kinds, NEW n \in 0..MaxItems, NEW e \in BOOLEAN
  PROVE  Distilled["ref"][n][e].oid = n + 1
<1>1. Distilled["ref"][n][e] = SnapshotRef(n + 1, NoView)
  BY DEF Distilled
<1>2. SnapshotRef(n + 1, NoView).oid = n + 1
  BY DEF SnapshotRef
<1>3. QED
  BY <1>1, <1>2

LEMMA DistilledPR ==
  ASSUME "pr" \in Kinds, NEW n \in 0..MaxItems, NEW e \in BOOLEAN
  PROVE  /\ Distilled["pr"][n][e].state = IF e THEN "CLOSED" ELSE "OPEN"
         /\ Distilled["pr"][n][e].comments = 1..n
         /\ Distilled["pr"][n][e].merged = FALSE
         /\ Distilled["pr"][n][e].oid = 1
         /\ \A prev : CarryForwardShed(prev, Distilled["pr"][n][e]) = Distilled["pr"][n][e]
<1> DEFINE C == {[id |-> i, author |-> None, acked |-> FALSE] : i \in 1..n}
           pr == PRPayload(IF e THEN "CLOSED" ELSE "OPEN", C)
           d == Distilled["pr"][n][e]
           ci == JudgeCI(pr.view, PlainOptions.levels, PlainOptions.checks,
                         IF PlainOptions.ruleset.error THEN {} ELSE PlainOptions.ruleset.contexts,
                         PlainOptions.cap)
<1>1. d = Snapshot(pr, PlainOptions)
  BY DEF Distilled
<1>2. OpenComments(C, {}) = 1..n
  BY AllComments
<1>3. /\ pr.state = (IF e THEN "CLOSED" ELSE "OPEN") /\ pr.comments = C /\ pr.merged = FALSE
      /\ pr.oid = 1
      /\ PlainOptions.shed = {} /\ PlainOptions.ignored = {}
  BY DEF PRPayload, PlainOptions
<1>4. /\ d.state = pr.state /\ d.comments = OpenComments(pr.comments, PlainOptions.ignored)
      /\ d.merged = pr.merged /\ d.oid = pr.oid /\ d.shed = PlainOptions.shed
  BY <1>1 DEF Snapshot
<1>5. [d EXCEPT !.ci.annotations = d.ci.annotations, !.ci.notesTruncated = d.ci.notesTruncated,
                !.review = d.review, !.threads = d.threads, !.comments = d.comments] = d
  <2>1. [d.ci EXCEPT !.annotations = d.ci.annotations, !.notesTruncated = d.ci.notesTruncated] = d.ci
    <3>1. d.ci = ci
      BY <1>1 DEF Snapshot
    <3>2. [ci EXCEPT !.annotations = ci.annotations, !.notesTruncated = ci.notesTruncated] = ci
      BY DEF JudgeCI
    <3> HIDE DEF d, ci, pr
    <3>3. QED BY <3>1, <3>2
  <2>2. d = [ state |-> d.state, merged |-> d.merged, conflict |-> d.conflict, ci |-> d.ci,
              rulesetError |-> d.rulesetError, threads |-> d.threads, comments |-> d.comments,
              review |-> d.review, oid |-> d.oid, shed |-> d.shed ]
    BY <1>1 DEF Snapshot
  <2> HIDE DEF d, ci, pr
  <2>3. QED BY <2>1, <2>2
<1>6. \A prev : CarryForwardShed(prev, d) = d
  <2> HIDE DEF d, ci, pr
  <2>1. d.shed = {}
    BY <1>3, <1>4
  <2>2. QED BY <1>5, <2>1 DEF CarryForwardShed
<1> HIDE DEF C, pr
<1>7. QED
  BY <1>2, <1>3, <1>4, <1>6

----------------------------------------------------------------------------
\* The batch of one poll.

\* s tells, once, of each type in T that an event of E has.
Lists(s, E, T) ==
  /\ s \in Seq(E)
  /\ \A i \in 1..Len(s) : s[i].type \in T
  /\ \A i, j \in 1..Len(s) : i # j => s[i].type # s[j].type
  /\ \A e \in E : e.type \in T => \E i \in 1..Len(s) : s[i].type = e.type

LEMMA ListsPart ==
  ASSUME NEW E, NEW t
  PROVE  Lists(OfType(E, t), E, {t})
<1> DEFINE es == {e \in E : e.type = t}
<1>1. CASE es = {}
  BY <1>1 DEF OfType, Lists
<1>2. CASE es # {}
  <2>1. PICK x : x = CHOOSE e \in es : TRUE
    OBVIOUS
  <2>2. x \in E /\ x.type = t
    BY <1>2, <2>1
  <2>3. OfType(E, t) = <<x>>
    BY <1>2, <2>1 DEF OfType
  <2>4. QED
    BY <2>2, <2>3 DEF Lists
<1>3. QED
  BY <1>1, <1>2

LEMMA ListsConcat ==
  ASSUME NEW E, NEW T, NEW s, NEW t, NEW x, x \notin T, Lists(s, E, T), Lists(t, E, {x})
  PROVE  Lists(s \o t, E, T \cup {x})
<1>1. /\ s \o t \in Seq(E) /\ Len(s \o t) = Len(s) + Len(t) /\ Len(s) \in Nat /\ Len(t) \in Nat
      /\ \A i \in 1..Len(s) : (s \o t)[i] = s[i]
      /\ \A i \in 1..Len(t) : (s \o t)[Len(s) + i] = t[i]
  BY DEF Lists
<1>2. \A i \in 1..Len(s \o t) : i \in 1..Len(s) \/ \E j \in 1..Len(t) : i = Len(s) + j
  <2> SUFFICES ASSUME NEW i \in 1..Len(s \o t), i \notin 1..Len(s)
               PROVE  \E j \in 1..Len(t) : i = Len(s) + j
    OBVIOUS
  <2>1. i - Len(s) \in 1..Len(t) /\ i = Len(s) + (i - Len(s))
    BY <1>1
  <2>2. QED
    BY <2>1
<1>3. \A i \in 1..Len(s) : s[i].type \in T
  BY DEF Lists
<1>4. \A j \in 1..Len(t) : t[j].type = x
  BY DEF Lists
<1>5. \A i, j \in 1..Len(s \o t) : i # j => (s \o t)[i].type # (s \o t)[j].type
  <2> SUFFICES ASSUME NEW i \in 1..Len(s \o t), NEW j \in 1..Len(s \o t), i # j,
                      (s \o t)[i].type = (s \o t)[j].type
               PROVE  FALSE
    OBVIOUS
  <2>1. CASE i \in 1..Len(s) /\ j \in 1..Len(s)
    BY <1>1, <2>1 DEF Lists
  <2>2. CASE \E a, b \in 1..Len(t) : i = Len(s) + a /\ j = Len(s) + b
    <3>1. PICK a \in 1..Len(t), b \in 1..Len(t) : i = Len(s) + a /\ j = Len(s) + b
      BY <2>2
    <3>2. a # b /\ t[a].type = t[b].type
      BY <1>1, <3>1
    <3>3. QED
      BY <3>2 DEF Lists
  <2>3. CASE i \in 1..Len(s) /\ \E b \in 1..Len(t) : j = Len(s) + b
    BY <1>1, <1>3, <1>4, <2>3
  <2>4. CASE j \in 1..Len(s) /\ \E b \in 1..Len(t) : i = Len(s) + b
    BY <1>1, <1>3, <1>4, <2>4
  <2>5. QED
    BY <1>2, <2>1, <2>2, <2>3, <2>4
<1>6. \A e \in E : e.type \in T \cup {x} => \E i \in 1..Len(s \o t) : (s \o t)[i].type = e.type
  <2> SUFFICES ASSUME NEW e \in E, e.type \in T \cup {x}
               PROVE  \E i \in 1..Len(s \o t) : (s \o t)[i].type = e.type
    OBVIOUS
  <2>1. CASE e.type \in T
    <3>1. PICK i \in 1..Len(s) : s[i].type = e.type
      BY <2>1 DEF Lists
    <3>2. i \in 1..Len(s \o t) /\ (s \o t)[i].type = e.type
      BY <1>1, <3>1
    <3>3. QED
      BY <3>2
  <2>2. CASE e.type = x
    <3>1. PICK i \in 1..Len(t) : t[i].type = e.type
      BY <2>2 DEF Lists
    <3>2. Len(s) + i \in 1..Len(s \o t) /\ (s \o t)[Len(s) + i].type = e.type
      BY <1>1, <3>1
    <3>3. QED
      BY <3>2
  <2>3. QED
    BY <2>1, <2>2
<1>7. \A i \in 1..Len(s \o t) : (s \o t)[i].type \in T \cup {x}
  BY <1>1, <1>2, <1>3, <1>4
<1>8. QED
  BY <1>1, <1>5, <1>6, <1>7 DEF Lists

LEMMA InOrderLists ==
  ASSUME NEW E
  PROVE  Lists(InOrder(E), E, EventTypes)
<1> DEFINE P(t) == OfType(E, t)
           first == Told("first-poll") \in E
           m == IF first THEN <<>> ELSE P("issue-closed")
           z == IF first THEN P("issue-closed") ELSE <<>>
           T0 == IF first THEN {"first-poll"} ELSE {"first-poll", "issue-closed"}
           s0 == P("first-poll") \o m
           s1 == s0 \o P("issue-new-comment")
           s2 == s1 \o P("new-general-comments")
           s3 == s2 \o P("new-commit")
           s4 == s3 \o P("closed")
           s5 == s4 \o P("run-queued")
           s6 == s5 \o P("run-in-progress")
           s7 == s6 \o P("run-completed")
<1>1. InOrder(E) = s7 \o z
  BY DEF InOrder
<1>2. \A t : Lists(P(t), E, {t})
  BY ListsPart
<1> HIDE DEF P
<1>3. \A s, T : Lists(s, E, T) => s \o <<>> = s
  BY DEF Lists
<1>4. Lists(s0, E, T0)
  <2>1. CASE first
    <3>1. s0 = P("first-poll")
      BY <1>2, <1>3, <2>1
    <3>2. QED
      BY <1>2, <2>1, <3>1
  <2>2. CASE ~first
    <3>1. Lists(s0, E, {"first-poll"} \cup {"issue-closed"})
      BY <1>2, <2>2, ListsConcat
    <3>2. {"first-poll"} \cup {"issue-closed"} = T0
      BY <2>2
    <3>3. QED
      BY <3>1, <3>2
  <2>3. QED
    BY <2>1, <2>2
<1>5. T0 \subseteq {"first-poll", "issue-closed"}
  OBVIOUS
<1> DEFINE T1 == T0 \cup {"issue-new-comment"}
           T2 == T1 \cup {"new-general-comments"}
           T3 == T2 \cup {"new-commit"}
           T4 == T3 \cup {"closed"}
           T5 == T4 \cup {"run-queued"}
           T6 == T5 \cup {"run-in-progress"}
           T7 == T6 \cup {"run-completed"}
<1> HIDE DEF s0
<1>6. Lists(s1, E, T1)
  <2>1. "issue-new-comment" \notin T0
    BY <1>5
  <2> HIDE DEF T0
  <2>2. QED
    BY <1>2, <1>4, <2>1, ListsConcat
<1> HIDE DEF s1
<1>7. Lists(s2, E, T2)
  <2>1. "new-general-comments" \notin T1
    BY <1>5
  <2> HIDE DEF T1
  <2>2. QED
    BY <1>2, <1>6, <2>1, ListsConcat
<1> HIDE DEF s2
<1>8. Lists(s3, E, T3)
  <2>1. "new-commit" \notin T2
    BY <1>5
  <2> HIDE DEF T2
  <2>2. QED
    BY <1>2, <1>7, <2>1, ListsConcat
<1> HIDE DEF s3
<1>9. Lists(s4, E, T4)
  <2>1. "closed" \notin T3
    BY <1>5
  <2> HIDE DEF T3
  <2>2. QED
    BY <1>2, <1>8, <2>1, ListsConcat
<1> HIDE DEF s4
<1>10. Lists(s5, E, T5)
  <2>1. "run-queued" \notin T4
    BY <1>5
  <2> HIDE DEF T4
  <2>2. QED
    BY <1>2, <1>9, <2>1, ListsConcat
<1> HIDE DEF s5
<1>11. Lists(s6, E, T6)
  <2>1. "run-in-progress" \notin T5
    BY <1>5
  <2> HIDE DEF T5
  <2>2. QED
    BY <1>2, <1>10, <2>1, ListsConcat
<1> HIDE DEF s6
<1>12. Lists(s7, E, T7)
  <2>1. "run-completed" \notin T6
    BY <1>5
  <2> HIDE DEF T6
  <2>2. QED
    BY <1>2, <1>11, <2>1, ListsConcat
<1> HIDE DEF s7
<1>13. CASE first
  <2>1. "issue-closed" \notin T7 /\ T7 \cup {"issue-closed"} = EventTypes
    BY <1>13 DEF EventTypes
  <2>2. Lists(z, E, {"issue-closed"})
    BY <1>2, <1>13
  <2> HIDE DEF T7, z
  <2>3. Lists(s7 \o z, E, T7 \cup {"issue-closed"})
    BY <1>12, <2>1, <2>2, ListsConcat
  <2>4. QED
    BY <1>1, <2>1, <2>3
<1>14. CASE ~first
  <2>1. T7 = EventTypes
    BY <1>14 DEF EventTypes
  <2>2. z = <<>>
    BY <1>14
  <2> HIDE DEF T7, z
  <2>3. QED
    BY <1>1, <1>3, <1>12, <2>1, <2>2
<1>15. QED
  BY <1>13, <1>14

\* A batch tells what its events tell, each of them once.
Says(k, e, status) == U(k, [type |-> e.type, news |-> e.news, status |-> status, more |-> FALSE])

\* What the consumer of a kind must make of two snapshots for its batch to tell
\* all that is new, once, and nothing that the baseline knows.
Tellable(k, base, now, c) ==
  /\ c.baseline = now /\ c.ends \in BOOLEAN
  /\ \A e \in c.events : e.type \in EventTypes => e.news \in SUBSET News
  /\ \A d, e \in c.events : d.type = e.type /\ d.type \in EventTypes => d = e
  /\ F(k, now) \subseteq F(k, base) \cup UNION {Says(k, e, now) : e \in {d \in c.events : d.type \in EventTypes}}
  /\ \A e \in c.events : e.type \in EventTypes =>
       Says(k, e, now) \cap Known(k, base) = {} /\ Says(k, e, now) \subseteq Known(k, now)
  /\ \A d, e \in c.events : d.type \in EventTypes /\ e.type \in EventTypes /\ d # e =>
       Says(k, d, now) \cap Says(k, e, now) = {}
  /\ Known(k, base) \subseteq Known(k, now)
  /\ k = "issue" => \A e \in c.events :
       e.type \in EventTypes => (0 \in Says(k, e, now) <=> e.type = "issue-closed")

\* B is the batch of a poll that found now after base.
IsBatch(k, B, base, now) ==
  /\ B \in Streams
  /\ \A i \in 1..Len(B) : B[i].status = now /\ (B[i].more <=> i < Len(B))
  /\ F(k, now) \subseteq F(k, base) \cup Tells(k, B, Len(B))
  /\ Tells(k, B, Len(B)) \cap Known(k, base) = {}
  /\ Tells(k, B, Len(B)) \subseteq Known(k, now)
  /\ Known(k, base) \subseteq Known(k, now)
  /\ \A i, j \in 1..Len(B) : i # j => U(k, B[i]) \cap U(k, B[j]) = {}
  /\ k = "issue" => \A i \in 1..Len(B) : 0 \in U(k, B[i]) <=> B[i].type = "issue-closed"

LEMMA BatchTells ==
  ASSUME NEW k, NEW base, NEW status \in Baselines, NEW c, Tellable(k, base, status, c)
  PROVE  IsBatch(k, Batch(c.events, status), base, status)
<1> DEFINE E == c.events
           B == Batch(E, status)
<1>0. /\ \A e \in E : e.type \in EventTypes => e.news \in SUBSET News
      /\ \A d, e \in E : d.type = e.type /\ d.type \in EventTypes => d = e
      /\ F(k, status) \subseteq F(k, base)
           \cup UNION {Says(k, e, status) : e \in {d \in E : d.type \in EventTypes}}
      /\ \A e \in E : e.type \in EventTypes =>
           Says(k, e, status) \cap Known(k, base) = {} /\ Says(k, e, status) \subseteq Known(k, status)
      /\ \A d, e \in E : d.type \in EventTypes /\ e.type \in EventTypes /\ d # e =>
           Says(k, d, status) \cap Says(k, e, status) = {}
      /\ Known(k, base) \subseteq Known(k, status)
      /\ k = "issue" => \A e \in E :
           e.type \in EventTypes => (0 \in Says(k, e, status) <=> e.type = "issue-closed")
  BY DEF Tellable
<1> HIDE DEF E
<1> DEFINE s == InOrder(E)
<1>1. Lists(s, E, EventTypes)
  BY InOrderLists
<1>2. s \in Seq(E) /\ Len(s) \in Nat /\ DOMAIN s = 1..Len(s) /\ \A i \in 1..Len(s) : s[i] \in E
  BY <1>1 DEF Lists
<1>3. B = [i \in 1..Len(s) |-> [ type |-> s[i].type, news |-> s[i].news, status |-> status,
                                 more |-> i < Len(s) ]]
  BY <1>2 DEF Batch
<1> HIDE DEF s, B
<1>4. Len(B) = Len(s) /\ DOMAIN B = 1..Len(s)
  BY <1>2, <1>3
<1>5. \A i \in 1..Len(s) : B[i] = [ type |-> s[i].type, news |-> s[i].news, status |-> status,
                                    more |-> i < Len(s) ]
  BY <1>3
<1>6. \A i \in 1..Len(s) :
        /\ B[i] \in Updates
        /\ B[i].status = status /\ B[i].type = s[i].type /\ B[i].news = s[i].news
        /\ (B[i].more <=> i < Len(s))
  <2> TAKE i \in 1..Len(s)
  <2> DEFINE m == i < Len(s)
  <2>1. m \in BOOLEAN
    OBVIOUS
  <2>2. B[i] = [type |-> s[i].type, news |-> s[i].news, status |-> status, more |-> m]
    BY <1>5
  <2>3. s[i].type \in EventTypes /\ s[i].news \in SUBSET News
    BY <1>0, <1>1, <1>2 DEF Lists
  <2> HIDE DEF m
  <2>4. /\ B[i] \in Updates
        /\ B[i].status = status /\ B[i].type = s[i].type /\ B[i].news = s[i].news
    BY <2>1, <2>2, <2>3 DEF Updates
  <2>5. B[i].more = m
    BY <2>2
  <2>6. QED
    BY <2>4, <2>5 DEF m
<1>7. B \in Seq(Updates)
  BY <1>2, <1>3, <1>4, <1>6
<1>8. \A i \in 1..Len(s) : U(k, B[i]) = Says(k, s[i], status)
  <2> TAKE i \in 1..Len(s)
  <2> DEFINE r == [type |-> s[i].type, news |-> s[i].news, status |-> status, more |-> FALSE]
  <2>1. r.type = s[i].type /\ r.news = s[i].news /\ r.status = status
    OBVIOUS
  <2> HIDE DEF r
  <2>2. U(k, B[i]) = U(k, r)
    BY <1>6, <2>1 DEF U, IsTerminal
  <2>3. QED
    BY <2>2 DEF Says, r
<1>9. \A i \in 1..Len(s) : s[i].type \in EventTypes
  BY <1>1 DEF Lists
<1>10. \A e \in E : e.type \in EventTypes => \E i \in 1..Len(s) : s[i] = e
  <2> SUFFICES ASSUME NEW e \in E, e.type \in EventTypes PROVE \E i \in 1..Len(s) : s[i] = e
    OBVIOUS
  <2>1. PICK i \in 1..Len(s) : s[i].type = e.type
    BY <1>1 DEF Lists
  <2>2. QED
    BY <1>0, <1>2, <2>1
<1>11. \A i, j \in 1..Len(s) : i # j => s[i] # s[j]
  BY <1>1 DEF Lists
<1> HIDE DEF EventTypes
<1>12. \A i, j \in 1..Len(s) : i # j => U(k, B[i]) \cap U(k, B[j]) = {}
  BY <1>0, <1>2, <1>8, <1>9, <1>11
<1>13. Tells(k, B, Len(B)) = UNION {Says(k, s[i], status) : i \in 1..Len(s)}
  BY <1>4, <1>8 DEF Tells
<1>14. /\ Tells(k, B, Len(B)) \cap Known(k, base) = {}
       /\ Tells(k, B, Len(B)) \subseteq Known(k, status)
  BY <1>0, <1>2, <1>9, <1>13
<1>15. F(k, status) \subseteq F(k, base) \cup Tells(k, B, Len(B))
  <2> SUFFICES ASSUME NEW x \in F(k, status), x \notin F(k, base) PROVE x \in Tells(k, B, Len(B))
    OBVIOUS
  <2>1. PICK e \in E : e.type \in EventTypes /\ x \in Says(k, e, status)
    BY <1>0
  <2>2. PICK i \in 1..Len(s) : s[i] = e
    BY <1>10, <2>1
  <2>3. QED
    BY <1>13, <2>1, <2>2
<1>16. k = "issue" => \A i \in 1..Len(B) : 0 \in U(k, B[i]) <=> B[i].type = "issue-closed"
  BY <1>0, <1>2, <1>4, <1>6, <1>8, <1>9
<1>17. QED
  BY <1>0, <1>4, <1>6, <1>7, <1>12, <1>14, <1>15, <1>16 DEF Streams, IsBatch, B, E

\* What one event tells.
LEMMA SaysOf ==
  ASSUME NEW k, NEW e, NEW status
  PROVE  /\ e.type \in TerminalEvents => Says(k, e, status) = End
         /\ e.type = "new-commit" => Says(k, e, status) = F(k, status)
         /\ e.type \notin TerminalEvents /\ e.type # "new-commit" => Says(k, e, status) = e.news
<1> DEFINE r == [type |-> e.type, news |-> e.news, status |-> status, more |-> FALSE]
<1>1. r.type = e.type /\ r.news = e.news /\ r.status = status
  OBVIOUS
<1>2. "new-commit" \notin TerminalEvents
  BY DEF TerminalEvents
<1> HIDE DEF r
<1>3. QED
  BY <1>1, <1>2 DEF Says, U, IsTerminal, r

\* What a baseline knows of.
LEMMA FactsOfBase ==
  /\ \A k : F(k, Nil) = {} /\ Known(k, Nil) = {}
  /\ \A b : b # Nil => /\ F("run", b) = (IF b.status = "completed" THEN End ELSE {})
                       /\ Known("run", b) = F("run", b)
  /\ \A b : b # Nil => F("ref", b) = {b.oid - 1} \ {0} /\ Known("ref", b) = 1..(b.oid - 1)
  /\ \A b, k : b # Nil /\ k \in {"issue", "pr"} =>
       /\ F(k, b) = b.comments \cup IF b.state = "CLOSED" THEN End ELSE {}
       /\ Known(k, b) = F(k, b)
BY DEF F, Known

LEMMA IssueTells ==
  ASSUME "issue" \in Kinds, NEW n \in 0..MaxItems, NEW e \in BOOLEAN,
         NEW n0 \in 0..n, NEW e0 \in BOOLEAN, e0 => e,
         NEW base, base = Nil \/ base = Distilled["issue"][n0][e0], NilAssumption,
         NEW now, now = Distilled["issue"][n][e]
  PROVE  Tellable("issue", base, now, ConsumeIssue(base, now))
<1> DEFINE c == ConsumeIssue(base, now)
           old == IF base = Nil THEN {} ELSE 1..n0
           news == (1..n) \ old
           first == Told("first-poll")
           end == Told("issue-closed")
           comment == [type |-> "issue-new-comment", news |-> news]
           ends == e /\ (base = Nil \/ ~e0)
<1>0. MaxItems \in Nat /\ n \in Nat /\ n0 \in Nat
  BY ClientAssumption
<1>1. now = [state |-> IF e THEN "CLOSED" ELSE "OPEN", comments |-> 1..n]
  BY DistilledIssue
<1>2. base # Nil => base = [state |-> IF e0 THEN "CLOSED" ELSE "OPEN", comments |-> 1..n0]
  <2>1. n0 \in 0..MaxItems
    BY <1>0
  <2>2. QED
    BY <2>1, DistilledIssue
<1>3. now # Nil
  BY <1>0 DEF NilAssumption, Baselines
<1>4. c.baseline = now /\ c.ends = (now.state = "CLOSED")
  BY DEF ConsumeIssue
<1>5. c.events = (IF base = Nil THEN {first} ELSE {}) \cup (IF ends THEN {end} ELSE {})
                 \cup (IF news = {} THEN {} ELSE {comment})
  <2>1. CASE base = Nil
    BY <1>1, <2>1 DEF ConsumeIssue, DiffIssues, ZeroIssue, ForType
  <2>2. CASE base # Nil
    BY <1>1, <1>2, <2>2 DEF ConsumeIssue, DiffIssues, ZeroIssue, ForType
  <2>3. QED
    BY <2>1, <2>2
<1>6. /\ F("issue", now) = (1..n) \cup (IF e THEN {0} ELSE {})
      /\ F("issue", base) = old \cup (IF base # Nil /\ e0 THEN {0} ELSE {})
  BY <1>1, <1>2, <1>3 DEF F, End
<1>7. /\ Known("issue", now) = F("issue", now)
      /\ Known("issue", base) = F("issue", base)
  BY DEF Known
<1>8. /\ first.type = "first-poll" /\ first.news = {}
      /\ end.type = "issue-closed" /\ end.news = {}
      /\ comment.type = "issue-new-comment" /\ comment.news = news
  BY DEF Told
<1> HIDE DEF c, first, end, comment
<1>9. /\ Says("issue", first, now) = {}
      /\ Says("issue", end, now) = {0}
      /\ Says("issue", comment, now) = news
  BY <1>8, SaysOf DEF TerminalEvents, End
<1>10. news \subseteq 1..n /\ old \subseteq 1..n /\ 0 \notin 1..n /\ news \cap old = {}
  BY <1>0
<1>11. \A x \in c.events : x \in {first, end, comment}
  BY <1>5
<1>12. end \in c.events <=> ends
  BY <1>5, <1>8
<1>13. comment \in c.events <=> news # {}
  BY <1>5, <1>8
<1> HIDE DEF old, news, ends
<1>14. \A x \in c.events : x.news \in SUBSET News
  <2>1. news \subseteq Nat
    BY <1>0, <1>10
  <2>2. QED
    BY <1>8, <1>11, <2>1 DEF News
<1>15. \A d, x \in c.events : d.type = x.type => d = x
  BY <1>8, <1>11
<1>16. F("issue", now) \subseteq F("issue", base)
         \cup UNION {Says("issue", x, now) : x \in {d \in c.events : d.type \in EventTypes}}
  <2>1. SUFFICES ASSUME NEW y \in F("issue", now), y \notin F("issue", base)
                 PROVE  \E x \in c.events : x.type \in EventTypes /\ y \in Says("issue", x, now)
    OBVIOUS
  <2>2. CASE y = 0
    BY <1>6, <1>8, <1>9, <1>10, <1>12, <2>1, <2>2 DEF EventTypes, ends
  <2>3. CASE y \in 1..n
    BY <1>6, <1>8, <1>9, <1>13, <2>1, <2>3 DEF EventTypes, news
  <2>4. QED
    BY <1>6, <2>2, <2>3
<1>17. \A x \in c.events : /\ Says("issue", x, now) \cap Known("issue", base) = {}
                           /\ Says("issue", x, now) \subseteq Known("issue", now)
  <2>1. 0 \notin old /\ 0 \notin news
    BY <1>10
  <2>2. ends => 0 \notin F("issue", base) /\ 0 \in F("issue", now)
    BY <1>6, <2>1 DEF ends
  <2>3. news \cap F("issue", base) = {} /\ news \subseteq F("issue", now)
    BY <1>6, <1>10, <2>1
  <2>4. QED
    BY <1>7, <1>9, <1>11, <1>12, <2>2, <2>3
<1>18. \A d, x \in c.events : d # x => Says("issue", d, now) \cap Says("issue", x, now) = {}
  BY <1>9, <1>10, <1>11
<1>19. Known("issue", base) \subseteq Known("issue", now)
  <2>1. CASE base # Nil /\ e0
    BY <1>6, <1>7, <1>10, <2>1
  <2>2. CASE ~(base # Nil /\ e0)
    BY <1>6, <1>7, <1>10, <2>2
  <2>3. QED
    BY <2>1, <2>2
<1>20. \A x \in c.events : 0 \in Says("issue", x, now) <=> x.type = "issue-closed"
  BY <1>8, <1>9, <1>10, <1>11
<1>21. c.ends \in BOOLEAN
  BY <1>4
<1>22. QED
  BY <1>4, <1>14, <1>15, <1>16, <1>17, <1>18, <1>19, <1>20, <1>21 DEF Tellable, c

LEMMA RunTells ==
  ASSUME "run" \in Kinds, NEW n \in 0..MaxItems, NEW e \in BOOLEAN,
         NEW n0 \in 0..n, NEW e0 \in BOOLEAN, e0 => e,
         NEW base, base = Nil \/ base = Distilled["run"][n0][e0], NilAssumption,
         NEW now, now = Distilled["run"][n][e]
  PROVE  Tellable("run", base, now, ConsumeRun(base, now))
<1> DEFINE c == ConsumeRun(base, now)
           first == Told("first-poll")
           queued == Told("run-queued")
           begun == Told("run-in-progress")
           done == [type |-> "run-completed", news |-> {now.concl}]
           ends == e /\ (base = Nil \/ ~e0)
<1>0. MaxItems \in Nat /\ n \in Nat /\ n0 \in Nat /\ n0 \in 0..MaxItems
  BY ClientAssumption
<1>1. /\ now.status = IF e THEN "completed" ELSE IF n = 0 THEN "queued" ELSE "in_progress"
      /\ e => now.concl = "success"
  BY DistilledRun
<1>2. base # Nil =>
        base.status = IF e0 THEN "completed" ELSE IF n0 = 0 THEN "queued" ELSE "in_progress"
  <2> SUFFICES ASSUME base # Nil
               PROVE  base.status =
                        IF e0 THEN "completed" ELSE IF n0 = 0 THEN "queued" ELSE "in_progress"
    OBVIOUS
  <2>1. base = Distilled["run"][n0][e0]
    OBVIOUS
  <2>2. QED
    BY <1>0, <2>1, DistilledRun
<1>3. now # Nil
  BY <1>0 DEF NilAssumption, Baselines
<1>4. c.baseline = now /\ c.ends = (now.status = "completed")
  BY DEF ConsumeRun
<1>5. /\ c.events \subseteq {first, queued, begun, done}
      /\ ends => done \in c.events
      /\ done \in c.events => ends
  <2>1. /\ first.type = "first-poll" /\ queued.type = "run-queued"
        /\ begun.type = "run-in-progress" /\ done.type = "run-completed"
    BY DEF Told
  <2>2. CASE base = Nil
    <3>1. DiffRun([status |-> "", concl |-> ""], now) =
            IF e THEN {done} ELSE IF n = 0 THEN {queued} ELSE {begun}
      BY <1>1 DEF DiffRun
    <3>2. c.events = DiffRun([status |-> "", concl |-> ""], now) \cup {first}
      BY <2>2 DEF ConsumeRun
    <3> HIDE DEF c, first, queued, begun, done
    <3>3. QED
      BY <2>1, <2>2, <3>1, <3>2 DEF ends
  <2>3. CASE base # Nil
    <3>1. DiffRun(base, now) =
            IF base.status = now.status THEN {}
            ELSE IF e THEN {done} ELSE IF n = 0 THEN {queued} ELSE {begun}
      BY <1>1, <1>2, <2>3 DEF DiffRun
    <3>2. base.status = now.status => ~ends
      BY <1>1, <1>2, <2>3
    <3>3. ~ends /\ e => base.status = now.status
      BY <1>1, <1>2, <2>3
    <3>4. c.events = DiffRun(base, now)
      BY <2>3 DEF ConsumeRun
    <3> HIDE DEF c, first, queued, begun, done
    <3>5. QED
      BY <2>1, <2>3, <3>1, <3>2, <3>3, <3>4 DEF ends
  <2>4. QED
    BY <2>2, <2>3
<1>6. /\ F("run", now) = (IF e THEN End ELSE {})
      /\ F("run", base) = (IF base # Nil /\ e0 THEN End ELSE {})
  BY <1>1, <1>2, <1>3, FactsOfBase
<1>7. /\ Known("run", now) = F("run", now)
      /\ Known("run", base) = F("run", base)
  BY <1>3, FactsOfBase
<1>8. /\ first.type = "first-poll" /\ first.news = {}
      /\ queued.type = "run-queued" /\ queued.news = {}
      /\ begun.type = "run-in-progress" /\ begun.news = {}
      /\ done.type = "run-completed" /\ (e => done.news = {"success"})
  BY <1>1 DEF Told
<1> HIDE DEF c, first, queued, begun, done
<1>9. /\ Says("run", first, now) = {} /\ Says("run", queued, now) = {}
      /\ Says("run", begun, now) = {} /\ Says("run", done, now) = End
  BY <1>8, SaysOf DEF TerminalEvents
<1>10. \A x \in c.events : x.type \in EventTypes => x.news \in SUBSET News
  BY <1>5, <1>8 DEF News, ends
<1>11. \A d, x \in c.events : d.type = x.type => d = x
  BY <1>5, <1>8
<1>12. F("run", now) \subseteq F("run", base)
         \cup UNION {Says("run", x, now) : x \in {d \in c.events : d.type \in EventTypes}}
  <2>1. CASE ends
    <3>1. done \in {d \in c.events : d.type \in EventTypes}
      BY <1>5, <1>8, <2>1 DEF EventTypes
    <3>2. QED
      BY <1>6, <1>9, <3>1
  <2>2. CASE ~ends
    BY <1>6, <2>2 DEF ends
  <2>3. QED
    BY <2>1, <2>2
<1>13. \A x \in c.events : /\ Says("run", x, now) \cap Known("run", base) = {}
                           /\ Says("run", x, now) \subseteq Known("run", now)
  BY <1>5, <1>6, <1>7, <1>9 DEF ends
<1>14. \A d, x \in c.events : d # x => Says("run", d, now) \cap Says("run", x, now) = {}
  BY <1>5, <1>9
<1>15. Known("run", base) \subseteq Known("run", now)
  BY <1>6, <1>7
<1>16. c.ends \in BOOLEAN
  BY <1>4
<1>17. QED
  BY <1>4, <1>10, <1>11, <1>12, <1>13, <1>14, <1>15, <1>16 DEF Tellable, c

LEMMA RefTells ==
  ASSUME "ref" \in Kinds, NEW n \in 0..MaxItems, NEW e \in BOOLEAN,
         NEW n0 \in 0..n, NEW e0 \in BOOLEAN,
         NEW base, base = Nil \/ base = Distilled["ref"][n0][e0], NilAssumption,
         NEW now, now = Distilled["ref"][n][e]
  PROVE  Tellable("ref", base, now, ConsumeRef(base, now))
<1> DEFINE c == ConsumeRef(base, now)
           prev == IF base = Nil THEN ZeroRef ELSE base
           first == Told("first-poll")
           commit == Told("new-commit")
           moved == base = Nil \/ n0 # n
<1>0. MaxItems \in Nat /\ n \in Nat /\ n0 \in Nat /\ n0 \in 0..MaxItems
  BY ClientAssumption
<1>1. now.oid = n + 1
  BY DistilledRef
<1>2. base # Nil => base.oid = n0 + 1
  BY <1>0, DistilledRef
<1>3. now # Nil
  BY <1>0 DEF NilAssumption, Baselines
<1>4. c.baseline = now /\ c.ends = FALSE
  BY DEF ConsumeRef
<1>5. prev.oid = IF base = Nil THEN 0 ELSE n0 + 1
  BY <1>2 DEF ZeroRef
<1>6. /\ first.type = "first-poll" /\ first.news = {}
      /\ commit.type = "new-commit" /\ commit.news = {}
  BY DEF Told
<1>7. /\ \A x \in c.events : x.type \in EventTypes => x = first \/ x = commit
      /\ moved => commit \in c.events
      /\ commit \in c.events => moved
  <2>1. c.events = DiffRef(prev, now) \cup (IF base = Nil THEN {first} ELSE {})
    BY DEF ConsumeRef
  <2> DEFINE red == ForType("new-failing-checks", now.failing \ prev.failing)
             green == IF ~Idle(prev) /\ Idle(now) THEN {Told("ci-all-green")} ELSE {}
             new == IF now.oid \notin {0, prev.oid} THEN {commit} ELSE {}
  <2>2. DiffRef(prev, now) = red \cup green \cup new
    BY DEF DiffRef
  <2>3. \A x \in red : x.type = "new-failing-checks"
    BY DEF ForType
  <2>4. \A x \in green : x.type = "ci-all-green"
    BY DEF Told
  <2>5. new = IF moved THEN {commit} ELSE {}
    BY <1>0, <1>1, <1>5
  <2> HIDE DEF red, green, new, c, first, commit, moved
  <2>6. QED
    BY <1>6, <2>1, <2>2, <2>3, <2>4, <2>5 DEF EventTypes
<1>8. /\ F("ref", now) = {n} \ {0}
      /\ F("ref", base) = (IF base = Nil THEN {} ELSE {n0} \ {0})
  BY <1>0, <1>1, <1>2, <1>3, FactsOfBase
<1>9. /\ Known("ref", now) = 1..n
      /\ Known("ref", base) = (IF base = Nil THEN {} ELSE 1..n0)
  BY <1>0, <1>1, <1>2, <1>3, FactsOfBase
<1> HIDE DEF c, first, commit
<1>10. Says("ref", first, now) = {} /\ Says("ref", commit, now) = {n} \ {0}
  BY <1>6, <1>8, SaysOf DEF TerminalEvents
<1>11. \A x \in c.events : x.type \in EventTypes => x.news \in SUBSET News
  BY <1>6, <1>7
<1>12. \A d, x \in c.events : d.type = x.type /\ d.type \in EventTypes => d = x
  BY <1>6, <1>7
<1>13. F("ref", now) \subseteq F("ref", base)
         \cup UNION {Says("ref", x, now) : x \in {d \in c.events : d.type \in EventTypes}}
  <2>1. CASE moved
    <3>1. commit \in {d \in c.events : d.type \in EventTypes}
      BY <1>6, <1>7, <2>1 DEF EventTypes
    <3>2. QED
      BY <1>8, <1>10, <3>1
  <2>2. CASE ~moved
    BY <1>8, <2>2
  <2>3. QED
    BY <2>1, <2>2
<1>14. \A x \in c.events : x.type \in EventTypes =>
         /\ Says("ref", x, now) \cap Known("ref", base) = {}
         /\ Says("ref", x, now) \subseteq Known("ref", now)
  <2>1. moved => ({n} \ {0}) \cap Known("ref", base) = {}
    BY <1>0, <1>9
  <2>2. {n} \ {0} \subseteq Known("ref", now)
    BY <1>0, <1>9
  <2>3. QED
    BY <1>7, <1>10, <2>1, <2>2
<1>15. \A d, x \in c.events : d.type \in EventTypes /\ x.type \in EventTypes /\ d # x =>
         Says("ref", d, now) \cap Says("ref", x, now) = {}
  BY <1>7, <1>10
<1>16. Known("ref", base) \subseteq Known("ref", now)
  BY <1>0, <1>9
<1>17. QED
  BY <1>4, <1>11, <1>12, <1>13, <1>14, <1>15, <1>16 DEF Tellable, c

\* Of a diff of two pull requests of which only the conversation and the state
\* change, what a batch tells.
Conversation(prev, curr) ==
  ForType("new-general-comments", curr.comments \ prev.comments)
  \cup (IF curr.oid \notin {0, prev.oid} THEN {Told("new-commit")} ELSE {})
  \cup (IF curr.state = "CLOSED" /\ prev.state # "CLOSED" THEN {Told("closed")} ELSE {})

LEMMA DiffTellsPR ==
  ASSUME NEW prev, NEW curr, curr.merged = FALSE
  PROVE  /\ Conversation(prev, curr) \subseteq Diff(prev, curr, FALSE)
         /\ \A x \in Diff(prev, curr, FALSE) :
              x.type \in EventTypes => x \in Conversation(prev, curr)
<1> DEFINE new == ForType("new-general-comments", curr.comments \ prev.comments)
           push == IF curr.oid \notin {0, prev.oid} THEN {Told("new-commit")} ELSE {}
           end == IF curr.state = "CLOSED" /\ prev.state # "CLOSED" THEN {Told("closed")} ELSE {}
           a == IF curr.conflict /\ ~prev.conflict THEN {Told("conflict")} ELSE {}
           b == ForType("new-failing-checks", curr.ci.failing \ prev.ci.failing)
           c == IF ~Clean(prev) /\ Clean(curr) THEN {Told("ci-all-green")} ELSE {}
           d == ForType("new-unresolved-threads", diffNewThreads(prev.threads, curr.threads))
           r == ReviewEvents(prev.review, curr.review)
           f == FilterEvents(prev, curr)
           g == ForType("check-annotations", curr.ci.annotations \ prev.ci.annotations)
<1>1. Diff(prev, curr, FALSE) = a \cup b \cup c \cup d \cup new \cup r \cup push \cup end \cup f \cup g
  BY DEF Diff
<1>2. \A x \in a \cup b \cup c \cup d : x.type \notin EventTypes
  BY DEF ForType, Told, EventTypes
<1>3. \A x \in f \cup g : x.type \notin EventTypes
  BY DEF ForType, FilterEvents, Told, EventTypes
<1>4. \A x \in r : x.type \notin EventTypes
  <2>1. \/ r = {} \/ r = {Told("review-approved")} \/ r = {Told("review-changes-requested")}
        \/ r = {Told("review-dismissed")}
    BY Zenon DEF ReviewEvents
  <2> HIDE DEF r
  <2>2. QED
    BY <2>1 DEF Told, EventTypes
<1> HIDE DEF a, b, c, d, r, f, g, new, push, end
<1>5. /\ new \cup push \cup end \subseteq Diff(prev, curr, FALSE)
      /\ \A x \in Diff(prev, curr, FALSE) : x.type \in EventTypes => x \in new \cup push \cup end
  BY <1>1, <1>2, <1>3, <1>4
<1>6. QED
  BY <1>5 DEF new, push, end, Conversation

LEMMA PRTells ==
  ASSUME "pr" \in Kinds, NEW n \in 0..MaxItems, NEW e \in BOOLEAN,
         NEW n0 \in 0..n, NEW e0 \in BOOLEAN, e0 => e,
         NEW base, base = Nil \/ base = Distilled["pr"][n0][e0], NilAssumption,
         NEW now, now = Distilled["pr"][n][e]
  PROVE  Tellable("pr", base, now, ConsumePR(base, now, FALSE))
<1> DEFINE c == ConsumePR(base, now, FALSE)
           prev == IF base = Nil THEN ZeroPR ELSE base
           found == Diff(prev, now, FALSE)
           old == IF base = Nil THEN {} ELSE 1..n0
           news == (1..n) \ old
           first == Told("first-poll")
           end == Told("closed")
           comment == [type |-> "new-general-comments", news |-> news]
           ends == e /\ (base = Nil \/ ~e0)
           push == IF now.oid \notin {0, prev.oid} THEN {Told("new-commit")} ELSE {}
<1>0. MaxItems \in Nat /\ n \in Nat /\ n0 \in Nat /\ n0 \in 0..MaxItems
  BY ClientAssumption
<1>1. /\ now.state = IF e THEN "CLOSED" ELSE "OPEN"
      /\ now.comments = 1..n /\ now.merged = FALSE /\ now.oid = 1
      /\ CarryForwardShed(base, now) = now
  <2>1. /\ now.state = IF e THEN "CLOSED" ELSE "OPEN"
        /\ now.comments = 1..n /\ now.merged = FALSE /\ now.oid = 1
    BY DistilledPR
  <2>2. CarryForwardShed(base, now) = now
    <3>1. \A p : CarryForwardShed(p, Distilled["pr"][n][e]) = Distilled["pr"][n][e]
      BY DistilledPR
    <3>2. QED
      BY <3>1
  <2>3. QED
    BY <2>1, <2>2
<1>2. base # Nil => /\ base.state = IF e0 THEN "CLOSED" ELSE "OPEN"
                    /\ base.comments = 1..n0 /\ base.oid = 1
  <2> SUFFICES ASSUME base # Nil
               PROVE  /\ base.state = IF e0 THEN "CLOSED" ELSE "OPEN"
                      /\ base.comments = 1..n0 /\ base.oid = 1
    OBVIOUS
  <2>1. base = Distilled["pr"][n0][e0]
    OBVIOUS
  <2>2. QED
    BY <1>0, <2>1, DistilledPR
<1>3. now # Nil
  BY <1>0 DEF NilAssumption, Baselines
<1>4. /\ prev.comments = old
      /\ now.state = "CLOSED" /\ prev.state # "CLOSED" <=> ends
      /\ base # Nil => push = {}
  BY <1>1, <1>2 DEF ZeroPR
<1>5. /\ c.baseline = now /\ c.ends \in BOOLEAN
      /\ base # Nil => c.events = found
      /\ base = Nil => c.events = (found \ {Told("new-commit")}) \cup {first}
                                  \cup (IF ciAllGreen(now) THEN {Told("ci-all-green")} ELSE {})
  BY <1>1 DEF ConsumePR
<1>6. /\ first.type = "first-poll" /\ first.news = {}
      /\ end.type = "closed" /\ end.news = {}
      /\ comment.type = "new-general-comments" /\ comment.news = news
      /\ Told("new-commit").type = "new-commit" /\ Told("ci-all-green").type = "ci-all-green"
  BY DEF Told
<1>7. /\ ForType("new-general-comments", now.comments \ prev.comments) =
           (IF news = {} THEN {} ELSE {comment})
      /\ (IF now.state = "CLOSED" /\ prev.state # "CLOSED" THEN {end} ELSE {}) =
           (IF ends THEN {end} ELSE {})
  BY <1>1, <1>4 DEF ForType
<1>8. /\ (IF news = {} THEN {} ELSE {comment}) \cup push \cup (IF ends THEN {end} ELSE {}) \subseteq found
      /\ \A x \in found : x.type \in EventTypes =>
           x \in (IF news = {} THEN {} ELSE {comment}) \cup push \cup (IF ends THEN {end} ELSE {})
  <2>1. Conversation(prev, now) =
          (IF news = {} THEN {} ELSE {comment}) \cup push \cup (IF ends THEN {end} ELSE {})
    BY <1>7 DEF Conversation
  <2> HIDE DEF prev, news, comment, end, ends, push
  <2>2. QED
    BY <1>1, <2>1, DiffTellsPR
<1>9. push \subseteq {Told("new-commit")}
  OBVIOUS
<1> HIDE DEF c, found, first, end, comment, push, prev
<1>10. /\ \A x \in c.events : x.type \in EventTypes => x \in {first, end, comment}
       /\ end \in c.events <=> ends
       /\ comment \in c.events <=> news # {}
  <2>1. "ci-all-green" \notin EventTypes
    BY DEF EventTypes
  <2>2. CASE base = Nil
    BY <1>5, <1>6, <1>8, <1>9, <2>1, <2>2 DEF EventTypes
  <2>3. CASE base # Nil
    BY <1>4, <1>5, <1>6, <1>8, <1>9, <2>3 DEF EventTypes
  <2>4. QED
    BY <2>2, <2>3
<1>11. /\ F("pr", now) = (1..n) \cup (IF e THEN {0} ELSE {})
       /\ F("pr", base) = old \cup (IF base # Nil /\ e0 THEN {0} ELSE {})
       /\ Known("pr", now) = F("pr", now) /\ Known("pr", base) = F("pr", base)
  <2>1. /\ F("pr", now) = now.comments \cup IF now.state = "CLOSED" THEN End ELSE {}
        /\ Known("pr", now) = F("pr", now)
    BY <1>3, FactsOfBase
  <2>2. F("pr", now) = (1..n) \cup (IF e THEN {0} ELSE {})
    BY <1>1, <2>1 DEF End
  <2>3. CASE base = Nil
    BY <2>1, <2>2, <2>3, FactsOfBase
  <2>4. CASE base # Nil
    <3>1. /\ F("pr", base) = base.comments \cup IF base.state = "CLOSED" THEN End ELSE {}
          /\ Known("pr", base) = F("pr", base)
      BY <2>4, FactsOfBase
    <3>2. QED
      BY <1>2, <2>1, <2>2, <2>4, <3>1 DEF End
  <2>5. QED
    BY <2>3, <2>4
<1>12. /\ Says("pr", first, now) = {}
       /\ Says("pr", end, now) = {0}
       /\ Says("pr", comment, now) = news
  BY <1>6, SaysOf DEF TerminalEvents, End
<1>13. news \subseteq 1..n /\ old \subseteq 1..n /\ 0 \notin 1..n /\ news \cap old = {}
  BY <1>0
<1> HIDE DEF old, news, ends
<1>14. \A x \in c.events : x.type \in EventTypes => x.news \in SUBSET News
  <2>1. news \subseteq Nat
    BY <1>0, <1>13
  <2>2. QED
    BY <1>6, <1>10, <2>1 DEF News
<1>15. \A d, x \in c.events : d.type = x.type /\ d.type \in EventTypes => d = x
  BY <1>6, <1>10
<1>16. F("pr", now) \subseteq F("pr", base)
         \cup UNION {Says("pr", x, now) : x \in {d \in c.events : d.type \in EventTypes}}
  <2>1. SUFFICES ASSUME NEW y \in F("pr", now), y \notin F("pr", base)
                 PROVE  \E x \in c.events : x.type \in EventTypes /\ y \in Says("pr", x, now)
    OBVIOUS
  <2>2. CASE y = 0
    BY <1>6, <1>10, <1>11, <1>12, <1>13, <2>1, <2>2 DEF EventTypes, ends
  <2>3. CASE y \in 1..n
    BY <1>6, <1>10, <1>11, <1>12, <2>1, <2>3 DEF EventTypes, news
  <2>4. QED
    BY <1>11, <2>2, <2>3
<1>17. \A x \in c.events : x.type \in EventTypes =>
         /\ Says("pr", x, now) \cap Known("pr", base) = {}
         /\ Says("pr", x, now) \subseteq Known("pr", now)
  <2>1. 0 \notin old /\ 0 \notin news
    BY <1>13
  <2>2. ends => 0 \notin F("pr", base) /\ 0 \in F("pr", now)
    BY <1>11, <2>1 DEF ends
  <2>3. news \cap F("pr", base) = {} /\ news \subseteq F("pr", now)
    BY <1>11, <1>13, <2>1
  <2>4. QED
    BY <1>10, <1>11, <1>12, <2>2, <2>3
<1>18. \A d, x \in c.events : d.type \in EventTypes /\ x.type \in EventTypes /\ d # x =>
         Says("pr", d, now) \cap Says("pr", x, now) = {}
  BY <1>10, <1>12, <1>13
<1>19. Known("pr", base) \subseteq Known("pr", now)
  <2>1. CASE base # Nil /\ e0
    BY <1>11, <1>13, <2>1
  <2>2. CASE ~(base # Nil /\ e0)
    BY <1>11, <1>13, <2>2
  <2>3. QED
    BY <2>1, <2>2
<1>20. QED
  BY <1>5, <1>14, <1>15, <1>16, <1>17, <1>18, <1>19 DEF Tellable, c

\* A poll, whatever is watched and whatever it was compared with.
LEMMA PollTells ==
  ASSUME TargetInv, NEW base, SnapshotOf(Past, base), NEW now, now = Distill(items, ended)
  PROVE  LET c == Consume(base, now)
         IN  /\ c.baseline = now /\ c.ends \in BOOLEAN
             /\ now \in Baselines /\ now # Nil /\ SnapshotOf(Past, now)
             /\ IsBatch(kind, Batch(c.events, now), base, now)
             /\ QueueOf(kind, Past, Batch(c.events, now))
<1> USE NilAssumption, ClientAssumption
<1>1. kind \in Kinds /\ items \in 0..MaxItems /\ ended \in BOOLEAN /\ MaxItems \in Nat
  BY DEF TargetInv
<1>2. now = Distilled[kind][items][ended]
  BY DEF Distill
<1>3. base = Nil \/ \E n0 \in 0..items, e0 \in BOOLEAN : (e0 => ended) /\ base = Distilled[kind][n0][e0]
  <2> SUFFICES ASSUME base # Nil
               PROVE  \E n0 \in 0..items, e0 \in BOOLEAN : (e0 => ended) /\ base = Distilled[kind][n0][e0]
    OBVIOUS
  <2>1. CASE \E n0 \in 0..items : base = Distill(n0, FALSE)
    BY <2>1 DEF Distill
  <2>2. CASE ended /\ \E n0 \in 0..items : base = Distill(n0, TRUE)
    BY <2>2 DEF Distill
  <2>3. QED
    BY <2>1, <2>2 DEF SnapshotOf, Past
<1>4. now \in Baselines /\ now # Nil /\ SnapshotOf(Past, now)
  <2>1. now \in Baselines
    BY <1>1, <1>2 DEF Baselines
  <2>2. now \in Past
    <3>1. items \in 0..items
      BY <1>1
    <3>2. CASE ended
      <4>1. now = Distill(items, TRUE)
        BY <1>1, <3>2
      <4>2. QED
        BY <3>1, <3>2, <4>1 DEF Past
    <3>3. CASE ~ended
      <4>1. now = Distill(items, FALSE)
        BY <1>1, <3>3
      <4>2. QED
        BY <3>1, <4>1 DEF Past
    <3>4. QED
      BY <3>2, <3>3
  <2>3. QED
    BY <2>1, <2>2 DEF NilAssumption, SnapshotOf
<1> DEFINE c == Consume(base, now)
<1>5. Tellable(kind, base, now, c)
  <2>1. CASE base = Nil
    <3>1. items \in 0..items
      BY <1>1
    <3>2. CASE kind = "issue"
      BY <1>1, <1>2, <2>1, <3>1, <3>2, IssueTells DEF Consume
    <3>3. CASE kind = "run"
      BY <1>1, <1>2, <2>1, <3>1, <3>3, RunTells DEF Consume
    <3>4. CASE kind = "ref"
      BY <1>1, <1>2, <2>1, <3>1, <3>4, RefTells DEF Consume
    <3>5. CASE kind = "pr"
      BY <1>1, <1>2, <2>1, <3>1, <3>5, PRTells DEF Consume
    <3>6. QED
      BY <1>1, <3>2, <3>3, <3>4, <3>5 DEF ClientAssumption
  <2>2. CASE base # Nil
    <3>1. PICK n0 \in 0..items, e0 \in BOOLEAN : (e0 => ended) /\ base = Distilled[kind][n0][e0]
      BY <1>3, <2>2
    <3>2. CASE kind = "issue"
      BY <1>1, <1>2, <3>1, <3>2, IssueTells DEF Consume
    <3>3. CASE kind = "run"
      BY <1>1, <1>2, <3>1, <3>3, RunTells DEF Consume
    <3>4. CASE kind = "ref"
      BY <1>1, <1>2, <3>1, <3>4, RefTells DEF Consume
    <3>5. CASE kind = "pr"
      BY <1>1, <1>2, <3>1, <3>5, PRTells DEF Consume
    <3>6. QED
      BY <1>1, <3>2, <3>3, <3>4, <3>5 DEF ClientAssumption
  <2>3. QED
    BY <2>1, <2>2
<1> HIDE DEF c
<1>6. IsBatch(kind, Batch(c.events, now), base, now)
  BY <1>4, <1>5, BatchTells
<1>7. QueueOf(kind, Past, Batch(c.events, now))
  <2> DEFINE B == Batch(c.events, now)
  <2> HIDE DEF B
  <2>1. B \in Streams
    BY <1>6 DEF IsBatch, B
  <2>2. ASSUME NEW i \in 1..Len(B) PROVE UpdateOf(kind, Past, B[i])
    <3>1. B[i].status = now /\ (kind = "issue" => (0 \in U(kind, B[i]) <=> B[i].type = "issue-closed"))
      BY <1>6 DEF IsBatch, B
    <3>2. B[i] \in Updates
      BY <2>1 DEF Streams
    <3>3. QED
      BY <1>4, <3>1, <3>2 DEF UpdateOf
  <2>3. QED
    BY <2>1, <2>2 DEF QueueOf, B
<1>8. QED
  BY <1>4, <1>5, <1>6, <1>7 DEF Tellable, c

----------------------------------------------------------------------------
\* Queues of updates.

LEMMA CatAt ==
  ASSUME NEW q \in Streams, NEW r \in Streams
  PROVE  /\ q \o r \in Streams /\ Len(q \o r) = Len(q) + Len(r)
         /\ Len(q) \in Nat /\ Len(r) \in Nat
         /\ \A i \in 1..Len(q) : (q \o r)[i] = q[i]
         /\ \A i \in 1..Len(r) : (q \o r)[Len(q) + i] = r[i]
         /\ \A i \in 1..Len(q \o r) : i \in 1..Len(q) \/ i - Len(q) \in 1..Len(r)
         /\ \A i \in 1..Len(q \o r) : i \notin 1..Len(q) => (q \o r)[i] = r[i - Len(q)]
         /\ q = <<>> <=> Len(q) = 0
         /\ q \o r = <<>> <=> Len(q \o r) = 0
BY DEF Streams

LEMMA TailAt ==
  ASSUME NEW q \in Streams, q # <<>>
  PROVE  /\ Tail(q) \in Streams /\ Len(Tail(q)) = Len(q) - 1 /\ Head(q) = q[1]
         /\ Len(q) \in Nat \ {0}
         /\ \A i \in 1..Len(Tail(q)) : i + 1 \in 1..Len(q) /\ Tail(q)[i] = q[i + 1]
         /\ Tail(q) = <<>> <=> Len(Tail(q)) = 0
<1>1. q \in Seq(Updates)
  BY DEF Streams
<1>2. /\ Tail(q) \in Streams /\ Len(Tail(q)) = Len(q) - 1 /\ Head(q) = q[1]
      /\ Len(q) \in Nat \ {0}
      /\ \A i \in 1..Len(Tail(q)) : i + 1 \in 1..Len(q) /\ Tail(q)[i] = q[i + 1]
  BY <1>1 DEF Streams
<1>3. Tail(q) = <<>> <=> Len(Tail(q)) = 0
  BY <1>2, EmptySeq DEF Streams
<1>4. QED
  BY <1>2, <1>3

LEMMA TellsFront ==
  ASSUME NEW k, NEW q \in Streams, NEW r \in Streams, NEW n \in 0..Len(q)
  PROVE  Tells(k, q \o r, n) = Tells(k, q, n)
BY DEF Streams, Tells

LEMMA TellsWhole ==
  ASSUME NEW k, NEW q \in Streams, NEW r \in Streams
  PROVE  Tells(k, q \o r, Len(q \o r)) = Tells(k, q, Len(q)) \cup Tells(k, r, Len(r))
<1> DEFINE s == q \o r
<1>1. /\ Len(s) = Len(q) + Len(r) /\ Len(q) \in Nat /\ Len(r) \in Nat
      /\ \A i \in 1..Len(q) : s[i] = q[i]
      /\ \A i \in 1..Len(r) : s[Len(q) + i] = r[i]
  BY DEF Streams
<1> HIDE DEF s
<1>2. ASSUME NEW x \in Tells(k, s, Len(s))
      PROVE  x \in Tells(k, q, Len(q)) \cup Tells(k, r, Len(r))
  <2>1. PICK i \in 1..Len(s) : x \in U(k, s[i])
    BY <1>2 DEF Tells
  <2>2. CASE i \in 1..Len(q)
    BY <1>1, <2>1, <2>2 DEF Tells
  <2>3. CASE i \notin 1..Len(q)
    <3>1. PICK j \in 1..Len(r) : i = Len(q) + j
      <4>1. i - Len(q) \in 1..Len(r) /\ i = Len(q) + (i - Len(q))
        BY <1>1, <2>3
      <4>2. QED
        BY <4>1
    <3>2. QED
      BY <1>1, <2>1, <3>1 DEF Tells
  <2>4. QED
    BY <2>2, <2>3
<1>3. Tells(k, q, Len(q)) \subseteq Tells(k, s, Len(s))
  BY <1>1 DEF Tells
<1>4. Tells(k, r, Len(r)) \subseteq Tells(k, s, Len(s))
  <2>1. \A i \in 1..Len(r) : Len(q) + i \in 1..Len(s) /\ s[Len(q) + i] = r[i]
    BY <1>1
  <2>2. QED
    BY <2>1 DEF Tells
<1>5. QED
  BY <1>2, <1>3, <1>4 DEF s

LEMMA TellsTail ==
  ASSUME NEW k, NEW q \in Streams, q # <<>>, NEW n \in 0..Len(Tail(q))
  PROVE  Tells(k, q, n + 1) = U(k, Head(q)) \cup Tells(k, Tail(q), n)
<1>1. ASSUME NEW x \in Tells(k, q, n + 1) PROVE x \in U(k, Head(q)) \cup Tells(k, Tail(q), n)
  <2>1. PICK i \in 1..(n + 1) : x \in U(k, q[i])
    BY <1>1 DEF Tells
  <2>2. CASE i = 1
    BY <2>1, <2>2, TailAt
  <2>3. CASE i # 1
    <3>1. i - 1 \in 1..n /\ i - 1 \in 1..Len(Tail(q)) /\ Tail(q)[i - 1] = q[i]
      BY <2>3, TailAt
    <3>2. QED
      BY <2>1, <3>1 DEF Tells
  <2>4. QED
    BY <2>2, <2>3
<1>2. U(k, Head(q)) \subseteq Tells(k, q, n + 1)
  BY TailAt DEF Tells
<1>3. Tells(k, Tail(q), n) \subseteq Tells(k, q, n + 1)
  <2>1. \A i \in 1..n : i + 1 \in 1..(n + 1) /\ Tail(q)[i] = q[i + 1]
    BY TailAt
  <2>2. QED
    BY <2>1 DEF Tells
<1>4. QED
  BY <1>1, <1>2, <1>3

LEMMA TellsMore ==
  ASSUME NEW k, NEW q, NEW m \in Nat, NEW n \in Nat, m <= n
  PROVE  Tells(k, q, m) \subseteq Tells(k, q, n)
BY DEF Tells

LEMMA TellsNone ==
  ASSUME NEW k, NEW q
  PROVE  Tells(k, q, 0) = {}
BY DEF Tells

----------------------------------------------------------------------------
\* What happens to a queue keeps its promises: a batch is put at its end, ...

OneBatch(B, status) ==
  \A i \in 1..Len(B) : B[i].status = status /\ (B[i].more <=> i < Len(B))

LEMMA AheadCat ==
  ASSUME NEW k, NEW q \in Streams, NEW B \in Streams, NEW p, NEW m, NEW f,
         Ahead(k, q, p, m, f), NEW base, NEW now,
         F(k, base) \subseteq p \cup Tells(k, q, Len(q)),
         F(k, now) \subseteq F(k, base) \cup Tells(k, B, Len(B)),
         OneBatch(B, now)
  PROVE  /\ Ahead(k, q \o B, p, m, f)
         /\ F(k, now) \subseteq p \cup Tells(k, q \o B, Len(q \o B))
<1> DEFINE s == q \o B
<1>1. /\ s \in Streams /\ Len(s) = Len(q) + Len(B) /\ Len(q) \in Nat /\ Len(B) \in Nat
      /\ \A i \in 1..Len(q) : s[i] = q[i]
      /\ \A i \in 1..Len(s) : i \in 1..Len(q) \/ i - Len(q) \in 1..Len(B)
      /\ \A i \in 1..Len(s) : i \notin 1..Len(q) => s[i] = B[i - Len(q)]
  BY CatAt
<1>2. /\ \A n \in 0..Len(q) : Tells(k, s, n) = Tells(k, q, n)
      /\ Tells(k, s, Len(s)) = Tells(k, q, Len(q)) \cup Tells(k, B, Len(B))
  <2>1. \A n \in 0..Len(q) : Tells(k, q \o B, n) = Tells(k, q, n)
    BY TellsFront
  <2>2. Tells(k, q \o B, Len(q \o B)) = Tells(k, q, Len(q)) \cup Tells(k, B, Len(B))
    BY TellsWhole
  <2>3. QED
    BY <2>1, <2>2
<1>3. q = <<>> <=> Len(q) = 0
  BY CatAt
<1>4. F(k, now) \subseteq p \cup Tells(k, s, Len(s))
  BY <1>2
<1>5. /\ F(k, f) \subseteq p \cup Tells(k, q, Len(q))
      /\ \A i \in 1..Len(q) : F(k, q[i].status) \subseteq p \cup Tells(k, q, Len(q))
  <2>1. Len(q) \in 0..Len(q) /\ Settled(q, Len(q), m)
    BY <1>1, <1>3 DEF Settled
  <2>2. QED
    BY <2>1 DEF Ahead
<1>6. s = <<>> => q = <<>>
  BY <1>1, <1>3, CatAt
<1> HIDE DEF s
<1>7. ASSUME NEW n \in 0..Len(s), Settled(s, n, m)
      PROVE  /\ F(k, f) \subseteq p \cup Tells(k, s, n)
             /\ \A i \in 1..n : F(k, s[i].status) \subseteq p \cup Tells(k, s, n)
  <2>1. CASE n \in 0..Len(q)
    <3>1. Settled(q, n, m)
      BY <1>1, <1>3, <1>6, <1>7, <2>1 DEF Settled
    <3>2. /\ F(k, f) \subseteq p \cup Tells(k, q, n)
          /\ \A i \in 1..n : F(k, q[i].status) \subseteq p \cup Tells(k, q, n)
      BY <2>1, <3>1 DEF Ahead
    <3>3. QED
      BY <1>1, <1>2, <2>1, <3>2
  <2>2. CASE n \notin 0..Len(q)
    <3>1. n \in 1..Len(s) /\ n - Len(q) \in 1..Len(B) /\ s[n] = B[n - Len(q)] /\ n # 0
      BY <1>1, <2>2
    <3>2. n = Len(s)
      <4>1. CASE n = Len(s)
        BY <4>1
      <4>2. CASE ~B[n - Len(q)].more
        <5> DEFINE j == n - Len(q)
        <5>1. j \in 1..Len(B) /\ ~B[j].more
          BY <3>1, <4>2
        <5>2. ~(j < Len(B))
          BY <5>1 DEF OneBatch
        <5>3. j = Len(B)
          BY <1>1, <5>1, <5>2
        <5>4. QED
          BY <1>1, <5>3
      <4>3. QED
        BY <1>7, <3>1, <4>1, <4>2 DEF Settled
    <3>3. \A i \in 1..n : s[i].status = now \/ (i \in 1..Len(q) /\ s[i].status = q[i].status)
      BY <1>1, <3>2 DEF OneBatch
    <3>4. QED
      BY <1>2, <1>4, <1>5, <3>2, <3>3
  <2>3. QED
    BY <2>1, <2>2
<1>8. QED
  BY <1>4, <1>7 DEF Ahead, s

\* ... the first update is taken from it, ...
LEMMA AheadTail ==
  ASSUME NEW k, NEW q \in Streams, q # <<>>, NEW p, NEW m, NEW f, Ahead(k, q, p, m, f),
         NEW f2, f2 = f \/ f2 = Head(q).status
  PROVE  Ahead(k, Tail(q), p \cup U(k, Head(q)), Head(q).more, f2)
<1> DEFINE t == Tail(q)
<1>1. /\ Len(t) = Len(q) - 1 /\ Head(q) = q[1] /\ Len(q) \in Nat \ {0} /\ t \in Streams
      /\ \A i \in 1..Len(t) : i + 1 \in 1..Len(q) /\ t[i] = q[i + 1]
  BY TailAt
<1>2. \A n \in 0..Len(t) : Tells(k, q, n + 1) = U(k, q[1]) \cup Tells(k, t, n)
  BY <1>1, TellsTail
<1>3. t = <<>> <=> Len(t) = 0
  BY TailAt
<1> HIDE DEF t
<1>4. ASSUME NEW n \in 0..Len(t), Settled(t, n, q[1].more)
      PROVE  /\ F(k, f2) \subseteq (p \cup U(k, q[1])) \cup Tells(k, t, n)
             /\ \A i \in 1..n : F(k, t[i].status) \subseteq (p \cup U(k, q[1])) \cup Tells(k, t, n)
  <2>1. n + 1 \in 0..Len(q) /\ n + 1 # 0
    BY <1>1
  <2>2. Settled(q, n + 1, m)
    <3>1. CASE n = 0
      BY <1>1, <1>3, <1>4, <3>1 DEF Settled
    <3>2. CASE n # 0
      <4>1. ~t[n].more \/ n = Len(t)
        BY <1>4, <3>2 DEF Settled
      <4>2. t[n] = q[n + 1]
        BY <1>1, <3>2
      <4>3. ~q[n + 1].more \/ n + 1 = Len(q)
        BY <1>1, <4>1, <4>2
      <4>4. QED
        BY <2>1, <4>3 DEF Settled
    <3>3. QED
      BY <3>1, <3>2
  <2>3. /\ F(k, f) \subseteq p \cup Tells(k, q, n + 1)
        /\ \A i \in 1..(n + 1) : F(k, q[i].status) \subseteq p \cup Tells(k, q, n + 1)
    BY <2>1, <2>2 DEF Ahead
  <2>4. \A i \in 1..n : i + 1 \in 1..(n + 1) /\ t[i] = q[i + 1]
    BY <1>1
  <2>5. 1 \in 1..(n + 1)
    OBVIOUS
  <2>6. F(k, f2) \subseteq p \cup Tells(k, q, n + 1)
    BY <1>1, <2>3, <2>5
  <2>7. QED
    BY <1>2, <2>3, <2>4, <2>6
<1>5. QED
  BY <1>1, <1>4 DEF Ahead, t

\* ... and its end is dropped, between two batches or when it tells nothing.
Between(q, m) == IF q = <<>> THEN ~m ELSE ~q[Len(q)].more

LEMMA AheadCut ==
  ASSUME NEW k, NEW q \in Streams, NEW r \in Streams, NEW p, NEW m, NEW f,
         Ahead(k, q \o r, p, m, f),
         Between(q, m) \/ Tells(k, r, Len(r)) = {}
  PROVE  Ahead(k, q, p, m, f)
<1> DEFINE s == q \o r
<1>1. /\ s \in Streams /\ Len(s) = Len(q) + Len(r) /\ Len(q) \in Nat /\ Len(r) \in Nat
      /\ \A i \in 1..Len(q) : s[i] = q[i]
  BY CatAt
<1>2. /\ \A n \in 0..Len(q) : Tells(k, s, n) = Tells(k, q, n)
      /\ Tells(k, s, Len(s)) = Tells(k, q, Len(q)) \cup Tells(k, r, Len(r))
  <2>1. \A n \in 0..Len(q) : Tells(k, q \o r, n) = Tells(k, q, n)
    BY TellsFront
  <2>2. Tells(k, q \o r, Len(q \o r)) = Tells(k, q, Len(q)) \cup Tells(k, r, Len(r))
    BY TellsWhole
  <2>3. QED
    BY <2>1, <2>2
<1>3. (q = <<>> <=> Len(q) = 0) /\ (s = <<>> <=> Len(s) = 0)
  BY CatAt
<1>4. Ahead(k, s, p, m, f)
  OBVIOUS
<1> HIDE DEF s
<1>5. ASSUME NEW n \in 0..Len(q), Settled(q, n, m)
      PROVE  /\ F(k, f) \subseteq p \cup Tells(k, q, n)
             /\ \A i \in 1..n : F(k, q[i].status) \subseteq p \cup Tells(k, q, n)
  <2>1. CASE Settled(s, n, m)
    <3>1. n \in 0..Len(s)
      BY <1>1
    <3>2. /\ F(k, f) \subseteq p \cup Tells(k, s, n)
          /\ \A i \in 1..n : F(k, s[i].status) \subseteq p \cup Tells(k, s, n)
      BY <1>4, <2>1, <3>1 DEF Ahead
    <3>3. QED
      BY <1>1, <1>2, <3>2
  <2>2. CASE ~Settled(s, n, m)
    <3>1. n = Len(q) /\ ~Between(q, m)
      BY <1>1, <1>3, <1>5, <2>2 DEF Settled, Between
    <3>2. Tells(k, r, Len(r)) = {}
      BY <3>1
    <3>3. Settled(s, Len(s), m) /\ Len(s) \in 0..Len(s)
      BY <1>1, <1>3 DEF Settled
    <3>4. /\ F(k, f) \subseteq p \cup Tells(k, s, Len(s))
          /\ \A i \in 1..Len(s) : F(k, s[i].status) \subseteq p \cup Tells(k, s, Len(s))
      BY <1>4, <3>3 DEF Ahead
    <3>5. QED
      BY <1>1, <1>2, <3>1, <3>2, <3>4
  <2>3. QED
    BY <2>1, <2>2
<1>6. QED
  BY <1>5 DEF Ahead

\* The updates of B tell different changes.
Apart(k, B) == \A i, j \in 1..Len(B) : i # j => U(k, B[i]) \cap U(k, B[j]) = {}
\* What the updates of B say of the target covers a.
Over(k, B, a) == \A i \in 1..Len(B) : B[i].status # Nil => a \subseteq Known(k, B[i].status)

LEMMA FreshCat ==
  ASSUME NEW k, NEW q \in Streams, NEW B \in Streams, NEW a, Fresh(k, q, a),
         Tells(k, B, Len(B)) \cap (a \cup Tells(k, q, Len(q))) = {}, Apart(k, B)
  PROVE  Fresh(k, q \o B, a)
<1> DEFINE s == q \o B
<1>1. /\ Len(s) = Len(q) + Len(B) /\ Len(q) \in Nat /\ Len(B) \in Nat
      /\ \A i \in 1..Len(q) : s[i] = q[i]
      /\ \A i \in 1..Len(s) : i \notin 1..Len(q) => i - Len(q) \in 1..Len(B) /\ s[i] = B[i - Len(q)]
  BY DEF Streams
<1> HIDE DEF s
<1>2. \A i \in 1..Len(q) : U(k, q[i]) \subseteq Tells(k, q, Len(q))
  BY DEF Tells
<1>3. \A i \in 1..Len(B) : U(k, B[i]) \subseteq Tells(k, B, Len(B))
  BY DEF Tells
<1>4. ASSUME NEW i \in 1..Len(s) PROVE U(k, s[i]) \cap a = {}
  <2>1. CASE i \in 1..Len(q)
    BY <1>1, <2>1 DEF Fresh
  <2>2. CASE i \notin 1..Len(q)
    BY <1>1, <1>3, <2>2
  <2>3. QED
    BY <2>1, <2>2
<1>5. ASSUME NEW i \in 1..Len(s), NEW j \in 1..Len(s), i # j
      PROVE  U(k, s[i]) \cap U(k, s[j]) = {}
  <2>1. CASE i \in 1..Len(q) /\ j \in 1..Len(q)
    BY <1>1, <1>5, <2>1 DEF Fresh
  <2>2. CASE i \in 1..Len(q) /\ j \notin 1..Len(q)
    BY <1>1, <1>2, <1>3, <2>2
  <2>3. CASE i \notin 1..Len(q) /\ j \in 1..Len(q)
    BY <1>1, <1>2, <1>3, <2>3
  <2>4. CASE i \notin 1..Len(q) /\ j \notin 1..Len(q)
    <3>1. /\ i - Len(q) \in 1..Len(B) /\ s[i] = B[i - Len(q)]
          /\ j - Len(q) \in 1..Len(B) /\ s[j] = B[j - Len(q)]
          /\ i - Len(q) # j - Len(q)
      BY <1>1, <1>5, <2>4
    <3>2. QED
      BY <3>1 DEF Apart
  <2>5. QED
    BY <2>1, <2>2, <2>3, <2>4
<1>6. QED
  BY <1>4, <1>5 DEF Fresh, s

LEMMA KnowsCat ==
  ASSUME NEW k, NEW q \in Streams, NEW B \in Streams, NEW a, Knows(k, q, a),
         Over(k, B, a \cup Tells(k, q, Len(q)) \cup Tells(k, B, Len(B)))
  PROVE  Knows(k, q \o B, a)
<1> DEFINE s == q \o B
<1>1. /\ Len(s) = Len(q) + Len(B) /\ Len(q) \in Nat /\ Len(B) \in Nat
      /\ \A i \in 1..Len(q) : s[i] = q[i]
      /\ \A i \in 1..Len(s) : i \notin 1..Len(q) => i - Len(q) \in 1..Len(B) /\ s[i] = B[i - Len(q)]
  BY DEF Streams
<1>2. \A n \in 0..Len(q) : Tells(k, s, n) = Tells(k, q, n)
  BY TellsFront
<1>3. Tells(k, s, Len(s)) = Tells(k, q, Len(q)) \cup Tells(k, B, Len(B))
  BY TellsWhole
<1> HIDE DEF s
<1>4. ASSUME NEW i \in 1..Len(s), s[i].status # Nil
      PROVE  a \cup Tells(k, s, i) \subseteq Known(k, s[i].status)
  <2>1. CASE i \in 1..Len(q)
    <3>1. i \in 0..Len(q) /\ s[i] = q[i]
      BY <1>1, <2>1
    <3>2. a \cup Tells(k, q, i) \subseteq Known(k, q[i].status)
      BY <1>4, <2>1, <3>1 DEF Knows
    <3>3. QED
      BY <1>2, <3>1, <3>2
  <2>2. CASE i \notin 1..Len(q)
    <3>1. i - Len(q) \in 1..Len(B) /\ s[i] = B[i - Len(q)]
      BY <1>1, <2>2
    <3>2. Tells(k, s, i) \subseteq Tells(k, s, Len(s))
      BY <1>1, TellsMore
    <3>3. a \cup Tells(k, s, Len(s)) \subseteq Known(k, B[i - Len(q)].status)
      BY <1>3, <1>4, <3>1 DEF Over
    <3>4. QED
      BY <3>1, <3>2, <3>3
  <2>3. QED
    BY <2>1, <2>2
<1>5. QED
  BY <1>4 DEF Knows, s

LEMMA FreshTail ==
  ASSUME NEW k, NEW q \in Streams, q # <<>>, NEW a, Fresh(k, q, a)
  PROVE  /\ Fresh(k, Tail(q), a \cup U(k, Head(q))) /\ a \cap U(k, Head(q)) = {}
<1> DEFINE t == Tail(q)
<1>1. /\ Head(q) = q[1] /\ 1 \in 1..Len(q)
      /\ \A i \in 1..Len(t) : i + 1 \in 1..Len(q) /\ i + 1 # 1 /\ t[i] = q[i + 1]
  BY TailAt
<1> HIDE DEF t
<1>2. ASSUME NEW i \in 1..Len(t) PROVE U(k, t[i]) \cap (a \cup U(k, q[1])) = {}
  <2>1. t[i] = q[i + 1] /\ i + 1 \in 1..Len(q) /\ i + 1 # 1
    BY <1>1
  <2>2. U(k, q[i + 1]) \cap a = {} /\ U(k, q[i + 1]) \cap U(k, q[1]) = {}
    BY <1>1, <2>1 DEF Fresh
  <2>3. QED
    BY <2>1, <2>2
<1>3. ASSUME NEW i \in 1..Len(t), NEW j \in 1..Len(t), i # j
      PROVE  U(k, t[i]) \cap U(k, t[j]) = {}
  <2>1. /\ i + 1 \in 1..Len(q) /\ t[i] = q[i + 1] /\ j + 1 \in 1..Len(q) /\ t[j] = q[j + 1]
        /\ i + 1 # j + 1
    BY <1>1, <1>3
  <2>2. QED
    BY <2>1 DEF Fresh
<1>4. a \cap U(k, q[1]) = {}
  BY <1>1 DEF Fresh
<1>5. QED
  BY <1>1, <1>2, <1>3, <1>4 DEF Fresh, t

LEMMA KnowsTail ==
  ASSUME NEW k, NEW q \in Streams, q # <<>>, NEW a, Knows(k, q, a)
  PROVE  /\ Knows(k, Tail(q), a \cup U(k, Head(q)))
         /\ Head(q).status # Nil => a \cup U(k, Head(q)) \subseteq Known(k, Head(q).status)
<1> DEFINE t == Tail(q)
<1>1. /\ Head(q) = q[1] /\ 1 \in 1..Len(q) /\ Len(t) \in Nat
      /\ \A i \in 1..Len(t) : i + 1 \in 1..Len(q) /\ i \in 0..Len(t) /\ t[i] = q[i + 1]
  BY TailAt
<1>2. \A n \in 0..Len(t) : Tells(k, q, n + 1) = U(k, Head(q)) \cup Tells(k, t, n)
  BY TellsTail
<1> HIDE DEF t
<1>3. ASSUME NEW i \in 1..Len(t), t[i].status # Nil
      PROVE  (a \cup U(k, Head(q))) \cup Tells(k, t, i) \subseteq Known(k, t[i].status)
  <2>1. t[i] = q[i + 1] /\ i + 1 \in 1..Len(q)
    BY <1>1
  <2>2. a \cup Tells(k, q, i + 1) \subseteq Known(k, q[i + 1].status)
    BY <1>3, <2>1 DEF Knows
  <2>3. Tells(k, q, i + 1) = U(k, Head(q)) \cup Tells(k, t, i)
    BY <1>1, <1>2
  <2>4. QED
    BY <2>1, <2>2, <2>3
<1>4. ASSUME Head(q).status # Nil PROVE a \cup U(k, Head(q)) \subseteq Known(k, Head(q).status)
  <2>1. a \cup Tells(k, q, 1) \subseteq Known(k, q[1].status)
    BY <1>1, <1>4 DEF Knows
  <2>2. U(k, q[1]) \subseteq Tells(k, q, 1)
    BY DEF Tells
  <2>3. QED
    BY <1>1, <2>1, <2>2
<1>5. QED
  BY <1>3, <1>4 DEF Knows, t

LEMMA FreshCut ==
  ASSUME NEW k, NEW q \in Streams, NEW r \in Streams, NEW a,
         Fresh(k, q \o r, a), Knows(k, q \o r, a)
  PROVE  Fresh(k, q, a) /\ Knows(k, q, a)
<1> DEFINE s == q \o r
<1>1. /\ Len(q) \in Nat /\ \A i \in 1..Len(q) : i \in 1..Len(s) /\ s[i] = q[i]
  BY DEF Streams
<1>2. \A n \in 0..Len(q) : Tells(k, s, n) = Tells(k, q, n)
  BY TellsFront
<1>3. Fresh(k, s, a) /\ Knows(k, s, a)
  OBVIOUS
<1> HIDE DEF s
<1>4. Fresh(k, q, a)
  BY <1>1, <1>3 DEF Fresh
<1>5. \A i \in 1..Len(q) : Tells(k, s, i) = Tells(k, q, i)
  BY <1>1, <1>2
<1>6. Knows(k, q, a)
  BY <1>1, <1>3, <1>5 DEF Knows
<1>7. QED
  BY <1>4, <1>6

----------------------------------------------------------------------------
\* The queue of a step.

LEMMA Joins ==
  ASSUME NEW a \in Streams, NEW b \in Streams
  PROVE  /\ a \o b \in Streams /\ a \o <<>> = a /\ <<>> \o a = a /\ <<>> \in Streams
         /\ \A u \in Updates : /\ Append(a, u) = a \o <<u>> /\ <<u>> \in Streams
                               /\ Append(a, u) \in Streams /\ Append(a, u) # <<>>
BY ConcatProperties, ConcatEmptySeq, AppendIsConcat, AppendProperties DEF Streams

LEMMA CatCat ==
  ASSUME NEW a \in Streams, NEW b \in Streams, NEW c \in Streams
  PROVE  (a \o b) \o c = a \o (b \o c)
BY ConcatAssociative DEF Streams

LEMMA Moves ==
  ASSUME NEW a \in Streams, NEW b \in Streams, b # <<>>
  PROVE  Head(b) \in Updates /\ Tail(b) \in Streams /\ Append(a, Head(b)) \o Tail(b) = a \o b
<1>1. Head(b) \in Updates /\ Tail(b) \in Streams /\ b = <<Head(b)>> \o Tail(b)
  <2>1. Len(b) \in Nat \ {0}
    BY EmptySeq DEF Streams
  <2>2. b = SubSeq(b, 1, Len(b)) /\ Tail(b) = SubSeq(b, 2, Len(b)) /\ Head(b) = b[1]
    BY SubSeqFull, TailIsSubSeq DEF Streams
  <2>3. SubSeq(b, 1, Len(b)) = <<b[1]>> \o SubSeq(b, 1 + 1, Len(b))
    BY <2>1, SubSeqRecursiveFirst DEF Streams
  <2>4. QED
    BY <2>2, <2>3, HeadTailProperties DEF Streams
<1>2. Append(a, Head(b)) = a \o <<Head(b)>> /\ <<Head(b)>> \in Streams
  BY <1>1, Joins
<1>3. (a \o <<Head(b)>>) \o Tail(b) = a \o (<<Head(b)>> \o Tail(b))
  BY <1>1, <1>2, ConcatAssociative DEF Streams
<1>4. QED
  BY <1>1, <1>2, <1>3

LEMMA Takes ==
  ASSUME NEW a \in Streams, NEW b \in Streams, a # <<>>
  PROVE  /\ a \o b # <<>> /\ Head(a \o b) = Head(a) /\ Tail(a \o b) = Tail(a) \o b
         /\ Tail(a) \in Streams /\ Head(a) \in Updates
<1>1. Head(a) \in Updates /\ Tail(a) \in Streams /\ a = Append(<<>>, Head(a)) \o Tail(a)
  BY Moves, Joins
<1>2. a = <<Head(a)>> \o Tail(a) /\ <<Head(a)>> \in Streams
  BY <1>1, Joins
<1>3. a \o b = <<Head(a)>> \o (Tail(a) \o b) /\ Tail(a) \o b \in Streams
  BY <1>1, <1>2, Joins, ConcatAssociative DEF Streams
<1>4. a \o b # <<>>
  BY ConcatEqualIffEmpty DEF Streams
<1>5. a \o b = Append(<<>>, Head(a)) \o (Tail(a) \o b)
  BY <1>1, <1>3, Joins
<1>6. Head(a \o b) = Head(a) /\ Tail(a \o b) = Tail(a) \o b
  <2> DEFINE t == Tail(a) \o b
             h == Head(a)
  <2>1. h \in Updates /\ t \in Streams /\ a \o b = <<h>> \o t
    BY <1>1, <1>3
  <2>2. a \o b \in Streams /\ Len(a \o b) = Len(t) + 1 /\ (a \o b)[1] = h
        /\ Len(t) \in Nat /\ \A i \in 1..Len(t) : (a \o b)[i + 1] = t[i]
    <3> HIDE DEF h, t
    <3>1. <<h>> \in Streams /\ Len(<<h>>) = 1 /\ <<h>>[1] = h
      BY <2>1, Joins
    <3>2. QED
      BY <2>1, <3>1, CatAt
  <2> HIDE DEF h, t
  <2>3. Head(a \o b) = h
    BY <2>2
  <2>4. Len(Tail(a \o b)) = Len(t) /\ Tail(a \o b) \in Streams
        /\ \A i \in 1..Len(t) : Tail(a \o b)[i] = t[i]
    <3> DEFINE z == a \o b
    <3>1. z \in Streams /\ z # <<>> /\ Len(z) = Len(t) + 1 /\ Len(t) \in Nat
          /\ \A i \in 1..Len(t) : z[i + 1] = t[i]
      BY <1>4, <2>2
    <3> HIDE DEF z
    <3>2. /\ Tail(z) \in Streams /\ Len(Tail(z)) = Len(z) - 1
          /\ \A i \in 1..Len(Tail(z)) : Tail(z)[i] = z[i + 1]
      BY <3>1, TailAt
    <3>3. QED
      BY <3>1, <3>2 DEF z
  <2>5. Tail(a \o b) = t
    BY <2>1, <2>4, SeqEqual DEF Streams
  <2>6. QED
    BY <2>3, <2>5 DEF h, t
<1>7. QED
  BY <1>1, <1>4, <1>6

LEMMA Single ==
  ASSUME NEW u \in Updates
  PROVE  <<u>> \in Streams /\ Len(<<u>>) = 1 /\ <<u>>[1] = u /\ <<u>> # <<>>
BY DEF Streams

LEMMA Notices ==
  ASSUME NEW k, NEW P, NEW type \in NoticeTypes
  PROVE  /\ Notice(type) \in Updates /\ UpdateOf(k, P, Notice(type)) /\ U(k, Notice(type)) = {}
         /\ Notice(type).status = Nil /\ ~Notice(type).more /\ <<Notice(type)>> \in Streams
         /\ Len(<<Notice(type)>>) = 1 /\ <<Notice(type)>>[1] = Notice(type)
<1>1. /\ Notice(type).type = type /\ Notice(type).news = {} /\ Notice(type).status = Nil
      /\ Notice(type).more = FALSE
  BY DEF Notice
<1>2. type \in EventTypes \cup NoticeTypes /\ type \notin TerminalEvents /\ type # "new-commit"
      /\ type # "issue-closed"
  BY DEF NoticeTypes, TerminalEvents
<1>3. Notice(type) \in Updates
  BY <1>2 DEF Notice, Updates
<1>4. U(k, Notice(type)) = {}
  BY <1>1, <1>2 DEF U, IsTerminal
<1>5. UpdateOf(k, P, Notice(type))
  BY <1>1, <1>2, <1>3, <1>4 DEF UpdateOf, SnapshotOf
<1>6. QED
  BY <1>1, <1>3, <1>4, <1>5, Single

LEMMA QueueCat ==
  ASSUME NEW k, NEW P, NEW q, QueueOf(k, P, q), NEW r, QueueOf(k, P, r)
  PROVE  QueueOf(k, P, q \o r)
<1>1. q \in Streams /\ r \in Streams
  BY DEF QueueOf
<1> DEFINE s == q \o r
<1>2. /\ s \in Streams
      /\ \A i \in 1..Len(q) : s[i] = q[i]
      /\ \A i \in 1..Len(s) : i \in 1..Len(q) \/ i - Len(q) \in 1..Len(r)
      /\ \A i \in 1..Len(s) : i \notin 1..Len(q) => s[i] = r[i - Len(q)]
  BY <1>1, CatAt
<1> HIDE DEF s
<1>3. ASSUME NEW i \in 1..Len(s) PROVE UpdateOf(k, P, s[i])
  <2>1. CASE i \in 1..Len(q)
    BY <1>2, <2>1 DEF QueueOf
  <2>2. CASE i \notin 1..Len(q)
    BY <1>2, <2>2 DEF QueueOf
  <2>3. QED
    BY <2>1, <2>2
<1>4. QED
  BY <1>2, <1>3 DEF QueueOf, s

LEMMA QueueParts ==
  ASSUME NEW k, NEW P, NEW q, QueueOf(k, P, q), q # <<>>
  PROVE  QueueOf(k, P, Tail(q)) /\ UpdateOf(k, P, Head(q))
<1>1. q \in Streams
  BY DEF QueueOf
<1>2. /\ Tail(q) \in Streams /\ Head(q) = q[1] /\ Len(q) \in Nat \ {0}
      /\ \A i \in 1..Len(Tail(q)) : i + 1 \in 1..Len(q) /\ Tail(q)[i] = q[i + 1]
  BY <1>1, TailAt
<1>3. 1 \in 1..Len(q)
  BY <1>2
<1>4. \A i \in 1..Len(Tail(q)) : UpdateOf(k, P, Tail(q)[i])
  BY <1>2 DEF QueueOf
<1>5. QED
  BY <1>2, <1>3, <1>4 DEF QueueOf

LEMMA QueueOne ==
  ASSUME NEW k, NEW P, NEW u, UpdateOf(k, P, u)
  PROVE  /\ QueueOf(k, P, <<u>>) /\ QueueOf(k, P, <<>>)
<1>1. u \in Updates
  BY DEF UpdateOf
<1>2. <<u>> \in Streams /\ Len(<<u>>) = 1 /\ <<u>>[1] = u /\ <<>> \in Streams /\ Len(<<>>) = 0
  BY <1>1, Single, EmptySeq DEF Streams
<1>3. QED
  BY <1>2 DEF QueueOf

LEMMA QueueMore ==
  ASSUME NEW k, NEW P, NEW R, P \subseteq R
  PROVE  /\ \A x : SnapshotOf(P, x) => SnapshotOf(R, x)
         /\ \A u : UpdateOf(k, P, u) => UpdateOf(k, R, u)
         /\ \A q : QueueOf(k, P, q) => QueueOf(k, R, q)
<1>1. \A x : SnapshotOf(P, x) => SnapshotOf(R, x)
  BY DEF SnapshotOf
<1>2. \A u : UpdateOf(k, P, u) => UpdateOf(k, R, u)
  BY <1>1 DEF UpdateOf
<1>3. QED
  BY <1>1, <1>2 DEF QueueOf

----------------------------------------------------------------------------
\* The process record.

LEMMA Exits ==
  ASSUME NEW p \in ProcessType, NEW code \in {0, 1, 2, 137}
  PROVE  LET q == [p EXCEPT !.on = FALSE, !.exit = code]
         IN  /\ q \in ProcessType /\ q.opts = p.opts /\ q.base = p.base /\ q.met = p.met
             /\ q.failed = p.failed /\ q.cancelled = p.cancelled /\ ~q.on /\ q.exit = code
<1> DEFINE r == [p EXCEPT !.on = FALSE]
           q == [p EXCEPT !.on = FALSE, !.exit = code]
<1>1. /\ r \in ProcessType /\ r.opts = p.opts /\ r.base = p.base /\ r.met = p.met
      /\ r.failed = p.failed /\ r.cancelled = p.cancelled /\ ~r.on
  BY DEF ProcessType
<1>2. q = [r EXCEPT !.exit = code]
  OBVIOUS
<1>3. code \in {0, 1, 2, 137, Nil}
  OBVIOUS
<1> HIDE DEF r, q
<1>4. /\ q \in ProcessType /\ q.opts = r.opts /\ q.base = r.base /\ q.met = r.met
      /\ q.failed = r.failed /\ q.cancelled = r.cancelled /\ q.on = r.on /\ q.exit = code
  BY <1>1, <1>2, <1>3 DEF ProcessType
<1>5. QED
  BY <1>1, <1>4 DEF q

LEMMA Codes ==
  ASSUME NEW p
  PROVE  ExitCode(p) \in {0, 1, 2}
BY DEF ExitCode

Becomes(p, met, failed, q) == q = [p EXCEPT !.met = met, !.failed = failed]
LEMMA SetsMet ==
  ASSUME NEW p \in ProcessType, NEW b \in BOOLEAN, NEW c \in BOOLEAN,
         NEW q, Becomes(p, b, c, q)
  PROVE  /\ q \in ProcessType /\ q.opts = p.opts /\ q.base = p.base /\ q.on = p.on
         /\ q.failed = c /\ q.exit = p.exit /\ q.met = b /\ q.cancelled = p.cancelled
<1> DEFINE r == [p EXCEPT !.met = b]
<1>1. /\ r \in ProcessType /\ r.opts = p.opts /\ r.base = p.base /\ r.on = p.on
      /\ r.exit = p.exit /\ r.met = b /\ r.cancelled = p.cancelled
  BY DEF ProcessType
<1>2. q = [r EXCEPT !.failed = c]
  <2>1. DOMAIN p = DOMAIN r
    OBVIOUS
  <2>2. QED
    BY <2>1, Zenon DEF Becomes
<1> HIDE DEF r
<1>3. QED
  BY <1>1, <1>2 DEF ProcessType

LEMMA Sets ==
  ASSUME NEW p \in ProcessType, NEW b \in BOOLEAN
  PROVE  /\ LET q == [p EXCEPT !.degraded = b]
            IN  /\ q \in ProcessType /\ q.opts = p.opts /\ q.base = p.base /\ q.on = p.on
                /\ q.failed = p.failed /\ q.exit = p.exit /\ q.met = p.met
                /\ q.cancelled = p.cancelled
         /\ LET q == [p EXCEPT !.late = b]
            IN  /\ q \in ProcessType /\ q.opts = p.opts /\ q.base = p.base /\ q.on = p.on
                /\ q.failed = p.failed /\ q.exit = p.exit /\ q.met = p.met
                /\ q.cancelled = p.cancelled
         /\ LET q == [p EXCEPT !.timedOut = b]
            IN  /\ q \in ProcessType /\ q.opts = p.opts /\ q.base = p.base /\ q.on = p.on
                /\ q.failed = p.failed /\ q.exit = p.exit /\ q.met = p.met
                /\ q.cancelled = p.cancelled
         /\ LET q == [p EXCEPT !.cancelled = b]
            IN  /\ q \in ProcessType /\ q.opts = p.opts /\ q.base = p.base /\ q.on = p.on
                /\ q.failed = p.failed /\ q.exit = p.exit /\ q.met = p.met
<1>1. \A q : q = [p EXCEPT !.degraded = b] =>
         /\ q \in ProcessType /\ q.opts = p.opts /\ q.base = p.base /\ q.on = p.on
         /\ q.failed = p.failed /\ q.exit = p.exit /\ q.met = p.met /\ q.cancelled = p.cancelled
  BY DEF ProcessType
<1>2. \A q : q = [p EXCEPT !.late = b] =>
         /\ q \in ProcessType /\ q.opts = p.opts /\ q.base = p.base /\ q.on = p.on
         /\ q.failed = p.failed /\ q.exit = p.exit /\ q.met = p.met /\ q.cancelled = p.cancelled
  BY DEF ProcessType
<1>3. \A q : q = [p EXCEPT !.timedOut = b] =>
         /\ q \in ProcessType /\ q.opts = p.opts /\ q.base = p.base /\ q.on = p.on
         /\ q.failed = p.failed /\ q.exit = p.exit /\ q.met = p.met /\ q.cancelled = p.cancelled
  BY DEF ProcessType
<1>4. \A q : q = [p EXCEPT !.cancelled = b] =>
         /\ q \in ProcessType /\ q.opts = p.opts /\ q.base = p.base /\ q.on = p.on
         /\ q.failed = p.failed /\ q.exit = p.exit /\ q.met = p.met
  BY DEF ProcessType
<1> HIDE DEF ProcessType
<1>5. QED
  BY <1>1, <1>2, <1>3, <1>4

----------------------------------------------------------------------------
\* The shape of the watch.

LEMMA SeenStays ==
  ASSUME Shape, Next
  PROVE  kind' = kind /\ Past \subseteq Past' /\ windows \subseteq windows' /\ (again => again')
<1> USE DEF target, daemon, stream, process, history
<1>1. CASE Changes
  <2>1. kind' = kind /\ items \in Nat /\ items' \in Nat /\ items <= items' /\ (ended => ended')
        /\ windows' = windows /\ again' = again
    BY <1>1 DEF Changes, Shape, TargetInv, ClientAssumption
  <2>2. 0..items \subseteq 0..items'
    BY <2>1
  <2>3. Past \subseteq Past'
    BY <2>1, <2>2 DEF Past, Distill
  <2>4. QED
    BY <2>1, <2>3
<1>2. ASSUME ~Changes PROVE UNCHANGED <<kind, items, ended>> /\ windows \subseteq windows' /\ (again => again')
  <2>1. CASE HubSteps
    <3>1. CASE Poll
      BY <3>1 DEF Poll
    <3>2. CASE Send
      BY <3>2 DEF Send
    <3>3. CASE Done \/ ServerTimeout
      BY <3>3 DEF Done, ServerTimeout
    <3>4. QED
      BY <2>1, <3>1, <3>2, <3>3 DEF HubSteps
  <2>2. CASE Crash
    BY <2>2 DEF Crash
  <2>3. CASE Upgrade
    <3>1. CASE ExportState \/ Abandon \/ Expire
      BY <3>1 DEF ExportState, Abandon, Expire
    <3>2. CASE PassSocket
      BY <3>2 DEF PassSocket
    <3>3. QED
      BY <2>3, <3>1, <3>2 DEF Upgrade
  <2>4. CASE StreamSteps
    <3>1. CASE Break
      BY <3>1 DEF Break
    <3>2. CASE Reconnect
      BY <3>2 DEF Reconnect
    <3>3. CASE Fails
      BY <3>3 DEF Fails
    <3>4. QED
      BY <2>4, <3>1, <3>2, <3>3 DEF StreamSteps
  <2>5. CASE Take
    BY <2>5 DEF Take, Save
  <2>6. CASE \E ok \in BOOLEAN : Show(ok)
    BY <2>6 DEF Show, Leaves
  <2>7. CASE Finish \/ Timeout
    BY <2>7 DEF Finish, Timeout, EndsWith, Leaves
  <2>8. CASE \E o \in Invocations : Starts(o)
    BY <2>8 DEF Starts, attachDaemon, attachRunningDaemon
  <2>9. CASE Deadline \/ Cancel \/ Kill
    BY <2>9 DEF Deadline, Cancel, Kill, Leaves
  <2>10. QED
    BY <1>2, <2>1, <2>2, <2>3, <2>4, <2>5, <2>6, <2>7, <2>8, <2>9 DEF Next, ProcessSteps, Operator
<1>3. CASE ~Changes
  <2>1. kind' = kind /\ items' = items /\ ended' = ended
    BY <1>2, <1>3
  <2>2. Past' = Past
    BY <2>1 DEF Past, Distill
  <2>3. QED
    BY <1>2, <1>3, <2>1, <2>2
<1>4. QED
  BY <1>1, <1>3

LEMMA PastKnown ==
  ASSUME TargetInv
  PROVE  Past \subseteq Baselines /\ Nil \notin Past
<1>1. kind \in Kinds /\ items \in 0..MaxItems /\ ended \in BOOLEAN /\ MaxItems \in Nat
  BY ClientAssumption DEF TargetInv
<1>2. 0..items \subseteq 0..MaxItems
  BY <1>1
<1>3. ASSUME NEW n \in 0..items, NEW e \in BOOLEAN PROVE Distill(n, e) \in Baselines
  BY <1>1, <1>2, <1>3 DEF Distill, Baselines
<1>4. Past \subseteq Baselines
  BY <1>3 DEF Past
<1>5. QED
  BY <1>4, NilAssumption

LEMMA Made ==
  ASSUME NEW b \in Baselines \cup {Nil}, NEW q \in Streams, NEW c \in BOOLEAN
  PROVE  LET s == [base |-> b, out |-> q, closed |-> c]
         IN  s \in Subscribers /\ s # Nil /\ s.base = b /\ s.out = q /\ s.closed = c
<1> DEFINE s == [base |-> b, out |-> q, closed |-> c]
<1>1. s \in Subscribers
  BY DEF Subscribers, Streams
<1>2. s.base = b /\ s.out = q /\ s.closed = c
  OBVIOUS
<1> HIDE DEF s
<1>3. s \in Subscribers /\ s # Nil /\ s.base = b /\ s.out = q /\ s.closed = c
  BY <1>1, <1>2, NilAssumption
<1>4. QED
  BY <1>3 DEF s

LEMMA Subscribed ==
  ASSUME NEW s \in Subscribers
  PROVE  s.base \in Baselines \cup {Nil} /\ s.out \in Streams /\ s.closed \in BOOLEAN
BY DEF Subscribers, Streams

LEMMA Seeds ==
  ASSUME NEW P, NEW b, SnapshotOf(P, b)
  PROVE  SnapshotOf(P, Seeded(b))
BY DEF SnapshotOf, Seeded

LEMMA Least ==
  ASSUME NEW S \in SUBSET Nat, S # {}
  PROVE  Min(S) \in S
<1>1. PICK x \in S : \A y \in S : <<y, x>> \notin OpToRel(<, Nat)
  BY NatLessThanWellFounded, WFMin
<1>2. \A y \in S : ~ (y < x)
  BY <1>1 DEF OpToRel
<1>3. \A y \in S : x <= y
  BY <1>2
<1>4. QED
  BY <1>3 DEF Min

LEMMA First ==
  ASSUME NEW q \in Streams
  PROVE  SelectInSeq(q, IsTerminal) \in 0..Len(q)
<1> DEFINE I == {i \in 1..Len(q) : IsTerminal(q[i])}
<1>1. Len(q) \in Nat
  BY EmptySeq DEF Streams
<1>2. CASE I = {}
  BY <1>1, <1>2 DEF SelectInSeq
<1>3. CASE I # {}
  <2>1. I \in SUBSET Nat /\ \A i \in I : i \in 0..Len(q)
    BY <1>1
  <2>2. SelectInSeq(q, IsTerminal) = Min(I)
    BY <1>3 DEF SelectInSeq
  <2> HIDE DEF I
  <2>3. Min(I) \in I
    BY <1>3, <2>1, Least
  <2>4. Min(I) \in 0..Len(q)
    BY <2>1, <2>3
  <2>5. QED
    BY <2>2, <2>4
<1>4. QED
  BY <1>2, <1>3

LEMMA Prefix ==
  ASSUME NEW k, NEW P, NEW q, QueueOf(k, P, q), NEW n \in 0..Len(q)
  PROVE  /\ QueueOf(k, P, SubSeq(q, 1, n)) /\ Len(SubSeq(q, 1, n)) = n
         /\ \A i \in 1..n : SubSeq(q, 1, n)[i] = q[i]
<1>1. q \in Seq(Updates) /\ Len(q) \in Nat /\ n \in Nat
  BY EmptySeq DEF QueueOf, Streams
<1>2. 1..n \subseteq 1..Len(q)
  BY <1>1
<1>3. \A i \in 1..n : q[i] \in Updates
  BY <1>1, <1>2, ElementOfSeq
<1>4. /\ SubSeq(q, 1, n) \in Seq(Updates) /\ Len(SubSeq(q, 1, n)) = n
      /\ \A i \in 1..n : SubSeq(q, 1, n)[i] = q[i]
  BY <1>1, <1>3
<1>5. QED
  BY <1>2, <1>4 DEF QueueOf, Streams

LEMMA ShapeInit ==
  ASSUME Init
  PROVE  Shape
<1>1. NoProcess \in ProcessType
  BY DEF NoProcess, ProcessType
<1>2. TargetInv
  <2>1. kind \in Kinds /\ items \in 0..MaxItems
    BY ClientAssumption DEF Init
  <2>2. QED
    BY <2>1 DEF Init, TargetInv
<1>3. QueueOf(kind, Past, inbox)
  BY EmptySeq DEF Init, QueueOf, Streams
<1>4. QED
  BY <1>1, <1>2, <1>3 DEF Init, Shape, ValueInv, ProcessInv, NoProcess, SnapshotOf

\* Only GitHub and the clock move.
LEMMA ShapeQuiet ==
  ASSUME Shape, Next, Changes \/ Deadline
  PROVE  Shape'
<1> USE DEF target, daemon, stream, process, history
<1>1. Past \subseteq Past' /\ kind' = kind
  BY SeenStays
<1> DEFINE P == Past
           R == Past'
<1>2. /\ \A x : SnapshotOf(P, x) => SnapshotOf(R, x)
      /\ \A u : UpdateOf(kind, P, u) => UpdateOf(kind, R, u)
      /\ \A q : QueueOf(kind, P, q) => QueueOf(kind, R, q)
  BY <1>1, QueueMore
<1>3. UNCHANGED <<daemon, stream, inbox, hand, mid, file, told, before, windows>>
  BY DEF Changes, Deadline
<1>4. TargetInv'
  <2>1. kind \in Kinds /\ items \in 0..MaxItems /\ ended \in BOOLEAN
    BY DEF Shape, TargetInv
  <2>2. items' \in 0..MaxItems /\ ended' \in BOOLEAN
    <3>1. MaxItems \in Nat
      BY ClientAssumption
    <3>2. CASE Changes
      <4>1. \/ items < MaxItems /\ items' = items + 1 /\ ended' = ended
            \/ ended' = TRUE /\ items' = items
        BY <3>2 DEF Changes
      <4>2. CASE items < MaxItems /\ items' = items + 1 /\ ended' = ended
        BY <2>1, <3>1, <4>2
      <4>3. CASE ended' = TRUE /\ items' = items
        BY <2>1, <4>3
      <4>4. QED
        BY <4>1, <4>2, <4>3
    <3>3. CASE Deadline
      BY <2>1, <3>3 DEF Deadline
    <3>4. QED
      BY <3>2, <3>3
  <2>3. QED
    BY <1>1, <1>3, <2>1, <2>2 DEF Shape, TargetInv
<1> HIDE DEF P, R
<1>5. ValueInv'
  BY <1>1, <1>2, <1>3 DEF Shape, ValueInv, P, R
<1>6. /\ proc' \in ProcessType /\ proc'.base = proc.base /\ proc'.on = proc.on
      /\ proc'.opts = proc.opts /\ proc'.failed = proc.failed /\ proc'.exit = proc.exit
  <2>1. proc \in ProcessType
    BY DEF Shape, ProcessInv
  <2>2. CASE Changes
    BY <2>1, <2>2 DEF Changes
  <2>3. CASE Deadline
    BY <2>1, <2>3, Sets DEF Deadline
  <2>4. QED
    BY <2>2, <2>3
<1>7. ProcessInv'
  BY <1>2, <1>3, <1>6 DEF Shape, ProcessInv, P, R
<1>8. QED
  BY <1>4, <1>5, <1>7 DEF Shape

LEMMA Same ==
  ASSUME UNCHANGED target
  PROVE  /\ Past' = Past /\ kind' = kind /\ items' = items /\ ended' = ended
<1>1. kind' = kind /\ items' = items /\ ended' = ended
  BY DEF target
<1>2. QED
  BY <1>1 DEF Past, Distill

LEMMA ShapePoll ==
  ASSUME Shape, Poll
  PROVE  Shape'
<1> USE DEF stream, process, history
<1>1. Past' = Past /\ kind' = kind /\ items' = items /\ ended' = ended
  BY Same DEF Poll
<1> DEFINE now == Distill(items, ended)
           c == Consume(sub.base, now)
           B == Batch(c.events, now)
<1>2. /\ sub # Nil /\ sub \in Subscribers /\ SnapshotOf(Past, sub.base) /\ QueueOf(kind, Past, sub.out)
      /\ sub.out # <<>> => ~sub.out[Len(sub.out)].more
      /\ sub.out \in Streams
  BY DEF Poll, Shape, ValueInv, QueueOf
<1>3. /\ c.baseline = now /\ c.ends \in BOOLEAN /\ now \in Baselines /\ now # Nil
      /\ SnapshotOf(Past, now) /\ IsBatch(kind, B, sub.base, now) /\ QueueOf(kind, Past, B)
  BY <1>2, PollTells DEF Shape
<1>4. sub' = [base |-> now, out |-> sub.out \o B, closed |-> c.ends]
  BY <1>3 DEF Poll
<1>5. UNCHANGED <<held, exported, conn, cut, inbox, proc, hand, mid, file, told, before, windows>>
  BY DEF Poll
<1> HIDE DEF now, c, B
<1>6. QueueOf(kind, Past, sub.out \o B)
  BY <1>2, <1>3, QueueCat
<1>7. /\ sub' \in Subscribers /\ sub' # Nil /\ sub'.base = now /\ sub'.out = sub.out \o B
  <2>1. now \in Baselines \cup {Nil} /\ sub.out \o B \in Streams /\ c.ends \in BOOLEAN
    BY <1>3, <1>6 DEF QueueOf
  <2> DEFINE out == sub.out \o B
             e == c.ends
  <2>2. now \in Baselines \cup {Nil} /\ out \in Streams /\ e \in BOOLEAN
        /\ sub' = [base |-> now, out |-> out, closed |-> e]
    BY <1>4, <2>1
  <2> HIDE DEF out, e
  <2>3. sub' \in Subscribers /\ sub' # Nil /\ sub'.base = now /\ sub'.out = out
    BY <2>2, Made
  <2>4. QED
    BY <2>3 DEF out
<1>8. sub'.out # <<>> => ~sub'.out[Len(sub'.out)].more
  <2>1. /\ Len(sub.out \o B) = Len(sub.out) + Len(B) /\ Len(sub.out) \in Nat /\ Len(B) \in Nat
        /\ \A i \in 1..Len(sub.out) : (sub.out \o B)[i] = sub.out[i]
        /\ \A i \in 1..Len(B) : (sub.out \o B)[Len(sub.out) + i] = B[i]
        /\ (sub.out \o B = <<>> <=> Len(sub.out \o B) = 0) /\ (sub.out = <<>> <=> Len(sub.out) = 0)
    BY <1>2, <1>3, CatAt DEF QueueOf
  <2>2. CASE Len(B) = 0
    <3>1. ASSUME sub.out # <<>> PROVE (sub.out \o B)[Len(sub.out \o B)] = sub.out[Len(sub.out)]
      BY <2>1, <2>2, <3>1
    <3>2. QED
      BY <1>2, <1>7, <2>1, <2>2, <3>1
  <2>3. CASE Len(B) # 0
    <3>1. Len(B) \in 1..Len(B) /\ (sub.out \o B)[Len(sub.out \o B)] = B[Len(B)]
      BY <2>1, <2>3
    <3>2. ~B[Len(B)].more
      BY <1>3, <2>1, <3>1 DEF IsBatch
    <3>3. QED
      BY <1>7, <3>1, <3>2
  <2>4. QED
    BY <2>2, <2>3
<1>9. TargetInv'
  BY <1>1, <1>2, <1>5, <1>7 DEF Shape, TargetInv
<1>10. ValueInv'
  BY <1>1, <1>3, <1>5, <1>6, <1>7, <1>8 DEF Shape, ValueInv
<1>11. ProcessInv'
  BY <1>1, <1>5 DEF Shape, ProcessInv
<1>12. QED
  BY <1>9, <1>10, <1>11 DEF Shape

LEMMA ShapeSend ==
  ASSUME Shape, Send
  PROVE  Shape'
<1> USE DEF stream, process, history
<1>1. Past' = Past /\ kind' = kind /\ items' = items /\ ended' = ended
  BY Same DEF Send
<1> DEFINE u == Head(sub.out)
           rest == Tail(sub.out)
<1>2. /\ sub # Nil /\ sub \in Subscribers /\ SnapshotOf(Past, sub.base) /\ QueueOf(kind, Past, sub.out)
      /\ sub.out # <<>> /\ ~sub.out[Len(sub.out)].more
      /\ sub.out \in Streams /\ QueueOf(kind, Past, inbox) /\ inbox \in Streams
      /\ conn = "up" /\ ~cut
  BY DEF Send, Shape, ValueInv, QueueOf
<1>3. QueueOf(kind, Past, rest) /\ UpdateOf(kind, Past, u)
  BY <1>2, QueueParts
<1>4. inbox' = Append(inbox, u) /\ QueueOf(kind, Past, inbox')
  <2>1. Append(inbox, u) = inbox \o <<u>>
    BY <1>2, <1>3, Joins DEF UpdateOf
  <2>2. QueueOf(kind, Past, inbox \o <<u>>)
    BY <1>2, <1>3, QueueOne, QueueCat
  <2>3. QED
    BY <2>1, <2>2 DEF Send
<1>5. UNCHANGED <<held, exported, cut, proc, hand, mid, file, told, before>>
  BY DEF Send
<1>6. windows \subseteq windows'
  BY DEF Send
<1>7. \/ conn' = "done" /\ sub' = Nil
      \/ conn' = conn /\ sub' = [base |-> sub.base, out |-> rest, closed |-> sub.closed]
  <2>1. sub \in [base : Baselines \cup {Nil}, out : Seq(Updates), closed : BOOLEAN]
    BY <1>2 DEF Subscribers
  <2> HIDE DEF rest
  <2>2. [sub EXCEPT !.out = rest] = [base |-> sub.base, out |-> rest, closed |-> sub.closed]
    BY <2>1
  <2> USE DEF rest
  <2>3. QED
    BY <2>2 DEF Send
<1>8. rest # <<>> => ~rest[Len(rest)].more
  BY <1>2, TailAt
<1>9. \/ conn' = "done" /\ sub' = Nil
      \/ /\ conn' = conn /\ sub' \in Subscribers /\ sub' # Nil
         /\ sub'.base = sub.base /\ sub'.out = rest
  <2>1. sub.base \in Baselines \cup {Nil} /\ rest \in Streams /\ sub.closed \in BOOLEAN
    BY <1>2, <1>3, Subscribed DEF QueueOf
  <2> HIDE DEF rest
  <2>2. QED
    BY <1>7, <2>1, Made
<1> HIDE DEF u, rest
<1>10. TargetInv'
  <2>1. sub' # Nil <=> conn' = "up" /\ ~cut'
    BY <1>2, <1>5, <1>7, <1>9
  <2>2. QED
    BY <1>1, <1>2, <1>5, <1>7, <2>1 DEF Shape, TargetInv
<1>11. ValueInv'
  BY <1>1, <1>2, <1>3, <1>4, <1>5, <1>8, <1>9 DEF Shape, ValueInv
<1>12. ProcessInv'
  <2>1. proc.on
    BY <1>2 DEF Shape, ProcessInv
  <2>2. QED
    BY <1>1, <1>5, <1>6, <2>1 DEF Shape, ProcessInv
<1>13. QED
  BY <1>10, <1>11, <1>12 DEF Shape

\* The stream ends, or an upgrade is prepared or given up.
LEMMA ShapeEnd ==
  ASSUME Shape, Done \/ ServerTimeout \/ Cancel \/ Crash \/ Abandon \/ Expire
  PROVE  Shape'
<1> USE DEF stream, process, history, daemon
<1>1. Past' = Past /\ kind' = kind /\ items' = items /\ ended' = ended
  BY Same DEF Done, ServerTimeout, Cancel, Crash, Abandon, Expire
<1>2. UNCHANGED <<inbox, hand, mid, file, told, before>> /\ windows \subseteq windows'
  BY DEF Done, ServerTimeout, Cancel, Crash, Abandon, Expire
<1>3. /\ proc' \in ProcessType /\ proc'.base = proc.base /\ proc'.on = proc.on
      /\ proc'.opts = proc.opts /\ proc'.failed = proc.failed /\ proc'.exit = proc.exit
  <2>1. proc \in ProcessType
    BY DEF Shape, ProcessInv
  <2>2. CASE Cancel
    BY <2>1, <2>2, Sets DEF Cancel
  <2>3. CASE ~Cancel
    BY <2>1, <2>3 DEF Done, ServerTimeout, Crash, Abandon, Expire
  <2>4. QED
    BY <2>2, <2>3
<1>4. /\ held' \in {held, Nil} /\ exported' \in {exported, Nil} /\ sub' \in {sub, Nil}
      /\ conn' \in {conn, "done"} /\ cut' \in BOOLEAN
      /\ sub' = Nil => ~(conn' = "up" /\ ~cut')
      /\ sub' = sub /\ sub # Nil => conn' = conn /\ cut' = cut
      /\ ~proc.on => conn' = conn /\ cut' = cut
  BY DEF Shape, TargetInv, ProcessInv, Done, ServerTimeout, Cancel, Crash, Abandon, Expire, Stops, Cuts
<1>5. TargetInv'
  BY <1>1, <1>2, <1>4 DEF Shape, TargetInv
<1>6. ValueInv'
  BY <1>1, <1>2, <1>4 DEF Shape, ValueInv, SnapshotOf
<1>7. ProcessInv'
  BY <1>1, <1>2, <1>3, <1>4 DEF Shape, ProcessInv
<1>8. QED
  BY <1>5, <1>6, <1>7 DEF Shape

LEMMA ShapeUpgrade ==
  ASSUME Shape, ExportState \/ PassSocket
  PROVE  Shape'
<1> USE DEF stream, process, history, daemon
<1>1. Past' = Past /\ kind' = kind /\ items' = items /\ ended' = ended
  BY Same DEF ExportState, PassSocket
<1>2. UNCHANGED <<inbox, proc, hand, mid, file, told, before>> /\ windows \subseteq windows'
  BY DEF ExportState, PassSocket
<1>3. Past \subseteq Baselines
  BY PastKnown DEF Shape
<1>4. CASE ExportState
  <2> DEFINE b == IF sub # Nil THEN sub.base ELSE held
  <2>1. SnapshotOf(Past, b) /\ b \in Baselines \cup {Nil}
    BY <1>3 DEF Shape, ValueInv, SnapshotOf
  <2>2. UNCHANGED <<sub, held, conn, cut>> /\ exported' = [base |-> b]
    BY <1>4 DEF ExportState
  <2>3. ~proc.on => b = Nil
    BY DEF Shape, TargetInv, ProcessInv
  <2> HIDE DEF b
  <2>4. exported' \in Exports /\ exported'.base = b
    BY <2>1, <2>2 DEF Exports
  <2>5. TargetInv'
    BY <1>1, <1>2, <2>2 DEF Shape, TargetInv
  <2>6. ValueInv'
    BY <1>1, <1>2, <2>1, <2>2, <2>4 DEF Shape, ValueInv
  <2>7. ProcessInv'
    BY <1>1, <1>2, <2>2, <2>3, <2>4 DEF Shape, ProcessInv
  <2>8. QED
    BY <2>5, <2>6, <2>7 DEF Shape
<1>5. CASE PassSocket
  <2>1. /\ exported # Nil /\ held' = exported.base /\ sub' = Nil /\ exported' = Nil
        /\ SnapshotOf(Past, held')
    BY <1>5 DEF PassSocket, Stops, Shape, ValueInv
  <2>2. \/ conn' = conn /\ cut' = (cut \/ conn = "up")
        \/ sub # Nil /\ conn' = "done" /\ cut' = cut
    BY <1>5 DEF PassSocket, Cuts
  <2>3. TargetInv'
    BY <1>1, <1>2, <2>1, <2>2 DEF Shape, TargetInv
  <2>4. ValueInv'
    BY <1>1, <1>2, <2>1 DEF Shape, ValueInv
  <2>5. ProcessInv'
    BY <1>1, <1>2, <2>1, <2>2 DEF Shape, TargetInv, ProcessInv
  <2>6. QED
    BY <2>3, <2>4, <2>5 DEF Shape
<1>6. QED
  BY <1>4, <1>5

LEMMA Noticed ==
  ASSUME Shape, NEW type \in NoticeTypes
  PROVE  /\ QueueOf(kind, Past, Append(inbox, Notice(type)))
         /\ Append(inbox, Notice(type)) = inbox \o <<Notice(type)>>
<1>1. QueueOf(kind, Past, inbox) /\ inbox \in Streams
  BY DEF Shape, ValueInv, QueueOf
<1>2. Notice(type) \in Updates /\ UpdateOf(kind, Past, Notice(type))
  BY Notices
<1>3. Append(inbox, Notice(type)) = inbox \o <<Notice(type)>>
  BY <1>1, <1>2, Joins
<1>4. QED
  BY <1>1, <1>2, <1>3, QueueOne, QueueCat

LEMMA ShapeStream ==
  ASSUME Shape, StreamSteps
  PROVE  Shape'
<1> USE DEF process, history, daemon
<1>1. Past' = Past /\ kind' = kind /\ items' = items /\ ended' = ended
  BY Same DEF StreamSteps, Break, Reconnect, Fails
<1>2. UNCHANGED <<exported, proc, hand, mid, file, told, before, windows>>
  BY DEF StreamSteps, Break, Reconnect, Fails
<1>3. proc.on /\ ((conn = "up" /\ cut) \/ conn = "lost") /\ sub = Nil
  BY DEF Shape, TargetInv, ProcessInv, StreamSteps, Break, Reconnect, Fails
<1>4. /\ QueueOf(kind, Past, inbox)
      /\ QueueOf(kind, Past, Append(inbox, Notice("lost")))
      /\ QueueOf(kind, Past, Append(inbox, Notice("reconnected")))
      /\ QueueOf(kind, Past, Append(inbox, Notice("restarting")))
      /\ QueueOf(kind, Past, Append(inbox, Notice("could-not-restart")))
  <2>1. {"lost", "reconnected", "restarting", "could-not-restart"} \subseteq NoticeTypes
    BY DEF NoticeTypes
  <2>2. QED
    BY <2>1, Noticed DEF Shape, ValueInv
<1>5. CASE Break
  <2>1. UNCHANGED <<sub, held, cut>> /\ conn' = "lost" /\ inbox' = Append(inbox, Notice("lost"))
    BY <1>5 DEF Break
  <2>2. TargetInv'
    BY <1>1, <1>2, <1>3, <2>1 DEF Shape, TargetInv
  <2>3. ValueInv'
    BY <1>1, <1>2, <1>3, <1>4, <2>1 DEF Shape, ValueInv
  <2>4. ProcessInv'
    BY <1>1, <1>2, <1>3 DEF Shape, ProcessInv
  <2>5. QED
    BY <2>2, <2>3, <2>4 DEF Shape
<1>6. CASE Reconnect
  <2> DEFINE b == IF held # Nil THEN held ELSE Seeded(proc.base)
  <2>1. /\ conn' = "up" /\ cut' = FALSE /\ held' = Nil /\ inbox' = Append(inbox, Notice("reconnected"))
        /\ sub' = [base |-> b, out |-> <<>>, closed |-> FALSE]
    BY <1>6 DEF Reconnect, NewSub
  <2>2. SnapshotOf(Past, b) /\ b \in Baselines \cup {Nil}
    <3>1. SnapshotOf(Past, held) /\ SnapshotOf(Past, proc.base)
      BY DEF Shape, ValueInv, ProcessInv
    <3>2. SnapshotOf(Past, Seeded(proc.base))
      BY <3>1, Seeds
    <3>3. Past \subseteq Baselines
      BY PastKnown DEF Shape
    <3>4. QED
      BY <3>1, <3>2, <3>3 DEF SnapshotOf
  <2> HIDE DEF b
  <2>3. /\ sub' \in Subscribers /\ sub' # Nil /\ sub'.base = b /\ sub'.out = <<>>
    <3>1. <<>> \in Streams /\ FALSE \in BOOLEAN
      BY EmptySeq DEF Streams
    <3>2. QED
      BY <2>1, <2>2, <3>1, Made
  <2>4. TargetInv'
    BY <1>1, <1>2, <2>1, <2>3 DEF Shape, TargetInv
  <2>5. QueueOf(kind, Past, <<>>)
    BY EmptySeq DEF QueueOf, Streams
  <2>6. ValueInv'
    BY <1>1, <1>2, <1>4, <2>1, <2>2, <2>3, <2>5 DEF Shape, ValueInv, SnapshotOf
  <2>7. ProcessInv'
    BY <1>1, <1>2, <1>3 DEF Shape, ProcessInv
  <2>8. QED
    BY <2>4, <2>6, <2>7 DEF Shape
<1>7. CASE Fails
  <2>1. /\ UNCHANGED <<sub, held, conn, cut>>
        /\ inbox' \in {inbox, Append(inbox, Notice("restarting")),
                       Append(inbox, Notice("could-not-restart"))}
    BY <1>7 DEF Fails
  <2>2. TargetInv'
    BY <1>1, <1>2, <2>1 DEF Shape, TargetInv
  <2>3. ValueInv'
    BY <1>1, <1>2, <1>4, <2>1 DEF Shape, ValueInv
  <2>4. ProcessInv'
    BY <1>1, <1>2, <1>3, <2>1 DEF Shape, ProcessInv
  <2>5. QED
    BY <2>2, <2>3, <2>4 DEF Shape
<1>8. QED
  BY <1>5, <1>6, <1>7 DEF StreamSteps

LEMMA ShapeTake ==
  ASSUME Shape, Take
  PROVE  Shape'
<1> USE DEF daemon, stream
<1>1. Past' = Past /\ kind' = kind /\ items' = items /\ ended' = ended
  BY Same DEF Take
<1> DEFINE u == Head(inbox)
<1>2. /\ proc.on /\ inbox # <<>> /\ hand' = u /\ mid' = u.more /\ inbox' = Tail(inbox)
      /\ UNCHANGED <<sub, held, exported, conn, cut, told, before, windows>>
      /\ file' \in {file, Snap(u)}
  BY DEF Take, Save
<1>3. \E b \in BOOLEAN : proc' = [proc EXCEPT !.degraded = b]
  <2>1. proc.degraded \in BOOLEAN
    BY DEF Shape, ProcessInv, ProcessType
  <2>2. QED
    BY <2>1 DEF Take
<1>4. /\ proc' \in ProcessType /\ proc'.base = proc.base /\ proc'.on = proc.on
      /\ proc'.opts = proc.opts /\ proc'.failed = proc.failed /\ proc'.exit = proc.exit
  <2>1. PICK b \in BOOLEAN : proc' = [proc EXCEPT !.degraded = b]
    BY <1>3
  <2>2. proc \in ProcessType
    BY DEF Shape, ProcessInv
  <2>3. QED
    BY <2>1, <2>2, Sets
<1>5. QueueOf(kind, Past, Tail(inbox)) /\ UpdateOf(kind, Past, u) /\ u \in Updates /\ u.more \in BOOLEAN
  <2>1. QueueOf(kind, Past, Tail(inbox)) /\ UpdateOf(kind, Past, u)
    BY <1>2, QueueParts DEF Shape, ValueInv
  <2>2. u \in Updates
    BY <2>1 DEF UpdateOf
  <2> HIDE DEF u
  <2>3. QED
    BY <2>1, <2>2 DEF Updates, u
<1>6. SnapshotOf(Past, file') /\ (file' # file => proc.opts.named)
  BY <1>2, <1>5 DEF Shape, ValueInv, UpdateOf, Snap
<1> HIDE DEF u
<1>7. TargetInv'
  BY <1>1, <1>2, <1>5 DEF Shape, TargetInv
<1>8. ValueInv'
  BY <1>1, <1>2, <1>5, <1>6 DEF Shape, ValueInv
<1>9. ProcessInv'
  BY <1>1, <1>2, <1>4, <1>6 DEF Shape, ProcessInv
<1>10. QED
  BY <1>7, <1>8, <1>9 DEF Shape

\* The process leaves: p is the process with what ended it.
LEMMA ShapeLeaves ==
  ASSUME Shape, proc.on, NEW p \in ProcessType, p.opts = proc.opts, p.base = proc.base,
         NEW code \in {0, 1, 2, 137}, NEW lost, Leaves(p, code, lost), UNCHANGED <<target, on, file, before>>,
         p.failed => windows' # {}
  PROVE  Shape'
<1>1. Past' = Past /\ kind' = kind /\ items' = items /\ ended' = ended
  BY Same
<1>2. /\ proc' = [p EXCEPT !.on = FALSE, !.exit = code]
      /\ conn' = "done" /\ cut' = FALSE /\ inbox' = <<>> /\ sub' = Nil /\ held' = Nil
      /\ exported' = IF exported = Nil THEN Nil ELSE [base |-> Nil]
      /\ hand' = Nil /\ mid' = FALSE
  BY DEF Leaves
<1>3. /\ proc' \in ProcessType /\ proc'.opts = proc.opts /\ proc'.base = proc.base
      /\ proc'.failed = p.failed /\ ~proc'.on
  BY <1>2, Exits
<1>4. proc.opts # Nil
  BY DEF Shape, ProcessInv
<1>5. [base |-> Nil] \in Exports /\ [base |-> Nil].base = Nil /\ [base |-> Nil] # Nil
  <2>1. [base |-> Nil] \in Exports /\ [base |-> Nil].base = Nil
    BY DEF Exports
  <2>2. QED
    BY <2>1, NilAssumption
<1>6. TargetInv'
  BY <1>1, <1>2 DEF Shape, TargetInv
<1>7. QueueOf(kind, Past, <<>>)
  BY EmptySeq DEF QueueOf, Streams
<1>8. ValueInv'
  BY <1>1, <1>2, <1>5, <1>7 DEF Shape, ValueInv, SnapshotOf
<1>9. ProcessInv'
  BY <1>1, <1>2, <1>3, <1>4, <1>5 DEF Shape, ProcessInv
<1>10. QED
  BY <1>6, <1>8, <1>9 DEF Shape

LEMMA ShapeGoes ==
  ASSUME Shape, Finish \/ Timeout \/ Kill
  PROVE  Shape'
<1> USE DEF EndsWith
<1>1. /\ proc \in ProcessType /\ proc.on /\ (proc.failed => windows # {})
      /\ UNCHANGED <<target, on, file, before>>
  BY DEF Shape, ProcessInv, Finish, Timeout, Kill
<1>2. CASE Finish
  <2>1. Leaves(proc, ExitCode(proc), {}) /\ ExitCode(proc) \in {0, 1, 2, 137}
    BY <1>2, Codes DEF Finish
  <2>2. windows \subseteq windows'
    BY <2>1 DEF Leaves
  <2>3. QED
    BY <1>1, <2>1, <2>2, ShapeLeaves
<1>3. CASE Timeout
  <2> DEFINE p == [proc EXCEPT !.timedOut = TRUE]
             lost == IF mid THEN {"batch"} ELSE {}
  <2>1. Leaves(p, ExitCode(p), lost) /\ ExitCode(p) \in {0, 1, 2, 137}
    BY <1>3, Codes DEF Timeout
  <2>2. windows \subseteq windows'
    BY <2>1 DEF Leaves
  <2>3. p \in ProcessType /\ p.opts = proc.opts /\ p.base = proc.base /\ p.failed = proc.failed
    BY <1>1, Sets
  <2> HIDE DEF p, lost
  <2>4. QED
    BY <1>1, <2>1, <2>2, <2>3, ShapeLeaves
<1>4. CASE Kill
  <2> DEFINE lost == IF hand # Nil \/ mid THEN {"batch"} ELSE {}
  <2>1. Leaves(proc, 137, lost)
    BY <1>4 DEF Kill
  <2>2. windows \subseteq windows'
    BY <2>1 DEF Leaves
  <2> HIDE DEF lost
  <2>3. QED
    BY <1>1, <2>1, <2>2, ShapeLeaves
<1>5. QED
  BY <1>2, <1>3, <1>4

LEMMA Holds ==
  ASSUME Shape, hand # Nil
  PROVE  proc.on /\ UpdateOf(kind, Past, hand) /\ hand \in Updates /\ mid = hand.more
         /\ proc.opts # Nil
BY DEF Shape, ValueInv, ProcessInv, UpdateOf

LEMMA ShowSets ==
  ASSUME proc \in ProcessType, NEW ok \in BOOLEAN
  PROVE  LET q == [proc EXCEPT !.met = @ \/ Fires(hand), !.failed = @ \/ ~ok]
         IN  /\ q \in ProcessType /\ q.opts = proc.opts /\ q.base = proc.base /\ q.on = proc.on
             /\ q.failed = (proc.failed \/ ~ok) /\ q.met = (proc.met \/ Fires(hand))
             /\ q.exit = proc.exit /\ q.cancelled = proc.cancelled
<1> DEFINE q == [proc EXCEPT !.met = @ \/ Fires(hand), !.failed = @ \/ ~ok]
           m == proc.met \/ Fires(hand)
           f == proc.failed \/ ~ok
<1>1. m \in BOOLEAN /\ f \in BOOLEAN
  BY DEF ProcessType
<1>2. q = [proc EXCEPT !.met = proc.met \/ Fires(hand), !.failed = proc.failed \/ ~ok]
  OBVIOUS
<1>3. Becomes(proc, m, f, q)
  BY <1>2 DEF Becomes
<1> HIDE DEF m, f, q
<1>4. /\ q \in ProcessType /\ q.opts = proc.opts /\ q.base = proc.base /\ q.on = proc.on
      /\ q.failed = f /\ q.met = m /\ q.exit = proc.exit /\ q.cancelled = proc.cancelled
  BY <1>1, <1>3, SetsMet
<1>5. QED
  BY <1>4 DEF m, f, q

LEMMA ShapeShow ==
  ASSUME Shape, NEW ok \in BOOLEAN, Show(ok)
  PROVE  Shape'
<1> DEFINE q == [proc EXCEPT !.met = @ \/ Fires(hand), !.failed = @ \/ ~ok]
<1>1. hand # Nil /\ UNCHANGED <<target, on, file, before>> /\ proc \in ProcessType
  BY DEF Show, Shape, ProcessInv
<1>2. proc.on /\ proc.opts # Nil
  BY <1>1, Holds
<1>3. /\ q \in ProcessType /\ q.opts = proc.opts /\ q.base = proc.base /\ q.on = proc.on
      /\ q.failed = (proc.failed \/ ~ok) /\ q.exit = proc.exit
  BY <1>1, ShowSets
<1>4. windows \subseteq windows' /\ (~ok => windows' # {})
  BY DEF Show, Leaves
<1>5. q.failed => windows' # {}
  BY <1>3, <1>4 DEF Shape, ProcessInv
<1>6. CASE q.met /\ ~hand.more
  <2> DEFINE lost == IF ok THEN {} ELSE {"output"}
  <2>1. Leaves(q, ExitCode(q), lost)
    BY <1>6 DEF Show
  <2>2. ExitCode(q) \in {0, 1, 2, 137}
    BY Codes
  <2> HIDE DEF q, lost
  <2>3. QED
    BY <1>1, <1>2, <1>3, <1>5, <2>1, <2>2, ShapeLeaves
<1>7. CASE ~(q.met /\ ~hand.more)
  <2>1. Past' = Past /\ kind' = kind /\ items' = items /\ ended' = ended
    BY <1>1, Same
  <2>2. /\ proc' = q /\ hand' = Nil /\ UNCHANGED <<inbox, mid, held, exported>>
        /\ \/ UNCHANGED <<conn, cut, sub>>
           \/ conn' = "done" /\ cut' = FALSE /\ sub' = Nil
    BY <1>7 DEF Show
  <2> HIDE DEF q
  <2>3. TargetInv'
    <3>1. mid' \in BOOLEAN /\ held' = held
      BY <2>2 DEF Shape, TargetInv
    <3>2. CASE UNCHANGED <<conn, cut, sub>>
      BY <2>1, <3>1, <3>2 DEF Shape, TargetInv
    <3>3. CASE conn' = "done" /\ cut' = FALSE /\ sub' = Nil
      BY <2>1, <3>1, <3>3 DEF Shape, TargetInv
    <3>4. QED
      BY <2>2, <3>2, <3>3
  <2>4. ValueInv'
    BY <1>1, <2>1, <2>2 DEF Shape, ValueInv
  <2>5. ProcessInv'
    BY <1>1, <1>2, <1>3, <1>5, <2>1, <2>2 DEF Shape, ProcessInv
  <2>6. QED
    BY <2>3, <2>4, <2>5 DEF Shape
<1>8. QED
  BY <1>6, <1>7

\* What a process that starts is given.
LEMMA Based ==
  ASSUME Shape, NEW o \in Invocations, Validate(o), o.seeded # Nil => o.seeded <= items
  PROVE  /\ o # Nil /\ SnapshotOf(Past, Baseline(o)) /\ Baseline(o) \in Baselines \cup {Nil}
         /\ SnapshotOf(Past, Seeded(Baseline(o))) /\ Seeded(Baseline(o)) \in Baselines \cup {Nil}
<1>1. o \in CommandLine
  BY ClientAssumption
<1>2. SnapshotOf(Past, Baseline(o))
  <2>1. CASE o.seeded = Nil
    BY <2>1 DEF Baseline, Shape, ValueInv
  <2>2. CASE o.seeded # Nil
    <3>1. o.seeded \in Nat /\ items \in Nat
      BY <1>1, <2>2, ClientAssumption DEF CommandLine, Shape, TargetInv
    <3>2. o.seeded \in 0..items
      BY <2>2, <3>1
    <3>3. Distill(o.seeded, FALSE) \in Past
      BY <3>2 DEF Past
    <3>4. QED
      BY <2>2, <3>3 DEF Baseline, SnapshotOf
  <2>3. QED
    BY <2>1, <2>2
<1>3. SnapshotOf(Past, Seeded(Baseline(o)))
  BY <1>2, Seeds
<1>4. Past \subseteq Baselines
  BY PastKnown DEF Shape
<1>5. o # Nil
  BY <1>1, NilAssumption
<1>6. QED
  BY <1>2, <1>3, <1>4, <1>5 DEF SnapshotOf

LEMMA Reads ==
  ASSUME Shape, NEW base, SnapshotOf(Past, Seeded(base)), NEW now, now = Distill(items, ended)
  PROVE  /\ QueueOf(kind, Past, ReadOnce(base)) /\ ReadOnce(base) \in Streams
         /\ IsBatch(kind, ReadOnce(base), Seeded(base), now)
         /\ now \in Baselines /\ now # Nil /\ SnapshotOf(Past, now)
<1> DEFINE c == Consume(Seeded(base), now)
<1>1. /\ c.baseline = now /\ IsBatch(kind, Batch(c.events, now), Seeded(base), now)
      /\ QueueOf(kind, Past, Batch(c.events, now))
      /\ now \in Baselines /\ now # Nil /\ SnapshotOf(Past, now)
  BY PollTells DEF Shape
<1>2. ReadOnce(base) = Batch(c.events, now)
  BY <1>1 DEF ReadOnce
<1>3. QED
  BY <1>1, <1>2 DEF QueueOf

LEMMA ShapeStarts ==
  ASSUME Shape, NEW o \in Invocations, Starts(o)
  PROVE  Shape'
<1> DEFINE base == Baseline(o)
<1>1. Past' = Past /\ kind' = kind /\ items' = items /\ ended' = ended
  BY Same DEF Starts
<1>2. /\ ~proc.on /\ (proc.opts # Nil => o = proc.opts /\ o.named) /\ Validate(o)
      /\ o.seeded # Nil => o.seeded <= items
      /\ proc' = [NoProcess EXCEPT !.opts = o, !.base = base, !.on = TRUE]
      /\ UNCHANGED <<held, exported, cut, hand, mid, file, told>>
      /\ windows \subseteq windows'
  BY DEF Starts, attachDaemon, attachRunningDaemon
<1>3. /\ o # Nil /\ SnapshotOf(Past, base) /\ base \in Baselines \cup {Nil}
      /\ SnapshotOf(Past, Seeded(base)) /\ Seeded(base) \in Baselines \cup {Nil}
  BY <1>2, Based
<1> HIDE DEF base
<1>4. /\ proc' \in ProcessType /\ proc'.opts = o /\ proc'.base = base /\ proc'.on
      /\ ~proc'.failed /\ proc'.exit = Nil /\ ~proc'.met
  <2>1. /\ proc' = [ opts |-> o, base |-> base, on |-> TRUE, met |-> FALSE, failed |-> FALSE,
                     cancelled |-> FALSE, late |-> FALSE, timedOut |-> FALSE, degraded |-> FALSE,
                     exit |-> Nil ]
    BY <1>2 DEF NoProcess
  <2>2. QED
    BY <1>3, <2>1 DEF ProcessType
<1>5. /\ conn = "done" /\ ~cut /\ held = Nil /\ inbox = <<>> /\ hand = Nil /\ ~mid /\ sub = Nil
  BY <1>2 DEF Shape, TargetInv, ProcessInv
<1>6. QueueOf(kind, Past, <<>>) /\ <<>> \in Streams
  BY EmptySeq DEF QueueOf, Streams
<1>7. \/ /\ conn' = "up" /\ inbox' = inbox /\ sub' \in Subscribers /\ sub' # Nil
         /\ SnapshotOf(Past, sub'.base) /\ sub'.out = <<>>
      \/ /\ conn' = "done" /\ QueueOf(kind, Past, inbox') /\ sub' = Nil
  <2>1. CASE ~o.once
    <3>1. conn' = "up" /\ inbox' = inbox /\ sub' = [base |-> Seeded(base), out |-> <<>>, closed |-> FALSE]
      BY <2>1 DEF Starts, attachDaemon, NewSub, base
    <3>2. FALSE \in BOOLEAN
      OBVIOUS
    <3>3. sub' \in Subscribers /\ sub' # Nil /\ sub'.base = Seeded(base) /\ sub'.out = <<>>
      BY <1>3, <1>6, <3>1, <3>2, Made
    <3>4. QED
      BY <1>3, <3>1, <3>3
  <2>2. CASE o.once
    <3> DEFINE read == ReadOnce(base)
               first == SelectInSeq(read, IsTerminal)
    <3>1. conn' = "done" /\ sub' = sub /\ inbox' \in {read, SubSeq(read, 1, first)}
      BY <2>2 DEF Starts, attachRunningDaemon, base
    <3>2. QueueOf(kind, Past, read) /\ read \in Streams
      BY <1>3, Reads
    <3>3. first \in 0..Len(read)
      BY <3>2, First
    <3> HIDE DEF read, first
    <3>4. QueueOf(kind, Past, SubSeq(read, 1, first))
      BY <3>2, <3>3, Prefix
    <3>5. QED
      BY <1>5, <3>1, <3>2, <3>4
  <2>3. QED
    BY <2>1, <2>2
<1>8. TargetInv'
  BY <1>1, <1>2, <1>5, <1>7 DEF Shape, TargetInv
<1>9. ValueInv'
  BY <1>1, <1>2, <1>5, <1>6, <1>7 DEF Shape, ValueInv
<1>10. ProcessInv'
  <2>1. o.seeded # Nil => ~o.named
    BY <1>2 DEF Validate
  <2>2. ~o.named => file = Nil
    BY <1>2 DEF Shape, ProcessInv
  <2>3. QED
    BY <1>1, <1>2, <1>3, <1>4, <2>1, <2>2 DEF Shape, ProcessInv
<1>11. QED
  BY <1>8, <1>9, <1>10 DEF Shape

LEMMA ShapeNext ==
  ASSUME Shape, [Next]_vars
  PROVE  Shape'
<1>1. CASE HubSteps
  BY <1>1, ShapePoll, ShapeSend, ShapeEnd DEF HubSteps
<1>2. CASE Crash
  BY <1>2, ShapeEnd
<1>3. CASE Upgrade
  BY <1>3, ShapeUpgrade, ShapeEnd DEF Upgrade
<1>4. CASE StreamSteps
  BY <1>4, ShapeStream
<1>5. CASE ProcessSteps
  BY <1>5, ShapeTake, ShapeShow, ShapeGoes DEF ProcessSteps
<1>6. CASE Operator
  <2>1. ASSUME Deadline PROVE Shape'
    BY <1>6, <2>1, ShapeQuiet DEF Next
  <2>2. QED
    BY <1>6, <2>1, ShapeStarts, ShapeEnd, ShapeGoes DEF Operator
<1>7. CASE Changes
  BY <1>7, ShapeQuiet DEF Next
<1>8. CASE UNCHANGED vars
  <2>1. UNCHANGED target /\ UNCHANGED <<daemon, stream, inbox, process, faults, history>>
    BY <1>8 DEF vars
  <2>2. Past' = Past /\ kind' = kind /\ items' = items /\ ended' = ended
    BY <2>1, Same
  <2>3. UNCHANGED <<on, sub, held, exported, conn, cut, inbox, proc, hand, mid, file, told, before, windows>>
    BY <2>1 DEF daemon, stream, process, history
  <2>4. TargetInv'
    BY <2>2, <2>3 DEF Shape, TargetInv
  <2>5. ValueInv'
    BY <2>2, <2>3 DEF Shape, ValueInv
  <2>6. ProcessInv'
    BY <2>2, <2>3 DEF Shape, ProcessInv
  <2>7. QED
    BY <2>4, <2>5, <2>6 DEF Shape
<1>9. QED
  BY <1>1, <1>2, <1>3, <1>4, <1>5, <1>6, <1>7, <1>8 DEF Next

----------------------------------------------------------------------------
\* Nothing lost.

LEMMA FactNames ==
  /\ \A b : Facts(b) = F(kind, b)
  /\ \A u : FactsOf(u) = U(kind, u)
  /\ \A q \in Streams : Carried(q) = Tells(kind, q, Len(q))
<1>1. \A b : Facts(b) = F(kind, b)
  BY DEF Facts, F
<1>2. \A u : FactsOf(u) = U(kind, u)
  BY <1>1 DEF FactsOf, U
<1>3. ASSUME NEW q \in Streams PROVE Carried(q) = Tells(kind, q, Len(q))
  <2>1. DOMAIN q = 1..Len(q)
    BY DEF Streams
  <2>2. \A u : u \in Range(q) <=> \E i \in 1..Len(q) : u = q[i]
    BY <2>1 DEF Range
  <2>3. QED
    BY <1>2, <2>2 DEF Carried, Tells
<1>4. QED
  BY <1>1, <1>2, <1>3

LEMMA QueueShape ==
  ASSUME Shape
  PROVE  /\ inbox \in Streams /\ Queue \in Streams /\ QueueOf(kind, Past, Queue)
         /\ sub = Nil => Queue = inbox
         /\ sub # Nil => sub.out \in Streams /\ Queue = inbox \o sub.out
<1>1. QueueOf(kind, Past, inbox) /\ (sub # Nil => QueueOf(kind, Past, sub.out))
  BY DEF Shape, ValueInv
<1>2. inbox \in Streams /\ (sub # Nil => sub.out \in Streams)
  BY <1>1 DEF QueueOf
<1>3. CASE sub = Nil
  <2>1. Queue = inbox
    BY <1>2, <1>3, Joins DEF Queue
  <2>2. QED
    BY <1>1, <1>2, <1>3, <2>1
<1>4. CASE sub # Nil
  <2>1. Queue = inbox \o sub.out
    BY <1>4 DEF Queue
  <2>2. QED
    BY <1>1, <1>2, <1>4, <2>1, QueueCat DEF QueueOf
<1>5. QED
  BY <1>3, <1>4

LEMMA QueueWas ==
  ASSUME Shape, Shape'
  PROVE  /\ inbox' \in Streams /\ Queue' \in Streams
         /\ sub' = Nil => Queue' = inbox'
         /\ sub' # Nil => sub'.out \in Streams /\ Queue' = inbox' \o sub'.out
<1>1. QueueOf(kind', Past', inbox') /\ (sub' # Nil => QueueOf(kind', Past', sub'.out))
  BY DEF Shape, ValueInv
<1>2. inbox' \in Streams /\ (sub' # Nil => sub'.out \in Streams)
  BY <1>1 DEF QueueOf
<1>3. CASE sub' = Nil
  <2>1. Queue' = inbox'
    BY <1>2, <1>3, Joins DEF Queue
  <2>2. QED
    BY <1>2, <1>3, <2>1
<1>4. CASE sub' # Nil
  <2>1. Queue' = inbox' \o sub'.out
    BY <1>4 DEF Queue
  <2>2. QED
    BY <1>2, <1>4, <2>1, CatAt
<1>5. QED
  BY <1>3, <1>4

LEMMA NoFacts ==
  ASSUME NEW k
  PROVE  F(k, Nil) = {} /\ Known(k, Nil) = {}
BY DEF F, Known

LEMMA SeedFacts ==
  ASSUME NEW b
  PROVE  F(kind, Seeded(b)) \subseteq F(kind, b)
BY NoFacts DEF Seeded

\* A notice at the end of a queue changes nothing.
LEMMA NoticeTells ==
  ASSUME NEW k, NEW q \in Streams, NEW type \in NoticeTypes
  PROVE  LET r == q \o <<Notice(type)>>
         IN  /\ Tells(k, r, Len(r)) = Tells(k, q, Len(q))
             /\ \A p, m, f : Ahead(k, q, p, m, f) => Ahead(k, r, p, m, f)
             /\ \A a : Fresh(k, q, a) => Fresh(k, r, a)
             /\ \A a : Knows(k, q, a) => Knows(k, r, a)
<1> DEFINE B == <<Notice(type)>>
           r == q \o B
<1>1. /\ B \in Streams /\ Len(B) = 1 /\ B[1] = Notice(type) /\ U(k, B[1]) = {}
      /\ B[1].status = Nil /\ ~B[1].more
  BY Notices
<1> HIDE DEF B
<1>2. Tells(k, B, Len(B)) = {}
  BY <1>1 DEF Tells
<1>3. Tells(k, r, Len(r)) = Tells(k, q, Len(q))
  <2>1. B \in Streams
    BY <1>1
  <2>2. Tells(k, q \o B, Len(q \o B)) = Tells(k, q, Len(q)) \cup Tells(k, B, Len(B))
    BY <2>1, TellsWhole
  <2>3. QED
    BY <1>2, <2>2
<1>4. OneBatch(B, Nil) /\ Apart(k, B)
  BY <1>1 DEF OneBatch, Apart
<1>5. ASSUME NEW p, NEW m, NEW f, Ahead(k, q, p, m, f) PROVE Ahead(k, r, p, m, f)
  <2>1. F(k, Nil) = {}
    BY NoFacts
  <2>2. F(k, Nil) \subseteq p \cup Tells(k, q, Len(q)) /\ F(k, Nil) \subseteq F(k, Nil) \cup Tells(k, B, Len(B))
    BY <2>1
  <2>3. QED
    BY <1>1, <1>4, <1>5, <2>2, AheadCat
<1>6. ASSUME NEW a, Fresh(k, q, a) PROVE Fresh(k, r, a)
  BY <1>1, <1>2, <1>4, <1>6, FreshCat
<1>7. ASSUME NEW a, Knows(k, q, a) PROVE Knows(k, r, a)
  <2>1. \A x : Over(k, B, x)
    BY <1>1 DEF Over
  <2>2. QED
    BY <1>1, <1>7, <2>1, KnowsCat
<1>8. QED
  BY <1>3, <1>5, <1>6, <1>7 DEF B

LEMMA LossPoll ==
  ASSUME Shape, Shape', LossInv, Poll
  PROVE  LossInv'
<1> SUFFICES ASSUME windows' = {} PROVE LossInv'
  BY DEF LossInv
<1>1. /\ Past' = Past /\ kind' = kind /\ sub # Nil
      /\ UNCHANGED <<inbox, windows, mid, file, hand, told, before, held, exported, conn, proc>>
  BY Same DEF Poll, stream, process, history
<1> DEFINE now == Distill(items, ended)
           base == sub.base
           c == Consume(base, now)
           B == Batch(c.events, now)
<1>2. /\ SnapshotOf(Past, base) /\ sub.out \in Streams /\ inbox \in Streams /\ Queue = inbox \o sub.out
      /\ Queue \in Streams
  BY <1>1, QueueShape DEF Shape, ValueInv
<1>3. c.baseline = now /\ IsBatch(kind, B, base, now)
  BY <1>2, PollTells DEF Shape
<1>4. sub'.out = sub.out \o B /\ sub'.base = now
  <2>1. sub' = [base |-> now, out |-> sub.out \o B, closed |-> c.ends]
    BY <1>3 DEF Poll
  <2>2. QED
    BY <2>1
<1> HIDE DEF now, c, B, base
<1>5. sub' # Nil
  BY <1>1 DEF Shape, TargetInv, Poll, stream
<1>6. Queue' = Queue \o B /\ B \in Streams
  <2>1. B \in Streams
    BY <1>3 DEF IsBatch
  <2>2. Queue' = inbox \o (sub.out \o B)
    BY <1>1, <1>4, <1>5, QueueWas
  <2>3. (inbox \o sub.out) \o B = inbox \o (sub.out \o B)
    BY <1>2, <2>1, CatCat
  <2>4. QED
    BY <1>2, <2>1, <2>2, <2>3
<1>7. Reached' = Reached
  BY <1>1 DEF Reached, InHand
<1>8. /\ Ahead(kind, Queue, Reached, mid, file)
      /\ F(kind, base) \subseteq Reached \cup Tells(kind, Queue, Len(Queue))
  BY <1>1 DEF LossInv, OnItsWay, base
<1>9. OneBatch(B, now) /\ F(kind, now) \subseteq F(kind, base) \cup Tells(kind, B, Len(B))
  BY <1>3 DEF IsBatch, OneBatch
<1>10. /\ Ahead(kind, Queue \o B, Reached, mid, file)
       /\ F(kind, now) \subseteq Reached \cup Tells(kind, Queue \o B, Len(Queue \o B))
  BY <1>2, <1>6, <1>8, <1>9, AheadCat
<1>11. Tells(kind, Queue, Len(Queue)) \subseteq Tells(kind, Queue \o B, Len(Queue \o B))
  <2>1. Queue \in Streams /\ B \in Streams
    BY <1>2, <1>6
  <2> DEFINE q == Queue
  <2> HIDE DEF q
  <2>2. q \in Streams
    BY <2>1 DEF q
  <2>3. Tells(kind, q \o B, Len(q \o B)) = Tells(kind, q, Len(q)) \cup Tells(kind, B, Len(B))
    BY <2>1, <2>2, TellsWhole
  <2>4. QED
    BY <2>3 DEF q
<1>12. QED
  BY <1>1, <1>4, <1>6, <1>7, <1>10, <1>11 DEF LossInv, OnItsWay

LEMMA Untorn ==
  ASSUME Torn = {}
  PROVE  Between(inbox, mid)
BY DEF Torn, OpenBatch, Between, Last

\* What was unsent goes, between two batches.
LEMMA AheadEnds ==
  ASSUME Shape, Ahead(kind, Queue, Reached, mid, file),
         sub # Nil => Torn = {} \/ sub.out = <<>>
  PROVE  Ahead(kind, inbox, Reached, mid, file)
<1>1. CASE sub = Nil
  BY <1>1, QueueShape
<1>2. CASE sub # Nil
  <2> DEFINE out == sub.out
             q == inbox
  <2>1. q \in Streams /\ out \in Streams /\ Queue = q \o out
    BY <1>2, QueueShape
  <2> HIDE DEF out, q
  <2>2. Between(q, mid) \/ Tells(kind, out, Len(out)) = {}
    <3>1. CASE Torn = {}
      BY <3>1, Untorn DEF q
    <3>2. CASE out = <<>>
      <4>1. Len(out) = 0
        BY <2>1, <3>2, CatAt
      <4>2. QED
        BY <4>1, TellsNone
    <3>3. QED
      BY <1>2, <3>1, <3>2 DEF out
  <2>3. Ahead(kind, q \o out, Reached, mid, file)
    BY <2>1
  <2>4. QED
    BY <2>1, <2>2, <2>3, AheadCut DEF q
<1>3. QED
  BY <1>1, <1>2

LEMMA LossEnds ==
  ASSUME Shape, Shape', LossInv, Done \/ ServerTimeout \/ Cancel \/ Crash
  PROVE  LossInv'
<1> SUFFICES ASSUME windows' = {} PROVE LossInv'
  BY DEF LossInv
<1> USE DEF daemon, stream, process, history
<1>1. kind' = kind
  BY Same DEF Done, ServerTimeout, Cancel, Crash
<1>2. /\ UNCHANGED <<inbox, mid, file, hand, told, before>> /\ sub' = Nil /\ windows = {}
      /\ conn' = "done" \/ (held' = Nil /\ exported' = Nil)
      /\ sub # Nil => Torn = {} \/ sub.out = <<>>
  BY DEF Done, ServerTimeout, Cancel, Crash, Stops
<1>3. proc'.base = proc.base
  <2>1. CASE Cancel
    BY <2>1, Sets DEF Cancel, Shape, ProcessInv
  <2>2. CASE ~Cancel
    BY <2>2 DEF Done, ServerTimeout, Crash
  <2>3. QED
    BY <2>1, <2>2
<1>4. Queue' = inbox /\ Reached' = Reached
  BY <1>1, <1>2, QueueWas DEF Reached, InHand
<1>5. Ahead(kind, inbox, Reached, mid, file)
  BY <1>2, AheadEnds DEF LossInv
<1>6. conn' # "done" => F(kind, held') = {} /\ exported' = Nil
  BY <1>2, NoFacts
<1>7. QED
  BY <1>1, <1>2, <1>3, <1>4, <1>5, <1>6 DEF LossInv, OnItsWay

LEMMA LossSend ==
  ASSUME Shape, Shape', LossInv, Send
  PROVE  LossInv'
<1> SUFFICES ASSUME windows' = {} PROVE LossInv'
  BY DEF LossInv
<1> USE DEF stream, process, history
<1> DEFINE u == Head(sub.out)
           rest == Tail(sub.out)
<1>1. kind' = kind
  BY Same DEF Send
<1>2. /\ UNCHANGED <<mid, file, hand, told, before, held, exported, proc>> /\ windows = {}
      /\ inbox' = Append(inbox, u) /\ sub # Nil /\ sub.out # <<>>
  BY DEF Send
<1>3. /\ inbox \in Streams /\ sub.out \in Streams /\ Queue = inbox \o sub.out
  BY <1>2, QueueShape
<1>4. u \in Updates /\ rest \in Streams /\ Append(inbox, u) \o rest = Queue
  BY <1>2, <1>3, Moves
<1>5. Reached' = Reached
  BY <1>1, <1>2 DEF Reached, InHand
<1>6. Append(inbox, u) \in Streams
  BY <1>3, <1>4, Joins
<1>7. CASE IsTerminal(u)
  <2>1. conn' = "done" /\ sub' = Nil /\ Carried(rest) = {}
    BY <1>7 DEF Send
  <2>2. Tells(kind, rest, Len(rest)) = {}
    BY <1>4, <2>1, FactNames
  <2>3. Ahead(kind, Append(inbox, u) \o rest, Reached, mid, file)
    BY <1>2, <1>4 DEF LossInv
  <2> HIDE DEF u, rest
  <2> DEFINE q == Append(inbox, u)
  <2>4. q \in Streams
    BY <1>6
  <2>5. Ahead(kind, q \o rest, Reached, mid, file)
    BY <2>3
  <2> HIDE DEF q
  <2>6. Ahead(kind, q, Reached, mid, file)
    BY <1>4, <2>2, <2>4, <2>5, AheadCut
  <2>7. Queue' = q
    BY <1>2, <2>1, QueueWas DEF q
  <2>8. QED
    BY <1>1, <1>2, <1>5, <2>1, <2>6, <2>7 DEF LossInv, OnItsWay
<1>8. CASE ~IsTerminal(u)
  <2>1. sub' = [sub EXCEPT !.out = rest] /\ conn' = conn
    BY <1>8 DEF Send
  <2>2. sub'.out = rest /\ sub'.base = sub.base
    BY <1>2, <2>1 DEF Shape, ValueInv, Subscribers
  <2>3. sub' # Nil
    BY <1>2, <2>1 DEF Shape, TargetInv, Send
  <2>4. Queue' = Queue
    BY <1>2, <1>4, <2>2, <2>3, QueueWas
  <2>5. QED
    BY <1>1, <1>2, <1>5, <2>1, <2>2, <2>4 DEF LossInv, OnItsWay
<1>9. QED
  BY <1>7, <1>8

LEMMA LossUpgrade ==
  ASSUME Shape, Shape', LossInv, Upgrade
  PROVE  LossInv'
<1> SUFFICES ASSUME windows' = {} PROVE LossInv'
  BY DEF LossInv
<1> USE DEF stream, process, history
<1>1. kind' = kind
  BY Same DEF Upgrade, ExportState, Abandon, PassSocket, Expire
<1>2. UNCHANGED <<inbox, mid, file, hand, told, before, proc>> /\ windows = {}
  BY DEF Upgrade, ExportState, Abandon, PassSocket, Expire
<1>3. Reached' = Reached
  BY <1>1, <1>2 DEF Reached, InHand
<1>4. CASE ExportState \/ Abandon \/ Expire
  <2>1. /\ UNCHANGED <<sub, conn>> /\ held' \in {held, Nil}
        /\ exported' \in {exported, Nil, [base |-> IF sub # Nil THEN sub.base ELSE held]}
    BY <1>4 DEF ExportState, Abandon, Expire
  <2>2. Queue' = Queue
    BY <1>2, <2>1 DEF Queue
  <2> DEFINE way == Reached \cup Tells(kind, Queue, Len(Queue))
  <2>3. /\ sub # Nil => F(kind, sub.base) \subseteq way
        /\ conn # "done" => F(kind, held) \subseteq way /\ (exported # Nil => F(kind, exported.base) \subseteq way)
    BY <1>2 DEF LossInv, OnItsWay
  <2>4. conn' # "done" => F(kind, held') \subseteq way /\ (exported' # Nil => F(kind, exported'.base) \subseteq way)
    BY <2>1, <2>3, NoFacts
  <2>5. QED
    BY <1>1, <1>2, <1>3, <2>1, <2>2, <2>3, <2>4 DEF LossInv, OnItsWay
<1>5. CASE PassSocket
  <2>1. /\ exported # Nil /\ held' = exported.base /\ sub' = Nil /\ exported' = Nil
        /\ conn' \in {conn, "done"}
        /\ sub # Nil => Torn = {} /\ Carried(sub.out) \cap Facts(exported.base) = {}
    BY <1>5 DEF PassSocket, Stops, Cuts
  <2>2. Ahead(kind, inbox, Reached, mid, file)
    BY <1>2, <2>1, AheadEnds DEF LossInv
  <2>3. Queue' = inbox
    BY <1>2, <2>1, QueueWas
  <2>4. conn' # "done" => F(kind, held') \subseteq Reached \cup Tells(kind, inbox, Len(inbox))
    <3> SUFFICES ASSUME conn' # "done"
                 PROVE  F(kind, held') \subseteq Reached \cup Tells(kind, inbox, Len(inbox))
      OBVIOUS
    <3>1. F(kind, held') \subseteq Reached \cup Tells(kind, Queue, Len(Queue))
      BY <1>2, <2>1 DEF LossInv, OnItsWay
    <3>2. CASE sub = Nil
      BY <3>1, <3>2, QueueShape
    <3>3. CASE sub # Nil
      <4> DEFINE out == sub.out
      <4>1. inbox \in Streams /\ out \in Streams /\ Queue = inbox \o out
        BY <3>3, QueueShape
      <4>2. Tells(kind, out, Len(out)) \cap F(kind, held') = {}
        BY <2>1, <3>3, <4>1, FactNames
      <4> HIDE DEF out
      <4>3. Tells(kind, inbox \o out, Len(inbox \o out))
              = Tells(kind, inbox, Len(inbox)) \cup Tells(kind, out, Len(out))
        BY <4>1, TellsWhole
      <4>4. QED
        BY <3>1, <4>1, <4>2, <4>3
    <3>4. QED
      BY <3>2, <3>3
  <2>5. QED
    BY <1>1, <1>2, <1>3, <2>1, <2>2, <2>3, <2>4 DEF LossInv, OnItsWay
<1>6. QED
  BY <1>4, <1>5 DEF Upgrade

LEMMA LossStream ==
  ASSUME Shape, Shape', LossInv, StreamSteps
  PROVE  LossInv'
<1> SUFFICES ASSUME windows' = {} PROVE LossInv'
  BY DEF LossInv
<1> USE DEF daemon, process, history
<1>1. kind' = kind
  BY Same DEF StreamSteps, Break, Reconnect, Fails
<1>2. UNCHANGED <<exported, mid, file, hand, told, before, proc, windows>>
  BY DEF StreamSteps, Break, Reconnect, Fails
<1>3. Reached' = Reached
  BY <1>1, <1>2 DEF Reached, InHand
<1>4. sub = Nil /\ conn # "done" /\ Queue = inbox /\ inbox \in Streams
  BY QueueShape DEF Shape, TargetInv, StreamSteps, Break, Reconnect, Fails
<1>5. Queue' = Queue \/ \E type \in NoticeTypes : Queue' = Queue \o <<Notice(type)>>
  <2>1. {"lost", "reconnected", "restarting", "could-not-restart"} \subseteq NoticeTypes
    BY DEF NoticeTypes
  <2>2. inbox' = inbox \/ \E type \in NoticeTypes : inbox' = Append(inbox, Notice(type))
    BY <2>1 DEF StreamSteps, Break, Reconnect, Fails
  <2>3. Queue' = inbox'
    <3>1. CASE Reconnect
      <4>1. sub'.out = <<>>
        BY <3>1 DEF Reconnect, NewSub
      <4>2. QED
        BY <4>1, QueueWas, Joins
    <3>2. CASE ~Reconnect
      BY <1>4, <3>2, QueueWas DEF StreamSteps, Break, Fails
    <3>3. QED
      BY <3>1, <3>2
  <2>4. QED
    BY <1>4, <2>2, <2>3, Noticed
<1>6. /\ Tells(kind, Queue', Len(Queue')) = Tells(kind, Queue, Len(Queue))
      /\ Ahead(kind, Queue', Reached, mid, file)
  <2>1. Ahead(kind, Queue, Reached, mid, file)
    BY <1>2 DEF LossInv
  <2>2. ASSUME NEW type \in NoticeTypes, Queue' = Queue \o <<Notice(type)>>
        PROVE  /\ Tells(kind, Queue', Len(Queue')) = Tells(kind, Queue, Len(Queue))
               /\ Ahead(kind, Queue', Reached, mid, file)
    BY <1>4, <2>1, <2>2, NoticeTells
  <2>3. QED
    BY <1>5, <2>1, <2>2
<1> DEFINE way == Reached \cup Tells(kind, Queue, Len(Queue))
<1>7. /\ F(kind, held) \subseteq way /\ (exported # Nil => F(kind, exported.base) \subseteq way)
      /\ F(kind, proc.base) \subseteq way
  BY <1>2, <1>4 DEF LossInv, OnItsWay, Reached
<1>8. \/ sub' = Nil /\ held' = held
      \/ held' = Nil /\ sub'.base \in {held, Seeded(proc.base)}
  BY <1>4 DEF StreamSteps, Break, Reconnect, Fails, NewSub
<1>9. F(kind, Seeded(proc.base)) \subseteq way /\ F(kind, Nil) = {}
  BY <1>7, SeedFacts, NoFacts
<1>10. (sub' # Nil => F(kind, sub'.base) \subseteq way) /\ F(kind, held') \subseteq way
  BY <1>7, <1>8, <1>9
<1>11. F(kind, proc.base) \subseteq before \cup told
  BY <1>2 DEF LossInv
<1> HIDE DEF way
<1>12. QED
  BY <1>1, <1>2, <1>3, <1>6, <1>7, <1>10, <1>11 DEF LossInv, OnItsWay, way

LEMMA LossTake ==
  ASSUME Shape, Shape', LossInv, Take
  PROVE  LossInv'
<1> SUFFICES ASSUME windows' = {} PROVE LossInv'
  BY DEF LossInv
<1> USE DEF daemon, stream
<1> DEFINE u == Head(inbox)
           way == Reached \cup Tells(kind, Queue, Len(Queue))
<1>1. kind' = kind
  BY Same DEF Take
<1>2. /\ inbox # <<>> /\ hand = Nil /\ hand' = u /\ mid' = u.more /\ inbox' = Tail(inbox)
      /\ UNCHANGED <<sub, held, exported, conn, told, before, windows>> /\ windows = {}
      /\ file' = file \/ file' = u.status
  BY DEF Take, Save, Snap
<1>3. proc'.base = proc.base
  <2>1. proc \in ProcessType
    BY DEF Shape, ProcessInv
  <2>2. QED
    BY <2>1 DEF Take, ProcessType
<1>4. u # Nil /\ u \in Updates
  <2>1. u \in Updates
    BY <1>2, QueueShape, Takes, Joins
  <2>2. QED
    BY <2>1, NilAssumption
<1>5. Queue \in Streams /\ Queue # <<>> /\ Head(Queue) = u /\ Queue' = Tail(Queue)
  <2>1. CASE sub = Nil
    BY <1>2, <2>1, QueueShape, QueueWas
  <2>2. CASE sub # Nil
    <3> DEFINE out == sub.out
               q == inbox
    <3>1. q \in Streams /\ out \in Streams /\ q # <<>> /\ Queue = q \o out
      BY <1>2, <2>2, QueueShape
    <3>2. Queue' = Tail(q) \o out
      BY <1>2, <2>2, QueueWas
    <3> HIDE DEF out, q
    <3>3. q \o out # <<>> /\ Head(q \o out) = Head(q) /\ Tail(q \o out) = Tail(q) \o out
          /\ q \o out \in Streams
      BY <3>1, Takes, Joins
    <3>4. QED
      BY <3>1, <3>2, <3>3 DEF q
  <2>3. QED
    BY <2>1, <2>2
<1>6. Reached' = Reached \cup U(kind, u)
  BY <1>1, <1>2, <1>4 DEF Reached, InHand
<1> HIDE DEF u
<1>7. Ahead(kind, Queue', Reached', mid', file')
  <2>1. Ahead(kind, Queue, Reached, mid, file)
    BY <1>2 DEF LossInv
  <2> DEFINE q == Queue
             p == Reached
  <2>2. q \in Streams /\ q # <<>> /\ Ahead(kind, q, p, mid, file) /\ (file' = file \/ file' = Head(q).status)
    BY <1>2, <1>5, <2>1
  <2> HIDE DEF q, p
  <2>3. Ahead(kind, Tail(q), p \cup U(kind, Head(q)), Head(q).more, file')
    BY <2>2, AheadTail
  <2>4. QED
    BY <1>1, <1>2, <1>5, <1>6, <2>3 DEF q, p
<1>8. Reached' \cup Tells(kind, Queue', Len(Queue')) = way
  <2> DEFINE q == Queue
             n == Len(Tail(q))
  <2>1. q \in Streams /\ q # <<>>
    BY <1>5
  <2> HIDE DEF q
  <2>2. n \in 0..Len(Tail(q)) /\ n + 1 = Len(q)
    BY <2>1, TailAt
  <2> HIDE DEF n
  <2>3. Tells(kind, q, n + 1) = U(kind, Head(q)) \cup Tells(kind, Tail(q), n)
    BY <2>1, <2>2, TellsTail
  <2>4. Tells(kind, Queue, Len(Queue)) = U(kind, u) \cup Tells(kind, Queue', Len(Queue'))
    BY <1>5, <2>2, <2>3 DEF q, n
  <2>5. QED
    BY <1>6, <2>4
<1>9. /\ sub # Nil => F(kind, sub.base) \subseteq way
      /\ conn # "done" => F(kind, held) \subseteq way /\ (exported # Nil => F(kind, exported.base) \subseteq way)
      /\ F(kind, proc.base) \subseteq before \cup told
  BY <1>2 DEF LossInv, OnItsWay
<1> HIDE DEF way
<1>10. QED
  BY <1>1, <1>2, <1>3, <1>7, <1>8, <1>9 DEF LossInv, OnItsWay

\* Of an empty queue between two batches, the cursor is told.
LEMMA AheadNone ==
  ASSUME NEW k, NEW p, NEW m, NEW f
  PROVE  /\ Ahead(k, <<>>, p, m, f) <=> F(k, f) \subseteq p
         /\ \A q \in Streams : Ahead(k, q, p, m, f) /\ Settled(q, 0, m) => F(k, f) \subseteq p
<1>1. Tells(k, <<>>, 0) = {} /\ Len(<<>>) = 0
  BY TellsNone
<1>2. ASSUME NEW q \in Streams, Ahead(k, q, p, m, f), Settled(q, 0, m) PROVE F(k, f) \subseteq p
  <2>1. 0 \in 0..Len(q)
    BY EmptySeq DEF Streams
  <2>2. Tells(k, q, 0) = {}
    BY TellsNone
  <2>3. QED
    BY <1>2, <2>1, <2>2 DEF Ahead
<1>3. 0..Len(<<>>) = {0} /\ 1..0 = {} /\ Settled(<<>>, 0, m)
  BY <1>1 DEF Settled
<1>4. QED
  BY <1>1, <1>2, <1>3 DEF Ahead

LEMMA LossLeaves ==
  ASSUME Shape, Shape', LossInv, NEW p, NEW code, NEW lost, Leaves(p, code, lost), p \in ProcessType,
         p.base = proc.base, UNCHANGED <<target, file, before>>, windows' = {},
         told' \cup before = Reached, Settled(Queue, 0, mid)
  PROVE  LossInv'
<1>1. kind' = kind /\ UNCHANGED <<file, before>>
  BY Same
<1>2. /\ windows = {} /\ conn' = "done" /\ inbox' = <<>> /\ sub' = Nil /\ hand' = Nil /\ mid' = FALSE
      /\ proc' = [p EXCEPT !.on = FALSE, !.exit = code]
  BY DEF Leaves
<1>3. proc'.base = proc.base
  BY <1>2 DEF ProcessType
<1>4. Queue' = <<>> /\ Reached' = Reached
  BY <1>1, <1>2, QueueWas DEF Reached, InHand
<1>5. F(kind, file) \subseteq Reached
  BY <1>2, AheadNone, QueueShape DEF LossInv
<1>6. Ahead(kind, <<>>, Reached, FALSE, file)
  BY <1>5, AheadNone
<1>7. F(kind, proc.base) \subseteq before \cup told
  BY <1>2 DEF LossInv
<1>8. told \subseteq Reached
  BY DEF Reached
<1>9. before \cup told \subseteq before' \cup told'
  BY <1>1, <1>8 DEF Reached
<1>10. QED
  BY <1>1, <1>2, <1>3, <1>4, <1>6, <1>7, <1>9 DEF LossInv

LEMMA LossGoes ==
  ASSUME Shape, Shape', LossInv, Finish \/ Timeout \/ Kill
  PROVE  LossInv'
<1> SUFFICES ASSUME windows' = {} PROVE LossInv'
  BY DEF LossInv
<1>1. UNCHANGED <<target, file, before, told>> /\ proc \in ProcessType
  BY DEF Finish, Timeout, Kill, EndsWith, Shape, ProcessInv
<1>2. hand = Nil /\ Settled(Queue, 0, mid)
  <2>1. CASE Finish
    <3>1. hand = Nil /\ inbox = <<>> /\ sub = Nil
      BY <2>1 DEF Finish, Shape, TargetInv
    <3>2. Queue = <<>>
      BY <3>1, QueueShape
    <3>3. QED
      BY <3>1, <3>2 DEF Settled
  <2>2. CASE Timeout
    BY <2>2 DEF Timeout, EndsWith, Leaves, Settled
  <2>3. CASE Kill
    BY <2>3 DEF Kill, Leaves, Settled
  <2>4. QED
    BY <2>1, <2>2, <2>3
<1>3. told' \cup before = Reached
  BY <1>1, <1>2 DEF Reached, InHand
<1>4. PICK p, code, lost : Leaves(p, code, lost) /\ p \in ProcessType /\ p.base = proc.base
  <2>1. CASE Finish
    BY <1>1, <2>1 DEF Finish, EndsWith
  <2>2. CASE Timeout
    <3> DEFINE p == [proc EXCEPT !.timedOut = TRUE]
               lost == IF mid THEN {"batch"} ELSE {}
    <3>1. Leaves(p, ExitCode(p), lost) /\ p \in ProcessType /\ p.base = proc.base
      BY <1>1, <2>2, Sets DEF Timeout, EndsWith
    <3> HIDE DEF p, lost
    <3>2. QED
      BY <3>1
  <2>3. CASE Kill
    BY <1>1, <2>3 DEF Kill
  <2>4. QED
    BY <2>1, <2>2, <2>3
<1>5. QED
  BY <1>1, <1>2, <1>3, <1>4, LossLeaves

LEMMA LossShow ==
  ASSUME Shape, Shape', LossInv, NEW ok \in BOOLEAN, Show(ok)
  PROVE  LossInv'
<1> SUFFICES ASSUME windows' = {} PROVE LossInv'
  BY DEF LossInv
<1> DEFINE q == [proc EXCEPT !.met = @ \/ Fires(hand), !.failed = @ \/ ~ok]
<1>1. hand # Nil /\ UNCHANGED <<target, file, before>> /\ proc \in ProcessType /\ windows = {}
  BY DEF Show, Leaves, Shape, ProcessInv
<1>2. ok = TRUE /\ ~proc.failed
  BY <1>1 DEF Show, Leaves, Shape, ProcessInv
<1>3. ~q.failed /\ q.base = proc.base /\ q \in ProcessType
  BY <1>1, <1>2, ShowSets
<1>4. told' = told \cup U(kind, hand)
  BY <1>3, FactNames DEF Show
<1>5. told' \cup before = Reached /\ mid = hand.more
  BY <1>1, <1>4 DEF Reached, InHand, Shape, ValueInv
<1>6. CASE q.met /\ ~hand.more
  <2> DEFINE lost == IF ok THEN {} ELSE {"output"}
  <2>1. Leaves(q, ExitCode(q), lost)
    BY <1>6 DEF Show
  <2>2. Settled(Queue, 0, mid)
    BY <1>5, <1>6 DEF Settled
  <2> HIDE DEF q, lost
  <2>3. QED
    BY <1>1, <1>3, <1>5, <2>1, <2>2, LossLeaves
<1>7. CASE ~(q.met /\ ~hand.more)
  <2>1. kind' = kind
    BY <1>1, Same
  <2>2. proc' = q /\ hand' = Nil /\ UNCHANGED <<inbox, mid, held, exported, conn, sub>>
    BY <1>2, <1>7 DEF Show
  <2> HIDE DEF q
  <2>3. Queue' = Queue /\ Reached' = Reached
    BY <1>1, <1>5, <2>1, <2>2 DEF Queue, Reached, InHand
  <2>4. F(kind, proc'.base) \subseteq before' \cup told'
    BY <1>1, <1>3, <1>4, <2>2 DEF LossInv
  <2>5. QED
    BY <1>1, <2>1, <2>2, <2>3, <2>4 DEF LossInv, OnItsWay
<1>8. QED
  BY <1>6, <1>7

LEMMA AheadPrefix ==
  ASSUME NEW k, NEW q \in Streams, NEW p, NEW m, NEW f, Ahead(k, q, p, m, f),
         NEW n \in 0..Len(q), NEW s \in Streams, Len(s) = n, \A i \in 1..n : s[i] = q[i],
         Tells(k, s, n) = Tells(k, q, Len(q))
  PROVE  Ahead(k, s, p, m, f)
<1>1. Len(q) \in Nat /\ n \in Nat /\ (q = <<>> <=> Len(q) = 0) /\ (s = <<>> <=> n = 0)
  BY EmptySeq DEF Streams
<1>2. ASSUME NEW j \in 0..Len(s), Settled(s, j, m)
      PROVE  /\ F(k, f) \subseteq p \cup Tells(k, s, j)
             /\ \A i \in 1..j : F(k, s[i].status) \subseteq p \cup Tells(k, s, j)
  <2>1. j \in 0..Len(q) /\ 1..j \subseteq 1..n /\ Len(q) \in 0..Len(q)
    BY <1>1
  <2>2. CASE j = Len(s)
    <3>1. Settled(q, Len(q), m)
      BY <1>1 DEF Settled
    <3>2. /\ F(k, f) \subseteq p \cup Tells(k, q, Len(q))
          /\ \A i \in 1..Len(q) : F(k, q[i].status) \subseteq p \cup Tells(k, q, Len(q))
      BY <2>1, <3>1 DEF Ahead
    <3>3. 1..n \subseteq 1..Len(q)
      BY <1>1
    <3>4. QED
      BY <2>2, <3>2, <3>3
  <2>3. CASE j # Len(s)
    <3>1. Settled(q, j, m)
      <4>1. CASE j = 0
        BY <1>1, <1>2, <2>3, <4>1 DEF Settled
      <4>2. CASE j # 0
        <5>1. j \in 1..n /\ s[j] = q[j]
          BY <1>1, <4>2
        <5>2. QED
          BY <1>2, <2>3, <4>2, <5>1 DEF Settled
      <4>3. QED
        BY <4>1, <4>2
    <3>2. /\ F(k, f) \subseteq p \cup Tells(k, q, j)
          /\ \A i \in 1..j : F(k, q[i].status) \subseteq p \cup Tells(k, q, j)
      BY <2>1, <3>1 DEF Ahead
    <3>3. Tells(k, s, j) = Tells(k, q, j)
      BY <2>1 DEF Tells
    <3>4. QED
      BY <2>1, <3>2, <3>3
  <2>4. QED
    BY <2>2, <2>3
<1>3. QED
  BY <1>2 DEF Ahead

\* What a start has the process begin with.
LEMMA Begins ==
  ASSUME Shape, NEW o \in Invocations, Starts(o)
  PROVE  /\ ~proc.on /\ hand = Nil /\ ~mid /\ held = Nil /\ sub = Nil /\ inbox = <<>> /\ Queue = <<>>
         /\ InHand = {} /\ Reached = before \cup told /\ (exported # Nil => exported.base = Nil)
         /\ UNCHANGED <<target, held, exported, hand, mid, file, told>> /\ kind' = kind
         /\ proc'.opts = o /\ proc'.base = Baseline(o) /\ ~proc'.met /\ ~proc'.failed
         /\ proc'.exit = Nil /\ o # Nil /\ proc'.on
         /\ (proc.opts # Nil => o = proc.opts /\ o.named)
         /\ \/ o.seeded = Nil /\ before' = before /\ Baseline(o) = file
            \/ /\ o.seeded # Nil /\ before' = F(kind, Baseline(o)) /\ proc.opts = Nil
               /\ before = {} /\ told = {} /\ file = Nil /\ ~o.named
<1>1. /\ ~proc.on /\ (proc.opts # Nil => o = proc.opts /\ o.named) /\ Validate(o)
      /\ o.seeded # Nil => o.seeded <= items
      /\ proc' = [NoProcess EXCEPT !.opts = o, !.base = Baseline(o), !.on = TRUE]
      /\ UNCHANGED <<target, held, exported, hand, mid, file, told>>
      /\ before' = IF o.seeded # Nil THEN Facts(Baseline(o)) ELSE before
  BY DEF Starts, attachDaemon, attachRunningDaemon
<1>2. hand = Nil /\ ~mid /\ held = Nil /\ sub = Nil /\ inbox = <<>> /\ (exported # Nil => exported.base = Nil)
  BY <1>1 DEF Shape, TargetInv, ProcessInv
<1>3. Queue = <<>>
  BY <1>2, QueueShape
<1>4. InHand = {} /\ Reached = before \cup told
  BY <1>2 DEF InHand, Reached
<1>5. o # Nil
  BY <1>1, Based
<1>6. proc'.opts = o /\ proc'.base = Baseline(o) /\ ~proc'.met /\ ~proc'.failed /\ proc'.exit = Nil /\ proc'.on
  BY <1>1 DEF NoProcess
<1>7. kind' = kind
  BY <1>1, Same
<1>8. CASE o.seeded = Nil
  <2>1. before' = before /\ Baseline(o) = file
    BY <1>1, <1>8 DEF Baseline
  <2>2. QED
    BY <1>1, <1>2, <1>3, <1>4, <1>5, <1>6, <1>7, <1>8, <2>1
<1>9. CASE o.seeded # Nil
  <2>1. ~o.named
    BY <1>1, <1>9 DEF Validate
  <2>2. proc.opts = Nil
    BY <1>1, <2>1
  <2>3. before = {} /\ told = {} /\ file = Nil
    BY <2>2 DEF Shape, ProcessInv
  <2>4. before' = F(kind, Baseline(o))
    BY <1>1, <1>9, FactNames
  <2>5. QED
    BY <1>1, <1>2, <1>3, <1>4, <1>5, <1>6, <1>7, <1>9, <2>1, <2>2, <2>3, <2>4
<1>10. QED
  BY <1>8, <1>9

LEMMA LossStarts ==
  ASSUME Shape, Shape', LossInv, NEW o \in Invocations, Starts(o)
  PROVE  LossInv'
<1> SUFFICES ASSUME windows' = {} PROVE LossInv'
  BY DEF LossInv
<1> DEFINE base == Baseline(o)
<1>1. /\ held' = Nil /\ hand' = Nil /\ mid' = FALSE /\ file' = file /\ kind' = kind
      /\ exported' # Nil => exported'.base = Nil
      /\ proc'.base = base /\ Queue = <<>> /\ told' = told
  BY Begins DEF Shape, TargetInv
<1>2. windows = {} /\ Validate(o) /\ (o.seeded # Nil => o.seeded <= items)
  BY DEF Starts, attachDaemon, attachRunningDaemon
<1>3. F(kind, file) \subseteq before \cup told
  BY <1>1, <1>2, Begins, AheadNone DEF LossInv
<1>4. F(kind, base) \subseteq before' \cup told /\ F(kind, file) \subseteq before' \cup told
  BY <1>3, Begins, NoFacts
<1>5. Reached' = before' \cup told
  BY <1>1 DEF Reached, InHand
<1>6. SnapshotOf(Past, Seeded(base))
  BY <1>2, Based
<1> HIDE DEF base
<1>7. F(kind, Seeded(base)) \subseteq Reached'
  BY <1>4, <1>5, SeedFacts
<1>8. Ahead(kind, <<>>, Reached', FALSE, file)
  BY <1>4, <1>5, AheadNone
<1>9. F(kind, Nil) = {}
  BY NoFacts
<1>10. CASE ~o.once
  <2>1. /\ inbox' = inbox /\ sub' = [base |-> Seeded(base), out |-> <<>>, closed |-> FALSE]
    BY <1>10 DEF Starts, attachDaemon, NewSub, base
  <2>2. sub'.base = Seeded(base) /\ sub'.out = <<>> /\ inbox' = <<>>
    BY <2>1, Begins
  <2>3. Queue' = <<>>
    BY <2>2, QueueWas, Joins
  <2>4. QED
    BY <1>1, <1>4, <1>5, <1>7, <1>8, <1>9, <2>2, <2>3 DEF LossInv, OnItsWay
<1>11. CASE o.once
  <2> DEFINE read == ReadOnce(base)
             first == SelectInSeq(read, IsTerminal)
             some == IF on /\ first # 0 THEN SubSeq(read, 1, first) ELSE read
             now == Distill(items, ended)
  <2>1. inbox' = some /\ conn' = "done" /\ sub' = sub
        /\ windows' = windows \cup (IF Carried(read) = Carried(some) THEN {} ELSE {"terminal"})
    BY <1>11 DEF Starts, attachRunningDaemon, base
  <2>2. read \in Streams /\ QueueOf(kind, Past, read) /\ IsBatch(kind, read, Seeded(base), now)
    BY <1>6, Reads
  <2>3. first \in 0..Len(read)
    BY <2>2, First
  <2>4. Carried(read) = Carried(some)
    BY <2>1
  <2> HIDE DEF read, first, now
  <2>5. QueueOf(kind, Past, SubSeq(read, 1, first)) /\ Len(SubSeq(read, 1, first)) = first
        /\ \A i \in 1..first : SubSeq(read, 1, first)[i] = read[i]
    BY <2>2, <2>3, Prefix
  <2>6. SubSeq(read, 1, first) \in Streams
    BY <2>5 DEF QueueOf
  <2>7. Ahead(kind, read, Reached', FALSE, file)
    <3> DEFINE p == Reached'
               q == <<>>
               b == Seeded(base)
    <3>1. q \in Streams /\ Ahead(kind, q, p, FALSE, file) /\ q \o read = read
      BY <1>8, <2>2, Joins
    <3>2. F(kind, b) \subseteq p \cup Tells(kind, q, Len(q))
      BY <1>7
    <3>3. OneBatch(read, now) /\ F(kind, now) \subseteq F(kind, b) \cup Tells(kind, read, Len(read))
      BY <2>2 DEF IsBatch, OneBatch
    <3> HIDE DEF p, q, b
    <3>4. Ahead(kind, q \o read, p, FALSE, file)
      BY <2>2, <3>1, <3>2, <3>3, AheadCat
    <3>5. QED
      BY <3>1, <3>4 DEF p
  <2>8. Ahead(kind, some, Reached', FALSE, file)
    <3>1. CASE some = read
      BY <2>7, <3>1
    <3>2. CASE some = SubSeq(read, 1, first)
      <4> DEFINE s == SubSeq(read, 1, first)
                 p == Reached'
      <4>1. Carried(read) = Tells(kind, read, Len(read)) /\ Carried(s) = Tells(kind, s, Len(s))
        BY <2>2, <2>6, FactNames
      <4>2. s \in Streams /\ Len(s) = first /\ (\A i \in 1..first : s[i] = read[i])
            /\ Tells(kind, s, first) = Tells(kind, read, Len(read)) /\ some = s
            /\ Ahead(kind, read, p, FALSE, file)
        BY <2>4, <2>5, <2>6, <2>7, <3>2, <4>1
      <4> HIDE DEF s, p, some
      <4>3. Ahead(kind, s, p, FALSE, file)
        BY <2>2, <2>3, <4>2, AheadPrefix
      <4>4. QED
        BY <4>2, <4>3 DEF p
    <3>3. QED
      BY <3>1, <3>2
  <2> HIDE DEF some
  <2>9. sub' = Nil
    BY <2>1, Begins
  <2>10. Queue' = some
    BY <2>1, <2>9, QueueWas
  <2>11. QED
    BY <1>1, <1>4, <2>1, <2>8, <2>9, <2>10 DEF LossInv, OnItsWay
<1>12. QED
  BY <1>10, <1>11

LEMMA LossNext ==
  ASSUME Shape, Shape', LossInv, [Next]_vars
  PROVE  LossInv'
<1>1. CASE HubSteps
  BY <1>1, LossPoll, LossSend, LossEnds DEF HubSteps
<1>2. CASE Crash
  BY <1>2, LossEnds
<1>3. CASE Upgrade
  BY <1>3, LossUpgrade
<1>4. CASE StreamSteps
  BY <1>4, LossStream
<1>5. CASE ProcessSteps
  BY <1>5, LossTake, LossShow, LossGoes DEF ProcessSteps
<1>6. CASE Changes \/ Deadline \/ UNCHANGED vars
  <2>1. UNCHANGED <<kind, sub, held, exported, conn, inbox, hand, mid, file, told, before, windows>>
    BY <1>6 DEF Changes, Deadline, vars, target, daemon, stream, process, history
  <2>2. proc'.base = proc.base
    <3>1. CASE Deadline
      BY <3>1, Sets DEF Deadline, Shape, ProcessInv
    <3>2. CASE ~Deadline
      BY <1>6, <3>2 DEF Changes, vars, process
    <3>3. QED
      BY <3>1, <3>2
  <2>3. Queue' = Queue /\ Reached' = Reached
    BY <2>1 DEF Queue, Reached, InHand
  <2>4. QED
    BY <2>1, <2>2, <2>3 DEF LossInv, OnItsWay
<1>7. CASE \E o \in Invocations : Starts(o)
  BY <1>7, LossStarts
<1>8. CASE Cancel \/ Kill
  BY <1>8, LossEnds, LossGoes
<1>9. QED
  BY <1>1, <1>2, <1>3, <1>4, <1>5, <1>6, <1>7, <1>8 DEF Next, Operator

LEMMA LossInit ==
  ASSUME Init
  PROVE  LossInv
<1>1. inbox = <<>> /\ sub = Nil /\ conn = "done" /\ file = Nil /\ proc.base = Nil
  BY DEF Init, NoProcess
<1>2. Queue = <<>>
  BY <1>1, ShapeInit, QueueShape
<1>3. F(kind, Nil) = {}
  BY NoFacts
<1>4. Ahead(kind, <<>>, Reached, mid, Nil)
  BY <1>3, AheadNone
<1>5. QED
  BY <1>1, <1>2, <1>3, <1>4 DEF LossInv

----------------------------------------------------------------------------
\* Nothing twice.

LEMMA FreshLess ==
  ASSUME NEW k, NEW q, NEW a, NEW b, b \subseteq a, Fresh(k, q, a), Knows(k, q, a)
  PROVE  Fresh(k, q, b) /\ Knows(k, q, b)
BY DEF Fresh, Knows

LEMMA FreshNone ==
  ASSUME NEW k, NEW a
  PROVE  Fresh(k, <<>>, a) /\ Knows(k, <<>>, a) /\ Tells(k, <<>>, Len(<<>>)) = {}
<1>1. Len(<<>>) = 0 /\ 1..0 = {}
  BY TellsNone
<1>2. QED
  BY <1>1, TellsNone DEF Fresh, Knows

LEMMA FreshPrefix ==
  ASSUME NEW k, NEW q \in Streams, NEW a, Fresh(k, q, a), Knows(k, q, a),
         NEW n \in 0..Len(q), NEW s, Len(s) = n, \A i \in 1..n : s[i] = q[i]
  PROVE  Fresh(k, s, a) /\ Knows(k, s, a)
<1>1. 1..n \subseteq 1..Len(q) /\ n \in Nat
  BY EmptySeq DEF Streams
<1>2. Fresh(k, s, a)
  BY <1>1 DEF Fresh
<1>3. ASSUME NEW i \in 1..n PROVE Tells(k, s, i) = Tells(k, q, i)
  BY <1>1 DEF Tells
<1>4. Knows(k, s, a)
  BY <1>1, <1>3 DEF Knows
<1>5. QED
  BY <1>2, <1>4

\* What was unsent goes.
LEMMA FreshEnds ==
  ASSUME Shape, NEW a, Fresh(kind, Queue, a), Knows(kind, Queue, a)
  PROVE  /\ Fresh(kind, inbox, a) /\ Knows(kind, inbox, a)
         /\ Tells(kind, inbox, Len(inbox)) \subseteq Tells(kind, Queue, Len(Queue))
<1>1. CASE sub = Nil
  BY <1>1, QueueShape
<1>2. CASE sub # Nil
  <2> DEFINE out == sub.out
             q == inbox
  <2>1. q \in Streams /\ out \in Streams /\ Queue = q \o out
    BY <1>2, QueueShape
  <2> HIDE DEF out, q
  <2>2. Fresh(kind, q \o out, a) /\ Knows(kind, q \o out, a)
    BY <2>1
  <2>3. Fresh(kind, q, a) /\ Knows(kind, q, a)
    BY <2>1, <2>2, FreshCut
  <2>4. Tells(kind, q \o out, Len(q \o out)) = Tells(kind, q, Len(q)) \cup Tells(kind, out, Len(out))
    BY <2>1, TellsWhole
  <2>5. QED
    BY <2>1, <2>3, <2>4 DEF q
<1>3. QED
  BY <1>1, <1>2

LEMMA RepeatPoll ==
  ASSUME Shape, Shape', RepeatInv, Poll
  PROVE  RepeatInv'
<1> SUFFICES ASSUME ~again' PROVE RepeatInv'
  BY DEF RepeatInv
<1>1. /\ Past' = Past /\ kind' = kind /\ sub # Nil /\ ~again
      /\ UNCHANGED <<inbox, file, hand, told, before, held, exported, conn, proc, mid>>
  BY Same DEF Poll, stream, process, history
<1> DEFINE now == Distill(items, ended)
           base == sub.base
           c == Consume(base, now)
           B == Batch(c.events, now)
<1>2. /\ SnapshotOf(Past, base) /\ sub.out \in Streams /\ inbox \in Streams /\ Queue = inbox \o sub.out
      /\ Queue \in Streams /\ held = Nil
  BY <1>1, QueueShape DEF Shape, ValueInv, TargetInv
<1>3. c.baseline = now /\ IsBatch(kind, B, base, now) /\ now # Nil
  BY <1>2, PollTells DEF Shape
<1>4. sub'.out = sub.out \o B /\ sub'.base = now
  <2>1. sub' = [base |-> now, out |-> sub.out \o B, closed |-> c.ends]
    BY <1>3 DEF Poll
  <2>2. QED
    BY <2>1
<1> HIDE DEF now, c, B, base
<1>5. sub' # Nil
  BY <1>1 DEF Shape, TargetInv, Poll, stream
<1>6. Queue' = Queue \o B /\ B \in Streams
  <2>1. B \in Streams
    BY <1>3 DEF IsBatch
  <2>2. Queue' = inbox \o (sub.out \o B)
    BY <1>1, <1>4, <1>5, QueueWas
  <2>3. (inbox \o sub.out) \o B = inbox \o (sub.out \o B)
    BY <1>2, <2>1, CatCat
  <2>4. QED
    BY <1>2, <2>1, <2>2, <2>3
<1>7. InHand' = InHand /\ Shown' = Shown
  BY <1>1 DEF Shown, InHand
<1> DEFINE q == Queue
           a == Shown
           all == Shown \cup Tells(kind, Queue, Len(Queue))
<1>8. /\ told \cap InHand = {} /\ Fresh(kind, q, a) /\ Knows(kind, q, a) /\ all \subseteq Known(kind, base)
      /\ proc.opts # Nil /\ proc.opts.named /\ kind # "run" => a \subseteq Known(kind, file)
  BY <1>1 DEF RepeatInv, Covers, base
<1>9. /\ Tells(kind, B, Len(B)) \cap Known(kind, base) = {}
      /\ Tells(kind, B, Len(B)) \subseteq Known(kind, now)
      /\ Known(kind, base) \subseteq Known(kind, now)
      /\ Apart(kind, B) /\ \A i \in 1..Len(B) : B[i].status = now
  BY <1>3 DEF IsBatch, Apart
<1>10. /\ Tells(kind, B, Len(B)) \cap (a \cup Tells(kind, q, Len(q))) = {}
       /\ a \cup Tells(kind, q, Len(q)) \cup Tells(kind, B, Len(B)) \subseteq Known(kind, now)
  BY <1>8, <1>9
<1>11. q \in Streams
  BY <1>2
<1> HIDE DEF q, a, all
<1>12. Over(kind, B, a \cup Tells(kind, q, Len(q)) \cup Tells(kind, B, Len(B)))
  BY <1>9, <1>10 DEF Over
<1>13. Fresh(kind, q \o B, a)
  BY <1>6, <1>8, <1>9, <1>10, <1>11, FreshCat
<1>14. Knows(kind, q \o B, a)
  BY <1>6, <1>8, <1>11, <1>12, KnowsCat
<1>15. Tells(kind, q \o B, Len(q \o B)) = Tells(kind, q, Len(q)) \cup Tells(kind, B, Len(B))
  BY <1>6, <1>11, TellsWhole
<1>16. Queue' = q \o B /\ Shown' = a
  BY <1>6, <1>7 DEF q, a
<1>17. a \cup Tells(kind, q \o B, Len(q \o B)) \subseteq Known(kind, now)
  BY <1>10, <1>15
<1>18. QED
  BY <1>1, <1>2, <1>4, <1>5, <1>7, <1>8, <1>13, <1>14, <1>16, <1>17 DEF RepeatInv, Covers

LEMMA RepeatEnds ==
  ASSUME Shape, Shape', RepeatInv, Done \/ ServerTimeout \/ Cancel \/ Crash
  PROVE  RepeatInv'
<1> SUFFICES ASSUME ~again' PROVE RepeatInv'
  BY DEF RepeatInv
<1> USE DEF daemon, stream, process, history
<1>1. kind' = kind
  BY Same DEF Done, ServerTimeout, Cancel, Crash
<1>2. /\ UNCHANGED <<inbox, file, hand, told>> /\ sub' = Nil /\ ~again
      /\ conn' = "done" \/ (held' = Nil /\ exported' = Nil)
  BY DEF Done, ServerTimeout, Cancel, Crash, Stops
<1>3. proc'.opts = proc.opts
  <2>1. CASE Cancel
    BY <2>1, Sets DEF Cancel, Shape, ProcessInv
  <2>2. CASE ~Cancel
    BY <2>2 DEF Done, ServerTimeout, Crash
  <2>3. QED
    BY <2>1, <2>2
<1>4. Queue' = inbox /\ InHand' = InHand /\ Shown' = Shown
  BY <1>1, <1>2, QueueWas DEF Shown, InHand
<1>5. Fresh(kind, inbox, Shown) /\ Knows(kind, inbox, Shown)
  BY <1>2, FreshEnds DEF RepeatInv
<1>6. QED
  BY <1>1, <1>2, <1>3, <1>4, <1>5 DEF RepeatInv

LEMMA RepeatSend ==
  ASSUME Shape, Shape', RepeatInv, Send
  PROVE  RepeatInv'
<1> SUFFICES ASSUME ~again' PROVE RepeatInv'
  BY DEF RepeatInv
<1> USE DEF stream, process, history
<1> DEFINE u == Head(sub.out)
           rest == Tail(sub.out)
<1>1. kind' = kind
  BY Same DEF Send
<1>2. /\ UNCHANGED <<file, hand, told, held, exported, proc>> /\ ~again
      /\ inbox' = Append(inbox, u) /\ sub # Nil /\ sub.out # <<>>
  BY DEF Send
<1>3. /\ inbox \in Streams /\ sub.out \in Streams /\ Queue = inbox \o sub.out
  BY <1>2, QueueShape
<1>4. u \in Updates /\ rest \in Streams /\ Append(inbox, u) \o rest = Queue
  BY <1>2, <1>3, Moves
<1>5. InHand' = InHand /\ Shown' = Shown
  BY <1>1, <1>2 DEF Shown, InHand
<1>6. Append(inbox, u) \in Streams
  BY <1>3, <1>4, Joins
<1>7. Fresh(kind, Queue, Shown) /\ Knows(kind, Queue, Shown)
  BY <1>2 DEF RepeatInv
<1>8. CASE IsTerminal(u)
  <2>1. conn' = "done" /\ sub' = Nil
    BY <1>8 DEF Send
  <2> DEFINE q == Append(inbox, u)
             a == Shown
  <2>2. q \in Streams /\ Fresh(kind, q \o rest, a) /\ Knows(kind, q \o rest, a)
    BY <1>4, <1>6, <1>7
  <2>3. Queue' = q
    BY <1>2, <2>1, QueueWas
  <2> HIDE DEF u, rest, q, a
  <2>4. Fresh(kind, q, a) /\ Knows(kind, q, a)
    BY <1>4, <2>2, FreshCut
  <2>5. QED
    BY <1>1, <1>2, <1>5, <2>1, <2>3, <2>4 DEF RepeatInv, a
<1>9. CASE ~IsTerminal(u)
  <2>1. sub' = [sub EXCEPT !.out = rest] /\ conn' = conn
    BY <1>9 DEF Send
  <2>2. sub'.out = rest /\ sub'.base = sub.base
    BY <1>2, <2>1 DEF Shape, ValueInv, Subscribers
  <2>3. sub' # Nil
    BY <1>2, <2>1 DEF Shape, TargetInv, Send
  <2>4. Queue' = Queue
    BY <1>2, <1>4, <2>2, <2>3, QueueWas
  <2>5. QED
    BY <1>1, <1>2, <1>5, <2>1, <2>2, <2>3, <2>4 DEF RepeatInv, Covers
<1>10. QED
  BY <1>8, <1>9

LEMMA RepeatUpgrade ==
  ASSUME Shape, Shape', RepeatInv, Upgrade
  PROVE  RepeatInv'
<1> SUFFICES ASSUME ~again' PROVE RepeatInv'
  BY DEF RepeatInv
<1> USE DEF stream, process, history
<1>1. kind' = kind
  BY Same DEF Upgrade, ExportState, Abandon, PassSocket, Expire
<1>2. UNCHANGED <<inbox, file, hand, told, proc>> /\ ~again
  <2>1. CASE PassSocket
    BY <2>1 DEF PassSocket
  <2>2. CASE ~PassSocket
    BY <2>2 DEF Upgrade, ExportState, Abandon, Expire
  <2>3. QED
    BY <2>1, <2>2
<1>3. InHand' = InHand /\ Shown' = Shown
  BY <1>1, <1>2 DEF Shown, InHand
<1>4. CASE ExportState \/ Abandon \/ Expire
  <2>1. /\ UNCHANGED <<sub, conn>> /\ held' \in {held, Nil}
        /\ exported' \in {exported, Nil, [base |-> IF sub # Nil THEN sub.base ELSE held]}
    BY <1>4 DEF ExportState, Abandon, Expire
  <2>2. Queue' = Queue
    BY <1>2, <2>1 DEF Queue
  <2> DEFINE all == Shown \cup Tells(kind, Queue, Len(Queue))
  <2>3. /\ sub # Nil => all \subseteq Known(kind, sub.base)
        /\ held # Nil /\ conn # "done" => all \subseteq Known(kind, held)
        /\ exported # Nil /\ sub = Nil /\ conn # "done" /\ exported.base # Nil
           => all \subseteq Known(kind, exported.base)
    BY <1>2 DEF RepeatInv, Covers
  <2>4. exported' # Nil /\ sub' = Nil /\ conn' # "done" /\ exported'.base # Nil
           => all \subseteq Known(kind, exported'.base)
    BY <2>1, <2>3
  <2>5. held' # Nil /\ conn' # "done" => all \subseteq Known(kind, held')
    BY <2>1, <2>3
  <2>6. QED
    BY <1>1, <1>2, <1>3, <2>1, <2>2, <2>3, <2>4, <2>5 DEF RepeatInv, Covers
<1>5. CASE PassSocket
  <2>1. /\ exported # Nil /\ held' = exported.base /\ sub' = Nil /\ exported' = Nil
        /\ conn' \in {conn, "done"}
        /\ sub = Nil \/ sub.base = exported.base
    BY <1>5 DEF PassSocket, Stops, Cuts
  <2>2. /\ Fresh(kind, inbox, Shown) /\ Knows(kind, inbox, Shown)
        /\ Tells(kind, inbox, Len(inbox)) \subseteq Tells(kind, Queue, Len(Queue))
    BY <1>2, FreshEnds DEF RepeatInv
  <2>3. Queue' = inbox
    BY <1>2, <2>1, QueueWas
  <2>4. held' # Nil /\ conn' # "done" => Shown \cup Tells(kind, inbox, Len(inbox)) \subseteq Known(kind, held')
    BY <1>2, <2>1, <2>2 DEF RepeatInv, Covers
  <2>5. QED
    BY <1>1, <1>2, <1>3, <2>1, <2>2, <2>3, <2>4 DEF RepeatInv, Covers
<1>6. QED
  BY <1>4, <1>5 DEF Upgrade

LEMMA RepeatStream ==
  ASSUME Shape, Shape', RepeatInv, StreamSteps
  PROVE  RepeatInv'
<1> SUFFICES ASSUME ~again' PROVE RepeatInv'
  BY DEF RepeatInv
<1> USE DEF daemon, process, history
<1>1. kind' = kind
  BY Same DEF StreamSteps, Break, Reconnect, Fails
<1>2. UNCHANGED <<exported, file, hand, told, proc>> /\ ~again
  <2>1. CASE Reconnect
    BY <2>1 DEF Reconnect
  <2>2. CASE ~Reconnect
    BY <2>2 DEF StreamSteps, Break, Fails
  <2>3. QED
    BY <2>1, <2>2
<1>3. InHand' = InHand /\ Shown' = Shown
  BY <1>1, <1>2 DEF Shown, InHand
<1>4. sub = Nil /\ conn # "done" /\ Queue = inbox /\ inbox \in Streams
  BY QueueShape DEF Shape, TargetInv, StreamSteps, Break, Reconnect, Fails
<1>5. Queue' = Queue \/ \E type \in NoticeTypes : Queue' = Queue \o <<Notice(type)>>
  <2>1. {"lost", "reconnected", "restarting", "could-not-restart"} \subseteq NoticeTypes
    BY DEF NoticeTypes
  <2>2. inbox' = inbox \/ \E type \in NoticeTypes : inbox' = Append(inbox, Notice(type))
    BY <2>1 DEF StreamSteps, Break, Reconnect, Fails
  <2>3. Queue' = inbox'
    <3>1. CASE Reconnect
      <4>1. sub'.out = <<>>
        BY <3>1 DEF Reconnect, NewSub
      <4>2. QED
        BY <4>1, QueueWas, Joins
    <3>2. CASE ~Reconnect
      BY <1>4, <3>2, QueueWas DEF StreamSteps, Break, Fails
    <3>3. QED
      BY <3>1, <3>2
  <2>4. QED
    BY <1>4, <2>2, <2>3, Noticed
<1>6. /\ Tells(kind, Queue', Len(Queue')) = Tells(kind, Queue, Len(Queue))
      /\ Fresh(kind, Queue', Shown) /\ Knows(kind, Queue', Shown)
  <2>1. Fresh(kind, Queue, Shown) /\ Knows(kind, Queue, Shown)
    BY <1>2 DEF RepeatInv
  <2>2. ASSUME NEW type \in NoticeTypes, Queue' = Queue \o <<Notice(type)>>
        PROVE  /\ Tells(kind, Queue', Len(Queue')) = Tells(kind, Queue, Len(Queue))
               /\ Fresh(kind, Queue', Shown) /\ Knows(kind, Queue', Shown)
    BY <1>4, <2>1, <2>2, NoticeTells
  <2>3. QED
    BY <1>5, <2>1, <2>2
<1>7. \/ sub' = Nil /\ held' = held
      \/ held' = Nil /\ sub' # Nil /\ sub'.base = held /\ held # Nil
  <2>1. CASE Reconnect
    <3>1. held # Nil /\ held' = Nil /\ sub'.base = held /\ conn' = "up" /\ cut' = FALSE
      BY <2>1 DEF Reconnect, NewSub
    <3>2. sub' # Nil
      BY <3>1 DEF Shape, TargetInv
    <3>3. QED
      BY <3>1, <3>2
  <2>2. CASE ~Reconnect
    BY <1>4, <2>2 DEF StreamSteps, Break, Fails
  <2>3. QED
    BY <2>1, <2>2
<1> DEFINE all == Shown \cup Tells(kind, Queue, Len(Queue))
<1>8. /\ held # Nil => all \subseteq Known(kind, held)
      /\ exported # Nil /\ exported.base # Nil => all \subseteq Known(kind, exported.base)
  BY <1>2, <1>4 DEF RepeatInv, Covers
<1>9. /\ sub' # Nil => all \subseteq Known(kind, sub'.base)
      /\ held' # Nil => all \subseteq Known(kind, held')
  BY <1>7, <1>8
<1>10. all = Shown' \cup Tells(kind, Queue', Len(Queue'))
  BY <1>3, <1>6
<1>11. /\ told \cap InHand = {}
       /\ proc.opts # Nil /\ proc.opts.named /\ kind # "run" => Shown \subseteq Known(kind, file)
  BY <1>2 DEF RepeatInv
<1> HIDE DEF all
<1>12. QED
  BY <1>1, <1>2, <1>3, <1>6, <1>8, <1>9, <1>10, <1>11 DEF RepeatInv, Covers

LEMMA RepeatTake ==
  ASSUME Shape, Shape', RepeatInv, Take
  PROVE  RepeatInv'
<1> SUFFICES ASSUME ~again' PROVE RepeatInv'
  BY DEF RepeatInv
<1> USE DEF daemon, stream
<1> DEFINE u == Head(inbox)
           all == Shown \cup Tells(kind, Queue, Len(Queue))
<1>1. kind' = kind
  BY Same DEF Take
<1>2. /\ inbox # <<>> /\ hand = Nil /\ hand' = u /\ inbox' = Tail(inbox)
      /\ UNCHANGED <<sub, held, exported, conn, told>> /\ ~again
      /\ file' = Snap(u)
  BY DEF Take, Save
<1>3. proc'.opts = proc.opts
  <2>1. proc \in ProcessType
    BY DEF Shape, ProcessInv
  <2>2. QED
    BY <2>1 DEF Take, ProcessType
<1>4. UpdateOf(kind, Past, u) /\ u # Nil
  <2>1. UpdateOf(kind, Past, u)
    BY <1>2, QueueParts DEF Shape, ValueInv
  <2>2. QED
    BY <2>1, NilAssumption DEF UpdateOf
<1>5. Queue \in Streams /\ Queue # <<>> /\ Head(Queue) = u /\ Queue' = Tail(Queue)
  <2>1. CASE sub = Nil
    BY <1>2, <2>1, QueueShape, QueueWas
  <2>2. CASE sub # Nil
    <3> DEFINE out == sub.out
               q == inbox
    <3>1. q \in Streams /\ out \in Streams /\ q # <<>> /\ Queue = q \o out
      BY <1>2, <2>2, QueueShape
    <3>2. Queue' = Tail(q) \o out
      BY <1>2, <2>2, QueueWas
    <3> HIDE DEF out, q
    <3>3. q \o out # <<>> /\ Head(q \o out) = Head(q) /\ Tail(q \o out) = Tail(q) \o out
          /\ q \o out \in Streams
      BY <3>1, Takes, Joins
    <3>4. QED
      BY <3>1, <3>2, <3>3 DEF q
  <2>3. QED
    BY <2>1, <2>2
<1>6. InHand = {} /\ Shown = told /\ InHand' = U(kind, u) /\ Shown' = told \cup U(kind, u)
  BY <1>1, <1>2, <1>4 DEF Shown, InHand
<1> HIDE DEF u
<1>7. /\ Fresh(kind, Queue', Shown') /\ Knows(kind, Queue', Shown')
      /\ told \cap U(kind, u) = {}
      /\ u.status # Nil => told \cup U(kind, u) \subseteq Known(kind, u.status)
  <2> DEFINE q == Queue
             a == Shown
  <2>1. q \in Streams /\ q # <<>> /\ Fresh(kind, q, a) /\ Knows(kind, q, a)
    BY <1>2, <1>5 DEF RepeatInv
  <2> HIDE DEF q, a
  <2>2. /\ Fresh(kind, Tail(q), a \cup U(kind, Head(q))) /\ a \cap U(kind, Head(q)) = {}
        /\ Knows(kind, Tail(q), a \cup U(kind, Head(q)))
        /\ Head(q).status # Nil => a \cup U(kind, Head(q)) \subseteq Known(kind, Head(q).status)
    BY <2>1, FreshTail, KnowsTail
  <2>3. QED
    BY <1>5, <1>6, <2>2 DEF q, a
<1>8. Shown' \cup Tells(kind, Queue', Len(Queue')) = all
  <2> DEFINE q == Queue
             n == Len(Tail(q))
  <2>1. q \in Streams /\ q # <<>>
    BY <1>5
  <2> HIDE DEF q
  <2>2. n \in 0..Len(Tail(q)) /\ n + 1 = Len(q)
    BY <2>1, TailAt
  <2> HIDE DEF n
  <2>3. Tells(kind, q, n + 1) = U(kind, Head(q)) \cup Tells(kind, Tail(q), n)
    BY <2>1, <2>2, TellsTail
  <2>4. Tells(kind, Queue, Len(Queue)) = U(kind, u) \cup Tells(kind, Queue', Len(Queue'))
    BY <1>5, <2>2, <2>3 DEF q, n
  <2>5. QED
    BY <1>6, <2>4
<1>9. /\ sub # Nil => all \subseteq Known(kind, sub.base)
      /\ held # Nil /\ conn # "done" => all \subseteq Known(kind, held)
      /\ exported # Nil /\ sub = Nil /\ conn # "done" /\ exported.base # Nil
         => all \subseteq Known(kind, exported.base)
  BY <1>2 DEF RepeatInv, Covers
<1>10. proc.opts # Nil /\ proc.opts.named /\ kind # "run" => Shown' \subseteq Known(kind, file')
  <2>1. CASE u.status = Nil
    <3>1. U(kind, u) = {} /\ file' = file
      BY <1>2, <1>4, <2>1 DEF UpdateOf, Snap
    <3>2. QED
      BY <1>2, <1>6, <3>1 DEF RepeatInv
  <2>2. CASE u.status # Nil
    BY <1>2, <1>6, <1>7, <2>2 DEF Snap
  <2>3. QED
    BY <2>1, <2>2
<1>11. told' \cap InHand' = {}
  BY <1>2, <1>6, <1>7
<1> HIDE DEF all
<1>12. QED
  BY <1>1, <1>2, <1>3, <1>7, <1>8, <1>9, <1>10, <1>11 DEF RepeatInv, Covers

LEMMA RepeatLeaves ==
  ASSUME Shape, Shape', RepeatInv, NEW p, NEW code, NEW lost, Leaves(p, code, lost), p \in ProcessType,
         p.opts = proc.opts, UNCHANGED <<target, file, again>>, told' \subseteq Shown
  PROVE  RepeatInv'
<1> SUFFICES ASSUME ~again' PROVE RepeatInv'
  BY DEF RepeatInv
<1>1. kind' = kind /\ file' = file /\ ~again
  BY Same
<1>2. /\ conn' = "done" /\ inbox' = <<>> /\ sub' = Nil /\ hand' = Nil
      /\ proc' = [p EXCEPT !.on = FALSE, !.exit = code]
  BY DEF Leaves
<1>3. proc'.opts = proc.opts
  BY <1>2 DEF ProcessType
<1>4. Queue' = <<>> /\ InHand' = {} /\ Shown' \subseteq Shown
  BY <1>1, <1>2, QueueWas DEF Shown, InHand
<1>5. Fresh(kind, <<>>, Shown') /\ Knows(kind, <<>>, Shown')
  BY FreshNone
<1>6. proc.opts # Nil /\ proc.opts.named /\ kind # "run" => Shown \subseteq Known(kind, file)
  BY <1>1 DEF RepeatInv
<1>7. QED
  BY <1>1, <1>2, <1>3, <1>4, <1>5, <1>6 DEF RepeatInv

LEMMA RepeatGoes ==
  ASSUME Shape, Shape', RepeatInv, Finish \/ Timeout \/ Kill
  PROVE  RepeatInv'
<1>1. UNCHANGED <<target, file, told, again>> /\ proc \in ProcessType
  BY DEF Finish, Timeout, Kill, EndsWith, Shape, ProcessInv
<1>2. told' \subseteq Shown
  BY <1>1 DEF Shown
<1>3. PICK p, code, lost : Leaves(p, code, lost) /\ p \in ProcessType /\ p.opts = proc.opts
  <2>1. CASE Finish
    BY <1>1, <2>1 DEF Finish, EndsWith
  <2>2. CASE Timeout
    <3> DEFINE p == [proc EXCEPT !.timedOut = TRUE]
               lost == IF mid THEN {"batch"} ELSE {}
    <3>1. Leaves(p, ExitCode(p), lost) /\ p \in ProcessType /\ p.opts = proc.opts
      BY <1>1, <2>2, Sets DEF Timeout, EndsWith
    <3> HIDE DEF p, lost
    <3>2. QED
      BY <3>1
  <2>3. CASE Kill
    BY <1>1, <2>3 DEF Kill
  <2>4. QED
    BY <2>1, <2>2, <2>3
<1>4. QED
  BY <1>1, <1>2, <1>3, RepeatLeaves

LEMMA RepeatShow ==
  ASSUME Shape, Shape', RepeatInv, NEW ok \in BOOLEAN, Show(ok)
  PROVE  RepeatInv'
<1> SUFFICES ASSUME ~again' PROVE RepeatInv'
  BY DEF RepeatInv
<1> DEFINE q == [proc EXCEPT !.met = @ \/ Fires(hand), !.failed = @ \/ ~ok]
<1>1. hand # Nil /\ UNCHANGED <<target, file, before, again>> /\ proc \in ProcessType /\ ~again
  BY DEF Show, Shape, ProcessInv
<1>2. q.opts = proc.opts /\ q \in ProcessType
  BY <1>1, ShowSets
<1>3. told' \subseteq Shown
  BY <1>1, FactNames DEF Show, Shown, InHand
<1>4. CASE q.met /\ ~hand.more
  <2> DEFINE lost == IF ok THEN {} ELSE {"output"}
  <2>1. Leaves(q, ExitCode(q), lost)
    BY <1>4 DEF Show
  <2> HIDE DEF q, lost
  <2>2. QED
    BY <1>1, <1>2, <1>3, <2>1, RepeatLeaves
<1>5. CASE ~(q.met /\ ~hand.more)
  <2>1. kind' = kind
    BY <1>1, Same
  <2>2. /\ proc' = q /\ hand' = Nil /\ UNCHANGED <<inbox, held, exported>>
        /\ UNCHANGED <<conn, sub>> \/ (conn' = "done" /\ sub' = Nil)
    BY <1>5 DEF Show
  <2> HIDE DEF q
  <2>3. InHand' = {} /\ Shown' \subseteq Shown
    BY <1>3, <2>2 DEF Shown, InHand
  <2>4. Fresh(kind, Queue, Shown) /\ Knows(kind, Queue, Shown)
    BY <1>1 DEF RepeatInv
  <2>5. proc.opts # Nil /\ proc.opts.named /\ kind # "run" => Shown' \subseteq Known(kind, file')
    BY <1>1, <2>3 DEF RepeatInv
  <2>6. CASE UNCHANGED <<conn, sub>>
    <3>1. Queue' = Queue
      BY <2>2, <2>6 DEF Queue
    <3>2. Fresh(kind, Queue, Shown') /\ Knows(kind, Queue, Shown')
      BY <2>3, <2>4, FreshLess
    <3> DEFINE all == Shown \cup Tells(kind, Queue, Len(Queue))
    <3>3. /\ sub # Nil => all \subseteq Known(kind, sub.base)
          /\ held # Nil /\ conn # "done" => all \subseteq Known(kind, held)
          /\ exported # Nil /\ sub = Nil /\ conn # "done" /\ exported.base # Nil
             => all \subseteq Known(kind, exported.base)
      BY <1>1 DEF RepeatInv, Covers
    <3>4. Shown' \cup Tells(kind, Queue', Len(Queue')) \subseteq all
      BY <2>3, <3>1
    <3> HIDE DEF all
    <3>5. QED
      BY <1>2, <2>1, <2>2, <2>3, <2>5, <2>6, <3>1, <3>2, <3>3, <3>4 DEF RepeatInv, Covers
  <2>7. CASE conn' = "done" /\ sub' = Nil
    <3>1. Queue' = inbox
      BY <2>2, <2>7, QueueWas
    <3>2. Fresh(kind, inbox, Shown) /\ Knows(kind, inbox, Shown)
      BY <2>4, FreshEnds
    <3>3. Fresh(kind, inbox, Shown') /\ Knows(kind, inbox, Shown')
      BY <2>3, <3>2, FreshLess
    <3>4. QED
      BY <1>2, <2>1, <2>2, <2>3, <2>5, <2>7, <3>1, <3>3 DEF RepeatInv
  <2>8. QED
    BY <2>2, <2>6, <2>7
<1>6. QED
  BY <1>4, <1>5

LEMMA RepeatStarts ==
  ASSUME Shape, Shape', RepeatInv, NEW o \in Invocations, Starts(o)
  PROVE  RepeatInv'
<1> SUFFICES ASSUME ~again' PROVE RepeatInv'
  BY DEF RepeatInv
<1> DEFINE base == Baseline(o)
<1>1. /\ held' = Nil /\ hand' = Nil /\ file' = file /\ kind' = kind
      /\ exported' # Nil => exported'.base = Nil
      /\ proc'.opts = o /\ o # Nil /\ Queue = <<>> /\ told' = told
  BY Begins DEF Shape, TargetInv
<1>2. /\ ~again /\ (proc.opts = Nil \/ kind # "run") /\ Validate(o)
      /\ o.seeded # Nil => o.seeded <= items
  BY DEF Starts
<1>3. InHand' = {} /\ Shown' = told /\ Shown = told
  BY <1>1, Begins DEF InHand, Shown
<1>4. proc.opts = Nil => told = {}
  BY DEF Shape, ProcessInv
<1>5. proc.opts # Nil => /\ told \subseteq Known(kind, file) /\ base = file /\ Seeded(base) = base
  BY <1>2, <1>3, Begins DEF RepeatInv, Seeded
<1>6. told \subseteq Known(kind, Seeded(base))
  BY <1>4, <1>5
<1>7. told \subseteq Known(kind, file)
  BY <1>4, <1>5
<1>8. SnapshotOf(Past, Seeded(base))
  BY <1>2, Based
<1>9. Fresh(kind, <<>>, told) /\ Knows(kind, <<>>, told) /\ Tells(kind, <<>>, Len(<<>>)) = {}
  BY FreshNone
<1> HIDE DEF base
<1>10. CASE ~o.once
  <2>1. /\ inbox' = inbox /\ sub' = [base |-> Seeded(base), out |-> <<>>, closed |-> FALSE]
    BY <1>10 DEF Starts, attachDaemon, NewSub, base
  <2>2. sub'.base = Seeded(base) /\ sub'.out = <<>> /\ inbox' = <<>>
    BY <2>1, Begins
  <2>3. Queue' = <<>>
    BY <2>2, QueueWas, Joins
  <2>4. QED
    BY <1>1, <1>3, <1>6, <1>7, <1>9, <2>2, <2>3 DEF RepeatInv, Covers
<1>11. CASE o.once
  <2> DEFINE read == ReadOnce(base)
             first == SelectInSeq(read, IsTerminal)
             some == IF on /\ first # 0 THEN SubSeq(read, 1, first) ELSE read
             now == Distill(items, ended)
             b == Seeded(base)
  <2>1. inbox' = some /\ conn' = "done" /\ sub' = sub
    BY <1>11 DEF Starts, attachRunningDaemon, base
  <2>2. /\ read \in Streams /\ QueueOf(kind, Past, read) /\ IsBatch(kind, read, b, now) /\ now # Nil
    BY <1>8, Reads
  <2>3. first \in 0..Len(read)
    BY <2>2, First
  <2>4. told \subseteq Known(kind, b)
    BY <1>6
  <2> HIDE DEF read, first, now, b
  <2>5. QueueOf(kind, Past, SubSeq(read, 1, first)) /\ Len(SubSeq(read, 1, first)) = first
        /\ \A i \in 1..first : SubSeq(read, 1, first)[i] = read[i]
    BY <2>2, <2>3, Prefix
  <2>6. /\ Tells(kind, read, Len(read)) \cap Known(kind, b) = {}
        /\ Tells(kind, read, Len(read)) \subseteq Known(kind, now)
        /\ Known(kind, b) \subseteq Known(kind, now)
        /\ Apart(kind, read) /\ \A i \in 1..Len(read) : read[i].status = now
    BY <2>2 DEF IsBatch, Apart
  <2>7. Fresh(kind, read, told) /\ Knows(kind, read, told)
    <3> DEFINE q == <<>>
    <3>1. q \in Streams /\ q \o read = read /\ Fresh(kind, q, told) /\ Knows(kind, q, told)
          /\ Tells(kind, q, Len(q)) = {}
      BY <1>9, <2>2, Joins
    <3> HIDE DEF q
    <3>2. /\ Tells(kind, read, Len(read)) \cap (told \cup Tells(kind, q, Len(q))) = {}
          /\ told \cup Tells(kind, q, Len(q)) \cup Tells(kind, read, Len(read)) \subseteq Known(kind, now)
      BY <2>4, <2>6, <3>1
    <3>3. Over(kind, read, told \cup Tells(kind, q, Len(q)) \cup Tells(kind, read, Len(read)))
      BY <2>6, <3>2 DEF Over
    <3>4. Fresh(kind, q \o read, told)
      BY <2>2, <2>6, <3>1, <3>2, FreshCat
    <3>5. Knows(kind, q \o read, told)
      BY <2>2, <3>1, <3>3, KnowsCat
    <3>6. QED
      BY <3>1, <3>4, <3>5
  <2>8. Fresh(kind, some, told) /\ Knows(kind, some, told)
    <3>1. CASE some = read
      BY <2>7, <3>1
    <3>2. CASE some = SubSeq(read, 1, first)
      <4> DEFINE s == SubSeq(read, 1, first)
      <4>1. Len(s) = first /\ \A i \in 1..first : s[i] = read[i]
        BY <2>5
      <4>2. some = s
        BY <3>2
      <4> HIDE DEF s, some
      <4>3. Fresh(kind, s, told) /\ Knows(kind, s, told)
        BY <2>2, <2>3, <2>7, <4>1, FreshPrefix
      <4>4. QED
        BY <4>2, <4>3
    <3>3. QED
      BY <3>1, <3>2
  <2> HIDE DEF some
  <2>9. sub' = Nil
    BY <2>1, Begins
  <2>10. Queue' = some
    BY <2>1, <2>9, QueueWas
  <2>11. QED
    BY <1>1, <1>3, <1>7, <2>1, <2>8, <2>9, <2>10 DEF RepeatInv
<1>12. QED
  BY <1>10, <1>11

LEMMA RepeatNext ==
  ASSUME Shape, Shape', RepeatInv, [Next]_vars
  PROVE  RepeatInv'
<1>1. CASE HubSteps
  BY <1>1, RepeatPoll, RepeatSend, RepeatEnds DEF HubSteps
<1>2. CASE Crash
  BY <1>2, RepeatEnds
<1>3. CASE Upgrade
  BY <1>3, RepeatUpgrade
<1>4. CASE StreamSteps
  BY <1>4, RepeatStream
<1>5. CASE ProcessSteps
  BY <1>5, RepeatTake, RepeatShow, RepeatGoes DEF ProcessSteps
<1>6. CASE Changes \/ Deadline \/ UNCHANGED vars
  <2>1. UNCHANGED <<kind, sub, held, exported, conn, inbox, hand, file, told, again>>
    BY <1>6 DEF Changes, Deadline, vars, target, daemon, stream, process, history
  <2>2. proc'.opts = proc.opts
    <3>1. CASE Deadline
      BY <3>1, Sets DEF Deadline, Shape, ProcessInv
    <3>2. CASE ~Deadline
      BY <1>6, <3>2 DEF Changes, vars, process
    <3>3. QED
      BY <3>1, <3>2
  <2>3. Queue' = Queue /\ InHand' = InHand /\ Shown' = Shown
    BY <2>1 DEF Queue, Shown, InHand
  <2>4. QED
    BY <2>1, <2>2, <2>3 DEF RepeatInv, Covers
<1>7. CASE \E o \in Invocations : Starts(o)
  BY <1>7, RepeatStarts
<1>8. CASE Cancel \/ Kill
  BY <1>8, RepeatEnds, RepeatGoes
<1>9. QED
  BY <1>1, <1>2, <1>3, <1>4, <1>5, <1>6, <1>7, <1>8 DEF Next, Operator

LEMMA RepeatInit ==
  ASSUME Init
  PROVE  RepeatInv
<1>1. sub = Nil /\ held = Nil /\ exported = Nil /\ proc.opts = Nil /\ told = {} /\ inbox = <<>>
  BY DEF Init, NoProcess
<1>2. Queue = <<>>
  BY <1>1, ShapeInit, QueueShape
<1>3. Fresh(kind, <<>>, Shown) /\ Knows(kind, <<>>, Shown)
  BY FreshNone
<1>4. QED
  BY <1>1, <1>2, <1>3 DEF RepeatInv

----------------------------------------------------------------------------
\* The exit code.

LEMMA ExitHolds ==
  ASSUME ExitInv, kind = "issue", Awaits(proc.opts)
  PROVE  (Alone(proc.opts) /\ proc.met => proc.failed \/ 0 \in told) /\ (0 \in told => proc.met)
BY DEF ExitInv, Awaits

\* It is enough to look at a watch for the end of an issue.
LEMMA ExitFrom ==
  ASSUME kind' = kind,
         kind = "issue" /\ Awaits(proc'.opts) =>
           /\ Alone(proc'.opts) /\ proc'.met => proc'.failed \/ 0 \in told'
           /\ 0 \in told' => proc'.met
           /\ Alone(proc'.opts) /\ proc'.exit # Nil /\ proc'.exit = 0 /\ ~proc'.cancelled /\ ~proc'.failed => 0 \in told'
           /\ proc'.exit # Nil /\ proc'.exit = 2 => 0 \notin told',
         proc'.opts = Nil => proc'.exit = Nil
  PROVE  ExitInv'
<1>1. kind = "issue" /\ Awaits(proc'.opts) => ExitIsTrue'
  BY DEF ExitIsTrue, End, Awaits, Alone
<1>2. QED
  BY <1>1 DEF ExitInv, Awaits

LEMMA Firing ==
  ASSUME Shape, hand # Nil, kind = "issue", Awaits(proc.opts)
  PROVE  /\ 0 \in U(kind, hand) => Fires(hand)
         /\ Alone(proc.opts) /\ Fires(hand) => 0 \in U(kind, hand)
<1>1. 0 \in U(kind, hand) <=> hand.type = "issue-closed"
  BY Holds DEF UpdateOf
<1>2. AnyEvent # "issue-closed"
  BY ClientAssumption DEF EventTypes
<1>3. QED
  BY <1>1, <1>2 DEF Fires, Awaits, Alone

LEMMA ExitCodes ==
  ASSUME NEW p, Awaits(p.opts)
  PROVE  /\ ExitCode(p) = 0 => p.met \/ p.cancelled
         /\ ExitCode(p) = 2 => ~p.met
         /\ p.met => ExitCode(p) = 0
BY DEF ExitCode, Awaits

LEMMA ExitLeaves ==
  ASSUME Shape, proc.on, NEW p \in ProcessType, p.opts = proc.opts,
         NEW code \in {0, 1, 2, 137}, NEW lost, Leaves(p, code, lost), UNCHANGED target,
         code = 137 \/ code = ExitCode(p),
         kind = "issue" /\ Awaits(p.opts) => (Alone(p.opts) /\ p.met => p.failed \/ 0 \in told') /\ (0 \in told' => p.met)
  PROVE  ExitInv'
<1>1. kind' = kind
  BY Same
<1>2. proc' = [p EXCEPT !.on = FALSE, !.exit = code]
  BY DEF Leaves
<1>3. /\ proc'.opts = p.opts /\ proc'.met = p.met /\ proc'.failed = p.failed
      /\ proc'.cancelled = p.cancelled /\ proc'.exit = code
  BY <1>2, Exits
<1>4. proc.opts # Nil
  BY DEF Shape, ProcessInv
<1>5. ASSUME kind = "issue", Awaits(p.opts)
      PROVE  /\ Alone(p.opts) /\ code = 0 /\ ~p.cancelled /\ ~p.failed => 0 \in told'
             /\ code = 2 => 0 \notin told'
  <2>1. code = 0 => p.met \/ p.cancelled
    BY <1>5, ExitCodes
  <2>2. code = 2 => ~p.met
    BY <1>5, ExitCodes
  <2>3. QED
    BY <1>5, <2>1, <2>2
<1>6. QED
  BY <1>1, <1>3, <1>4, <1>5, ExitFrom

LEMMA ExitGoes ==
  ASSUME Shape, ExitInv, Finish \/ Timeout \/ Kill
  PROVE  ExitInv'
<1> USE DEF EndsWith
<1>1. UNCHANGED <<target, told>> /\ proc \in ProcessType /\ proc.on
  BY DEF Finish, Timeout, Kill, Shape, ProcessInv
<1>2. PICK p, code, lost :
        /\ Leaves(p, code, lost) /\ p \in ProcessType /\ p.opts = proc.opts /\ p.met = proc.met
        /\ p.failed = proc.failed /\ (code = 137 \/ code = ExitCode(p))
  <2>1. CASE Finish
    BY <1>1, <2>1 DEF Finish
  <2>2. CASE Timeout
    <3> DEFINE p == [proc EXCEPT !.timedOut = TRUE]
               lost == IF mid THEN {"batch"} ELSE {}
    <3>1. Leaves(p, ExitCode(p), lost) /\ p \in ProcessType /\ p.opts = proc.opts /\ p.met = proc.met
          /\ p.failed = proc.failed
      BY <1>1, <2>2, Sets DEF Timeout
    <3> HIDE DEF p, lost
    <3>2. QED
      BY <3>1
  <2>3. CASE Kill
    BY <1>1, <2>3 DEF Kill
  <2>4. QED
    BY <2>1, <2>2, <2>3
<1>3. code \in {0, 1, 2, 137}
  BY <1>2, Codes
<1>4. kind = "issue" /\ Awaits(p.opts) => (Alone(p.opts) /\ p.met => p.failed \/ 0 \in told') /\ (0 \in told' => p.met)
  BY <1>1, <1>2, ExitHolds
<1>5. QED
  BY <1>1, <1>2, <1>3, <1>4, ExitLeaves

LEMMA ExitShow ==
  ASSUME Shape, ExitInv, NEW ok \in BOOLEAN, Show(ok)
  PROVE  ExitInv'
<1> DEFINE q == [proc EXCEPT !.met = @ \/ Fires(hand), !.failed = @ \/ ~ok]
<1>1. hand # Nil /\ UNCHANGED target /\ proc \in ProcessType
  BY DEF Show, Shape, ProcessInv
<1>2. proc.on /\ proc.exit = Nil /\ proc.opts # Nil
  BY <1>1, Holds DEF Shape, ProcessInv
<1>3. /\ q \in ProcessType /\ q.opts = proc.opts /\ q.failed = (proc.failed \/ ~ok)
      /\ q.met = (proc.met \/ Fires(hand)) /\ q.exit = proc.exit
  BY <1>1, ShowSets
<1>4. told' = IF q.failed THEN told ELSE told \cup U(kind, hand)
  BY FactNames DEF Show
<1>5. kind = "issue" /\ Awaits(q.opts) => (Alone(q.opts) /\ q.met => q.failed \/ 0 \in told') /\ (0 \in told' => q.met)
  <2> SUFFICES ASSUME kind = "issue", Awaits(proc.opts)
               PROVE  (Alone(q.opts) /\ q.met => q.failed \/ 0 \in told') /\ (0 \in told' => q.met)
    BY <1>3
  <2>1. /\ 0 \in U(kind, hand) => Fires(hand)
        /\ Alone(proc.opts) /\ Fires(hand) => 0 \in U(kind, hand)
    BY <1>1, Firing
  <2>2. (Alone(proc.opts) /\ proc.met => proc.failed \/ 0 \in told) /\ (0 \in told => proc.met)
    BY ExitHolds
  <2> HIDE DEF q
  <2>3. QED
    BY <1>3, <1>4, <2>1, <2>2
<1>6. CASE q.met /\ ~hand.more
  <2> DEFINE lost == IF ok THEN {} ELSE {"output"}
  <2>1. Leaves(q, ExitCode(q), lost)
    BY <1>6 DEF Show
  <2>2. ExitCode(q) \in {0, 1, 2, 137}
    BY Codes
  <2> HIDE DEF q, lost
  <2>3. QED
    BY <1>1, <1>2, <1>3, <1>5, <2>1, <2>2, ExitLeaves
<1>7. CASE ~(q.met /\ ~hand.more)
  <2>1. kind' = kind
    BY <1>1, Same
  <2>2. proc' = q
    BY <1>7 DEF Show
  <2> HIDE DEF q
  <2>3. proc'.exit = Nil
    BY <1>2, <1>3, <2>2
  <2>4. QED
    BY <1>2, <1>3, <1>5, <2>1, <2>2, <2>3, ExitFrom
<1>8. QED
  BY <1>6, <1>7

LEMMA ExitNext ==
  ASSUME Shape, Shape', ExitInv, [Next]_vars
  PROVE  ExitInv'
<1>1. CASE Finish \/ Timeout \/ Kill
  BY <1>1, ExitGoes
<1>2. CASE \E ok \in BOOLEAN : Show(ok)
  BY <1>2, ExitShow
<1>3. CASE \E o \in Invocations : Starts(o)
  <2>1. PICK o \in Invocations : Starts(o)
    BY <1>3
  <2>2. /\ kind' = kind /\ proc'.opts = o /\ ~proc'.met /\ proc'.exit = Nil /\ told' = told
        /\ proc.opts # Nil => o.named
    BY <2>1, Begins
  <2>3. Awaits(o) => told = {}
    BY <2>2 DEF Awaits, Shape, ProcessInv
  <2>4. QED
    BY <2>2, <2>3, ExitFrom
<1>4. CASE Take \/ Deadline \/ Cancel
  <2>1. kind' = kind /\ told' = told /\ proc.on /\ proc \in ProcessType /\ proc.exit = Nil
    BY <1>4, Same DEF Take, Deadline, Cancel, history, Shape, ProcessInv
  <2>2. proc'.opts = proc.opts /\ proc'.met = proc.met /\ proc'.failed = proc.failed /\ proc'.exit = proc.exit
    <3>1. CASE Take
      BY <2>1, <3>1 DEF Take, ProcessType
    <3>2. CASE Deadline
      BY <2>1, <3>2, Sets DEF Deadline
    <3>3. CASE Cancel
      BY <2>1, <3>3, Sets DEF Cancel
    <3>4. QED
      BY <1>4, <3>1, <3>2, <3>3
  <2>3. kind = "issue" /\ Awaits(proc.opts) => (Alone(proc.opts) /\ proc.met => proc.failed \/ 0 \in told) /\ (0 \in told => proc.met)
    BY ExitHolds
  <2>4. QED
    BY <2>1, <2>2, <2>3, ExitFrom
<1>5. CASE Changes \/ HubSteps \/ Crash \/ Upgrade \/ StreamSteps \/ UNCHANGED vars
  <2>1. UNCHANGED <<kind, told, proc>>
    <3>1. CASE HubSteps
      BY <3>1 DEF HubSteps, Poll, Send, Done, ServerTimeout, target, process, history
    <3>2. CASE Upgrade
      BY <3>2 DEF Upgrade, ExportState, Abandon, PassSocket, Expire, target, process, history
    <3>3. CASE StreamSteps
      BY <3>3 DEF StreamSteps, Break, Reconnect, Fails, target, process, history
    <3>4. CASE Changes \/ Crash \/ UNCHANGED vars
      BY <3>4 DEF Changes, Crash, vars, target, process, history
    <3>5. QED
      BY <1>5, <3>1, <3>2, <3>3, <3>4
  <2>2. QED
    BY <2>1 DEF ExitInv, ExitIsTrue
<1>6. QED
  BY <1>1, <1>2, <1>3, <1>4, <1>5 DEF Next, ProcessSteps, Operator

LEMMA ExitInit ==
  ASSUME Init
  PROVE  ExitInv
BY DEF Init, NoProcess, ExitInv, Awaits

----------------------------------------------------------------------------
\* How changes may be lost.

WindowNames == windows \subseteq {"handoff", "terminal", "batch", "output"}

LEMMA WindowsNext ==
  ASSUME WindowNames, [Next]_vars
  PROVE  WindowNames'
<1> USE DEF history
<1>1. \A lost : windows' = windows \cup lost /\ lost \subseteq {"handoff", "terminal", "batch", "output"}
        => WindowNames'
  BY DEF WindowNames
<1>2. windows' = windows => WindowNames'
  BY DEF WindowNames
<1>3. CASE HubSteps
  <2>1. CASE Poll \/ Done
    BY <1>2, <2>1 DEF Poll, Done
  <2>2. CASE Send
    BY <1>1, <1>2, <2>2 DEF Send
  <2>3. CASE ServerTimeout
    BY <1>1, <2>3 DEF ServerTimeout, Torn
  <2>4. QED
    BY <1>3, <2>1, <2>2, <2>3 DEF HubSteps
<1>4. CASE Crash
  BY <1>4 DEF Crash, Torn, WindowNames
<1>5. CASE Upgrade
  <2>1. CASE PassSocket
    BY <2>1 DEF PassSocket, Torn, WindowNames
  <2>2. CASE ~PassSocket
    BY <1>2, <1>5, <2>2 DEF Upgrade, ExportState, Abandon, Expire
  <2>3. QED
    BY <2>1, <2>2
<1>6. CASE StreamSteps
  <2>1. windows' = windows
    BY <1>6 DEF StreamSteps, Break, Reconnect, Fails
  <2>2. QED
    BY <1>2, <2>1
<1>7. CASE Take \/ Changes \/ Deadline \/ UNCHANGED vars
  BY <1>2, <1>7 DEF Take, Changes, Deadline, vars
<1>8. CASE \E ok \in BOOLEAN : Show(ok)
  <2>1. windows' \in {windows, windows \cup {}, windows \cup {"output"}}
    BY <1>8 DEF Show, Leaves
  <2>2. QED
    BY <2>1 DEF WindowNames
<1>9. CASE Finish \/ Timeout \/ Kill
  <2>1. windows' \in {windows \cup {}, windows \cup {"batch"}}
    BY <1>9 DEF Finish, Timeout, Kill, EndsWith, Leaves
  <2>2. QED
    BY <2>1 DEF WindowNames
<1>10. CASE Cancel
  BY <1>10 DEF Cancel, Torn, WindowNames
<1>11. CASE \E o \in Invocations : Starts(o)
  BY <1>11 DEF Starts, attachDaemon, attachRunningDaemon, WindowNames
<1>12. QED
  BY <1>3, <1>4, <1>5, <1>6, <1>7, <1>8, <1>9, <1>10, <1>11 DEF Next, ProcessSteps, Operator

----------------------------------------------------------------------------
\* The theorems.

IInv == Shape /\ LossInv /\ RepeatInv /\ ExitInv /\ WindowNames

LEMMA Inductive == Spec => []IInv
<1>1. Init => IInv
  BY ShapeInit, LossInit, RepeatInit, ExitInit DEF IInv, WindowNames, Init
<1>2. IInv /\ [Next]_vars => IInv'
  BY ShapeNext, LossNext, RepeatNext, ExitNext, WindowsNext DEF IInv
<1>3. QED
  BY <1>1, <1>2, PTL DEF Spec

\* The parts of a watch go together: there is a subscriber in the hub exactly
\* while the stream is up at both ends, no entry is held for a reconnect beside
\* one, what is in the channels are updates of states that the target has had,
\* and a process that is gone left nothing but its cursor file.
THEOREM ShapeAlways == Spec => []Shape
BY Inductive, PTL DEF IInv

\* Whatever the order of crashes, upgrades, reconnects, restarts and reads, every
\* change that the hub has moved its baseline past was there before, is written,
\* in hand or in a channel, unless one of the four windows opened (sub.loop of
\* hub.go, pumpWatch of backend/remote/client.go, handleUpdate of cmd/monitor.go).
THEOREM LossFree == Spec => []NothingLost
<1>1. IInv => NothingLost
  <2> SUFFICES ASSUME IInv, sub # Nil, windows \cap {"handoff", "terminal", "batch", "output"} = {}
               PROVE  Facts(sub.base) \subseteq before \cup told \cup Queued \cup Carried(sub.out)
    BY DEF NothingLost
  <2>1. windows = {} /\ Shape
    BY DEF IInv, WindowNames
  <2> DEFINE out == sub.out
             q == inbox
  <2>2. q \in Streams /\ out \in Streams /\ Queue = q \o out
    BY <2>1, QueueShape
  <2>3. F(kind, sub.base) \subseteq Reached \cup Tells(kind, Queue, Len(Queue))
    BY <2>1 DEF IInv, LossInv, OnItsWay
  <2>4. Carried(out) = Tells(kind, out, Len(out)) /\ Carried(q) = Tells(kind, q, Len(q))
    BY <2>2, FactNames
  <2>5. Facts(sub.base) = F(kind, sub.base) /\ Queued = Carried(q) \cup InHand
    BY FactNames DEF Queued, InHand
  <2> HIDE DEF out, q
  <2>6. Tells(kind, q \o out, Len(q \o out)) = Tells(kind, q, Len(q)) \cup Tells(kind, out, Len(out))
    BY <2>2, TellsWhole
  <2>7. QED
    BY <2>2, <2>3, <2>4, <2>5, <2>6 DEF Reached, out
<1>2. QED
  BY <1>1, Inductive, PTL

\* The cursor file is never ahead of what was written, but inside a batch that
\* is being written (persistFromUpdate of cmd/monitor.go saves the whole
\* status with every update of a batch, before the update is printed).
THEOREM CursorNeverAhead == Spec => []CursorIsTold
<1>1. IInv => CursorIsTold
  <2> SUFFICES ASSUME IInv, windows = {}, hand = Nil, ~mid
               PROVE  Facts(file) \subseteq before \cup told
    BY DEF CursorIsTold
  <2>1. Queue \in Streams /\ Settled(Queue, 0, mid)
    BY QueueShape DEF IInv, Settled
  <2>2. Ahead(kind, Queue, Reached, mid, file)
    BY DEF IInv, LossInv
  <2>3. F(kind, file) \subseteq Reached
    BY <2>1, <2>2, AheadNone
  <2>4. QED
    BY <2>3, FactNames DEF Reached, InHand
<1>2. QED
  BY <1>1, Inductive, PTL

\* No change is written a second time while the watch has not been set back: the
\* hub's diff, the entry held for a reconnect and the cursor each know of all
\* that was told (the consumers of monitor/consumers.go, takeResume of
\* hub/handoff.go, persistFromUpdate of cmd/monitor.go).
THEOREM ToldOnce == Spec => NothingTwice
<1>1. IInv => (hand # Nil /\ hand' = Nil /\ FactsOf(hand) \cap told # {} => again)
  BY FactNames DEF IInv, RepeatInv, InHand
<1>2. QED
  BY <1>1, Inductive, PTL DEF NothingTwice

\* The exit code of an --until watch for an issue's end says whether the end was
\* written, in whatever order the deadline, a signal, a lost reader and the end
\* of the stream come (the last returns of runMonitor, cmd/monitor.go): 2 is
\* never the answer once it was, nor 0 before it when nothing else is awaited.
THEOREM ExitSays == Spec => []ExitIsTrue
<1>1. IInv => ExitIsTrue
  <2>1. IInv /\ proc.opts = Nil => ExitIsTrue
    BY DEF IInv, Shape, ProcessInv, ExitIsTrue
  <2>2. IInv /\ proc.opts # Nil => ExitIsTrue
    BY DEF IInv, ExitInv, ExitIsTrue, Awaits
  <2>3. QED
    BY <2>1, <2>2
<1>2. QED
  BY <1>1, Inductive, PTL
=============================================================================
