------------------------------ MODULE CIWatch ------------------------------
(***************************************************************************)
(* A pull request whose checks run on GitHub and that people discuss, and  *)
(* the three readers that judge it: a watch of the pull request, a watch   *)
(* of its branch, and the repository's readiness view.  Every read is one  *)
(* GraphQL query, cut to the pages of checks the query asks for.           *)
(***************************************************************************)
EXTENDS Snapshots

CONSTANTS
  Check, App, Context,  \* a workflow's check, an app without runs, a status context
  Actions,              \* the container app that every workflow's suite belongs to
  Required,             \* the checks the ruleset requires
  Outcomes,             \* how a run may end: [concl, notes]
  ContextStates,        \* what the status context may report
  EndStates,            \* how a pull request may end
  Filters,              \* the annotation filters the operator may ask for
  SuitePage, RunPage,   \* the suites of a commit and the runs of a suite that a watch's query returns
  ReadyRunPage,         \* the runs of a suite that the readiness query returns
  NoteCap,              \* the annotations of one step that GitHub keeps
  Authors, Viewer,      \* who may have opened the pull request, and who asks
  CommentIds, ThreadIds, \* the comments and the review threads there may be
  ReviewStates,         \* how a review may be submitted
  MaxSuites, MaxRuns,   \* bounds: a commit's workflow suites and its runs
  MaxComments,          \* bound: the comments of a thread
  MaxChanges            \* bound: the steps of GitHub

ASSUME CIAssumption ==
  /\ {SuitePage, RunPage, ReadyRunPage, NoteCap, MaxSuites, MaxRuns, MaxComments, MaxChanges}
       \subseteq Nat \ {0}
  /\ CommentIds \cap ThreadIds = {}
  /\ NoName \notin {Check, App, Context, Actions} /\ Nil # "ready"

VARIABLES
  head,        \* GitHub: the head commit's suites and contexts
  oid,         \* GitHub: its number
  state,       \* GitHub: the pull request's state
  talk,        \* GitHub: its comments, threads, acknowledgements and reviews
  changes,     \* GitHub: the steps so far
  author,      \* who opened it
  readable,    \* whether the daemon may read the branch ruleset
  filter,      \* the annotation filter the operator asked for
  target,      \* what is watched: the pull request or its branch
  base,        \* the watch's baseline
  seen,        \* the fingerprint of the payload the poller read last
  said,        \* what the last read led to
  withdrawn    \* history: whose acknowledgement was taken back since the watch's last read

github == <<head, oid, state, talk, changes>>
asked == <<author, readable, filter, target>>
vars == <<github, asked, base, seen, said, withdrawn>>

NoChecks == [suites |-> <<>>, contexts |-> {}]
NoTalk == [ posted |-> {}, replies |-> [t \in ThreadIds |-> 0], resolved |-> {},
            acked |-> {}, reviews |-> <<>> ]
Silent == [by |-> Nil, events |-> {}, same |-> FALSE, again |-> {}, bucket |-> Nil]

Init ==
  /\ head = NoChecks /\ oid = 1 /\ state = "OPEN" /\ talk = NoTalk /\ changes = 0
  /\ author \in Authors /\ readable \in BOOLEAN /\ filter \in Filters
  /\ target \in {"pr", "ref"} /\ (target = "ref" => state = "OPEN" /\ filter = EveryCheck)
  /\ base = Nil /\ seen = Nil /\ said = Silent /\ withdrawn = {}

----------------------------------------------------------------------------
\* GitHub.

Steps ==
  /\ changes < MaxChanges /\ changes' = changes + 1
  /\ said' = Silent
  /\ UNCHANGED <<asked, base, seen>>
Quietly == Steps /\ UNCHANGED <<talk, withdrawn>>
Suites(s) == head' = [head EXCEPT !.suites = s] /\ UNCHANGED <<oid, state>> /\ Quietly
Becomes(i, suite) == Suites([head.suites EXCEPT ![i] = suite])

AllRuns(checks) == UNION {RunsOf(s) : s \in SuiteSet(checks)}
RunCount(checks) == FoldSeq(LAMBDA s, n : n + Len(s.runs), 0, checks.suites)

\* Each workflow has a suite of the container app; the other app never has a run.
Creates(app) ==
  /\ state = "OPEN"
  /\ Cardinality({i \in DOMAIN head.suites : head.suites[i].app = app})
       < IF app = Actions THEN MaxSuites ELSE 1
  /\ Suites(Append(head.suites, [ app |-> app, container |-> app = Actions, concl |-> "",
                                  status |-> "QUEUED", runs |-> <<>>]))

\* A run is queued, the first time or again.
Queued == [ name |-> Check, status |-> "QUEUED", concl |-> "", at |-> 0,
            notes |-> {}, noteCount |-> 0 ]
Queues(i) ==
  LET s == head.suites[i]
  IN  /\ s.container /\ RunCount(head) < MaxRuns /\ state = "OPEN"
      /\ Becomes(i, [s EXCEPT !.runs = Append(s.runs, Queued), !.status = "QUEUED"])

\* A run completes, later than every run completed so far; the suite with its last.
Completed(run, o) ==
  [run EXCEPT !.status = "COMPLETED", !.concl = o.concl, !.at = changes + 1,
              !.notes = o.notes, !.noteCount = Cardinality(o.notes)]
Completes(i, j, o) ==
  LET s == head.suites[i]
      last == \A k \in DOMAIN s.runs \ {j} : s.runs[k].status = "COMPLETED"
  IN  /\ s.runs[j].status # "COMPLETED"
      /\ Becomes(i, [s EXCEPT !.runs = [s.runs EXCEPT ![j] = Completed(s.runs[j], o)],
                              !.status = IF last THEN "COMPLETED" ELSE s.status])

Concludes(i, o) ==
  /\ ~head.suites[i].container /\ head.suites[i].status = "QUEUED"
  /\ Becomes(i, [head.suites[i] EXCEPT !.status = "COMPLETED", !.concl = o.concl])

Reports(s) ==
  /\ state = "OPEN"
  /\ head' = [head EXCEPT !.contexts = {[context |-> Context, state |-> s]}]
  /\ UNCHANGED <<oid, state>> /\ Quietly

Push ==
  /\ state = "OPEN"
  /\ oid' = oid + 1 /\ head' = NoChecks
  /\ UNCHANGED state /\ Quietly

Closes(s) ==
  /\ state = "OPEN" /\ state' = s /\ target = "pr"
  /\ UNCHANGED <<head, oid>> /\ Quietly

\* People comment on the pull request and in its threads, give a comment or the last
\* of a thread a thumbs-up and take it back, resolve threads, and review.  A branch
\* has no discussion.
Talks(words, taken) ==
  /\ target = "pr" /\ talk' = words /\ withdrawn' = taken
  /\ UNCHANGED <<head, oid, state>> /\ Steps

Posts(c) ==
  c \notin talk.posted /\ Talks([talk EXCEPT !.posted = @ \cup {c}], withdrawn)
Replies(t) ==
  /\ talk.replies[t] < MaxComments
  /\ Talks([talk EXCEPT !.replies[t] = @ + 1, !.acked = @ \ {t}], withdrawn)
Opened == {t \in ThreadIds : talk.replies[t] > 0}
Acks(x) ==
  /\ x \in (talk.posted \cup Opened) \ talk.acked
  /\ Talks([talk EXCEPT !.acked = @ \cup {x}], withdrawn \ {x})
Withdraws(x) ==
  x \in talk.acked /\ Talks([talk EXCEPT !.acked = @ \ {x}], withdrawn \cup {x})
Resolves(t) ==
  t \in Opened \ talk.resolved /\ Talks([talk EXCEPT !.resolved = @ \cup {t}], withdrawn)
Reopens(t) ==
  t \in talk.resolved /\ Talks([talk EXCEPT !.resolved = @ \ {t}], withdrawn)
Reviews(s) ==
  Talks([talk EXCEPT !.reviews = Append(@, [state |-> s, author |-> Viewer])], withdrawn)
Dismisses(i) ==
  /\ talk.reviews[i].state \notin nonDecisiveReviewStates \cup {"DISMISSED"}
  /\ Talks([talk EXCEPT !.reviews[i].state = "DISMISSED"], withdrawn)

Discussion ==
  \/ \E c \in CommentIds : Posts(c)
  \/ \E t \in ThreadIds : Replies(t) \/ Resolves(t) \/ Reopens(t)
  \/ \E x \in CommentIds \cup ThreadIds : Acks(x) \/ Withdraws(x)
  \/ \E s \in ReviewStates : Reviews(s)
  \/ \E i \in DOMAIN talk.reviews : Dismisses(i)

GitHub ==
  \/ \E a \in {App, Actions} : Creates(a)
  \/ \E i \in DOMAIN head.suites : Queues(i)
  \/ \E i \in DOMAIN head.suites, o \in Outcomes :
       Concludes(i, o) \/ \E j \in DOMAIN head.suites[i].runs : Completes(i, j, o)
  \/ \E s \in ContextStates : Reports(s)
  \/ Push
  \/ \E s \in EndStates : Closes(s)
  \/ Discussion

----------------------------------------------------------------------------
\* The readers.

\* A query returns the last suites with their count, and the last runs of each.
\* Only the readiness query asks for the runs' count; the others read zero.
LastOf(s, n) == SubSeq(s, IF Len(s) > n THEN Len(s) - n + 1 ELSE 1, Len(s))
Page(checks, runPage, counted) ==
  LET cut(s) == [ app |-> s.app, container |-> s.container, concl |-> s.concl, status |-> s.status,
                  runs |-> LastOf(s.runs, runPage), total |-> IF counted THEN Len(s.runs) ELSE 0]
      suites == LastOf(checks.suites, SuitePage)
  IN  [ suites |-> [i \in DOMAIN suites |-> cut(suites[i])], total |-> Len(checks.suites),
        contexts |-> checks.contexts ]
WatchPage == Page(head, RunPage, FALSE)
ReadyPage == Page(head, ReadyRunPage, TRUE)

\* A payload's comments and threads: only the last comment of a thread counts for
\* its acknowledgement.
Comments(tk) == {[id |-> c, author |-> Viewer, acked |-> c \in tk.acked] : c \in tk.posted}
ThreadOf(tk, t) ==
  [ id |-> t, resolved |-> t \in tk.resolved,
    comments |-> [i \in 1 .. tk.replies[t] |->
                    [ id |-> <<t, i>>, author |-> Viewer,
                      acked |-> t \in tk.acked /\ i = tk.replies[t] ]] ]
Threads(tk) == {ThreadOf(tk, t) : t \in {u \in ThreadIds : tk.replies[u] > 0}}

\* The readiness query asks for the reviews only, and its bucket looks at no more.
Payload(view) ==
  [ state |-> state, merged |-> state = "MERGED", mergeable |-> "MERGEABLE",
    mergeState |-> "CLEAN", draft |-> FALSE, author |-> author, oid |-> oid, view |-> view,
    comments |-> Comments(talk), threads |-> Threads(talk), reviews |-> talk.reviews ]

\* What the poller keeps of the ruleset it read: an unreadable one is dropped.
Kept(rs) == [contexts |-> rs.contexts, error |-> FALSE]

Ruleset == Kept(FetchRequiredChecks(readable, Required))

SnapOpts == [ levels |-> defaultAnnotationLevels, checks |-> snapshotOptionsFor(filter),
              ruleset |-> Ruleset, ignored |-> {}, shed |-> {}, cap |-> NoteCap ]

\* The poller keeps the fingerprint of what it read last, for the idle backoff.
PollPR ==
  LET read == Payload(WatchPage)
      c == ConsumePR(base, Snapshot(read, SnapOpts), FALSE)
  IN  /\ target = "pr" /\ (base # Nil => base.state = "OPEN")
      /\ base' = c.baseline /\ seen' = Fingerprint(read)
      /\ said' = [ by |-> "pr", events |-> c.events, bucket |-> Nil,
                   same |-> base # Nil /\ seen = Fingerprint(read), again |-> withdrawn ]
      /\ withdrawn' = {}
      /\ UNCHANGED <<github, asked>>

PollRef ==
  LET c == ConsumeRef(base, SnapshotRef(oid, WatchPage))
  IN  /\ target = "ref" /\ base' = c.baseline
      /\ said' = [Silent EXCEPT !.by = "ref", !.events = c.events]
      /\ UNCHANGED <<github, asked, seen, withdrawn>>

\* The readiness view reads the ruleset itself and keeps its error.
ReadReadiness ==
  /\ state = "OPEN"
  /\ LET read == Payload(ReadyPage)
         opts == [SnapOpts EXCEPT !.ruleset = FetchRequiredChecks(readable, Required)]
     IN  said' = [Silent EXCEPT !.by = "readiness", !.bucket = Bucket(read, Snapshot(read, opts), Viewer)]
  /\ UNCHANGED <<github, asked, base, seen, withdrawn>>

Next == GitHub \/ PollPR \/ PollRef \/ ReadReadiness
Spec == Init /\ [][Next]_vars

----------------------------------------------------------------------------
\* Properties.  What is so on GitHub, from the whole of the head commit.

Results(checks) ==
  {r \in AllRuns(checks) : r.status = "COMPLETED" /\ r.concl \notin nonVerdictConclusions}
Red(checks) ==
  \/ \E r \in Results(checks) :
       r.concl \in failureConclusions /\ \A q \in Results(checks) : q.name = r.name => q.at <= r.at
  \/ \E s \in SuiteSet(checks) : ~s.container /\ s.concl \in failureConclusions
  \/ \E c \in checks.contexts : c.state \in failureCommitStates
Unfinished(checks) ==
  \/ \E r \in AllRuns(checks) : r.status # "COMPLETED"
  \/ \E c \in checks.contexts : c.state = "PENDING"
Reported(checks) ==
  {s.app : s \in SuiteSet(checks)} \cup {r.name : r \in AllRuns(checks)}
  \cup {c.context : c \in checks.contexts}
Passed(checks) ==
  \/ \E r \in AllRuns(checks) : r.concl \in successConclusions
  \/ \E s \in SuiteSet(checks) : s.concl \in successConclusions
  \/ \E c \in checks.contexts : c.state = "SUCCESS"
Green(checks) == ~Red(checks) /\ ~Unfinished(checks)

Says(type) == \E e \in said.events : e.type = type
WholeRuns == \A s \in SuiteSet(head) : Len(s.runs) <= RunPage

\* A pull request that is announced green is green on GitHub, suites cut off by
\* the page included: no check's newest result is red and nothing is in flight.
\* Beyond a page of runs it is not so, see GreenBeyondPages; nor is it for a
\* branch beyond a page of suites, whose snapshot does not say it is cut.
GreenIsTrue ==
  /\ said.by = "pr" /\ Says("ci-all-green") /\ WholeRuns
       => Green(head) /\ (readable => Required \subseteq Reported(head))
  /\ said.by = "ref" /\ Says("ci-all-green") /\ WholeRuns /\ Len(head.suites) <= SuitePage
       => Green(head)

\* A pull request the readiness view calls ready is green, carries evidence that
\* CI ran, and has every required check, whatever its pages cut off.
ReadyIsTrue ==
  said.bucket = "ready"
    => Green(head) /\ Passed(head) /\ readable /\ Required \subseteq Reported(head)

\* A filter is told that it names no check only when GitHub has none of the name.
FilterAccusedTruly ==
  Says("degraded") /\ WholeRuns => \E n \in filter.allowed : \A r \in AllRuns(head) : r.name # n

\* What the fingerprint does not tell apart leads to no event but the return of a
\* comment or thread whose thumbs-up was taken back since the last read, so that an
\* idle watch may slow down: it covers all else that the verdict and the diff look
\* at, as long as the pages of checks are whole.
SameIsSilent ==
  said.same /\ WholeRuns /\ Len(head.suites) <= SuitePage
    => \A e \in said.events :
         \/ e.type = "new-general-comments" /\ e.news \subseteq said.again
         \/ e.type = "new-unresolved-threads" /\ {t.id : t \in e.news} \subseteq said.again

\* Violated: an announced green is never made of a ruleset that could not be read.
GreenKnowsRequired ==
  said.by = "pr" /\ Says("ci-all-green") => Required \subseteq Reported(head)

\* Violated: "Two snapshots with equal fingerprints cannot produce a Diff event
\* between them" (monitor.go): a page of runs may move on to a run that ended like
\* the one before it, but later than another suite's.
FingerprintTells == said.same => said.events = {}

\* Violated: the same sentence, with whole pages.  The fingerprint holds the comments'
\* ids and not their thumbs-up, which the snapshot filters by: one that is taken back
\* makes an event of a payload with the same fingerprint.
WholeFingerprintTells ==
  said.same /\ WholeRuns /\ Len(head.suites) <= SuitePage => said.events = {}

\* Violated: a page of runs that is cut off holds green back.
GreenBeyondPages == said.by = "pr" /\ Says("ci-all-green") => Green(head)
============================================================================
