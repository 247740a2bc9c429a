----------------------------- MODULE Snapshots -----------------------------
(***************************************************************************)
(* What a watch makes of what it reads, as operators: the snapshot of each *)
(* kind of target (internal/monitor/monitor.go), the diff of two of them   *)
(* (diff.go), the consumer that keeps the baseline (consumer.go and        *)
(* consumers.go) and the fingerprint that drives the idle backoff.         *)
(*                                                                         *)
(* A status keeps what the diffs look at; NoStatus is the zero baseline    *)
(* that a first poll is compared with.  Events are sets of records.        *)
(***************************************************************************)
EXTENDS CIVerdict, SequencesExt

CONSTANT Nil          \* no baseline yet

ForType(type, news) == IF news = {} THEN {} ELSE {[type |-> type, news |-> news]}
Told(type) == [type |-> type, news |-> {}]

----------------------------------------------------------------------------
\* Pull requests.  A payload is
\*   [state, merged, mergeable, mergeState, draft, author, oid, view, comments,
\*    threads, reviews]
\* with comments a set of [id, author, acked], threads of [id, resolved,
\* comments : Seq(comment)] and reviews a sequence of [state, author].

nonDecisiveReviewStates == {"PENDING", "COMMENTED"}
reviewDecision(reviews) ==
  LET decisive == SelectSeq(reviews, LAMBDA r : r.state \notin nonDecisiveReviewStates)
  IN  IF decisive = <<>> THEN "" ELSE Last(decisive).state

isAcknowledged(comment) == comment.acked
OpenThreads(pr) ==
  {[id |-> t.id, ids |-> {c.id : c \in Range(t.comments)}] :
     t \in {u \in pr.threads : ~u.resolved /\ (u.comments # <<>> => ~isAcknowledged(Last(u.comments)))}}
OpenComments(comments, ignored) ==
  {c.id : c \in {d \in comments : ~isAcknowledged(d) /\ d.author \notin ignored}}

\* What the ruleset read leaves: a set of contexts, or an error.
FetchRequiredChecks(readable, contexts) ==
  [contexts |-> IF readable THEN contexts ELSE {}, error |-> ~readable]

Snapshot(pr, opts) ==
  [ state |-> pr.state, merged |-> pr.merged, conflict |-> pr.mergeable = "CONFLICTING",
    ci |-> JudgeCI(pr.view, opts.levels, opts.checks,
                   IF opts.ruleset.error THEN {} ELSE opts.ruleset.contexts, opts.cap),
    rulesetError |-> opts.ruleset.error,
    threads |-> OpenThreads(pr), comments |-> OpenComments(pr.comments, opts.ignored),
    review |-> reviewDecision(pr.reviews), oid |-> pr.oid, shed |-> opts.shed ]

\* ciAllGreen, and diffImpl's condition, which does not ask for a success.
Clean(s) ==
  /\ s.ci.failing = {} /\ s.ci.pending = {} /\ s.ci.awaiting = {}
  /\ ~s.rulesetError /\ ~s.ci.truncated
ciAllGreen(s) == ~s.merged /\ s.state # "CLOSED" /\ Clean(s) /\ s.ci.successful # {}

ZeroCI == [ failing |-> {}, pending |-> {}, successful |-> {}, awaiting |-> {}, truncated |-> FALSE,
            annotations |-> {}, notesTruncated |-> FALSE, unmatched |-> {} ]
ZeroPR == [ state |-> "", merged |-> FALSE, conflict |-> FALSE, ci |-> ZeroCI, rulesetError |-> FALSE,
            threads |-> {}, comments |-> {}, review |-> "", oid |-> 0, shed |-> {} ]

\* Surfaces the read did not fetch keep the baseline's values.
CarryForwardShed(prev, curr) ==
  IF prev = Nil THEN curr ELSE
  [curr EXCEPT
     !.ci.annotations = IF "annotations" \in curr.shed THEN prev.ci.annotations ELSE @,
     !.ci.notesTruncated = IF "annotations" \in curr.shed THEN prev.ci.notesTruncated ELSE @,
     !.review = IF "reviews" \in curr.shed THEN prev.review ELSE @,
     !.threads = IF "review threads" \in curr.shed THEN prev.threads ELSE @,
     !.comments = IF "comments" \in curr.shed THEN prev.comments ELSE @]

\* A thread is new when its id is, or when it gained a comment.
diffNewThreads(prev, curr) ==
  {t \in curr : ~\E p \in prev : p.id = t.id /\ t.ids \subseteq p.ids}

ReviewEvents(prev, curr) ==
  IF curr = prev THEN {}
  ELSE CASE curr = "APPROVED" -> {Told("review-approved")}
         [] curr = "CHANGES_REQUESTED" -> {Told("review-changes-requested")}
         [] curr \in {"", "DISMISSED"} /\ prev \notin {"", "PENDING", "DISMISSED"}
              -> {Told("review-dismissed")}
         [] OTHER -> {}

FilterEvents(prev, curr) ==
  IF curr.ci.unmatched \in {{}, prev.ci.unmatched} THEN {} ELSE {Told("degraded")}

\* Diff, and DiffRetrigger for a watch that repeats what is unresolved.
Diff(prev, curr, retrigger) ==
  (IF curr.conflict /\ ~prev.conflict THEN {Told("conflict")} ELSE {})
  \cup ForType("new-failing-checks", curr.ci.failing \ prev.ci.failing)
  \cup (IF ~Clean(prev) /\ Clean(curr) THEN {Told("ci-all-green")} ELSE {})
  \cup ForType("new-unresolved-threads",
               diffNewThreads(IF retrigger THEN {} ELSE prev.threads, curr.threads))
  \cup ForType("new-general-comments", curr.comments \ (IF retrigger THEN {} ELSE prev.comments))
  \cup ReviewEvents(prev.review, curr.review)
  \cup (IF curr.oid \notin {0, prev.oid} THEN {Told("new-commit")} ELSE {})
  \cup (IF curr.merged /\ ~prev.merged THEN {Told("merged")}
        ELSE IF curr.state = "CLOSED" /\ prev.state # "CLOSED" THEN {Told("closed")} ELSE {})
  \cup FilterEvents(prev, curr)
  \cup ForType("check-annotations", curr.ci.annotations \ prev.ci.annotations)

\* PRConsumer.Consume: the new baseline, what it emits and whether that ends
\* the watch.  A first poll is compared with nothing, says nothing of the head
\* commit, and tells of a CI that is green already.
ConsumePR(prev, read, retrigger) ==
  LET curr == CarryForwardShed(prev, read)
      found == Diff(IF prev = Nil THEN ZeroPR ELSE prev, curr, retrigger)
  IN  [ baseline |-> curr,
        events |-> IF prev # Nil THEN found
                   ELSE (found \ {Told("new-commit")}) \cup {Told("first-poll")}
                        \cup (IF ciAllGreen(curr) THEN {Told("ci-all-green")} ELSE {}),
        quiet |-> found = {},
        ends |-> curr.merged \/ curr.state = "CLOSED" ]

\* Mutant: without the comments of a thread.
MutantFingerprint(pr) ==
  [ head |-> <<pr.state, pr.merged, pr.mergeable, pr.mergeState, pr.oid>>,
    suites |-> [i \in DOMAIN pr.view.suites |->
                  LET s == pr.view.suites[i]
                  IN  <<s.app, s.concl, s.status,
                        [j \in DOMAIN s.runs |-> <<s.runs[j].name, s.runs[j].concl,
                                                   s.runs[j].status, s.runs[j].notes>>]>>],
    contexts |-> pr.view.contexts, comments |-> {c.id : c \in pr.comments},
    threads |-> {<<t.id, t.resolved>> : t \in pr.threads}, review |-> reviewDecision(pr.reviews) ]

\* Fingerprint: what it covers of a payload.  Reactions, completion times,
\* totals and the ruleset are not in it.
Fingerprint(pr) ==
  [ head |-> <<pr.state, pr.merged, pr.mergeable, pr.mergeState, pr.oid>>,
    suites |-> [i \in DOMAIN pr.view.suites |->
                  LET s == pr.view.suites[i]
                  IN  <<s.app, s.concl, s.status,
                        [j \in DOMAIN s.runs |-> <<s.runs[j].name, s.runs[j].concl,
                                                   s.runs[j].status, s.runs[j].notes>>]>>],
    contexts |-> pr.view.contexts,
    comments |-> {c.id : c \in pr.comments},
    threads |-> {<<t.id, t.resolved, [i \in DOMAIN t.comments |-> t.comments[i].id]>> : t \in pr.threads},
    review |-> reviewDecision(pr.reviews) ]

----------------------------------------------------------------------------
\* Refs and commits: the commit and its red and pending checks, no more.

SnapshotRef(oid, view) ==
  LET ci == JudgeCI(view, defaultAnnotationLevels, EveryCheck, {}, 10)
  IN  [oid |-> oid, failing |-> ci.failing, pending |-> ci.pending]
ZeroRef == [oid |-> 0, failing |-> {}, pending |-> {}]
Idle(s) == s.failing = {} /\ s.pending = {}
DiffRef(prev, curr) ==
  ForType("new-failing-checks", curr.failing \ prev.failing)
  \cup (IF ~Idle(prev) /\ Idle(curr) THEN {Told("ci-all-green")} ELSE {})
  \cup (IF curr.oid \notin {0, prev.oid} THEN {Told("new-commit")} ELSE {})
ConsumeRef(prev, curr) ==
  [ baseline |-> curr, ends |-> FALSE,
    events |-> DiffRef(IF prev = Nil THEN ZeroRef ELSE prev, curr)
               \cup (IF prev = Nil THEN {Told("first-poll")} ELSE {}) ]

----------------------------------------------------------------------------
\* Issues: [state, comments].

SnapshotIssue(issue, ignored) ==
  [state |-> issue.state, comments |-> OpenComments(issue.comments, ignored)]
ZeroIssue == [state |-> "", comments |-> {}]
DiffIssues(prev, curr) ==
  (CASE curr.state = "CLOSED" /\ prev.state = "OPEN" -> {Told("issue-closed")}
     [] curr.state = "OPEN" /\ prev.state = "CLOSED" -> {Told("issue-reopened")}
     [] OTHER -> {})
  \cup ForType("issue-new-comment", curr.comments \ prev.comments)
ConsumeIssue(prev, curr) ==
  LET found == DiffIssues(IF prev = Nil THEN ZeroIssue ELSE prev, curr)
  IN  [ baseline |-> curr, ends |-> curr.state = "CLOSED",
        events |-> found \cup (IF prev # Nil THEN {}
          ELSE {Told("first-poll")} \cup (IF curr.state = "CLOSED" THEN {Told("issue-closed")} ELSE {})) ]

----------------------------------------------------------------------------
\* Workflow runs: [status, concl].

DiffRun(prev, curr) ==
  IF prev.status = curr.status THEN {}
  ELSE CASE curr.status = "completed" -> {[type |-> "run-completed", news |-> {curr.concl}]}
         [] curr.status = "in_progress" -> {Told("run-in-progress")}
         [] curr.status = "queued" -> {Told("run-queued")}
         [] OTHER -> {}
ConsumeRun(prev, curr) ==
  [ baseline |-> curr, ends |-> curr.status = "completed",
    events |-> DiffRun(IF prev = Nil THEN [status |-> "", concl |-> ""] ELSE prev, curr)
               \cup (IF prev = Nil THEN {Told("first-poll")} ELSE {}) ]

\* Only these events end a watch (isTerminalEvent).
TerminalEvents == {"merged", "closed", "issue-closed", "run-completed"}

----------------------------------------------------------------------------
\* Readiness (readiness.go): the reasons why a pull request is not ready.

MergeStateReasons(pr, conflict, viewer) ==
  CASE pr.mergeState = "CLEAN" -> {}
    [] pr.mergeState = "BLOCKED" -> {IF pr.author = viewer THEN "needs-codeowner" ELSE "awaiting:review"}
    [] pr.mergeState = "DIRTY" -> IF conflict THEN {} ELSE {"dirty-merge"}
    [] OTHER -> {"merge-state"}

\* Whether CI keeps a pull request back; a conflict explains the failures, so
\* it replaces them.
CIReasons(s) ==
  (IF s.ci.truncated THEN {"truncated"} ELSE {})
  \cup (IF s.rulesetError THEN {"ruleset"} ELSE {})
  \cup (IF s.conflict THEN {"CONFLICTS"} ELSE IF s.ci.failing # {} THEN {"red"} ELSE {})
  \cup (IF s.ci.pending # {} THEN {"pending"} ELSE {})
  \cup (IF s.ci.awaiting # {} THEN {"awaiting"} ELSE {})
  \cup (IF Clean(s) /\ s.ci.successful = {} THEN {"no-ci"} ELSE {})

readinessReasonFull(pr, s, viewer) ==
  (IF pr.draft THEN {"draft"} ELSE {}) \cup CIReasons(s)
  \cup (IF s.review = "CHANGES_REQUESTED" THEN {"changes-requested"} ELSE {})
  \cup MergeStateReasons(pr, s.conflict, viewer)

\* ClassifyPRsFull, for one pull request.
Bucket(pr, s, viewer) ==
  IF pr.author # viewer THEN "others"
  ELSE IF readinessReasonFull(pr, s, viewer) = {} THEN "ready" ELSE "not-ready"
============================================================================
