------------------------------ MODULE PRWatch ------------------------------
(***************************************************************************)
(* What a poller of a pull request reads and what one subscriber makes of  *)
(* it: the query tiers of internal/monitor/tier.go, the hub's fetchOnce    *)
(* with its REST fallback, and the subscriber's distillation, carrying     *)
(* forward and diff (internal/monitor/diff.go and consumer.go).            *)
(*                                                                         *)
(* A subscriber diffs against its own baseline, so one of them is enough.  *)
(* Of the surfaces a tier sheds the model keeps two: the comments, and the *)
(* review decision, which is shed one tier earlier. Review threads and     *)
(* annotations are diffed as the comments are. Nobody withdraws a review   *)
(* or deletes a comment, so each dismissal reported is a false one.        *)
(***************************************************************************)
EXTENDS Integers

CONSTANTS
  Comments,        \* the general comments the pull request may get
  Decisions,       \* the review decisions it may get
  Undecided,       \* the empty review decision
  Nil,             \* no payload, no baseline
  BudgetTiers,     \* the tiers selectTier may return
  REST,            \* whether GraphQL rate limits occur, REST being wired
  MaxHandoffs      \* bound: how often a successor daemon takes over

TierStatus == 0
TierNoReviews == 1
TierNoAnnotations == 2
TierFull == 3
Tiers == TierStatus..TierFull

\* The part of a PRStatus that the model keeps, and a payload, which bears the
\* tier of the query that read it.
Status == [comments : SUBSET Comments, review : Decisions \cup {Undecided}]
Raw == [comments : SUBSET Comments, review : Decisions \cup {Undecided}, at : Tiers]
Empty == [comments |-> {}, review |-> Undecided]

ASSUME PRWatchAssumption ==
  /\ Undecided \notin Decisions
  /\ Nil \notin Status \cup Raw
  /\ BudgetTiers \subseteq Tiers
  /\ MaxHandoffs \in Nat
  /\ REST \in BOOLEAN

VARIABLES
  upstream,    \* the pull request on GitHub
  tier,        \* p.tier
  restMode,    \* p.restNotice # nil
  run,         \* where the poller's goroutine is
  want,        \* the tier of the GraphQL query in hand
  fetched,     \* the payload about to be delivered
  latest,      \* p.latest
  attached,    \* whether the subscriber is in p.subs
  subTier,     \* the subscriber's snapOpts.Tier
  snapshotCh,  \* the payload buffered for it
  baseline,    \* its consumer's prev
  reported,    \* history: the comments it was notified of
  dismissed,   \* history: whether it was told of a dismissed review
  mixed,       \* history: it took a surface a payload shed for an observed one
  handoffs     \* how many successors have taken over

pollerVars == <<tier, restMode, run, want, fetched, latest>>
subVars == <<attached, subTier, snapshotCh, baseline, reported, dismissed, mixed>>
vars == <<upstream, pollerVars, subVars, handoffs>>

\* A payload holds nothing of the surfaces its query did not ask for.
Payload(t) ==
  [comments |-> IF t >= TierNoReviews THEN upstream.comments ELSE {},
   review |-> IF t >= TierNoAnnotations THEN upstream.review ELSE Undecided,
   at |-> t]

\* newPoller leaves p.tier at Go's zero value; run starts from TierFull. The
\* watcher may also come when the poller has long been running.
Init ==
  /\ upstream = Empty
  /\ \/ tier = TierStatus /\ run = "new" /\ latest = Nil
     \/ tier = TierFull /\ run = "idle" /\ latest = Payload(TierFull)
  /\ restMode = FALSE
  /\ want = TierFull
  /\ fetched = Nil
  /\ attached = FALSE
  /\ subTier = TierStatus
  /\ snapshotCh = Nil
  /\ baseline = Nil
  /\ reported = {}
  /\ dismissed = FALSE
  /\ mixed = FALSE
  /\ handoffs = 0

----------------------------------------------------------------------------
(* The poller.                                                             *)

\* Subscribe attaches the subscriber at the poller's current tier, and hands it
\* the cached payload.
Attach ==
  /\ ~attached
  /\ attached' = TRUE
  /\ subTier' = tier
  /\ snapshotCh' = latest
  /\ UNCHANGED <<upstream, pollerVars, baseline, reported, dismissed, mixed, handoffs>>

\* run begins: the transition detector starts from the full tier.
Start ==
  /\ run = "new" /\ attached
  /\ tier' = TierFull
  /\ run' = "idle"
  /\ UNCHANGED <<upstream, restMode, want, fetched, latest, subVars, handoffs>>

\* The poller's tier, and that of its subscribers' snapshots.
setTier(t) ==
  /\ tier' = t
  /\ subTier' = IF attached THEN t ELSE subTier

\* fetchOnce asks GraphQL at the tier the budget allows, announcing a change of
\* tier first; in REST mode the tier waits for the answer.
Poll(t) ==
  /\ run = "idle"
  /\ want' = t
  /\ run' = "fetching"
  /\ IF t # tier /\ ~restMode THEN setTier(t) ELSE UNCHANGED <<tier, subTier>>
  /\ UNCHANGED <<upstream, restMode, fetched, latest, attached, snapshotCh, baseline,
                 reported, dismissed, mixed, handoffs>>

\* GraphQL is known to be exhausted, or it answers with a rate limit.
ReadREST ==
  /\ REST
  /\ run \in {"idle", "fetching"}
  /\ run' = "rest"
  /\ UNCHANGED <<upstream, tier, restMode, want, fetched, latest, subVars, handoffs>>

\* GraphQL answers a query of tier t: leaveRESTMode, and on to deliver.
Answers(t) ==
  /\ run = "fetching"
  /\ fetched' = Payload(t)
  /\ IF restMode THEN setTier(t) ELSE UNCHANGED <<tier, subTier>>
  /\ restMode' = FALSE
  /\ run' = "delivering"
  /\ UNCHANGED <<upstream, want, latest, attached, snapshotCh, baseline, reported,
                 dismissed, mixed, handoffs>>

\* The query answers.
Answer == Answers(want)

\* The query exceeds the resource limit and one a tier down answers.
AnswerCheaper == want > TierStatus /\ Answers(want - 1)

\* fetchViaREST reads what a TierStatus query reads, and enters REST mode.
AnswerREST ==
  /\ run = "rest"
  /\ fetched' = Payload(TierStatus)
  /\ IF restMode THEN UNCHANGED <<tier, subTier>> ELSE setTier(TierStatus)
  /\ restMode' = TRUE
  /\ run' = "delivering"
  /\ UNCHANGED <<upstream, want, latest, attached, snapshotCh, baseline, reported,
                 dismissed, mixed, handoffs>>

\* The fetch fails: the previous payload is retained.
Fail ==
  /\ run \in {"fetching", "rest"}
  /\ run' = "idle"
  /\ UNCHANGED <<upstream, tier, restMode, want, fetched, latest, subVars, handoffs>>

\* deliver: a subscriber that has not drained its previous payload keeps it.
Deliver ==
  /\ run = "delivering"
  /\ latest' = fetched
  /\ snapshotCh' = IF attached /\ snapshotCh = Nil THEN fetched ELSE snapshotCh
  /\ fetched' = Nil
  /\ run' = "idle"
  /\ UNCHANGED <<upstream, tier, restMode, want, attached, subTier, baseline, reported,
                 dismissed, mixed, handoffs>>

----------------------------------------------------------------------------
(* The subscriber.                                                         *)

\* Mutants: the shed review, or the shed comments, are not carried forward.
MutantForgetReview(prev, raw, t) ==
  [comments |-> IF t < TierNoReviews THEN prev.comments ELSE raw.comments,
   review |-> raw.review]
MutantForgetComments(prev, raw, t) ==
  [comments |-> raw.comments,
   review |-> IF t < TierNoAnnotations THEN prev.review ELSE raw.review]

\* The surfaces shed at tier t keep their last known values.
CarryForwardShed(prev, raw, t) ==
  [comments |-> IF t < TierNoReviews THEN prev.comments ELSE raw.comments,
   review |-> IF t < TierNoAnnotations THEN prev.review ELSE raw.review]

\* The status the subscriber makes of its payload, and what it compares it to.
Current ==
  IF baseline = Nil
    THEN [comments |-> snapshotCh.comments, review |-> snapshotCh.review]
    ELSE CarryForwardShed(baseline, snapshotCh, subTier)

\* Mutant: the baseline is replaced before the diff.
MutantPrevious == IF baseline = Nil THEN Empty ELSE Current

Previous == IF baseline = Nil THEN Empty ELSE baseline

NewComments == Current.comments \ Previous.comments
Dismissal == Current.review = Undecided /\ Previous.review # Undecided

\* Consume: the payload is distilled at the tier set at this moment and diffed.
Consume ==
  /\ attached
  /\ snapshotCh # Nil
  /\ reported' = reported \cup NewComments
  /\ dismissed' = (dismissed \/ Dismissal)
  /\ mixed' = (mixed \/ snapshotCh.at < subTier)
  /\ baseline' = Current
  /\ snapshotCh' = Nil
  /\ UNCHANGED <<upstream, pollerVars, attached, subTier, handoffs>>

----------------------------------------------------------------------------
\* People comment on and review the pull request.
NewComment(c) ==
  /\ c \notin upstream.comments
  /\ upstream' = [upstream EXCEPT !.comments = @ \cup {c}]
  /\ UNCHANGED <<pollerVars, subVars, handoffs>>

Review(d) ==
  /\ d # upstream.review
  /\ upstream' = [upstream EXCEPT !.review = d]
  /\ UNCHANGED <<pollerVars, subVars, handoffs>>

\* A successor daemon restores the poller's tier and payload, not its REST mode,
\* and the watcher reconnects and claims its baseline.
Takeover ==
  /\ handoffs < MaxHandoffs
  /\ handoffs' = handoffs + 1
  /\ restMode' = FALSE
  /\ run' = "new"
  /\ fetched' = Nil
  /\ attached' = FALSE
  /\ snapshotCh' = Nil
  /\ UNCHANGED <<upstream, tier, want, latest, subTier, baseline, reported, dismissed, mixed>>

Next ==
  \/ Attach \/ Start
  \/ \E t \in BudgetTiers : Poll(t)
  \/ ReadREST
  \/ Answer \/ AnswerCheaper \/ AnswerREST \/ Fail
  \/ Deliver
  \/ Consume
  \/ \E c \in Comments : NewComment(c)
  \/ \E d \in Decisions : Review(d)
  \/ Takeover

Spec == Init /\ [][Next]_vars

\* The goroutines run, polls go on, and the budget again and again allows a full
\* read that GitHub answers.
Fairness ==
  /\ WF_vars(Attach) /\ WF_vars(Start) /\ WF_vars(Deliver) /\ WF_vars(Consume)
  /\ WF_vars(Answer \/ AnswerREST \/ Fail)
  /\ SF_vars(Poll(TierFull))
  /\ SF_vars(want = TierFull /\ Answer)

FairSpec == Spec /\ Fairness

----------------------------------------------------------------------------
\* The type invariant of the poller and its subscriber.
TypeOK ==
  /\ upstream \in Status
  /\ tier \in Tiers
  /\ restMode \in BOOLEAN
  /\ run \in {"new", "idle", "fetching", "rest", "delivering"}
  /\ want \in Tiers
  /\ fetched \in Raw \cup {Nil}
  /\ run = "delivering" => fetched # Nil
  /\ latest \in Raw \cup {Nil}
  /\ attached \in BOOLEAN
  /\ subTier \in Tiers
  /\ snapshotCh \in Raw \cup {Nil}
  /\ baseline \in Status \cup {Nil}
  /\ reported \in SUBSET Comments
  /\ dismissed \in BOOLEAN
  /\ mixed \in BOOLEAN
  /\ handoffs \in 0..MaxHandoffs

\* Shedding never reads as clearing: "an APPROVED review reading as DISMISSED is
\* the worst of them" (diff.go). No review is ever dismissed here. However tiers
\* move, REST mode comes and goes, payloads are dropped and daemons succeed one
\* another: as long as the watcher was never handed a payload read at
\* a lower tier than its own, nothing shed reads as cleared.
NoFalseDismissal == dismissed => mixed

\* "In REST mode the tier stays at TierStatus until GraphQL answers again"
\* (fetchOnce), the subscriber's with it: what REST cannot read is carried
\* forward however long the outage lasts and whoever joins during it.
RESTHoldsTier ==
  restMode => tier = TierStatus /\ (attached => subTier = TierStatus)

\* Nor is a comment notified twice then: "shed comments/threads must not re-emit
\* as new" (diff.go).
NoRepeatedComment == [][Consume /\ ~mixed' => NewComments \cap reported = {}]_vars

\* "Start at the poller's current tier" (Subscribe).
InStep == attached /\ subTier = tier

\* The watcher drains its channel before the next poll, a minute later.
Prompt == snapshotCh # Nil => run \in {"new", "idle"}

\* A watcher that comes to drain its channel between polls hears of every comment,
\* if the budget allows full reads again and again.
CommentsHeard ==
  <>[]Prompt => \A c \in Comments : (c \in upstream.comments) ~> (c \in reported)

\* It does when it keeps its poller's tier: shedding only delays.
CommentsArrive == <>[]InStep => CommentsHeard
=============================================================================
