---------------------------- MODULE PollerProofs ----------------------------
(***************************************************************************)
(* What a poller promises its watchers, in three parts.                    *)
(*                                                                         *)
(* PRWatch: a subscriber makes no false report of what a tier shed, for    *)
(* every set of comments and decisions, every movement of tiers and any    *)
(* number of daemons, as long as it was handed no payload read at a lower  *)
(* tier than the one it distils it at.                                     *)
(*                                                                         *)
(* Degradation: the ledger's promises for every set of surfaces and        *)
(* messages, every number of fetches and of takeovers.                     *)
(*                                                                         *)
(* Pacing: a target's turn comes within one round, for any number of       *)
(* pollers, whatever the slots, the jitter and the wakes.                  *)
(***************************************************************************)
EXTENDS PRWatch, Degradation, Pacing, FiniteSetTheorems, TLAPS

----------------------------------------------------------------------------
(* Reading a pull request at tiers.                                        *)

\* What new shows at tier t loses nothing that old showed.
Keeps(old, new, t) ==
  old # Nil =>
    /\ t >= TierNoReviews => old.comments \subseteq new.comments
    /\ t >= TierNoAnnotations /\ old.review # Undecided => new.review # Undecided

\* Payloads are older one than the next: the baseline, the buffered one, the
\* poller's latest, the one in hand, and GitHub itself. Each shows at the tier it
\* was read at all that the older ones hold.
OrderInv ==
  /\ \A x \in {baseline, snapshotCh, latest, fetched} : Keeps(x, upstream, TierFull)
  /\ fetched # Nil => \A x \in {baseline, snapshotCh, latest} : Keeps(x, fetched, fetched.at)
  /\ latest # Nil => \A x \in {baseline, snapshotCh} : Keeps(x, latest, latest.at)
  /\ snapshotCh # Nil => Keeps(baseline, snapshotCh, snapshotCh.at)
  /\ snapshotCh # Nil => latest # Nil

\* Until payloads are mixed, nothing was dismissed and the baseline holds all the
\* comments that were reported.
ReportInv ==
  ~mixed =>
    /\ ~dismissed
    /\ IF baseline = Nil THEN reported = {} ELSE reported \subseteq baseline.comments

IInv == TypeOK /\ OrderInv /\ ReportInv

----------------------------------------------------------------------------
\* A payload shows at its tier all that upstream shows.
LEMMA PayloadFacts ==
  ASSUME upstream \in Status, NEW t \in Tiers
  PROVE  /\ Payload(t) \in Raw
         /\ Payload(t).at = t
         /\ Keeps(Payload(t), upstream, TierFull)
         /\ \A x \in Status \cup Raw \cup {Nil} :
              Keeps(x, upstream, TierFull) => Keeps(x, Payload(t), t)
BY DEF Payload, Status, Raw, Keeps, Tiers, TierStatus, TierNoReviews,
       TierNoAnnotations, TierFull

\* What the subscriber makes of its payload is a status.
LEMMA CurrentType ==
  ASSUME TypeOK, snapshotCh # Nil
  PROVE  Current \in Status /\ NewComments \subseteq Comments
BY DEF TypeOK, Current, NewComments, CarryForwardShed, Status, Raw

\* Every variable keeps its type.
THEOREM WatchTypeCorrect == Spec => []TypeOK
<1> USE PRWatchAssumption
<1>1. Init => TypeOK
  <2> SUFFICES ASSUME Init PROVE TypeOK
    OBVIOUS
  <2>1. TierStatus \in Tiers /\ TierFull \in Tiers /\ Empty \in Status
    BY DEF Tiers, TierStatus, TierFull, Status, Empty
  <2>2. tier \in Tiers /\ run \in {"new", "idle"} /\ latest \in Raw \cup {Nil}
    <3>1. upstream \in Status
      BY <2>1 DEF Init
    <3>2. Payload(TierFull) \in Raw
      BY <2>1, <3>1, PayloadFacts
    <3>3. QED
      BY <2>1, <3>2 DEF Init
  <2>3. want \in Tiers /\ subTier \in Tiers /\ upstream \in Status /\ handoffs \in 0..MaxHandoffs
    BY <2>1 DEF Init
  <2>4. QED
    BY <2>2, <2>3 DEF Init, TypeOK
<1>2. TypeOK /\ [Next]_vars => TypeOK'
  <2> SUFFICES ASSUME TypeOK, [Next]_vars PROVE TypeOK'
    OBVIOUS
  <2> USE DEF TypeOK, pollerVars, subVars
  <2>1. CASE Attach
    BY <2>1 DEF Attach
  <2>2. CASE Start \/ ReadREST \/ Fail
    BY <2>2 DEF Start, ReadREST, Fail, Tiers, TierFull, TierStatus
  <2>3. CASE Deliver \/ Takeover
    <3>1. CASE Deliver
      BY <3>1 DEF Deliver
    <3>2. CASE Takeover
      <4>1. handoffs' \in 0..MaxHandoffs
        BY <3>2 DEF Takeover
      <4>2. QED
        BY <3>2, <4>1 DEF Takeover
    <3>3. QED
      BY <2>3, <3>1, <3>2
  <2>4. ASSUME NEW t \in BudgetTiers, Poll(t) PROVE TypeOK'
    <3>1. t \in Tiers
      OBVIOUS
    <3>2. QED
      BY <2>4, <3>1 DEF Poll, setTier
  <2>5. ASSUME NEW t \in Tiers, Answers(t) PROVE TypeOK'
    BY <2>5, PayloadFacts DEF Answers, setTier
  <2>6. CASE Answer
    BY <2>5, <2>6 DEF Answer
  <2>7. CASE AnswerCheaper
    <3>1. want - 1 \in Tiers
      BY <2>7 DEF AnswerCheaper, Tiers, TierStatus, TierFull
    <3>2. QED
      BY <2>5, <2>7, <3>1 DEF AnswerCheaper
  <2>8. CASE AnswerREST
    <3>1. TierStatus \in Tiers
      BY DEF Tiers, TierStatus, TierFull
    <3>2. QED
      BY <2>8, <3>1, PayloadFacts DEF AnswerREST, setTier
  <2>9. CASE Consume
    <3>1. dismissed' \in BOOLEAN /\ mixed' \in BOOLEAN
      BY <2>9 DEF Consume
    <3>2. /\ attached /\ snapshotCh # Nil
          /\ reported' = reported \cup NewComments
          /\ baseline' = Current /\ snapshotCh' = Nil
          /\ UNCHANGED <<upstream, pollerVars, attached, subTier, handoffs>>
      BY <2>9 DEF Consume
    <3>3. QED
      BY <3>1, <3>2, CurrentType
  <2>10. ASSUME NEW c \in Comments, NewComment(c) PROVE TypeOK'
    BY <2>10 DEF NewComment, Status
  <2>11. ASSUME NEW d \in Decisions, Review(d) PROVE TypeOK'
    BY <2>11 DEF Review, Status
  <2>12. CASE UNCHANGED vars
    BY <2>12 DEF vars
  <2>13. QED
    BY <2>1, <2>2, <2>3, <2>4, <2>6, <2>7, <2>8, <2>9, <2>10, <2>11, <2>12 DEF Next
<1>3. QED
  BY <1>1, <1>2, PTL DEF Spec

----------------------------------------------------------------------------
\* The subscriber's status is no older than its payload: what keeps its baseline
\* and its payload keeps it.
LEMMA CurrentKept ==
  ASSUME TypeOK, snapshotCh # Nil, NEW y, NEW t \in Tiers,
         Keeps(baseline, y, t), Keeps(snapshotCh, y, t)
  PROVE  Keeps(Current, y, t)
BY DEF TypeOK, Keeps, Current, CarryForwardShed, Tiers, TierStatus, TierFull,
       TierNoReviews, TierNoAnnotations

\* A payload read at the subscriber's tier, or a higher one, loses nothing of the
\* baseline.
LEMMA CurrentKeeps ==
  ASSUME TypeOK, snapshotCh # Nil, baseline # Nil,
         Keeps(baseline, snapshotCh, snapshotCh.at), ~(snapshotCh.at < subTier)
  PROVE  ~Dismissal /\ baseline.comments \subseteq Current.comments
<1>1. subTier \in Tiers /\ snapshotCh.at \in Tiers
  BY DEF TypeOK, Raw
<1>2. Keeps(baseline, snapshotCh, subTier)
  BY <1>1 DEF Keeps, Tiers, TierStatus, TierFull, TierNoReviews, TierNoAnnotations
<1>3. QED
  BY <1>1, <1>2 DEF Keeps, Current, Previous, CarryForwardShed, Dismissal, TypeOK,
                    Tiers, TierStatus, TierFull, TierNoReviews, TierNoAnnotations

\* A step keeps the payloads in the order they were fetched.
LEMMA OrderStep == IInv /\ [Next]_vars => OrderInv'
<1> SUFFICES ASSUME IInv, [Next]_vars PROVE OrderInv'
  OBVIOUS
<1> USE PRWatchAssumption DEF IInv, OrderInv, pollerVars, subVars
<1>1. CASE Attach
  <2>1. /\ snapshotCh' = latest
        /\ UNCHANGED <<upstream, fetched, latest, baseline>>
    BY <1>1 DEF Attach
  <2>2. latest # Nil => Keeps(latest, latest, latest.at)
    BY DEF Keeps
  <2>3. QED
    BY <2>1, <2>2 DEF Keeps
<1>2. CASE Start \/ ReadREST \/ Fail \/ \E t \in BudgetTiers : Poll(t)
  BY <1>2 DEF Start, ReadREST, Fail, Poll
<1>3. CASE Deliver
  <2>1. /\ latest' = fetched /\ fetched' = Nil
        /\ snapshotCh' \in {fetched, snapshotCh}
        /\ UNCHANGED <<upstream, baseline>>
        /\ fetched # Nil
    BY <1>3 DEF Deliver, TypeOK
  <2>2. Keeps(fetched, fetched, fetched.at)
    BY DEF Keeps
  <2>3. QED
    BY <2>1, <2>2 DEF Keeps
<1>4. CASE Answer \/ AnswerCheaper \/ AnswerREST
  <2>1. PICK t \in Tiers :
          /\ fetched' = Payload(t)
          /\ UNCHANGED <<upstream, latest, snapshotCh, baseline>>
    <3>1. TierStatus \in Tiers /\ want \in Tiers /\ (want > TierStatus => want - 1 \in Tiers)
      BY DEF TypeOK, Tiers, TierStatus, TierFull
    <3>2. QED
      BY <1>4, <3>1 DEF Answer, AnswerCheaper, Answers, AnswerREST
  <2>2. /\ Payload(t).at = t /\ Keeps(Payload(t), upstream, TierFull)
        /\ \A x \in {baseline, snapshotCh, latest} : Keeps(x, Payload(t), t)
    BY PayloadFacts DEF TypeOK
  <2>3. QED
    BY <2>1, <2>2 DEF Keeps
<1>5. CASE Consume
  <2>1. /\ snapshotCh # Nil /\ baseline' = Current /\ snapshotCh' = Nil
        /\ UNCHANGED <<upstream, fetched, latest>>
    BY <1>5 DEF Consume
  <2>2. TierFull \in Tiers
    BY DEF Tiers, TierStatus, TierFull
  <2>3. Keeps(Current, upstream, TierFull)
    BY <2>1, <2>2, CurrentKept
  <2>4. fetched # Nil => Keeps(Current, fetched, fetched.at)
    <3>1. fetched # Nil => fetched.at \in Tiers
      BY DEF TypeOK, Raw
    <3>2. QED
      BY <2>1, <3>1, CurrentKept
  <2>5. Keeps(Current, latest, latest.at)
    <3>1. latest # Nil /\ latest.at \in Tiers
      BY <2>1 DEF TypeOK, Raw
    <3>2. QED
      BY <2>1, <3>1, CurrentKept
  <2>6. QED
    BY <2>1, <2>3, <2>4, <2>5 DEF Keeps
<1>6. ASSUME NEW c \in Comments, NewComment(c) PROVE OrderInv'
  BY <1>6 DEF NewComment, Keeps, TypeOK, Status
<1>7. ASSUME NEW d \in Decisions, Review(d) PROVE OrderInv'
  BY <1>7 DEF Review, Keeps, TypeOK, Status
<1>8. CASE Takeover
  BY <1>8 DEF Takeover, Keeps
<1>9. CASE UNCHANGED vars
  BY <1>9 DEF vars
<1>10. QED
  BY <1>1, <1>2, <1>3, <1>4, <1>5, <1>6, <1>7, <1>8, <1>9 DEF Next

\* A step reports only what the baseline did not hold.
LEMMA ReportStep == IInv /\ [Next]_vars => ReportInv'
<1> SUFFICES ASSUME IInv, [Next]_vars PROVE ReportInv'
  OBVIOUS
<1> USE DEF IInv, ReportInv, pollerVars, subVars
<1>1. CASE Consume
  <2>1. /\ snapshotCh # Nil
        /\ reported' = reported \cup NewComments /\ dismissed' = (dismissed \/ Dismissal)
        /\ mixed' = (mixed \/ snapshotCh.at < subTier)
        /\ baseline' = Current
    BY <1>1 DEF Consume
  <2>2. SUFFICES ASSUME ~mixed, ~(snapshotCh.at < subTier)
                 PROVE  ~dismissed' /\ reported' \subseteq Current.comments /\ Current # Nil
    BY <2>1
  <2>3. Current # Nil /\ NewComments \subseteq Current.comments
    BY <2>1, CurrentType, PRWatchAssumption DEF NewComments
  <2>4. CASE baseline = Nil
    <3>1. ~Dismissal
      BY <2>4 DEF Dismissal, Previous, Empty
    <3>2. QED
      BY <2>1, <2>2, <2>3, <2>4, <3>1
  <2>5. CASE baseline # Nil
    <3>1. ~Dismissal /\ baseline.comments \subseteq Current.comments
      BY <2>1, <2>2, <2>5, CurrentKeeps DEF OrderInv
    <3>2. QED
      BY <2>1, <2>2, <2>3, <2>5, <3>1
  <2>6. QED
    BY <2>4, <2>5
<1>2. CASE \/ Attach \/ Start \/ ReadREST \/ Answer \/ AnswerCheaper \/ AnswerREST
           \/ Fail \/ Deliver \/ Takeover
  BY <1>2 DEF Attach, Start, ReadREST, Answer, AnswerCheaper, Answers, AnswerREST,
              Fail, Deliver, Takeover
<1>3. CASE \/ \E t \in BudgetTiers : Poll(t)
           \/ \E c \in Comments : NewComment(c)
           \/ \E d \in Decisions : Review(d)
           \/ UNCHANGED vars
  BY <1>3 DEF Poll, NewComment, Review, vars
<1>4. QED
  BY <1>1, <1>2, <1>3 DEF Next

\* The inductive invariant of a watch.
LEMMA WatchInvariant == Spec => []IInv
<1>1. Init => OrderInv /\ ReportInv
  BY PRWatchAssumption DEF Init, OrderInv, ReportInv, Keeps, Payload, TierFull,
     TierNoReviews, TierNoAnnotations
<1>2. IInv /\ [Next]_vars /\ TypeOK' => IInv'
  BY OrderStep, ReportStep DEF IInv
<1>3. Init /\ TypeOK => IInv
  BY <1>1 DEF IInv
<1>4. QED
  BY <1>2, <1>3, WatchTypeCorrect, PTL DEF Spec

\* No shed surface, budget recovery, REST read, dropped payload or takeover reads
\* as a dismissal, unless a payload was distilled above the tier it was read at.
THEOREM NoDismissalFromShedding == Spec => []NoFalseDismissal
<1>1. IInv => NoFalseDismissal
  BY DEF IInv, TypeOK, ReportInv, NoFalseDismissal
<1>2. QED
  BY <1>1, WatchInvariant, PTL

\* No comment is notified twice under the same condition.
THEOREM OneNotificationPerComment == Spec => NoRepeatedComment
<1>1. IInv => [Consume /\ ~mixed' => NewComments \cap reported = {}]_vars
  <2> SUFFICES ASSUME IInv, Consume, ~mixed' PROVE NewComments \cap reported = {}
    OBVIOUS
  <2>1. ~mixed
    BY DEF Consume
  <2>2. QED
    BY <2>1 DEF IInv, ReportInv, NewComments, Previous
<1>2. QED
  BY <1>1, WatchInvariant, PTL DEF NoRepeatedComment

\* In REST mode the poller's tier and the subscriber's stay at TierStatus. It is
\* inductive with one more fact: a poller not yet started is in GraphQL mode.
THEOREM TierHeldInREST == Spec => []RESTHoldsTier
<1> DEFINE Inv == RESTHoldsTier /\ (run = "new" => ~restMode)
<1>1. Init => Inv
  BY DEF Init, RESTHoldsTier
<1>2. Inv /\ [Next]_vars => Inv'
  <2> SUFFICES ASSUME Inv, [Next]_vars PROVE Inv'
    OBVIOUS
  <2> USE DEF RESTHoldsTier, pollerVars, subVars
  <2>1. CASE Attach
    BY <2>1 DEF Attach
  <2>2. CASE Start
    BY <2>2 DEF Start
  <2>3. ASSUME NEW t \in BudgetTiers, Poll(t) PROVE Inv'
    BY <2>3 DEF Poll, setTier
  <2>4. CASE Answer \/ AnswerCheaper
    BY <2>4 DEF Answer, AnswerCheaper, Answers
  <2>5. CASE AnswerREST
    BY <2>5 DEF AnswerREST, setTier
  <2>6. CASE ReadREST \/ Fail \/ Deliver \/ Consume \/ Takeover
    BY <2>6 DEF ReadREST, Fail, Deliver, Consume, Takeover
  <2>7. ASSUME NEW c \in Comments, NewComment(c) PROVE Inv'
    BY <2>7 DEF NewComment
  <2>8. ASSUME NEW d \in Decisions, Review(d) PROVE Inv'
    BY <2>8 DEF Review
  <2>9. CASE UNCHANGED vars
    BY <2>9 DEF vars
  <2>10. QED
    BY <2>1, <2>2, <2>3, <2>4, <2>5, <2>6, <2>7, <2>8, <2>9 DEF Next
<1>3. QED
  BY <1>1, <1>2, PTL DEF Spec

----------------------------------------------------------------------------
(* The ledger of degradations.                                             *)

\* The history lies in the past, and a window is open only during an episode,
\* since the last success.
WindowInv ==
  /\ \A t \in observed \cup failed : t < now
  /\ lastOK # 0 => lastOK \in observed /\ \A t \in observed : t <= lastOK
  /\ blindFrom # 0 => InFlight # {} /\ blindFrom = lastOK

\* The ledger's map is what the fetches did and what a watcher was told.
MapInv == surfaces = outage /\ heard = outage

\* What the ledger of the present daemon does not know lies before its start.
GapInv ==
  /\ failed \cap observed = {}
  /\ \A b \in starts : b <= now
  /\ lastOK = 0 => \A t \in observed : \E b \in starts : t < b
  /\ InFlight = {} => \A t \in failed : t < lastOK \/ \E b \in starts : t < b
  /\ InFlight # {} => blindFrom = lastOK
  /\ GapsDeclared

----------------------------------------------------------------------------
\* Every variable keeps its type.
THEOREM LedgerTypeCorrect == LedgerSpec => []LedgerTypeOK
<1> USE DegradationAssumption
<1>1. LedgerInit => LedgerTypeOK
  BY DEF LedgerInit, newDegradation, Healthy, LedgerTypeOK
<1>2. LedgerTypeOK /\ [LedgerNext]_ledgerVars => LedgerTypeOK'
  <2> SUFFICES ASSUME LedgerTypeOK, [LedgerNext]_ledgerVars PROVE LedgerTypeOK'
    OBVIOUS
  <2>1. ASSUME NEW s \in Surfaces, NEW m \in Messages, fail(s, m) PROVE LedgerTypeOK'
    BY <2>1 DEF LedgerTypeOK, fail, WindowStart
  <2>2. CASE success
    <3>1. DeclaredGap \in SUBSET BlindGap
      BY DEF LedgerTypeOK, DeclaredGap, BlindGap
    <3>2. QED
      BY <2>2, <3>1 DEF LedgerTypeOK, success, Healthy, InFlight
  <2>3. CASE TakenOver
    BY <2>3 DEF LedgerTypeOK, TakenOver, Healthy
  <2>4. CASE UNCHANGED ledgerVars
    BY <2>4 DEF LedgerTypeOK, ledgerVars
  <2>5. QED
    BY <2>1, <2>2, <2>3, <2>4 DEF LedgerNext
<1>3. QED
  BY <1>1, <1>2, PTL DEF LedgerSpec

----------------------------------------------------------------------------
\* A window is only ever opened at the last successful observation.
LEMMA WindowStep == LedgerTypeOK /\ WindowInv /\ [LedgerNext]_ledgerVars => WindowInv'
<1> SUFFICES ASSUME LedgerTypeOK, WindowInv, [LedgerNext]_ledgerVars PROVE WindowInv'
  OBVIOUS
<1>1. ASSUME NEW s \in Surfaces, NEW m \in Messages, fail(s, m) PROVE WindowInv'
  <2>1. s \in InFlight'
    BY <1>1, DegradationAssumption DEF LedgerTypeOK, InFlight, fail, WindowStart
  <2>2. QED
    BY <1>1, <2>1 DEF LedgerTypeOK, WindowInv, fail, WindowStart
<1>2. CASE success
  <2>1. CASE InFlight = {}
    BY <1>2, <2>1 DEF LedgerTypeOK, WindowInv, success, InFlight
  <2>2. CASE InFlight # {}
    BY <1>2, <2>2 DEF LedgerTypeOK, WindowInv, success
  <2>3. QED
    BY <2>1, <2>2
<1>3. CASE TakenOver
  BY <1>3 DEF LedgerTypeOK, WindowInv, TakenOver
<1>4. CASE UNCHANGED ledgerVars
  BY <1>4 DEF WindowInv, InFlight, ledgerVars
<1>5. QED
  BY <1>1, <1>2, <1>3, <1>4 DEF LedgerNext

\* Every declared gap runs between two consecutive successful observations.
THEOREM GapsAreHonest == LedgerSpec => []DeclaredTruthfully
<1>1. LedgerInit => WindowInv /\ DeclaredTruthfully
  BY DEF LedgerInit, newDegradation, WindowInv, DeclaredTruthfully
<1>2. LedgerTypeOK /\ WindowInv /\ DeclaredTruthfully /\ [LedgerNext]_ledgerVars => DeclaredTruthfully'
  <2> SUFFICES ASSUME LedgerTypeOK, WindowInv, DeclaredTruthfully, [LedgerNext]_ledgerVars
               PROVE  DeclaredTruthfully'
    OBVIOUS
  <2>1. ASSUME NEW s \in Surfaces, NEW m \in Messages, fail(s, m) PROVE DeclaredTruthfully'
    BY <2>1 DEF DeclaredTruthfully, fail, WindowStart
  <2>2. CASE success
    <3>1. SUFFICES ASSUME NEW g \in declared'
                   PROVE  /\ g.from \in observed' /\ g.to \in observed' /\ g.from < g.to
                          /\ \A t \in observed' : ~(g.from < t /\ t < g.to)
      BY DEF DeclaredTruthfully
    <3>2. observed' = observed \cup {now}
      BY <2>2 DEF success
    <3>3. CASE g \in declared
      BY <3>2, <3>3 DEF DeclaredTruthfully, WindowInv, LedgerTypeOK, BlindGap
    <3>4. CASE g \notin declared
      <4>1. blindFrom # 0 /\ g = [from |-> blindFrom, to |-> now]
        BY <2>2, <3>4 DEF success, DeclaredGap
      <4>2. blindFrom \in observed /\ \A t \in observed : t <= blindFrom
        BY <4>1 DEF WindowInv
      <4>3. QED
        BY <3>2, <4>1, <4>2 DEF WindowInv, LedgerTypeOK
    <3>5. QED
      BY <3>3, <3>4
  <2>3. CASE TakenOver
    BY <2>3 DEF DeclaredTruthfully, TakenOver
  <2>4. CASE UNCHANGED ledgerVars
    BY <2>4 DEF DeclaredTruthfully, ledgerVars
  <2>5. QED
    BY <2>1, <2>2, <2>3, <2>4 DEF LedgerNext
<1>3. QED
  BY <1>1, <1>2, WindowStep, LedgerTypeCorrect, PTL DEF LedgerSpec

----------------------------------------------------------------------------
\* The announced messages are exactly the failures in progress.
LEMMA MapInvariant == LedgerSpec => []MapInv
<1>1. LedgerInit => MapInv
  BY DEF LedgerInit, newDegradation, MapInv
<1>2. LedgerTypeOK /\ MapInv /\ [LedgerNext]_ledgerVars => MapInv'
  <2> SUFFICES ASSUME LedgerTypeOK, MapInv, [LedgerNext]_ledgerVars PROVE MapInv'
    OBVIOUS
  <2>1. ASSUME NEW s \in Surfaces, NEW m \in Messages, fail(s, m) PROVE MapInv'
    BY <2>1 DEF LedgerTypeOK, MapInv, fail, WindowStart, Announces
  <2>2. CASE success
    <3>1. CASE InFlight = {}
      <4>1. surfaces = Healthy
        BY <3>1 DEF LedgerTypeOK, InFlight, Healthy
      <4>2. QED
        BY <2>2, <3>1, <4>1 DEF MapInv, success
    <3>2. CASE InFlight # {}
      BY <2>2, <3>2 DEF LedgerTypeOK, MapInv, success, InFlight, Healthy
    <3>3. QED
      BY <3>1, <3>2
  <2>3. CASE TakenOver
    BY <2>3 DEF MapInv, TakenOver
  <2>4. CASE UNCHANGED ledgerVars
    BY <2>4 DEF MapInv, ledgerVars
  <2>5. QED
    BY <2>1, <2>2, <2>3, <2>4 DEF LedgerNext
<1>3. QED
  BY <1>1, <1>2, LedgerTypeCorrect, PTL DEF LedgerSpec

\* A watcher that hears every notice knows how each surface is doing.
THEOREM NoStaleBelief == LedgerSpec => []WatcherIsCurrent
<1>1. MapInv => WatcherIsCurrent
  BY DEF MapInv, WatcherIsCurrent
<1>2. QED
  BY <1>1, MapInvariant, PTL

\* A failure the watcher already knows of is never announced again.
THEOREM OneNoticePerEpisode == LedgerSpec => NoRepeatedNotice
<1>1. MapInv =>
        [\A s \in Surfaces, m \in Messages :
           heard[s] = m /\ fail(s, m) => ~Announces(s, m)]_ledgerVars
  BY DEF MapInv, Announces
<1>2. QED
  BY <1>1, MapInvariant, PTL DEF NoRepeatedNotice

----------------------------------------------------------------------------
\* However many successors take over, no failed fetch between two successful
\* ones of the same daemon escapes the gap a recovery declares.
THEOREM NoUndeclaredGap == LedgerSpec => []GapsDeclared
<1>1. LedgerInit => GapInv /\ WindowInv
  BY DEF LedgerInit, newDegradation, Healthy, GapInv, WindowInv, InFlight, GapsDeclared
<1>2. LedgerTypeOK /\ WindowInv /\ GapInv /\ [LedgerNext]_ledgerVars => GapInv'
  <2> SUFFICES ASSUME LedgerTypeOK, WindowInv, GapInv, [LedgerNext]_ledgerVars PROVE GapInv'
    OBVIOUS
  <2>1. ASSUME NEW s \in Surfaces, NEW m \in Messages, fail(s, m) PROVE GapInv'
    <3>1. s \in InFlight'
      BY <2>1, DegradationAssumption DEF fail, WindowStart, InFlight, LedgerTypeOK
    <3>2. blindFrom' = lastOK'
      BY <2>1 DEF fail, WindowStart, WindowInv, LedgerTypeOK
    <3>3. (failed \cap observed)' = {}
      BY <2>1 DEF fail, WindowStart, GapInv, WindowInv, LedgerTypeOK
    <3>4. GapsDeclared'
      BY <2>1 DEF fail, WindowStart, GapInv, WindowInv, LedgerTypeOK, GapsDeclared, SameDaemon
    <3>5. \A b \in starts' : b <= now'
      BY <2>1 DEF fail, WindowStart, GapInv, LedgerTypeOK
    <3>6. lastOK' = 0 => \A t \in observed' : \E b \in starts' : t < b
      BY <2>1 DEF fail, GapInv
    <3>7. QED
      BY <3>1, <3>2, <3>3, <3>4, <3>5, <3>6 DEF GapInv
  <2>2. CASE success
    <3>1. InFlight' = {}
      BY <2>2 DEF success, InFlight, Healthy
    <3>2. (failed \cap observed)' = {}
      BY <2>2 DEF success, GapInv, WindowInv, LedgerTypeOK
    <3>3. \A t \in failed' : t < lastOK'
      BY <2>2 DEF success, WindowInv, LedgerTypeOK
    <3>4. ASSUME NEW t \in failed, NEW before \in observed, before < t,
                 SameDaemon(before, now)
          PROVE  \E g \in declared' : g.from < t /\ t < g.to
      <4>1. /\ t < now /\ t \in Nat /\ now \in Nat /\ lastOK \in Nat
            /\ before \in Nat
        BY DEF WindowInv, LedgerTypeOK
      <4>2. \A b \in starts : b \in Nat /\ b <= before
        BY <4>1, <3>4 DEF GapInv, SameDaemon, LedgerTypeOK
      <4>3. lastOK # 0 /\ lastOK \in observed /\ t # lastOK /\ before <= lastOK
        BY <4>1, <4>2 DEF GapInv, WindowInv
      <4>4. CASE t < lastOK
        <5>1. SameDaemon(before, lastOK)
          BY <4>1, <4>2 DEF SameDaemon
        <5>2. PICK g \in declared : g.from < t /\ t < g.to
          BY <3>4, <4>3, <4>4, <5>1 DEF GapInv, GapsDeclared
        <5>3. QED
          BY <2>2, <5>2 DEF success
      <4>5. CASE lastOK < t
        <5>1. \A b \in starts : ~(t < b)
          BY <3>4, <4>1, <4>2
        <5>2. InFlight # {} /\ blindFrom = lastOK
          BY <4>1, <4>5, <5>1 DEF GapInv
        <5>3. [from |-> blindFrom, to |-> now] \in declared'
          BY <2>2, <4>3, <5>2 DEF success, DeclaredGap
        <5>4. QED
          BY <4>1, <4>5, <5>2, <5>3
      <4>6. QED
        BY <4>1, <4>3, <4>4, <4>5
    <3>5. GapsDeclared'
      <4> SUFFICES ASSUME NEW t \in failed', NEW before \in observed', NEW after \in observed',
                          before < t, t < after, SameDaemon(before, after)'
                   PROVE  \E g \in declared' : g.from < t /\ t < g.to
        BY DEF GapsDeclared
      <4>1. /\ t \in failed /\ t \in Nat /\ t < now /\ now \in Nat
            /\ SameDaemon(before, after)
        BY <2>2 DEF success, SameDaemon, WindowInv, LedgerTypeOK
      <4>2. before \in observed
        BY <2>2, <4>1 DEF success, LedgerTypeOK
      <4>3. CASE after = now
        BY <3>4, <4>1, <4>2, <4>3
      <4>4. CASE after \in observed
        <5>1. PICK g \in declared : g.from < t /\ t < g.to
          BY <4>1, <4>2, <4>4 DEF GapInv, GapsDeclared
        <5>2. QED
          BY <2>2, <5>1 DEF success
      <4>5. QED
        BY <2>2, <4>3, <4>4 DEF success
    <3>6. \A b \in starts' : b <= now'
      BY <2>2 DEF success, GapInv, LedgerTypeOK
    <3>7. lastOK' # 0
      BY <2>2 DEF success, LedgerTypeOK
    <3>8. QED
      BY <3>1, <3>2, <3>3, <3>5, <3>6, <3>7 DEF GapInv
  <2>3. CASE TakenOver
    <3>1. InFlight' = {}
      BY <2>3 DEF TakenOver, InFlight, Healthy
    <3>2. \A t \in observed' \cup failed' : t < now /\ now \in starts'
      BY <2>3 DEF TakenOver, WindowInv
    <3>3. GapsDeclared'
      BY <2>3 DEF TakenOver, GapInv, GapsDeclared, SameDaemon
    <3>4. \A b \in starts' : b <= now'
      BY <2>3 DEF TakenOver, GapInv, LedgerTypeOK
    <3>5. QED
      BY <2>3, <3>1, <3>2, <3>3, <3>4 DEF TakenOver, GapInv
  <2>4. CASE UNCHANGED ledgerVars
    BY <2>4 DEF GapInv, GapsDeclared, SameDaemon, InFlight, ledgerVars
  <2>5. QED
    BY <2>1, <2>2, <2>3, <2>4 DEF LedgerNext
<1>3. GapInv => GapsDeclared
  BY DEF GapInv
<1>4. QED
  BY <1>1, <1>2, <1>3, WindowStep, LedgerTypeCorrect, PTL DEF LedgerSpec

----------------------------------------------------------------------------
(* The slots.                                                              *)

N == Cardinality(Pollers)

\* What n rounds of the others add to a poller's wait, and the longest that the
\* poller in place n has waited.
Rounds(n) == n * (Gap + 1)
Longest(n) == MaxDelay + Rounds(N - n)

\* The places of the pollers tell them apart, and none is empty.
Placed(f) ==
  /\ f \in [Pollers -> Places]
  /\ \A p, q \in Pollers : f[p] = f[q] => p = q
  /\ \A n \in Places : \E p \in Pollers : f[p] = n

\* The oldest poller's timer fires before any of them has waited too long for its
\* place, and so does the one after it. The wait for a slot is part of it, except
\* where a lone poller waits for its own.
TurnInv ==
  /\ \A p, q \in Pollers : place[p] < place[q] => age[q] <= age[p]
  /\ started = Pollers
  /\ \A p \in Pollers : timer[p] <= Gap + 1 \/ age[p] + timer[p] <= MaxDelay
  /\ \A o, p \in Pollers : place[o] = 1 => age[p] + timer[o] <= Longest(place[p])
  /\ slot > 0 => \A p \in Pollers :
       \/ age[p] + slot + 1 <= Longest(place[p])
       \/ N = 1 /\ age[p] + slot <= Gap /\ slot <= timer[p]

LEMMA PacingBounds ==
  /\ N \in Nat \ {0} /\ Gap \in Nat \ {0} /\ MaxDelay \in Nat /\ Base \in Nat \ {0}
  /\ Pace \in Nat /\ Gap <= Pace /\ Base < Pace /\ Pace <= MaxDelay
  /\ N > 1 => Gap + 1 <= Pace
<1>1. N \in Nat
  BY PacingAssumption, FS_CardinalityType DEF N
<1>2. Gap \in Nat \ {0} /\ MaxDelay \in Nat /\ Base \in Nat \ {0} /\ Base < Gap * N /\ Gap * N <= MaxDelay
  BY PacingAssumption DEF Pace, N
<1>3. N # 0
  BY <1>2
<1>4. Gap * N = Gap + Gap * (N - 1) /\ Gap * (N - 1) \in Nat
  BY <1>1, <1>2, <1>3
<1>5. N > 1 => Gap * (N - 1) = Gap + Gap * (N - 2) /\ Gap * (N - 2) \in Nat
  BY <1>1, <1>2
<1>6. QED
  BY <1>1, <1>2, <1>3, <1>4, <1>5 DEF Pace, N

LEMMA RoundsFacts ==
  /\ Rounds(0) = 0
  /\ \A n \in Nat : Rounds(n) \in Nat /\ Rounds(n + 1) = Rounds(n) + Gap + 1
  /\ \A m, n \in Nat : m <= n => Rounds(m) <= Rounds(n)
<1>1. Gap \in Nat
  BY PacingBounds
<1>2. ASSUME NEW n \in Nat
      PROVE  Rounds(n) \in Nat /\ Rounds(n + 1) = Rounds(n) + Gap + 1
  BY <1>1 DEF Rounds
<1>3. ASSUME NEW m \in Nat, NEW n \in Nat, m <= n
      PROVE  Rounds(m) <= Rounds(n)
  <2>1. PICK d \in Nat : n = m + d
    <3>1. n - m \in Nat /\ n = m + (n - m)
      BY <1>3
    <3>2. QED
      BY <3>1
  <2>2. Rounds(n) = Rounds(m) + Rounds(d) /\ Rounds(m) \in Nat /\ Rounds(d) \in Nat
    BY <1>1, <2>1 DEF Rounds
  <2>3. QED
    BY <2>2
<1>4. QED
  BY <1>1, <1>2, <1>3 DEF Rounds

\* A fetch puts the poller last, and each that was younger one place ahead.
LEMMA FetchPlaces ==
  ASSUME Placed(place), NEW p \in Pollers, Fetch(p)
  PROVE  /\ Placed(place')
         /\ place'[p] = N
         /\ \A q \in Pollers : /\ place[p] < place[q] => place'[q] = place[q] - 1
                               /\ place[q] < place[p] => place'[q] = place[q]
         /\ age' = [age EXCEPT ![p] = 0]
         /\ \E d \in Delays(stretched) : timer' = [timer EXCEPT ![p] = d]
<1>1. N \in Nat \ {0} /\ Places = 1..N
  BY PacingBounds DEF Places, N
<1>2. place' = [q \in Pollers |-> IF q = p THEN N ELSE IF place[p] < place[q] THEN place[q] - 1 ELSE place[q]]
  BY DEF Fetch, N
<1>3. /\ place \in [Pollers -> 1..N]
      /\ \A q, r \in Pollers : place[q] = place[r] => q = r
      /\ \A n \in 1..N : \E q \in Pollers : place[q] = n
  BY <1>1 DEF Placed
<1>4. place' \in [Pollers -> 1..N]
  BY <1>1, <1>2, <1>3
<1>5. \A q, r \in Pollers : place'[q] = place'[r] => q = r
  BY <1>1, <1>2, <1>3
<1>6. ASSUME NEW n \in 1..N
      PROVE  \E q \in Pollers : place'[q] = n
  <2>1. CASE n = N
    BY <1>2, <2>1
  <2>2. CASE n < place[p]
    <3>1. PICK q \in Pollers : place[q] = n
      BY <1>3
    <3>2. QED
      BY <1>1, <1>2, <1>3, <2>2, <3>1
  <2>3. CASE place[p] <= n /\ n < N
    <3>1. n + 1 \in 1..N
      BY <1>1, <2>3
    <3>2. PICK q \in Pollers : place[q] = n + 1
      BY <1>3, <3>1
    <3>3. QED
      BY <1>1, <1>2, <1>3, <2>3, <3>2
  <2>4. QED
    BY <1>1, <1>3, <2>1, <2>2, <2>3
<1>7. Placed(place')
  BY <1>1, <1>4, <1>5, <1>6 DEF Placed
<1>8. /\ place'[p] = N
      /\ \A q \in Pollers : /\ place[p] < place[q] => place'[q] = place[q] - 1
                            /\ place[q] < place[p] => place'[q] = place[q]
  BY <1>1, <1>2, <1>3
<1>9. QED
  BY <1>7, <1>8 DEF Fetch

LEMMA PlacedIsBijection == \A f : f \in Bijection(Pollers, Places) <=> Placed(f)
BY DEF Bijection, Injection, Surjection, IsInjective, Placed

LEMMA DelaysBound ==
  ASSUME NEW d \in Delays(stretched)
  PROVE  d \in Nat \ {0} /\ d <= MaxDelay /\ (stretched => Pace <= d)
BY PacingBounds DEF Delays

\* Every variable keeps its type.
THEOREM PacingTypeCorrect == PacingSpec => []PacingTypeOK
<1> USE PacingBounds
<1>1. PacingInit => PacingTypeOK
  BY PacingAssumption DEF PacingInit, PacingTypeOK, MaxAge, Patience, N
<1>2. PacingTypeOK /\ [PacingNext]_pacingVars => PacingTypeOK'
  <2> SUFFICES ASSUME PacingTypeOK, [PacingNext]_pacingVars PROVE PacingTypeOK'
    OBVIOUS
  <2>1. MaxAge \in Nat /\ Placed(place)
    BY RoundsFacts, PlacedIsBijection DEF MaxAge, Patience, Rounds, N, PacingTypeOK
  <2>2. ASSUME NEW p \in Pollers, Fetch(p)
        PROVE  /\ place' \in Bijection(Pollers, Places)
               /\ age' \in [Pollers -> 0..MaxAge] /\ timer' \in [Pollers -> 0..MaxDelay + 1]
    <3>1. /\ Placed(place') /\ age' = [age EXCEPT ![p] = 0]
          /\ \E d \in Delays(stretched) : timer' = [timer EXCEPT ![p] = d]
      BY <2>1, <2>2, FetchPlaces
    <3>2. QED
      BY <2>1, <3>1, DelaysBound, PlacedIsBijection DEF PacingTypeOK
  <2>3. ASSUME NEW p \in Pollers, Fire(p) PROVE PacingTypeOK'
    <3>1. started' = started /\ stretched' = stretched
      BY <2>3 DEF Fire
    <3>2. CASE Granted(p)
      BY <2>2, <3>1, <3>2 DEF Granted, SlotLength, PacingTypeOK
    <3>3. CASE Denied(p)
      <4>1. \A d : d \in Jittered(slot) \cup Jittered(Gap) => d \in 0..MaxDelay + 1
        BY DEF Jittered, PacingTypeOK
      <4>2. \E d \in Jittered(slot) \cup Jittered(Gap) : timer' = [timer EXCEPT ![p] = d]
        BY <3>3 DEF Denied
      <4>3. UNCHANGED <<place, age, slot>>
        BY <3>3 DEF Denied
      <4>4. QED
        BY <3>1, <4>1, <4>2, <4>3 DEF PacingTypeOK
    <3>4. QED
      BY <2>3, <3>2, <3>3 DEF Fire
  <2>4. ASSUME NEW p \in Pollers, Wake(p) PROVE PacingTypeOK'
    BY <2>2, <2>4 DEF Wake, PacingTypeOK
  <2>5. CASE Elapse
    BY <2>1, <2>5 DEF Elapse, PacingTypeOK
  <2>6. CASE Budget \/ UNCHANGED pacingVars
    BY <2>6 DEF Budget, pacingVars, PacingTypeOK
  <2>7. QED
    BY <2>3, <2>4, <2>5, <2>6 DEF PacingNext
<1>3. QED
  BY <1>1, <1>2, PTL DEF PacingSpec

----------------------------------------------------------------------------
\* Each place ahead is one round of waiting more.
LEMMA LongestFacts ==
  /\ Longest(N) = MaxDelay
  /\ \A n \in Places : /\ Longest(n) \in Nat /\ MaxDelay <= Longest(n) /\ Longest(n) <= Patience
                       /\ n > 1 => Longest(n - 1) = Longest(n) + Gap + 1
                       /\ n < N => MaxDelay + Gap + 1 <= Longest(n)
<1>1. N \in Nat \ {0} /\ Places = 1..N /\ Gap \in Nat /\ MaxDelay \in Nat
  BY PacingBounds DEF Places, N
<1>2. Patience = MaxDelay + Rounds(N - 1)
  BY DEF Patience, Rounds, N
<1>3. Longest(N) = MaxDelay
  BY <1>1, RoundsFacts DEF Longest
<1>4. ASSUME NEW n \in Places
      PROVE  /\ Longest(n) \in Nat /\ MaxDelay <= Longest(n) /\ Longest(n) <= Patience
             /\ n > 1 => Longest(n - 1) = Longest(n) + Gap + 1
             /\ n < N => MaxDelay + Gap + 1 <= Longest(n)
  <2>1. N - n \in Nat /\ N - 1 \in Nat /\ N - n <= N - 1
    BY <1>1
  <2>2. Rounds(N - n) \in Nat /\ Rounds(N - n) <= Rounds(N - 1) /\ Rounds(N - 1) \in Nat
    BY <2>1, RoundsFacts
  <2>3. n > 1 => Rounds(N - (n - 1)) = Rounds(N - n) + Gap + 1
    <3>1. N - (n - 1) = (N - n) + 1
      BY <1>1
    <3>2. Rounds((N - n) + 1) = Rounds(N - n) + Gap + 1
      BY <2>1, RoundsFacts
    <3>3. QED
      BY <3>1, <3>2
  <2>4. n < N => Gap + 1 <= Rounds(N - n)
    <3>1. SUFFICES ASSUME n < N PROVE Gap + 1 <= Rounds(N - n)
      OBVIOUS
    <3>2. 1 <= N - n /\ 1 \in Nat /\ 0 \in Nat
      BY <1>1, <3>1
    <3>3. Rounds(0 + 1) = Gap + 1
      BY <1>1, RoundsFacts, <3>2
    <3>4. Rounds(1) <= Rounds(N - n)
      BY <2>1, <3>2, RoundsFacts
    <3>5. QED
      BY <1>1, <3>3, <3>4
  <2>5. QED
    BY <1>1, <1>2, <2>2, <2>3, <2>4 DEF Longest
<1>5. QED
  BY <1>3, <1>4

\* A fetch leaves the oldest poller's timer short enough for all that wait.
LEMMA FetchTurn ==
  ASSUME PacingTypeOK, TurnInv, NEW p \in Pollers, Fetch(p)
  PROVE  /\ \A q, r \in Pollers : place'[q] < place'[r] => age'[r] <= age'[q]
         /\ \A q \in Pollers : timer'[q] <= Gap + 1 \/ age'[q] + timer'[q] <= MaxDelay
         /\ \A o, q \in Pollers : place'[o] = 1 => age'[q] + timer'[o] <= Longest(place'[q])
<1>1. N \in Nat \ {0} /\ Places = 1..N /\ Gap \in Nat \ {0} /\ MaxDelay \in Nat
      /\ (N > 1 => Gap + 1 <= MaxDelay)
  BY PacingBounds DEF Places, N
<1>2. /\ Placed(place) /\ Placed(place') /\ place'[p] = N
      /\ \A q \in Pollers : /\ place[p] < place[q] => place'[q] = place[q] - 1
                            /\ place[q] < place[p] => place'[q] = place[q]
      /\ age' = [age EXCEPT ![p] = 0]
  BY FetchPlaces, PlacedIsBijection DEF PacingTypeOK
<1>3. PICK d \in Nat : d <= MaxDelay /\ timer' = [timer EXCEPT ![p] = d]
  BY FetchPlaces, PlacedIsBijection, DelaysBound DEF PacingTypeOK
<1>4. \A q \in Pollers : /\ place[q] \in 1..N /\ place'[q] \in 1..N
                         /\ q # p => place[q] # place[p] /\ place'[q] # N
  BY <1>1, <1>2 DEF Placed
<1>5. \A q \in Pollers : /\ age[q] \in Nat /\ timer[q] \in Nat
                         /\ age'[q] = (IF q = p THEN 0 ELSE age[q])
                         /\ timer'[q] = (IF q = p THEN d ELSE timer[q])
  BY <1>2, <1>3 DEF PacingTypeOK, MaxAge
<1>6. ASSUME NEW q \in Pollers, NEW r \in Pollers, place'[q] < place'[r]
      PROVE  age'[r] <= age'[q]
  <2>1. q # p
    BY <1>1, <1>2, <1>4, <1>6
  <2>2. CASE r = p
    BY <1>5, <2>1, <2>2
  <2>3. CASE r # p
    <3>1. place[q] < place[r]
      BY <1>1, <1>2, <1>4, <1>6, <2>1, <2>3
    <3>2. QED
      BY <1>5, <2>1, <2>3, <3>1 DEF TurnInv
  <2>4. QED
    BY <2>2, <2>3
<1>7. ASSUME NEW q \in Pollers
      PROVE  timer'[q] <= Gap + 1 \/ age'[q] + timer'[q] <= MaxDelay
  BY <1>1, <1>3, <1>5 DEF TurnInv
<1>8. ASSUME NEW o \in Pollers, NEW q \in Pollers, place'[o] = 1
      PROVE  age'[q] + timer'[o] <= Longest(place'[q])
  <2>1. /\ Longest(place'[q]) \in Nat /\ Longest(place[q]) \in Nat
        /\ MaxDelay <= Longest(place'[q]) /\ MaxDelay <= Longest(place[q])
        /\ Longest(N) = MaxDelay
        /\ place[q] > 1 => Longest(place[q] - 1) = Longest(place[q]) + Gap + 1
    BY <1>1, <1>4, LongestFacts
  <2>2. CASE N = 1
    <3>1. o = p /\ q = p
      BY <1>4, <2>2
    <3>2. QED
      BY <1>1, <1>3, <1>5, <2>1, <3>1
  <2>3. CASE N > 1 /\ q = p
    <3>1. o # p
      BY <1>1, <1>2, <1>8, <2>3
    <3>2. timer[o] <= MaxDelay
      BY <1>1, <1>5, <2>3 DEF TurnInv
    <3>3. QED
      BY <1>1, <1>5, <2>1, <2>3, <3>1, <3>2
  <2>4. CASE N > 1 /\ q # p /\ place[p] = 1
    <3>1. o # p /\ place[q] > 1 /\ place'[q] = place[q] - 1
      BY <1>1, <1>2, <1>4, <1>8, <2>4
    <3>2. place[o] > 1 /\ place'[o] = place[o] - 1 /\ (o # q => place[o] < place[q])
      <4>1. place[o] > 1 /\ place[o] = 2
        BY <1>1, <1>2, <1>4, <1>8, <2>4, <3>1
      <4>2. o # q => place[o] # place[q]
        BY <1>2 DEF Placed
      <4>3. QED
        BY <1>1, <1>2, <1>4, <2>4, <3>1, <4>1, <4>2
    <3>3. age[q] <= age[o]
      BY <1>5, <3>2 DEF TurnInv
    <3>4. age[q] + timer[p] <= Longest(place[q])
      BY <2>4 DEF TurnInv
    <3>5. Longest(place'[q]) = Longest(place[q]) + Gap + 1
      BY <2>1, <3>1
    <3>6. timer[o] <= Gap + 1 \/ age[o] + timer[o] <= MaxDelay
      BY DEF TurnInv
    <3>7. age'[q] = age[q] /\ timer'[o] = timer[o]
      BY <1>5, <2>4, <3>1
    <3>8. age[q] \in Nat /\ age[o] \in Nat /\ timer[o] \in Nat /\ timer[p] \in Nat
      BY <1>5
    <3>9. QED
      BY <1>1, <2>1, <3>3, <3>4, <3>5, <3>6, <3>7, <3>8
  <2>5. CASE N > 1 /\ q # p /\ place[p] # 1
    <3>1. o # p /\ place[o] = 1
      BY <1>1, <1>2, <1>4, <1>8, <2>5
    <3>2. age[q] + timer[o] <= Longest(place[q])
      BY <3>1 DEF TurnInv
    <3>3. Longest(place[q]) <= Longest(place'[q])
      <4>1. place'[q] = place[q] \/ (place[q] > 1 /\ place'[q] = place[q] - 1)
        BY <1>1, <1>2, <1>4, <2>5
      <4>2. QED
        BY <1>1, <2>1, <4>1
    <3>4. QED
      BY <1>5, <2>1, <2>5, <3>1, <3>2, <3>3
  <2>6. QED
    BY <1>1, <2>2, <2>3, <2>4, <2>5
<1>9. QED
  BY <1>6, <1>7, <1>8

\* A slot is taken by the oldest poller of those that wait, or when none is due.
LEMMA GrantedIs ==
  ASSUME PacingTypeOK, TurnInv, NEW p \in Pollers, OldestDue \subseteq {p}
  PROVE  place[p] = 1 \/ \A q \in Pollers : age[q] < Pace
<1>1. N \in Nat \ {0} /\ Places = 1..N /\ Pace \in Nat
  BY PacingBounds DEF Places, N
<1>2. /\ place \in [Pollers -> 1..N]
      /\ \A n \in 1..N : \E q \in Pollers : place[q] = n
      /\ \A q, r \in Pollers : place[q] = place[r] => q = r
  BY <1>1, PlacedIsBijection DEF PacingTypeOK, Placed
<1>3. PICK o \in Pollers : place[o] = 1
  BY <1>1, <1>2
<1>4. \A q \in Pollers : age[q] \in Nat /\ age[q] <= age[o]
  <2>1. \A q \in Pollers : q = o \/ place[o] < place[q]
    BY <1>1, <1>2, <1>3
  <2>2. \A q \in Pollers : age[q] \in Nat
    BY DEF PacingTypeOK, MaxAge
  <2>3. QED
    BY <2>1, <2>2 DEF TurnInv
<1>5. CASE Due(o)
  <2>1. o \in OldestDue
    BY <1>1, <1>2, <1>3, <1>5 DEF OldestDue
  <2>2. QED
    BY <1>3, <2>1
<1>6. CASE ~Due(o)
  BY <1>1, <1>4, <1>6 DEF Due
<1>7. QED
  BY <1>5, <1>6

\* The oldest poller is denied its turn only while the slot is taken.
LEMMA DeniedIs ==
  ASSUME PacingTypeOK, TurnInv, NEW o \in Pollers, place[o] = 1, slot = 0
  PROVE  OldestDue \subseteq {o}
<1>1. N \in Nat \ {0} /\ Places = 1..N /\ Pace \in Nat
  BY PacingBounds DEF Places, N
<1>2. place \in [Pollers -> 1..N] /\ \A q, r \in Pollers : place[q] = place[r] => q = r
  BY <1>1, PlacedIsBijection DEF PacingTypeOK, Placed
<1>3. SUFFICES ASSUME NEW q \in OldestDue, q # o PROVE FALSE
  OBVIOUS
<1>4. q \in Pollers /\ Due(q) /\ (Due(o) => place[q] <= place[o])
  BY <1>3 DEF OldestDue
<1>5. place[o] < place[q]
  BY <1>1, <1>2, <1>3, <1>4
<1>6. age[q] <= age[o] /\ age[q] \in Nat /\ age[o] \in Nat
  BY <1>4, <1>5 DEF TurnInv, PacingTypeOK, MaxAge
<1>7. QED
  BY <1>1, <1>2, <1>4, <1>5, <1>6 DEF Due

\* Nor does it make the wait for the slot longer than any poller can bear.
LEMMA FetchSlot ==
  ASSUME PacingTypeOK, TurnInv, NEW p \in Pollers, Fetch(p), slot > 0, timer[p] = 0 \/ age[p] > 0,
         NEW q \in Pollers
  PROVE  age'[q] + slot + 1 <= Longest(place'[q])
<1>1. N \in Nat \ {0} /\ Places = 1..N /\ Gap \in Nat \ {0} /\ MaxDelay \in Nat /\ Pace \in Nat
      /\ Pace <= MaxDelay /\ Gap <= Pace /\ (N > 1 => Gap + 1 <= MaxDelay)
  BY PacingBounds DEF Places, N
<1>2. /\ Placed(place) /\ Placed(place') /\ place'[p] = N
      /\ \A r \in Pollers : /\ place[p] < place[r] => place'[r] = place[r] - 1
                            /\ place[r] < place[p] => place'[r] = place[r]
      /\ age' = [age EXCEPT ![p] = 0]
  BY FetchPlaces, PlacedIsBijection DEF PacingTypeOK
<1>3. /\ place[q] \in 1..N /\ place'[q] \in 1..N /\ place[p] \in 1..N
      /\ q # p => place[q] # place[p]
  BY <1>1, <1>2 DEF Placed
<1>4. slot \in Nat /\ slot <= Gap /\ age[q] \in Nat /\ timer[p] \in Nat
      /\ age'[q] = (IF q = p THEN 0 ELSE age[q])
  BY <1>1, <1>2 DEF PacingTypeOK, MaxAge
<1>5. /\ Longest(place'[q]) \in Nat /\ Longest(place[q]) \in Nat /\ Longest(N) = MaxDelay
      /\ place[q] > 1 => Longest(place[q] - 1) = Longest(place[q]) + Gap + 1
  BY <1>1, <1>3, LongestFacts
<1>6. \/ age[q] + slot + 1 <= Longest(place[q])
      \/ N = 1 /\ age[q] + slot <= Gap /\ slot <= timer[q]
  BY DEF TurnInv
<1>7. CASE q # p
  <2>1. N # 1
    BY <1>3, <1>7
  <2>2. place'[q] = place[q] \/ (place[q] > 1 /\ place'[q] = place[q] - 1)
    BY <1>1, <1>2, <1>3, <1>7
  <2>3. QED
    BY <1>1, <1>4, <1>5, <1>6, <1>7, <2>1, <2>2
<1>8. CASE q = p /\ N = 1
  <2>1. Longest(place[q]) = MaxDelay /\ Longest(place'[q]) = MaxDelay
    BY <1>3, <1>5, <1>8
  <2>2. QED
    BY <1>1, <1>4, <1>6, <1>8, <2>1
<1>9. CASE q = p /\ N > 1
  BY <1>1, <1>2, <1>4, <1>5, <1>9
<1>10. QED
  BY <1>1, <1>7, <1>8, <1>9

LEMMA GrantedTurn ==
  ASSUME PacingTypeOK, TurnInv, NEW p \in Pollers, timer[p] = 0, Granted(p), started' = started
  PROVE  TurnInv'
<1>1. N \in Nat \ {0} /\ Places = 1..N /\ Gap \in Nat \ {0} /\ MaxDelay \in Nat /\ Pace \in Nat
      /\ Pace <= MaxDelay /\ Gap <= Pace /\ (N > 1 => Gap + 1 <= MaxDelay)
  BY PacingBounds DEF Places, N
<1>2. Fetch(p) /\ (stretched => slot = 0 /\ OldestDue \subseteq {p})
      /\ slot' = (IF stretched THEN Gap ELSE slot)
  BY DEF Granted, SlotLength
<1>3. /\ \A q, r \in Pollers : place'[q] < place'[r] => age'[r] <= age'[q]
      /\ \A q \in Pollers : timer'[q] <= Gap + 1 \/ age'[q] + timer'[q] <= MaxDelay
      /\ \A o, q \in Pollers : place'[o] = 1 => age'[q] + timer'[o] <= Longest(place'[q])
      /\ started' = Pollers
  BY <1>2, FetchTurn DEF TurnInv
<1>4. ASSUME slot' > 0, NEW q \in Pollers
      PROVE  \/ age'[q] + slot' + 1 <= Longest(place'[q])
             \/ N = 1 /\ age'[q] + slot' <= Gap /\ slot' <= timer'[q]
  <2>1. CASE ~stretched
    BY <1>2, <1>4, <2>1, FetchSlot
  <2> SUFFICES ASSUME stretched
               PROVE  \/ age'[q] + Gap + 1 <= Longest(place'[q])
                      \/ N = 1 /\ age'[q] + Gap <= Gap /\ Gap <= timer'[q]
    BY <1>2, <2>1
  <2>2. /\ Placed(place) /\ Placed(place') /\ place'[p] = N
        /\ \A r \in Pollers : /\ place[p] < place[r] => place'[r] = place[r] - 1
                              /\ place[r] < place[p] => place'[r] = place[r]
        /\ age' = [age EXCEPT ![p] = 0]
    BY <1>2, FetchPlaces, PlacedIsBijection DEF PacingTypeOK
  <2>3. /\ place[q] \in 1..N /\ place'[q] \in 1..N /\ place[p] \in 1..N
        /\ q # p => place[q] # place[p] /\ place'[q] < N
    BY <1>1, <2>2 DEF Placed
  <2>4. age[q] \in Nat /\ age'[q] = (IF q = p THEN 0 ELSE age[q])
    BY <2>2 DEF PacingTypeOK, MaxAge
  <2>5. /\ Longest(place'[q]) \in Nat /\ Longest(place[q]) \in Nat /\ Longest(N) = MaxDelay
        /\ place[q] > 1 => Longest(place[q] - 1) = Longest(place[q]) + Gap + 1
        /\ place'[q] < N => MaxDelay + Gap + 1 <= Longest(place'[q])
    BY <1>1, <2>3, LongestFacts
  <2>6. CASE q = p /\ N > 1
    BY <1>1, <2>2, <2>4, <2>5, <2>6
  <2>7. CASE q = p /\ N = 1
    <3>1. PICK d \in Delays(stretched) : timer' = [timer EXCEPT ![p] = d]
      BY <1>2, FetchPlaces, PlacedIsBijection DEF PacingTypeOK
    <3>2. timer'[q] = d /\ d \in Nat /\ Pace <= d
      BY <2>7, <3>1, DelaysBound DEF PacingTypeOK
    <3>3. QED
      BY <1>1, <2>4, <2>7, <3>2
  <2>8. CASE q # p
    <3>1. CASE place[p] = 1
      <4>1. age[q] + timer[p] <= Longest(place[q])
        BY <3>1 DEF TurnInv
      <4>2. place'[q] = place[q] - 1 /\ place[q] > 1
        BY <1>1, <2>2, <2>3, <2>8, <3>1
      <4>3. QED
        BY <1>1, <2>4, <2>5, <2>8, <4>1, <4>2
    <3>2. CASE \A r \in Pollers : age[r] < Pace
      <4>1. age[q] < Pace
        BY <3>2
      <4>2. QED
        BY <1>1, <2>3, <2>4, <2>5, <2>8, <4>1
    <3>3. QED
      BY <1>2, <3>1, <3>2, GrantedIs
  <2>9. QED
    BY <1>1, <2>6, <2>7, <2>8
<1>5. QED
  BY <1>3, <1>4 DEF TurnInv

LEMMA DeniedTurn ==
  ASSUME PacingTypeOK, TurnInv, NEW p \in Pollers, timer[p] = 0, Denied(p), started' = started
  PROVE  TurnInv'
<1>1. Gap \in Nat \ {0} /\ slot \in Nat /\ slot <= Gap
  BY PacingBounds DEF PacingTypeOK
<1>2. PICK d \in Nat \ {0} :
        /\ timer' = [timer EXCEPT ![p] = d]
        /\ d <= Gap + 1
        /\ slot > 0 => d <= slot + 1
        /\ slot = 0 => ~(OldestDue \subseteq {p})
  <2>1. CASE slot > 0
    <3>1. PICK d \in Jittered(slot) : timer' = [timer EXCEPT ![p] = d]
      BY <1>1, <2>1 DEF Denied
    <3>2. d \in Nat \ {0} /\ d <= slot + 1
      BY <1>1 DEF Jittered
    <3>3. /\ timer' = [timer EXCEPT ![p] = d] /\ d <= Gap + 1
          /\ slot > 0 => d <= slot + 1
          /\ slot = 0 => ~(OldestDue \subseteq {p})
      BY <1>1, <2>1, <3>1, <3>2
    <3>4. QED
      BY <3>2, <3>3
  <2>2. CASE slot = 0
    <3>1. PICK d \in Jittered(Gap) : timer' = [timer EXCEPT ![p] = d]
      BY <2>2 DEF Denied
    <3>2. d \in Nat \ {0} /\ d <= Gap + 1 /\ ~(OldestDue \subseteq {p})
      BY <1>1, <2>2 DEF Jittered, Denied
    <3>3. /\ timer' = [timer EXCEPT ![p] = d] /\ d <= Gap + 1
          /\ slot > 0 => d <= slot + 1
          /\ slot = 0 => ~(OldestDue \subseteq {p})
      BY <1>1, <2>2, <3>1, <3>2
    <3>4. QED
      BY <3>2, <3>3
  <2>3. QED
    BY <1>1, <2>1, <2>2
<1>3. UNCHANGED <<place, age, slot>>
  BY DEF Denied
<1>4. \A q \in Pollers : /\ age[q] \in Nat /\ timer[q] \in Nat
                         /\ timer'[q] = (IF q = p THEN d ELSE timer[q])
  BY <1>2 DEF PacingTypeOK, MaxAge
<1>5. \A q \in Pollers : timer'[q] <= Gap + 1 \/ age'[q] + timer'[q] <= MaxDelay
  BY <1>1, <1>2, <1>3, <1>4 DEF TurnInv
<1>6. ASSUME slot > 0, NEW q \in Pollers
      PROVE  age[q] + slot + 1 <= Longest(place[q]) \/ (q # p /\ N = 1 /\ age[q] + slot <= Gap /\ slot <= timer[q])
  <2>1. \/ age[q] + slot + 1 <= Longest(place[q])
        \/ N = 1 /\ age[q] + slot <= Gap /\ slot <= timer[q]
    BY <1>6 DEF TurnInv
  <2>2. QED
    BY <1>1, <1>6, <2>1
<1>7. ASSUME NEW o \in Pollers, NEW q \in Pollers, place[o] = 1
      PROVE  age[q] + timer'[o] <= Longest(place[q])
  <2>1. CASE o # p
    BY <1>4, <1>7, <2>1 DEF TurnInv
  <2>2. CASE o = p
    <3>1. slot > 0 /\ d <= slot + 1
      BY <1>1, <1>2, <1>7, <2>2, DeniedIs
    <3>2. Longest(place[q]) \in Nat
      BY LongestFacts, PlacedIsBijection DEF Placed, PacingTypeOK
    <3>3. CASE q = p
      BY <1>1, <1>4, <1>6, <2>2, <3>1, <3>3, <3>2
    <3>4. CASE q # p
      <4>1. N # 1
        <5>1. place[q] \in Places /\ place[q] # place[p] /\ place[p] \in Places /\ N \in Nat
          BY <3>4, PlacedIsBijection, PacingBounds DEF Placed, PacingTypeOK
        <5>2. QED
          BY <5>1 DEF Places, N
      <4>2. QED
        BY <1>1, <1>4, <1>6, <2>2, <3>1, <3>4, <3>2, <4>1
    <3>5. QED
      BY <3>3, <3>4
  <2>3. QED
    BY <2>1, <2>2
<1>8. ASSUME slot > 0, NEW q \in Pollers
      PROVE  \/ age[q] + slot + 1 <= Longest(place[q])
             \/ N = 1 /\ age[q] + slot <= Gap /\ slot <= timer'[q]
  BY <1>4, <1>6, <1>8
<1>9. QED
  BY <1>3, <1>5, <1>7, <1>8 DEF TurnInv

LEMMA ElapseTurn ==
  ASSUME PacingTypeOK, TurnInv, Elapse
  PROVE  TurnInv'
<1>1. /\ Gap \in Nat /\ slot \in Nat /\ MaxAge \in Nat /\ MaxDelay \in Nat
      /\ \A p \in Pollers : age[p] \in Nat /\ age[p] <= MaxAge /\ timer[p] \in Nat
  BY PacingBounds, RoundsFacts DEF PacingTypeOK, MaxAge, Patience, Rounds, N
<1>2. /\ UNCHANGED <<place, started>> /\ started = Pollers
      /\ slot' = (IF slot > 0 THEN slot - 1 ELSE 0)
      /\ \A p \in Pollers : /\ timer[p] > 0 /\ timer'[p] = timer[p] - 1
                            /\ age'[p] = (IF age[p] < MaxAge THEN age[p] + 1 ELSE MaxAge)
  BY DEF Elapse, TurnInv
<1>3. \A p \in Pollers : age'[p] \in Nat /\ age'[p] <= age[p] + 1 /\ timer'[p] \in Nat
  BY <1>1, <1>2
<1>4. \A p, q \in Pollers : place[p] < place[q] => age'[q] <= age'[p]
  BY <1>1, <1>2 DEF TurnInv
<1>5. \A p \in Pollers : timer'[p] <= Gap + 1 \/ age'[p] + timer'[p] <= MaxDelay
  BY <1>1, <1>2, <1>3 DEF TurnInv
<1>6. \A p \in Pollers : Longest(place[p]) \in Nat
  BY LongestFacts, PlacedIsBijection DEF Placed, PacingTypeOK
<1>7. \A o, p \in Pollers : place[o] = 1 => age'[p] + timer'[o] <= Longest(place[p])
  BY <1>1, <1>2, <1>3, <1>6 DEF TurnInv
<1>8. ASSUME slot' > 0, NEW p \in Pollers
      PROVE  \/ age'[p] + slot' + 1 <= Longest(place[p])
             \/ N = 1 /\ age'[p] + slot' <= Gap /\ slot' <= timer'[p]
  <2>1. slot > 0 /\ slot' = slot - 1
    BY <1>1, <1>2, <1>8
  <2>2. \/ age[p] + slot + 1 <= Longest(place[p])
        \/ N = 1 /\ age[p] + slot <= Gap /\ slot <= timer[p]
    BY <2>1 DEF TurnInv
  <2>3. QED
    BY <1>1, <1>2, <1>3, <1>6, <2>1, <2>2
<1>9. QED
  BY <1>2, <1>4, <1>5, <1>7, <1>8 DEF TurnInv

\* While the budget is short or ample, by turns, and whatever the others' timers,
\* wakes and jitter do: a running poller's turn comes after its own timer and one
\* slot of each other poller (grantTurn of hub.go, OldestDue of pace.go). None
\* may be restored: one whose watcher does not return keeps the others waiting.
THEOREM TurnComes == ASSUME Restored = {} PROVE PacingSpec => []BoundedWait
<1> USE PacingBounds
<1>1. PacingInit => TurnInv
  <2> SUFFICES ASSUME PacingInit PROVE TurnInv
    OBVIOUS
  <2>1. /\ age = [p \in Pollers |-> 0] /\ started = Pollers /\ timer = [p \in Pollers |-> Base] /\ slot = 0
        /\ Placed(place)
    BY PlacedIsBijection DEF PacingInit
  <2>2. \A p \in Pollers : Longest(place[p]) \in Nat /\ MaxDelay <= Longest(place[p])
    BY <2>1, LongestFacts DEF Placed
  <2>3. QED
    BY <2>1, <2>2 DEF TurnInv
<1>2. PacingTypeOK /\ TurnInv /\ [PacingNext]_pacingVars => TurnInv'
  <2> SUFFICES ASSUME PacingTypeOK, TurnInv, [PacingNext]_pacingVars PROVE TurnInv'
    OBVIOUS
  <2>1. ASSUME NEW p \in Pollers, Fire(p) PROVE TurnInv'
    BY <2>1, GrantedTurn, DeniedTurn DEF Fire
  <2>2. ASSUME NEW p \in Pollers, Wake(p) PROVE TurnInv'
    <3>1. Fetch(p) /\ age[p] > 0 /\ slot' = slot /\ started' = Pollers
      BY <2>2 DEF Wake, TurnInv
    <3>2. slot > 0 => \A q \in Pollers : age'[q] + slot + 1 <= Longest(place'[q])
      BY <3>1, FetchSlot
    <3>3. QED
      BY <3>1, <3>2, FetchTurn DEF TurnInv
  <2>3. CASE Elapse
    BY <2>3, ElapseTurn
  <2>4. CASE Budget \/ UNCHANGED pacingVars
    BY <2>4 DEF Budget, pacingVars, TurnInv
  <2>5. QED
    BY <2>1, <2>2, <2>3, <2>4 DEF PacingNext
<1>3. PacingTypeOK /\ TurnInv => BoundedWait
  <2> SUFFICES ASSUME PacingTypeOK, TurnInv, NEW p \in Pollers PROVE age[p] <= Patience
    BY DEF BoundedWait, TurnInv
  <2>1. Placed(place)
    BY PlacedIsBijection DEF PacingTypeOK
  <2>2. PICK o \in Pollers : place[o] = 1
    BY <2>1 DEF Placed, Places, N
  <2>3. age[p] + timer[o] <= Longest(place[p]) /\ age[p] \in Nat /\ timer[o] \in Nat
    BY <2>2 DEF TurnInv, PacingTypeOK, MaxAge
  <2>4. Longest(place[p]) \in Nat /\ Longest(place[p]) <= Patience /\ Patience \in Nat
    BY <2>1, LongestFacts, RoundsFacts DEF Placed, Patience, Rounds, N
  <2>5. QED
    BY <2>3, <2>4
<1>4. QED
  BY <1>1, <1>2, <1>3, PacingTypeCorrect, PTL DEF PacingSpec
=============================================================================
