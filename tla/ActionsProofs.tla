--------------------------- MODULE ActionsProofs ---------------------------
(***************************************************************************)
(* The commands that act on a pull request keep their word: for every set  *)
(* of commands and of backends, every pull request, and whatever is lost   *)
(* and whatever others do, a command changes GitHub at most once, one that *)
(* reports success has done what it says, and a list is complete.          *)
(***************************************************************************)
EXTENDS Actions, FiniteSetTheorems, WellFoundedInduction, TLAPS

Stages ==
  {"thread", "repository", "pull", "page", "view", "drafts", "status",
   "identifiers", "mutation", "comment", "replied", "report", "ended"}

\* Threads as read, with whether they were resolved.
Reports == SUBSET (Nat \X BOOLEAN)
Answers == [is: {"nothing", "error", "refused", "done"}, says: Reports]

TypeOK ==
  /\ pr \in PRType
  /\ job \in [Commands -> JobType]
  /\ call \in [Commands -> Stages \union {"new"}]
  /\ got \in [Commands -> Reports]
  /\ link \in [Commands -> {"here", "open", "cut"}]
  /\ answer \in [Commands -> Answers]
  /\ effects \in [Commands -> Nat]
  /\ moments \in [Commands -> SUBSET PRType]

\* The mutation is the last thing that a command does, but for a reply, which
\* is read back; what was answered over a lost connection is an error.
Counted(c) ==
  /\ effects[c] <= 1
  /\ call[c] \notin {"comment", "replied", "ended"} => effects[c] = 0
  /\ call[c] \in {"comment", "replied"} => effects[c] = 1
  /\ answer[c].is = "refused" => effects[c] = 0
  /\ answer[c].is \in {"done", "refused"} => call[c] = "ended" /\ link[c] # "cut"
  /\ call[c] = "new" => moments[c] = {}

\* What a command says it did was done, and what it says it saw was there.
Told(c, says) ==
  /\ Verb(c) \in Ops["review"] \union Ops["comments"] => effects[c] = 1
  /\ Verb(c) \in {"resolve", "unresolve"} =>
       \E m \in moments[c] : (job[c].on \in m.resolved) = (Verb(c) = "resolve")
  /\ Verb(c) \in {"draft", "ready"} =>
       \E m \in moments[c] : m.draft = (Verb(c) = "draft")
  /\ Verb(c) \in {"status", "drafts"} =>
       \A x \in says : \E m \in moments[c] : m.draft = x[2]
  /\ Verb(c) = "start" /\ job[c].commit = CurrentHead =>
       \E m \in moments[c] : says = {<<m.head, TRUE>>}

\* review --start goes by a head that the pull request had while it ran.
Headed(c) ==
  Verb(c) = "start" /\ call[c] = "mutation" =>
    \E m \in moments[c] : got[c] = {<<m.head, TRUE>>}

Truthful(c) == (answer[c].is = "done" => Told(c, answer[c].says)) /\ Headed(c)

\* A thread that a list holds was on the pull request as it says.
Seen(c, x) == \E m \in moments[c] : x[1] \in m.threads /\ x[2] = (x[1] \in m.resolved)

\* A thread that was there all along, and among those that were asked for.
Stayed(c, t) == \A m \in moments[c] : t \in m.threads
Wanted(c, t, open) ==
  \A m \in moments[c] : t \in m.threads /\ (open => t \notin m.resolved)

\* The pages read so far hold all that was there up to the last thread on them.
Reading(c) ==
  /\ call[c] \in {"page", "view"} => \A x \in got[c] : Seen(c, x)
  /\ Verb(c) = "list" /\ call[c] = "page" =>
       \A t \in 1..MaxThreads :
         Stayed(c, t) /\ (\E y \in got[c] : t <= y[1]) => \E x \in got[c] : x[1] = t

\* What a list says is true, and complete.
Shown(c, says) ==
  /\ Verb(c) \in {"list", "view", "report"} => \A x \in says : Seen(c, x)
  /\ Verb(c) = "list" =>
       \A t \in 1..MaxThreads : Wanted(c, t, job[c].open) => \E x \in says : x[1] = t

Listed(c) == Reading(c) /\ (answer[c].is = "done" => Shown(c, answer[c].says))

IInv == TypeOK /\ \A c \in Commands : Counted(c) /\ Truthful(c) /\ Listed(c)

----------------------------------------------------------------------------
\* The operators of the model.

\* A set of naturals that is not empty has a least element.
LEMMA MinExists ==
  ASSUME NEW S \in SUBSET Nat, S # {}
  PROVE  \E x \in S : \A y \in S : x <= y
<1>1. PICK x \in S : \A y \in S : <<y, x>> \notin OpToRel(<, Nat)
  BY NatLessThanWellFounded, WFMin
<1>2. \A y \in S : ~ (y < x)
  BY <1>1 DEF OpToRel
<1>3. QED
  BY <1>2

\* Max is the greatest element of a bounded set that is not empty.
LEMMA MaxIs ==
  ASSUME NEW n \in Nat, NEW S \in SUBSET (0..n), S # {}
  PROVE  Max(S) \in S /\ \A y \in S : y <= Max(S)
<1> DEFINE T == {n - y : y \in S}
<1>1. \A y \in S : n - y \in Nat
  OBVIOUS
<1>2. T \in SUBSET Nat /\ T # {}
  BY <1>1
<1>3. PICK m \in T : \A y \in T : m <= y
  <2> HIDE DEF T
  <2>1. QED
    BY <1>2, MinExists
<1>4. PICK x \in S : m = n - x
  BY <1>3
<1>5. \A y \in S : x >= y
  BY <1>3, <1>4
<1>6. QED
  BY <1>5 DEF Max

\* A page holds threads after the cursor, with every such thread that comes
\* before one of its own, and is empty only if there is none.
LEMMA PageFacts ==
  ASSUME pr \in PRType, NEW cursor \in Nat, NEW size \in Nat \ {0}
  PROVE  /\ PageAfter(cursor, size) \subseteq {t \in pr.threads : t > cursor}
         /\ \A u \in PageAfter(cursor, size), t \in pr.threads :
              cursor < t /\ t < u => t \in PageAfter(cursor, size)
         /\ PageAfter(cursor, size) = {} => \A t \in pr.threads : t <= cursor
<1> DEFINE later == {t \in pr.threads : t > cursor}
           before(t) == {u \in later : u < t}
<1>1. MaxThreads \in Nat /\ later \in SUBSET (1..MaxThreads)
  BY ActionsAssumption DEF PRType
<1>2. IsFiniteSet(later)
  <2>1. IsFiniteSet(1..MaxThreads)
    BY <1>1, FS_Interval
  <2>2. QED
    BY <1>1, <2>1, FS_Subset
<1>3. PageAfter(cursor, size) = {t \in later : Cardinality(before(t)) < size}
  BY DEF PageAfter
<1>4. \A t, u \in later :
        t < u => Cardinality(before(t)) <= Cardinality(before(u))
  <2> SUFFICES ASSUME NEW t \in later, NEW u \in later, t < u
               PROVE  Cardinality(before(t)) <= Cardinality(before(u))
    OBVIOUS
  <2>1. IsFiniteSet(before(u))
    BY <1>2, FS_Subset
  <2>2. before(t) \subseteq before(u)
    BY <1>1
  <2>3. QED
    BY <2>1, <2>2, FS_Subset
<1>5. \A t \in later : Cardinality(before(t)) \in Nat
  BY <1>2, FS_Subset, FS_CardinalityType
<1>6. \A u \in PageAfter(cursor, size), t \in pr.threads :
        cursor < t /\ t < u => t \in PageAfter(cursor, size)
  <2> SUFFICES ASSUME NEW u \in PageAfter(cursor, size), NEW t \in pr.threads,
                      cursor < t, t < u
               PROVE  t \in PageAfter(cursor, size)
    OBVIOUS
  <2>1. u \in later /\ Cardinality(before(u)) < size /\ t \in later
    BY <1>1, <1>3
  <2> HIDE DEF later, before
  <2>2. Cardinality(before(t)) < size
    BY <2>1, <1>4, <1>5
  <2>3. QED
    BY <1>3, <2>1, <2>2
<1>7. later # {} => PageAfter(cursor, size) # {}
  <2> SUFFICES ASSUME later # {} PROVE PageAfter(cursor, size) # {}
    OBVIOUS
  <2>1. PICK x \in later : \A y \in later : x <= y
    <3>1. later \in SUBSET Nat
      BY <1>1
    <3> HIDE DEF later
    <3>2. QED
      BY <3>1, MinExists
  <2>2. before(x) = {}
    BY <1>1, <2>1
  <2>3. Cardinality(before(x)) = 0
    BY <2>2, FS_EmptySet
  <2>4. QED
    BY <1>3, <2>1, <2>3
<1>8. PageAfter(cursor, size) \subseteq later
  BY <1>3
<1>9. later = {} => \A t \in pr.threads : t <= cursor
  BY <1>1, ActionsAssumption DEF PRType
<1>10. QED
  BY <1>6, <1>7, <1>8, <1>9

\* What is read of a thread: its name, and whether it is resolved.
LEMMA StateIs ==
  ASSUME NEW p, NEW t \in Nat
  PROVE  /\ State(p, t) \in Nat \X BOOLEAN
         /\ State(p, t)[1] = t
         /\ State(p, t)[2] = (t \in p.resolved)
<1>1. \E b \in BOOLEAN : b = (t \in p.resolved) /\ State(p, t) = <<t, b>>
  <2>1. CASE t \in p.resolved
    <3>1. (t \in p.resolved) = TRUE
      BY <2>1
    <3>2. State(p, t) = <<t, TRUE>>
      BY <3>1 DEF State
    <3>3. QED
      BY <3>1, <3>2
  <2>2. CASE t \notin p.resolved
    <3>1. (t \in p.resolved) = FALSE
      BY <2>2
    <3>2. State(p, t) = <<t, FALSE>>
      BY <3>1 DEF State
    <3>3. QED
      BY <3>1, <3>2
  <2>3. QED
    BY <2>1, <2>2
<1>2. PICK b \in BOOLEAN : b = (t \in p.resolved) /\ State(p, t) = <<t, b>>
  BY <1>1
<1>3. <<t, b>> \in Nat \X BOOLEAN /\ <<t, b>>[1] = t /\ <<t, b>>[2] = b
  OBVIOUS
<1>4. QED
  BY <1>2, <1>3

----------------------------------------------------------------------------
\* What a step of the work on a command may change.

\* The command c ends, or goes on, with values of the right types.
Moves(c) ==
  /\ \E next \in Stages : call' = [call EXCEPT ![c] = next]
  /\ \E value \in Reports : got' = [got EXCEPT ![c] = value]
  /\ answer' = answer \/ \E a \in Answers : answer' = [answer EXCEPT ![c] = a]

\* An answer moves its command to its end, with what was asked left as it was.
LEMMA AnswerMoves ==
  ASSUME NEW c, NEW a \in Answers, Answer(c, a)
  PROVE  Moves(c)
BY DEF Answer, Moves, Stages, Reports

\* A command that goes on moves to its next call with what it has learnt.
LEMMA ContinueMoves ==
  ASSUME NEW c, NEW next \in Stages, NEW value \in Reports, Continue(c, next, value)
  PROVE  Moves(c)
BY DEF Continue, Moves

\* The answers of the services are answers.
LEMMA AnswerTypes ==
  /\ Silent \in Answers /\ Failed \in Answers /\ Refused \in Answers
  /\ \A says \in Reports : Done(says) \in Answers
BY DEF Silent, Failed, Refused, Done, Answers, Reports

\* A step of the work on a command changes only what belongs to it, and the
\* pull request.
Shape(c) ==
  /\ Moves(c)
  /\ UNCHANGED <<job, link>>
  /\ call[c] \notin {"new", "ended"}
  /\ pr' \in PRType
  /\ \E n \in {0, 1} : effects' = [effects EXCEPT ![c] = @ + n]

\* A read changes neither the pull request nor the count of the command's
\* effects.
LEMMA ReadShape ==
  ASSUME TypeOK, NEW c \in Commands, Reads(c), Moves(c), call[c] \notin {"new", "ended"}
  PROVE  Shape(c)
BY DEF Reads, Shape, TypeOK

\* A mutation changes them only when it was carried out, from the call of that
\* name.
LEMMA MutateShape ==
  ASSUME TypeOK, NEW c \in Commands, NEW o, NEW after, Mutates(c, o, after), Moves(c),
         CarriedOut(o) => after \in PRType, call[c] = "mutation"
  PROVE  Shape(c)
BY DEF Mutates, Shape, TypeOK

\* Every step of a service has one of the two shapes.
LEMMA WorksShape ==
  ASSUME TypeOK, NEW c \in Commands, Truthful(c), Works(c)
  PROVE  Shape(c)
<1> USE AnswerTypes
<1>1. /\ pr \in PRType /\ got[c] \in Reports
      /\ job[c].on \in Nat /\ job[c].commit \in Nat
  BY DEF TypeOK, JobType
<1>2. \A p : \A t \in Nat : {State(p, t)} \in Reports
  BY StateIs DEF Reports
<1>3. \A p : \A ts \in SUBSET Nat : {State(p, t) : t \in ts} \in Reports
  <2>1. \A p : \A t \in Nat : State(p, t) \in Nat \X BOOLEAN
    BY StateIs
  <2>2. QED
    BY <2>1 DEF Reports
<1>4. \A cursor, size : PageAfter(cursor, size) \in SUBSET Nat
  BY <1>1 DEF PageAfter, PRType
<1>5. \A k \in Nat, b \in BOOLEAN : {<<k, b>>} \in Reports
  BY DEF Reports
<1>6. {} \in Reports /\ DraftState \in Reports
  BY <1>1, <1>5 DEF Reports, DraftState, PRType
<1>7. \A A, B \in Reports : A \union B \in Reports
  BY DEF Reports
<1>8. CASE fetchThread(c)
  <2>1. Moves(c)
    BY <1>1, <1>2, <1>6, <1>8, AnswerMoves, ContinueMoves DEF fetchThread, Stages
  <2>2. QED
    BY <1>8, <2>1, ReadShape DEF fetchThread, Asks
<1>9. CASE performResolve(c)
  <2>1. Moves(c)
    BY <1>1, <1>2, <1>6, <1>9, AnswerMoves DEF performResolve
  <2>2. QED
    BY <1>1, <1>9, <2>1, MutateShape DEF performResolve, Asks, PRType
<1>10. CASE performUnresolve(c)
  <2>1. Moves(c)
    BY <1>1, <1>2, <1>6, <1>10, AnswerMoves DEF performUnresolve
  <2>2. QED
    BY <1>1, <1>10, <2>1, MutateShape DEF performUnresolve, Asks, PRType
<1>11. CASE loadPullContext(c)
  <2>1. Moves(c)
    BY <1>1, <1>2, <1>6, <1>11, AnswerMoves, ContinueMoves DEF loadPullContext, Stages
  <2>2. QED
    BY <1>11, <2>1, ReadShape DEF loadPullContext, Asks
<1>12. CASE collectThreads(c)
  <2> DEFINE cursor == Max({0} \union {x[1] : x \in got[c]})
             all == got[c] \union {State(pr, t) : t \in PageAfter(cursor, PageSize)}
  <2>1. all \in Reports /\ List(all, job[c].open) \in Reports
    <3>1. all \in Reports
      BY <1>1, <1>3, <1>4, <1>7
    <3> HIDE DEF all
    <3>2. QED
      BY <3>1 DEF List, Reports
  <2>2. \/ Answer(c, Failed)
        \/ Continue(c, "page", all)
        \/ Answer(c, Done(List(all, job[c].open)))
    BY <1>12 DEF collectThreads
  <2> HIDE DEF all
  <2>3. Moves(c)
    BY <2>1, <2>2, AnswerMoves, ContinueMoves DEF Stages
  <2>4. QED
    BY <1>12, <2>3, ReadShape DEF collectThreads, Asks
<1>13. CASE fetchThreadWithComments(c)
  <2>1. PICK o \in Outcomes \ {"lost"}, t \in 1..job[c].on :
          LET all == got[c] \union {State(pr, t)} IN
          \/ Answer(c, Failed)
          \/ Continue(c, "view", all)
          \/ Answer(c, Done(all))
    BY <1>13 DEF fetchThreadWithComments
  <2>2. got[c] \union {State(pr, t)} \in Reports
    <3>1. t \in Nat /\ {State(pr, t)} \in Reports
      BY <1>1, <1>2
    <3>2. QED
      BY <1>1, <1>7, <3>1
  <2>3. Moves(c)
    BY <2>1, <2>2, AnswerMoves, ContinueMoves DEF Stages
  <2>4. QED
    BY <1>13, <2>3, ReadShape DEF fetchThreadWithComments, Asks
<1>14. CASE Repository(c)
  <2>1. Moves(c)
    BY <1>1, <1>2, <1>6, <1>14, AnswerMoves, ContinueMoves DEF Repository, Stages
  <2>2. QED
    BY <1>14, <2>1, ReadShape DEF Repository, Asks
<1>15. CASE PullRequest(c)
  <2>1. Moves(c)
    BY <1>1, <1>2, <1>6, <1>15, AnswerMoves, ContinueMoves DEF PullRequest, Stages
  <2>2. QED
    BY <1>15, <2>1, ReadShape DEF PullRequest, Asks
<1>16. CASE statusOf(c)
  <2>1. Moves(c)
    BY <1>1, <1>2, <1>6, <1>16, AnswerMoves, ContinueMoves DEF statusOf, Stages
  <2>2. QED
    BY <1>16, <2>1, ReadShape DEF statusOf, Asks
<1>17. CASE DraftList(c)
  <2>1. {x \in DraftState : x[2]} \in Reports
    BY <1>6 DEF Reports
  <2>2. Moves(c)
    BY <1>17, <2>1, AnswerMoves DEF DraftList
  <2>3. QED
    BY <1>17, <2>2, ReadShape DEF DraftList, Asks
<1>18. CASE changeDraftState(c)
  <2>1. Moves(c)
    BY <1>1, <1>2, <1>6, <1>18, AnswerMoves, ContinueMoves DEF changeDraftState, Stages
  <2>2. QED
    BY <1>18, <2>1, ReadShape DEF changeDraftState, Asks
<1>19. CASE convertToDraft(c)
  <2>1. pr'.draft \in BOOLEAN
    BY <1>1, <1>19 DEF convertToDraft, Mutates, PRType
  <2>2. Moves(c)
    BY <1>5, <1>19, <2>1, AnswerMoves DEF convertToDraft
  <2>3. QED
    BY <1>1, <1>19, <2>2, MutateShape DEF convertToDraft, Asks, PRType
<1>20. CASE markReadyForReview(c)
  <2>1. pr'.draft \in BOOLEAN
    BY <1>1, <1>20 DEF markReadyForReview, Mutates, PRType
  <2>2. Moves(c)
    BY <1>5, <1>20, <2>1, AnswerMoves DEF markReadyForReview
  <2>3. QED
    BY <1>1, <1>20, <2>2, MutateShape DEF markReadyForReview, Asks, PRType
<1>21. CASE pullRequestIdentifiers(c)
  <2>1. {<<pr.head, TRUE>>} \in Reports
    BY <1>1, <1>5 DEF PRType
  <2>2. Moves(c)
    BY <1>21, <2>1, AnswerMoves, ContinueMoves DEF pullRequestIdentifiers, Stages
  <2>3. QED
    BY <1>21, <2>2, ReadShape DEF pullRequestIdentifiers, Asks
<1>22. CASE Start(c)
  <2>1. PICK m \in moments[c] : got[c] = {<<m.head, TRUE>>}
    BY <1>22 DEF Start, Asks, Truthful, Headed, Verb
  <2>2. m.head \in Nat
    BY DEF TypeOK, PRType
  <2> DEFINE head == (CHOOSE x \in got[c] : TRUE)[1]
             commit == IF job[c].commit = CurrentHead THEN head ELSE job[c].commit
  <2>3. head = m.head
    <3>1. (CHOOSE x \in got[c] : TRUE) \in got[c]
      BY <2>1
    <3>2. \A x \in got[c] : x[1] = m.head
      BY <2>1
    <3>3. QED
      BY <3>1, <3>2
  <2>4. commit \in Nat /\ {<<commit, TRUE>>} \in Reports
    <3>1. commit \in Nat
      BY <1>1, <2>2, <2>3
    <3> HIDE DEF commit
    <3>2. QED
      BY <1>5, <3>1
  <2>5. PICK o \in Outcomes :
          /\ Mutates(c, o, [pr EXCEPT !.review = "pending", !.on = commit])
          /\ Answer(c, IF GraphQL(o, TRUE) = "ok" THEN Done({<<commit, TRUE>>}) ELSE Failed)
    BY <1>22 DEF Start
  <2> HIDE DEF commit
  <2>6. Moves(c)
    BY <2>4, <2>5, AnswerMoves
  <2>7. [pr EXCEPT !.review = "pending", !.on = commit] \in PRType
    BY <1>1, <2>4 DEF PRType
  <2>8. QED
    BY <1>22, <2>5, <2>6, <2>7, MutateShape DEF Start, Asks
<1>23. CASE AddThread(c)
  <2> DEFINE t == pr.next
             after == [pr EXCEPT !.threads = @ \union {t}, !.mine = @ \union {t}, !.next = @ + 1]
  <2>1. t \in Nat \ {0}
    BY <1>1 DEF PRType
  <2>2. PICK o \in Outcomes :
          /\ CarriedOut(o) => pr.review = "pending" /\ t <= MaxThreads
          /\ Mutates(c, o, after)
          /\ Answer(c, IF GraphQL(o, TRUE) = "ok" THEN Done({State(pr', t)}) ELSE Failed)
    BY <1>23 DEF AddThread
  <2>3. MaxThreads \in Nat
    BY ActionsAssumption
  <2>4. CarriedOut(o) => after \in PRType
    <3> SUFFICES ASSUME CarriedOut(o) PROVE after \in PRType
      OBVIOUS
    <3>1. t \in 1..MaxThreads /\ pr.next + 1 \in Nat \ {0}
      BY <2>1, <2>2, <2>3
    <3> HIDE DEF t
    <3>2. QED
      BY <1>1, <3>1 DEF PRType
  <2> HIDE DEF t, after
  <2>5. Moves(c)
    BY <1>2, <2>1, <2>2, AnswerMoves
  <2>6. QED
    BY <1>23, <2>2, <2>4, <2>5, MutateShape DEF AddThread, Asks
<1>24. CASE UpdateComment(c)
  <2>1. Moves(c)
    BY <1>1, <1>2, <1>6, <1>24, AnswerMoves DEF UpdateComment
  <2>2. QED
    BY <1>1, <1>24, <2>1, MutateShape DEF UpdateComment, Asks, PRType
<1>25. CASE DeleteComment(c)
  <2>1. Moves(c)
    BY <1>1, <1>2, <1>6, <1>25, AnswerMoves DEF DeleteComment
  <2>2. QED
    BY <1>1, <1>25, <2>1, MutateShape DEF DeleteComment, Asks, PRType
<1>26. CASE Submit(c)
  <2>1. Moves(c)
    BY <1>1, <1>2, <1>6, <1>26, AnswerMoves DEF Submit
  <2>2. QED
    BY <1>1, <1>26, <2>1, MutateShape DEF Submit, Asks, PRType
<1>27. CASE Reply(c)
  <2>1. Moves(c)
    BY <1>6, <1>27, AnswerMoves, ContinueMoves DEF Reply, Stages
  <2>2. QED
    BY <1>1, <1>27, <2>1, MutateShape DEF Reply, Asks
<1>28. CASE loadCommentDetails(c)
  <2>1. Moves(c)
    BY <1>1, <1>2, <1>6, <1>28, AnswerMoves, ContinueMoves DEF loadCommentDetails, Stages
  <2>2. QED
    BY <1>28, <2>1, ReadShape DEF loadCommentDetails, Asks
<1>29. CASE loadThreadDetails(c)
  <2>1. Moves(c)
    BY <1>1, <1>2, <1>6, <1>29, AnswerMoves, ContinueMoves DEF loadThreadDetails, Stages
  <2>2. QED
    BY <1>29, <2>1, ReadShape DEF loadThreadDetails, Asks
<1>30. CASE React(c)
  <2>1. Moves(c)
    BY <1>1, <1>2, <1>6, <1>30, AnswerMoves DEF React
  <2>2. QED
    BY <1>1, <1>30, <2>1, MutateShape DEF React, Asks, PRType
<1>31. CASE Fetch(c)
  <2>1. BuildReport(PageAfter(0, ReportSize), job[c].open) \in Reports
    BY <1>3, <1>4 DEF BuildReport
  <2>2. Moves(c)
    BY <1>31, <2>1, AnswerMoves DEF Fetch
  <2>3. QED
    BY <1>31, <2>2, ReadShape DEF Fetch, Asks
<1>32. QED
  BY <1>8, <1>9, <1>10, <1>11, <1>12, <1>13, <1>14, <1>15, <1>16, <1>17, <1>18, <1>19,
     <1>20, <1>21, <1>22, <1>23, <1>24, <1>25, <1>26, <1>27, <1>28, <1>29, <1>30, <1>31
     DEF Works

----------------------------------------------------------------------------
\* What a step leaves of the invariant.

\* A command that has begun, and has not ended, lives through the states of
\* the pull request on both sides of a step.
LEMMA RememberFacts ==
  ASSUME TypeOK, pr' \in PRType, Remember,
         \A d \in Commands : call'[d] = "new" => call[d] = "new"
  PROVE  /\ moments' \in [Commands -> SUBSET PRType]
         /\ \A d \in Commands :
              /\ call'[d] = "new" => moments'[d] = {}
              /\ call'[d] # "new" => moments[d] \subseteq moments'[d]
              /\ call'[d] # "new" /\ call[d] # "ended" => pr \in moments'[d] /\ pr' \in moments'[d]
<1>1. ASSUME NEW d \in Commands
      PROVE  /\ call'[d] = "new" => moments'[d] = {}
             /\ call'[d] # "new" /\ call[d] = "ended" => moments'[d] = moments[d]
             /\ call'[d] # "new" /\ call[d] # "ended" => moments'[d] = moments[d] \union {pr, pr'}
  <2>1. moments'[d] = CASE call'[d] = "new" -> {}
                        [] call[d] = "ended" -> moments[d]
                        [] OTHER -> moments[d] \union {pr, pr'}
    BY DEF Remember
  <2>2. CASE call'[d] = "new"
    BY <2>1, <2>2
  <2>3. CASE call'[d] # "new"
    BY <2>1, <2>3
  <2>4. QED
    BY <2>2, <2>3
<1>2. \A d \in Commands : moments[d] \in SUBSET PRType /\ pr \in PRType
  BY DEF TypeOK
<1>3. \A d \in Commands : moments'[d] \in SUBSET PRType
  BY <1>1, <1>2
<1>4. moments' = [d \in Commands |-> moments'[d]]
  BY DEF Remember
<1>5. QED
  BY <1>1, <1>3, <1>4

\* A step of somebody else: all that a command keeps is as it was.
Same(d) ==
  /\ UNCHANGED <<job, call[d], got[d], link[d], answer[d], effects[d]>>
  /\ IF call[d] = "new" THEN moments'[d] = {} ELSE moments[d] \subseteq moments'[d]

\* A command that a step leaves alone stays counted.
LEMMA SameCounted ==
  ASSUME NEW d, Counted(d), Same(d)
  PROVE  Counted(d)'
BY DEF Counted, Same

\* And what it reported stays true: its moments only grow.
LEMMA SameTruthful ==
  ASSUME NEW d, Counted(d), Truthful(d), Same(d)
  PROVE  Truthful(d)'
<1>1. CASE call[d] = "new"
  BY <1>1 DEF Counted, Truthful, Headed, Same
<1>2. CASE call[d] # "new"
  <2>1. UNCHANGED <<Verb(d), job[d]>> /\ moments[d] \subseteq moments'[d]
    BY <1>2 DEF Same, Verb
  <2>2. UNCHANGED <<answer[d], effects[d], call[d], got[d]>>
    BY DEF Same
  <2>3. QED
    BY <2>1, <2>2 DEF Truthful, Told, Headed
<1>3. QED
  BY <1>1, <1>2

\* And so does what it listed.
LEMMA SameListed ==
  ASSUME NEW d, Counted(d), Listed(d), Same(d)
  PROVE  Listed(d)'
<1>1. CASE call[d] = "new"
  BY <1>1 DEF Counted, Listed, Reading, Same
<1>2. CASE call[d] # "new"
  <2>1. UNCHANGED <<Verb(d), job[d]>> /\ moments[d] \subseteq moments'[d]
    BY <1>2 DEF Same, Verb
  <2>2. UNCHANGED <<answer[d], call[d], got[d]>>
    BY DEF Same
  <2>3. \A x : Seen(d, x) => Seen(d, x)'
    BY <2>1 DEF Seen
  <2>4. \A t, open : (Wanted(d, t, open)' => Wanted(d, t, open)) /\ (Stayed(d, t)' => Stayed(d, t))
    BY <2>1 DEF Wanted, Stayed
  <2>5. QED
    BY <2>1, <2>2, <2>3, <2>4 DEF Listed, Reading, Shown
<1>3. QED
  BY <1>1, <1>2

----------------------------------------------------------------------------
\* A step of the work on a command keeps the count of its mutations.

\* An answer keeps the count if it has at most one effect, and none when
\* refused.
LEMMA AnswerCounted ==
  ASSUME TypeOK, NEW c \in Commands, Counted(c), Shape(c), NEW a, Answer(c, a),
         effects'[c] <= 1, a.is = "refused" => effects'[c] = 0
  PROVE  Counted(c)'
BY DEF TypeOK, Counted, Shape, Answer

\* So does a next call, if only the two that follow a mutation have an effect
\* behind them.
LEMMA ContinueCounted ==
  ASSUME TypeOK, NEW c \in Commands, Counted(c), Shape(c),
         NEW next \in Stages, NEW value, Continue(c, next, value), next # "ended",
         effects'[c] = IF next \in {"comment", "replied"} THEN 1 ELSE 0
  PROVE  Counted(c)'
BY DEF TypeOK, Counted, Shape, Continue, Stages

\* The calls before the mutation.
LEMMA ReadCounted ==
  ASSUME TypeOK, NEW c \in Commands, Counted(c), Shape(c), Reads(c),
         call[c] \notin {"comment", "replied"},
         \/ \E a : a.is # "refused" /\ Answer(c, a)
         \/ \E next \in Stages \ {"comment", "replied", "ended"} : \E value : Continue(c, next, value)
  PROVE  Counted(c)'
<1>1. effects'[c] = 0
  BY DEF Counted, Reads, Shape
<1>2. QED
  BY <1>1, AnswerCounted, ContinueCounted

\* A mutation is the command's first effect.
LEMMA MutateCounted ==
  ASSUME TypeOK, NEW c \in Commands, Counted(c), Shape(c), call[c] = "mutation",
         NEW o \in Outcomes, NEW after, Mutates(c, o, after)
  PROVE  effects'[c] = IF CarriedOut(o) THEN 1 ELSE 0
BY DEF TypeOK, Counted, Mutates

\* The answer to a mutation keeps the count.
LEMMA MutateAnswerCounted ==
  ASSUME TypeOK, NEW c \in Commands, Counted(c), Shape(c), call[c] = "mutation",
         NEW o \in Outcomes, NEW after, Mutates(c, o, after),
         NEW a, Answer(c, a), a.is # "refused"
  PROVE  Counted(c)'
<1>1. effects'[c] <= 1
  BY MutateCounted
<1>2. QED
  BY <1>1, AnswerCounted

\* Every step of a service keeps the count.
LEMMA WorksCounted ==
  ASSUME TypeOK, NEW c \in Commands, Counted(c), Shape(c), Works(c)
  PROVE  Counted(c)'
<1> USE DEF Asks
<1>1. Failed.is # "refused" /\ \A says : Done(says).is # "refused"
  BY DEF Failed, Done
<1>2. CASE fetchThread(c)
  BY <1>1, <1>2, ReadCounted DEF fetchThread, Stages
<1>3. CASE performResolve(c)
  <2>1. PICK o, after, a : o \in Outcomes /\ Mutates(c, o, after) /\ Answer(c, a) /\ a.is # "refused"
    BY <1>1, <1>3 DEF performResolve
  <2>2. QED
    BY <1>3, <2>1, MutateAnswerCounted DEF performResolve
<1>4. CASE performUnresolve(c)
  <2>1. PICK o, after, a : o \in Outcomes /\ Mutates(c, o, after) /\ Answer(c, a) /\ a.is # "refused"
    BY <1>1, <1>4 DEF performUnresolve
  <2>2. QED
    BY <1>4, <2>1, MutateAnswerCounted DEF performUnresolve
<1>5. CASE loadPullContext(c)
  BY <1>1, <1>5, ReadCounted DEF loadPullContext, Stages
<1>6. CASE collectThreads(c)
  BY <1>1, <1>6, ReadCounted DEF collectThreads, Stages
<1>7. CASE fetchThreadWithComments(c)
  BY <1>1, <1>7, ReadCounted DEF fetchThreadWithComments, Stages
<1>8. CASE Repository(c)
  BY <1>1, <1>8, ReadCounted DEF Repository, Stages
<1>9. CASE PullRequest(c)
  BY <1>1, <1>9, ReadCounted DEF PullRequest, Stages
<1>10. CASE statusOf(c)
  BY <1>1, <1>10, ReadCounted DEF statusOf, Stages
<1>11. CASE DraftList(c)
  BY <1>1, <1>11, ReadCounted DEF DraftList, Stages
<1>12. CASE changeDraftState(c)
  BY <1>1, <1>12, ReadCounted DEF changeDraftState, Stages
<1>13. CASE convertToDraft(c)
  <2>1. PICK o, after, a : o \in Outcomes /\ Mutates(c, o, after) /\ Answer(c, a) /\ a.is # "refused"
    BY <1>1, <1>13 DEF convertToDraft
  <2>2. QED
    BY <1>13, <2>1, MutateAnswerCounted DEF convertToDraft
<1>14. CASE markReadyForReview(c)
  <2>1. PICK o, after, a : o \in Outcomes /\ Mutates(c, o, after) /\ Answer(c, a) /\ a.is # "refused"
    BY <1>1, <1>14 DEF markReadyForReview
  <2>2. QED
    BY <1>14, <2>1, MutateAnswerCounted DEF markReadyForReview
<1>15. CASE pullRequestIdentifiers(c)
  BY <1>1, <1>15, ReadCounted DEF pullRequestIdentifiers, Stages
<1>16. CASE Start(c)
  <2>1. PICK o, after, a : o \in Outcomes /\ Mutates(c, o, after) /\ Answer(c, a) /\ a.is # "refused"
    BY <1>1, <1>16 DEF Start
  <2>2. QED
    BY <1>16, <2>1, MutateAnswerCounted DEF Start
<1>17. CASE AddThread(c)
  <2>1. PICK o, after, a : o \in Outcomes /\ Mutates(c, o, after) /\ Answer(c, a) /\ a.is # "refused"
    BY <1>1, <1>17 DEF AddThread
  <2>2. QED
    BY <1>17, <2>1, MutateAnswerCounted DEF AddThread
<1>18. CASE UpdateComment(c)
  <2>1. PICK o, after, a : o \in Outcomes /\ Mutates(c, o, after) /\ Answer(c, a) /\ a.is # "refused"
    BY <1>1, <1>18 DEF UpdateComment
  <2>2. QED
    BY <1>18, <2>1, MutateAnswerCounted DEF UpdateComment
<1>19. CASE DeleteComment(c)
  <2>1. PICK o, after, a : o \in Outcomes /\ Mutates(c, o, after) /\ Answer(c, a) /\ a.is # "refused"
    BY <1>1, <1>19 DEF DeleteComment
  <2>2. QED
    BY <1>19, <2>1, MutateAnswerCounted DEF DeleteComment
<1>20. CASE Submit(c)
  BY <1>1, <1>20, MutateCounted, AnswerCounted DEF Submit, GraphQL, CarriedOut, Refused
<1>21. CASE Reply(c)
  <2>1. PICK o \in Outcomes :
          /\ Mutates(c, o, pr)
          /\ IF GraphQL(o, TRUE) = "ok" THEN Continue(c, "comment", {}) ELSE Answer(c, Failed)
    BY <1>21 DEF Reply
  <2>2. CASE GraphQL(o, TRUE) = "ok"
    <3>1. CarriedOut(o)
      BY <2>2 DEF GraphQL, CarriedOut, Outcomes
    <3>2. effects'[c] = 1
      BY <1>21, <2>1, <3>1, MutateCounted DEF Reply
    <3>3. QED
      BY <2>1, <2>2, <3>2, ContinueCounted DEF Stages
  <2>3. CASE GraphQL(o, TRUE) # "ok"
    BY <1>1, <1>21, <2>1, <2>3, MutateAnswerCounted DEF Reply
  <2>4. QED
    BY <2>2, <2>3
<1>22. CASE loadCommentDetails(c)
  BY <1>1, <1>22, AnswerCounted, ContinueCounted DEF loadCommentDetails, Reads, Counted, Stages
<1>23. CASE loadThreadDetails(c)
  BY <1>1, <1>23, AnswerCounted, ContinueCounted DEF loadThreadDetails, Reads, Counted, Stages
<1>24. CASE React(c)
  <2>1. PICK o, after, a : o \in Outcomes /\ Mutates(c, o, after) /\ Answer(c, a) /\ a.is # "refused"
    BY <1>1, <1>24 DEF React
  <2>2. QED
    BY <1>24, <2>1, MutateAnswerCounted DEF React
<1>25. CASE Fetch(c)
  BY <1>1, <1>25, ReadCounted DEF Fetch, Stages
<1>26. QED
  BY <1>2, <1>3, <1>4, <1>5, <1>6, <1>7, <1>8, <1>9, <1>10, <1>11, <1>12, <1>13, <1>14, <1>15, <1>16, <1>17, <1>18, <1>19, <1>20, <1>21, <1>22, <1>23, <1>24, <1>25 DEF Works

----------------------------------------------------------------------------
\* A step of the work on a command keeps its answer true.

\* An answer keeps what is reported true if what it says was so.
LEMMA AnswerTruthful ==
  ASSUME TypeOK, NEW c \in Commands, Counted(c), Shape(c), NEW a, Answer(c, a),
         a.is = "done" => Told(c, a.says)'
  PROVE  Truthful(c)'
<1>1. Headed(c)'
  BY DEF TypeOK, Shape, Answer, Headed
<1>2. answer'[c].is = "done" => answer'[c] = a
  BY DEF TypeOK, Shape, Answer, Counted
<1>3. QED
  BY <1>1, <1>2 DEF Truthful

\* A next call reports nothing yet.
LEMMA ContinueTruthful ==
  ASSUME TypeOK, NEW c \in Commands, Counted(c), Shape(c),
         NEW next, NEW value, Continue(c, next, value),
         Verb(c) # "start" \/ next # "mutation"
  PROVE  Truthful(c)'
BY DEF TypeOK, Shape, Continue, Counted, Truthful, Headed, Verb

\* An answer of GitHub without an error is to a call that was carried out.
LEMMA AnsweredIsCarriedOut ==
  ASSUME NEW o \in Outcomes, GraphQL(o, TRUE) = "ok"
  PROVE  CarriedOut(o)
BY DEF Outcomes, GraphQL, CarriedOut

\* The draft state as read.
LEMMA DraftStateIs ==
  ASSUME TypeOK
  PROVE  \A x \in DraftState : pr.draft = x[2]
<1>1. pr.draft \in BOOLEAN
  BY DEF TypeOK, PRType
<1>2. QED
  BY <1>1 DEF DraftState

\* Every step of a service reports what was so at one of the command's moments.
LEMMA WorksTruthful ==
  ASSUME TypeOK, NEW c \in Commands, Counted(c), Truthful(c), Shape(c), Works(c),
         pr \in moments'[c], pr' \in moments'[c], moments[c] \subseteq moments'[c]
  PROVE  Truthful(c)'
<1> USE AnsweredIsCarriedOut DEF Asks, Verb
<1>1. Failed.is # "done" /\ Refused.is # "done" /\ \A says : Done(says).says = says
  BY DEF Failed, Refused, Done
<1>2. Verb(c)' = Verb(c) /\ job'[c] = job[c]
  BY DEF Shape
<1>3. CASE fetchThread(c)
  <2>1. (job[c].on \in pr.resolved) = (Verb(c) = "resolve") => \A says : Told(c, says)'
    BY <1>2, <1>3 DEF fetchThread, Told, Ops
  <2>2. QED
    BY <1>1, <1>3, <2>1, AnswerTruthful, ContinueTruthful DEF fetchThread
<1>4. CASE performResolve(c)
  <2>1. PICK o, a :
          /\ o \in Outcomes /\ Mutates(c, o, [pr EXCEPT !.resolved = @ \union {job[c].on}])
          /\ Answer(c, a)
          /\ a.is = "done" => CarriedOut(o)
    BY <1>1, <1>4 DEF performResolve
  <2>2. CarriedOut(o) => (job[c].on \in pr'.resolved) = (Verb(c) = "resolve")
    BY <1>4, <2>1 DEF performResolve, Mutates, TypeOK, PRType
  <2>3. a.is = "done" => Told(c, a.says)'
    BY <1>2, <1>4, <2>1, <2>2 DEF performResolve, Told, Ops
  <2>4. QED
    BY <2>1, <2>3, AnswerTruthful
<1>5. CASE performUnresolve(c)
  <2>1. PICK o, a :
          /\ o \in Outcomes /\ Mutates(c, o, [pr EXCEPT !.resolved = @ \ {job[c].on}])
          /\ Answer(c, a)
          /\ a.is = "done" => CarriedOut(o)
    BY <1>1, <1>5 DEF performUnresolve
  <2>2. CarriedOut(o) => (job[c].on \in pr'.resolved) = (Verb(c) = "resolve")
    BY <1>5, <2>1 DEF performUnresolve, Mutates, TypeOK, PRType
  <2>3. a.is = "done" => Told(c, a.says)'
    BY <1>2, <1>5, <2>1, <2>2 DEF performUnresolve, Told, Ops
  <2>4. QED
    BY <2>1, <2>3, AnswerTruthful
<1>6. CASE loadPullContext(c)
  <2>1. \A says : Told(c, says)'
    BY <1>2, <1>6 DEF loadPullContext, Told, Ops
  <2>2. QED
    BY <1>6, <2>1, AnswerTruthful, ContinueTruthful DEF loadPullContext
<1>7. CASE collectThreads(c)
  <2>1. \A says : Told(c, says)'
    BY <1>2, <1>7 DEF collectThreads, Told, Ops
  <2>2. QED
    BY <1>7, <2>1, AnswerTruthful, ContinueTruthful DEF collectThreads
<1>8. CASE fetchThreadWithComments(c)
  <2>1. \A says : Told(c, says)'
    BY <1>2, <1>8 DEF fetchThreadWithComments, Told, Ops
  <2>2. QED
    BY <1>8, <2>1, AnswerTruthful, ContinueTruthful DEF fetchThreadWithComments
<1>9. CASE Repository(c)
  BY <1>1, <1>9, AnswerTruthful, ContinueTruthful DEF Repository, Ops
<1>10. CASE PullRequest(c)
  BY <1>1, <1>10, AnswerTruthful, ContinueTruthful DEF PullRequest, Ops
<1>11. CASE statusOf(c)
  <2>1. \A says \in SUBSET DraftState : Told(c, says)'
    BY <1>2, <1>11, DraftStateIs DEF statusOf, Told, Ops
  <2>2. QED
    BY <1>1, <1>11, <2>1, AnswerTruthful DEF statusOf
<1>12. CASE DraftList(c)
  <2>1. \A says \in SUBSET DraftState : Told(c, says)'
    BY <1>2, <1>12, DraftStateIs DEF DraftList, Told, Ops
  <2>2. {x \in DraftState : x[2]} \in SUBSET DraftState
    OBVIOUS
  <2>3. QED
    BY <1>1, <1>12, <2>1, <2>2, AnswerTruthful DEF DraftList
<1>13. CASE changeDraftState(c)
  <2>1. pr.draft = (Verb(c) = "draft") => \A says : Told(c, says)'
    BY <1>2, <1>13 DEF changeDraftState, Told, Ops
  <2>2. QED
    BY <1>1, <1>13, <2>1, AnswerTruthful, ContinueTruthful DEF changeDraftState
<1>14. CASE convertToDraft(c)
  <2>1. PICK o, a :
          /\ o \in Outcomes /\ Mutates(c, o, [pr EXCEPT !.draft = TRUE])
          /\ Answer(c, a)
          /\ a.is = "done" => CarriedOut(o)
    BY <1>1, <1>14 DEF convertToDraft
  <2>2. CarriedOut(o) => pr'.draft = (Verb(c) = "draft")
    BY <1>14, <2>1 DEF convertToDraft, Mutates, TypeOK, PRType
  <2>3. a.is = "done" => Told(c, a.says)'
    BY <1>2, <1>14, <2>1, <2>2 DEF convertToDraft, Told, Ops
  <2>4. QED
    BY <2>1, <2>3, AnswerTruthful
<1>15. CASE markReadyForReview(c)
  <2>1. PICK o, a :
          /\ o \in Outcomes /\ Mutates(c, o, [pr EXCEPT !.draft = FALSE])
          /\ Answer(c, a)
          /\ a.is = "done" => CarriedOut(o)
    BY <1>1, <1>15 DEF markReadyForReview
  <2>2. CarriedOut(o) => pr'.draft = (Verb(c) = "draft")
    BY <1>15, <2>1 DEF markReadyForReview, Mutates, TypeOK, PRType
  <2>3. a.is = "done" => Told(c, a.says)'
    BY <1>2, <1>15, <2>1, <2>2 DEF markReadyForReview, Told, Ops
  <2>4. QED
    BY <2>1, <2>3, AnswerTruthful
<1>16. CASE pullRequestIdentifiers(c)
  <2>1. CASE Answer(c, Failed)
    BY <1>1, <2>1, AnswerTruthful
  <2>2. CASE Continue(c, "mutation", {<<pr.head, TRUE>>})
    <3>1. got'[c] = {<<pr.head, TRUE>>} /\ answer'[c].is # "done"
      BY <1>16, <2>2 DEF pullRequestIdentifiers, Continue, TypeOK, Counted
    <3>2. QED
      BY <3>1 DEF Truthful, Headed
  <2>3. QED
    BY <1>16, <2>1, <2>2 DEF pullRequestIdentifiers
<1>17. CASE Start(c)
  <2>1. PICK m \in moments[c] : got[c] = {<<m.head, TRUE>>}
    BY <1>17 DEF Start, Truthful, Headed
  <2>2. (CHOOSE x \in got[c] : TRUE)[1] = m.head
    <3>1. (CHOOSE x \in got[c] : TRUE) \in got[c]
      BY <2>1
    <3>2. \A x \in got[c] : x[1] = m.head
      BY <2>1
    <3>3. QED
      BY <3>1, <3>2
  <2>3. PICK o \in Outcomes : \E after, a :
          /\ Mutates(c, o, after) /\ Answer(c, a)
          /\ a.is = "done" =>
               /\ CarriedOut(o)
               /\ job[c].commit = CurrentHead => a.says = {<<m.head, TRUE>>}
    <3>1. PICK o \in Outcomes :
            LET head == (CHOOSE x \in got[c] : TRUE)[1]
                commit == IF job[c].commit = CurrentHead THEN head ELSE job[c].commit
            IN /\ Mutates(c, o, [pr EXCEPT !.review = "pending", !.on = commit])
               /\ Answer(c, IF GraphQL(o, TRUE) = "ok" THEN Done({<<commit, TRUE>>}) ELSE Failed)
      BY <1>17 DEF Start
    <3>2. CASE GraphQL(o, TRUE) = "ok"
      BY <1>1, <2>2, <3>1, <3>2
    <3>3. CASE GraphQL(o, TRUE) # "ok"
      BY <1>1, <3>1, <3>3
    <3>4. QED
      BY <3>2, <3>3
  <2>4. PICK after, a :
          /\ Mutates(c, o, after) /\ Answer(c, a)
          /\ a.is = "done" =>
               /\ CarriedOut(o)
               /\ job[c].commit = CurrentHead => a.says = {<<m.head, TRUE>>}
    BY <2>3
  <2>5. CarriedOut(o) => effects'[c] = 1
    BY <1>17, <2>4, MutateCounted DEF Start
  <2>6. a.is = "done" => Told(c, a.says)'
    BY <1>2, <1>17, <2>4, <2>5 DEF Start, Told, Ops
  <2>7. QED
    BY <2>4, <2>6, AnswerTruthful
<1>18. CASE AddThread(c)
  <2>0. PICK o \in Outcomes : \E after, a :
          Mutates(c, o, after) /\ Answer(c, a) /\ (a.is = "done" => CarriedOut(o))
    BY <1>1, <1>18 DEF AddThread
  <2>1. PICK after, a :
          Mutates(c, o, after) /\ Answer(c, a) /\ (a.is = "done" => CarriedOut(o))
    BY <2>0
  <2>2. CarriedOut(o) => effects'[c] = 1
    BY <1>18, <2>1, MutateCounted DEF AddThread
  <2>3. a.is = "done" => Told(c, a.says)'
    BY <1>2, <1>18, <2>1, <2>2 DEF AddThread, Told, Ops
  <2>4. QED
    BY <2>1, <2>3, AnswerTruthful
<1>19. CASE UpdateComment(c)
  <2>0. PICK o \in Outcomes : \E after, a :
          Mutates(c, o, after) /\ Answer(c, a) /\ (a.is = "done" => CarriedOut(o))
    BY <1>1, <1>19 DEF UpdateComment
  <2>1. PICK after, a :
          Mutates(c, o, after) /\ Answer(c, a) /\ (a.is = "done" => CarriedOut(o))
    BY <2>0
  <2>2. CarriedOut(o) => effects'[c] = 1
    BY <1>19, <2>1, MutateCounted DEF UpdateComment
  <2>3. a.is = "done" => Told(c, a.says)'
    BY <1>2, <1>19, <2>1, <2>2 DEF UpdateComment, Told, Ops
  <2>4. QED
    BY <2>1, <2>3, AnswerTruthful
<1>20. CASE DeleteComment(c)
  <2>0. PICK o \in Outcomes : \E after, a :
          Mutates(c, o, after) /\ Answer(c, a) /\ (a.is = "done" => CarriedOut(o))
    BY <1>1, <1>20 DEF DeleteComment
  <2>1. PICK after, a :
          Mutates(c, o, after) /\ Answer(c, a) /\ (a.is = "done" => CarriedOut(o))
    BY <2>0
  <2>2. CarriedOut(o) => effects'[c] = 1
    BY <1>20, <2>1, MutateCounted DEF DeleteComment
  <2>3. a.is = "done" => Told(c, a.says)'
    BY <1>2, <1>20, <2>1, <2>2 DEF DeleteComment, Told, Ops
  <2>4. QED
    BY <2>1, <2>3, AnswerTruthful
<1>21. CASE Submit(c)
  <2>0. PICK o \in Outcomes : \E after, a :
          Mutates(c, o, after) /\ Answer(c, a) /\ (a.is = "done" => CarriedOut(o))
    BY <1>1, <1>21 DEF Submit
  <2>1. PICK after, a :
          Mutates(c, o, after) /\ Answer(c, a) /\ (a.is = "done" => CarriedOut(o))
    BY <2>0
  <2>2. CarriedOut(o) => effects'[c] = 1
    BY <1>21, <2>1, MutateCounted DEF Submit
  <2>3. a.is = "done" => Told(c, a.says)'
    BY <1>2, <1>21, <2>1, <2>2 DEF Submit, Told, Ops
  <2>4. QED
    BY <2>1, <2>3, AnswerTruthful
<1>22. CASE Reply(c)
  BY <1>1, <1>22, AnswerTruthful, ContinueTruthful DEF Reply
<1>23. CASE loadCommentDetails(c)
  BY <1>1, <1>23, AnswerTruthful, ContinueTruthful DEF loadCommentDetails
<1>24. CASE loadThreadDetails(c)
  <2>1. effects'[c] = 1
    BY <1>24 DEF loadThreadDetails, Reads, Counted
  <2>2. \A says : Told(c, says)'
    BY <1>2, <1>24, <2>1 DEF loadThreadDetails, Told, Ops
  <2>3. QED
    BY <1>1, <1>24, <2>2, AnswerTruthful DEF loadThreadDetails
<1>25. CASE React(c)
  <2>1. \A says : Told(c, says)'
    BY <1>2, <1>25 DEF React, Told, Ops
  <2>2. QED
    BY <1>25, <2>1, AnswerTruthful, ContinueTruthful DEF React
<1>26. CASE Fetch(c)
  <2>1. \A says : Told(c, says)'
    BY <1>2, <1>26 DEF Fetch, Told, Ops
  <2>2. QED
    BY <1>26, <2>1, AnswerTruthful, ContinueTruthful DEF Fetch
<1>27. QED
  BY <1>3, <1>4, <1>5, <1>6, <1>7, <1>8, <1>9, <1>10, <1>11, <1>12, <1>13, <1>14, <1>15, <1>16, <1>17, <1>18, <1>19, <1>20, <1>21, <1>22, <1>23, <1>24, <1>25, <1>26 DEF Works

----------------------------------------------------------------------------
\* A step of the work on a command keeps its list true and complete.

\* An answer keeps the lists true if what it shows was there.
LEMMA AnswerListed ==
  ASSUME TypeOK, NEW c \in Commands, Counted(c), Shape(c), NEW a, Answer(c, a),
         a.is = "done" => Shown(c, a.says)'
  PROVE  Listed(c)'
<1>1. Reading(c)'
  BY DEF TypeOK, Shape, Answer, Reading
<1>2. answer'[c].is = "done" => answer'[c] = a
  BY DEF TypeOK, Shape, Answer, Counted
<1>3. QED
  BY <1>1, <1>2 DEF Listed

\* A next call shows nothing, and begins its pages with none read.
LEMMA ContinueListed ==
  ASSUME TypeOK, NEW c \in Commands, Counted(c), Shape(c),
         NEW next, NEW value, Continue(c, next, value),
         next \notin {"page", "view"} \/ value = {}
  PROVE  Listed(c)'
BY DEF TypeOK, Shape, Continue, Counted, Listed, Reading

\* How far a list has come, and what it has read with one more page.
Cursor(c) == Max({0} \union {x[1] : x \in got[c]})
Gathered(c, page) == got[c] \union {State(pr, t) : t \in page}
IsLast(cursor, page) ==
  page = {} \/ \A t \in pr.threads : ~ (t > Max({cursor} \union page))

\* One more page of a list.  What was read, with the page, holds all that was
\* there up to the last thread on the page, and everything if it is the last.
LEMMA PageListed ==
  ASSUME TypeOK, NEW c \in Commands, Listed(c), call[c] = "page", Verb(c) = "list", UNCHANGED job,
         pr \in moments'[c], moments[c] \subseteq moments'[c],
         NEW cursor, cursor = Cursor(c), NEW page, page = PageAfter(cursor, PageSize),
         NEW all, all = Gathered(c, page)
  PROVE  /\ \A x \in all : Seen(c, x)'
         /\ \A t \in 1..MaxThreads :
              Stayed(c, t)' /\ (\E y \in all : t <= y[1]) => \E x \in all : x[1] = t
         /\ IsLast(cursor, page) =>
              \A t \in pr.threads : t <= cursor \/ \E y \in all : t <= y[1]
         /\ \A t \in 1..MaxThreads :
              Stayed(c, t)' /\ t <= cursor => \E x \in all : x[1] = t
<1>1. MaxThreads \in Nat \ {0} /\ PageSize \in Nat \ {0}
  BY ActionsAssumption
<1>2. pr \in PRType /\ pr.threads \in SUBSET (1..MaxThreads)
  BY DEF TypeOK, PRType
<1>3. \A x \in got[c] : Seen(c, x)
  BY DEF Listed, Reading
<1>4. \A x \in got[c] : x[1] \in 1..MaxThreads
  <2>1. \A m \in moments[c] : m.threads \in SUBSET (1..MaxThreads)
    BY DEF TypeOK, PRType
  <2>2. QED
    BY <1>3, <2>1 DEF Seen
<1>5. /\ cursor \in 0..MaxThreads
      /\ cursor = 0 \/ \E x \in got[c] : x[1] = cursor
      /\ \A x \in got[c] : x[1] <= cursor
  <2> DEFINE S == {0} \union {x[1] : x \in got[c]}
  <2>1. S \in SUBSET (0..MaxThreads) /\ S # {}
    BY <1>1, <1>4
  <2> HIDE DEF S
  <2>2. Max(S) \in S /\ \A y \in S : y <= Max(S)
    BY <1>1, <2>1, MaxIs
  <2>3. QED
    BY <2>1, <2>2 DEF S, Cursor
<1>6. /\ page \subseteq {t \in pr.threads : t > cursor}
      /\ \A u \in page, t \in pr.threads : cursor < t /\ t < u => t \in page
      /\ page = {} => \A t \in pr.threads : t <= cursor
  <2>1. cursor \in Nat
    BY <1>1, <1>5
  <2>2. QED
    BY <1>1, <1>2, <2>1, PageFacts
<1>7. \A t \in page : t \in pr.threads /\ t \in 1..MaxThreads /\ State(pr, t) \in all /\ State(pr, t)[1] = t
  <2> SUFFICES ASSUME NEW t \in page
               PROVE  t \in pr.threads /\ t \in 1..MaxThreads /\ State(pr, t) \in all /\ State(pr, t)[1] = t
    OBVIOUS
  <2>1. t \in pr.threads /\ t \in 1..MaxThreads /\ t \in Nat
    BY <1>2, <1>6
  <2>2. State(pr, t)[1] = t
    BY <2>1, StateIs
  <2>3. QED
    BY <2>1, <2>2 DEF Gathered
<1>8. \A x \in all : Seen(c, x)'
  <2>1. \A x \in got[c] : Seen(c, x)'
    BY <1>3 DEF Seen
  <2>2. ASSUME NEW t \in page, NEW x, x = State(pr, t) PROVE Seen(c, x)'
    <3>1. t \in pr.threads /\ t \in Nat
      BY <1>7
    <3>2. x[1] = t /\ x[2] = (t \in pr.resolved)
      BY <2>2, <3>1, StateIs
    <3>3. QED
      BY <3>1, <3>2 DEF Seen
  <2>3. SUFFICES ASSUME NEW x \in all PROVE Seen(c, x)'
    OBVIOUS
  <2>4. CASE x \in got[c]
    BY <2>1, <2>4
  <2>5. CASE x \notin got[c]
    <3>1. PICK t \in page : x = State(pr, t)
      BY <2>5 DEF Gathered
    <3>2. QED
      BY <2>2, <3>1
  <2>6. QED
    BY <2>4, <2>5
<1>9. \A t \in 1..MaxThreads : Stayed(c, t)' /\ t <= cursor => \E x \in all : x[1] = t
  <2> SUFFICES ASSUME NEW t \in 1..MaxThreads, Stayed(c, t)', t <= cursor
               PROVE  \E x \in all : x[1] = t
    OBVIOUS
  <2>1. Stayed(c, t)
    BY DEF Stayed
  <2>2. PICK y \in got[c] : t <= y[1]
    BY <1>1, <1>5
  <2>3. QED
    BY <2>1, <2>2 DEF Listed, Reading, Gathered
<1>10. \A t \in 1..MaxThreads :
         Stayed(c, t)' /\ (\E y \in all : t <= y[1]) => \E x \in all : x[1] = t
  <2> SUFFICES ASSUME NEW t \in 1..MaxThreads, Stayed(c, t)',
                      NEW y \in all, t <= y[1]
               PROVE  \E x \in all : x[1] = t
    OBVIOUS
  <2>1. t \in pr.threads /\ t \in Nat
    BY DEF Stayed
  <2>2. CASE t <= cursor
    BY <1>9, <2>2
  <2>3. CASE t > cursor
    <3>1. y \notin got[c]
      BY <1>1, <1>4, <1>5, <2>1, <2>3
    <3>2. PICK u \in page : y = State(pr, u)
      BY <3>1 DEF Gathered
    <3>3. t <= u /\ u \in Nat
      BY <1>7, <3>2
    <3>4. t \in page
      BY <1>5, <1>6, <2>1, <2>3, <3>3
    <3>5. QED
      BY <1>7, <3>4
  <2>4. t \in Int /\ cursor \in Int
    BY <1>1, <1>5, <2>1
  <2>5. t <= cursor \/ t > cursor
    BY <2>4
  <2>6. QED
    BY <2>2, <2>3, <2>5
<1>11. IsLast(cursor, page) =>
         \A t \in pr.threads : t <= cursor \/ \E y \in all : t <= y[1]
  <2> DEFINE last == Max({cursor} \union page)
  <2> SUFFICES ASSUME NEW t \in pr.threads, ~ (t > last)
               PROVE  t <= cursor \/ \E y \in all : t <= y[1]
    BY <1>6 DEF IsLast
  <2>1. {cursor} \union page \in SUBSET (0..MaxThreads) /\ {cursor} \union page # {}
    <3>1. \A t1 \in page : t1 \in 0..MaxThreads
      BY <1>1, <1>7
    <3>2. QED
      BY <1>5, <3>1
  <2>2. last \in {cursor} \union page /\ last \in 0..MaxThreads
    BY <1>1, <2>1, MaxIs
  <2>3. t \in 1..MaxThreads
    BY <1>2
  <2> HIDE DEF last
  <2>4. t <= last
    BY <1>1, <2>2, <2>3
  <2>5. CASE last = cursor
    BY <2>4, <2>5
  <2>6. CASE last \in page
    BY <1>7, <2>4, <2>6
  <2>7. QED
    BY <2>2, <2>5, <2>6
<1>12. QED
  BY <1>8, <1>9, <1>10, <1>11

\* Every step of a service lists what was there.
LEMMA WorksListed ==
  ASSUME TypeOK, NEW c \in Commands, Counted(c), Listed(c), Shape(c), Works(c),
         pr \in moments'[c], moments[c] \subseteq moments'[c]
  PROVE  Listed(c)'
<1> USE DEF Asks, Verb
<1>1. Failed.is # "done" /\ Refused.is # "done" /\ \A says : Done(says).says = says
  BY DEF Failed, Refused, Done
<1>2. Verb(c)' = Verb(c) /\ job'[c] = job[c]
  BY DEF Shape
<1>3. Verb(c) \notin {"list", "view", "report"} => \A says : Shown(c, says)'
  BY <1>2 DEF Shown
<1>4. CASE fetchThread(c)
  BY <1>1, <1>3, <1>4, AnswerListed, ContinueListed DEF fetchThread, Ops
<1>5. CASE performResolve(c)
  BY <1>1, <1>3, <1>5, AnswerListed, ContinueListed DEF performResolve, Ops
<1>6. CASE performUnresolve(c)
  BY <1>1, <1>3, <1>6, AnswerListed, ContinueListed DEF performUnresolve, Ops
<1>7. CASE loadPullContext(c)
  BY <1>1, <1>7, AnswerListed, ContinueListed DEF loadPullContext
<1>8. CASE collectThreads(c)
  <2>1. PICK cursor, page, all, says :
          /\ cursor = Cursor(c)
          /\ page = PageAfter(cursor, PageSize)
          /\ all = Gathered(c, page)
          /\ says = List(all, job[c].open)
    OBVIOUS
  <2>2. \/ Answer(c, Failed)
        \/ Continue(c, "page", all)
        \/ /\ Answer(c, Done(says))
           /\ IsLast(cursor, page)
    BY <1>8, <2>1 DEF collectThreads, Cursor, Gathered, IsLast
  <2>3. /\ \A y \in all : Seen(c, y)'
        /\ \A t \in 1..MaxThreads :
             Stayed(c, t)' /\ (\E y \in all : t <= y[1]) => \E y \in all : y[1] = t
        /\ IsLast(cursor, page) =>
             \A t \in pr.threads : t <= cursor \/ \E y \in all : t <= y[1]
        /\ \A t \in 1..MaxThreads : Stayed(c, t)' /\ t <= cursor => \E y \in all : y[1] = t
    <3>1. call[c] = "page" /\ Verb(c) = "list" /\ UNCHANGED job
      BY <1>8 DEF collectThreads, Shape
    <3>2. QED
      BY <2>1, <3>1, PageListed
  <2>4. CASE Answer(c, Failed)
    BY <1>1, <2>4, AnswerListed
  <2>5. CASE Continue(c, "page", all)
    <3>1. got'[c] = all /\ answer'[c].is # "done"
      BY <1>8, <2>5 DEF collectThreads, Continue, TypeOK, Counted
    <3>2. QED
      BY <2>3, <3>1 DEF Listed, Reading
  <2>6. CASE /\ Answer(c, Done(says))
             /\ IsLast(cursor, page)
    <3>1. \A t \in pr.threads : t <= cursor \/ \E y \in all : t <= y[1]
      BY <2>3, <2>6
    <3>2. \A t \in 1..MaxThreads : Stayed(c, t)' => \E y \in all : y[1] = t
      <4> SUFFICES ASSUME NEW t \in 1..MaxThreads, Stayed(c, t)'
                   PROVE  \E y \in all : y[1] = t
        OBVIOUS
      <4>1. t \in pr.threads
        BY DEF Stayed
      <4>2. QED
        BY <2>3, <3>1, <4>1
    <3>3. \A y \in says : Seen(c, y)'
      BY <2>1, <2>3 DEF List
    <3>4. ASSUME NEW t \in 1..MaxThreads, Wanted(c, t, job[c].open)'
          PROVE  \E y \in says : y[1] = t
      <4>1. Stayed(c, t)'
        BY <3>4 DEF Wanted, Stayed
      <4>2. PICK y \in all : y[1] = t
        BY <3>2, <4>1
      <4>3. job[c].open => ~ y[2]
        BY <1>2, <2>3, <3>4, <4>2 DEF Seen, Wanted
      <4>4. QED
        BY <2>1, <4>2, <4>3 DEF List
    <3>5. Shown(c, says)'
      BY <3>3, <3>4 DEF Shown
    <3>6. QED
      BY <1>1, <2>6, <3>5, AnswerListed
  <2>7. QED
    BY <2>2, <2>4, <2>5, <2>6
<1>9. CASE fetchThreadWithComments(c)
  <2>1. PICK t \in 1..job[c].on :
          \/ Answer(c, Failed)
          \/ /\ t \in pr.threads
             /\ \/ Continue(c, "view", got[c] \union {State(pr, t)})
                \/ Answer(c, Done(got[c] \union {State(pr, t)}))
    <3>1. PICK o \in Outcomes \ {"lost"}, t \in 1..job[c].on :
            LET all == got[c] \union {State(pr, t)} IN
            IF GraphQL(o, TRUE) # "ok" \/ t \notin pr.threads THEN Answer(c, Failed)
            ELSE Continue(c, "view", all) \/ Answer(c, Done(all))
      BY <1>9 DEF fetchThreadWithComments
    <3>2. CASE t \in pr.threads
      BY <3>1, <3>2
    <3>3. CASE t \notin pr.threads
      BY <3>1, <3>3
    <3>4. QED
      BY <3>2, <3>3
  <2>2. PICK all : all = got[c] \union {State(pr, t)}
    OBVIOUS
  <2>3. t \in pr.threads => \A x \in all : Seen(c, x)'
    <3> SUFFICES ASSUME t \in pr.threads, NEW x \in all PROVE Seen(c, x)'
      OBVIOUS
    <3>1. CASE x \in got[c]
      BY <1>9, <3>1 DEF fetchThreadWithComments, Listed, Reading, Seen
    <3>2. CASE x = State(pr, t)
      <4>1. t \in Nat
        BY DEF TypeOK, PRType
      <4>2. x[1] = t /\ x[2] = (t \in pr.resolved)
        BY <3>2, <4>1, StateIs
      <4>3. QED
        BY <4>2 DEF Seen
    <3>3. QED
      BY <2>2, <3>1, <3>2
  <2>4. CASE Answer(c, Failed)
    BY <1>1, <2>4, AnswerListed
  <2>5. CASE Continue(c, "view", all) /\ t \in pr.threads
    <3>1. got'[c] = all /\ answer'[c].is # "done" /\ call'[c] = "view"
      BY <1>9, <2>5 DEF fetchThreadWithComments, Continue, TypeOK, Counted
    <3>2. QED
      BY <2>3, <2>5, <3>1 DEF Listed, Reading
  <2>6. CASE Answer(c, Done(all)) /\ t \in pr.threads
    <3>1. Shown(c, all)'
      BY <1>2, <1>9, <2>3, <2>6 DEF fetchThreadWithComments, Shown
    <3>2. QED
      BY <1>1, <2>6, <3>1, AnswerListed
  <2>7. QED
    BY <2>1, <2>2, <2>4, <2>5, <2>6
<1>10. CASE Repository(c)
  BY <1>1, <1>3, <1>10, AnswerListed, ContinueListed DEF Repository, Ops
<1>11. CASE PullRequest(c)
  BY <1>1, <1>3, <1>11, AnswerListed, ContinueListed DEF PullRequest, Ops
<1>12. CASE statusOf(c)
  BY <1>1, <1>3, <1>12, AnswerListed, ContinueListed DEF statusOf, Ops
<1>13. CASE DraftList(c)
  BY <1>1, <1>3, <1>13, AnswerListed, ContinueListed DEF DraftList, Ops
<1>14. CASE changeDraftState(c)
  BY <1>1, <1>3, <1>14, AnswerListed, ContinueListed DEF changeDraftState, Ops
<1>15. CASE convertToDraft(c)
  BY <1>1, <1>3, <1>15, AnswerListed, ContinueListed DEF convertToDraft, Ops
<1>16. CASE markReadyForReview(c)
  BY <1>1, <1>3, <1>16, AnswerListed, ContinueListed DEF markReadyForReview, Ops
<1>17. CASE pullRequestIdentifiers(c)
  BY <1>1, <1>3, <1>17, AnswerListed, ContinueListed DEF pullRequestIdentifiers, Ops
<1>18. CASE Start(c)
  BY <1>1, <1>3, <1>18, AnswerListed, ContinueListed DEF Start, Ops
<1>19. CASE AddThread(c)
  BY <1>1, <1>3, <1>19, AnswerListed, ContinueListed DEF AddThread, Ops
<1>20. CASE UpdateComment(c)
  BY <1>1, <1>3, <1>20, AnswerListed, ContinueListed DEF UpdateComment, Ops
<1>21. CASE DeleteComment(c)
  BY <1>1, <1>3, <1>21, AnswerListed, ContinueListed DEF DeleteComment, Ops
<1>22. CASE Submit(c)
  BY <1>1, <1>3, <1>22, AnswerListed, ContinueListed DEF Submit, Ops
<1>23. CASE Reply(c)
  BY <1>1, <1>3, <1>23, AnswerListed, ContinueListed DEF Reply, Ops
<1>24. CASE loadCommentDetails(c)
  BY <1>1, <1>3, <1>24, AnswerListed, ContinueListed DEF loadCommentDetails, Ops
<1>25. CASE loadThreadDetails(c)
  BY <1>1, <1>3, <1>25, AnswerListed, ContinueListed DEF loadThreadDetails, Ops
<1>26. CASE React(c)
  BY <1>1, <1>3, <1>26, AnswerListed, ContinueListed DEF React, Ops
<1>27. CASE Fetch(c)
  <2>1. PICK says : says = BuildReport(PageAfter(0, ReportSize), job[c].open)
    OBVIOUS
  <2>2. Answer(c, Done(says)) \/ Answer(c, Failed)
    BY <1>27, <2>1 DEF Fetch
  <2>3. ASSUME NEW x \in says PROVE Seen(c, x)'
    <3>1. PICK t \in pr.threads : x = State(pr, t)
      BY <2>1, <2>3 DEF BuildReport, PageAfter
    <3>2. t \in Nat
      BY DEF TypeOK, PRType
    <3>3. x[1] = t /\ x[2] = (t \in pr.resolved)
      BY <3>1, <3>2, StateIs
    <3>4. QED
      BY <3>3 DEF Seen
  <2>4. Shown(c, says)'
    BY <1>2, <1>27, <2>3 DEF Fetch, Shown
  <2>5. QED
    BY <1>1, <2>2, <2>4, AnswerListed
<1>28. QED
  BY <1>4, <1>5, <1>6, <1>7, <1>8, <1>9, <1>10, <1>11, <1>12, <1>13, <1>14, <1>15, <1>16, <1>17, <1>18, <1>19, <1>20, <1>21, <1>22, <1>23, <1>24, <1>25, <1>26, <1>27 DEF Works

----------------------------------------------------------------------------
\* The invariant.

Kept(c) == Counted(c) /\ Truthful(c) /\ Listed(c)

\* The steps that begin a command or cut it off keep its types.
LEMMA BeginShape ==
  ASSUME TypeOK, NEW c \in Commands, Begin(c)
  PROVE  /\ Moves(c) /\ UNCHANGED <<job, pr, effects>>
         /\ \E l \in {"here", "open"} : link' = [link EXCEPT ![c] = l]
         /\ call[c] = "new" /\ got'[c] = {}
         /\ call'[c] \notin {"new", "comment", "replied"}
         /\ Verb(c) = "start" => call'[c] # "mutation"
         /\ answer'[c] \in {answer[c], Failed}
<1> USE AnswerTypes
<1>1. FirstCall(job[c].verb) \in Stages \ {"comment", "replied", "ended"}
  BY DEF FirstCall, Stages
<1>2. Verb(c) = "start" => FirstCall(job[c].verb) = "identifiers"
  BY DEF FirstCall, Verb, Ops
<1>3. {} \in Reports
  BY DEF Reports
<1>4. Continue(c, FirstCall(job[c].verb), {}) \/ Answer(c, Failed)
  BY DEF Begin
<1>5. Moves(c)
  BY <1>1, <1>3, <1>4, AnswerMoves, ContinueMoves
<1>6. /\ call'[c] \notin {"new", "comment", "replied"}
      /\ Verb(c) = "start" => call'[c] # "mutation"
      /\ answer'[c] \in {answer[c], Failed} /\ got'[c] = {}
  BY <1>1, <1>2, <1>4 DEF Answer, Continue, TypeOK, Stages
<1>7. \E l \in {"here", "open"} : link' = [link EXCEPT ![c] = l]
  BY DEF Begin
<1>8. QED
  BY <1>5, <1>6, <1>7 DEF Begin

\* A command that begins keeps all three for itself.
LEMMA BeginKeeps ==
  ASSUME TypeOK, NEW c \in Commands, Kept(c), Begin(c)
  PROVE  Kept(c)'
<1>1. answer'[c].is \notin {"done", "refused"}
  BY BeginShape DEF Kept, Counted, Failed
<1>2. Counted(c)'
  BY <1>1, BeginShape DEF Kept, Counted, TypeOK
<1>3. Truthful(c)'
  BY <1>1, BeginShape DEF Truthful, Headed, Verb
<1>4. Listed(c)'
  BY <1>1, BeginShape DEF Listed, Reading
<1>5. QED
  BY <1>2, <1>3, <1>4 DEF Kept

\* A hop that fails does too: an error says nothing.
LEMMA InterruptKeeps ==
  ASSUME TypeOK, NEW c \in Commands, Kept(c), Interrupt(c), moments[c] \subseteq moments'[c]
  PROVE  Kept(c)'
<1>1. /\ answer'[c].is = "error" /\ got'[c] = got[c] /\ effects'[c] = effects[c] /\ job' = job
      /\ call[c] \notin {"new", "ended"} /\ call'[c] \in {call[c], "ended"}
  BY DEF Interrupt, Failed, TypeOK
<1>2. Counted(c)'
  BY <1>1 DEF Kept, Counted
<1>3. Truthful(c)'
  BY <1>1 DEF Kept, Truthful, Headed, Verb
<1>4. \A x : Seen(c, x) => Seen(c, x)'
  BY DEF Seen
<1>5. \A t : Stayed(c, t)' => Stayed(c, t)
  BY DEF Stayed
<1>6. Listed(c)'
  BY <1>1, <1>4, <1>5 DEF Kept, Listed, Reading, Verb
<1>7. QED
  BY <1>2, <1>3, <1>6 DEF Kept

\* What others do to the pull request leaves it one.
LEMMA OthersShape ==
  ASSUME pr \in PRType,
         SomebodyResolves \/ SomebodyComments \/ SomebodyDeletes \/ SomebodyPushes \/ SomebodyDrafts
  PROVE  pr' \in PRType /\ UNCHANGED <<job, call, got, link, answer, effects>>
<1> USE DEF Other
<1>1. CASE SomebodyResolves
  BY <1>1 DEF SomebodyResolves, PRType
<1>2. CASE SomebodyComments
  <2>1. MaxThreads \in Nat
    BY ActionsAssumption
  <2>2. pr.next \in 1..MaxThreads /\ pr.next + 1 \in Nat \ {0}
    BY <1>2, <2>1 DEF SomebodyComments, PRType
  <2>3. QED
    BY <1>2, <2>2 DEF SomebodyComments, PRType
<1>3. CASE SomebodyDeletes
  <2>1. PICK t \in pr.threads \ pr.mine :
          Other([pr EXCEPT !.threads = @ \ {t}, !.resolved = @ \ {t}])
    BY <1>3 DEF SomebodyDeletes
  <2>2. pr.threads \ {t} \in SUBSET (1..MaxThreads) /\ pr.resolved \ {t} \in SUBSET (1..MaxThreads)
    BY DEF PRType
  <2>3. QED
    BY <2>1, <2>2 DEF PRType
<1>4. CASE SomebodyPushes
  BY <1>4 DEF SomebodyPushes, PRType
<1>5. CASE SomebodyDrafts
  BY <1>5 DEF SomebodyDrafts, PRType
<1>6. QED
  BY <1>1, <1>2, <1>3, <1>4, <1>5

\* A step keeps the types, makes no command new again, and leaves those of D alone.
Leaves(D) ==
  /\ pr' \in PRType /\ UNCHANGED job
  /\ call' \in [Commands -> Stages \union {"new"}]
  /\ got' \in [Commands -> Reports]
  /\ link' \in [Commands -> {"here", "open", "cut"}]
  /\ answer' \in [Commands -> Answers]
  /\ effects' \in [Commands -> Nat]
  /\ \A d \in Commands : call'[d] = "new" => call[d] = "new"
  /\ \A d \in D : UNCHANGED <<call[d], got[d], link[d], answer[d], effects[d]>>

\* A command's move leaves the others alone.
LEMMA MovesLeaves ==
  ASSUME TypeOK, NEW c \in Commands, Moves(c), pr' \in PRType, UNCHANGED job,
         NEW l \in {"here", "open", "cut"}, link' = [link EXCEPT ![c] = l],
         NEW n \in {0, 1}, effects' = [effects EXCEPT ![c] = @ + n]
  PROVE  Leaves(Commands \ {c})
<1>1. /\ call' \in [Commands -> Stages \union {"new"}]
      /\ \A d \in Commands : call'[d] = "new" => call[d] = "new"
      /\ \A d \in Commands \ {c} : call'[d] = call[d]
  BY DEF TypeOK, Moves, Stages
<1>2. got' \in [Commands -> Reports] /\ \A d \in Commands \ {c} : got'[d] = got[d]
  BY DEF TypeOK, Moves
<1>3. answer' \in [Commands -> Answers] /\ \A d \in Commands \ {c} : answer'[d] = answer[d]
  BY DEF TypeOK, Moves
<1>4. link' \in [Commands -> {"here", "open", "cut"}] /\ \A d \in Commands \ {c} : link'[d] = link[d]
  BY DEF TypeOK
<1>5. effects' \in [Commands -> Nat] /\ \A d \in Commands \ {c} : effects'[d] = effects[d]
  BY DEF TypeOK
<1>6. QED
  BY <1>1, <1>2, <1>3, <1>4, <1>5 DEF Leaves

\* So does each of its steps.
LEMMA CommandLeaves ==
  ASSUME TypeOK, NEW c \in Commands, Kept(c), Begin(c) \/ Interrupt(c) \/ Works(c)
  PROVE  Leaves(Commands \ {c})
<1>1. CASE Begin(c)
  <2>1. pr' \in PRType /\ effects' = [effects EXCEPT ![c] = @ + 0]
    BY <1>1, BeginShape DEF TypeOK
  <2>2. QED
    BY <1>1, <2>1, BeginShape, MovesLeaves
<1>2. CASE Interrupt(c)
  <2>1. Failed \in Answers
    BY AnswerTypes
  <2>2. QED
    BY <1>2, <2>1 DEF Interrupt, Leaves, TypeOK, Stages
<1>3. CASE Works(c)
  <2>1. Shape(c)
    BY <1>3, WorksShape DEF Kept
  <2>2. link' = [link EXCEPT ![c] = link[c]] /\ link[c] \in {"here", "open", "cut"}
    BY <2>1 DEF Shape, TypeOK
  <2>3. QED
    BY <2>1, <2>2, MovesLeaves DEF Shape
<1>4. QED
  BY <1>1, <1>2, <1>3

\* Every step keeps the invariant.
LEMMA StepKeeps ==
  ASSUME TypeOK, \A c \in Commands : Kept(c), Next
  PROVE  TypeOK' /\ \A c \in Commands : Kept(c)'
<1>1. PICK D \in SUBSET Commands :
        /\ Leaves(D)
        /\ \A c \in Commands \ D : Begin(c) \/ Interrupt(c) \/ Works(c)
  <2>1. CASE \E c \in Commands : Begin(c) \/ Interrupt(c) \/ Works(c)
    <3>1. PICK c \in Commands : Begin(c) \/ Interrupt(c) \/ Works(c)
      BY <2>1
    <3>2. Leaves(Commands \ {c})
      BY <3>1, CommandLeaves
    <3>3. QED
      BY <3>1, <3>2
  <2>2. CASE SomebodyResolves \/ SomebodyComments \/ SomebodyDeletes \/ SomebodyPushes \/ SomebodyDrafts
    <3>1. pr' \in PRType /\ UNCHANGED <<job, call, got, link, answer, effects>>
      BY <2>2, OthersShape DEF TypeOK
    <3>2. Leaves(Commands)
      BY <3>1 DEF Leaves, TypeOK
    <3>3. QED
      BY <3>2
  <2>3. QED
    BY <2>1, <2>2 DEF Next, Step
<1>2. /\ moments' \in [Commands -> SUBSET PRType]
      /\ \A d \in Commands :
           /\ call'[d] = "new" => moments'[d] = {}
           /\ call'[d] # "new" => moments[d] \subseteq moments'[d]
           /\ call'[d] # "new" /\ call[d] # "ended" => pr \in moments'[d] /\ pr' \in moments'[d]
  BY <1>1, RememberFacts DEF Leaves, Next
<1>3. TypeOK'
  BY <1>1, <1>2 DEF Leaves, TypeOK
<1>4. ASSUME NEW d \in D PROVE Kept(d)'
  <2>1. Same(d)
    BY <1>1, <1>2 DEF Leaves, Same
  <2>2. QED
    BY <2>1, SameCounted, SameTruthful, SameListed DEF Kept
<1>5. ASSUME NEW c \in Commands \ D PROVE Kept(c)'
  <2>1. CASE Begin(c)
    BY <2>1, BeginKeeps
  <2>2. CASE Interrupt(c)
    <3>1. call'[c] # "new"
      BY <2>2 DEF Interrupt, TypeOK
    <3>2. QED
      BY <1>2, <2>2, <3>1, InterruptKeeps
  <2>3. CASE Works(c)
    <3>1. Shape(c)
      BY <2>3, WorksShape DEF Kept
    <3>2. call'[c] # "new" /\ call[c] # "ended"
      BY <3>1 DEF Shape, Moves, Stages, TypeOK
    <3>3. Counted(c)'
      BY <2>3, <3>1, WorksCounted DEF Kept
    <3>4. Truthful(c)'
      BY <1>2, <2>3, <3>1, <3>2, WorksTruthful DEF Kept
    <3>5. Listed(c)'
      BY <1>2, <2>3, <3>1, <3>2, WorksListed DEF Kept
    <3>6. QED
      BY <3>3, <3>4, <3>5 DEF Kept
  <2>4. QED
    BY <1>1, <2>1, <2>2, <2>3
<1>6. QED
  BY <1>3, <1>4, <1>5

----------------------------------------------------------------------------

\* The invariant holds always: the types, and for every command that the count of
\* its mutations, its answer and its list are right.
THEOREM ActionsInvariant == Spec => []IInv
<1>1. Init => IInv
  <2> SUFFICES ASSUME Init PROVE IInv
    OBVIOUS
  <2>1. TypeOK
    <3>1. Silent \in Answers /\ {} \in Reports
      BY AnswerTypes DEF Reports
    <3>2. pr \in PRType /\ job \in [Commands -> JobType]
      BY InputsAssumption DEF Init
    <3>3. QED
      BY <3>1, <3>2 DEF Init, TypeOK
  <2>2. ASSUME NEW c \in Commands PROVE Counted(c) /\ Truthful(c) /\ Listed(c)
    BY DEF Init, Silent, Counted, Truthful, Headed, Listed, Reading
  <2>3. QED
    BY <2>1, <2>2 DEF IInv
<1>2. IInv /\ [Next]_vars => IInv'
  <2>1. CASE Next
    BY <2>1, StepKeeps DEF IInv, Kept
  <2>2. CASE UNCHANGED vars
    <3>1. ASSUME TypeOK PROVE TypeOK'
      BY <2>2, <3>1 DEF vars, TypeOK
    <3>2. ASSUME NEW c \in Commands, Kept(c) PROVE Kept(c)'
      BY <2>2, <3>2 DEF vars, Kept, Counted, Truthful, Told, Headed, Listed, Reading, Shown,
                        Seen, Stayed, Wanted, Verb
    <3>3. QED
      BY <3>1, <3>2 DEF IInv, Kept
  <2>3. QED
    BY <2>1, <2>2
<1>3. QED
  BY <1>1, <1>2, PTL DEF Spec

\* Whatever is lost on the way, a command changes GitHub at most once, and one that
\* GitHub refused has changed nothing (remote/mutate.go call, serveMutation).
THEOREM ChangesAtMostOnce == Spec => []AtMostOnce
<1>1. IInv => AtMostOnce
  BY DEF IInv, TypeOK, Counted, AtMostOnce
<1>2. QED
  BY <1>1, ActionsInvariant, PTL

\* A command that reports success has done once what it says it did, and reports a
\* state that the pull request was in while it ran (the services over ghcli.GraphQL).
THEOREM SuccessIsAlwaysTrue == Spec => []SuccessIsTrue
<1>1. IInv => SuccessIsTrue
  BY DEF IInv, Truthful, Told, SuccessIsTrue
<1>2. QED
  BY <1>1, ActionsInvariant, PTL

\* A list names what was there when it was read, and misses no thread that was there
\* and wanted from the first page to the last (threads.Service.List).
THEOREM ListIsAlwaysTrue == Spec => []ListIsTrue
<1>1. IInv => ListIsTrue
  BY DEF IInv, Listed, Shown, Seen, Wanted, ListIsTrue
<1>2. QED
  BY <1>1, ActionsInvariant, PTL
=============================================================================
