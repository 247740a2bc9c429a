------------------------------ MODULE Actions ------------------------------
(***************************************************************************)
(* The commands that act on a pull request (gh monitor threads, review,    *)
(* comments, draft, react): which backend a command goes to, the exchange  *)
(* with a backend of another process, and the calls that the services make *)
(* on GitHub, one step each.  Commands run at the same time as each other  *)
(* and as everybody else who works on the pull request; an answer may be   *)
(* lost at every hop, and nothing is ever retried.                         *)
(*                                                                         *)
(* Arguments are valid, and a backend of another process is taken to do    *)
(* the work as the built-in one does.  The order of a list, the texts and  *)
(* the positions of comments are left out.                                 *)
(***************************************************************************)
EXTENDS Integers, Sequences, FiniteSetsExt

CONSTANTS
  Commands,      \* the commands that somebody runs
  Jobs,          \* what they may be: [verb, on: a thread, commit, open: only unresolved]
  Settings,      \* what may be configured: <<external, pinned>>
  Initially,     \* the states of the pull request that there may be
  Everyone,      \* the name of a backend that no --backend pins
  PageSize,      \* threads on a page of the list
  ReportSize,    \* threads in a report
  MaxThreads, MaxHead, MaxOthers   \* bounds: threads, pushes, acts of others

ASSUME ActionsAssumption ==
  {PageSize, ReportSize, MaxThreads, MaxHead, MaxOthers} \subseteq Nat \ {0}

\* A command has arguments of these types, and a pull request these parts.
JobType == [verb: STRING, on: Nat, commit: Nat, open: BOOLEAN]
PRType ==
  [threads: SUBSET (1..MaxThreads), mine: SUBSET (1..MaxThreads),
   resolved: SUBSET (1..MaxThreads), next: Nat \ {0}, draft: BOOLEAN, head: Nat,
   review: {"none", "pending", "submitted"}, on: Nat]

ASSUME InputsAssumption == Jobs \subseteq JobType /\ Initially \subseteq PRType

VARIABLES
  external,      \* the external backends configured: at most one, [name, kinds, caps]
  pinned,        \* --backend, or Everyone
  pr,            \* the pull request at GitHub
  others,        \* how often somebody else has changed it
  job,           \* [Commands -> Jobs]
  by,            \* [Commands -> the name of the backend it went to]
  call,          \* [Commands -> the call its backend makes next]
  got,           \* [Commands -> what the calls so far returned]
  link,          \* [Commands -> where the work is done: "here", "open" or "cut"]
  answer,        \* [Commands -> what the command said]
  effects,       \* [Commands -> how often its mutation was carried out]
  moments        \* [Commands -> the states of pr while it ran]

settings == <<external, pinned>>
vars == <<settings, pr, others, job, by, call, got, link, answer, effects, moments>>

None == "none"      \* no backend
CurrentHead == 0    \* no --commit
Silent == [is |-> "nothing", says |-> {}]
Failed == [is |-> "error", says |-> {}]
Refused == [is |-> "refused", says |-> {}]
Done(says) == [is |-> "done", says |-> says]

----------------------------------------------------------------------------
\* Which backend a command goes to.

Capabilities == {"threads", "review", "comments", "draft", "reactions", "report"}

\* The operations, by the capability that they belong to.
Ops ==
  [threads |-> {"list", "view", "resolve", "unresolve"},
   review |-> {"start", "add", "edit", "delete", "submit"},
   comments |-> {"reply"},
   draft |-> {"ready", "draft", "status", "drafts"},
   reactions |-> {"react"},
   report |-> {"report"}]

CapabilityOf(verb) == CHOOSE c \in Capabilities : verb \in Ops[c]

\* The built-in backend registers first, for every kind, the external one last.
buildRegistry ==
  <<[name |-> "gh", kinds |-> {}, caps |-> Capabilities]>> \o external

specific(r) == r.kinds # {}
covers(r, kind) == r.kinds = {} \/ kind \in r.kinds

\* Everything named by --backend, or else the most recent backend that names
\* the kind, or else the most recent one.
resolve(regs, kind, want) ==
  LET able == {i \in DOMAIN regs : want \in regs[i].caps /\ covers(regs[i], kind)}
      special == {i \in able : specific(regs[i])}
      pool == IF pinned # Everyone THEN {i \in able : regs[i].name = pinned}
              ELSE IF special # {} THEN special
              ELSE able
  IN IF pool = {} THEN None ELSE regs[Max(pool)].name

\* --backend must name a backend that is registered.
Pin == pinned = Everyone \/ \E i \in DOMAIN buildRegistry : buildRegistry[i].name = pinned

resolveActor(verb) == IF Pin THEN resolve(buildRegistry, "pr", CapabilityOf(verb)) ELSE None

----------------------------------------------------------------------------
\* GitHub, as the code uses it, and the gh CLI in front of it.

\* How a call ends: answered; carried out and the answer lost; refused by an
\* exit code; an error document in place of the answer; errors in the answer.
Outcomes == {"ok", "lost", "refused", "limited", "errors"}
CarriedOut(o) == o \in {"ok", "lost"}

\* A mutant: an error document is taken for an answer without data.
MutantGraphQL(o, wanted) ==
  CASE o \in {"lost", "refused"} -> "api"
    [] o = "errors" /\ wanted -> "graphql"
    [] OTHER -> "ok"

\* A caller that wants no result gets no look at the answer either.
GraphQL(o, wanted) ==
  CASE o \in {"lost", "refused"} -> "api"
    [] o = "limited" /\ wanted -> "api"
    [] o = "errors" /\ wanted -> "graphql"
    [] OTHER -> "ok"

REST(o) == IF o = "ok" THEN "ok" ELSE "api"

IsOpen(p, t) == t \notin p.resolved
State(p, t) == <<t, t \in p.resolved>>

\* The page of the list that follows the thread of the cursor.
PageAfter(cursor, size) ==
  LET later == {t \in pr.threads : t > cursor}
  IN {t \in later : Cardinality({u \in later : u < t}) < size}

----------------------------------------------------------------------------
\* The exchange with the command.

\* The actor is done.  What it answers reaches the command unless the
\* connection to it has gone: one frame, an error or a result.
Answer(c, a) ==
  /\ call' = [call EXCEPT ![c] = "ended"]
  /\ answer' = IF link[c] = "cut" THEN answer ELSE [answer EXCEPT ![c] = a]
  /\ got' = [got EXCEPT ![c] = {}]

\* The actor goes on with another call.
Continue(c, next, value) ==
  /\ call' = [call EXCEPT ![c] = next]
  /\ got' = [got EXCEPT ![c] = value]
  /\ UNCHANGED answer

Asks(c, verbs, name) == job[c].verb \in verbs /\ call[c] = name

\* A read: it changes nothing at GitHub.
Reads(c) == UNCHANGED <<settings, pr, others, job, by, link, effects>>

\* A mutation that ends in o, and what it does to the pull request.
Mutates(c, o, after) ==
  /\ pr' = IF CarriedOut(o) THEN after ELSE pr
  /\ effects' = [effects EXCEPT ![c] = @ + (IF CarriedOut(o) THEN 1 ELSE 0)]
  /\ UNCHANGED <<settings, others, job, by, link>>

FirstCall(verb) ==
  CASE verb \in {"resolve", "unresolve"} -> "thread"
    [] verb \in Ops["draft"] \union {"list"} -> "repository"
    [] verb = "start" -> "identifiers"
    [] verb \in {"view", "report"} -> verb
    [] OTHER -> "mutation"

\* The command finds its backend and hands it the request.  A backend of
\* another process may be out of reach, greet with another protocol or not
\* know the operation.
Begin(c) ==
  /\ call[c] = "new"
  /\ LET name == resolveActor(job[c].verb) IN
     /\ by' = [by EXCEPT ![c] = name]
     /\ link' = [link EXCEPT ![c] = IF name \in {None, "gh"} THEN "here" ELSE "open"]
     /\ \/ /\ name # None
           /\ Continue(c, FirstCall(job[c].verb), {})
        \/ /\ name # "gh"
           /\ Answer(c, Failed)
  /\ UNCHANGED <<settings, pr, others, job, effects>>

\* A mutant: a request whose answer is lost is sent again.
MutantInterrupt(c) ==
  /\ call[c] \notin {"new", "ended"} /\ link[c] = "open" /\ job[c].verb = "reply"
  /\ call' = [call EXCEPT ![c] = FirstCall(job[c].verb)]
  /\ UNCHANGED <<settings, pr, others, job, by, link, got, answer, effects>>

\* The connection is lost, or somebody interrupts the command.  The work of a
\* backend of another process goes on: its calls cannot be cancelled.
Interrupt(c) ==
  /\ call[c] \notin {"new", "ended"} /\ link[c] # "cut"
  /\ answer' = [answer EXCEPT ![c] = Failed]
  /\ IF link[c] = "open"
     THEN link' = [link EXCEPT ![c] = "cut"] /\ UNCHANGED call
     ELSE call' = [call EXCEPT ![c] = "ended"] /\ UNCHANGED link
  /\ UNCHANGED <<settings, pr, others, job, by, got, effects>>

----------------------------------------------------------------------------
\* Review threads.

\* threads resolve and unresolve ask for the thread first, and whether the
\* viewer may change it.
fetchThread(c) ==
  /\ Asks(c, {"resolve", "unresolve"}, "thread")
  /\ \E o \in Outcomes \ {"lost"}, may \in BOOLEAN :
       LET t == job[c].on
           wanted == job[c].verb = "resolve"
           resolved == t \in pr.resolved
       IN IF GraphQL(o, TRUE) # "ok" \/ t \notin pr.threads THEN Answer(c, Failed)
          ELSE CASE resolved = wanted -> Answer(c, Done({State(pr, t)}))
                 [] resolved # wanted /\ ~may -> Answer(c, Failed)
                 [] resolved # wanted /\ may -> Continue(c, "mutation", {})
  /\ Reads(c)

performResolve(c) ==
  /\ Asks(c, {"resolve"}, "mutation")
  /\ \E o \in Outcomes :
       /\ CarriedOut(o) => job[c].on \in pr.threads
       /\ Mutates(c, o, [pr EXCEPT !.resolved = @ \union {job[c].on}])
       /\ Answer(c, IF GraphQL(o, TRUE) = "ok" THEN Done({State(pr', job[c].on)}) ELSE Failed)

performUnresolve(c) ==
  /\ Asks(c, {"unresolve"}, "mutation")
  /\ \E o \in Outcomes :
       /\ CarriedOut(o) => job[c].on \in pr.threads
       /\ Mutates(c, o, [pr EXCEPT !.resolved = @ \ {job[c].on}])
       /\ Answer(c, IF GraphQL(o, TRUE) = "ok" THEN Done({State(pr', job[c].on)}) ELSE Failed)

\* threads list asks where the pull request is now, and for its node.
loadPullContext(c) ==
  /\ \/ Asks(c, {"list"}, "repository")
     \/ Asks(c, {"list"}, "pull")
  /\ \E o \in Outcomes \ {"lost"} :
       IF REST(o) = "ok"
       THEN Continue(c, IF call[c] = "repository" THEN "pull" ELSE "page", {})
       ELSE Answer(c, Failed)
  /\ Reads(c)

\* What a list keeps of the threads that were read.
List(read, open) == {x \in read : open => ~x[2]}

\* A mutant: the list ends with its first page.
MutantCollect(c) ==
  /\ Asks(c, {"list"}, "page")
  /\ \E o \in Outcomes \ {"lost"} :
       LET page == {State(pr, t) : t \in PageAfter(0, PageSize)}
       IN Answer(c, IF GraphQL(o, TRUE) = "ok" THEN Done(List(page, job[c].open)) ELSE Failed)
  /\ Reads(c)

\* threads list reads page after page, then keeps what was asked for.  got is
\* what it has read and, as the thread it has come to, the cursor.
collectThreads(c) ==
  /\ Asks(c, {"list"}, "page")
  /\ \E o \in Outcomes \ {"lost"} :
       LET cursor == Max({0} \union {x[1] : x \in got[c]})
           page == PageAfter(cursor, PageSize)
           all == got[c] \union {State(pr, t) : t \in page}
           more == \E t \in pr.threads : t > Max({cursor} \union page)
       IN IF GraphQL(o, TRUE) # "ok" THEN Answer(c, Failed)
          ELSE IF more /\ page # {} THEN Continue(c, "page", all)
          ELSE Answer(c, Done(List(all, job[c].open)))
  /\ Reads(c)

\* threads view reads each thread by a call of its own; one that fails fails all.
fetchThreadWithComments(c) ==
  /\ Asks(c, {"view"}, "view")
  /\ \E o \in Outcomes \ {"lost"}, t \in 1..job[c].on :
       LET all == got[c] \union {State(pr, t)} IN
       /\ t = Cardinality(got[c]) + 1
       /\ IF GraphQL(o, TRUE) # "ok" \/ t \notin pr.threads THEN Answer(c, Failed)
          ELSE IF t < job[c].on THEN Continue(c, "view", all)
          ELSE Answer(c, Done(all))
  /\ Reads(c)

----------------------------------------------------------------------------
\* Draft state.  The commands ask where the pull request is now, and for its
\* node, as threads list does.

Repository(c) ==
  /\ Asks(c, Ops["draft"], "repository")
  /\ \E o \in Outcomes \ {"lost"} :
       IF REST(o) = "ok"
       THEN Continue(c, IF job[c].verb = "drafts" THEN "drafts" ELSE "pull", {})
       ELSE Answer(c, Failed)
  /\ Reads(c)

PullRequest(c) ==
  /\ Asks(c, Ops["draft"], "pull")
  /\ \E o \in Outcomes \ {"lost"} :
       IF REST(o) = "ok" THEN Continue(c, "status", {}) ELSE Answer(c, Failed)
  /\ Reads(c)

DraftState == {<<0, pr.draft>>}

statusOf(c) ==
  /\ Asks(c, {"status"}, "status")
  /\ \E o \in Outcomes \ {"lost"} :
       Answer(c, IF GraphQL(o, TRUE) = "ok" THEN Done(DraftState) ELSE Failed)
  /\ Reads(c)

\* Of the first pull requests of the repository, the drafts.
DraftList(c) ==
  /\ Asks(c, {"drafts"}, "drafts")
  /\ \E o \in Outcomes \ {"lost"} :
       Answer(c, IF GraphQL(o, TRUE) = "ok" THEN Done({x \in DraftState : x[2]}) ELSE Failed)
  /\ Reads(c)

\* A pull request that is in the state asked for is left alone.
changeDraftState(c) ==
  /\ Asks(c, {"draft", "ready"}, "status")
  /\ \E o \in Outcomes \ {"lost"} :
       IF GraphQL(o, TRUE) # "ok" THEN Answer(c, Failed)
       ELSE IF pr.draft = (job[c].verb = "draft") THEN Answer(c, Done(DraftState))
       ELSE Continue(c, "mutation", {})
  /\ Reads(c)

convertToDraft(c) ==
  /\ Asks(c, {"draft"}, "mutation")
  /\ \E o \in Outcomes :
       /\ Mutates(c, o, [pr EXCEPT !.draft = TRUE])
       /\ Answer(c, IF GraphQL(o, TRUE) = "ok" THEN Done({<<0, pr'.draft>>}) ELSE Failed)

markReadyForReview(c) ==
  /\ Asks(c, {"ready"}, "mutation")
  /\ \E o \in Outcomes :
       /\ Mutates(c, o, [pr EXCEPT !.draft = FALSE])
       /\ Answer(c, IF GraphQL(o, TRUE) = "ok" THEN Done({<<0, pr'.draft>>}) ELSE Failed)

----------------------------------------------------------------------------
\* The pending review.

\* review --start asks for the node and the head commit.
pullRequestIdentifiers(c) ==
  /\ Asks(c, {"start"}, "identifiers")
  /\ \E o \in Outcomes \ {"lost"} :
       IF GraphQL(o, TRUE) = "ok" THEN Continue(c, "mutation", {<<pr.head, TRUE>>})
       ELSE Answer(c, Failed)
  /\ Reads(c)

\* The commit is the one asked for, or else the head that was read.
Start(c) ==
  /\ Asks(c, {"start"}, "mutation")
  /\ \E o \in Outcomes :
       LET head == (CHOOSE x \in got[c] : TRUE)[1]
           commit == IF job[c].commit = CurrentHead THEN head ELSE job[c].commit
       IN /\ CarriedOut(o) => pr.review # "pending"
          /\ Mutates(c, o, [pr EXCEPT !.review = "pending", !.on = commit])
          /\ Answer(c, IF GraphQL(o, TRUE) = "ok" THEN Done({<<commit, TRUE>>}) ELSE Failed)

AddThread(c) ==
  /\ Asks(c, {"add"}, "mutation")
  /\ \E o \in Outcomes :
       LET t == pr.next IN
       /\ CarriedOut(o) => pr.review = "pending" /\ t <= MaxThreads
       /\ Mutates(c, o, [pr EXCEPT !.threads = @ \union {t}, !.mine = @ \union {t}, !.next = @ + 1])
       /\ Answer(c, IF GraphQL(o, TRUE) = "ok" THEN Done({State(pr', t)}) ELSE Failed)

UpdateComment(c) ==
  /\ Asks(c, {"edit"}, "mutation")
  /\ \E o \in Outcomes :
       /\ CarriedOut(o) => pr.mine # {}
       /\ Mutates(c, o, pr)
       /\ Answer(c, IF GraphQL(o, TRUE) = "ok" THEN Done({}) ELSE Failed)

\* A thread goes with its only comment.
DeleteComment(c) ==
  /\ Asks(c, {"delete"}, "mutation")
  /\ \E o \in Outcomes :
       LET t == Max({0} \union pr.mine) IN
       /\ CarriedOut(o) => pr.mine # {}
       /\ Mutates(c, o, [pr EXCEPT !.threads = @ \ {t}, !.mine = @ \ {t}, !.resolved = @ \ {t}])
       /\ Answer(c, IF GraphQL(o, TRUE) = "ok" THEN Done({}) ELSE Failed)

\* GitHub's own refusal is an answer, every other failure an error.
Submit(c) ==
  /\ Asks(c, {"submit"}, "mutation")
  /\ \E o \in Outcomes :
       /\ CarriedOut(o) => pr.review = "pending"
       /\ Mutates(c, o, [pr EXCEPT !.review = "submitted", !.mine = {}])
       /\ Answer(c, CASE GraphQL(o, TRUE) = "ok" -> Done({})
                      [] GraphQL(o, TRUE) = "graphql" -> Refused
                      [] OTHER -> Failed)

----------------------------------------------------------------------------
\* Replies, reactions and reports.

\* A reply is posted first; what the answer says of it is read afterwards.
Reply(c) ==
  /\ Asks(c, {"reply"}, "mutation")
  /\ \E o \in Outcomes :
       /\ CarriedOut(o) => job[c].on \in pr.threads
       /\ Mutates(c, o, pr)
       /\ IF GraphQL(o, TRUE) = "ok" THEN Continue(c, "comment", {}) ELSE Answer(c, Failed)

loadCommentDetails(c) ==
  /\ Asks(c, {"reply"}, "comment")
  /\ \E o \in Outcomes \ {"lost"} :
       IF GraphQL(o, TRUE) = "ok" THEN Continue(c, "replied", {}) ELSE Answer(c, Failed)
  /\ Reads(c)

loadThreadDetails(c) ==
  /\ Asks(c, {"reply"}, "replied")
  /\ \E o \in Outcomes \ {"lost"} :
       IF GraphQL(o, TRUE) = "ok" /\ job[c].on \in pr.threads
       THEN Answer(c, Done({State(pr, job[c].on)}))
       ELSE Answer(c, Failed)
  /\ Reads(c)

React(c) ==
  /\ Asks(c, {"react"}, "mutation")
  /\ \E o \in Outcomes :
       /\ Mutates(c, o, pr)
       /\ Answer(c, IF GraphQL(o, FALSE) = "ok" THEN Done({}) ELSE Failed)

\* The threads that a report attaches to the reviews it shows.  A review that
\* is pending has no number to attach them by.
BuildReport(threads, open) ==
  {State(pr, t) : t \in {u \in threads \ pr.mine : open => IsOpen(pr, u)}}

\* review view reads one page of everything.
Fetch(c) ==
  /\ Asks(c, {"report"}, "report")
  /\ \E o \in Outcomes \ {"lost"} :
       Answer(c, IF GraphQL(o, TRUE) = "ok"
                 THEN Done(BuildReport(PageAfter(0, ReportSize), job[c].open))
                 ELSE Failed)
  /\ Reads(c)

----------------------------------------------------------------------------
\* Everybody else.

Other(after) ==
  /\ others < MaxOthers /\ others' = others + 1
  /\ pr' = after
  /\ UNCHANGED <<settings, job, by, call, got, link, answer, effects>>

SomebodyResolves ==
  \E t \in pr.threads \ pr.mine :
    Other([pr EXCEPT !.resolved = IF t \in @ THEN @ \ {t} ELSE @ \union {t}])
SomebodyComments ==
  /\ pr.next <= MaxThreads
  /\ Other([pr EXCEPT !.threads = @ \union {pr.next}, !.next = @ + 1])
SomebodyDeletes ==
  \E t \in pr.threads \ pr.mine :
    Other([pr EXCEPT !.threads = @ \ {t}, !.resolved = @ \ {t}])
SomebodyPushes == pr.head < MaxHead /\ Other([pr EXCEPT !.head = @ + 1])
SomebodyDrafts == Other([pr EXCEPT !.draft = ~@])

----------------------------------------------------------------------------

Init ==
  /\ \E setting \in Settings : external = setting[1] /\ pinned = setting[2]
  /\ pr \in Initially /\ others = 0
  /\ job \in [Commands -> Jobs]
  /\ by = [c \in Commands |-> None]
  /\ call = [c \in Commands |-> "new"]
  /\ got = [c \in Commands |-> {}]
  /\ link = [c \in Commands |-> "here"]
  /\ answer = [c \in Commands |-> Silent]
  /\ effects = [c \in Commands |-> 0]
  /\ moments = [c \in Commands |-> {}]

\* One step of the work on a command.
Works(c) ==
  \/ fetchThread(c) \/ performResolve(c) \/ performUnresolve(c)
  \/ loadPullContext(c) \/ collectThreads(c) \/ fetchThreadWithComments(c)
  \/ Repository(c) \/ PullRequest(c) \/ statusOf(c) \/ DraftList(c)
  \/ changeDraftState(c) \/ convertToDraft(c) \/ markReadyForReview(c)
  \/ pullRequestIdentifiers(c) \/ Start(c) \/ AddThread(c)
  \/ UpdateComment(c) \/ DeleteComment(c) \/ Submit(c)
  \/ Reply(c) \/ loadCommentDetails(c) \/ loadThreadDetails(c)
  \/ React(c) \/ Fetch(c)

Step ==
  \/ \E c \in Commands : Begin(c) \/ Interrupt(c) \/ Works(c)
  \/ SomebodyResolves \/ SomebodyComments \/ SomebodyDeletes
  \/ SomebodyPushes \/ SomebodyDrafts

\* The states of the pull request that a command that runs has lived through.
Remember ==
  moments' = [c \in Commands |->
    CASE call'[c] = "new" -> {}
      [] call[c] = "ended" -> moments[c]
      [] OTHER -> moments[c] \union {pr, pr'}]

Next == Step /\ Remember

Spec == Init /\ [][Next]_vars

----------------------------------------------------------------------------

Verb(c) == job[c].verb

\* Whatever is lost on the way, a command changes GitHub at most once, and one
\* that GitHub refused has changed nothing (remote/mutate.go call, serveMutation).
AtMostOnce ==
  \A c \in Commands : effects[c] <= (IF answer[c].is = "refused" THEN 0 ELSE 1)

\* A command that reports success tells the truth: what it says it did has been
\* done once, and the state that it reports is one that the pull request was in
\* while the command ran, whatever others did meanwhile (the services over
\* ghcli.GraphQL; a reaction asks for no result, and is left out).
SuccessIsTrue ==
  \A c \in Commands :
    answer[c].is = "done" =>
      /\ Verb(c) \in Ops["review"] \union Ops["comments"] => effects[c] = 1
      /\ Verb(c) \in {"resolve", "unresolve"} =>
           \E m \in moments[c] : (job[c].on \in m.resolved) = (Verb(c) = "resolve")
      /\ Verb(c) \in {"draft", "ready"} =>
           \E m \in moments[c] : m.draft = (Verb(c) = "draft")
      /\ Verb(c) \in {"status", "drafts"} =>
           \A x \in answer[c].says : \E m \in moments[c] : m.draft = x[2]
      /\ Verb(c) = "start" /\ job[c].commit = CurrentHead =>
           \E m \in moments[c] : answer[c].says = {<<m.head, TRUE>>}

\* A list names what was there when it was read, and misses no thread that was
\* there and wanted from the first page to the last (threads.Service.List).
ListIsTrue ==
  \A c \in Commands :
    answer[c].is = "done" /\ Verb(c) \in {"list", "view", "report"} =>
    /\ \A x \in answer[c].says :
         \E m \in moments[c] : x[1] \in m.threads /\ x[2] = (x[1] \in m.resolved)
    /\ Verb(c) = "list" =>
         \A t \in 1..MaxThreads :
           (\A m \in moments[c] : t \in m.threads /\ (job[c].open => t \notin m.resolved))
             => \E x \in answer[c].says : x[1] = t

=============================================================================
