----------------------------- MODULE CIVerdict -----------------------------
(***************************************************************************)
(* The CI verdict of a head commit (internal/monitor/civerdict.go) and the *)
(* two annotation filters it applies (annotationchecks.go and              *)
(* annotationlevels.go), as operators.                                     *)
(*                                                                         *)
(* A view is one commit's payload:                                         *)
(*   [suites : Seq(suite), total : Nat, contexts : SUBSET context]         *)
(* where total is the number of suites GitHub says there are.  A suite is  *)
(*   [app, container, concl, status, runs : Seq(run), total]               *)
(* with container telling GitHub's own workflow app from the others, a run *)
(*   [name, status, concl, at, notes]                                      *)
(* with at the time it completed, 0 when that cannot be parsed, and notes  *)
(* its annotations, and a context is [context, state].  Names are opaque   *)
(* and already trimmed and lower-cased; NoName is the empty string.        *)
(***************************************************************************)
EXTENDS Naturals, Sequences, FiniteSets, Functions

CONSTANTS NoName,     \* the empty name
          None        \* the word "none" of the filters

----------------------------------------------------------------------------
\* GitHub's enums, as the verdict tables class them.

failureConclusions == {"FAILURE", "ERROR", "TIMED_OUT", "CANCELLED", "ACTION_REQUIRED"}
nonVerdictConclusions == {"SKIPPED", "CANCELLED", "STALE"}
successConclusions == {"SUCCESS", "NEUTRAL", "SKIPPED"}
pendingStatuses == {"IN_PROGRESS", "QUEUED", "WAITING", "REQUESTED", "PENDING", "STARTUP_FAILURE"}
failureCommitStates == {"FAILURE", "ERROR"}
pendingCommitStates == {"PENDING", "EXPECTED"}
successCommitStates == {"SUCCESS"}
failureVerdicts == failureConclusions \ {"CANCELLED"}

SuiteSet(view) == Range(view.suites)
RunsOf(suite) == Range(suite.runs)

\* A run of a view is named by its place, its suite's and its own.
RunAt(view, p) == view.suites[p[1]].runs[p[2]]
Precedes(p, q) == p[1] < q[1] \/ (p[1] = q[1] /\ p[2] <= q[2])

\* The newest verdict among a name's runs: the latest to complete of those that
\* are results, the first listed of two that completed at the same time.
Verdicts(view, places) ==
  {p \in places : /\ RunAt(view, p).status = "COMPLETED"
                  /\ RunAt(view, p).concl \notin nonVerdictConclusions}
Newest(view, places) ==
  CHOOSE p \in places : \A q \in places :
    \/ RunAt(view, q).at < RunAt(view, p).at
    \/ RunAt(view, q).at = RunAt(view, p).at /\ Precedes(p, q)
runVerdict(view, places) == RunAt(view, Newest(view, Verdicts(view, places)))
suiteCarriesRuns(suite) == suite.runs # <<>>
suiteHasRuns(suite) == suiteCarriesRuns(suite) \/ suite.total > 0

\* A suite's own conclusion is a result only when no run of it could be.
Stands(suite) == ~suiteCarriesRuns(suite) /\ ~suite.container

\* Every run of the view under a name; a nameless run goes by its suite.
NameOf(run, suite) == IF run.name = NoName THEN suite.app ELSE run.name
Places(view) == UNION {{<<i, j>> : j \in DOMAIN view.suites[i].runs} : i \in DOMAIN view.suites}
RunsNamed(view, name) ==
  {p \in Places(view) : NameOf(RunAt(view, p), view.suites[p[1]]) = name}
RunNames(view) ==
  (UNION {{NameOf(r, s) : r \in RunsOf(s)} : s \in SuiteSet(view)}) \ {NoName}

\* The rows of verdictPredicateTable: what a suite, a status context, a name's
\* verdict and a name without a verdict must be, for one side of the mirror.
failing == [suite |-> failureConclusions, state |-> failureCommitStates,
            verdict |-> failureVerdicts, fallback |-> failureConclusions]
success == [suite |-> successConclusions, state |-> successCommitStates,
            verdict |-> successConclusions, fallback |-> successConclusions]

classifiedChecks(view, side) ==
  ( {s.app : s \in {t \in SuiteSet(view) : t.concl \in side.suite /\ Stands(t)}}
    \cup {c.context : c \in {d \in view.contexts : d.state \in side.state}}
    \cup {n \in RunNames(view) :
            LET places == RunsNamed(view, n)
            IN  IF Verdicts(view, places) # {}
                THEN runVerdict(view, places).concl \in side.verdict
                ELSE \E p \in places : RunAt(view, p).concl \in side.fallback} ) \ {NoName}

failingChecks(view) == classifiedChecks(view, failing)
successfulChecks(view) == classifiedChecks(view, success)

pendingChecks(view) ==
  ( {s.app : s \in {t \in SuiteSet(view) : t.status \in pendingStatuses /\ suiteHasRuns(t)}}
    \cup {c.context : c \in {d \in view.contexts : d.state \in pendingCommitStates}} ) \ {NoName}

\* Mutant: a page of suites is taken for all of them.
MutantDropped(view) == view.suites = <<>> /\ view.total > 0

suitesDropped(view) == view.total > Len(view.suites)

\* Mutant: only whole suites cut off count as truncation.
MutantTruncated(view) == suitesDropped(view)

truncatedSuites(view) == suitesDropped(view) \/ \E s \in SuiteSet(view) : s.total > Len(s.runs)

allPresentCheckNames(view) ==
  ( {s.app : s \in SuiteSet(view)} \cup (UNION {{r.name : r \in RunsOf(s)} : s \in SuiteSet(view)})
    \cup {c.context : c \in view.contexts} ) \ {NoName}

\* Mutant: a check that is absent is not awaited once any check has reported.
MutantAwaiting(view, required) ==
  IF allPresentCheckNames(view) = {} THEN required ELSE {}

awaitingChecks(view, required) == required \ allPresentCheckNames(view)

----------------------------------------------------------------------------
\* The annotation filters.  A check filter lists the names it allows, or does
\* not (listed FALSE: every check), and denies others; the nil filter is
\* EveryCheck.  Names and ExcludedNames are what crosses to the daemon.

EveryCheck == [listed |-> FALSE, allowed |-> {}, excluded |-> {}]
NewAnnotationFilter(allow, exclude) ==
  [listed |-> allow # {}, allowed |-> IF None \in allow THEN {} ELSE allow, excluded |-> exclude]
ParseAnnotationChecks(names) == NewAnnotationFilter(names, {})
Allows(f, check) == check \notin f.excluded /\ (f.listed => check \in f.allowed)

Names(f) == IF f.listed /\ f.allowed = {} THEN {None} ELSE f.allowed
Unmatched(f, observed) == f.allowed \ observed

\* What the daemon filters with (snapshotOptionsFor) for the client's filter.
snapshotOptionsFor(f) ==
  IF Names(f) = {} /\ f.excluded = {}
  THEN EveryCheck
  ELSE NewAnnotationFilter(Names(ParseAnnotationChecks(Names(f))), f.excluded)

\* A level filter is the set of levels it allows; the nil one is the default.
defaultAnnotationLevels == {"warning", "failure"}
ParseAnnotationLevels(names) ==
  IF names = {} THEN defaultAnnotationLevels ELSE IF None \in names THEN {} ELSE names
LevelNames(levels) == IF levels = {} THEN {None} ELSE levels

----------------------------------------------------------------------------
\* The annotations of the checks that pass the filter, and whether there may be
\* more of them: a run at GitHub's cap of PageOfNotes, or one whose page is cut.
\* A run's notes are [level, text], its noteCount GitHub's count of them.
extractAnnotations(view, levels, checks, cap) ==
  LET runs == UNION {RunsOf(s) : s \in SuiteSet(view)}
      kept == {r \in runs : Allows(checks, r.name)}
  IN  [ annotations |-> UNION {{[check |-> r.name, text |-> n.text] :
                                  n \in {m \in r.notes : m.level \in levels}} : r \in kept},
        truncated |-> \E r \in kept : r.noteCount >= cap \/ r.noteCount > Cardinality(r.notes),
        observed |-> {r.name : r \in runs} \ {NoName} ]

\* The single entry point.  Only a complete payload may accuse the filter.
JudgeCI(view, levels, checks, required, cap) ==
  LET found == extractAnnotations(view, levels, checks, cap)
  IN  [ failing |-> failingChecks(view), pending |-> pendingChecks(view),
        successful |-> successfulChecks(view), awaiting |-> awaitingChecks(view, required),
        truncated |-> truncatedSuites(view),
        annotations |-> found.annotations, notesTruncated |-> found.truncated,
        unmatched |-> IF found.truncated \/ suitesDropped(view) THEN {}
                      ELSE Unmatched(checks, found.observed) ]
============================================================================
