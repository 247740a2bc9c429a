--------------------------- MODULE CIWatchProofs ---------------------------
(***************************************************************************)
(* What the readers of CIWatch say is true of GitHub, for every value of   *)
(* the constants.  The readers see pages; the proofs go from what a page   *)
(* says of itself to the whole head commit (Whole), and from there to the  *)
(* verdict, which looks for the newest result of each name.                *)
(***************************************************************************)
EXTENDS CIWatch, SequenceTheorems, FiniteSetTheorems, WellFoundedInduction, TLAPS

Concls == {""} \cup {o.concl : o \in Outcomes}
NoteSets == {{}} \cup {o.notes : o \in Outcomes}
Run == [ name : {Check}, status : {"QUEUED", "COMPLETED"}, concl : Concls, at : Nat,
         notes : NoteSets, noteCount : {Cardinality(n) : n \in NoteSets} ]
Suite == [ app : {App, Actions}, container : BOOLEAN, concl : Concls,
           status : {"QUEUED", "COMPLETED"}, runs : Seq(Run) ]
ContextType == [context : {Context}, state : ContextStates]
Checks == [suites : Seq(Suite), contexts : SUBSET ContextType]
Review == [state : ReviewStates \cup {"DISMISSED"}, author : {Viewer}]
Talk == [ posted : SUBSET CommentIds, replies : [ThreadIds -> Nat], resolved : SUBSET ThreadIds,
          acked : SUBSET (CommentIds \cup ThreadIds), reviews : Seq(Review) ]

TypeOK ==
  /\ head \in Checks /\ changes \in Nat /\ oid \in Nat \ {0}
  /\ talk \in Talk /\ withdrawn \subseteq CommentIds \cup ThreadIds
  /\ state \in {"OPEN"} \cup EndStates
  /\ readable \in BOOLEAN /\ target \in {"pr", "ref"}

\* What GitHub keeps true of a commit after n steps: only the container app's
\* suites have runs, a suite with a run in flight is in flight itself, and no two
\* runs complete at the same time.
Consistent(checks, n) ==
  \A i \in DOMAIN checks.suites :
    LET s == checks.suites[i]
    IN  /\ ~s.container => s.runs = <<>>
        /\ \A j \in DOMAIN s.runs :
             /\ s.runs[j].status # "COMPLETED" => s.status = "QUEUED"
             /\ s.runs[j].at <= n
Distinct(checks) ==
  \A i, k \in DOMAIN checks.suites :
    \A j \in DOMAIN checks.suites[i].runs, l \in DOMAIN checks.suites[k].runs :
      /\ checks.suites[i].runs[j].status = "COMPLETED"
      /\ checks.suites[k].runs[l].status = "COMPLETED"
      /\ checks.suites[i].runs[j].at = checks.suites[k].runs[l].at
      => i = k /\ j = l

\* What was said later follows what was said before: threads only grow, and a
\* thumbs-up that is gone was taken back or has been answered.
Follows(old, new, taken) ==
  /\ \A t \in ThreadIds : old.replies[t] <= new.replies[t]
  /\ \A x \in old.acked \ new.acked :
       x \in taken \/ (x \in ThreadIds /\ old.replies[x] < new.replies[x])

\* A view that cut nothing off.
Whole(view, checks) ==
  /\ DOMAIN view.suites = DOMAIN checks.suites /\ view.contexts = checks.contexts
  /\ \A i \in DOMAIN checks.suites :
       /\ view.suites[i].app = checks.suites[i].app
       /\ view.suites[i].container = checks.suites[i].container
       /\ view.suites[i].concl = checks.suites[i].concl
       /\ view.suites[i].status = checks.suites[i].status
       /\ view.suites[i].runs = checks.suites[i].runs

----------------------------------------------------------------------------
\* Pages.

\* A page of a sequence that fits is the sequence, and a page is never longer.
LEMMA LastOfFits ==
  ASSUME NEW T, NEW s \in Seq(T), NEW n \in Nat \ {0}
  PROVE  /\ LastOf(s, n) \in Seq(T)
         /\ Len(LastOf(s, n)) <= Len(s) /\ Len(LastOf(s, n)) <= n
         /\ Len(s) <= Len(LastOf(s, n)) => LastOf(s, n) = s
         /\ Len(s) <= n => LastOf(s, n) = s
<1> DEFINE from == IF Len(s) > n THEN Len(s) - n + 1 ELSE 1
<1>1. Len(s) \in Nat /\ from \in 1 .. Len(s) + 1 /\ (Len(s) <= n => from = 1)
      /\ Len(s) - from + 1 <= n
  BY LenProperties
<1>2. LastOf(s, n) = SubSeq(s, from, Len(s))
  BY DEF LastOf
<1> HIDE DEF from
<1>3. SubSeq(s, from, Len(s)) \in Seq(T) /\ Len(SubSeq(s, from, Len(s))) = Len(s) - from + 1
  <2>1. from \in 1 .. Len(s) + 1 /\ Len(s) \in from - 1 .. Len(s)
    BY <1>1
  <2>2. QED BY <2>1, <1>1, SubSeqProperties
<1>4. from = 1 => SubSeq(s, from, Len(s)) = s
  BY SubSeqFull
<1>5. Len(s) <= Len(s) - from + 1 => from = 1
  BY <1>1
<1>6. Len(LastOf(s, n)) = Len(s) - from + 1 /\ LastOf(s, n) \in Seq(T)
  BY <1>2, <1>3
<1>7. Len(s) - from + 1 <= Len(s)
  BY <1>1
<1>8. QED BY <1>1, <1>2, <1>4, <1>5, <1>6, <1>7

\* What a page says of its commit: how many suites there are, and each suite it
\* holds as it is but for its runs.
LEMMA PageOf ==
  ASSUME NEW checks \in Checks, NEW n \in Nat \ {0}, NEW counted \in BOOLEAN,
         CIAssumption
  PROVE  /\ Page(checks, n, counted).total = Len(checks.suites)
         /\ Page(checks, n, counted).contexts = checks.contexts
         /\ DOMAIN Page(checks, n, counted).suites = DOMAIN LastOf(checks.suites, SuitePage)
         /\ Len(Page(checks, n, counted).suites) = Len(LastOf(checks.suites, SuitePage))
         /\ \A i \in DOMAIN LastOf(checks.suites, SuitePage) :
              Page(checks, n, counted).suites[i] =
                LET s == LastOf(checks.suites, SuitePage)[i]
                IN  [ app |-> s.app, container |-> s.container, concl |-> s.concl,
                      status |-> s.status, runs |-> LastOf(s.runs, n),
                      total |-> IF counted THEN Len(s.runs) ELSE 0 ]
<1> DEFINE l == LastOf(checks.suites, SuitePage)
           p == Page(checks, n, counted)
           e(i) == [ app |-> l[i].app, container |-> l[i].container, concl |-> l[i].concl,
                     status |-> l[i].status, runs |-> LastOf(l[i].runs, n),
                     total |-> IF counted THEN Len(l[i].runs) ELSE 0 ]
<1>1. l \in Seq(Suite)
  BY LastOfFits DEF Checks, CIAssumption
<1>2. DOMAIN l = 1 .. Len(l) /\ Len(l) \in Nat
  BY <1>1, LenProperties
<1>3. p = [ suites |-> [i \in DOMAIN l |-> e(i)], total |-> Len(checks.suites),
            contexts |-> checks.contexts ]
  BY DEF Page
<1>4. DOMAIN p.suites = DOMAIN l /\ \A i \in DOMAIN l : p.suites[i] = e(i)
  <2> HIDE DEF l, e
  <2> QED BY <1>3
<1>5. Len(p.suites) = Len(l)
  <2> HIDE DEF l, e, p
  <2> QED BY <1>2, <1>3
<1>6. QED BY <1>3, <1>4, <1>5

\* A page that dropped no suite and no run of a suite is whole.
LEMMA WholePage ==
  ASSUME NEW checks \in Checks, NEW n \in Nat \ {0}, NEW counted \in BOOLEAN,
         CIAssumption,
         Len(checks.suites) <= SuitePage \/ ~suitesDropped(Page(checks, n, counted)),
         \A i \in DOMAIN checks.suites : Len(checks.suites[i].runs) <= n
  PROVE  Whole(Page(checks, n, counted), checks)
<1> DEFINE l == LastOf(checks.suites, SuitePage)
           p == Page(checks, n, counted)
<1>1. l = checks.suites
  <2>1. checks.suites \in Seq(Suite) /\ SuitePage \in Nat \ {0}
    BY DEF Checks, CIAssumption
  <2>2. CASE Len(checks.suites) <= SuitePage
    BY <2>1, <2>2, LastOfFits
  <2>3. CASE ~suitesDropped(p)
    <3>1. Len(checks.suites) <= Len(l)
      <4>1. p.total = Len(checks.suites) /\ Len(p.suites) = Len(l)
        BY PageOf
      <4>2. ~(Len(checks.suites) > Len(l))
        BY <4>1, <2>3 DEF suitesDropped
      <4>3. Len(checks.suites) \in Nat /\ Len(l) \in Nat
        BY <2>1, LastOfFits, LenProperties
      <4> HIDE DEF l
      <4> QED BY <4>2, <4>3
    <3>2. QED BY <2>1, <3>1, LastOfFits
  <2>4. QED BY <2>2, <2>3
<1>2. DOMAIN p.suites = DOMAIN checks.suites /\ p.contexts = checks.contexts
  BY <1>1, PageOf
<1>3. ASSUME NEW i \in DOMAIN checks.suites
      PROVE  /\ p.suites[i].app = checks.suites[i].app
             /\ p.suites[i].container = checks.suites[i].container
             /\ p.suites[i].concl = checks.suites[i].concl
             /\ p.suites[i].status = checks.suites[i].status
             /\ p.suites[i].runs = checks.suites[i].runs
  <2>1. p.suites[i] =
           LET s == checks.suites[i]
           IN  [ app |-> s.app, container |-> s.container, concl |-> s.concl,
                 status |-> s.status, runs |-> LastOf(s.runs, n),
                 total |-> IF counted THEN Len(s.runs) ELSE 0 ]
    <3>0. \A k \in DOMAIN l : p.suites[k] =
             LET s == l[k]
             IN  [ app |-> s.app, container |-> s.container, concl |-> s.concl,
                   status |-> s.status, runs |-> LastOf(s.runs, n),
                   total |-> IF counted THEN Len(s.runs) ELSE 0 ]
      BY PageOf, Zenon
    <3> HIDE DEF l, p
    <3>1. i \in DOMAIN l /\ l[i] = checks.suites[i]
      BY <1>1
    <3>2. p.suites[i] =
             LET s == l[i]
             IN  [ app |-> s.app, container |-> s.container, concl |-> s.concl,
                   status |-> s.status, runs |-> LastOf(s.runs, n),
                   total |-> IF counted THEN Len(s.runs) ELSE 0 ]
      BY <3>0, <3>1
    <3>3. QED BY <3>1, <3>2
  <2>2. checks.suites[i].runs \in Seq(Run)
    <3>1. checks.suites \in Seq(Suite)
      BY DEF Checks
    <3>2. i \in 1 .. Len(checks.suites)
      BY <3>1, LenProperties
    <3>3. checks.suites[i] \in Suite
      BY <3>1, <3>2, ElementOfSeq
    <3>4. QED BY <3>3 DEF Suite
  <2>3. LastOf(checks.suites[i].runs, n) = checks.suites[i].runs
    BY <2>2, LastOfFits
  <2> HIDE DEF p
  <2> QED BY <2>1, <2>3
<1>4. QED BY <1>2, <1>3 DEF Whole

----------------------------------------------------------------------------
\* The verdict of a whole view.

\* The runs of a commit are those at its places, all of them the check's.
LEMMA RunsOfChecks ==
  ASSUME NEW checks \in Checks
  PROVE  /\ \A i \in DOMAIN checks.suites :
              /\ checks.suites[i] \in Suite
              /\ \A j \in DOMAIN checks.suites[i].runs : checks.suites[i].runs[j] \in Run
         /\ \A r : r \in AllRuns(checks) <=>
              \E i \in DOMAIN checks.suites : \E j \in DOMAIN checks.suites[i].runs :
                r = checks.suites[i].runs[j]
         /\ \A s : s \in SuiteSet(checks) <=>
              \E i \in DOMAIN checks.suites : s = checks.suites[i]
<1>1. checks.suites \in Seq(Suite)
  BY DEF Checks
<1>2. ASSUME NEW i \in DOMAIN checks.suites
      PROVE  /\ checks.suites[i] \in Suite
             /\ \A j \in DOMAIN checks.suites[i].runs : checks.suites[i].runs[j] \in Run
  <2>1. checks.suites[i] \in Suite
    BY <1>1, LenProperties, ElementOfSeq
  <2>2. checks.suites[i].runs \in Seq(Run)
    BY <2>1 DEF Suite
  <2>3. QED BY <2>1, <2>2, LenProperties, ElementOfSeq
<1>3. \A r : r \in AllRuns(checks) <=>
        \E i \in DOMAIN checks.suites : \E j \in DOMAIN checks.suites[i].runs :
          r = checks.suites[i].runs[j]
  BY DEF AllRuns, RunsOf, SuiteSet, Range
<1>4. \A s : s \in SuiteSet(checks) <=> \E i \in DOMAIN checks.suites : s = checks.suites[i]
  BY DEF SuiteSet, Range
<1>5. QED BY <1>2, <1>3, <1>4

\* The places of a whole view are the commit's, all of them under the check's name.
LEMMA PlacesOfView ==
  ASSUME NEW checks \in Checks, NEW view, Whole(view, checks), CIAssumption
  PROVE  /\ \A p : p \in RunsNamed(view, Check) <=>
              \E i \in DOMAIN checks.suites : \E j \in DOMAIN checks.suites[i].runs : p = <<i, j>>
         /\ \A i \in DOMAIN checks.suites : \A j \in DOMAIN checks.suites[i].runs :
              RunAt(view, <<i, j>>) = checks.suites[i].runs[j]
         /\ RunNames(view) = {Check} \/ RunNames(view) = {}
         /\ AllRuns(checks) # {} => Check \in RunNames(view)
<1>1. \A i \in DOMAIN checks.suites : \A j \in DOMAIN checks.suites[i].runs :
        RunAt(view, <<i, j>>) = checks.suites[i].runs[j]
  BY DEF RunAt, Whole
<1>2. \A p : p \in Places(view) <=>
        \E i \in DOMAIN checks.suites : \E j \in DOMAIN checks.suites[i].runs : p = <<i, j>>
  BY DEF Places, Whole
<1>3. \A i \in DOMAIN checks.suites : \A j \in DOMAIN checks.suites[i].runs :
        checks.suites[i].runs[j].name = Check
  BY RunsOfChecks DEF Run
<1>4. Check # NoName
  BY DEF CIAssumption
<1>5. \A p \in Places(view) : NameOf(RunAt(view, p), view.suites[p[1]]) = Check
  BY <1>1, <1>2, <1>3, <1>4 DEF NameOf
<1>6. \A p : p \in RunsNamed(view, Check) <=>
        \E i \in DOMAIN checks.suites : \E j \in DOMAIN checks.suites[i].runs : p = <<i, j>>
  BY <1>2, <1>5 DEF RunsNamed
<1>7. \A s \in SuiteSet(view) : \A r \in RunsOf(s) : NameOf(r, s) = Check
  <2>1. \A i \in DOMAIN view.suites : \A j \in DOMAIN view.suites[i].runs :
          view.suites[i].runs[j].name = Check
    BY <1>3 DEF Whole
  <2>2. QED BY <2>1, <1>4 DEF SuiteSet, RunsOf, Range, NameOf
<1>8. \A n \in RunNames(view) : n = Check
  BY <1>7 DEF RunNames
<1>9. AllRuns(checks) # {} => Check \in RunNames(view)
  <2> SUFFICES ASSUME AllRuns(checks) # {} PROVE Check \in RunNames(view)
    OBVIOUS
  <2>1. PICK i \in DOMAIN checks.suites : \E j \in DOMAIN checks.suites[i].runs : TRUE
    BY RunsOfChecks
  <2>2. PICK j \in DOMAIN checks.suites[i].runs : TRUE
    BY <2>1
  <2>3. view.suites[i] \in SuiteSet(view) /\ view.suites[i].runs[j] \in RunsOf(view.suites[i])
    BY <2>1, <2>2 DEF Whole, SuiteSet, RunsOf, Range
  <2>4. NameOf(view.suites[i].runs[j], view.suites[i]) = Check
    BY <2>3, <1>7
  <2>5. Check \in {NameOf(r, view.suites[i]) : r \in RunsOf(view.suites[i])}
    BY <2>3, <2>4
  <2>6. QED BY <2>3, <2>5, <1>4 DEF RunNames
<1>10. QED BY <1>1, <1>6, <1>8, <1>9

\* A name's results, by place: each is one of the commit's, and a time names one.
LEMMA VerdictPlaces ==
  ASSUME NEW checks \in Checks, NEW view, Whole(view, checks), Distinct(checks), CIAssumption,
         NEW p \in Verdicts(view, RunsNamed(view, Check))
  PROVE  /\ RunAt(view, p) \in Run /\ RunAt(view, p) \in Results(checks)
         /\ Precedes(p, p)
         /\ \E i \in DOMAIN checks.suites : \E j \in DOMAIN checks.suites[i].runs :
              p = <<i, j>> /\ RunAt(view, p) = checks.suites[i].runs[j]
         /\ \A q \in Verdicts(view, RunsNamed(view, Check)) :
              RunAt(view, q).at = RunAt(view, p).at => q = p
<1>1. ASSUME NEW q \in Verdicts(view, RunsNamed(view, Check))
      PROVE  \E i \in DOMAIN checks.suites : \E j \in DOMAIN checks.suites[i].runs :
               /\ q = <<i, j>> /\ RunAt(view, q) = checks.suites[i].runs[j]
               /\ RunAt(view, q) \in Run /\ RunAt(view, q) \in Results(checks)
  <2>1. PICK i \in DOMAIN checks.suites : \E j \in DOMAIN checks.suites[i].runs : q = <<i, j>>
    BY PlacesOfView DEF Verdicts
  <2>2. PICK j \in DOMAIN checks.suites[i].runs : q = <<i, j>>
    BY <2>1
  <2>3. RunAt(view, q) = checks.suites[i].runs[j]
    BY <2>2, PlacesOfView
  <2>4. RunAt(view, q) \in Run /\ RunAt(view, q) \in Results(checks)
    BY <2>3, RunsOfChecks DEF Results, Verdicts
  <2>5. QED BY <2>2, <2>3, <2>4
<1>2. PICK i \in DOMAIN checks.suites : \E j \in DOMAIN checks.suites[i].runs :
             /\ p = <<i, j>> /\ RunAt(view, p) = checks.suites[i].runs[j]
             /\ RunAt(view, p) \in Run /\ RunAt(view, p) \in Results(checks)
  BY <1>1
<1>3. PICK j \in DOMAIN checks.suites[i].runs :
             /\ p = <<i, j>> /\ RunAt(view, p) = checks.suites[i].runs[j]
             /\ RunAt(view, p) \in Run /\ RunAt(view, p) \in Results(checks)
  BY <1>2
<1>4. Precedes(p, p)
  <2>1. checks.suites \in Seq(Suite) /\ checks.suites[i].runs \in Seq(Run)
    BY RunsOfChecks DEF Checks, Suite
  <2>2. i \in 1 .. Len(checks.suites) /\ j \in 1 .. Len(checks.suites[i].runs)
    BY <2>1, LenProperties
  <2>3. p[1] = i /\ p[2] = j /\ i \in Int /\ j \in Int
    BY <1>3, <2>2
  <2>4. QED BY <2>3 DEF Precedes
<1>5. ASSUME NEW q \in Verdicts(view, RunsNamed(view, Check)), RunAt(view, q).at = RunAt(view, p).at
      PROVE  q = p
  <2>1. PICK k \in DOMAIN checks.suites : \E l \in DOMAIN checks.suites[k].runs :
               /\ q = <<k, l>> /\ RunAt(view, q) = checks.suites[k].runs[l]
               /\ RunAt(view, q) \in Results(checks)
    BY <1>1
  <2>2. PICK l \in DOMAIN checks.suites[k].runs :
               /\ q = <<k, l>> /\ RunAt(view, q) = checks.suites[k].runs[l]
               /\ RunAt(view, q) \in Results(checks)
    BY <2>1
  <2>3. checks.suites[i].runs[j].status = "COMPLETED" /\ checks.suites[k].runs[l].status = "COMPLETED"
    BY <1>3, <2>2 DEF Results
  <2>4. i = k /\ j = l
    BY <1>3, <1>5, <2>2, <2>3 DEF Distinct
  <2>5. QED BY <1>3, <2>2, <2>4
<1>6. QED BY <1>3, <1>4, <1>5

\* The newest of a name's results is the one that no other completed after,
\* whatever order the suites are listed in.
LEMMA NewestIsLast ==
  ASSUME NEW checks \in Checks, NEW view, Whole(view, checks), Distinct(checks), CIAssumption,
         NEW p \in Verdicts(view, RunsNamed(view, Check)),
         \A q \in Verdicts(view, RunsNamed(view, Check)) : RunAt(view, q).at <= RunAt(view, p).at
  PROVE  Newest(view, Verdicts(view, RunsNamed(view, Check))) = p
<1> DEFINE V == Verdicts(view, RunsNamed(view, Check))
           Later(c) == \A q \in V : \/ RunAt(view, q).at < RunAt(view, c).at
                                    \/ RunAt(view, q).at = RunAt(view, c).at /\ Precedes(c, q)
<1>1. \A q \in V : RunAt(view, q).at \in Nat
  BY VerdictPlaces DEF Run
<1>2. \A q \in V : RunAt(view, q).at = RunAt(view, p).at => q = p
  BY VerdictPlaces
<1>3. Later(p)
  <2> SUFFICES ASSUME NEW q \in V
               PROVE  \/ RunAt(view, q).at < RunAt(view, p).at
                      \/ RunAt(view, q).at = RunAt(view, p).at /\ Precedes(p, q)
    OBVIOUS
  <2>1. CASE q = p
    BY <2>1, VerdictPlaces
  <2>2. CASE q # p
    <3> DEFINE x == RunAt(view, q).at
               y == RunAt(view, p).at
    <3>1. x \in Nat /\ y \in Nat /\ x <= y /\ x # y
      BY <1>1, <1>2, <2>2
    <3>2. x < y
      <4> HIDE DEF x, y
      <4> QED BY <3>1
    <3>3. QED BY <3>2
  <2>3. QED BY <2>1, <2>2
<1>4. ASSUME NEW c \in V, Later(c)
      PROVE  c = p
  <2> DEFINE x == RunAt(view, c).at
             y == RunAt(view, p).at
  <2>1. x \in Nat /\ y \in Nat /\ x <= y /\ (y < x \/ y = x)
    BY <1>1, <1>4
  <2>2. x = y
    <3> HIDE DEF x, y
    <3> QED BY <2>1
  <2>3. QED BY <1>2, <2>2
<1>5. Newest(view, V) = CHOOSE c \in V : Later(c)
  BY DEF Newest
<1>6. QED
  <2> HIDE DEF V, Later
  <2>1. p \in V
    BY DEF V
  <2>2. Newest(view, V) = p
    BY <1>3, <1>4, <1>5, <2>1
  <2>3. QED BY <2>2 DEF V

\* Some result completed last, so the newest of a name's results is one of them.
LEMMA NewestIsResult ==
  ASSUME NEW checks \in Checks, NEW view, NEW n \in Nat,
         Whole(view, checks), Distinct(checks), Consistent(checks, n), CIAssumption,
         Verdicts(view, RunsNamed(view, Check)) # {}
  PROVE  runVerdict(view, RunsNamed(view, Check)) \in Results(checks)
<1> DEFINE V == Verdicts(view, RunsNamed(view, Check))
           T == {n - RunAt(view, q).at : q \in V}
<1>1. \A q \in V : RunAt(view, q).at \in Nat /\ RunAt(view, q).at <= n
  <2> SUFFICES ASSUME NEW q \in V PROVE RunAt(view, q).at \in Nat /\ RunAt(view, q).at <= n
    OBVIOUS
  <2>1. \E i \in DOMAIN checks.suites : \E j \in DOMAIN checks.suites[i].runs :
          RunAt(view, q) = checks.suites[i].runs[j]
    BY VerdictPlaces
  <2>2. RunAt(view, q).at <= n
    BY <2>1 DEF Consistent
  <2>3. QED BY <2>2, VerdictPlaces DEF Run
<1>2. T \subseteq Nat /\ T # {}
  <2>1. \A q \in V : n - RunAt(view, q).at \in Nat
    BY <1>1
  <2>2. QED BY <2>1
<1>3. PICK x \in T : \A y \in T : <<y, x>> \notin OpToRel(<, Nat)
  <2> HIDE DEF T
  <2> QED BY <1>2, NatLessThanWellFounded, WFMin
<1>4. \A y \in T : x <= y
  <2> HIDE DEF T
  <2>1. x \in Nat /\ \A y \in T : y \in Nat /\ ~(y < x)
    BY <1>2, <1>3 DEF OpToRel
  <2>2. QED BY <2>1
<1>5. PICK p \in V : x = n - RunAt(view, p).at
  BY <1>3
<1>6. \A q \in V : RunAt(view, q).at <= RunAt(view, p).at
  <2> SUFFICES ASSUME NEW q \in V PROVE RunAt(view, q).at <= RunAt(view, p).at
    OBVIOUS
  <2>1. x <= n - RunAt(view, q).at
    BY <1>4
  <2>2. QED BY <1>1, <1>5, <2>1
<1>7. Newest(view, V) = p
  BY <1>6, NewestIsLast
<1>8. QED BY <1>7, VerdictPlaces DEF runVerdict

\* A view that holds the whole of a commit and finds nothing failing shows that
\* no check is red.
LEMMA RedIsFailing ==
  ASSUME NEW checks \in Checks, NEW view, NEW n \in Nat,
         Whole(view, checks), Distinct(checks), Consistent(checks, n), CIAssumption,
         failingChecks(view) = {}
  PROVE  ~Red(checks)
<1> DEFINE places == RunsNamed(view, Check)
<1>1. /\ \A s \in SuiteSet(view) : s.concl \in failureConclusions /\ Stands(s) => s.app = NoName
      /\ \A c \in view.contexts : c.state \in failureCommitStates => c.context = NoName
      /\ Check \in RunNames(view) => ~(/\ Verdicts(view, places) # {}
                                       /\ runVerdict(view, places).concl \in failureVerdicts)
  BY DEF failingChecks, classifiedChecks, failing, CIAssumption
<1>2. ASSUME NEW r \in Results(checks), r.concl \in failureConclusions,
             \A q \in Results(checks) : q.name = r.name => q.at <= r.at
      PROVE  FALSE
  <2>1. PICK i \in DOMAIN checks.suites : \E j \in DOMAIN checks.suites[i].runs :
               r = checks.suites[i].runs[j]
    BY RunsOfChecks DEF Results
  <2>2. PICK j \in DOMAIN checks.suites[i].runs : r = checks.suites[i].runs[j]
    BY <2>1
  <2>3. RunAt(view, <<i, j>>) = r /\ <<i, j>> \in places /\ r \in Run
    BY <2>2, PlacesOfView, RunsOfChecks
  <2>4. <<i, j>> \in Verdicts(view, places)
    BY <2>3 DEF Verdicts, Results
  <2>5. \A q \in Verdicts(view, places) : RunAt(view, q).at <= RunAt(view, <<i, j>>).at
    BY <1>2, <2>3, VerdictPlaces DEF Run
  <2>6. runVerdict(view, places) = r
    BY <2>3, <2>4, <2>5, NewestIsLast DEF runVerdict
  <2>7. r.concl \in failureVerdicts
    BY <1>2 DEF Results, failureVerdicts, nonVerdictConclusions
  <2>8. Check \in RunNames(view)
    BY PlacesOfView DEF Results
  <2>9. QED BY <1>1, <2>4, <2>6, <2>7, <2>8
<1>3. ASSUME NEW s \in SuiteSet(checks), ~s.container, s.concl \in failureConclusions
      PROVE  FALSE
  <2>1. PICK i \in DOMAIN checks.suites : s = checks.suites[i]
    BY RunsOfChecks
  <2>2. view.suites[i] \in SuiteSet(view) /\ view.suites[i].app = s.app
        /\ view.suites[i].concl = s.concl
    BY <2>1 DEF Whole, SuiteSet, Range
  <2>3. Stands(view.suites[i])
    BY <1>3, <2>1 DEF Whole, Consistent, Stands, suiteCarriesRuns
  <2>4. s.app # NoName
    BY <2>1, RunsOfChecks DEF Suite, CIAssumption
  <2>5. QED BY <1>1, <1>3, <2>2, <2>3, <2>4
<1>4. ASSUME NEW c \in checks.contexts, c.state \in failureCommitStates
      PROVE  FALSE
  <2>1. c \in view.contexts /\ c.context = Context
    BY DEF Whole, Checks, ContextType
  <2>2. QED BY <1>1, <1>4, <2>1 DEF CIAssumption
<1>5. QED BY <1>2, <1>3, <1>4 DEF Red

\* One that finds nothing pending shows that nothing is in flight.
LEMMA UnfinishedIsPending ==
  ASSUME NEW checks \in Checks, NEW view, NEW n \in Nat,
         Whole(view, checks), Consistent(checks, n), CIAssumption,
         pendingChecks(view) = {}
  PROVE  ~Unfinished(checks)
<1>1. /\ \A s \in SuiteSet(view) : s.status \in pendingStatuses /\ suiteHasRuns(s) => s.app = NoName
      /\ \A c \in view.contexts : c.state \in pendingCommitStates => c.context = NoName
  BY DEF pendingChecks
<1>2. ASSUME NEW r \in AllRuns(checks), r.status # "COMPLETED"
      PROVE  FALSE
  <2>1. PICK i \in DOMAIN checks.suites : \E j \in DOMAIN checks.suites[i].runs :
               r = checks.suites[i].runs[j]
    BY RunsOfChecks
  <2>2. checks.suites[i].status = "QUEUED"
    BY <1>2, <2>1 DEF Consistent
  <2>3. view.suites[i] \in SuiteSet(view) /\ view.suites[i].app = checks.suites[i].app
        /\ view.suites[i].status = "QUEUED" /\ view.suites[i].runs = checks.suites[i].runs
    BY <2>2 DEF Whole, SuiteSet, Range
  <2>4. checks.suites[i].runs # <<>>
    BY <2>1
  <2>5. suiteHasRuns(view.suites[i]) /\ "QUEUED" \in pendingStatuses
    BY <2>3, <2>4 DEF suiteHasRuns, suiteCarriesRuns, pendingStatuses
  <2>6. checks.suites[i].app # NoName
    BY RunsOfChecks DEF Suite, CIAssumption
  <2>7. QED BY <1>1, <2>3, <2>5, <2>6
<1>3. ASSUME NEW c \in checks.contexts, c.state = "PENDING"
      PROVE  FALSE
  <2>1. c \in view.contexts /\ c.context = Context
    BY DEF Whole, Checks, ContextType
  <2>2. QED BY <1>1, <1>3, <2>1 DEF CIAssumption, pendingCommitStates
<1>4. QED BY <1>2, <1>3 DEF Unfinished

\* One that awaits no required check shows that each has reported.
LEMMA AwaitedReports ==
  ASSUME NEW checks \in Checks, NEW view, NEW required,
         Whole(view, checks), awaitingChecks(view, required) = {}
  PROVE  required \subseteq Reported(checks)
<1>1. required \subseteq allPresentCheckNames(view)
  BY DEF awaitingChecks
<1>2. \A s \in SuiteSet(view) : \E t \in SuiteSet(checks) : s.app = t.app /\ s.runs = t.runs
  BY DEF SuiteSet, Range, Whole
<1>3. \A s \in SuiteSet(checks) : RunsOf(s) \subseteq AllRuns(checks)
  BY DEF AllRuns
<1>4. ASSUME NEW name \in allPresentCheckNames(view)
      PROVE  name \in Reported(checks)
  <2>1. CASE \E s \in SuiteSet(view) : name = s.app
    BY <1>2, <2>1 DEF Reported
  <2>2. CASE \E s \in SuiteSet(view) : \E r \in RunsOf(s) : name = r.name
    <3>1. \E t \in SuiteSet(checks) : \E r \in RunsOf(t) : name = r.name
      BY <1>2, <2>2 DEF RunsOf
    <3>2. QED BY <1>3, <3>1 DEF Reported
  <2>3. CASE \E c \in view.contexts : name = c.context
    BY <2>3 DEF Whole, Reported
  <2>4. QED BY <2>1, <2>2, <2>3 DEF allPresentCheckNames
<1>5. QED BY <1>1, <1>4

\* And one that finds a success shows that something has passed.
LEMMA SuccessIsPassed ==
  ASSUME NEW checks \in Checks, NEW view, NEW n \in Nat,
         Whole(view, checks), Distinct(checks), Consistent(checks, n), CIAssumption,
         successfulChecks(view) # {}
  PROVE  Passed(checks)
<1> DEFINE places == RunsNamed(view, Check)
<1>1. \/ \E s \in SuiteSet(view) : s.concl \in successConclusions
      \/ \E c \in view.contexts : c.state = "SUCCESS"
      \/ \E m \in RunNames(view) :
           IF Verdicts(view, RunsNamed(view, m)) # {}
           THEN runVerdict(view, RunsNamed(view, m)).concl \in successConclusions
           ELSE \E p \in RunsNamed(view, m) : RunAt(view, p).concl \in successConclusions
  BY DEF successfulChecks, classifiedChecks, success, successCommitStates
<1>2. CASE \E s \in SuiteSet(view) : s.concl \in successConclusions
  <2>1. \E s \in SuiteSet(checks) : s.concl \in successConclusions
    BY <1>2 DEF SuiteSet, Range, Whole
  <2>2. QED BY <2>1 DEF Passed
<1>3. CASE \E c \in view.contexts : c.state = "SUCCESS"
  BY <1>3 DEF Whole, Passed
<1>4. CASE /\ Verdicts(view, places) # {}
           /\ runVerdict(view, places).concl \in successConclusions
  BY <1>4, NewestIsResult DEF Results, Passed
<1>5. CASE \E p \in places : RunAt(view, p).concl \in successConclusions
  <2>1. \E r \in AllRuns(checks) : r.concl \in successConclusions
    BY <1>5, PlacesOfView, RunsOfChecks
  <2>2. QED BY <2>1 DEF Passed
<1>6. QED BY <1>1, <1>2, <1>3, <1>4, <1>5, PlacesOfView

----------------------------------------------------------------------------
\* GitHub's steps.

\* One commit's checks are an older state of another's: the same suites, and the
\* runs as they were, but for those that have completed since.
Older(old, new) ==
  /\ DOMAIN old.suites \subseteq DOMAIN new.suites
  /\ \A i \in DOMAIN old.suites :
       /\ old.suites[i].container = new.suites[i].container
       /\ DOMAIN old.suites[i].runs \subseteq DOMAIN new.suites[i].runs
       /\ \A j \in DOMAIN old.suites[i].runs :
            \/ old.suites[i].runs[j] = new.suites[i].runs[j]
            \/ /\ old.suites[i].runs[j].status = "QUEUED"
               /\ new.suites[i].runs[j].status = "COMPLETED"

\* What a step of GitHub keeps, from the checks at n steps to those at n + 1.
Keeps(checks, new, n) ==
  /\ new \in Checks /\ Consistent(new, n + 1) /\ Distinct(new)
  /\ \A old : Older(old, checks) => Older(old, new)

\* A sequence whose places keep the type is one of the type.
LEMMA SeqOfPlaces ==
  ASSUME NEW T, NEW s \in Seq(T), NEW t, DOMAIN t = DOMAIN s, t = [k \in DOMAIN s |-> t[k]],
         \A k \in DOMAIN s : t[k] \in T
  PROVE  t \in Seq(T)
<1>1. DOMAIN s = 1 .. Len(s) /\ Len(s) \in Nat
  BY LenProperties
<1>2. t \in [1 .. Len(s) -> T]
  BY <1>1
<1>3. QED BY <1>1, <1>2, SeqDef

\* A suite is replaced, the others stay.
LEMMA OneSuite ==
  ASSUME NEW checks \in Checks, NEW i \in DOMAIN checks.suites, NEW t \in Suite, NEW new,
         new = [checks EXCEPT !.suites = [checks.suites EXCEPT ![i] = t]]
  PROVE  /\ new \in Checks
         /\ DOMAIN new.suites = DOMAIN checks.suites
         /\ new.suites[i] = t
         /\ \A k \in DOMAIN checks.suites : k # i => new.suites[k] = checks.suites[k]
         /\ new.contexts = checks.contexts
<1> DEFINE ss == [checks.suites EXCEPT ![i] = t]
<1>1. new.suites = ss /\ new.contexts = checks.contexts
      /\ new = [suites |-> ss, contexts |-> checks.contexts]
  BY DEF Checks
<1>2. /\ DOMAIN ss = DOMAIN checks.suites
      /\ ss[i] = t
      /\ \A k \in DOMAIN checks.suites : k # i => ss[k] = checks.suites[k]
      /\ ss = [k \in DOMAIN checks.suites |-> ss[k]]
  OBVIOUS
<1>3. ss \in Seq(Suite)
  <2>1. \A k \in DOMAIN checks.suites : ss[k] \in Suite
    BY <1>2, RunsOfChecks
  <2>2. checks.suites \in Seq(Suite)
    BY DEF Checks
  <2> HIDE DEF ss
  <2>3. QED BY <1>2, <2>1, <2>2, SeqOfPlaces
<1>4. QED
  <2> HIDE DEF ss
  <2>1. checks.contexts \in SUBSET ContextType
    BY DEF Checks
  <2>2. QED BY <1>1, <1>2, <1>3, <2>1 DEF Checks

\* Some of a suite's runs completed, or new ones are queued: what the suite must
\* be for the commit to stay consistent.
LEMMA SuiteMoves ==
  ASSUME NEW checks \in Checks, NEW n \in Nat, Consistent(checks, n), Distinct(checks),
         NEW i \in DOMAIN checks.suites, NEW t \in Suite, NEW new,
         new = [checks EXCEPT !.suites = [checks.suites EXCEPT ![i] = t]],
         t.container = checks.suites[i].container,
         ~t.container => t.runs = <<>>,
         DOMAIN checks.suites[i].runs \subseteq DOMAIN t.runs,
         \A j \in DOMAIN t.runs : t.runs[j].status # "COMPLETED" => t.status = "QUEUED",
         \A j \in DOMAIN checks.suites[i].runs :
           \/ t.runs[j] = checks.suites[i].runs[j]
           \/ /\ checks.suites[i].runs[j].status = "QUEUED"
              /\ t.runs[j].status = "COMPLETED" /\ t.runs[j].at = n + 1,
         \A j \in DOMAIN t.runs \ DOMAIN checks.suites[i].runs :
           t.runs[j].status = "QUEUED" /\ t.runs[j].at = 0,
         \A j, l \in DOMAIN t.runs : t.runs[j].at = n + 1 /\ t.runs[l].at = n + 1 => j = l
  PROVE  Keeps(checks, new, n)
<1>1. /\ new \in Checks
      /\ DOMAIN new.suites = DOMAIN checks.suites
      /\ new.suites[i] = t
      /\ \A k \in DOMAIN checks.suites : k # i => new.suites[k] = checks.suites[k]
  BY OneSuite
<1>2. \A k \in DOMAIN checks.suites : \A j \in DOMAIN checks.suites[k].runs :
        checks.suites[k].runs[j].at \in Nat /\ checks.suites[k].runs[j].at <= n
  BY RunsOfChecks DEF Consistent, Run
<1>3. \A j \in DOMAIN t.runs : t.runs[j].at = n + 1 \/ (t.runs[j].at <= n /\ t.runs[j].at \in Nat)
  BY <1>2
<1>4. Consistent(new, n + 1)
  <2> SUFFICES ASSUME NEW k \in DOMAIN new.suites
               PROVE  /\ ~new.suites[k].container => new.suites[k].runs = <<>>
                      /\ \A j \in DOMAIN new.suites[k].runs :
                           /\ new.suites[k].runs[j].status # "COMPLETED"
                                => new.suites[k].status = "QUEUED"
                           /\ new.suites[k].runs[j].at <= n + 1
    BY DEF Consistent
  <2>1. CASE k = i
    BY <1>1, <1>3, <2>1
  <2>2. CASE k # i
    <3>1. new.suites[k] = checks.suites[k] /\ k \in DOMAIN checks.suites
      BY <1>1, <2>2
    <3>2. \A j \in DOMAIN checks.suites[k].runs : checks.suites[k].runs[j].at <= n + 1
      BY <1>2, <3>1
    <3>3. QED BY <3>1, <3>2 DEF Consistent
  <2>3. QED BY <2>1, <2>2
<1>5. Distinct(new)
  <2> SUFFICES ASSUME NEW k \in DOMAIN new.suites, NEW m \in DOMAIN new.suites,
                      NEW j \in DOMAIN new.suites[k].runs, NEW l \in DOMAIN new.suites[m].runs,
                      new.suites[k].runs[j].status = "COMPLETED",
                      new.suites[m].runs[l].status = "COMPLETED",
                      new.suites[k].runs[j].at = new.suites[m].runs[l].at
               PROVE  k = m /\ j = l
    BY DEF Distinct
  <2> DEFINE Was(x, y) == /\ x \in DOMAIN checks.suites /\ y \in DOMAIN checks.suites[x].runs
                          /\ new.suites[x].runs[y] = checks.suites[x].runs[y]
             Is(x, y) == x = i /\ y \in DOMAIN t.runs /\ t.runs[y].at = n + 1
                         /\ new.suites[x].runs[y] = t.runs[y]
  <2>1. Was(k, j) \/ Is(k, j)
    <3>1. CASE k = i
      BY <1>1, <3>1
    <3>2. CASE k # i
      BY <1>1, <3>2
    <3>3. QED BY <3>1, <3>2
  <2>2. Was(m, l) \/ Is(m, l)
    <3>1. CASE m = i
      BY <1>1, <3>1
    <3>2. CASE m # i
      BY <1>1, <3>2
    <3>3. QED BY <3>1, <3>2
  <2>3. CASE Was(k, j) /\ Was(m, l)
    BY <2>3 DEF Distinct
  <2>4. CASE Is(k, j) /\ Is(m, l)
    BY <2>4
  <2>5. ~(Was(k, j) /\ Is(m, l)) /\ ~(Is(k, j) /\ Was(m, l))
    BY <1>2
  <2>6. QED BY <2>1, <2>2, <2>3, <2>4, <2>5
<1>6. ASSUME NEW old, Older(old, checks)
      PROVE  Older(old, new)
  <2> SUFFICES ASSUME NEW k \in DOMAIN old.suites
               PROVE  /\ old.suites[k].container = new.suites[k].container
                      /\ DOMAIN old.suites[k].runs \subseteq DOMAIN new.suites[k].runs
                      /\ \A j \in DOMAIN old.suites[k].runs :
                           \/ old.suites[k].runs[j] = new.suites[k].runs[j]
                           \/ /\ old.suites[k].runs[j].status = "QUEUED"
                              /\ new.suites[k].runs[j].status = "COMPLETED"
    BY <1>1, <1>6 DEF Older
  <2>1. CASE k # i
    BY <1>1, <1>6, <2>1 DEF Older
  <2>2. CASE k = i
    <3>1. old.suites[k].container = t.container /\ DOMAIN old.suites[k].runs \subseteq DOMAIN t.runs
      BY <1>6, <2>2 DEF Older
    <3>2. ASSUME NEW j \in DOMAIN old.suites[k].runs
          PROVE  \/ old.suites[k].runs[j] = t.runs[j]
                 \/ /\ old.suites[k].runs[j].status = "QUEUED"
                    /\ t.runs[j].status = "COMPLETED"
      BY <1>6, <2>2 DEF Older
    <3>3. QED BY <1>1, <2>2, <3>1, <3>2
  <2>3. QED BY <2>1, <2>2
<1>7. QED BY <1>1, <1>4, <1>5, <1>6 DEF Keeps

\* A suite is created.
LEMMA CreatesKeeps ==
  ASSUME TypeOK, Consistent(head, changes), Distinct(head),
         NEW a \in {App, Actions}, Creates(a)
  PROVE  Keeps(head, head', changes)
<1> DEFINE s == head.suites
           e == [ app |-> a, container |-> a = Actions, concl |-> "", status |-> "QUEUED",
                  runs |-> <<>> ]
           ss == Append(s, e)
<1>1. head' = [head EXCEPT !.suites = ss]
  BY DEF Creates, Suites
<1>2. head \in Checks /\ s \in Seq(Suite) /\ changes \in Nat
  BY DEF TypeOK, Checks
<1>3. e \in Suite
  <2>1. <<>> \in Seq(Run) /\ "" \in Concls
    BY EmptySeq DEF Concls
  <2>2. CASE a = Actions
    BY <2>1, <2>2 DEF Suite
  <2>3. CASE a # Actions
    BY <2>1, <2>3 DEF Suite
  <2>4. QED BY <2>2, <2>3
<1>4. head'.suites = ss /\ head' = [suites |-> ss, contexts |-> head.contexts]
  BY <1>1, <1>2 DEF Checks
<1>5. e.runs = <<>> /\ DOMAIN e.runs = {}
  OBVIOUS
<1> HIDE DEF e
<1>6. /\ ss \in Seq(Suite) /\ Len(s) \in Nat
      /\ DOMAIN ss = 1 .. Len(s) + 1 /\ DOMAIN s = 1 .. Len(s)
      /\ ss[Len(s) + 1] = e /\ \A k \in 1 .. Len(s) : ss[k] = s[k]
  BY <1>2, <1>3, AppendProperties, LenProperties
<1> HIDE DEF ss
<1>7. \A k \in DOMAIN ss : (k \in DOMAIN s /\ ss[k] = s[k]) \/ ss[k] = e
  BY <1>6
<1>8. \A k \in DOMAIN s : k \in DOMAIN ss /\ ss[k] = s[k]
  BY <1>6
<1>9. head' \in Checks
  <2>1. head.contexts \in SUBSET ContextType
    BY <1>2 DEF Checks
  <2>2. QED BY <1>4, <1>6, <2>1 DEF Checks
<1>10. Consistent(head', changes + 1)
  <2> SUFFICES ASSUME NEW k \in DOMAIN ss
               PROVE  /\ ~ss[k].container => ss[k].runs = <<>>
                      /\ \A j \in DOMAIN ss[k].runs :
                           /\ ss[k].runs[j].status # "COMPLETED" => ss[k].status = "QUEUED"
                           /\ ss[k].runs[j].at <= changes + 1
    BY <1>4 DEF Consistent
  <2>1. CASE ss[k] = e
    BY <1>5, <2>1
  <2>2. CASE k \in DOMAIN s /\ ss[k] = s[k]
    <3>1. \A j \in DOMAIN s[k].runs : s[k].runs[j].at \in Nat /\ s[k].runs[j].at <= changes
      BY <1>2, <2>2, RunsOfChecks DEF Consistent, Run
    <3>2. \A j \in DOMAIN s[k].runs : s[k].runs[j].at <= changes + 1
      BY <1>2, <3>1
    <3>3. QED BY <2>2, <3>2 DEF Consistent
  <2>3. QED BY <1>7, <2>1, <2>2
<1>11. Distinct(head')
  BY <1>4, <1>5, <1>7 DEF Distinct
<1>12. \A old : Older(old, head) => Older(old, head')
  BY <1>4, <1>8 DEF Older
<1>13. QED BY <1>9, <1>10, <1>11, <1>12 DEF Keeps

\* A run is queued in a suite.
LEMMA QueuesKeeps ==
  ASSUME TypeOK, Consistent(head, changes), Distinct(head),
         NEW i \in DOMAIN head.suites, Queues(i)
  PROVE  Keeps(head, head', changes)
<1> DEFINE s == head.suites[i]
           r == Queued
           t == [s EXCEPT !.runs = Append(s.runs, r), !.status = "QUEUED"]
<1>1. head' = [head EXCEPT !.suites = [head.suites EXCEPT ![i] = t]] /\ s.container
  BY DEF Queues, Becomes, Suites
<1>2. head \in Checks /\ changes \in Nat /\ s \in Suite /\ s.runs \in Seq(Run)
  BY RunsOfChecks DEF TypeOK, Suite
<1>3. r \in Run
  <2>1. Cardinality({}) = 0
    BY FS_EmptySet
  <2>2. 0 \in {Cardinality(m) : m \in NoteSets}
    BY <2>1 DEF NoteSets
  <2>3. QED BY <2>2 DEF Queued, Run, Concls, NoteSets
<1>4. /\ Append(s.runs, r) \in Seq(Run) /\ Len(s.runs) \in Nat
      /\ DOMAIN Append(s.runs, r) = 1 .. Len(s.runs) + 1 /\ DOMAIN s.runs = 1 .. Len(s.runs)
      /\ Append(s.runs, r)[Len(s.runs) + 1] = r
      /\ \A k \in 1 .. Len(s.runs) : Append(s.runs, r)[k] = s.runs[k]
  <2> HIDE DEF r
  <2> QED BY <1>2, <1>3, AppendProperties, LenProperties
<1>5. t \in Suite /\ t.container = s.container /\ t.status = "QUEUED" /\ t.runs = Append(s.runs, r)
  BY <1>2, <1>4 DEF Suite
<1>6. r.status = "QUEUED" /\ r.at = 0
  BY DEF Queued
<1> HIDE DEF t, r
<1>7. DOMAIN s.runs \subseteq DOMAIN t.runs
  BY <1>4, <1>5
<1>8. \A j \in DOMAIN s.runs : t.runs[j] = s.runs[j]
  BY <1>4, <1>5
<1>9. \A j \in DOMAIN t.runs \ DOMAIN s.runs : t.runs[j].status = "QUEUED" /\ t.runs[j].at = 0
  BY <1>4, <1>5, <1>6
<1>10. \A j \in DOMAIN s.runs : s.runs[j].at \in Nat /\ s.runs[j].at <= changes
  BY <1>2, RunsOfChecks DEF Run, Consistent
<1>11. \A j \in DOMAIN t.runs : t.runs[j].at # changes + 1
  <2> SUFFICES ASSUME NEW j \in DOMAIN t.runs PROVE t.runs[j].at # changes + 1
    OBVIOUS
  <2>1. CASE j \in DOMAIN s.runs
    BY <1>2, <1>8, <1>10, <2>1
  <2>2. CASE j \notin DOMAIN s.runs
    BY <1>2, <1>9, <2>2
  <2>3. QED BY <2>1, <2>2
<1>12. QED
  BY <1>1, <1>2, <1>5, <1>7, <1>8, <1>9, <1>11, SuiteMoves

\* A run completes, later than any before it.
LEMMA CompletesKeeps ==
  ASSUME TypeOK, Consistent(head, changes), Distinct(head),
         NEW i \in DOMAIN head.suites, NEW j \in DOMAIN head.suites[i].runs,
         NEW o \in Outcomes, Completes(i, j, o)
  PROVE  Keeps(head, head', changes)
<1> DEFINE s == head.suites[i]
           c == Completed(s.runs[j], o)
           rs == [s.runs EXCEPT ![j] = c]
           st == IF \A k \in DOMAIN s.runs \ {j} : s.runs[k].status = "COMPLETED"
                 THEN "COMPLETED" ELSE s.status
           t == [s EXCEPT !.runs = rs, !.status = st]
<1>1. head' = [head EXCEPT !.suites = [head.suites EXCEPT ![i] = t]]
      /\ s.runs[j].status # "COMPLETED"
  BY DEF Completes, Becomes, Suites
<1>2. /\ head \in Checks /\ changes \in Nat /\ s \in Suite /\ s.runs \in Seq(Run)
      /\ \A k \in DOMAIN s.runs : s.runs[k] \in Run
  BY RunsOfChecks DEF TypeOK, Suite
<1>3. c \in Run /\ c.status = "COMPLETED" /\ c.at = changes + 1
  <2>1. o.concl \in Concls /\ o.notes \in NoteSets
        /\ Cardinality(o.notes) \in {Cardinality(m) : m \in NoteSets}
    BY DEF Concls, NoteSets
  <2> DEFINE r == s.runs[j]
             N == {Cardinality(m) : m \in NoteSets}
             C == Concls
  <2>2. r \in [name : {Check}, status : {"QUEUED", "COMPLETED"}, concl : C, at : Nat,
               notes : NoteSets, noteCount : N]
    BY <1>2 DEF Run
  <2>3. changes + 1 \in Nat
    BY <1>2
  <2>4. c = [name |-> r.name, status |-> "COMPLETED", concl |-> o.concl, at |-> changes + 1,
             notes |-> o.notes, noteCount |-> Cardinality(o.notes)]
    <3> HIDE DEF r, N, C
    <3>1. c = [r EXCEPT !.status = "COMPLETED", !.concl = o.concl, !.at = changes + 1,
                        !.notes = o.notes, !.noteCount = Cardinality(o.notes)]
      BY DEF Completed, r
    <3> HIDE DEF c
    <3> QED BY <2>2, <3>1
  <2> HIDE DEF r, N, c, C
  <2>5. c \in [name : {Check}, status : {"QUEUED", "COMPLETED"}, concl : C, at : Nat,
               notes : NoteSets, noteCount : N]
    BY <2>1, <2>2, <2>3, <2>4 DEF N, C
  <2>6. QED BY <2>4, <2>5 DEF N, C, Run
<1> HIDE DEF c
<1>4. /\ DOMAIN rs = DOMAIN s.runs /\ rs[j] = c
      /\ \A k \in DOMAIN s.runs : k # j => rs[k] = s.runs[k]
      /\ rs = [k \in DOMAIN s.runs |-> rs[k]]
  OBVIOUS
<1> HIDE DEF rs
<1>5. rs \in Seq(Run)
  <2>1. \A k \in DOMAIN s.runs : rs[k] \in Run
    BY <1>2, <1>3, <1>4
  <2>2. QED BY <1>2, <1>4, <2>1, SeqOfPlaces
<1>6. st \in {"QUEUED", "COMPLETED"}
  BY <1>2 DEF Suite
<1>7. \A k \in DOMAIN s.runs : k # j /\ s.runs[k].status # "COMPLETED" => st = "QUEUED"
  BY DEF Consistent
<1> HIDE DEF st
<1>8. t \in Suite /\ t.container = s.container /\ t.status = st /\ t.runs = rs
  BY <1>2, <1>5, <1>6 DEF Suite
<1> HIDE DEF t
<1>9. s.container
  BY <1>2 DEF Consistent
<1>10. \A k \in DOMAIN t.runs : t.runs[k].status # "COMPLETED" => t.status = "QUEUED"
  BY <1>3, <1>4, <1>7, <1>8
<1>11. \A k \in DOMAIN s.runs :
         \/ t.runs[k] = s.runs[k]
         \/ /\ s.runs[k].status = "QUEUED"
            /\ t.runs[k].status = "COMPLETED" /\ t.runs[k].at = changes + 1
  <2>1. s.runs[j].status = "QUEUED"
    BY <1>1, <1>2 DEF Run
  <2>2. QED BY <1>3, <1>4, <1>8, <2>1
<1>12. \A k, l \in DOMAIN t.runs :
         t.runs[k].at = changes + 1 /\ t.runs[l].at = changes + 1 => k = l
  <2>1. \A k \in DOMAIN s.runs : s.runs[k].at \in Nat /\ s.runs[k].at <= changes
    BY <1>2 DEF Run, Consistent
  <2>2. \A k \in DOMAIN s.runs : s.runs[k].at # changes + 1
    BY <1>2, <2>1
  <2>3. \A k \in DOMAIN t.runs : k # j => t.runs[k].at # changes + 1
    BY <1>4, <1>8, <2>2
  <2>4. QED BY <2>3
<1>13. DOMAIN t.runs = DOMAIN s.runs /\ DOMAIN t.runs \ DOMAIN s.runs = {}
  BY <1>4, <1>8
<1>14. QED
  BY <1>1, <1>2, <1>8, <1>9, <1>10, <1>11, <1>12, <1>13, SuiteMoves

\* A suite without runs concludes.
LEMMA ConcludesKeeps ==
  ASSUME TypeOK, Consistent(head, changes), Distinct(head),
         NEW i \in DOMAIN head.suites, NEW o \in Outcomes, Concludes(i, o)
  PROVE  Keeps(head, head', changes)
<1> DEFINE s == head.suites[i]
           t == [s EXCEPT !.status = "COMPLETED", !.concl = o.concl]
<1>1. head' = [head EXCEPT !.suites = [head.suites EXCEPT ![i] = t]] /\ ~s.container
  BY DEF Concludes, Becomes, Suites
<1>2. head \in Checks /\ changes \in Nat /\ s \in Suite
  BY RunsOfChecks DEF TypeOK
<1>3. o.concl \in Concls
  BY DEF Concls
<1>4. t \in Suite /\ t.container = s.container /\ t.runs = s.runs
  BY <1>2, <1>3 DEF Suite
<1> HIDE DEF t
<1>5. s.runs = <<>>
  BY <1>1 DEF Consistent
<1>6. DOMAIN s.runs = {} /\ DOMAIN t.runs = {} /\ t.runs = <<>>
  BY <1>4, <1>5
<1>7. QED
  BY <1>1, <1>2, <1>4, <1>6, SuiteMoves

\* A status context reports.
LEMMA ReportsKeeps ==
  ASSUME TypeOK, Consistent(head, changes), Distinct(head),
         NEW s \in ContextStates, Reports(s)
  PROVE  Keeps(head, head', changes)
<1> DEFINE cs == {[context |-> Context, state |-> s]}
<1>1. head' = [head EXCEPT !.contexts = cs] /\ head \in Checks /\ changes \in Nat
  BY DEF Reports, TypeOK
<1>2. cs \in SUBSET ContextType
  BY DEF ContextType
<1> HIDE DEF cs
<1>3. head'.suites = head.suites /\ head' \in Checks
  BY <1>1, <1>2 DEF Checks
<1>4. \A k \in DOMAIN head.suites : \A j \in DOMAIN head.suites[k].runs :
        head.suites[k].runs[j].at <= changes + 1
  <2>1. \A k \in DOMAIN head.suites : \A j \in DOMAIN head.suites[k].runs :
          head.suites[k].runs[j].at \in Nat /\ head.suites[k].runs[j].at <= changes
    BY <1>1, RunsOfChecks DEF Run, Consistent
  <2>2. QED BY <1>1, <2>1
<1>5. Consistent(head', changes + 1) /\ Distinct(head')
  BY <1>3, <1>4 DEF Consistent, Distinct
<1>6. \A old : Older(old, head) => Older(old, head')
  BY <1>3 DEF Older
<1>7. QED BY <1>3, <1>5, <1>6 DEF Keeps

\* What is so of GitHub, in every state.
GitHubOK == TypeOK /\ Consistent(head, changes) /\ Distinct(head)

\* What is said keeps its type and follows what was said before.
LEMMA DiscussionKeeps ==
  ASSUME TypeOK, CIAssumption, Discussion
  PROVE  /\ talk' \in Talk /\ withdrawn' \subseteq CommentIds \cup ThreadIds
         /\ UNCHANGED <<head, oid, state>> /\ Steps
         /\ \A old \in Talk : Follows(old, talk, withdrawn) => Follows(old, talk', withdrawn')
<1>0. /\ talk \in Talk /\ withdrawn \subseteq CommentIds \cup ThreadIds
      /\ talk.replies \in [ThreadIds -> Nat] /\ talk.reviews \in Seq(Review)
      /\ \A old \in Talk, t \in ThreadIds : old.replies[t] \in Nat
  BY DEF TypeOK, Talk
<1>1. CASE \E c \in CommentIds : Posts(c)
  <2>1. PICK c \in CommentIds : Posts(c)
    BY <1>1
  <2>2. talk' = [talk EXCEPT !.posted = @ \cup {c}] /\ withdrawn' = withdrawn
        /\ UNCHANGED <<head, oid, state>> /\ Steps
    BY <2>1 DEF Posts, Talks
  <2>3. QED BY <1>0, <2>2 DEF Talk, Follows
<1>2. CASE \E t \in ThreadIds : Replies(t)
  <2>1. PICK t \in ThreadIds : Replies(t)
    BY <1>2
  <2>2. talk' = [talk EXCEPT !.replies[t] = @ + 1, !.acked = @ \ {t}] /\ withdrawn' = withdrawn
        /\ UNCHANGED <<head, oid, state>> /\ Steps
    BY <2>1 DEF Replies, Talks
  <2> DEFINE more == [talk.replies EXCEPT ![t] = @ + 1]
             acks == talk.acked \ {t}
  <2>2a. /\ talk' = [talk EXCEPT !.replies = more, !.acked = acks]
         /\ more \in [ThreadIds -> Nat] /\ acks \subseteq CommentIds \cup ThreadIds
    BY <1>0, <2>2 DEF Talk
  <2> HIDE DEF more, acks
  <2>3a. talk' \in Talk /\ talk'.acked = acks /\ talk'.replies = more
    BY <1>0, <2>2a DEF Talk
  <2>3. talk' \in Talk /\ talk'.acked = talk.acked \ {t}
        /\ talk'.replies = [talk.replies EXCEPT ![t] = @ + 1]
    BY <2>3a DEF more, acks
  <2>4. ASSUME NEW old \in Talk, Follows(old, talk, withdrawn)
        PROVE  Follows(old, talk', withdrawn)
    <3>1. \A u \in ThreadIds : /\ old.replies[u] \in Nat /\ talk.replies[u] \in Nat
                               /\ old.replies[u] <= talk.replies[u]
                               /\ talk'.replies[u] = IF u = t THEN talk.replies[u] + 1
                                                              ELSE talk.replies[u]
      BY <1>0, <2>3, <2>4 DEF Follows
    <3>2. \A u \in ThreadIds : old.replies[u] <= talk'.replies[u]
      BY <3>1
    <3>3. ASSUME NEW x \in old.acked \ talk'.acked
          PROVE  x \in withdrawn \/ (x \in ThreadIds /\ old.replies[x] < talk'.replies[x])
      <4>1. CASE x = t
        BY <3>1, <4>1
      <4>2. CASE x # t
        <5>1. x \in old.acked \ talk.acked
          BY <2>3, <4>2
        <5>2. x \in withdrawn \/ (x \in ThreadIds /\ old.replies[x] < talk.replies[x])
          BY <2>4, <5>1 DEF Follows
        <5>3. QED BY <3>1, <4>2, <5>2
      <4>3. QED BY <4>1, <4>2
    <3>4. QED BY <3>2, <3>3 DEF Follows
  <2>5. QED BY <1>0, <2>2, <2>3, <2>4
<1>3. CASE \E t \in ThreadIds : Resolves(t) \/ Reopens(t)
  <2>1. PICK t \in ThreadIds : Resolves(t) \/ Reopens(t)
    BY <1>3
  <2>2. /\ \/ talk' = [talk EXCEPT !.resolved = @ \cup {t}]
           \/ talk' = [talk EXCEPT !.resolved = @ \ {t}]
        /\ withdrawn' = withdrawn /\ UNCHANGED <<head, oid, state>> /\ Steps
    BY <2>1 DEF Resolves, Reopens, Talks
  <2>3. talk' \in Talk /\ talk'.acked = talk.acked /\ talk'.replies = talk.replies
    BY <1>0, <2>2 DEF Talk
  <2>4. QED BY <1>0, <2>2, <2>3 DEF Follows
<1>4. CASE \E x \in CommentIds \cup ThreadIds : Acks(x) \/ Withdraws(x)
  <2>1. PICK x \in CommentIds \cup ThreadIds : Acks(x) \/ Withdraws(x)
    BY <1>4
  <2>2. /\ \/ talk' = [talk EXCEPT !.acked = @ \cup {x}] /\ withdrawn' = withdrawn \ {x}
           \/ talk' = [talk EXCEPT !.acked = @ \ {x}] /\ withdrawn' = withdrawn \cup {x}
        /\ UNCHANGED <<head, oid, state>> /\ Steps
    BY <2>1 DEF Acks, Withdraws, Talks
  <2>3. /\ talk' \in Talk /\ talk'.replies = talk.replies
        /\ \/ talk'.acked = talk.acked \cup {x} /\ withdrawn' = withdrawn \ {x}
           \/ talk'.acked = talk.acked \ {x} /\ withdrawn' = withdrawn \cup {x}
    BY <1>0, <2>2 DEF Talk
  <2>4. QED BY <1>0, <2>2, <2>3 DEF Follows
<1>5. CASE \E s \in ReviewStates : Reviews(s)
  <2>1. PICK s \in ReviewStates : Reviews(s)
    BY <1>5
  <2> DEFINE rs == Append(talk.reviews, [state |-> s, author |-> Viewer])
  <2>2. talk' = [talk EXCEPT !.reviews = rs] /\ withdrawn' = withdrawn
        /\ UNCHANGED <<head, oid, state>> /\ Steps
    BY <2>1 DEF Reviews, Talks
  <2>3. rs \in Seq(Review)
    BY <1>0 DEF Review
  <2> HIDE DEF rs
  <2>4. talk' \in Talk /\ talk'.acked = talk.acked /\ talk'.replies = talk.replies
    BY <1>0, <2>2, <2>3 DEF Talk
  <2>5. QED BY <1>0, <2>2, <2>4 DEF Follows
<1>6. CASE \E i \in DOMAIN talk.reviews : Dismisses(i)
  <2>1. PICK i \in DOMAIN talk.reviews : Dismisses(i)
    BY <1>6
  <2> DEFINE rs == [talk.reviews EXCEPT ![i].state = "DISMISSED"]
  <2>2. talk' = [talk EXCEPT !.reviews = rs] /\ withdrawn' = withdrawn
        /\ UNCHANGED <<head, oid, state>> /\ Steps
    BY <2>1 DEF Dismisses, Talks
  <2>3. rs \in Seq(Review)
    <3>1. talk.reviews[i] \in Review
      BY <1>0
    <3>2. [talk.reviews[i] EXCEPT !.state = "DISMISSED"] \in Review
      BY <3>1 DEF Review
    <3>3. QED BY <1>0, <3>2
  <2> HIDE DEF rs
  <2>4. talk' \in Talk /\ talk'.acked = talk.acked /\ talk'.replies = talk.replies
    BY <1>0, <2>2, <2>3 DEF Talk
  <2>5. QED BY <1>0, <2>2, <2>4 DEF Follows
<1>7. QED BY <1>1, <1>2, <1>3, <1>4, <1>5, <1>6 DEF Discussion

\* GitHub's steps keep it, a commit's checks only move on until the next push, and
\* what is said follows what was.
LEMMA GitHubKeeps ==
  ASSUME GitHubOK, CIAssumption, GitHub
  PROVE  /\ GitHubOK'
         /\ said' = Silent /\ UNCHANGED <<asked, base, seen>> /\ oid <= oid'
         /\ oid' = oid => \A old : Older(old, head) => Older(old, head')
         /\ \A old \in Talk : Follows(old, talk, withdrawn) => Follows(old, talk', withdrawn')
<1>0. oid \in Nat \ {0} /\ changes \in Nat
  BY DEF GitHubOK, TypeOK
<1>0a. ASSUME head' = head
      PROVE  Keeps(head, head', changes)
  <2>1. \A k \in DOMAIN head.suites : \A j \in DOMAIN head.suites[k].runs :
          head.suites[k].runs[j].at \in Nat /\ head.suites[k].runs[j].at <= changes
    BY RunsOfChecks DEF Run, Consistent, GitHubOK, TypeOK
  <2>2. \A k \in DOMAIN head.suites : \A j \in DOMAIN head.suites[k].runs :
          head.suites[k].runs[j].at <= changes + 1
    BY <1>0, <2>1
  <2>3. Consistent(head, changes + 1)
    BY <2>2 DEF GitHubOK, Consistent
  <2>4. QED BY <1>0a, <2>3 DEF Keeps, GitHubOK, TypeOK
<1>1. /\ \/ oid' = oid /\ Keeps(head, head', changes)
         \/ oid' = oid + 1 /\ head' = NoChecks
      /\ Quietly \/ (Discussion /\ Steps)
  <2>1. CASE \E a \in {App, Actions} : Creates(a)
    BY <2>1, CreatesKeeps DEF GitHubOK, Creates, Suites
  <2>2. CASE \E i \in DOMAIN head.suites : Queues(i)
    BY <2>2, QueuesKeeps DEF GitHubOK, Queues, Becomes, Suites
  <2>3. CASE \E i \in DOMAIN head.suites, o \in Outcomes : Concludes(i, o)
    BY <2>3, ConcludesKeeps DEF GitHubOK, Concludes, Becomes, Suites
  <2>4. CASE \E i \in DOMAIN head.suites, o \in Outcomes :
               \E j \in DOMAIN head.suites[i].runs : Completes(i, j, o)
    <3>1. PICK i \in DOMAIN head.suites, o \in Outcomes :
                 \E j \in DOMAIN head.suites[i].runs : Completes(i, j, o)
      BY <2>4
    <3>2. PICK j \in DOMAIN head.suites[i].runs : Completes(i, j, o)
      BY <3>1
    <3>3. oid' = oid /\ Quietly
      BY <3>2 DEF Completes, Becomes, Suites
    <3>4. QED BY <3>2, <3>3, CompletesKeeps DEF GitHubOK
  <2>5. CASE \E s \in ContextStates : Reports(s)
    BY <2>5, ReportsKeeps DEF GitHubOK, Reports
  <2>6. CASE Push
    BY <2>6 DEF Push
  <2>7. CASE \E s \in EndStates : Closes(s)
    <3>1. head' = head /\ oid' = oid /\ Quietly
      BY <2>7 DEF Closes
    <3>2. QED BY <1>0a, <3>1
  <2>8. CASE Discussion
    BY <1>0a, <2>8, DiscussionKeeps DEF GitHubOK
  <2>9. QED BY <2>1, <2>2, <2>3, <2>4, <2>5, <2>6, <2>7, <2>8 DEF GitHub
<1>2. changes' = changes + 1 /\ said' = Silent /\ UNCHANGED <<asked, base, seen>>
  BY <1>1 DEF Quietly, Steps
<1>2a. /\ talk' \in Talk /\ withdrawn' \subseteq CommentIds \cup ThreadIds
      /\ \A old \in Talk : Follows(old, talk, withdrawn) => Follows(old, talk', withdrawn')
  <2>1. CASE Quietly
    BY <2>1 DEF Quietly, GitHubOK, TypeOK
  <2>2. CASE Discussion
    BY <2>2, DiscussionKeeps DEF GitHubOK
  <2>3. QED BY <1>1, <2>1, <2>2
<1>3. oid' \in Nat \ {0} /\ oid <= oid' /\ changes' \in Nat
  BY <1>0, <1>1, <1>2
<1>4. head' \in Checks /\ Consistent(head', changes') /\ Distinct(head')
  <2>1. CASE Keeps(head, head', changes)
    BY <1>2, <2>1 DEF Keeps
  <2>2. CASE head' = NoChecks
    <3>1. head'.suites = <<>> /\ head' = [suites |-> <<>>, contexts |-> {}] /\ DOMAIN <<>> = {}
      BY <2>2 DEF NoChecks
    <3>2. head' \in Checks
      BY <3>1, EmptySeq DEF Checks
    <3>3. QED BY <3>1, <3>2 DEF Consistent, Distinct
  <2>3. QED BY <1>1, <2>1, <2>2
<1>5. TypeOK'
  <2>1. state' = state \/ state' \in EndStates
    <3>1. CASE Discussion
      BY <3>1, DiscussionKeeps DEF GitHubOK
    <3>2. CASE ~Discussion
      BY <3>2 DEF GitHub, Creates, Queues, Completes, Concludes, Becomes, Suites, Reports, Push, Closes
    <3>3. QED BY <3>1, <3>2
  <2>2. QED BY <1>2a, <1>2, <1>3, <1>4, <2>1 DEF TypeOK, GitHubOK, asked
<1>6. oid' = oid => \A old : Older(old, head) => Older(old, head')
  BY <1>0, <1>1 DEF Keeps
<1>7. QED BY <1>2a, <1>2, <1>3, <1>4, <1>5, <1>6 DEF GitHubOK

----------------------------------------------------------------------------
\* What the readers say.

\* A read that shed nothing carries nothing forward.
LEMMA CarriesNothing ==
  ASSUME NEW prev, NEW pr, NEW opts, opts.shed = {}
  PROVE  CarryForwardShed(prev, Snapshot(pr, opts)) = Snapshot(pr, opts)
<1> DEFINE s == Snapshot(pr, opts)
           ci == JudgeCI(pr.view, opts.levels, opts.checks,
                         IF opts.ruleset.error THEN {} ELSE opts.ruleset.contexts, opts.cap)
<1>1. s.shed = {}
  BY DEF Snapshot
<1>2. [s EXCEPT !.ci.annotations = s.ci.annotations, !.ci.notesTruncated = s.ci.notesTruncated,
                !.review = s.review, !.threads = s.threads, !.comments = s.comments] = s
  <2>1. [s.ci EXCEPT !.annotations = s.ci.annotations, !.notesTruncated = s.ci.notesTruncated] = s.ci
    <3>1. s.ci = ci
      BY DEF Snapshot
    <3>2. [ci EXCEPT !.annotations = ci.annotations, !.notesTruncated = ci.notesTruncated] = ci
      BY DEF JudgeCI
    <3> HIDE DEF s, ci
    <3>3. QED BY <3>1, <3>2
  <2>2. s = [ state |-> s.state, merged |-> s.merged, conflict |-> s.conflict, ci |-> s.ci,
              rulesetError |-> s.rulesetError, threads |-> s.threads, comments |-> s.comments,
              review |-> s.review, oid |-> s.oid, shed |-> s.shed ]
    BY DEF Snapshot
  <2> HIDE DEF s
  <2>3. QED BY <2>1, <2>2
<1>3. QED BY <1>1, <1>2 DEF CarryForwardShed

\* Only a clean snapshot is announced green, and only one that accuses the filter
\* is announced degraded.
LEMMA DiffTells ==
  ASSUME NEW prev, NEW curr, NEW e \in Diff(prev, curr, FALSE)
  PROVE  /\ e.type = "ci-all-green" => Clean(curr)
         /\ e.type = "degraded" => curr.ci.unmatched # {}
<1>1. \A x \in ReviewEvents(prev.review, curr.review) :
        x.type \in {"review-approved", "review-changes-requested", "review-dismissed"}
  <2> DEFINE r == ReviewEvents(prev.review, curr.review)
  <2>1. \/ r = {} \/ r = {Told("review-approved")} \/ r = {Told("review-changes-requested")}
        \/ r = {Told("review-dismissed")}
    BY Zenon DEF ReviewEvents
  <2> HIDE DEF r
  <2>2. \A x \in r : x.type \in {"review-approved", "review-changes-requested", "review-dismissed"}
    BY <2>1 DEF Told
  <2>3. QED BY <2>2 DEF r
<1>2. \A x \in FilterEvents(prev, curr) : x.type = "degraded" /\ curr.ci.unmatched # {}
  BY DEF FilterEvents, Told
<1>3. QED BY <1>1, <1>2 DEF Diff, ForType, Told

\* The same of what the consumer emits, the first poll's included.
LEMMA ConsumeTells ==
  ASSUME NEW prev, NEW pr, NEW opts, opts.shed = {},
         NEW e \in ConsumePR(prev, Snapshot(pr, opts), FALSE).events
  PROVE  /\ e.type = "ci-all-green" => Clean(Snapshot(pr, opts))
         /\ e.type = "degraded" => Snapshot(pr, opts).ci.unmatched # {}
<1> DEFINE s == Snapshot(pr, opts)
           found == Diff(IF prev = Nil THEN ZeroPR ELSE prev, s, FALSE)
<1>1. ConsumePR(prev, s, FALSE).events =
        IF prev # Nil THEN found
        ELSE (found \ {Told("new-commit")}) \cup {Told("first-poll")}
             \cup (IF ciAllGreen(s) THEN {Told("ci-all-green")} ELSE {})
  BY CarriesNothing DEF ConsumePR
<1>2. \A x \in found : /\ x.type = "ci-all-green" => Clean(s)
                       /\ x.type = "degraded" => s.ci.unmatched # {}
  BY DiffTells
<1>3. ciAllGreen(s) => Clean(s)
  BY DEF ciAllGreen
<1> HIDE DEF found, s
<1>4. /\ e.type = "ci-all-green" => Clean(s)
      /\ e.type = "degraded" => s.ci.unmatched # {}
  <2>1. e \in found \/ e = Told("first-poll") \/ (e = Told("ci-all-green") /\ Clean(s))
    BY <1>1, <1>3 DEF s
  <2>2. QED BY <1>2, <2>1 DEF Told
<1>5. QED BY <1>4 DEF s

\* The snapshot of a poll and of a readiness read, as the verdict on its view.
LEMMA SnapshotOf ==
  ASSUME NEW view, NEW ruleset, NEW opts, opts = [SnapOpts EXCEPT !.ruleset = ruleset]
  PROVE  /\ Snapshot(Payload(view), opts).ci =
              JudgeCI(view, defaultAnnotationLevels, snapshotOptionsFor(filter),
                      IF ruleset.error THEN {} ELSE ruleset.contexts, NoteCap)
         /\ Snapshot(Payload(view), opts).rulesetError = ruleset.error
         /\ Snapshot(Payload(view), opts).conflict = FALSE
         /\ opts.shed = {}
BY DEF Snapshot, Payload, SnapOpts

\* The watch's pages hold all of the head commit when its runs fit and either
\* its suites do or none is known to be missing.
LEMMA WatchSeesWhole ==
  ASSUME GitHubOK, CIAssumption, WholeRuns,
         Len(head.suites) <= SuitePage \/ ~suitesDropped(WatchPage)
  PROVE  Whole(WatchPage, head)
<1>1. head \in Checks /\ RunPage \in Nat \ {0}
  BY DEF GitHubOK, TypeOK, CIAssumption
<1>2. \A i \in DOMAIN head.suites : Len(head.suites[i].runs) <= RunPage
  BY DEF WholeRuns, SuiteSet, Range
<1>3. QED BY <1>1, <1>2, WholePage DEF WatchPage

\* A whole view without failing or pending checks is of a green commit.
LEMMA WholeIsGreen ==
  ASSUME GitHubOK, CIAssumption, NEW view, Whole(view, head),
         failingChecks(view) = {}, pendingChecks(view) = {}
  PROVE  Green(head)
BY RedIsFailing, UnfinishedIsPending DEF GitHubOK, TypeOK, Green

\* What a poll of the pull request says.
LEMMA PollPRTells ==
  ASSUME GitHubOK, CIAssumption, PollPR
  PROVE  GreenIsTrue' /\ ReadyIsTrue' /\ FilterAccusedTruly'
<1> DEFINE view == WatchPage
           s == Snapshot(Payload(view), SnapOpts)
           required == IF Ruleset.error THEN {} ELSE Ruleset.contexts
           checks == snapshotOptionsFor(filter)
           found == extractAnnotations(view, defaultAnnotationLevels, checks, NoteCap)
<1>1. /\ said'.by = "pr" /\ said'.bucket = Nil /\ said'.events = ConsumePR(base, s, FALSE).events
      /\ head' = head /\ readable' = readable /\ filter' = filter
  BY DEF PollPR, github, asked
<1>2. /\ s.ci = JudgeCI(view, defaultAnnotationLevels, checks, required, NoteCap)
      /\ SnapOpts.shed = {} /\ Ruleset.error = FALSE
      /\ required = IF readable THEN Required ELSE {}
  <2>1. SnapOpts = [SnapOpts EXCEPT !.ruleset = Ruleset]
    BY DEF SnapOpts
  <2>2. s.ci = JudgeCI(view, defaultAnnotationLevels, checks, required, NoteCap)
        /\ SnapOpts.shed = {}
    <3> HIDE DEF view
    <3> QED BY <2>1, SnapshotOf
  <2>3. Ruleset.error = FALSE /\ Ruleset.contexts = IF readable THEN Required ELSE {}
    BY DEF Ruleset, Kept, FetchRequiredChecks
  <2>4. QED BY <2>2, <2>3
<1>3. /\ s.ci.failing = failingChecks(view) /\ s.ci.pending = pendingChecks(view)
      /\ s.ci.awaiting = awaitingChecks(view, required)
      /\ s.ci.truncated = truncatedSuites(view)
      /\ s.ci.unmatched = IF found.truncated \/ suitesDropped(view) THEN {}
                          ELSE Unmatched(checks, found.observed)
  BY <1>2 DEF JudgeCI
<1>4. ASSUME Says("ci-all-green")', WholeRuns
      PROVE  Green(head) /\ (readable => Required \subseteq Reported(head))
  <2>1. Clean(s)
    BY <1>1, <1>2, <1>4, ConsumeTells DEF Says
  <2>2. /\ failingChecks(view) = {} /\ pendingChecks(view) = {}
        /\ awaitingChecks(view, required) = {} /\ ~truncatedSuites(view)
    BY <1>3, <2>1 DEF Clean
  <2>3. Whole(view, head)
    BY <1>4, <2>2, WatchSeesWhole DEF truncatedSuites
  <2>4. head \in Checks
    BY DEF GitHubOK, TypeOK
  <2>5. required \subseteq Reported(head)
    BY <2>2, <2>3, <2>4, AwaitedReports
  <2>6. Green(head)
    BY <2>2, <2>3, WholeIsGreen
  <2>7. QED BY <1>2, <2>5, <2>6
<1>5. ASSUME Says("degraded")', WholeRuns
      PROVE  \E n \in filter.allowed : \A r \in AllRuns(head) : r.name # n
  <2>1. s.ci.unmatched # {}
    BY <1>1, <1>2, <1>5, ConsumeTells DEF Says
  <2>2. ~suitesDropped(view) /\ \E n \in checks.allowed : n \notin found.observed
    BY <1>3, <2>1 DEF Unmatched
  <2>3. PICK n \in checks.allowed : n \notin found.observed
    BY <2>2
  <2>4. n \in filter.allowed
    BY <2>3 DEF snapshotOptionsFor, EveryCheck, NewAnnotationFilter, ParseAnnotationChecks, Names
  <2>5. Whole(view, head)
    BY <1>5, <2>2, WatchSeesWhole
  <2>6. \A r \in AllRuns(head) : r.name = Check /\ r.name # NoName
    BY RunsOfChecks DEF GitHubOK, TypeOK, Run, CIAssumption
  <2>7. \A r \in AllRuns(head) : r.name \in found.observed
    <3>1. \A r \in AllRuns(head) : r \in UNION {RunsOf(t) : t \in SuiteSet(view)}
      BY <2>5 DEF AllRuns, SuiteSet, RunsOf, Range, Whole
    <3>2. found.observed = {r.name : r \in UNION {RunsOf(t) : t \in SuiteSet(view)}} \ {NoName}
      BY DEF extractAnnotations
    <3> HIDE DEF found
    <3>3. QED BY <2>6, <3>1, <3>2
  <2>8. QED BY <2>3, <2>4, <2>7
<1>6. GreenIsTrue'
  BY <1>1, <1>4 DEF GreenIsTrue, WholeRuns
<1>7. ReadyIsTrue'
  BY <1>1 DEF ReadyIsTrue, CIAssumption
<1>8. FilterAccusedTruly'
  BY <1>1, <1>5 DEF FilterAccusedTruly, WholeRuns
<1>9. QED BY <1>6, <1>7, <1>8

\* What a poll of the branch says.
LEMMA PollRefTells ==
  ASSUME GitHubOK, CIAssumption, PollRef
  PROVE  GreenIsTrue' /\ ReadyIsTrue' /\ FilterAccusedTruly'
<1> DEFINE view == WatchPage
           curr == SnapshotRef(oid, view)
           prev == IF base = Nil THEN ZeroRef ELSE base
<1>1. /\ said'.by = "ref" /\ said'.bucket = Nil /\ said'.events = ConsumeRef(base, curr).events
      /\ head' = head /\ readable' = readable /\ filter' = filter
  BY DEF PollRef, Silent, github, asked
<1>2. curr.failing = failingChecks(view) /\ curr.pending = pendingChecks(view)
  BY DEF SnapshotRef, JudgeCI
<1>3. \A e \in ConsumeRef(base, curr).events :
        e.type # "degraded" /\ (e.type = "ci-all-green" => Idle(curr))
  <2> DEFINE found == DiffRef(prev, curr)
  <2>1. ConsumeRef(base, curr).events
          = found \cup (IF base = Nil THEN {Told("first-poll")} ELSE {})
    BY DEF ConsumeRef
  <2>2. \A e \in found : e.type # "degraded" /\ (e.type = "ci-all-green" => Idle(curr))
    <3> HIDE DEF curr, prev
    <3> QED BY DEF DiffRef, ForType, Told
  <2> HIDE DEF found, curr
  <2>3. QED BY <2>1, <2>2 DEF Told
<1>4. ASSUME Says("ci-all-green")', WholeRuns, Len(head.suites) <= SuitePage
      PROVE  Green(head)
  <2>1. failingChecks(view) = {} /\ pendingChecks(view) = {}
    BY <1>1, <1>2, <1>3, <1>4 DEF Says, Idle
  <2>2. QED BY <1>4, <2>1, WatchSeesWhole, WholeIsGreen
<1>5. GreenIsTrue'
  BY <1>1, <1>4 DEF GreenIsTrue, WholeRuns
<1>6. ReadyIsTrue'
  BY <1>1 DEF ReadyIsTrue, CIAssumption
<1>7. FilterAccusedTruly'
  BY <1>1, <1>3 DEF FilterAccusedTruly, Says
<1>8. QED BY <1>5, <1>6, <1>7

\* What the readiness view says: its query counts the runs, so that a view which
\* is not truncated is whole.
LEMMA ReadinessTells ==
  ASSUME GitHubOK, CIAssumption, ReadReadiness
  PROVE  GreenIsTrue' /\ ReadyIsTrue' /\ FilterAccusedTruly'
<1> DEFINE view == ReadyPage
           ruleset == FetchRequiredChecks(readable, Required)
           opts == [SnapOpts EXCEPT !.ruleset = ruleset]
           s == Snapshot(Payload(view), opts)
           required == IF ruleset.error THEN {} ELSE ruleset.contexts
<1>1. /\ said'.by = "readiness" /\ said'.events = {}
      /\ said'.bucket = Bucket(Payload(view), s, Viewer)
      /\ head' = head /\ readable' = readable
  BY DEF ReadReadiness, Silent, github, asked
<1>2. /\ s.ci = JudgeCI(view, defaultAnnotationLevels, snapshotOptionsFor(filter), required, NoteCap)
      /\ s.rulesetError = ruleset.error /\ s.conflict = FALSE
  <2> HIDE DEF view, ruleset
  <2> QED BY SnapshotOf
<1>3. /\ s.ci.failing = failingChecks(view) /\ s.ci.pending = pendingChecks(view)
      /\ s.ci.successful = successfulChecks(view)
      /\ s.ci.awaiting = awaitingChecks(view, required)
      /\ s.ci.truncated = truncatedSuites(view)
  BY <1>2 DEF JudgeCI
<1>4. ASSUME said'.bucket = "ready"
      PROVE  Green(head) /\ Passed(head) /\ readable /\ Required \subseteq Reported(head)
  <2>1. CIReasons(s) = {}
    BY <1>1, <1>4 DEF Bucket, readinessReasonFull
  <2>2. /\ ~s.ci.truncated /\ ~s.rulesetError /\ s.ci.failing = {} /\ s.ci.pending = {}
        /\ s.ci.awaiting = {} /\ ~(Clean(s) /\ s.ci.successful = {})
    <3> HIDE DEF s
    <3> QED BY <1>2, <2>1 DEF CIReasons
  <2>3. s.ci.successful # {}
    BY <2>2 DEF Clean
  <2>4. readable /\ required = Required
    BY <1>2, <2>2 DEF FetchRequiredChecks
  <2>5. ~suitesDropped(view) /\ \A t \in SuiteSet(view) : ~(t.total > Len(t.runs))
    BY <1>3, <2>2 DEF truncatedSuites
  <2>6. head \in Checks /\ ReadyRunPage \in Nat \ {0} /\ SuitePage \in Nat \ {0} /\ changes \in Nat
    BY DEF GitHubOK, TypeOK, CIAssumption
  <2>7. Len(head.suites) <= Len(LastOf(head.suites, SuitePage))
    <3>1. view.total = Len(head.suites) /\ Len(view.suites) = Len(LastOf(head.suites, SuitePage))
      BY <2>6, PageOf DEF ReadyPage
    <3>2. ~(Len(head.suites) > Len(LastOf(head.suites, SuitePage)))
      BY <2>5, <3>1 DEF suitesDropped
    <3>3. Len(head.suites) \in Nat /\ Len(LastOf(head.suites, SuitePage)) \in Nat
      BY <2>6, LastOfFits, LenProperties DEF Checks
    <3>4. QED BY <3>2, <3>3
  <2>8. LastOf(head.suites, SuitePage) = head.suites
    BY <2>6, <2>7, LastOfFits DEF Checks
  <2>9. ASSUME NEW i \in DOMAIN head.suites
        PROVE  Len(head.suites[i].runs) <= ReadyRunPage
    <3>1. /\ i \in DOMAIN view.suites
          /\ view.suites[i].runs = LastOf(head.suites[i].runs, ReadyRunPage)
          /\ view.suites[i].total = Len(head.suites[i].runs)
      <4>1. DOMAIN view.suites = DOMAIN head.suites
        BY <2>6, <2>8, PageOf DEF ReadyPage
      <4>2. \A k \in DOMAIN LastOf(head.suites, SuitePage) : view.suites[k] =
              LET x == LastOf(head.suites, SuitePage)[k]
              IN  [ app |-> x.app, container |-> x.container, concl |-> x.concl,
                    status |-> x.status, runs |-> LastOf(x.runs, ReadyRunPage),
                    total |-> Len(x.runs) ]
        BY <2>6, PageOf DEF ReadyPage
      <4> DEFINE l == LastOf(head.suites, SuitePage)
                 x == head.suites[i]
      <4>3. i \in DOMAIN l /\ l[i] = x
        BY <2>8
      <4> HIDE DEF view, l
      <4>4. view.suites[i] = [ app |-> l[i].app, container |-> l[i].container,
                               concl |-> l[i].concl, status |-> l[i].status,
                               runs |-> LastOf(l[i].runs, ReadyRunPage),
                               total |-> Len(l[i].runs) ]
        BY <4>2, <4>3 DEF l
      <4> HIDE DEF x
      <4>5. view.suites[i].runs = LastOf(x.runs, ReadyRunPage) /\ view.suites[i].total = Len(x.runs)
        BY <4>3, <4>4
      <4>6. QED BY <4>1, <4>5 DEF x
    <3>2. view.suites[i] \in SuiteSet(view)
      BY <3>1 DEF SuiteSet, Range
    <3>3. head.suites[i].runs \in Seq(Run)
      BY <2>6, RunsOfChecks DEF Suite
    <3>4. ~(Len(head.suites[i].runs) > Len(LastOf(head.suites[i].runs, ReadyRunPage)))
      BY <2>5, <3>1, <3>2
    <3>5. /\ Len(head.suites[i].runs) \in Nat
          /\ Len(LastOf(head.suites[i].runs, ReadyRunPage)) \in Nat
          /\ Len(LastOf(head.suites[i].runs, ReadyRunPage)) <= ReadyRunPage
      <4> DEFINE rs == head.suites[i].runs
      <4>1. rs \in Seq(Run) /\ ReadyRunPage \in Nat \ {0}
        BY <2>6, <3>3
      <4> HIDE DEF rs
      <4>2. LastOf(rs, ReadyRunPage) \in Seq(Run) /\ Len(LastOf(rs, ReadyRunPage)) <= ReadyRunPage
        BY <4>1, LastOfFits
      <4>3. Len(rs) \in Nat /\ Len(LastOf(rs, ReadyRunPage)) \in Nat
        BY <4>1, <4>2, LenProperties
      <4>4. QED BY <4>2, <4>3 DEF rs
    <3>6. QED BY <2>6, <3>4, <3>5
  <2>10. Whole(view, head)
    BY <2>5, <2>6, <2>9, WholePage DEF ReadyPage
  <2>11. failingChecks(view) = {} /\ pendingChecks(view) = {} /\ successfulChecks(view) # {}
         /\ awaitingChecks(view, required) = {}
    BY <1>3, <2>2, <2>3
  <2>12. Green(head)
    BY <2>10, <2>11, WholeIsGreen
  <2>13. Passed(head)
    BY <2>6, <2>10, <2>11, SuccessIsPassed DEF GitHubOK
  <2>14. Required \subseteq Reported(head)
    BY <2>4, <2>6, <2>10, <2>11, AwaitedReports
  <2>15. QED BY <2>4, <2>12, <2>13, <2>14
<1>5. ReadyIsTrue'
  BY <1>1, <1>4 DEF ReadyIsTrue
<1>6. GreenIsTrue' /\ FilterAccusedTruly'
  BY <1>1 DEF GreenIsTrue, FilterAccusedTruly, Says
<1>7. QED BY <1>5, <1>6

----------------------------------------------------------------------------
\* The fingerprint.

PayloadOf(view, st, o, tk) ==
  [ state |-> st, merged |-> st = "MERGED", mergeable |-> "MERGEABLE",
    mergeState |-> "CLEAN", draft |-> FALSE, author |-> author, oid |-> o, view |-> view,
    comments |-> Comments(tk), threads |-> Threads(tk), reviews |-> tk.reviews ]

\* The watch remembers what it read last: the page of an older state of the head
\* commit, or of a commit before it, and what was said then.
Remembered ==
  target = "pr" /\ base # Nil =>
    \E old \in Checks, st \in {"OPEN"} \cup EndStates, o \in Nat, tk \in Talk :
      /\ base = Snapshot(PayloadOf(Page(old, RunPage, FALSE), st, o, tk), SnapOpts)
      /\ seen = Fingerprint(PayloadOf(Page(old, RunPage, FALSE), st, o, tk))
      /\ o <= oid
      /\ o = oid => Older(old, head)
      /\ Follows(tk, talk, withdrawn)

\* A page that fits, field by field.
LEMMA PageThatFits ==
  ASSUME NEW checks \in Checks, CIAssumption, Len(checks.suites) <= SuitePage,
         \A i \in DOMAIN checks.suites : Len(checks.suites[i].runs) <= RunPage
  PROVE  Page(checks, RunPage, FALSE) =
           [ suites |-> [i \in DOMAIN checks.suites |->
                           [ app |-> checks.suites[i].app,
                             container |-> checks.suites[i].container,
                             concl |-> checks.suites[i].concl,
                             status |-> checks.suites[i].status,
                             runs |-> checks.suites[i].runs, total |-> 0 ]],
             total |-> Len(checks.suites), contexts |-> checks.contexts ]
<1> DEFINE l == LastOf(checks.suites, SuitePage)
           e(s, r) == [ app |-> s.app, container |-> s.container, concl |-> s.concl,
                        status |-> s.status, runs |-> r, total |-> 0 ]
<1>1. l = checks.suites
  BY LastOfFits DEF Checks, CIAssumption
<1>2. Page(checks, RunPage, FALSE) =
        [ suites |-> [i \in DOMAIN l |-> e(l[i], LastOf(l[i].runs, RunPage))],
          total |-> Len(checks.suites), contexts |-> checks.contexts ]
  BY DEF Page
<1>3. \A i \in DOMAIN checks.suites :
        LastOf(checks.suites[i].runs, RunPage) = checks.suites[i].runs
  BY RunsOfChecks, LastOfFits DEF Suite, CIAssumption
<1>4. [i \in DOMAIN l |-> e(l[i], LastOf(l[i].runs, RunPage))]
        = [i \in DOMAIN checks.suites |-> e(checks.suites[i], checks.suites[i].runs)]
  <2> HIDE DEF l, e
  <2> QED BY <1>1, <1>3
<1>5. QED BY <1>2, <1>4

\* What the fingerprint makes of a view's suites.
Sums(v) ==
  [i \in DOMAIN v.suites |->
     <<v.suites[i].app, v.suites[i].concl, v.suites[i].status,
       [j \in DOMAIN v.suites[i].runs |->
          <<v.suites[i].runs[j].name, v.suites[i].runs[j].concl,
            v.suites[i].runs[j].status, v.suites[i].runs[j].notes>>]>>]

\* What the fingerprint makes of comments and threads.
CommentSums(cs) == {c.id : c \in cs}
ThreadSums(ts) ==
  {<<t.id, t.resolved, [i \in DOMAIN t.comments |-> t.comments[i].id]>> : t \in ts}

\* What the fingerprint of a poll covers.
LEMMA FingerprintOf ==
  ASSUME NEW v, NEW s, NEW o, NEW tk
  PROVE  /\ Fingerprint(PayloadOf(v, s, o, tk)).suites = Sums(v)
         /\ Fingerprint(PayloadOf(v, s, o, tk)).contexts = v.contexts
         /\ Fingerprint(PayloadOf(v, s, o, tk)).head = <<s, s = "MERGED", "MERGEABLE", "CLEAN", o>>
         /\ Fingerprint(PayloadOf(v, s, o, tk)).comments = CommentSums(Comments(tk))
         /\ Fingerprint(PayloadOf(v, s, o, tk)).threads = ThreadSums(Threads(tk))
         /\ Fingerprint(PayloadOf(v, s, o, tk)).review = reviewDecision(tk.reviews)
<1> DEFINE p == PayloadOf(v, s, o, tk)
<1>1. /\ p.view = v /\ p.state = s /\ p.merged = (s = "MERGED") /\ p.mergeable = "MERGEABLE"
      /\ p.mergeState = "CLEAN" /\ p.oid = o
      /\ p.comments = Comments(tk) /\ p.threads = Threads(tk) /\ p.reviews = tk.reviews
  BY DEF PayloadOf
<1> HIDE DEF p
<1>2. /\ Fingerprint(p).suites = Sums(p.view)
      /\ Fingerprint(p).contexts = p.view.contexts
      /\ Fingerprint(p).head = <<p.state, p.merged, p.mergeable, p.mergeState, p.oid>>
      /\ Fingerprint(p).comments = CommentSums(p.comments)
      /\ Fingerprint(p).threads = ThreadSums(p.threads)
      /\ Fingerprint(p).review = reviewDecision(p.reviews)
  BY Zenon DEF Fingerprint, Sums, CommentSums, ThreadSums
<1>3. QED
  <2>1. /\ Fingerprint(p).suites = Sums(v) /\ Fingerprint(p).contexts = v.contexts
        /\ Fingerprint(p).head = <<s, s = "MERGED", "MERGEABLE", "CLEAN", o>>
        /\ Fingerprint(p).comments = CommentSums(Comments(tk))
        /\ Fingerprint(p).threads = ThreadSums(Threads(tk))
        /\ Fingerprint(p).review = reviewDecision(tk.reviews)
    BY <1>1, <1>2, Zenon
  <2>2. QED BY <2>1 DEF p

\* Two runs of numbers from 1 compare as their ends do.
LEMMA Ends ==
  ASSUME NEW a \in Nat, NEW b \in Nat
  PROVE  /\ 1 .. a \subseteq 1 .. b => a <= b
         /\ 1 .. a = 1 .. b => a = b
<1>1. ASSUME NEW c \in Nat, NEW d \in Nat, 1 .. c \subseteq 1 .. d
      PROVE  c <= d
  <2>1. CASE c = 0
    BY <2>1
  <2>2. CASE c # 0
    <3>1. c \in 1 .. c
      BY <2>2
    <3>2. QED BY <1>1, <3>1
  <2>3. QED BY <2>1, <2>2
<1>2. 1 .. a \subseteq 1 .. b => a <= b
  BY <1>1
<1>3. 1 .. a = 1 .. b => a <= b /\ b <= a
  BY <1>1
<1>4. QED BY <1>2, <1>3

\* When the fingerprint makes the same of two pages that hold all of their commits,
\* and one commit is an older state of the other, they are the same page.
LEMMA SamePage ==
  ASSUME NEW old \in Checks, NEW new \in Checks, CIAssumption, Older(old, new),
         Len(new.suites) <= SuitePage,
         \A i \in DOMAIN new.suites : Len(new.suites[i].runs) <= RunPage,
         Sums(Page(old, RunPage, FALSE)) = Sums(Page(new, RunPage, FALSE)),
         Page(old, RunPage, FALSE).contexts = Page(new, RunPage, FALSE).contexts
  PROVE  Page(old, RunPage, FALSE) = Page(new, RunPage, FALSE)
<1> DEFINE po == Page(old, RunPage, FALSE)
           pn == Page(new, RunPage, FALSE)
<1>1. Sums(po) = Sums(pn) /\ po.contexts = pn.contexts
  OBVIOUS
<1>2. /\ DOMAIN old.suites \subseteq DOMAIN new.suites
      /\ old.suites \in Seq(Suite) /\ new.suites \in Seq(Suite)
      /\ \A i \in DOMAIN old.suites : old.suites[i].runs \in Seq(Run)
      /\ \A i \in DOMAIN new.suites : new.suites[i].runs \in Seq(Run)
  BY RunsOfChecks DEF Older, Checks, Suite
<1>3. SuitePage \in Nat \ {0} /\ RunPage \in Nat \ {0}
  BY DEF CIAssumption
<1>4. Len(old.suites) <= SuitePage
  <2>1. 1 .. Len(old.suites) \subseteq 1 .. Len(new.suites)
        /\ Len(old.suites) \in Nat /\ Len(new.suites) \in Nat
    BY <1>2, LenProperties
  <2>2. Len(old.suites) <= Len(new.suites)
    BY <2>1, Ends
  <2>3. QED BY <1>3, <2>1, <2>2
<1>5. ASSUME NEW i \in DOMAIN old.suites
      PROVE  Len(old.suites[i].runs) <= RunPage
  <2>1. DOMAIN old.suites[i].runs \subseteq DOMAIN new.suites[i].runs
    BY DEF Older
  <2>2. 1 .. Len(old.suites[i].runs) \subseteq 1 .. Len(new.suites[i].runs)
        /\ Len(old.suites[i].runs) \in Nat /\ Len(new.suites[i].runs) \in Nat
    BY <1>2, <2>1, LenProperties
  <2>3. Len(old.suites[i].runs) <= Len(new.suites[i].runs)
    BY <2>2, Ends
  <2>4. Len(new.suites[i].runs) <= RunPage
    BY <1>2
  <2>5. QED BY <1>3, <2>2, <2>3, <2>4
<1> DEFINE part(s) == [ app |-> s.app, container |-> s.container, concl |-> s.concl,
                        status |-> s.status, runs |-> s.runs, total |-> 0 ]
           all(c) == [i \in DOMAIN c.suites |-> part(c.suites[i])]
<1>6. /\ po = [suites |-> all(old), total |-> Len(old.suites), contexts |-> old.contexts]
      /\ pn = [suites |-> all(new), total |-> Len(new.suites), contexts |-> new.contexts]
  BY <1>4, <1>5, PageThatFits
<1>6a. /\ po.suites = all(old) /\ po.contexts = old.contexts /\ po.total = Len(old.suites)
       /\ pn.suites = all(new) /\ pn.contexts = new.contexts /\ pn.total = Len(new.suites)
  <2> HIDE DEF po, pn, all
  <2> QED BY <1>6
<1>6b. /\ DOMAIN po.suites = DOMAIN old.suites /\ DOMAIN pn.suites = DOMAIN new.suites
       /\ \A i \in DOMAIN old.suites : po.suites[i] = part(old.suites[i])
       /\ \A i \in DOMAIN new.suites : pn.suites[i] = part(new.suites[i])
  <2> HIDE DEF po, pn, part
  <2> QED BY <1>6a
<1>7. DOMAIN old.suites = DOMAIN new.suites
  <2>1. DOMAIN Sums(po) = DOMAIN po.suites /\ DOMAIN Sums(pn) = DOMAIN pn.suites
    BY DEF Sums
  <2> HIDE DEF po, pn
  <2>2. QED BY <1>1, <1>6b, <2>1
<1>8. Len(old.suites) = Len(new.suites)
  <2>1. 1 .. Len(old.suites) = 1 .. Len(new.suites)
        /\ Len(old.suites) \in Nat /\ Len(new.suites) \in Nat
    BY <1>2, <1>7, LenProperties
  <2>2. QED BY <2>1, Ends
<1>9. ASSUME NEW i \in DOMAIN new.suites
      PROVE  part(old.suites[i]) = part(new.suites[i])
  <2> DEFINE x == old.suites[i]
             y == new.suites[i]
             runsum(s) == [j \in DOMAIN s.runs |->
                             <<s.runs[j].name, s.runs[j].concl, s.runs[j].status, s.runs[j].notes>>]
  <2>1. Sums(po)[i] = <<x.app, x.concl, x.status, runsum(x)>>
        /\ Sums(pn)[i] = <<y.app, y.concl, y.status, runsum(y)>>
    <3>2. /\ i \in DOMAIN po.suites /\ i \in DOMAIN pn.suites
          /\ po.suites[i] = part(x) /\ pn.suites[i] = part(y)
      <4> HIDE DEF po, pn, part
      <4> QED BY <1>7, <1>6b
    <3>3. Sums(po)[i] = <<po.suites[i].app, po.suites[i].concl, po.suites[i].status, runsum(po.suites[i])>>
      BY <3>2 DEF Sums
    <3>4. Sums(pn)[i] = <<pn.suites[i].app, pn.suites[i].concl, pn.suites[i].status, runsum(pn.suites[i])>>
      BY <3>2 DEF Sums
    <3> HIDE DEF po, pn, x, y
    <3>5. QED BY <3>2, <3>3, <3>4
  <2>2. x.app = y.app /\ x.concl = y.concl /\ x.status = y.status /\ runsum(x) = runsum(y)
    <3> HIDE DEF runsum, po, pn, x, y
    <3> QED BY <1>1, <2>1
  <2>3. x.container = y.container /\ \A j \in DOMAIN x.runs :
          \/ x.runs[j] = y.runs[j]
          \/ x.runs[j].status = "QUEUED" /\ y.runs[j].status = "COMPLETED"
    BY <1>7 DEF Older
  <2>4. x.runs \in Seq(Run) /\ y.runs \in Seq(Run)
    BY <1>2, <1>7
  <2> HIDE DEF x, y
  <2>5. DOMAIN x.runs = DOMAIN y.runs
    <3>1. DOMAIN runsum(x) = DOMAIN x.runs /\ DOMAIN runsum(y) = DOMAIN y.runs
      OBVIOUS
    <3> HIDE DEF runsum
    <3>2. QED BY <2>2, <3>1
  <2>6. ASSUME NEW j \in DOMAIN x.runs
        PROVE  x.runs[j] = y.runs[j]
    <3>1. /\ runsum(x)[j] = <<x.runs[j].name, x.runs[j].concl, x.runs[j].status, x.runs[j].notes>>
          /\ runsum(y)[j] = <<y.runs[j].name, y.runs[j].concl, y.runs[j].status, y.runs[j].notes>>
      BY <2>5
    <3> HIDE DEF runsum
    <3>2. x.runs[j].status = y.runs[j].status
      BY <2>2, <3>1
    <3>3. QED BY <2>3, <3>2
  <2>7. x.runs = y.runs
    <3>1. /\ DOMAIN x.runs = 1 .. Len(x.runs) /\ DOMAIN y.runs = 1 .. Len(y.runs)
          /\ Len(x.runs) \in Nat /\ Len(y.runs) \in Nat
      BY <2>4, LenProperties
    <3>2. Len(x.runs) = Len(y.runs)
      BY <2>5, <3>1, Ends
    <3>3. QED BY <2>4, <2>6, <3>1, <3>2, SeqEqual
  <2>8. part(x) = part(y)
    BY <2>2, <2>3, <2>7
  <2>9. QED BY <2>8 DEF x, y
<1>10. all(old) = all(new)
  <2> HIDE DEF part
  <2> QED BY <1>7, <1>9
<1>11. old.contexts = new.contexts
  <2> HIDE DEF po, pn
  <2> QED BY <1>1, <1>6a
<1>12. QED
  <2> HIDE DEF all, po, pn
  <2>1. po = pn
    BY <1>6, <1>8, <1>10, <1>11
  <2>2. QED BY <2>1 DEF po, pn

\* Between snapshots that agree on all else, only threads and comments are news.
LEMMA OnlyTalkDiffers ==
  ASSUME NEW p, NEW c, p.state = c.state, p.merged = c.merged, p.conflict = c.conflict,
         p.ci = c.ci, p.rulesetError = c.rulesetError, p.review = c.review, p.oid = c.oid
  PROVE  Diff(p, c, FALSE)
           = ForType("new-unresolved-threads", diffNewThreads(p.threads, c.threads))
             \cup ForType("new-general-comments", c.comments \ p.comments)
<1>1. ReviewEvents(p.review, c.review) = {} /\ FilterEvents(p, c) = {}
  BY DEF ReviewEvents, FilterEvents
<1>2. Clean(p) = Clean(c)
  BY DEF Clean
<1>3. /\ ForType("new-failing-checks", c.ci.failing \ p.ci.failing) = {}
      /\ ForType("check-annotations", c.ci.annotations \ p.ci.annotations) = {}
  BY DEF ForType
<1>4. QED BY <1>1, <1>2, <1>3 DEF Diff

\* A thread, field by field.
LEMMA ThreadFacts ==
  ASSUME NEW tk \in Talk, NEW t \in ThreadIds, tk.replies[t] > 0
  PROVE  /\ ThreadOf(tk, t).id = t /\ ThreadOf(tk, t).resolved = (t \in tk.resolved)
         /\ ThreadOf(tk, t).comments # <<>>
         /\ isAcknowledged(Last(ThreadOf(tk, t).comments)) <=> t \in tk.acked
         /\ {c.id : c \in Range(ThreadOf(tk, t).comments)} = {<<t, i>> : i \in 1 .. tk.replies[t]}
         /\ [i \in DOMAIN ThreadOf(tk, t).comments |-> ThreadOf(tk, t).comments[i].id]
              = [i \in 1 .. tk.replies[t] |-> <<t, i>>]
<1> DEFINE n == tk.replies[t]
           c(i) == [id |-> <<t, i>>, author |-> Viewer, acked |-> t \in tk.acked /\ i = n]
           cs == [i \in 1 .. n |-> c(i)]
<1>1. n \in Nat /\ n > 0
  BY DEF Talk
<1>2. /\ ThreadOf(tk, t).id = t /\ ThreadOf(tk, t).resolved = (t \in tk.resolved)
      /\ ThreadOf(tk, t).comments = cs
  BY DEF ThreadOf
<1>3. \A i : c(i).id = <<t, i>> /\ c(i).acked = (t \in tk.acked /\ i = n)
  OBVIOUS
<1> HIDE DEF n, c
<1>4. cs \in Seq({c(i) : i \in 1 .. n}) /\ Len(cs) = n /\ DOMAIN cs = 1 .. n
  BY <1>1
<1>5. n \in 1 .. n /\ \A i \in 1 .. n : cs[i] = c(i)
  BY <1>1
<1> HIDE DEF cs
<1>6. cs # <<>> /\ Last(cs) = c(n)
  BY <1>1, <1>4, <1>5 DEF Last
<1>7. isAcknowledged(Last(cs)) <=> t \in tk.acked
  BY <1>3, <1>6 DEF isAcknowledged
<1>8. {x.id : x \in Range(cs)} = {<<t, i>> : i \in 1 .. n}
  <2>1. \A i \in 1 .. n : cs[i].id = <<t, i>>
    BY <1>3, <1>5
  <2>2. Range(cs) = {cs[i] : i \in 1 .. n}
    BY <1>4 DEF Range
  <2> DEFINE A == {x.id : x \in Range(cs)}
             B == {<<t, i>> : i \in 1 .. n}
  <2>3. ASSUME NEW a \in A PROVE a \in B
    <3>1. PICK i \in 1 .. n : a = cs[i].id
      BY <2>2
    <3>2. QED BY <2>1, <3>1
  <2>4. ASSUME NEW b \in B PROVE b \in A
    <3>1. PICK i \in 1 .. n : b = <<t, i>>
      OBVIOUS
    <3>2. cs[i] \in Range(cs) /\ cs[i].id = b
      BY <2>1, <2>2, <3>1
    <3>3. QED BY <3>2
  <2> HIDE DEF A, B
  <2>5. A = B
    BY <2>3, <2>4
  <2>6. QED BY <2>5 DEF A, B
<1>9. [i \in DOMAIN cs |-> cs[i].id] = [i \in 1 .. n |-> <<t, i>>]
  BY <1>3, <1>4, <1>5
<1>10. QED BY <1>2, <1>6, <1>7, <1>8, <1>9 DEF n

\* The comments and threads that return when the fingerprint holds the same of them
\* are those whose thumbs-up was taken back.
LEMMA OnlyTheWithdrawnReturn ==
  ASSUME NEW old \in Talk, NEW new \in Talk, NEW taken, CIAssumption, Follows(old, new, taken),
         NEW p, p.threads = Threads(old), NEW q, q.threads = Threads(new),
         CommentSums(Comments(old)) = CommentSums(Comments(new)),
         ThreadSums(Threads(old)) = ThreadSums(Threads(new))
  PROVE  /\ OpenComments(Comments(new), {}) \ OpenComments(Comments(old), {}) \subseteq taken
         /\ \A x \in diffNewThreads(OpenThreads(p), OpenThreads(q)) : x.id \in taken
<1>0. /\ old.posted \subseteq CommentIds /\ new.posted \subseteq CommentIds
      /\ \A t \in ThreadIds : old.replies[t] \in Nat /\ new.replies[t] \in Nat
      /\ CommentIds \cap ThreadIds = {}
  BY DEF Talk, CIAssumption
<1>1. ASSUME NEW tk
      PROVE  /\ CommentSums(Comments(tk)) = tk.posted
             /\ OpenComments(Comments(tk), {}) = tk.posted \ tk.acked
  <2> DEFINE c(x) == [id |-> x, author |-> Viewer, acked |-> x \in tk.acked]
  <2>1. \A x : c(x).id = x /\ c(x).acked = (x \in tk.acked)
    OBVIOUS
  <2>2. Comments(tk) = {c(x) : x \in tk.posted}
    BY DEF Comments
  <2> HIDE DEF c
  <2>3. CommentSums(Comments(tk)) = {x \in tk.posted : TRUE}
    BY <2>1, <2>2 DEF CommentSums
  <2>4. OpenComments(Comments(tk), {}) = {d.id : d \in {e \in Comments(tk) : ~e.acked}}
    BY DEF OpenComments, isAcknowledged
  <2>5. {e \in Comments(tk) : ~e.acked} = {c(x) : x \in tk.posted \ tk.acked}
    <3>1. ASSUME NEW e \in Comments(tk), ~e.acked
          PROVE  e \in {c(x) : x \in tk.posted \ tk.acked}
      <4>1. PICK x \in tk.posted : e = c(x)
        BY <2>2
      <4>2. QED BY <2>1, <3>1, <4>1
    <3>2. ASSUME NEW x \in tk.posted \ tk.acked
          PROVE  c(x) \in {e \in Comments(tk) : ~e.acked}
      BY <2>1, <2>2
    <3>3. QED BY <3>1, <3>2
  <2>6. {d.id : d \in {c(x) : x \in tk.posted \ tk.acked}} = tk.posted \ tk.acked
    BY <2>1
  <2>7. QED BY <2>3, <2>4, <2>5, <2>6
<1>2. OpenComments(Comments(new), {}) \ OpenComments(Comments(old), {}) \subseteq taken
  BY <1>0, <1>1 DEF Follows
<1>3. ASSUME NEW x \in diffNewThreads(OpenThreads(p), OpenThreads(q))
      PROVE  x.id \in taken
  <2> DEFINE ids(u) == {c.id : c \in Range(u.comments)}
             open(ts) == {u \in ts : ~u.resolved /\ (u.comments # <<>> => ~isAcknowledged(Last(u.comments)))}
  <2>1. /\ x \in {[id |-> u.id, ids |-> ids(u)] : u \in open(Threads(new))}
        /\ \A y \in {[id |-> u.id, ids |-> ids(u)] : u \in open(Threads(old))} :
             ~(y.id = x.id /\ x.ids \subseteq y.ids)
    BY DEF diffNewThreads, OpenThreads
  <2>2. PICK u \in open(Threads(new)) : x = [id |-> u.id, ids |-> ids(u)]
    BY <2>1
  <2>3. PICK t \in ThreadIds : new.replies[t] > 0 /\ u = ThreadOf(new, t)
    BY <2>2 DEF Threads
  <2>4. x.id = t /\ t \notin new.acked /\ t \notin new.resolved
        /\ x.ids = {<<t, i>> : i \in 1 .. new.replies[t]}
    BY <2>2, <2>3, ThreadFacts
  <2>5. <<t, FALSE, [i \in 1 .. new.replies[t] |-> <<t, i>>]>> \in ThreadSums(Threads(new))
    <3>1. <<u.id, u.resolved, [i \in DOMAIN u.comments |-> u.comments[i].id]>>
            \in ThreadSums(Threads(new))
      BY <2>2 DEF ThreadSums
    <3>2. /\ u.id = t /\ u.resolved = FALSE
          /\ [i \in DOMAIN u.comments |-> u.comments[i].id]
               = [i \in 1 .. new.replies[t] |-> <<t, i>>]
      BY <2>2, <2>3, <2>4, ThreadFacts
    <3>3. QED BY <3>1, <3>2
  <2> DEFINE sum(z) == <<z.id, z.resolved, [i \in DOMAIN z.comments |-> z.comments[i].id]>>
             it == <<t, FALSE, [i \in 1 .. new.replies[t] |-> <<t, i>>]>>
  <2>5a. it \in {sum(z) : z \in Threads(old)}
    BY <2>5 DEF ThreadSums
  <2>5b. PICK v \in Threads(old) : it = sum(v)
    <3> HIDE DEF sum, it
    <3> QED BY <2>5a
  <2>6. v.id = t /\ v.resolved = FALSE
        /\ [i \in 1 .. new.replies[t] |-> <<t, i>>] = [i \in DOMAIN v.comments |-> v.comments[i].id]
    <3> DEFINE f == [i \in 1 .. new.replies[t] |-> <<t, i>>]
               g == [i \in DOMAIN v.comments |-> v.comments[i].id]
    <3>1. <<t, FALSE, f>> = <<v.id, v.resolved, g>>
      BY <2>5b
    <3> HIDE DEF f, g
    <3>2. v.id = t /\ v.resolved = FALSE /\ f = g
      BY <3>1
    <3>3. QED BY <3>2 DEF f, g
  <2>7. PICK w \in ThreadIds : old.replies[w] > 0 /\ v = ThreadOf(old, w)
    BY DEF Threads
  <2>8. w = t /\ ~v.resolved
        /\ [i \in 1 .. new.replies[t] |-> <<t, i>>] = [i \in 1 .. old.replies[t] |-> <<t, i>>]
    BY <2>6, <2>7, ThreadFacts
  <2>9. old.replies[t] = new.replies[t]
    <3>1. 1 .. new.replies[t] = 1 .. old.replies[t]
      BY <2>8
    <3>2. QED BY <1>0, <3>1, Ends
  <2>10. v.id = t /\ ids(v) = x.ids
    BY <2>4, <2>7, <2>8, <2>9, ThreadFacts
  <2>11. v \notin open(Threads(old))
    <3>1. SUFFICES ASSUME v \in open(Threads(old))
                   PROVE  FALSE
      OBVIOUS
    <3>2. [id |-> v.id, ids |-> ids(v)] \in {[id |-> z.id, ids |-> ids(z)] : z \in open(Threads(old))}
      BY <3>1
    <3> HIDE DEF ids, open
    <3>3. QED BY <2>1, <2>4, <2>10, <3>2
  <2>12. t \in old.acked
    BY <2>6, <2>7, <2>8, <2>11, ThreadFacts
  <2>13. t \in taken
    BY <1>0, <2>4, <2>9, <2>12 DEF Follows
  <2>14. QED BY <2>4, <2>13
<1>4. QED BY <1>2, <1>3

\* A poll that finds the fingerprint it saw last tells of nothing but what lost its
\* thumbs-up, while the head commit fits the pages.
LEMMA SameFingerprintIsSilent ==
  ASSUME GitHubOK, CIAssumption, Remembered, PollPR
  PROVE  SameIsSilent'
<1> DEFINE read == Payload(WatchPage)
           s == Snapshot(read, SnapOpts)
<1>1. /\ target = "pr" /\ head' = head /\ read = PayloadOf(WatchPage, state, oid, talk)
      /\ said'.events = ConsumePR(base, s, FALSE).events
      /\ said'.same = (base # Nil /\ seen = Fingerprint(read)) /\ said'.again = withdrawn
  BY DEF PollPR, github, Payload, PayloadOf
<1>2. SUFFICES ASSUME base # Nil, seen = Fingerprint(read), WholeRuns, Len(head.suites) <= SuitePage
               PROVE  \A e \in ConsumePR(base, s, FALSE).events :
                        \/ e.type = "new-general-comments" /\ e.news \subseteq withdrawn
                        \/ e.type = "new-unresolved-threads"
                              /\ {t.id : t \in e.news} \subseteq withdrawn
  BY <1>1 DEF SameIsSilent, WholeRuns
<1>3. PICK old \in Checks, st \in {"OPEN"} \cup EndStates, o \in Nat, tk \in Talk :
        /\ base = Snapshot(PayloadOf(Page(old, RunPage, FALSE), st, o, tk), SnapOpts)
        /\ seen = Fingerprint(PayloadOf(Page(old, RunPage, FALSE), st, o, tk))
        /\ o <= oid
        /\ o = oid => Older(old, head)
        /\ Follows(tk, talk, withdrawn)
  BY <1>1, <1>2 DEF Remembered
<1>4. WatchPage = Page(head, RunPage, FALSE)
  BY DEF WatchPage
<1>5. Fingerprint(PayloadOf(Page(old, RunPage, FALSE), st, o, tk))
        = Fingerprint(PayloadOf(Page(head, RunPage, FALSE), state, oid, talk))
  BY <1>1, <1>2, <1>3, <1>4
<1>6. /\ st = state /\ o = oid
      /\ Sums(Page(old, RunPage, FALSE)) = Sums(Page(head, RunPage, FALSE))
      /\ Page(old, RunPage, FALSE).contexts = Page(head, RunPage, FALSE).contexts
      /\ CommentSums(Comments(tk)) = CommentSums(Comments(talk))
      /\ ThreadSums(Threads(tk)) = ThreadSums(Threads(talk))
      /\ reviewDecision(tk.reviews) = reviewDecision(talk.reviews)
  <2> DEFINE po == Page(old, RunPage, FALSE)
             pn == Page(head, RunPage, FALSE)
             f1 == Fingerprint(PayloadOf(po, st, o, tk))
             f2 == Fingerprint(PayloadOf(pn, state, oid, talk))
  <2>1. /\ f1.head = <<st, st = "MERGED", "MERGEABLE", "CLEAN", o>>
        /\ f1.comments = CommentSums(Comments(tk)) /\ f1.threads = ThreadSums(Threads(tk))
        /\ f1.review = reviewDecision(tk.reviews)
        /\ f1.suites = Sums(po) /\ f1.contexts = po.contexts
    <3> HIDE DEF po
    <3> QED BY FingerprintOf
  <2>2. /\ f2.head = <<state, state = "MERGED", "MERGEABLE", "CLEAN", oid>>
        /\ f2.comments = CommentSums(Comments(talk)) /\ f2.threads = ThreadSums(Threads(talk))
        /\ f2.review = reviewDecision(talk.reviews)
        /\ f2.suites = Sums(pn) /\ f2.contexts = pn.contexts
    <3> HIDE DEF pn
    <3> QED BY FingerprintOf
  <2>3. f1 = f2
    BY <1>5
  <2> HIDE DEF f1, f2
  <2>4. <<st, st = "MERGED", "MERGEABLE", "CLEAN", o>>
          = <<state, state = "MERGED", "MERGEABLE", "CLEAN", oid>>
    BY <2>1, <2>2, <2>3
  <2> HIDE DEF po, pn
  <2>5. st = state /\ o = oid /\ Sums(po) = Sums(pn) /\ po.contexts = pn.contexts
    BY <2>1, <2>2, <2>3, <2>4
  <2>6. QED BY <2>1, <2>2, <2>3, <2>5 DEF po, pn
<1>7. head \in Checks /\ \A i \in DOMAIN head.suites : Len(head.suites[i].runs) <= RunPage
  BY <1>2 DEF GitHubOK, TypeOK, WholeRuns, SuiteSet, Range
<1>8. Page(old, RunPage, FALSE) = Page(head, RunPage, FALSE)
  <2>1. old \in Checks /\ Older(old, head) /\ Len(head.suites) <= SuitePage
    BY <1>2, <1>3, <1>6
  <2> HIDE DEF read, s
  <2>2. QED BY <1>6, <1>7, <2>1, SamePage
<1> DEFINE then == PayloadOf(WatchPage, state, oid, tk)
<1>9. /\ base = Snapshot(then, SnapOpts) /\ then.threads = Threads(tk)
      /\ read.threads = Threads(talk)
  <2>1. base = Snapshot(then, SnapOpts)
    <3> HIDE DEF read, s
    <3> QED BY <1>3, <1>4, <1>6, <1>8
  <2>2. then.threads = Threads(tk)
    BY DEF PayloadOf
  <2>3. PayloadOf(WatchPage, state, oid, talk).threads = Threads(talk)
    BY DEF PayloadOf
  <2> HIDE DEF read, then, s
  <2>4. QED BY <1>1, <2>1, <2>2, <2>3
<1>10. SnapOpts.shed = {} /\ SnapOpts.ignored = {}
  BY DEF SnapOpts
<1>11. ConsumePR(base, s, FALSE).events = Diff(base, s, FALSE)
  <2>1. CarryForwardShed(base, s) = s
    BY <1>10, CarriesNothing
  <2> HIDE DEF s
  <2>2. QED BY <1>2, <2>1 DEF ConsumePR
<1>12. /\ base.state = s.state /\ base.merged = s.merged /\ base.conflict = s.conflict
       /\ base.ci = s.ci /\ base.rulesetError = s.rulesetError /\ base.review = s.review
       /\ base.oid = s.oid
       /\ base.threads = OpenThreads(then) /\ s.threads = OpenThreads(read)
       /\ base.comments = OpenComments(Comments(tk), {})
       /\ s.comments = OpenComments(Comments(talk), {})
  <2>1. /\ then.state = read.state /\ then.merged = read.merged /\ then.mergeable = read.mergeable
        /\ then.view = read.view /\ then.oid = read.oid
        /\ then.comments = Comments(tk) /\ read.comments = Comments(talk)
        /\ then.reviews = tk.reviews /\ read.reviews = talk.reviews
    BY <1>1 DEF PayloadOf
  <2> HIDE DEF then, read
  <2>2. QED BY <1>6, <1>9, <1>10, <2>1 DEF Snapshot
<1>13. Diff(base, s, FALSE)
         = ForType("new-unresolved-threads", diffNewThreads(base.threads, s.threads))
           \cup ForType("new-general-comments", s.comments \ base.comments)
  <2> HIDE DEF s
  <2> QED BY <1>12, OnlyTalkDiffers
<1>14. /\ s.comments \ base.comments \subseteq withdrawn
       /\ \A x \in diffNewThreads(base.threads, s.threads) : x.id \in withdrawn
  <2>1. talk \in Talk
    BY DEF GitHubOK, TypeOK
  <2> HIDE DEF then, read, s
  <2>2. /\ OpenComments(Comments(talk), {}) \ OpenComments(Comments(tk), {}) \subseteq withdrawn
        /\ \A x \in diffNewThreads(OpenThreads(then), OpenThreads(read)) : x.id \in withdrawn
    BY <1>3, <1>6, <1>9, <2>1, OnlyTheWithdrawnReturn
  <2>3. QED BY <1>12, <2>2
<1> HIDE DEF s
<1>15. \A e \in Diff(base, s, FALSE) :
         \/ e.type = "new-general-comments" /\ e.news \subseteq withdrawn
         \/ e.type = "new-unresolved-threads" /\ {t.id : t \in e.news} \subseteq withdrawn
  <2> DEFINE ts == diffNewThreads(base.threads, s.threads)
             cs == s.comments \ base.comments
  <2>1. \A type, news : \A e \in ForType(type, news) : e.type = type /\ e.news = news
    BY DEF ForType
  <2> HIDE DEF ts, cs
  <2>2. \A e \in Diff(base, s, FALSE) :
          \/ e.type = "new-unresolved-threads" /\ e.news = ts
          \/ e.type = "new-general-comments" /\ e.news = cs
    BY <1>13, <2>1 DEF ts, cs
  <2>3. cs \subseteq withdrawn /\ {t.id : t \in ts} \subseteq withdrawn
    BY <1>14 DEF ts, cs
  <2>4. QED BY <2>2, <2>3
<1>16. QED BY <1>11, <1>15

\* And it remembers what it has read.
LEMMA PollPRRemembers ==
  ASSUME GitHubOK, CIAssumption, PollPR
  PROVE  Remembered'
<1>1. /\ base' = CarryForwardShed(base, Snapshot(Payload(WatchPage), SnapOpts))
      /\ seen' = Fingerprint(Payload(WatchPage)) /\ withdrawn' = {}
      /\ head' = head /\ oid' = oid /\ state' = state /\ talk' = talk /\ author' = author
      /\ readable' = readable /\ filter' = filter
  BY DEF PollPR, ConsumePR, github, asked
<1>2. base' = Snapshot(Payload(WatchPage), SnapOpts)
  <2>1. SnapOpts.shed = {}
    BY DEF SnapOpts
  <2>2. QED BY <1>1, <2>1, CarriesNothing
<1>4. SnapOpts' = SnapOpts
  BY <1>1 DEF SnapOpts, Ruleset
<1>5. /\ Payload(WatchPage) = PayloadOf(Page(head, RunPage, FALSE), state, oid, talk)
      /\ PayloadOf(Page(head, RunPage, FALSE), state, oid, talk)'
           = PayloadOf(Page(head, RunPage, FALSE), state, oid, talk)
  BY <1>1 DEF Payload, PayloadOf, WatchPage
<1>6. Older(head, head) /\ head \in Checks /\ state \in {"OPEN"} \cup EndStates
      /\ oid \in Nat /\ oid <= oid /\ talk \in Talk /\ Follows(talk, talk, {})
  BY DEF Older, Follows, Talk, GitHubOK, TypeOK
<1>7. QED BY <1>1, <1>2, <1>4, <1>5, <1>6 DEF Remembered

\* What is remembered stays so while the commit's checks only move on.
LEMMA StaysRemembered ==
  ASSUME Remembered, UNCHANGED <<author, readable, filter, target, base, seen>>,
         oid \in Nat, oid' \in Nat, oid <= oid',
         oid' = oid => \A old : Older(old, head) => Older(old, head'),
         \A old \in Talk : Follows(old, talk, withdrawn) => Follows(old, talk', withdrawn')
  PROVE  Remembered'
<1>1. UNCHANGED <<author, readable, filter, target, base, seen>>
  OBVIOUS
<1>2. SnapOpts' = SnapOpts
  BY <1>1 DEF SnapOpts, Ruleset
<1>3. SUFFICES ASSUME target = "pr", base # Nil
               PROVE  Remembered'
  BY <1>1 DEF Remembered
<1>4. PICK old \in Checks, st \in {"OPEN"} \cup EndStates, o \in Nat, tk \in Talk :
        /\ base = Snapshot(PayloadOf(Page(old, RunPage, FALSE), st, o, tk), SnapOpts)
        /\ seen = Fingerprint(PayloadOf(Page(old, RunPage, FALSE), st, o, tk))
        /\ o <= oid
        /\ o = oid => Older(old, head)
        /\ Follows(tk, talk, withdrawn)
  BY <1>3 DEF Remembered
<1> DEFINE p == PayloadOf(Page(old, RunPage, FALSE), st, o, tk)
<1>5. p' = p
  BY <1>1 DEF PayloadOf
<1>6. base' = Snapshot(p', SnapOpts') /\ seen' = Fingerprint(p')
  BY <1>1, <1>2, <1>4, <1>5
<1>7. o <= oid' /\ (o = oid' => Older(old, head')) /\ Follows(tk, talk', withdrawn')
  BY <1>4
<1>8. QED
  BY <1>6, <1>7 DEF Remembered

----------------------------------------------------------------------------
\* The theorems.

\* The inductive invariant: what GitHub keeps, what the watch remembers, and that
\* the last thing said was true.
IInv ==
  /\ GitHubOK /\ Remembered
  /\ GreenIsTrue /\ ReadyIsTrue /\ FilterAccusedTruly /\ SameIsSilent

\* It holds at first: nothing has been read.
LEMMA InitOK ==
  ASSUME CIAssumption, Init
  PROVE  IInv
<1>1. head = [suites |-> <<>>, contexts |-> {}] /\ head.suites = <<>> /\ DOMAIN <<>> = {}
  BY DEF Init, NoChecks
<1>2. head \in Checks
  BY <1>1, EmptySeq DEF Checks
<1>2a. talk \in Talk /\ withdrawn = {}
  BY EmptySeq DEF Init, NoTalk, Talk
<1>3. GitHubOK
  BY <1>1, <1>2, <1>2a DEF Init, GitHubOK, TypeOK, Consistent, Distinct
<1>4. Remembered
  BY DEF Init, Remembered
<1>5. GreenIsTrue /\ ReadyIsTrue /\ FilterAccusedTruly /\ SameIsSilent
  BY DEF Init, Silent, GreenIsTrue, ReadyIsTrue, FilterAccusedTruly, SameIsSilent, Says, CIAssumption
<1>6. QED BY <1>3, <1>4, <1>5 DEF IInv

\* Every step keeps it.
LEMMA StepOK ==
  ASSUME CIAssumption, IInv, [Next]_vars
  PROVE  IInv'
<1>1. GitHubOK /\ Remembered
  BY DEF IInv
<1>2. CASE GitHub
  <2>1. GitHubOK' /\ said' = Silent
    BY <1>1, <1>2, GitHubKeeps
  <2>2. Remembered'
    <3>1. oid \in Nat /\ oid' \in Nat
      BY <1>1, <2>1 DEF GitHubOK, TypeOK
    <3>2. /\ UNCHANGED <<author, readable, filter, target, base, seen>> /\ oid <= oid'
          /\ oid' = oid => \A old : Older(old, head) => Older(old, head')
          /\ \A old \in Talk : Follows(old, talk, withdrawn) => Follows(old, talk', withdrawn')
      BY <1>1, <1>2, GitHubKeeps DEF asked
    <3>3. QED BY <1>1, <3>1, <3>2, StaysRemembered
  <2>3. (GreenIsTrue /\ ReadyIsTrue /\ FilterAccusedTruly /\ SameIsSilent)'
    BY <2>1 DEF Silent, GreenIsTrue, ReadyIsTrue, FilterAccusedTruly, SameIsSilent, Says, CIAssumption
  <2>4. QED BY <2>1, <2>2, <2>3 DEF IInv
<1>3. CASE PollPR
  <2>1. GitHubOK'
    BY <1>1, <1>3 DEF PollPR, github, asked, GitHubOK, TypeOK
  <2>2. QED
    BY <1>1, <1>3, <2>1, PollPRTells, SameFingerprintIsSilent, PollPRRemembers DEF IInv
<1>4. CASE PollRef
  <2>1. GitHubOK' /\ target' = "ref" /\ said'.same = FALSE
    BY <1>1, <1>4 DEF PollRef, Silent, github, asked, GitHubOK, TypeOK
  <2>2. QED
    BY <1>1, <1>4, <2>1, PollRefTells DEF IInv, Remembered, SameIsSilent
<1>5. CASE ReadReadiness
  <2>1. /\ said'.same = FALSE
        /\ UNCHANGED <<head, oid, state, talk, changes, author, readable, filter, target, base, seen,
                       withdrawn>>
    BY <1>5 DEF ReadReadiness, Silent, github, asked
  <2>2. GitHubOK'
    BY <1>1, <2>1 DEF GitHubOK, TypeOK
  <2>3. Remembered'
    <3>1. oid \in Nat /\ oid' \in Nat /\ oid <= oid'
      BY <1>1, <2>1 DEF GitHubOK, TypeOK
    <3>2. QED BY <1>1, <2>1, <3>1, StaysRemembered
  <2>4. QED
    BY <1>1, <1>5, <2>1, <2>2, <2>3, ReadinessTells DEF IInv, SameIsSilent
<1>6. CASE UNCHANGED vars
  <2>1. UNCHANGED <<head, oid, state, talk, changes, author, readable, filter, target, base, seen,
                    said, withdrawn>>
    BY <1>6 DEF vars, github, asked
  <2>2. GitHubOK'
    BY <1>1, <2>1 DEF GitHubOK, TypeOK
  <2>3. Remembered'
    <3>1. oid \in Nat /\ oid' \in Nat /\ oid <= oid'
      BY <1>1, <2>1 DEF GitHubOK, TypeOK
    <3>2. QED BY <1>1, <2>1, <3>1, StaysRemembered
  <2>4. (GreenIsTrue /\ ReadyIsTrue /\ FilterAccusedTruly /\ SameIsSilent)'
    BY <2>1 DEF IInv, GreenIsTrue, ReadyIsTrue, FilterAccusedTruly, SameIsSilent, Says, WholeRuns
  <2>5. QED BY <2>2, <2>3, <2>4 DEF IInv
<1>7. QED BY <1>2, <1>3, <1>4, <1>5, <1>6 DEF Next

\* Whatever the pages cut off, the commit on GitHub stays consistent, the watch
\* remembers an older state of it, and what is said of it is true.
THEOREM CIInvariant == Spec => []IInv
<1>1. Init => IInv
  BY InitOK, CIAssumption
<1>2. IInv /\ [Next]_vars => IInv'
  BY StepOK, CIAssumption
<1>3. QED BY <1>1, <1>2, PTL DEF Spec

\* A pull request or branch announced green is green on GitHub, with every required
\* check reported when the ruleset can be read (consumer.go, ciAllGreen).
THEOREM AnnouncedGreenIsGreen == Spec => []GreenIsTrue
<1>1. IInv => GreenIsTrue
  BY DEF IInv
<1>2. QED BY <1>1, CIInvariant, PTL

\* A pull request in the ready bucket is green, with evidence, a readable ruleset
\* and every required check, whatever its pages cut off (readiness.go).
THEOREM ReadyBucketIsReady == Spec => []ReadyIsTrue
<1>1. IInv => ReadyIsTrue
  BY DEF IInv
<1>2. QED BY <1>1, CIInvariant, PTL

\* The annotation filter is accused only of a name that GitHub does not have.
THEOREM FilterIsNotAccusedFalsely == Spec => []FilterAccusedTruly
<1>1. IInv => FilterAccusedTruly
  BY DEF IInv
<1>2. QED BY <1>1, CIInvariant, PTL

\* While the pages are whole, an equal fingerprint means that the diff tells of nothing
\* but comments and threads whose thumbs-up was taken back since (monitor.go,
\* Fingerprint and isAcknowledged): backing off delays no other news.
THEOREM EqualFingerprintsAreSilent == Spec => []SameIsSilent
<1>1. IInv => SameIsSilent
  BY DEF IInv
<1>2. QED BY <1>1, CIInvariant, PTL
=============================================================================
