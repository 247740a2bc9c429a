-------------------------- MODULE CoverWatchProofs --------------------------
(***************************************************************************)
(* Proofs about CoverWatch, for any number of changes, faults and news:    *)
(* a watch that moves between the hub and a sub-daemon loses no change, and *)
(* reports none twice.                                                     *)
(***************************************************************************)
EXTENDS CoverWatch, SequenceTheorems, TLAPS

Told(c) == heard[c] > 0
Queued(c) == \E i \in 1..Len(queue) : queue[i].change = c

\* Where the watch has no source.
Between == {"off", "start", "route", "fetch", "open"}

\* Whether the source's baseline may still be diffed against.
Attached == serving \/ pc \in {"hub", "plain"}

\* Nobody is ahead of GitHub.
InTime ==
  /\ base <= version /\ baseline <= version /\ known <= version
  /\ latest <= version /\ resume <= version

\* The queue is what is left of one batch, up to the source's baseline.
OneBatch ==
  /\ \A i \in 1..Len(queue) : queue[i].status = base
  /\ ~cut => \A i \in 1..Len(queue) : queue[i].more <=> i < Len(queue)
  /\ pc \in Between => queue = <<>> /\ ~serving

\* A watch moves between two batches.
MovesBetween ==
  /\ asking => ~midBatch
  /\ pc \in Between => ~midBatch

\* What each baseline accounts for was delivered or is queued.
Whole ==
  ~cut =>
    /\ \A c \in 0..baseline : Told(c) \/ (midBatch /\ Queued(c))
    /\ \A c \in 0..resume : Told(c)
    /\ Attached \/ queue # <<>> => \A c \in 0..base : Told(c) \/ Queued(c)
    /\ midBatch => queue # <<>>

\* What was delivered lies below the baselines and below what is queued.
Ahead ==
  ~overtaken /\ ~stale /\ ~upgraded =>
    /\ resume = Nothing
    /\ \A c \in Versions : Told(c) => heard[c] = 1 /\ c <= baseline
    /\ Attached \/ pc = "sub" => \A c \in Versions : Told(c) => c <= base
    /\ \A i \in 1..Len(queue) :
         queue[i].change <= base /\ \A c \in Versions : Told(c) => c < queue[i].change
    /\ \A i, j \in 1..Len(queue) : i < j => queue[i].change < queue[j].change

\* The inductive invariant.
IInv == TypeOK /\ InTime /\ OneBatch /\ MovesBetween /\ Whole /\ Ahead

USE BoundsAssumption

----------------------------------------------------------------------------
(* Batches.                                                                *)

\* A batch is of one update per change from the baseline to the status, and only
\* the last says that it is. From a baseline ahead of the status it is one update
\* that leads back.
LEMMA BatchFacts ==
  ASSUME NEW b \in Statuses, NEW v \in Versions
  PROVE  /\ Batch(b, v) \in Seq(Updates) /\ Len(Batch(b, v)) \in Nat
         /\ \A i \in 1..Len(Batch(b, v)) :
              /\ Batch(b, v)[i].status = v
              /\ Batch(b, v)[i].more <=> i < Len(Batch(b, v))
              /\ Batch(b, v)[i].change <= v
         /\ v >= b => /\ Len(Batch(b, v)) = v - b
                      /\ \A i \in 1..Len(Batch(b, v)) : Batch(b, v)[i].change = b + i
<1>1. CASE v < b
  <2>1. Batch(b, v) = <<[change |-> Nothing, status |-> v, more |-> FALSE]>>
    BY <1>1 DEF Batch
  <2>2. [change |-> Nothing, status |-> v, more |-> FALSE] \in Updates
    BY DEF Updates, Statuses, Versions, Nothing
  <2>. QED BY <1>1, <2>1, <2>2 DEF Statuses, Versions, Nothing
<1>2. CASE v >= b
  <2>1. v - b \in Nat  BY <1>2 DEF Statuses, Versions, Nothing
  <2>2. Batch(b, v) = [i \in 1..(v - b) |-> [change |-> b + i, status |-> v, more |-> b + i < v]]
    BY <1>2 DEF Batch, Statuses, Versions, Nothing
  <2>3. \A i \in 1..(v - b) : [change |-> b + i, status |-> v, more |-> b + i < v] \in Updates
    BY DEF Updates, Statuses, Versions, Nothing
  <2>4. Batch(b, v) \in [1..(v - b) -> Updates]  BY <2>2, <2>3
  <2>5. Batch(b, v) \in Seq(Updates) /\ Len(Batch(b, v)) = v - b
    BY <2>1, <2>4, SeqDef, LenProperties
  <2>6. ASSUME NEW i \in 1..(v - b)
        PROVE  /\ Batch(b, v)[i].change = b + i /\ Batch(b, v)[i].status = v
               /\ Batch(b, v)[i].more <=> b + i < v
    <3>1. Batch(b, v)[i] = [change |-> b + i, status |-> v, more |-> b + i < v]
      BY <2>2
    <3>2. CASE b + i < v
      <4>1. Batch(b, v)[i] = [change |-> b + i, status |-> v, more |-> TRUE]
        BY <3>1, <3>2
      <4>. QED BY <3>2, <4>1
    <3>3. CASE ~(b + i < v)
      <4>1. Batch(b, v)[i] = [change |-> b + i, status |-> v, more |-> FALSE]
        <5>1. (b + i < v) = FALSE  BY <3>3
        <5>. QED BY ONLY <3>1, <5>1, Zenon
      <4>. QED BY <3>3, <4>1
    <3>. QED BY <3>2, <3>3
  <2>. QED BY <1>2, <2>1, <2>5, <2>6 DEF Statuses, Versions, Nothing
<1>. QED BY <1>1, <1>2 DEF Statuses, Versions, Nothing

----------------------------------------------------------------------------
(* The types.                                                              *)

\* A prefix is a sequence of the same elements, at the same places.
LEMMA PrefixFacts ==
  ASSUME NEW S, NEW s \in Seq(S), NEW t \in Prefixes(s)
  PROVE  /\ t \in Seq(S) /\ Len(t) \in 0..Len(s)
         /\ \A i \in 1..Len(t) : t[i] = s[i]
<1>1. PICK k \in 0..Len(s) : t = SubSeq(s, 1, k)
  BY DEF Prefixes
<1>2. Len(s) \in Nat /\ \A i \in 1..k : s[i] \in S
  BY ElementOfSeq, LenProperties
<1>3. t \in Seq(S) /\ Len(t) = (IF 1 <= k THEN k - 1 + 1 ELSE 0)
      /\ \A i \in 1..(k - 1 + 1) : t[i] = s[1 + i - 1]
  BY <1>1, <1>2, SubSeqProperties
<1>. QED BY <1>1, <1>2, <1>3

\* What the watch has heard keeps its type, however it hears.
LEMMA HeardType ==
  ASSUME heard \in [Versions -> 0..2]
  PROVE  /\ \A b \in Statuses, v \in Statuses : Reports(b, v) \in [Versions -> 0..2]
         /\ \A d : [c \in Versions |-> IF c = d THEN Times(heard[c]) ELSE heard[c]] \in [Versions -> 0..2]
BY DEF Reports, Times

\* A break keeps the types of what it changes.
LEMMA BreakType ==
  ASSUME TypeOK, NEW w \in BOOLEAN, NEW f \in BOOLEAN, Breaks(w, f), pc' = pc
  PROVE  /\ queue' \in Seq(Updates) /\ base' = base /\ serving' \in BOOLEAN
         /\ serving' => pc \in {"sub", "over"}
         /\ feed' \in Seq(Entries) /\ linked' \in BOOLEAN
         /\ cut' \in BOOLEAN
<1>1. queue' = queue \/ queue' \in Prefixes(queue)  BY DEF Breaks
<1>2. feed' = feed \/ feed' \in Prefixes(feed)  BY DEF Breaks
<1>3. cut' = cut \/ cut' = (cut \/ Tears(queue'))  BY DEF Breaks
<1>. QED BY <1>1, <1>2, <1>3, PrefixFacts DEF Breaks, TypeOK

\* The types of what lies outside, of the registry and the map, of the watch, and of
\* its source.
FarType ==
  /\ version \in Versions /\ latest \in Statuses /\ resume \in Statuses
  /\ up \in BOOLEAN /\ known \in Statuses /\ vouches \in BOOLEAN
  /\ faults \in 0..MaxFaults /\ news \in 0..MaxNews
RegistryType ==
  /\ live \in BOOLEAN /\ stream \in {"off", "dial", "open"} /\ linked \in BOOLEAN
  /\ feed \in Seq(Entries) /\ seen \in BOOLEAN
  /\ covered \in BOOLEAN /\ degraded \in {"no", "grace", "lapsed"} /\ fresh \in BOOLEAN
WatchType ==
  /\ pc \in Between \cup {"plain", "hub", "sub", "over"}
  /\ woken \in BOOLEAN /\ asking \in BOOLEAN /\ pending \in BOOLEAN
  /\ midBatch \in BOOLEAN /\ baseline \in Statuses /\ forceHub \in BOOLEAN /\ timer \in BOOLEAN
  /\ heard \in [Versions -> 0..2]
SourceType ==
  /\ queue \in Seq(Updates) /\ base \in Statuses
  /\ serving \in BOOLEAN /\ (serving => pc \in {"sub", "over"})
  /\ cut \in BOOLEAN /\ overtaken \in BOOLEAN /\ stale \in BOOLEAN /\ upgraded \in BOOLEAN

\* The type invariant by groups of variables, as the steps leave them.
LEMMA Parts == TypeOK <=> FarType /\ RegistryType /\ WatchType /\ SourceType
BY DEF TypeOK, FarType, RegistryType, WatchType, SourceType, Between

\* What no step touches keeps its type.
LEMMA Untouched ==
  /\ FarType /\ UNCHANGED <<github, subdaemon>> => FarType'
  /\ RegistryType /\ UNCHANGED <<registry, map>> => RegistryType'
  /\ WatchType /\ UNCHANGED <<pc, woken, routing, delivery, timer>> => WatchType'
  /\ SourceType /\ UNCHANGED <<pc, source, history>> => SourceType'
BY DEF FarType, RegistryType, WatchType, SourceType, github, subdaemon, registry, map, routing, delivery,
       source, history

\* What the hub's subscription hands over.
LEMMA SubscribeType ==
  ASSUME TypeOK, SubscribeHub
  PROVE  /\ queue' \in Seq(Updates) /\ base' \in Statuses /\ resume' \in Statuses
         /\ serving' = serving /\ stale' \in BOOLEAN
<1>1. Subscribed \in Statuses  BY DEF Subscribed, TypeOK
<1>2. resume' \in Statuses /\ serving' = serving /\ stale' \in BOOLEAN
  BY DEF SubscribeHub, TypeOK, Statuses
<1>3. CASE latest = Nothing
  BY <1>1, <1>2, <1>3, EmptySeq DEF SubscribeHub
<1>4. CASE latest # Nothing
  <2>1. latest \in Versions  BY <1>4 DEF TypeOK, Statuses
  <2>2. Batch(Subscribed, latest) \in Seq(Updates)  BY <1>1, <2>1, BatchFacts
  <2>. QED BY <1>2, <1>4, <2>1, <2>2 DEF SubscribeHub, Statuses
<1>. QED BY <1>3, <1>4

\* Every step keeps the types.
LEMMA Typing == TypeOK /\ [Next]_vars => TypeOK'
<1>. SUFFICES ASSUME TypeOK, [Next]_vars PROVE TypeOK'
  OBVIOUS
<1>. USE DEF github, subdaemon, registry, map, routing, delivery, source, history
<1>q. FarType' /\ RegistryType' /\ WatchType' /\ SourceType' => TypeOK'
  BY DEF TypeOK, FarType, RegistryType, WatchType, SourceType, Between
<1>0. CASE UNCHANGED vars
  BY <1>0, <1>q, Parts, Untouched DEF vars
<1>n. /\ Nothing \in Statuses /\ Versions \subseteq Statuses
      /\ <<>> \in Seq(Entries) /\ <<>> \in Seq(Updates)
      /\ MaxFaults \in Nat /\ MaxNews \in Nat
  BY EmptySeq DEF Statuses
<1>p. FarType /\ RegistryType /\ WatchType /\ SourceType
  BY Parts
<1>. SUFFICES ASSUME Next PROVE FarType' /\ RegistryType' /\ WatchType' /\ SourceType'
  BY <1>0, <1>q
<1>1. CASE Change
  <2>1. FarType'
    BY <1>1, <1>n, <1>p DEF Change, FarType, Versions
  <2>. QED BY <1>1, <1>p, <2>1, Untouched DEF Change
<1>2. CASE HubPolls
  <2>1. FarType'
    BY <1>2, <1>n, <1>p DEF HubPolls, FarType
  <2>2. SourceType'
    <3>1. Batch(base, version) \in Seq(Updates) /\ version \in Statuses
      BY <1>n, <1>p, BatchFacts DEF FarType, SourceType
    <3>2. queue' \in Seq(Updates) /\ base' \in Statuses
      BY <1>2, <1>p, <3>1 DEF HubPolls, SourceType
    <3>. QED BY <1>2, <1>p, <3>2 DEF HubPolls, SourceType
  <2>. QED BY <1>2, <1>p, <2>1, <2>2, Untouched DEF HubPolls
<1>3. CASE Restart
  <2>1. FarType'
    BY <1>3, <1>n, <1>p DEF Restart, FarType
  <2>. QED BY <1>3, <1>p, <2>1, Untouched DEF Restart
<1>4. CASE Hook
  <2>1. FarType'
    BY <1>4, <1>n, <1>p DEF Hook, FarType
  <2>. QED BY <1>4, <1>p, <2>1, Untouched DEF Hook
<1>5. CASE Exit
  <2>a. pc' = pc  BY <1>5 DEF Exit
  <2>b. /\ queue' \in Seq(Updates) /\ base' = base /\ serving' \in BOOLEAN
        /\ serving' => pc \in {"sub", "over"}
        /\ feed' \in Seq(Entries) /\ linked' \in BOOLEAN /\ cut' \in BOOLEAN
    BY <1>5, <2>a, BreakType DEF Exit
  <2>1. FarType'
    <3>1. faults' \in 0..MaxFaults
      BY <1>5, <1>n, <1>p DEF Exit, FarType
    <3>2. vouches' \in BOOLEAN
      BY <1>5, <1>p DEF Exit, FarType
    <3>. QED BY <1>5, <1>n, <1>p, <3>1, <3>2 DEF Exit, FarType, SourceType
  <2>2. RegistryType'
    BY <1>5, <1>n, <1>p, <2>b DEF Exit, RegistryType
  <2>3. SourceType'
    BY <1>5, <1>n, <1>p, <2>b DEF Exit, SourceType, Between
  <2>. QED BY <1>5, <1>p, <2>1, <2>2, <2>3, Untouched DEF Exit
<1>6. CASE Drop
  <2>a. pc' = pc  BY <1>6 DEF Drop
  <2>b. /\ queue' \in Seq(Updates) /\ base' = base /\ serving' \in BOOLEAN
        /\ serving' => pc \in {"sub", "over"}
        /\ feed' \in Seq(Entries) /\ linked' \in BOOLEAN /\ cut' \in BOOLEAN
    BY <1>6, <2>a, BreakType DEF Drop
  <2>1. FarType'
    BY <1>6, <1>n, <1>p DEF Drop, FarType
  <2>2. RegistryType'
    BY <1>6, <1>n, <1>p, <2>b DEF Drop, RegistryType
  <2>3. SourceType'
    BY <1>6, <1>n, <1>p, <2>b DEF Drop, SourceType, Between
  <2>. QED BY <1>6, <1>p, <2>1, <2>2, <2>3, Untouched DEF Drop
<1>7. CASE Announce
  <2>1. FarType'
    <3>1. news' \in 0..MaxNews
      BY <1>7, <1>n, <1>p DEF Announce, FarType
    <3>2. vouches' \in BOOLEAN
      BY <1>7, <1>p DEF Announce, FarType
    <3>. QED BY <1>7, <1>n, <1>p, <3>1, <3>2 DEF Announce, FarType, SourceType
  <2>2. RegistryType'
    BY <1>7, <1>n, <1>p DEF Announce, Send, Entries, RegistryType
  <2>. QED BY <1>7, <1>p, <2>1, <2>2, Untouched DEF Announce
<1>8. CASE SubdaemonSends
  <2>b. known \in Versions
    BY <1>8, <1>p DEF SubdaemonSends, FarType, SourceType, Statuses, Versions, Nothing
  <2>1. SourceType'
    BY <1>8, <1>n, <1>p, <2>b, BatchFacts DEF SubdaemonSends, SourceType, Between
  <2>. QED BY <1>8, <1>p, <2>1, Untouched DEF SubdaemonSends
<1>9. CASE ProbeFails
  <2>1. RegistryType'
    BY <1>9, <1>n, <1>p DEF ProbeFails, RegistryType
  <2>2. WatchType'
    BY <1>9, <1>n, <1>p DEF ProbeFails, Wakes, WatchType, Between
  <2>. QED BY <1>9, <1>p, <2>1, <2>2, Untouched DEF ProbeFails
<1>10. CASE ProbeAnswers
  <2>1. RegistryType'
    BY <1>10, <1>n, <1>p DEF ProbeAnswers, RegistryType
  <2>2. WatchType'
    BY <1>10, <1>n, <1>p DEF ProbeAnswers, Wakes, WatchType, Between
  <2>. QED BY <1>10, <1>p, <2>1, <2>2, Untouched DEF ProbeAnswers
<1>11. CASE OpenCoverage
  <2>1. RegistryType'
    <3>1. <<"covered", "synced">> \in Seq(Entries) /\ <<"synced">> \in Seq(Entries)
      BY DEF Entries
    <3>2. feed' \in Seq(Entries)
      BY <1>11, <3>1 DEF OpenCoverage
    <3>. QED BY <1>11, <1>p, <3>2 DEF OpenCoverage, RegistryType
  <2>. QED BY <1>11, <1>p, <2>1, Untouched DEF OpenCoverage
<1>12. CASE CloseCoverage
  <2>1. RegistryType'
    BY <1>12, <1>n, <1>p DEF CloseCoverage, RegistryType
  <2>2. WatchType'
    BY <1>12, <1>n, <1>p DEF CloseCoverage, Wakes, WatchType, Between
  <2>. QED BY <1>12, <1>p, <2>1, <2>2, Untouched DEF CloseCoverage
<1>13. CASE ReadCoverage
  <2>1. RegistryType'
    <3>1. feed' \in Seq(Entries) /\ UNCHANGED <<live, stream, linked>> /\ seen' \in BOOLEAN
      BY <1>13, <1>p DEF ReadCoverage, RegistryType
    <3>2. covered' \in BOOLEAN /\ fresh' \in BOOLEAN
      BY <1>13, <1>p DEF ReadCoverage, Retain, Apply, RegistryType
    <3>3. degraded' \in {"no", "grace", "lapsed"}
      BY <1>13, <1>p DEF ReadCoverage, Retain, Apply, setDegraded, RegistryType
    <3>. QED BY <1>p, <3>1, <3>2, <3>3 DEF RegistryType
  <2>2. WatchType'
    BY <1>13, <1>n, <1>p DEF ReadCoverage, Retain, Apply, Wakes, WatchType, Between
  <2>. QED BY <1>13, <1>p, <2>1, <2>2, Untouched DEF ReadCoverage
<1>14. CASE GraceEnds
  <2>1. RegistryType'
    BY <1>14, <1>n, <1>p DEF GraceEnds, RegistryType
  <2>2. WatchType'
    BY <1>14, <1>n, <1>p DEF GraceEnds, Wakes, WatchType, Between
  <2>. QED BY <1>14, <1>p, <2>1, <2>2, Untouched DEF GraceEnds
<1>15. CASE Watch
  <2>b. SubscribeHub => /\ queue' \in Seq(Updates) /\ base' \in Statuses /\ resume' \in Statuses
                        /\ serving' = serving /\ stale' \in BOOLEAN
    BY SubscribeType
  <2>1. FarType'
    BY <1>15, <1>n, <1>p, <2>b DEF Watch, FarType
  <2>2. WatchType'
    BY <1>15, <1>n, <1>p DEF Watch, WatchType, Between
  <2>3. SourceType'
    BY <1>15, <1>n, <1>p, <2>b DEF Watch, SourceType, Between
  <2>. QED BY <1>15, <1>p, <2>1, <2>2, <2>3, Untouched DEF Watch
<1>16. CASE TakeChanged
  <2>1. WatchType'
    BY <1>16, <1>n, <1>p DEF TakeChanged, WatchType, Between
  <2>2. SourceType'
    BY <1>16, <1>n, <1>p DEF TakeChanged, SourceType, Between
  <2>. QED BY <1>16, <1>p, <2>1, <2>2, Untouched DEF TakeChanged
<1>17. CASE Route
  <2>b. SubscribeHub => /\ queue' \in Seq(Updates) /\ base' \in Statuses /\ resume' \in Statuses
                        /\ serving' = serving /\ stale' \in BOOLEAN
    BY SubscribeType
  <2>1. FarType'
    BY <1>17, <1>n, <1>p, <2>b DEF Route, FarType
  <2>2. RegistryType'
    BY <1>17, <1>n, <1>p DEF Route, RegistryType
  <2>3. WatchType'
    BY <1>17, <1>n, <1>p DEF Route, WatchType, Between
  <2>4. SourceType'
    BY <1>17, <1>n, <1>p, <2>b DEF Route, SourceType, Between
  <2>. QED BY <1>17, <1>p, <2>1, <2>2, <2>3, <2>4, Untouched DEF Route
<1>18. CASE CatchUp
  <2>1. WatchType'
    <3>1. baseline \in Statuses /\ version \in Statuses /\ version \in Versions
      BY <1>n, <1>p DEF WatchType, FarType
    <3>2. heard' \in [Versions -> 0..2] /\ baseline' \in Statuses
      BY <1>18, <1>p, <3>1, HeardType DEF CatchUp, WatchType, delivery
    <3>3. midBatch' \in BOOLEAN
      BY <1>18, <1>p DEF CatchUp, WatchType, delivery
    <3>. QED BY <1>18, <1>p, <3>2, <3>3 DEF CatchUp, WatchType, Between
  <2>2. SourceType'
    BY <1>18, <1>n, <1>p DEF CatchUp, SourceType, Between
  <2>. QED BY <1>18, <1>p, <2>1, <2>2, Untouched DEF CatchUp
<1>19. CASE OpenWatch
  <2>1. WatchType'
    BY <1>19, <1>n, <1>p DEF OpenWatch, WatchType, Between
  <2>2. SourceType'
    <3>1. queue' \in Seq(Updates) /\ base' \in Statuses
      BY <1>19, <1>n, <1>p DEF OpenWatch, Seed, WatchType
    <3>2. serving' \in BOOLEAN /\ (serving' => pc' \in {"sub", "over"})
      BY <1>19, <1>p DEF OpenWatch, SourceType
    <3>. QED BY <1>19, <1>p, <3>1, <3>2 DEF OpenWatch, SourceType
  <2>. QED BY <1>19, <1>p, <2>1, <2>2, Untouched DEF OpenWatch
<1>20. CASE Deliver
  <2>b. Head(queue) \in Updates
    BY <1>20, <1>p, HeadTailProperties DEF Deliver, SourceType
  <2>1. WatchType'
    <3>1. heard' \in [Versions -> 0..2]
      BY <1>20, <1>p, HeardType DEF Deliver, WatchType
    <3>2. baseline' \in Statuses /\ midBatch' \in BOOLEAN
      BY <1>20, <1>n, <2>b DEF Deliver, Updates
    <3>3. asking' \in BOOLEAN /\ pending' \in BOOLEAN
      BY <1>20, <1>p DEF Deliver, WatchType
    <3>. QED BY <1>20, <1>p, <3>1, <3>2, <3>3 DEF Deliver, WatchType
  <2>2. SourceType'
    BY <1>20, <1>n, <1>p DEF Deliver, SourceType, Between
  <2>. QED BY <1>20, <1>p, <2>1, <2>2, Untouched DEF Deliver
<1>21. CASE Wake
  <2>1. WatchType'
    BY <1>21, <1>n, <1>p DEF Wake, Awaits, WatchType, Between
  <2>. QED BY <1>21, <1>p, <2>1, Untouched DEF Wake
<1>22. CASE StillHere
  <2>1. FarType'
    BY <1>22, <1>n, <1>p DEF StillHere, FarType
  <2>2. WatchType'
    BY <1>22, <1>n, <1>p DEF StillHere, WatchType, Between
  <2>3. SourceType'
    BY <1>22, <1>n, <1>p DEF StillHere, SourceType, Between
  <2>. QED BY <1>22, <1>p, <2>1, <2>2, <2>3, Untouched DEF StillHere
<1>23. CASE StreamEnds
  <2>1. WatchType'
    BY <1>23, <1>n, <1>p DEF StreamEnds, WatchType, Between
  <2>2. SourceType'
    BY <1>23, <1>n, <1>p DEF StreamEnds, SourceType, Between
  <2>. QED BY <1>23, <1>p, <2>1, <2>2, Untouched DEF StreamEnds
<1>24. CASE TimerIdles
  <2>1. WatchType'
    BY <1>24, <1>n, <1>p DEF TimerIdles, WatchType, Between
  <2>. QED BY <1>24, <1>p, <2>1, Untouched DEF TimerIdles
<1>25. CASE SafetyFetch
  <2>1. WatchType'
    <3>1. baseline \in Statuses /\ version \in Statuses
      BY <1>n, <1>p DEF WatchType, FarType
    <3>2. heard' \in [Versions -> 0..2] /\ baseline' \in Statuses
      BY <1>25, <3>1, <1>p, HeardType DEF SafetyFetch, SafetyReads, WatchType
    <3>. QED BY <1>25, <1>p, <3>2 DEF SafetyFetch, WatchType
  <2>2. SourceType'
    BY <1>25, <1>n, <1>p DEF SafetyFetch, SourceType, Between
  <2>. QED BY <1>25, <1>p, <2>1, <2>2, Untouched DEF SafetyFetch
<1>26. CASE Takeover
  <2>1. FarType'
    <3>1. faults' \in 0..MaxFaults
      BY <1>26, <1>n, <1>p DEF Takeover, FarType
    <3>2. vouches' \in BOOLEAN
      BY <1>26, <1>p DEF Takeover, FarType
    <3>. QED BY <1>26, <1>n, <1>p, <3>1, <3>2 DEF Takeover, FarType, SourceType
  <2>2. RegistryType'
    BY <1>26, <1>n, <1>p DEF Takeover, RegistryType
  <2>3. WatchType'
    BY <1>26, <1>n, <1>p DEF Takeover, WatchType, Between
  <2>4. SourceType'
    BY <1>26, <1>n, <1>p DEF Takeover, SourceType, Between
  <2>. QED BY <1>26, <1>p, <2>1, <2>2, <2>3, <2>4, Untouched DEF Takeover
<1>. QED
  BY <1>1, <1>2, <1>3, <1>4, <1>5, <1>6, <1>7, <1>8, <1>9, <1>10, <1>11, <1>12, <1>13, <1>14, <1>15, <1>16, <1>17, <1>18, <1>19, <1>20, <1>21, <1>22, <1>23, <1>24, <1>25, <1>26
  DEF Next, External, Probe, runCoverage, coverageWatch

----------------------------------------------------------------------------
(* The steps.                                                              *)

Rest == InTime /\ OneBatch /\ MovesBetween /\ Whole /\ Ahead

\* What the delivery of a change depends on.
quiet == <<pc, asking, midBatch, baseline, heard, queue, base, serving, history>>

\* A step that concerns none of it keeps it all, if it keeps GitHub ahead.
LEMMA QuietKeeps ==
  ASSUME Rest, UNCHANGED quiet, resume' = resume
  PROVE  OneBatch' /\ MovesBetween' /\ Whole' /\ Ahead'
BY DEF Rest, quiet, history, OneBatch, MovesBetween, Whole, Ahead, Told, Queued, Attached

\* A batch holds every change from its baseline on.
LEMMA BatchCovers ==
  ASSUME NEW b \in Statuses, NEW v \in Versions, NEW c \in 0..v, c > b
  PROVE  \E i \in 1..Len(Batch(b, v)) : Batch(b, v)[i].change = c
<1>1. v >= b /\ c - b \in 1..(v - b)  BY DEF Statuses, Versions, Nothing
<1>2. Len(Batch(b, v)) = v - b /\ \A i \in 1..Len(Batch(b, v)) : Batch(b, v)[i].change = b + i
  BY <1>1, BatchFacts
<1>3. Batch(b, v)[c - b].change = b + (c - b)
  BY <1>1, <1>2
<1>4. b + (c - b) = c  BY DEF Statuses, Versions, Nothing
<1>. QED BY <1>1, <1>2, <1>3, <1>4

\* A source that is given a new batch from a baseline that was delivered.
LEMMA RefillKeeps ==
  ASSUME TypeOK, Rest, NEW b \in Statuses, NEW v \in Versions, b <= version, v <= version,
         queue' = Batch(b, v), base' = v, midBatch' = midBatch, ~cut => ~midBatch,
         UNCHANGED <<heard, baseline, cut, overtaken, upgraded>>,
         serving' = serving, pc' \notin Between,
         ~cut => \A c \in 0..b : Told(c),
         ~cut => \A c \in 0..resume' : Told(c),
         ~stale' => ~stale /\ v >= b,
         ~overtaken /\ ~stale' /\ ~upgraded => resume' = Nothing /\ \A c \in Versions : Told(c) => c <= b
  PROVE  OneBatch' /\ Whole' /\ Ahead'
<1>1. /\ \A i \in 1..Len(queue') : queue'[i].status = base'
      /\ \A i \in 1..Len(queue') : queue'[i].more <=> i < Len(queue')
  BY BatchFacts
<1>2. OneBatch'
  BY <1>1 DEF OneBatch
<1>3. ASSUME ~cut, NEW c \in 0..v PROVE Told(c)' \/ Queued(c)'
  <2>1. CASE c <= b
    BY <1>3, <2>1 DEF Told, Statuses, Versions, Nothing
  <2>2. CASE c > b
    BY <2>2, BatchCovers DEF Queued
  <2>. QED BY <2>1, <2>2 DEF Statuses, Versions, Nothing
<1>4. ASSUME ~cut, NEW c \in 0..baseline PROVE Told(c)'
  BY <1>4 DEF Rest, Whole, Told
<1>5. Whole'
  BY <1>3, <1>4 DEF Whole, Told
<1>6. ASSUME ~overtaken, ~stale', ~upgraded
      PROVE  /\ \A c \in Versions : Told(c)' => heard'[c] = 1 /\ c <= baseline' /\ c <= base'
             /\ \A i \in 1..Len(queue') : queue'[i].change <= base' /\ \A c \in Versions : Told(c)' => c < queue'[i].change
             /\ \A i, j \in 1..Len(queue') : i < j => queue'[i].change < queue'[j].change
  <2>1. /\ v >= b /\ Len(queue') = v - b
        /\ \A i \in 1..Len(queue') : queue'[i].change = b + i
    BY <1>6, BatchFacts
  <2>2. \A c \in Versions : Told(c) => heard[c] = 1 /\ c <= baseline /\ c <= b
    BY <1>6 DEF Rest, Ahead
  <2>3. \A c \in Versions : Told(c)' <=> Told(c)
    BY DEF Told
  <2>. QED BY <2>1, <2>2, <2>3 DEF Statuses, Versions, Nothing
<1>7. Ahead'
  BY <1>6 DEF Ahead
<1>. QED BY <1>2, <1>5, <1>7

\* A stream that breaks between two batches costs nothing that a baseline accounts
\* for; one that breaks within a batch is recorded.
LEMMA BreakKeeps ==
  ASSUME TypeOK, Rest, NEW w \in BOOLEAN, NEW f \in BOOLEAN, Breaks(w, f),
         UNCHANGED <<pc, asking, midBatch, baseline, heard, resume, overtaken, stale, upgraded>>
  PROVE  OneBatch' /\ MovesBetween' /\ Whole' /\ Ahead'
<1>1. CASE ~(w /\ pc = "sub")
  BY <1>1, QuietKeeps DEF Breaks, quiet, history
<1>2. CASE w /\ pc = "sub"
  <2>1. /\ queue' \in Prefixes(queue) /\ serving' = FALSE /\ base' = base
        /\ cut' = (cut \/ Tears(queue'))
    BY <1>2 DEF Breaks
  <2>2. queue \in Seq(Updates) /\ Len(queue) \in Nat  BY DEF TypeOK
  <2>3. /\ queue' \in Seq(Updates) /\ Len(queue') \in 0..Len(queue)
        /\ \A i \in 1..Len(queue') : queue'[i] = queue[i]
    BY <2>1, <2>2, PrefixFacts
  <2>4. ~cut' => /\ ~cut
                 /\ queue' = queue \/ (queue' = <<>> /\ ~midBatch)
    <3>. SUFFICES ASSUME ~cut' PROVE ~cut /\ (queue' = queue \/ (queue' = <<>> /\ ~midBatch))
      OBVIOUS
    <3>1. ~cut /\ ~Tears(queue')  BY <2>1
    <3>2. CASE queue' = <<>>
      BY <3>1, <3>2 DEF Tears
    <3>3. CASE queue' # <<>>
      <4>1. Len(queue') \in 1..Len(queue)
        BY <2>2, <2>3, <3>3, EmptySeq
      <4>2. ~queue'[Len(queue')].more
        BY <3>1, <3>3 DEF Tears
      <4>3. ~queue[Len(queue')].more
        BY <4>1, <4>2, <2>3
      <4>4. Len(queue') = Len(queue)
        BY <4>1, <4>3, <3>1, <2>2 DEF Rest, OneBatch
      <4>. QED BY <4>4, <3>1, <2>2, <2>3, SeqEqual
    <3>. QED BY <3>2, <3>3
  <2>5. OneBatch'
    <3>1. \A i \in 1..Len(queue') : queue'[i].status = base'
      BY <2>1, <2>2, <2>3 DEF Rest, OneBatch
    <3>2. ~cut' => \A i \in 1..Len(queue') : queue'[i].more <=> i < Len(queue')
      BY <2>4 DEF Rest, OneBatch
    <3>. QED BY <1>2, <3>1, <3>2 DEF OneBatch, Between
  <2>6. MovesBetween'
    BY DEF Rest, MovesBetween
  <2>7. Whole'
    <3>. SUFFICES ASSUME ~cut' PROVE Whole'
      BY DEF Whole
    <3>1. CASE queue' = queue
      BY <3>1, <2>1, <2>4, <1>2 DEF Rest, Whole, Told, Queued, Attached
    <3>2. CASE queue' = <<>> /\ ~midBatch
      BY <3>2, <2>1, <2>4, <1>2 DEF Rest, Whole, Told, Attached
    <3>. QED BY <2>4, <3>1, <3>2
  <2>8. Ahead'
    <3>. SUFFICES ASSUME ~overtaken, ~stale, ~upgraded PROVE Ahead'
      BY DEF Ahead
    <3>1. \A c \in Versions : Told(c)' <=> Told(c)  BY DEF Told
    <3>2. /\ resume' = Nothing
          /\ \A c \in Versions : Told(c)' => heard'[c] = 1 /\ c <= baseline' /\ c <= base'
      BY <1>2, <2>1, <3>1 DEF Rest, Ahead
    <3>3. \A i \in 1..Len(queue') :
            queue'[i].change <= base' /\ \A c \in Versions : Told(c)' => c < queue'[i].change
      BY <2>1, <2>2, <2>3, <3>1 DEF Rest, Ahead
    <3>4. \A i, j \in 1..Len(queue') : i < j => queue'[i].change < queue'[j].change
      BY <2>2, <2>3 DEF Rest, Ahead
    <3>. QED BY <3>2, <3>3, <3>4 DEF Ahead
  <2>. QED BY <2>5, <2>6, <2>7, <2>8
<1>. QED BY <1>1, <1>2

\* The facts about what is left when the first update is taken.
LEMMA TailFacts ==
  ASSUME TypeOK, queue # <<>>
  PROVE  /\ Len(queue) \in Nat \ {0} /\ Head(queue) = queue[1] /\ queue[1] \in Updates
         /\ Len(Tail(queue)) = Len(queue) - 1
         /\ \A i \in 1..Len(Tail(queue)) : Tail(queue)[i] = queue[i + 1]
<1>1. queue \in Seq(Updates)  BY DEF TypeOK
<1>. QED BY <1>1, EmptySeq, HeadTailProperties, ElementOfSeq

\* An update that is delivered accounts for the batch it begins, which follows.
LEMMA DeliverKeeps ==
  ASSUME TypeOK, Rest, Deliver
  PROVE  OneBatch' /\ MovesBetween' /\ Whole' /\ Ahead'
<1>1. /\ queue # <<>> /\ queue' = Tail(queue)
      /\ heard' = [c \in Versions |-> IF c = queue[1].change THEN Times(heard[c]) ELSE heard[c]]
      /\ baseline' = queue[1].status
      /\ midBatch' = queue[1].more
      /\ asking' = (pending /\ ~queue[1].more)
      /\ pc \notin Between /\ pc' \in {pc, "over"}
      /\ UNCHANGED <<resume, base, serving, cut, overtaken, stale, upgraded>>
  BY TailFacts DEF Deliver, Serving, Between, github, history
<1>2. /\ Len(queue) \in Nat \ {0} /\ queue[1] \in Updates
      /\ Len(queue') = Len(queue) - 1
      /\ \A i \in 1..Len(queue') : queue'[i] = queue[i + 1]
  BY <1>1, TailFacts
<1>3. heard \in [Versions -> 0..2] /\ base \in Statuses  BY DEF TypeOK
<1>4. \A c \in Versions : Told(c)' <=> Told(c) \/ c = queue[1].change
  BY <1>1, <1>3 DEF Told, Times
<1>5. baseline' = base
  BY <1>1, <1>2 DEF Rest, OneBatch
<1>6. OneBatch'
  <2>1. \A i \in 1..Len(queue') : queue'[i].status = base'
    BY <1>1, <1>2 DEF Rest, OneBatch
  <2>2. ~cut' => \A i \in 1..Len(queue') : queue'[i].more <=> i < Len(queue')
    BY <1>1, <1>2 DEF Rest, OneBatch
  <2>. QED BY <1>1, <2>1, <2>2 DEF OneBatch, Between
<1>7. MovesBetween'
  BY <1>1 DEF MovesBetween, Between
<1>8. ASSUME ~cut' PROVE Whole'
  <2>1. ~cut  BY <1>1, <1>8
  <2>2. \A c \in 0..base : Told(c) \/ Queued(c)
    BY <2>1, <1>1 DEF Rest, Whole
  <2>3. \A c \in 0..base : c \in Versions
    BY <1>3 DEF Statuses, Versions, Nothing
  <2>4. ASSUME NEW c \in 0..base PROVE Told(c)' \/ Queued(c)'
    <3>1. CASE Told(c)
      BY <2>3, <2>4, <3>1, <1>4
    <3>2. CASE Queued(c)
      <4>1. PICK i \in 1..Len(queue) : queue[i].change = c
        BY <3>2 DEF Queued
      <4>2. CASE i = 1
        BY <4>1, <4>2, <2>3, <1>4
      <4>3. CASE i # 1
        <5>1. i - 1 \in 1..Len(queue') /\ queue'[i - 1] = queue[(i - 1) + 1] /\ (i - 1) + 1 = i
          BY <4>3, <1>2
        <5>. QED BY <5>1, <4>1 DEF Queued
      <4>. QED BY <4>2, <4>3
    <3>. QED BY <2>2, <2>4, <3>1, <3>2
  <2>5. midBatch' <=> 1 < Len(queue)
    BY <1>1, <1>2, <2>1 DEF Rest, OneBatch
  <2>6. ~midBatch' => \A c \in 0..base : Told(c)'
    BY <2>4, <2>5, <1>2 DEF Queued
  <2>7. midBatch' => queue' # <<>>
    BY <2>5, <1>2
  <2>8. \A c \in 0..resume' : Told(c)'
    <3>1. resume' = resume /\ \A c \in 0..resume : Told(c) /\ c \in Versions
      BY <1>1, <2>1 DEF Rest, Whole, TypeOK, Statuses, Versions, Nothing
    <3>. QED BY <3>1, <1>4
  <2>. QED BY <1>1, <1>5, <2>4, <2>6, <2>7, <2>8 DEF Whole
<1>9. ASSUME ~overtaken', ~stale', ~upgraded' PROVE Ahead'
  <2>1. ~overtaken /\ ~stale /\ ~upgraded  BY <1>1, <1>9
  <2>2. /\ \A c \in Versions : Told(c) => heard[c] = 1 /\ c <= baseline
        /\ \A i \in 1..Len(queue) :
             queue[i].change <= base /\ \A c \in Versions : Told(c) => c < queue[i].change
        /\ \A i, j \in 1..Len(queue) : i < j => queue[i].change < queue[j].change
        /\ resume = Nothing
    BY <2>1 DEF Rest, Ahead
  <2>3. ASSUME NEW c \in Versions, Told(c)' PROVE heard'[c] = 1 /\ c <= base
    <3>1. CASE c = queue[1].change
      <4>1. ~Told(c)  BY <3>1, <2>2, <1>2 DEF Versions
      <4>2. heard[c] = 0  BY <4>1, <1>3 DEF Told
      <4>. QED BY <3>1, <4>2, <1>1, <1>2, <2>2 DEF Times
    <3>2. CASE c # queue[1].change
      <4>1. Told(c)  BY <3>2, <2>3, <1>4
      <4>2. c < queue[1].change /\ queue[1].change <= base
        BY <4>1, <2>2, <1>2
      <4>3. heard'[c] = 1  BY <3>2, <4>1, <2>2, <1>1
      <4>. QED BY <4>2, <4>3, <1>2, <1>3 DEF Updates, Statuses, Versions, Nothing
    <3>. QED BY <3>1, <3>2
  <2>4. ASSUME NEW i \in 1..Len(queue')
        PROVE  queue'[i].change <= base /\ \A c \in Versions : Told(c)' => c < queue'[i].change
    <3>1. i + 1 \in 1..Len(queue) /\ queue'[i] = queue[i + 1] /\ 1 < i + 1 /\ 1 \in 1..Len(queue)
      BY <1>2
    <3>2. queue[1].change < queue[i + 1].change
      BY <3>1, <2>2
    <3>. QED BY <3>1, <3>2, <2>2, <1>4
  <2>5. \A i, j \in 1..Len(queue') : i < j => queue'[i].change < queue'[j].change
    BY <1>2, <2>2
  <2>. QED BY <1>1, <1>5, <2>2, <2>3, <2>4, <2>5 DEF Ahead
<1>. QED BY <1>6, <1>7, <1>8, <1>9 DEF Whole, Ahead

\* A fetch reports what lies between the baseline and what it reads.
LEMMA ReportsFacts ==
  ASSUME TypeOK, NEW v \in Versions, heard' = Reports(baseline, v)
  PROVE  \A c \in Versions : /\ Told(c)' <=> Told(c) \/ (baseline < c /\ c <= v)
                             /\ ~(baseline < c /\ c <= v) => heard'[c] = heard[c]
                             /\ baseline < c /\ c <= v /\ heard[c] = 0 => heard'[c] = 1
<1>1. heard \in [Versions -> 0..2]  BY DEF TypeOK
<1>. QED BY <1>1 DEF Reports, Times, Told

\* A fetch between two batches moves the baseline to what it read.
LEMMA FetchKeeps ==
  ASSUME TypeOK, Rest, heard' = Reports(baseline, version), baseline' = version, ~midBatch',
         UNCHANGED <<resume, queue, base, serving>>,
         ~cut' => ~cut /\ ~midBatch,
         pc \in Between => pc' \in Between \cup {"over"},
         pc \notin Between => pc' \in {pc, "over"},
         pc' = "sub" => pc = "sub",
         ~overtaken' /\ ~stale' /\ ~upgraded' => /\ ~overtaken /\ ~stale /\ ~upgraded
                                                 /\ queue = <<>> /\ ~serving /\ pc' \in Between \cup {"over"}
  PROVE  OneBatch' /\ Whole' /\ Ahead'
<1>0. /\ version \in Versions /\ baseline \in Statuses /\ resume \in Statuses /\ base \in Statuses
      /\ heard \in [Versions -> 0..2] /\ baseline <= version
  BY DEF TypeOK, Rest, InTime
<1>1. \A c \in Versions : /\ Told(c)' <=> Told(c) \/ (baseline < c /\ c <= version)
                          /\ ~(baseline < c /\ c <= version) => heard'[c] = heard[c]
                          /\ baseline < c /\ c <= version /\ heard[c] = 0 => heard'[c] = 1
  BY <1>0, ReportsFacts
<1>2. OneBatch'
  BY DEF Rest, OneBatch, Between
<1>3. ASSUME ~cut' PROVE Whole'
  <2>1. ~cut /\ ~midBatch  BY <1>3
  <2>2. \A c \in 0..version : c \in Versions
    BY <1>0 DEF Versions
  <2>3. \A c \in 0..version : Told(c)'
    BY <2>1, <2>2, <1>0, <1>1 DEF Rest, Whole, Statuses, Versions, Nothing
  <2>4. resume <= version /\ base <= version  BY DEF Rest, InTime
  <2>5. (\A c \in 0..resume : Told(c)') /\ \A c \in 0..base : Told(c)'
    BY <2>3, <2>4, <1>0 DEF Statuses, Versions, Nothing
  <2>. QED BY <2>3, <2>5 DEF Whole
<1>4. ASSUME ~overtaken', ~stale', ~upgraded' PROVE Ahead'
  <2>1. \A c \in Versions : Told(c) => heard[c] = 1 /\ c <= baseline
    BY <1>4 DEF Rest, Ahead
  <2>2. ASSUME NEW c \in Versions, Told(c)' PROVE heard'[c] = 1 /\ c <= version
    <3>1. CASE baseline < c /\ c <= version
      <4>1. ~Told(c)  BY <3>1, <2>1, <1>0 DEF Statuses, Versions, Nothing
      <4>2. heard[c] = 0  BY <4>1, <1>0 DEF Told
      <4>. QED BY <3>1, <4>2, <1>1
    <3>2. CASE ~(baseline < c /\ c <= version)
      BY <3>2, <2>1, <2>2, <1>0, <1>1 DEF Statuses, Versions, Nothing
    <3>. QED BY <3>1, <3>2
  <2>3. resume' = Nothing /\ queue' = <<>> /\ ~Attached' /\ pc' # "sub"
    BY <1>4 DEF Rest, Ahead, Attached, Between
  <2>. QED BY <2>2, <2>3 DEF Ahead
<1>. QED BY <1>2, <1>3, <1>4 DEF Whole, Ahead

\* A watch leaves its source between two batches.
LEMMA LeaveKeeps ==
  ASSUME TypeOK, Rest, queue' = <<>>, serving' = FALSE, base' = Nothing, pc' \in Between,
         ~midBatch', ~cut => ~midBatch,
         UNCHANGED <<baseline, heard, resume, cut, overtaken, stale, upgraded>>
  PROVE  OneBatch' /\ Whole' /\ Ahead'
<1>1. OneBatch'
  BY DEF OneBatch
<1>2. Whole'
  BY DEF Rest, Whole, Told, Attached, Between
<1>3. Ahead'
  BY DEF Rest, Ahead, Told, Attached, Between
<1>. QED BY <1>1, <1>2, <1>3

\* A watch subscribes to the hub, from its own baseline or from what a predecessor
\* exported for it.
LEMMA SubscribeKeeps ==
  ASSUME TypeOK, Rest, SubscribeHub, pc \in Between, pc' \in {"hub", "plain"},
         UNCHANGED <<heard, baseline, midBatch, cut, overtaken, upgraded>>
  PROVE  OneBatch' /\ Whole' /\ Ahead'
<1>0. /\ latest \in Statuses /\ resume \in Statuses /\ baseline \in Statuses /\ Subscribed \in Statuses
      /\ resume' = Nothing /\ serving' = serving /\ ~serving /\ ~midBatch /\ queue = <<>>
      /\ latest <= version /\ Subscribed <= version
  BY DEF TypeOK, Rest, OneBatch, MovesBetween, InTime, SubscribeHub, Subscribed
<1>1. ~cut => \A c \in 0..Subscribed : Told(c)
  BY <1>0 DEF Rest, Whole, Subscribed
<1>2. ~overtaken /\ ~stale /\ ~upgraded => \A c \in Versions : Told(c) => c <= Subscribed
  BY DEF Rest, Ahead, Subscribed
<1>3. CASE latest # Nothing
  <2>1. latest \in Versions  BY <1>0, <1>3 DEF Statuses
  <2>2. queue' = Batch(Subscribed, latest) /\ base' = latest
    BY <1>3 DEF SubscribeHub
  <2>3. ~stale' => ~stale /\ latest >= Subscribed
    <3>1. ~stale' => ~stale /\ latest \notin 0..(Subscribed - 1)
      BY DEF SubscribeHub
    <3>2. latest \notin 0..(Subscribed - 1) => latest >= Subscribed
      BY <2>1, <1>0 DEF Statuses, Versions, Nothing
    <3>. QED BY <3>1, <3>2
  <2>4. \A c \in 0..resume' : FALSE  BY <1>0 DEF Nothing
  <2>. QED BY <1>0, <1>1, <1>2, <2>1, <2>2, <2>3, <2>4, RefillKeeps DEF Between
<1>4. CASE latest = Nothing
  <2>1. queue' = <<>> /\ base' = Subscribed /\ (~stale' => ~stale)
    BY <1>4 DEF SubscribeHub
  <2>2. OneBatch'
    BY <2>1 DEF OneBatch, Between
  <2>3. \A c \in 0..resume' : FALSE  BY <1>0 DEF Nothing
  <2>4. Whole'
    BY <1>0, <1>1, <2>1, <2>3 DEF Rest, Whole, Told
  <2>5. Ahead'
    BY <1>0, <1>2, <2>1 DEF Rest, Ahead, Told
  <2>. QED BY <2>2, <2>4, <2>5
<1>. QED BY <1>3, <1>4

\* What the deliveries depend on is ahead of nothing that happened.
timely == <<version, latest, resume, known, base, baseline>>

\* No step takes anybody ahead of GitHub.
LEMMA TimeStep == TypeOK /\ Rest /\ Next => InTime'
<1>. SUFFICES ASSUME TypeOK, Rest, Next PROVE InTime'
  OBVIOUS
<1>. USE DEF github, subdaemon, registry, map, routing, delivery, source, history
<1>0. /\ version \in Versions /\ latest \in Statuses /\ resume \in Statuses /\ known \in Statuses
      /\ base \in Statuses /\ baseline \in Statuses
      /\ base <= version /\ baseline <= version /\ known <= version
      /\ latest <= version /\ resume <= version
  BY DEF TypeOK, Rest, InTime
<1>n. Nothing <= version /\ version <= version
  BY <1>0 DEF Versions, Nothing
<1>q. UNCHANGED timely => InTime'
  BY DEF timely, Rest, InTime
<1>s. SubscribeHub => resume' = Nothing /\ base' \in {resume, baseline, latest}
  BY DEF SubscribeHub, Subscribed
<1>1. CASE Change
  BY <1>1, <1>0 DEF Change, InTime, Statuses, Versions, Nothing
<1>2. CASE HubPolls
  BY <1>2, <1>0, <1>n DEF HubPolls, InTime
<1>3. CASE Restart
  BY <1>3, <1>q DEF Restart, timely
<1>4. CASE Exit
  BY <1>4, <1>0, <1>n DEF Exit, Breaks, InTime
<1>5. CASE Drop
  BY <1>5, <1>q DEF Drop, Breaks, timely
<1>6. CASE Hook
  BY <1>6, <1>0, <1>n DEF Hook, InTime
<1>7. CASE Announce
  BY <1>7, <1>q DEF Announce, timely
<1>8. CASE Takeover
  BY <1>8, <1>0, <1>n DEF Takeover, InTime
<1>9. CASE SubdaemonSends
  BY <1>9, <1>0, <1>n DEF SubdaemonSends, InTime
<1>10. CASE Probe
  BY <1>10, <1>q DEF Probe, ProbeFails, ProbeAnswers, timely
<1>11. CASE runCoverage
  BY <1>11, <1>q DEF runCoverage, OpenCoverage, CloseCoverage, ReadCoverage, timely
<1>12. CASE GraceEnds
  BY <1>12, <1>q DEF GraceEnds, timely
<1>13. CASE Watch
  BY <1>13, <1>0, <1>n, <1>s DEF Watch, InTime
<1>14. CASE TakeChanged
  BY <1>14, <1>q DEF TakeChanged, timely
<1>15. CASE Route
  BY <1>15, <1>0, <1>n, <1>s DEF Route, InTime
<1>16. CASE CatchUp
  BY <1>16, <1>0, <1>n DEF CatchUp, InTime
<1>17. CASE OpenWatch
  BY <1>17, <1>0, <1>n DEF OpenWatch, Seed, InTime
<1>18. CASE Deliver
  <2>1. baseline' = base
    BY <1>18, TailFacts DEF Deliver, Rest, OneBatch
  <2>. QED BY <1>18, <2>1, <1>0, <1>n DEF Deliver, InTime
<1>19. CASE Wake
  BY <1>19, <1>q DEF Wake, timely
<1>20. CASE StillHere
  BY <1>20, <1>0, <1>n DEF StillHere, InTime
<1>21. CASE StreamEnds
  BY <1>21, <1>0, <1>n DEF StreamEnds, InTime
<1>22. CASE TimerIdles
  BY <1>22, <1>q DEF TimerIdles, timely
<1>23. CASE SafetyFetch
  BY <1>23, <1>0, <1>n DEF SafetyFetch, SafetyReads, InTime
<1>. QED
  BY <1>1, <1>2, <1>3, <1>4, <1>5, <1>6, <1>7, <1>8, <1>9, <1>10, <1>11, <1>12, <1>13, <1>14, <1>15,
     <1>16, <1>17, <1>18, <1>19, <1>20, <1>21, <1>22, <1>23
  DEF Next, External, coverageWatch

\* No step loses a change or tells one twice, but as the history records.
LEMMA RestStep == TypeOK /\ Rest /\ Next => OneBatch' /\ MovesBetween' /\ Whole' /\ Ahead'
<1>. SUFFICES ASSUME TypeOK, Rest, Next PROVE OneBatch' /\ MovesBetween' /\ Whole' /\ Ahead'
  OBVIOUS
<1>. USE DEF github, subdaemon, registry, map, routing, delivery, source, history
<1>0. /\ version \in Versions /\ latest \in Statuses /\ resume \in Statuses /\ known \in Statuses
      /\ base \in Statuses /\ baseline \in Statuses
      /\ midBatch \in BOOLEAN /\ asking \in BOOLEAN /\ pending \in BOOLEAN
      /\ base <= version /\ baseline <= version /\ known <= version /\ resume <= version
  BY DEF TypeOK, Rest, InTime
<1>1. CASE Change
  BY <1>1, QuietKeeps DEF Change, quiet
<1>2. CASE HubPolls
  <2>1. CASE ~OnHub
    BY <1>2, <2>1, QuietKeeps DEF HubPolls, quiet
  <2>2. CASE OnHub
    <3>1. /\ queue = <<>> /\ queue' = Batch(base, version) /\ base' = version
          /\ UNCHANGED <<pc, asking, midBatch, baseline, heard, resume, serving, cut, overtaken, stale, upgraded>>
      BY <1>2, <2>2 DEF HubPolls
    <3>2. pc \notin Between /\ Attached
      BY <2>2 DEF OnHub, Between, Attached
    <3>3. ~cut => ~midBatch /\ (\A c \in 0..base : Told(c)) /\ \A c \in 0..resume : Told(c)
      BY <3>1, <3>2 DEF Rest, Whole, Queued
    <3>4. ~overtaken /\ ~stale /\ ~upgraded => resume = Nothing /\ \A c \in Versions : Told(c) => c <= base
      BY <3>2 DEF Rest, Ahead
    <3>5. version <= version /\ version >= base
      BY <1>0 DEF Statuses, Versions, Nothing
    <3>6. OneBatch' /\ Whole' /\ Ahead'
      BY <1>0, <3>1, <3>2, <3>3, <3>4, <3>5, RefillKeeps
    <3>7. MovesBetween'
      BY <3>1 DEF Rest, MovesBetween
    <3>. QED BY <3>6, <3>7
  <2>. QED BY <2>1, <2>2
<1>3. CASE Restart
  BY <1>3, QuietKeeps DEF Restart, quiet
<1>4. CASE Exit
  BY <1>4, BreakKeeps DEF Exit
<1>5. CASE Drop
  BY <1>5, BreakKeeps DEF Drop
<1>6. CASE Hook
  BY <1>6, QuietKeeps DEF Hook, quiet
<1>7. CASE Announce
  BY <1>7, QuietKeeps DEF Announce, quiet
<1>8. CASE Takeover
  <2>1. /\ pc' = "off" /\ queue' = <<>> /\ ~serving' /\ ~asking' /\ ~midBatch' /\ upgraded'
        /\ baseline' = Nothing /\ base' = Nothing /\ heard' = heard
        /\ resume' = IF OnHub THEN base ELSE Nothing
        /\ cut' = (cut \/ (OnHub /\ queue # <<>>))
    BY <1>8 DEF Takeover
  <2>2. OneBatch' /\ MovesBetween' /\ Ahead'
    BY <2>1 DEF OneBatch, MovesBetween, Ahead
  <2>3. ASSUME ~cut' PROVE \A c \in 0..resume' : Told(c)
    <3>1. CASE OnHub
      <4>1. ~cut /\ queue = <<>> /\ resume' = base  BY <2>1, <2>3, <3>1
      <4>. QED BY <3>1, <4>1 DEF Rest, Whole, Attached, OnHub, Queued
    <3>2. CASE ~OnHub
      BY <2>1, <3>2 DEF Nothing
    <3>. QED BY <3>1, <3>2
  <2>4. \A c \in 0..Nothing : FALSE
    BY DEF Nothing
  <2>5. Whole'
    BY <2>1, <2>3, <2>4 DEF Whole, Told, Attached
  <2>. QED BY <2>2, <2>5
<1>9. CASE SubdaemonSends
  <2>1. /\ serving /\ queue = <<>> /\ base < known /\ queue' = Batch(base, known) /\ base' = known
        /\ UNCHANGED <<pc, asking, midBatch, baseline, heard, resume, serving, cut, overtaken, stale, upgraded>>
    BY <1>9 DEF SubdaemonSends
  <2>2. pc \notin Between /\ Attached
    BY <2>1 DEF Rest, OneBatch, Attached
  <2>3. ~cut => ~midBatch /\ (\A c \in 0..base : Told(c)) /\ \A c \in 0..resume : Told(c)
    BY <2>1, <2>2 DEF Rest, Whole, Queued
  <2>4. ~overtaken /\ ~stale /\ ~upgraded => resume = Nothing /\ \A c \in Versions : Told(c) => c <= base
    BY <2>2 DEF Rest, Ahead
  <2>5. known \in Versions /\ known >= base
    BY <1>0, <2>1 DEF Statuses, Versions, Nothing
  <2>6. OneBatch' /\ Whole' /\ Ahead'
    BY <1>0, <2>1, <2>2, <2>3, <2>4, <2>5, RefillKeeps
  <2>7. MovesBetween'
    BY <2>1 DEF Rest, MovesBetween
  <2>. QED BY <2>6, <2>7
<1>10. CASE Probe
  BY <1>10, QuietKeeps DEF Probe, ProbeFails, ProbeAnswers, quiet
<1>11. CASE runCoverage
  BY <1>11, QuietKeeps DEF runCoverage, OpenCoverage, CloseCoverage, ReadCoverage, quiet
<1>12. CASE GraceEnds
  BY <1>12, QuietKeeps DEF GraceEnds, quiet
<1>13. CASE Watch
  <2>0. /\ pc \in Between /\ ~midBatch
        /\ UNCHANGED <<asking, midBatch, baseline, heard, cut, overtaken, upgraded>>
    BY <1>13 DEF Watch, Between, Rest, MovesBetween
  <2>1. MovesBetween'
    BY <2>0 DEF MovesBetween
  <2>2. CASE pc' = "start" /\ UNCHANGED <<resume, source, stale>>
    BY <2>0, <2>1, <2>2 DEF Rest, OneBatch, Whole, Ahead, Told, Queued, Attached, Between
  <2>3. CASE pc' = "plain" /\ SubscribeHub
    BY <2>0, <2>1, <2>3, SubscribeKeeps
  <2>. QED BY <1>13, <2>2, <2>3 DEF Watch
<1>14. CASE TakeChanged
  BY <1>14 DEF TakeChanged, Rest, OneBatch, MovesBetween, Whole, Ahead, Told, Queued, Attached, Between
<1>15. CASE Route
  <2>0. /\ pc \in Between /\ ~midBatch
        /\ UNCHANGED <<asking, midBatch, baseline, heard, cut, overtaken, upgraded>>
    BY <1>15 DEF Route, Between, Rest, MovesBetween
  <2>1. MovesBetween'
    BY <2>0 DEF MovesBetween
  <2>2. CASE pc' = "fetch" /\ UNCHANGED <<resume, source, stale>>
    BY <2>0, <2>1, <2>2 DEF Rest, OneBatch, Whole, Ahead, Told, Queued, Attached, Between
  <2>3. CASE pc' = "hub" /\ SubscribeHub
    BY <2>0, <2>1, <2>3, SubscribeKeeps
  <2>. QED BY <1>15, <2>2, <2>3 DEF Route
<1>16. CASE CatchUp
  <2>0. /\ pc = "fetch" /\ pc \in Between /\ ~midBatch /\ queue = <<>> /\ ~serving
        /\ UNCHANGED <<asking, resume, queue, base, serving, cut, overtaken, stale, upgraded>>
        /\ pc' \in {"open", "over"}
    BY <1>16 DEF CatchUp, Between, Rest, MovesBetween, OneBatch
  <2>1. CASE pc' = "open" /\ UNCHANGED delivery
    BY <2>0, <2>1 DEF Rest, OneBatch, MovesBetween, Whole, Ahead, Told, Queued, Attached, Between
  <2>2. CASE heard' = Reports(baseline, version) /\ baseline' = version /\ ~midBatch'
    <3>1. MovesBetween'
      BY <2>2 DEF MovesBetween
    <3>. QED BY <2>0, <2>2, <3>1, FetchKeeps DEF Between
  <2>. QED BY <1>16, <2>0, <2>1, <2>2 DEF CatchUp
<1>17. CASE OpenWatch
  <2>0. /\ pc \in Between /\ ~midBatch /\ queue = <<>> /\ ~serving
        /\ queue' = <<>> /\ base' = baseline /\ pc' \in {"sub", "start"} /\ (pc' = "start" => ~serving')
        /\ UNCHANGED <<asking, midBatch, baseline, heard, resume, cut, overtaken, stale, upgraded>>
    BY <1>17 DEF OpenWatch, Seed, Between, Rest, MovesBetween, OneBatch
  <2>1. OneBatch' /\ MovesBetween'
    BY <2>0 DEF OneBatch, MovesBetween, Between
  <2>2. Whole'
    BY <2>0 DEF Rest, Whole, Told
  <2>3. Ahead'
    BY <2>0 DEF Rest, Ahead, Told
  <2>. QED BY <2>1, <2>2, <2>3
<1>18. CASE Deliver
  BY <1>18, DeliverKeeps
<1>19. CASE Wake
  <2>1. /\ pc' = pc /\ asking' = ~midBatch
        /\ UNCHANGED <<midBatch, baseline, heard, resume, queue, base, serving, cut, overtaken, stale, upgraded>>
    BY <1>19 DEF Wake, Awaits
  <2>. QED BY <2>1 DEF Rest, OneBatch, MovesBetween, Whole, Ahead, Told, Queued, Attached
<1>20. CASE StillHere
  <2>0. /\ asking /\ ~asking' /\ ~midBatch /\ pc \in {"hub", "sub"}
        /\ UNCHANGED <<midBatch, baseline, heard, resume, cut, overtaken, stale, upgraded>>
    BY <1>20 DEF StillHere, Rest, MovesBetween
  <2>1. MovesBetween'
    BY <2>0 DEF MovesBetween
  <2>2. CASE UNCHANGED <<pc, queue, base, serving>>
    BY <2>0, <2>1, <2>2 DEF Rest, OneBatch, Whole, Ahead, Told, Queued, Attached
  <2>3. CASE pc' = "start" /\ queue' = <<>> /\ base' = Nothing /\ serving' = FALSE
    BY <2>0, <2>1, <2>3, LeaveKeeps DEF Between
  <2>. QED BY <1>20, <2>2, <2>3 DEF StillHere
<1>21. CASE StreamEnds
  <2>0. /\ ~asking /\ ~serving /\ queue = <<>> /\ pc' = "start" /\ ~midBatch' /\ base' = Nothing
        /\ UNCHANGED <<asking, baseline, heard, queue, serving, resume, cut, overtaken, stale, upgraded>>
    BY <1>21 DEF StreamEnds
  <2>1. ~cut => ~midBatch
    BY <2>0 DEF Rest, Whole
  <2>2. MovesBetween'
    BY <2>0 DEF MovesBetween
  <2>3. serving' = FALSE
    BY <2>0 DEF TypeOK
  <2>. QED BY <2>0, <2>1, <2>2, <2>3, LeaveKeeps DEF Between
<1>22. CASE TimerIdles
  BY <1>22, QuietKeeps DEF TimerIdles, quiet
<1>23. CASE SafetyFetch
  <2>0. /\ pc = "sub" /\ ~asking /\ asking' = asking /\ pc' \in {"sub", "over"}
        /\ heard' = Reports(baseline, version) /\ baseline' = version /\ ~midBatch'
        /\ overtaken' /\ cut' = (cut \/ midBatch)
        /\ UNCHANGED <<resume, queue, base, serving, stale, upgraded>>
    BY <1>23 DEF SafetyFetch, SafetyReads
  <2>1. ~cut' => ~cut /\ ~midBatch
    BY <2>0
  <2>2. MovesBetween'
    BY <2>0 DEF MovesBetween
  <2>. QED BY <2>0, <2>1, <2>2, FetchKeeps DEF Between
<1>. QED
  BY <1>1, <1>2, <1>3, <1>4, <1>5, <1>6, <1>7, <1>8, <1>9, <1>10, <1>11, <1>12, <1>13, <1>14, <1>15,
     <1>16, <1>17, <1>18, <1>19, <1>20, <1>21, <1>22, <1>23
  DEF Next, External, coverageWatch

----------------------------------------------------------------------------
(* The theorems.                                                           *)

\* The invariant is inductive: nobody is ahead of GitHub, a queue is the rest of one
\* batch, a watch moves between two batches, every change a baseline accounts for was
\* delivered or is queued, and what was delivered lies below what is queued.
THEOREM CoverWatchInvariant == Spec => []IInv
<1>1. Init => IInv
  <2>. SUFFICES ASSUME Init PROVE IInv
    OBVIOUS
  <2>1. TypeOK
    <3>1. Nothing \in Statuses /\ 0 \in Versions /\ Versions \subseteq Statuses
      BY DEF Statuses, Versions
    <3>2. <<>> \in Seq(Entries) /\ <<>> \in Seq(Updates)
      BY EmptySeq
    <3>3. 0 \in 0..MaxFaults /\ 0 \in 0..MaxNews
      OBVIOUS
    <3>4. heard \in [Versions -> 0..2]
      BY DEF Init
    <3>. QED BY <3>1, <3>2, <3>3, <3>4 DEF Init, TypeOK
  <2>2. InTime
    BY DEF Init, InTime, Nothing
  <2>3. OneBatch /\ MovesBetween
    BY DEF Init, OneBatch, MovesBetween
  <2>4. Whole
    <3>1. \A c \in 0..Nothing : FALSE
      BY DEF Nothing
    <3>. QED BY <3>1 DEF Init, Whole, Attached
  <2>5. Ahead
    BY DEF Init, Ahead, Told, Attached
  <2>. QED BY <2>1, <2>2, <2>3, <2>4, <2>5 DEF IInv
<1>2. IInv /\ [Next]_vars => IInv'
  <2>. SUFFICES ASSUME IInv, [Next]_vars PROVE IInv'
    OBVIOUS
  <2>1. TypeOK /\ Rest
    BY DEF IInv, Rest
  <2>2. TypeOK'
    BY <2>1, Typing
  <2>3. CASE UNCHANGED vars
    <3>1. UNCHANGED <<quiet, timely, resume>>
      BY <2>3 DEF vars, quiet, timely, github, subdaemon, routing, delivery, source, history
    <3>2. InTime'
      BY <3>1, <2>1 DEF Rest, InTime, timely
    <3>3. OneBatch' /\ MovesBetween' /\ Whole' /\ Ahead'
      BY <3>1, <2>1, QuietKeeps
    <3>. QED BY <2>2, <3>2, <3>3 DEF IInv
  <2>4. CASE Next
    BY <2>1, <2>2, <2>4, TimeStep, RestStep DEF IInv
  <2>. QED BY <2>3, <2>4
<1>. QED BY <1>1, <1>2, PTL DEF Spec

\* A move never hides a change: what the watch's baseline accounts for was delivered,
\* or is in the rest of the batch it delivers, unless a stream broke within a batch.
THEOREM MovesLoseNothing == Spec => []NothingLost
<1>1. IInv => NothingLost
  BY DEF IInv, Whole, NothingLost, Told, Queued
<1>. QED BY <1>1, CoverWatchInvariant, PTL

\* Moving between the hub and the sub-daemon tells no change twice, unless a safety
\* fetch ran ahead, the hub answered with an older payload, or the daemon was upgraded.
THEOREM MovesRepeatNothing == Spec => []NothingTwice
<1>1. IInv => NothingTwice
  <2>. SUFFICES ASSUME IInv, ~overtaken, ~stale, ~upgraded, NEW c \in Versions PROVE heard[c] < 2
    BY DEF NothingTwice
  <2>1. heard[c] \in 0..2  BY DEF IInv, TypeOK
  <2>2. Told(c) => heard[c] = 1  BY DEF IInv, Ahead
  <2>. QED BY <2>1, <2>2 DEF Told
<1>. QED BY <1>1, CoverWatchInvariant, PTL
=============================================================================
