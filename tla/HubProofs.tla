----------------------------- MODULE HubProofs -----------------------------
(***************************************************************************)
(* The hub's promises for every number of Subscribe calls, pollers,        *)
(* messages and changes, and every capacity of the notice channel.         *)
(***************************************************************************)
EXTENDS Hub, TLAPS

\* Every variable keeps its type, and no channel outgrows its capacity.
THEOREM HubTypeCorrect == Spec => []TypeOK
<1> USE HubAssumption
<1>1. Init => TypeOK
  <2> SUFFICES ASSUME Init PROVE TypeOK
    OBVIOUS
  <2>1. registered \in Pollers \cup {NoPoller} /\ created \in SUBSET Pollers
    BY DEF Init
  <2>2. latest \in [Pollers -> Versions]
    BY DEF Init, Versions
  <2>3. /\ notifCh \in [Subs -> Seq(Notice)]
        /\ \A s \in Subs : Len(notifCh[s]) <= NotifCap
    BY DEF Init
  <2>4. /\ started \in SUBSET Pollers /\ stopped \in SUBSET Pollers
        /\ subs \in [Pollers -> SUBSET Subs]
        /\ episode \in [Pollers -> Messages \cup {NoMessage}]
        /\ run \in [Pollers -> Programs]
        /\ fetched \in [Pollers -> Versions]
        /\ woken \in SUBSET Pollers
    BY DEF Init, Programs, Versions
  <2>5. /\ pc \in [Subs -> Calls]
        /\ poller \in [Subs -> Pollers \cup {NoPoller}]
        /\ \A s \in Subs : pc[s] # "out" => poller[s] \in Pollers
        /\ starter \in SUBSET Subs
    BY DEF Init, Calls
  <2>6. /\ snapshotCh \in [Subs -> Versions] /\ baseline \in [Subs -> Versions]
        /\ ended \in SUBSET Subs
        /\ upstream \in 1..MaxVersion /\ notices \in 0..MaxNotices
        /\ down \in BOOLEAN /\ crossed \in BOOLEAN
    <3>1. MaxVersion \in Nat \ {0} /\ MaxNotices \in Nat
      OBVIOUS
    <3>2. 0 \in Versions /\ 1 \in 1..MaxVersion /\ 0 \in 0..MaxNotices
      BY <3>1 DEF Versions
    <3>3. QED
      BY <3>2 DEF Init
  <2>7. /\ heard \in [Subs -> Notice \cup {Nothing}]
        /\ owed \in [Subs -> Notice \cup {Nothing}]
    BY DEF Init
  <2>8. QED
    BY <2>1, <2>2, <2>3, <2>4, <2>5, <2>6, <2>7 DEF TypeOK
<1>2. TypeOK /\ [Next]_vars => TypeOK'
  <2> SUFFICES ASSUME TypeOK, [Next]_vars PROVE TypeOK'
    OBVIOUS
  <2> USE DEF TypeOK, pollerVars, fetchVars, callVars, loopVars
  <2>1. ASSUME NEW s \in Subs, Lookup(s) PROVE TypeOK'
    BY <2>1 DEF Lookup, Claimants, Calls
  <2>2. ASSUME NEW s \in Subs, Attach(s) PROVE TypeOK'
    BY <2>2 DEF Attach, Calls
  <2>3. ASSUME NEW s \in Subs, Launch(s) PROVE TypeOK'
    BY <2>3 DEF Launch, Calls, Programs
  <2>4. ASSUME NEW s \in Subs, Cancel(s) PROVE TypeOK'
    <3>1. crossed' \in BOOLEAN
      BY <2>4 DEF Cancel
    <3>2. AfterCancel(s) \in Calls
      BY DEF AfterCancel, Calls
    <3>3. /\ subs' = [subs EXCEPT ![poller[s]] = @ \ {s}]
          /\ pc' = [pc EXCEPT ![s] = AfterCancel(s)]
          /\ snapshotCh' = [snapshotCh EXCEPT ![s] = 0]
          /\ notifCh' = [notifCh EXCEPT ![s] = <<>>]
          /\ pc[s] # "out"
          /\ UNCHANGED <<registered, created, started, stopped, fetchVars, poller, starter,
                         baseline, ended, heard, owed, upstream, down>>
      BY <2>4 DEF Cancel
    <3>4. QED
      BY <3>1, <3>2, <3>3 DEF Versions
  <2>5. ASSUME NEW s \in Subs, StopPoller(s) PROVE TypeOK'
    BY <2>5 DEF StopPoller, Calls
  <2>6. ASSUME NEW s \in Subs, DropPoller(s) PROVE TypeOK'
    BY <2>6 DEF DropPoller, Calls
  <2>7. ASSUME NEW s \in Subs, TakeSnapshot(s) PROVE TypeOK'
    BY <2>7 DEF TakeSnapshot, Versions
  <2>8. ASSUME NEW s \in Subs, TakeNotice(s) PROVE TypeOK'
    BY <2>8 DEF TakeNotice
  <2>9. ASSUME NEW p \in Pollers, NEW m \in Messages \cup {Recovered}, broadcast(p, m)
        PROVE  /\ notifCh' \in [Subs -> Seq(Notice)]
               /\ \A s \in Subs : Len(notifCh'[s]) <= NotifCap
               /\ owed' \in [Subs -> Notice \cup {Nothing}]
    <3>1. [msg |-> m, version |-> latest[p]] \in Notice
      BY DEF Notice
    <3>2. QED
      BY <2>9, <3>1 DEF broadcast, HasRoom
  <2>10. ASSUME NEW p \in Pollers, NEW m \in Messages, FetchFails(p, m) PROVE TypeOK'
    BY <2>9, <2>10 DEF FetchFails, Programs
  <2>11. ASSUME NEW p \in Pollers, FetchReturns(p) PROVE TypeOK'
    <3>1. /\ notifCh' \in [Subs -> Seq(Notice)]
          /\ \A s \in Subs : Len(notifCh'[s]) <= NotifCap
          /\ owed' \in [Subs -> Notice \cup {Nothing}]
      BY <2>9, <2>11 DEF FetchReturns
    <3>2. QED
      BY <2>11, <3>1 DEF FetchReturns, Programs, Versions
  <2>12. ASSUME NEW p \in Pollers, Deliver(p) PROVE TypeOK'
    BY <2>12 DEF Deliver, Offered, Programs, Versions
  <2>13. ASSUME NEW p \in Pollers, Tick(p) \/ Wake(p) \/ Exit(p) PROVE TypeOK'
    BY <2>13 DEF Tick, Wake, Exit, Programs
  <2>14. CASE Refresh
    BY <2>14 DEF Refresh
  <2>15. CASE Stop
    BY <2>15 DEF Stop
  <2>16. CASE Change
    BY <2>16 DEF Change
  <2>17. CASE UNCHANGED vars
    BY <2>17 DEF vars
  <2>18. QED
    BY <2>1, <2>2, <2>3, <2>4, <2>5, <2>6, <2>7, <2>8, <2>10, <2>11, <2>12, <2>13,
       <2>14, <2>15, <2>16, <2>17 DEF Next, Subscribe, detach, Fetch
<1>3. QED
  BY <1>1, <1>2, PTL DEF Spec

----------------------------------------------------------------------------
\* Who is attached to what follows from where the calls are.
AttachInv ==
  \A s \in Subs, p \in Pollers :
    s \in subs[p] <=> poller[s] = p /\ pc[s] \in {"launch", "watching"}

\* An unstopped poller is the registered one; a poller is dropped only stopped.
LiveInv ==
  /\ \A p \in Live : registered = p
  /\ \A s \in Subs : pc[s] = "drop" => poller[s] \in stopped

\* One call owns the start of a poller, whose goroutine is unborn until then.
StartInv ==
  /\ \A p \in Pollers : p \notin started => run[p] = "unborn"
  /\ \A s \in starter : pc[s] # "out" /\ poller[s] \in started
  /\ \A s \in starter : Subscribing(s) => run[poller[s]] = "unborn"
  /\ \A s, t \in starter : poller[s] = poller[t] => s = t

\* A poller whose goroutine was born has had a call return with it.
AudienceInv ==
  \A p \in Pollers : run[p] # "unborn" =>
    \E s \in Subs : poller[s] = p /\ pc[s] \in {"watching", "stop", "drop", "left"}

IInv == TypeOK /\ AttachInv /\ LiveInv /\ StartInv /\ AudienceInv /\ NoOrphanPoller

\* The steps that fetch, deliver and consume.
Quiet ==
  \/ \E s \in Subs : TakeSnapshot(s) \/ TakeNotice(s)
  \/ \E p \in Pollers : Fetch(p) \/ Tick(p) \/ Wake(p) \/ Exit(p)
  \/ Refresh \/ Change \/ UNCHANGED vars

\* Fetching, delivering and consuming neither subscribe nor cancel, and bring no
\* goroutine to life.
LEMMA QuietStep ==
  ASSUME TypeOK, Quiet
  PROVE  /\ UNCHANGED <<registered, created, started, stopped, subs, pc, poller, starter,
                         down, crossed>>
         /\ \A p \in Pollers : run'[p] = "unborn" <=> run[p] = "unborn"
<1> USE DEF TypeOK, pollerVars, fetchVars, callVars, loopVars
<1>1. CASE \E s \in Subs : TakeSnapshot(s) \/ TakeNotice(s)
  BY <1>1 DEF TakeSnapshot, TakeNotice
<1>2. ASSUME NEW p \in Pollers, Fetch(p)
      PROVE  /\ UNCHANGED <<registered, created, started, stopped, subs, pc, poller, starter,
                         down, crossed>>
             /\ \A q \in Pollers : run'[q] = "unborn" <=> run[q] = "unborn"
  BY <1>2 DEF Fetch, FetchFails, FetchReturns, Deliver
<1>3. ASSUME NEW p \in Pollers, Tick(p) \/ Wake(p) \/ Exit(p)
      PROVE  /\ UNCHANGED <<registered, created, started, stopped, subs, pc, poller, starter,
                         down, crossed>>
             /\ \A q \in Pollers : run'[q] = "unborn" <=> run[q] = "unborn"
  BY <1>3 DEF Tick, Wake, Exit
<1>4. CASE Refresh \/ Change \/ UNCHANGED vars
  BY <1>4 DEF Refresh, Change, vars
<1>5. QED
  BY <1>1, <1>2, <1>3, <1>4 DEF Quiet

\* Every step is a step of a Subscribe call or of its cancel, Stop, or quiet.
LEMMA StepKinds ==
  ASSUME [Next]_vars
  PROVE  (\E s \in Subs : Subscribe(s) \/ detach(s)) \/ Stop \/ Quiet
BY DEF Next, Quiet

\* A step keeps the attachments as they are.
LEMMA AttachStep == IInv /\ [Next]_vars => AttachInv'
<1> SUFFICES ASSUME IInv, [Next]_vars PROVE AttachInv'
  OBVIOUS
<1> USE DEF IInv, TypeOK, AttachInv, pollerVars, callVars
<1>1. ASSUME NEW s \in Subs, Lookup(s) PROVE AttachInv'
  BY <1>1 DEF Lookup
<1>2. ASSUME NEW s \in Subs, Attach(s) PROVE AttachInv'
  BY <1>2 DEF Attach
<1>3. ASSUME NEW s \in Subs, Launch(s) PROVE AttachInv'
  BY <1>3 DEF Launch
<1>4. ASSUME NEW s \in Subs, Cancel(s) PROVE AttachInv'
  BY <1>4 DEF Cancel, AfterCancel
<1>5. ASSUME NEW s \in Subs, StopPoller(s) \/ DropPoller(s) PROVE AttachInv'
  BY <1>5 DEF StopPoller, DropPoller
<1>6. CASE Stop
  BY <1>6 DEF Stop
<1>7. CASE Quiet
  BY <1>7, QuietStep
<1>8. QED
  BY <1>1, <1>2, <1>3, <1>4, <1>5, <1>6, <1>7, StepKinds DEF Subscribe, detach

\* A step keeps one live poller of an identity.
LEMMA LiveStep == IInv /\ [Next]_vars => LiveInv'
<1> SUFFICES ASSUME IInv, [Next]_vars PROVE LiveInv'
  OBVIOUS
<1> USE HubAssumption DEF IInv, TypeOK, LiveInv, Live, pollerVars, callVars
<1>1. ASSUME NEW s \in Subs, Lookup(s) PROVE LiveInv'
  BY <1>1 DEF Lookup
<1>2. ASSUME NEW s \in Subs, Attach(s) \/ Launch(s) PROVE LiveInv'
  BY <1>2 DEF Attach, Launch
<1>3. ASSUME NEW s \in Subs, Cancel(s) PROVE LiveInv'
  BY <1>3 DEF Cancel, AfterCancel
<1>4. ASSUME NEW s \in Subs, StopPoller(s) PROVE LiveInv'
  BY <1>4 DEF StopPoller
<1>5. ASSUME NEW s \in Subs, DropPoller(s) PROVE LiveInv'
  BY <1>5 DEF DropPoller
<1>6. CASE Stop
  BY <1>6 DEF Stop
<1>7. CASE Quiet
  BY <1>7, QuietStep
<1>8. QED
  BY <1>1, <1>2, <1>3, <1>4, <1>5, <1>6, <1>7, StepKinds DEF Subscribe, detach

\* A step keeps one starter of a poller.
LEMMA StartStep == IInv /\ [Next]_vars => StartInv'
<1> SUFFICES ASSUME IInv, [Next]_vars PROVE StartInv'
  OBVIOUS
<1> USE DEF IInv, TypeOK, StartInv, Subscribing, pollerVars, callVars
<1>1. ASSUME NEW s \in Subs, Lookup(s) PROVE StartInv'
  <2>1. PICK p \in Pollers :
          /\ poller' = [poller EXCEPT ![s] = p]
          /\ starter' = Claimants(s, p)
          /\ started' = started \cup {p}
    BY <1>1 DEF Lookup
  <2>2. pc' = [pc EXCEPT ![s] = "attach"] /\ run' = run /\ s \notin starter
    BY <1>1 DEF Lookup, fetchVars
  <2>3. CASE p \in started
    BY <2>1, <2>2, <2>3 DEF Claimants
  <2>4. CASE p \notin started
    BY <2>1, <2>2, <2>4 DEF Claimants
  <2>5. QED
    BY <2>3, <2>4
<1>2. ASSUME NEW s \in Subs, Attach(s) PROVE StartInv'
  BY <1>2 DEF Attach, fetchVars
<1>3. ASSUME NEW s \in Subs, Launch(s) PROVE StartInv'
  BY <1>3 DEF Launch
<1>4. ASSUME NEW s \in Subs, detach(s) PROVE StartInv'
  BY <1>4 DEF detach, Cancel, AfterCancel, StopPoller, DropPoller, fetchVars
<1>5. CASE Stop
  BY <1>5 DEF Stop, fetchVars
<1>6. CASE Quiet
  BY <1>6, QuietStep
<1>7. QED
  BY <1>1, <1>2, <1>3, <1>4, <1>5, <1>6, StepKinds DEF Subscribe

\* A step keeps a fetch waiting for its audience.
LEMMA AudienceStep == IInv /\ [Next]_vars => AudienceInv'
<1> SUFFICES ASSUME IInv, [Next]_vars PROVE AudienceInv'
  OBVIOUS
<1> USE DEF IInv, TypeOK, AudienceInv, pollerVars, callVars
<1>1. ASSUME NEW s \in Subs, Lookup(s) PROVE AudienceInv'
  <2>1. /\ pc[s] = "out" /\ run' = run
        /\ \A t \in Subs \ {s} : poller'[t] = poller[t] /\ pc'[t] = pc[t]
    BY <1>1 DEF Lookup, fetchVars
  <2>2. ASSUME NEW p \in Pollers, run'[p] # "unborn"
        PROVE  \E t \in Subs : poller'[t] = p /\ pc'[t] \in {"watching", "stop", "drop", "left"}
    <3>1. PICK t \in Subs : poller[t] = p /\ pc[t] \in {"watching", "stop", "drop", "left"}
      BY <2>1, <2>2
    <3>2. QED
      BY <2>1, <3>1
  <2>3. QED
    BY <2>2
<1>2. ASSUME NEW s \in Subs, Attach(s) PROVE AudienceInv'
  BY <1>2 DEF Attach, fetchVars
<1>3. ASSUME NEW s \in Subs, Launch(s) PROVE AudienceInv'
  BY <1>3 DEF Launch
<1>4. ASSUME NEW s \in Subs, detach(s) PROVE AudienceInv'
  <2>1. run' = run /\ poller' = poller
    BY <1>4 DEF detach, Cancel, StopPoller, DropPoller, fetchVars
  <2>2. \A t \in Subs : pc[t] \in {"watching", "stop", "drop", "left"}
                       => pc'[t] \in {"watching", "stop", "drop", "left"}
    BY <1>4 DEF detach, Cancel, AfterCancel, StopPoller, DropPoller
  <2>3. QED
    BY <2>1, <2>2
<1>5. CASE Stop
  BY <1>5 DEF Stop, fetchVars
<1>6. CASE Quiet
  BY <1>6, QuietStep
<1>7. QED
  BY <1>1, <1>2, <1>3, <1>4, <1>5, <1>6, StepKinds DEF Subscribe

\* A step leaves no live poller without a subscriber.
LEMMA OrphanStep == IInv /\ [Next]_vars => NoOrphanPoller'
<1> SUFFICES ASSUME IInv, [Next]_vars PROVE NoOrphanPoller'
  OBVIOUS
<1> USE DEF IInv, TypeOK, NoOrphanPoller, Live, pollerVars, callVars
<1>1. ASSUME NEW s \in Subs, Lookup(s) PROVE NoOrphanPoller'
  <2>1. PICK p \in Pollers :
          /\ created' \subseteq created \cup {p}
          /\ poller' = [poller EXCEPT ![s] = p]
          /\ started' = started \cup {p}
    BY <1>1 DEF Lookup
  <2>2. pc' = [pc EXCEPT ![s] = "attach"] /\ UNCHANGED <<stopped, subs>> /\ pc[s] = "out"
    BY <1>1 DEF Lookup
  <2>3. ASSUME NEW q \in Live' \cap started'
        PROVE  \E t \in Subs : poller'[t] = q /\ (t \in subs'[q] \/ pc'[t] \in {"attach", "stop"})
    <3>1. CASE q = p
      BY <2>1, <2>2, <3>1
    <3>2. CASE q # p
      <4>1. q \in Live \cap started
        BY <2>1, <2>2, <2>3, <3>2
      <4>2. PICK t \in Subs : poller[t] = q /\ (t \in subs[q] \/ pc[t] \in {"attach", "stop"})
        BY <4>1
      <4>3. t # s
        BY <2>2, <4>1, <4>2 DEF AttachInv
      <4>4. QED
        BY <2>1, <2>2, <4>2, <4>3
    <3>3. QED
      BY <3>1, <3>2
  <2>4. QED
    BY <2>3
<1>2. ASSUME NEW s \in Subs, Attach(s) PROVE NoOrphanPoller'
  BY <1>2 DEF Attach
<1>3. ASSUME NEW s \in Subs, Launch(s) PROVE NoOrphanPoller'
  BY <1>3 DEF Launch
<1>4. ASSUME NEW s \in Subs, Cancel(s) PROVE NoOrphanPoller'
  <2> DEFINE p == poller[s]
  <2>1. /\ pc[s] = "watching" /\ s \in subs[p] /\ p \in Pollers
        /\ subs' = [subs EXCEPT ![p] = @ \ {s}]
        /\ pc' = [pc EXCEPT ![s] = AfterCancel(s)]
        /\ UNCHANGED <<created, started, stopped, poller>>
    BY <1>4 DEF Cancel, AttachInv
  <2>2. ASSUME NEW q \in Live \cap started
        PROVE  \E t \in Subs : poller'[t] = q /\ (t \in subs'[q] \/ pc'[t] \in {"attach", "stop"})
    <3>1. PICK t \in Subs : poller[t] = q /\ (t \in subs[q] \/ pc[t] \in {"attach", "stop"})
      OBVIOUS
    <3>2. CASE t # s
      BY <2>1, <3>1, <3>2
    <3>3. CASE t = s /\ subs[p] = {s}
      BY <2>1, <3>1, <3>3 DEF AfterCancel
    <3>4. CASE t = s /\ subs[p] # {s}
      <4>1. PICK u \in subs[p] : u # s
        BY <2>1, <3>4
      <4>2. u \in Subs /\ poller[u] = q
        BY <2>1, <3>1, <3>4, <4>1 DEF AttachInv
      <4>3. QED
        BY <2>1, <3>1, <3>4, <4>1, <4>2
    <3>5. QED
      BY <3>2, <3>3, <3>4
  <2>3. QED
    BY <2>1, <2>2
<1>5. ASSUME NEW s \in Subs, StopPoller(s) \/ DropPoller(s) PROVE NoOrphanPoller'
  <2>1. Live' \subseteq Live /\ UNCHANGED <<started, subs, poller>>
    BY <1>5 DEF StopPoller, DropPoller
  <2>2. \A t \in Subs : poller[t] \in Live' /\ pc[t] \in {"attach", "stop"} => pc'[t] = pc[t]
    BY <1>5 DEF StopPoller, DropPoller
  <2>3. ASSUME NEW q \in Live' \cap started'
        PROVE  \E t \in Subs : poller'[t] = q /\ (t \in subs'[q] \/ pc'[t] \in {"attach", "stop"})
    <3>1. PICK t \in Subs : poller[t] = q /\ (t \in subs[q] \/ pc[t] \in {"attach", "stop"})
      BY <2>1 DEF NoOrphanPoller
    <3>2. QED
      BY <2>1, <2>2, <3>1
  <2>4. QED
    BY <2>3
<1>6. CASE Stop
  BY <1>6 DEF Stop
<1>7. CASE Quiet
  BY <1>7, QuietStep
<1>8. QED
  BY <1>1, <1>2, <1>3, <1>4, <1>5, <1>6, <1>7, StepKinds DEF Subscribe, detach

\* The inductive invariant of the subscription protocol.
LEMMA HubInvariant == Spec => []IInv
<1>1. Init => AttachInv /\ LiveInv /\ StartInv /\ AudienceInv /\ NoOrphanPoller
  BY DEF Init, AttachInv, LiveInv, Live, StartInv, AudienceInv, NoOrphanPoller
<1>2. IInv /\ [Next]_vars /\ TypeOK' => IInv'
  BY AttachStep, LiveStep, StartStep, AudienceStep, OrphanStep DEF IInv
<1>3. Init /\ TypeOK => IInv
  BY <1>1 DEF IInv
<1>4. QED
  BY <1>2, <1>3, HubTypeCorrect, PTL DEF Spec

\* However calls to Subscribe, their cancels and Stop interleave, an identity
\* never has two pollers that are not stopped.
THEOREM OnePollerPerIdentity == Spec => []OneLivePoller
<1>1. IInv => OneLivePoller
  BY DEF IInv, LiveInv, OneLivePoller
<1>2. QED
  BY <1>1, HubInvariant, PTL

\* No goroutine of a poller is launched twice.
THEOREM OneStart == Spec => []StartedOnce
<1>1. IInv => StartedOnce
  BY DEF IInv, StartInv, StartedOnce
<1>2. QED
  BY <1>1, HubInvariant, PTL

\* No poller fetches before its first subscriber is attached (issue #190).
THEOREM NoUnheardFetch == Spec => []FetchHasAudience
<1>1. IInv => FetchHasAudience
  BY DEF IInv, AttachInv, AudienceInv, FetchHasAudience
<1>2. QED
  BY <1>1, HubInvariant, PTL

\* No started poller runs on with nobody attached and nobody about to stop it.
THEOREM NoLeak == Spec => []NoOrphanPoller
<1>1. IInv => NoOrphanPoller
  BY DEF IInv
<1>2. QED
  BY <1>1, HubInvariant, PTL

----------------------------------------------------------------------------
\* As long as no call crossed another's cancel, a stopped poller is stopped for
\* good: nobody is on the way to it, and if it is still registered its dropper is
\* about to remove it.
SerialInv ==
  /\ \A s \in Subs : pc[s] = "stop" => subs[poller[s]] = {}
  /\ \A s, t \in Subs : Leaving(s) => ~Subscribing(t)
  /\ ~down => \A s \in Subs : pc[s] \in {"attach", "launch", "watching"} => poller[s] \notin stopped
  /\ ~down /\ registered \in stopped => \E s \in Subs : pc[s] = "drop" /\ poller[s] = registered

\* Pollers are allocated before they are registered, held or stopped.
CreatedInv ==
  /\ stopped \subseteq created
  /\ registered # NoPoller => registered \in created
  /\ \A s \in Subs : pc[s] # "out" => poller[s] \in created

CrossInv == CreatedInv /\ (~crossed => SerialInv)

\* A step keeps the created pollers accounted for.
LEMMA CreatedStep == IInv /\ CreatedInv /\ [Next]_vars => CreatedInv'
<1> SUFFICES ASSUME IInv, CreatedInv, [Next]_vars PROVE CreatedInv'
  OBVIOUS
<1> USE HubAssumption DEF IInv, TypeOK, CreatedInv, pollerVars, callVars
<1>1. ASSUME NEW s \in Subs, Lookup(s) PROVE CreatedInv'
  BY <1>1 DEF Lookup
<1>2. ASSUME NEW s \in Subs, Attach(s) \/ Launch(s) PROVE CreatedInv'
  BY <1>2 DEF Attach, Launch
<1>3. ASSUME NEW s \in Subs, detach(s) PROVE CreatedInv'
  BY <1>3 DEF detach, Cancel, StopPoller, DropPoller
<1>4. CASE Stop
  BY <1>4 DEF Stop
<1>5. CASE Quiet
  BY <1>5, QuietStep
<1>6. QED
  BY <1>1, <1>2, <1>3, <1>4, <1>5, StepKinds DEF Subscribe

\* The history only ever turns to "crossed".
LEMMA CrossedStays == IInv /\ [Next]_vars /\ crossed => crossed'
<1> SUFFICES ASSUME IInv, [Next]_vars, crossed PROVE crossed'
  OBVIOUS
<1>1. ASSUME NEW s \in Subs, Subscribe(s) PROVE crossed'
  BY <1>1 DEF Subscribe, Lookup, Attach, Launch
<1>2. ASSUME NEW s \in Subs, detach(s) PROVE crossed'
  BY <1>2 DEF detach, Cancel, StopPoller, DropPoller
<1>3. CASE Stop
  BY <1>3 DEF Stop
<1>4. CASE Quiet
  BY <1>4, QuietStep DEF IInv
<1>5. QED
  BY <1>1, <1>2, <1>3, <1>4, StepKinds

\* The invariant of uncrossed calls is inductive beside IInv.
LEMMA SerialStep ==
  IInv /\ CreatedInv /\ SerialInv /\ [Next]_vars /\ ~crossed' => SerialInv'
<1> SUFFICES ASSUME IInv, CreatedInv, SerialInv, [Next]_vars, ~crossed' PROVE SerialInv'
  OBVIOUS
<1> USE HubAssumption DEF IInv, TypeOK, CreatedInv, SerialInv, Leaving, Subscribing,
                          pollerVars, callVars
<1>1. ASSUME NEW s \in Subs, Lookup(s) PROVE SerialInv'
  <2>1. PICK p \in Pollers :
          /\ \/ registered = p /\ UNCHANGED <<registered, created>>
             \/ /\ registered = NoPoller /\ p \notin created
                /\ registered' = p /\ created' = created \cup {p}
          /\ poller' = [poller EXCEPT ![s] = p]
    BY <1>1 DEF Lookup
  <2>2. /\ pc' = [pc EXCEPT ![s] = "attach"] /\ UNCHANGED <<stopped, subs, down>>
        /\ pc[s] = "out" /\ \A t \in Subs : ~Leaving(t)
    BY <1>1 DEF Lookup
  <2>3. ~down => p \notin stopped
    BY <2>1, <2>2
  <2>4. registered' = p
    BY <2>1
  <2>5. QED
    BY <2>1, <2>2, <2>3, <2>4
<1>2. ASSUME NEW s \in Subs, Attach(s) PROVE SerialInv'
  BY <1>2 DEF Attach
<1>3. ASSUME NEW s \in Subs, Launch(s) PROVE SerialInv'
  BY <1>3 DEF Launch
<1>4. ASSUME NEW s \in Subs, Cancel(s) PROVE SerialInv'
  <2>1. subs[poller[s]] = {s} => \A t \in Subs : ~Subscribing(t)
    BY <1>4 DEF Cancel
  <2>2. QED
    BY <1>4, <2>1 DEF Cancel, AfterCancel
<1>5. ASSUME NEW s \in Subs, StopPoller(s) PROVE SerialInv'
  <2>1. \A t \in Subs : pc[t] \in {"attach", "launch", "watching"} => poller[t] # poller[s]
    <3>1. pc[s] = "stop" /\ poller[s] \in Pollers /\ subs[poller[s]] = {}
      BY <1>5 DEF StopPoller
    <3>2. \A t \in Subs : pc[t] # "attach"
      BY <3>1
    <3>3. \A t \in Subs : pc[t] \in {"launch", "watching"} /\ poller[t] = poller[s] =>
            t \in subs[poller[s]]
      BY <3>1 DEF AttachInv
    <3>4. QED
      BY <3>1, <3>2, <3>3
  <2>2. QED
    BY <1>5, <2>1 DEF StopPoller
<1>6. ASSUME NEW s \in Subs, DropPoller(s) PROVE SerialInv'
  BY <1>6 DEF DropPoller
<1>7. CASE Stop
  BY <1>7 DEF Stop
<1>8. CASE Quiet
  BY <1>8, QuietStep
<1>9. QED
  BY <1>1, <1>2, <1>3, <1>4, <1>5, <1>6, <1>7, <1>8, StepKinds DEF Subscribe, detach

\* The overlap of a Subscribe with the last cancel of its poller is the only way
\* to a blind watcher: without it no watcher's poller is ever stopped under it.
THEOREM SerialWatchersSee == Spec => []WatchersSee
<1>1. Init => CrossInv
  BY HubAssumption DEF Init, CrossInv, CreatedInv, SerialInv, Leaving, Subscribing
<1>2. IInv /\ CrossInv /\ [Next]_vars => CrossInv'
  BY CreatedStep, SerialStep, CrossedStays DEF CrossInv
<1>3. CrossInv => WatchersSee
  BY DEF CrossInv, SerialInv, WatchersSee, NoBlindWatcher
<1>4. QED
  BY <1>1, <1>2, <1>3, HubInvariant, PTL DEF Spec
=============================================================================
