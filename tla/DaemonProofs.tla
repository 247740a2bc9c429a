---------------------------- MODULE DaemonProofs ----------------------------
(***************************************************************************)
(* Proofs about Daemon, for any processes and any unit among them: the     *)
(* daemons of a path implement Ownership, a daemon that serves is          *)
(* reachable, and the service manager's main process is one that serves.   *)
(*                                                                         *)
(* And about Resident, for any number of processes, upgrades, deaths and   *)
(* faults: no upgrade is missed and no sub-daemon orphaned in a way that   *)
(* the code does not account for.                                          *)
(***************************************************************************)
EXTENDS Daemon, Resident, TLAPS

Holding == {"claim", "adopted", "serving", "closing"}
Past == {"serving", "gone"} \cup Leaving
Pending == {"asked", "marked", "sent"}

\* A process has descriptors, a request and a predecessor only where the code
\* gives it them.
Fits ==
  \A p \in Pids :
    /\ holds[p] # None <=> pc[p] \in Holding
    /\ inbox[p] # None <=> pc[p] = "wait" /\ stage[p] \in {"sent", "done"}
    /\ stage[p] = "none" <=> server[p] = None
    /\ server[p] # None => pc[p] \in {"wait", "adopted"} \cup Past
    /\ pc[p] \in Adopting => pre[p] # None
    /\ pre[p] # None => pc[pre[p]] \in Past
    /\ unlinks[p] => pc[p] \in {"claim"} \cup Past

\* What a handler has done so far shows in the daemon it runs in.
Handlers ==
  \A p \in Pids : server[p] # None =>
    /\ pc[server[p]] \in Past
    /\ stage[p] \in {"marked", "sent", "done"} => handedOff[server[p]]
    /\ stage[p] \in {"sent", "done"} => ~unlinks[server[p]]
    /\ stage[p] = "done" => ~Serving(server[p])

\* The unit has a main process while one of its processes lives, and has been
\* joined by others only once that one served or announced itself.
MainLives ==
  /\ mainPID # None => Alive(mainPID)
  /\ \A p \in Unit : Alive(p) => mainPID # None
  /\ \A p \in Unit : Alive(p) /\ p # mainPID =>
       pc[mainPID] \in Adopting \cup {"adopted", "serving"} \cup Leaving

\* The members of Charge.
Has(q, s) == s \in {holds[q], inbox[q]} /\ ~LeftBehind(q)

\* One process is in charge, of the socket that the path leads to.
OnPath == \A q, s \in Pids : Has(q, s) => path = s
Sole == \A q, r, s \in Pids : Has(q, s) /\ Has(r, s) => q = r

\* Nobody is in charge while a process is about to unlink the path by its name.
Cleared == \A p, q, s \in Pids : AboutToUnlink(p) => ~Has(q, s)

\* One successor at a time, and one request of a daemon that goes anywhere.
OneAdopts == \A p, r \in Pids : {pc[p], pc[r]} \subseteq Adopting => p = r
OneRequest ==
  \A p, r \in Pids :
    /\ server[p] = server[r]
    /\ {stage[p], stage[r]} \subseteq Pending \cup {"done"}
    => p = r
OwnRequest ==
  \A a, r \in Pids :
    pc[a] \in Adopting /\ server[r] = pre[a] /\ stage[r] \in Pending => r = a

\* A successor in the unit has announced itself.
Announced == \A a \in Unit : pc[a] \in Adopting => mainPID = a

\* While a successor adopts, its predecessor is in charge, or the successor itself,
\* or one that bound the path after the predecessor's exit.
Succession ==
  \A a, q, s \in Pids :
    pc[a] \in Adopting /\ Has(q, s) =>
      q \in {a, pre[a]} \/ (s = q /\ pc[pre[a]] \in Leaving \cup {"gone"})

\* The unit's process in charge is its main process, or the main process adopts,
\* or is on its way out of a socket that was bound anew.
MainIs ==
  \A q \in Unit, s \in Pids :
    Has(q, s) => \/ mainPID = q
                 \/ pc[mainPID] \in Adopting
                 \/ s = q /\ Retiring(mainPID)

InOrder ==
  /\ OnPath /\ Sole /\ Cleared
  /\ OneAdopts /\ OneRequest /\ OwnRequest
  /\ Announced /\ Succession /\ MainIs

Base == TypeOK /\ Fits /\ Handlers /\ MainLives

\* The inductive invariant.
IInv == Base /\ (Orderly => InOrder)

USE UnitAssumption, NoneAssumption

----------------------------------------------------------------------------
(* The types.                                                              *)

\* The deaths a process's end brings about are of processes.
LEMMA CasualtiesType ==
  ASSUME NEW p \in Pids, NEW m PROVE Casualties(p, m) \subseteq Pids
BY DEF Casualties

\* A death keeps the types of what it changes.
LEMMA DieType ==
  ASSUME TypeOK, NEW dead \in SUBSET Pids, NEW main \in Unit \cup {None}, Die(dead, main)
  PROVE  /\ pc' \in [Pids -> Places] /\ holds' \in [Pids -> Maybe]
         /\ inbox' \in [Pids -> Maybe]
         /\ stage' \in [Pids -> {"none", "asked", "marked", "sent", "failed", "done"}]
         /\ mainPID' \in Unit \cup {None}
         /\ \A p \in Pids : holds'[p] \in {holds[p], None}
BY DEF TypeOK, Die, Places, Maybe

\* An attempt undone leaves a main process, or none.
LEMMA AbortType ==
  ASSUME TypeOK, NEW p \in Pids PROVE Abort(p) \in Unit \cup {None}
BY DEF Abort, Notify, TypeOK

\* A process's end keeps the types.
LEMMA EndType ==
  ASSUME TypeOK, NEW p \in Pids, NEW main \in Unit \cup {None},
         Die(Casualties(p, main), main),
         path' \in Maybe, UNCHANGED <<record, unlinks, handedOff, server, pre>>,
         calm' \in SUBSET Pids, UNCHANGED <<crossed, contended>>
  PROVE  TypeOK'
<1>1. Casualties(p, main) \in SUBSET Pids  BY CasualtiesType
<1>2. /\ pc' \in [Pids -> Places] /\ holds' \in [Pids -> Maybe]
      /\ inbox' \in [Pids -> Maybe]
      /\ stage' \in [Pids -> {"none", "asked", "marked", "sent", "failed", "done"}]
      /\ mainPID' \in Unit \cup {None}
      /\ \A r \in Pids : holds'[r] \in {holds[r], None}
  BY <1>1, DieType
<1>. QED BY <1>2 DEF TypeOK

\* Every step keeps the types.
LEMMA Typing == Base /\ [Next]_vars => TypeOK'
<1>. SUFFICES ASSUME Base, [Next]_vars PROVE TypeOK'
  OBVIOUS
<1>. USE DEF Base
<1>0. CASE UNCHANGED vars
  BY <1>0 DEF vars, handoffVars, history, TypeOK
<1>a. mainPID \in Unit \cup {None}  BY DEF TypeOK
<1>. SUFFICES ASSUME NEW p \in Pids,
                     Start(p) \/ Proceed(p) \/ Crash(p) \/ ClaimFails(p) \/ TimeOut(p) \/ Stop(p)
              PROVE  TypeOK'
  BY <1>0 DEF Next
<1>1. CASE Start(p) \/ Stat(p) \/ Dial(p)
  BY <1>1 DEF Start, Stat, Dial, Go, TypeOK, Places, handoffVars, history
<1>2. CASE CheckOwner(p) \/ Reclaim(p)
  BY <1>2 DEF CheckOwner, Reclaim, Go, TypeOK, Places, Maybe, handoffVars, history
<1>3. CASE Bind(p)
  BY <1>3 DEF Bind, Go, TypeOK, Places, Maybe, handoffVars, history
<1>4. CASE AddressInUse(p)
  BY <1>4, <1>a, EndType DEF AddressInUse, TypeOK, history
<1>5. CASE ClaimOwner(p)
  BY <1>5 DEF ClaimOwner, Go, TypeOK, Places, Maybe, handoffVars, history
<1>6. CASE ClaimFails(p)
  <2>1. CASE pc[p] = "claim" /\ path' = None /\ Die(Casualties(p, mainPID), mainPID)
    BY <1>6, <2>1, <1>a, EndType DEF ClaimFails, TypeOK, Maybe
  <2>2. CASE pc[p] = "adopted" /\ Go(p, "serving") /\ UNCHANGED <<path, holds, unlinks, handoffVars, inbox, stage, mainPID>>
    BY <1>6, <2>2 DEF ClaimFails, Go, TypeOK, Places, handoffVars
  <2>. QED BY <1>6, <2>1, <2>2 DEF ClaimFails, handoffVars
<1>7. CASE AskInfo(p)
  <2>1. PICK q \in Pids :
          /\ Answers(q)
          /\ IF q \in Unit /\ p \notin Unit
               THEN /\ Die({p}, mainPID)
                    /\ UNCHANGED <<pre, contended>>
               ELSE /\ Go(p, "state")
                    /\ pre' = [pre EXCEPT ![p] = q]
                    /\ mainPID' = Notify(p)
                    /\ contended' = (contended \/ Engaged(q) \/ \E r \in Pids : pc[r] \in Adopting)
                    /\ UNCHANGED <<holds, inbox, stage>>
    BY <1>7 DEF AskInfo
  <2>2. CASE Die({p}, mainPID) /\ UNCHANGED <<pre, contended>>
    <3>1. {p} \in SUBSET Pids  OBVIOUS
    <3>2. /\ pc' \in [Pids -> Places] /\ holds' \in [Pids -> Maybe]
          /\ inbox' \in [Pids -> Maybe]
          /\ stage' \in [Pids -> {"none", "asked", "marked", "sent", "failed", "done"}]
          /\ mainPID' \in Unit \cup {None}
          /\ \A r \in Pids : holds'[r] \in {holds[r], None}
      BY <2>2, <3>1, <1>a, DieType
    <3>. QED BY <1>7, <2>2, <3>2 DEF AskInfo, TypeOK
  <2>3. CASE ~(q \in Unit /\ p \notin Unit)
    <3>1. contended' \in BOOLEAN  BY <2>1, <2>3
    <3>2. mainPID' \in Unit \cup {None}  BY <2>1, <2>3, <1>a DEF Notify
    <3>. QED BY <1>7, <2>1, <2>3, <3>1, <3>2 DEF AskInfo, Go, TypeOK, Places, Maybe
  <2>. QED BY <2>1, <2>2, <2>3
<1>8. CASE AskState(p) \/ Receive(p)
  BY <1>8 DEF AskState, Receive, Fits, Go, TypeOK, Places, Maybe, Past, Leaving, handoffVars, history
<1>9. CASE AskSocket(p)
  BY <1>9 DEF AskSocket, Go, TypeOK, Places, Maybe
<1>10. CASE Unanswered(p) \/ TimeOut(p)
  BY <1>10, AbortType, EndType DEF Unanswered, TimeOut, Withdraw, TypeOK
<1>11. CASE Mark(p)
  BY <1>11 DEF Mark, Alive, TypeOK, Maybe, history
<1>12. CASE Send(p)
  <2>1. server[p] \in Pids  BY <1>12 DEF Send, Fits, TypeOK, Maybe
  <2>2. \E b \in BOOLEAN : b = (pc[p] = "wait" /\ holds[server[p]] # None)
    OBVIOUS
  <2>3. PICK passed \in BOOLEAN : passed = (pc[p] = "wait" /\ holds[server[p]] # None)
    BY <2>2
  <2>4. /\ unlinks' = [unlinks EXCEPT ![server[p]] = FALSE]
        /\ inbox' = [inbox EXCEPT ![p] = IF passed THEN holds[server[p]] ELSE None]
        /\ stage' = [stage EXCEPT ![p] = IF passed THEN "sent" ELSE "failed"]
    BY <1>12, <2>3 DEF Send
  <2>5. inbox' \in [Pids -> Maybe] /\ stage' \in [Pids -> {"none", "asked", "marked", "sent", "failed", "done"}]
    BY <2>1, <2>4 DEF TypeOK, Maybe
  <2>6. unlinks' \in [Pids -> BOOLEAN] /\ \A r \in Pids : unlinks'[r] => unlinks[r]
    BY <2>1, <2>4 DEF TypeOK
  <2>. QED BY <1>12, <2>5, <2>6 DEF Send, TypeOK, Maybe, history
<1>13. CASE Shutdown(p)
  BY <1>13 DEF Shutdown, Go, TypeOK, Places, history
<1>14. CASE Stop(p) \/ Close(p) \/ Remove(p)
  BY <1>14 DEF Stop, Close, Remove, Go, TypeOK, Places, Maybe, handoffVars, history
<1>15. CASE Crash(p)
  BY <1>15, <1>a, EndType DEF Crash, TypeOK
<1>16. CASE ReleaseOwner(p)
  BY <1>16, <1>a, CasualtiesType, DieType DEF ReleaseOwner, KeptRecord, TypeOK, Maybe, history
<1>. QED
  BY <1>1, <1>2, <1>3, <1>4, <1>5, <1>6, <1>7, <1>8, <1>9, <1>10, <1>11, <1>12, <1>13, <1>14,
     <1>15, <1>16 DEF Proceed

----------------------------------------------------------------------------
(* Descriptors, requests and handlers.                                     *)

\* A death leaves the descriptors and the requests in order.
LEMMA EndFits ==
  ASSUME TypeOK, Fits, Handlers,
         NEW dead \in SUBSET Pids, NEW main, Die(dead, main),
         UNCHANGED <<unlinks, handedOff, server, pre>>
  PROVE  Fits' /\ Handlers'
<1>1. \A p \in Pids :
        /\ pc'[p] = (IF p \in dead THEN "gone" ELSE pc[p])
        /\ holds'[p] = (IF p \in dead THEN None ELSE holds[p])
        /\ inbox'[p] = (IF p \in dead THEN None ELSE inbox[p])
        /\ stage'[p] = IF server[p] \in dead /\ stage[p] \in {"asked", "marked"}
                         THEN "failed" ELSE stage[p]
  BY DEF Die
<1>2. \A p \in Pids : server[p] \in Maybe /\ pre[p] \in Maybe  BY DEF TypeOK
<1>3. Fits'
  BY <1>1, <1>2 DEF Fits, Holding, Adopting, Past, Leaving, Maybe
<1>4. Handlers'
  BY <1>1, <1>2 DEF Handlers, Serving, Past, Leaving, Maybe
<1>. QED BY <1>3, <1>4

\* Every step keeps the descriptors and the requests in order.
LEMMA Fitting == Base /\ [Next]_vars => Fits' /\ Handlers'
<1>. SUFFICES ASSUME Base, [Next]_vars PROVE Fits' /\ Handlers'
  OBVIOUS
<1>. USE DEF Base
<1>0. CASE UNCHANGED vars
  BY <1>0 DEF vars, handoffVars, Fits, Handlers, Serving
<1>. SUFFICES ASSUME NEW p \in Pids,
                     Start(p) \/ Proceed(p) \/ Crash(p) \/ ClaimFails(p) \/ TimeOut(p) \/ Stop(p)
              PROVE  Fits' /\ Handlers'
  BY <1>0 DEF Next
<1>a. Casualties(p, mainPID) \in SUBSET Pids /\ Casualties(p, Abort(p)) \in SUBSET Pids
  BY CasualtiesType
<1>b. \A r \in Pids : server[r] \in Maybe /\ pre[r] \in Maybe  BY DEF TypeOK
<1>c. /\ pc \in [Pids -> Places] /\ holds \in [Pids -> Maybe]
      /\ unlinks \in [Pids -> BOOLEAN] /\ handedOff \in [Pids -> BOOLEAN]
      /\ server \in [Pids -> Maybe] /\ inbox \in [Pids -> Maybe] /\ pre \in [Pids -> Maybe]
      /\ stage \in [Pids -> {"none", "asked", "marked", "sent", "failed", "done"}]
  BY DEF TypeOK
<1>. USE DEF Fits, Handlers, Serving, Holding, Adopting, Past, Leaving, Maybe
<1>1. CASE Start(p)
  BY <1>1, <1>b, <1>c DEF Start, Go, handoffVars
<1>2. CASE Stat(p)
  BY <1>2, <1>b, <1>c DEF Stat, Go, handoffVars
<1>3. CASE Dial(p)
  BY <1>3, <1>b, <1>c DEF Dial, Go, handoffVars
<1>4. CASE CheckOwner(p)
  BY <1>4, <1>b, <1>c DEF CheckOwner, Go, handoffVars
<1>5. CASE Reclaim(p)
  BY <1>5, <1>b, <1>c DEF Reclaim, Go, handoffVars
<1>6. CASE Bind(p)
  BY <1>6, <1>b, <1>c DEF Bind, Go, handoffVars
<1>7. CASE ClaimOwner(p)
  BY <1>7, <1>b, <1>c DEF ClaimOwner, Go, handoffVars
<1>8. CASE AskState(p)
  BY <1>8, <1>b, <1>c DEF AskState, Go, handoffVars
<1>9. CASE AskSocket(p)
  BY <1>9, <1>b, <1>c DEF AskSocket, Answers, Go, handoffVars
<1>10. CASE Receive(p)
  BY <1>10, <1>b, <1>c DEF Receive, Go, handoffVars
<1>11. CASE Mark(p)
  BY <1>11, <1>b, <1>c DEF Mark, Alive, Go, handoffVars
<1>12. CASE Send(p)
  BY <1>12, <1>b, <1>c DEF Send, Go, handoffVars
<1>13. CASE Shutdown(p)
  BY <1>13, <1>b, <1>c DEF Shutdown, Go, handoffVars
<1>14. CASE Stop(p)
  BY <1>14, <1>b, <1>c DEF Stop, Go, handoffVars
<1>15. CASE Close(p)
  BY <1>15, <1>b, <1>c DEF Close, Go, handoffVars
<1>16. CASE Remove(p)
  BY <1>16, <1>b, <1>c DEF Remove, Go, handoffVars
<1>17. CASE AddressInUse(p)
  BY ONLY <1>17, <1>a, Base, EndFits DEF AddressInUse, Base
<1>18. CASE Crash(p)
  BY ONLY <1>18, <1>a, Base, EndFits DEF Crash, Base
<1>19. CASE ReleaseOwner(p)
  BY ONLY <1>19, <1>a, Base, EndFits DEF ReleaseOwner, Base
<1>20. CASE Unanswered(p) \/ TimeOut(p)
  BY ONLY <1>20, <1>a, Base, EndFits DEF Unanswered, TimeOut, Withdraw, Base
<1>21. CASE ClaimFails(p)
  <2>1. CASE Die(Casualties(p, mainPID), mainPID)
    BY ONLY <1>21, <2>1, <1>a, Base, EndFits DEF ClaimFails, Base
  <2>2. CASE pc[p] = "adopted" /\ Go(p, "serving") /\ UNCHANGED <<holds, inbox, stage>>
    BY <1>21, <2>2, <1>b, <1>c DEF ClaimFails, Go
  <2>. QED BY <1>21, <2>1, <2>2 DEF ClaimFails
<1>22. CASE AskInfo(p)
  <2>1. CASE Die({p}, mainPID) /\ UNCHANGED pre
    <3>1. {p} \in SUBSET Pids  OBVIOUS
    <3>. QED BY ONLY <1>22, <2>1, <3>1, Base, EndFits DEF AskInfo, Base
  <2>2. CASE \E q \in Pids : /\ Answers(q) /\ Go(p, "state") /\ pre' = [pre EXCEPT ![p] = q]
                            /\ UNCHANGED <<holds, inbox, stage>>
    BY <1>22, <2>2, <1>b, <1>c DEF AskInfo, Go, Answers
  <2>. QED BY <1>22, <2>1, <2>2 DEF AskInfo
<1>. QED
  BY <1>1, <1>2, <1>3, <1>4, <1>5, <1>6, <1>7, <1>8, <1>9, <1>10, <1>11, <1>12, <1>13, <1>14, <1>15, <1>16, <1>17, <1>18, <1>19, <1>20, <1>21, <1>22 DEF Proceed

----------------------------------------------------------------------------
(* The main process of the unit.                                           *)

\* The one whom an abort names lives, and is past its start if it is not the
\* main process that was.
LEMMA AbortFacts ==
  ASSUME Base, NEW p \in Pids
  PROVE  /\ Abort(p) \in Unit \cup {None}
         /\ Abort(p) # None => Alive(Abort(p))
         /\ mainPID # None => Abort(p) # None
         /\ Abort(p) # mainPID => Abort(p) = pre[p] /\ pc[pre[p]] \in {"serving"} \cup Leaving
<1>1. pre[p] \in Maybe /\ mainPID \in Unit \cup {None}  BY DEF Base, TypeOK
<1>2. Abort(p) # mainPID => Abort(p) = pre[p] /\ p \in Unit /\ pre[p] \in Unit /\ Alive(pre[p])
  BY DEF Abort, Notify
<1>. QED BY <1>1, <1>2 DEF Base, MainLives, Fits, Past, Alive, Absent

\* A process's end leaves the unit a main process, or nobody.
LEMMA EndMain ==
  ASSUME Base, NEW p \in Pids, NEW main \in {mainPID, Abort(p)}, Die(Casualties(p, main), main)
  PROVE  MainLives'
<1>1. pc \in [Pids -> Places] /\ mainPID \in Unit \cup {None}  BY DEF Base, TypeOK
<1>2. \A r \in Pids : pc'[r] = (IF r \in Casualties(p, main) THEN "gone" ELSE pc[r])
  BY DEF Die
<1>3. mainPID' = IF main \in Casualties(p, main) THEN None ELSE main  BY DEF Die
<1>4. /\ main \in Unit \cup {None}
      /\ main # None => Alive(main)
      /\ mainPID # None => main # None
      /\ main # mainPID => pc[main] \in {"serving"} \cup Leaving
  BY <1>1, AbortFacts DEF Base, MainLives
<1>5. CASE main = p
  <2>1. \A r \in Unit : ~Alive(r)'
    BY <1>2, <1>5 DEF Casualties, Alive, Absent
  <2>. QED BY <1>3, <1>5, <2>1 DEF MainLives, Casualties
<1>6. CASE main # p
  <2>1. mainPID' = main /\ \A r \in Pids : pc'[r] = (IF r = p THEN "gone" ELSE pc[r])
    BY <1>2, <1>3, <1>6 DEF Casualties
  <2>2. \A r \in Pids : Alive(r)' => Alive(r)
    BY <2>1 DEF Alive, Absent
  <2>3. main # None => Alive(main)'
    BY <1>4, <1>6, <2>1 DEF Alive, Absent
  <2>4. \A r \in Unit : Alive(r)' => main # None
    BY <2>2, <1>4 DEF Base, MainLives
  <2>5. ASSUME NEW r \in Unit, Alive(r)', r # main
        PROVE  pc'[main] \in Adopting \cup {"adopted", "serving"} \cup Leaving
    <3>1. pc[main] \in Adopting \cup {"adopted", "serving"} \cup Leaving
      BY <2>2, <2>5, <1>4 DEF Base, MainLives
    <3>. QED BY <3>1, <2>1, <2>4, <2>5, <1>4, <1>6
  <2>. QED BY <2>1, <2>3, <2>4, <2>5 DEF MainLives
<1>. QED BY <1>5, <1>6

\* A step of one process within its life leaves the unit its main process.
LEMMA MoveMain ==
  ASSUME Base, NEW p \in Pids, NEW to \in Places \ Absent, Go(p, to), mainPID' = mainPID,
         pc[p] \notin Absent,
         pc[p] \in Adopting \cup {"adopted", "serving"} \cup Leaving
           => to \in Adopting \cup {"adopted", "serving"} \cup Leaving
  PROVE  MainLives'
BY DEF Base, TypeOK, Go, MainLives, Alive, Absent, Places

\* Every step leaves the unit a main process that lives, or nobody.
LEMMA MainLiving == Base /\ [Next]_vars => MainLives'
<1>. SUFFICES ASSUME Base, [Next]_vars PROVE MainLives'
  OBVIOUS
<1>0. CASE UNCHANGED vars
  BY <1>0 DEF vars, MainLives, Alive, Base
<1>. SUFFICES ASSUME NEW p \in Pids,
                     Start(p) \/ Proceed(p) \/ Crash(p) \/ ClaimFails(p) \/ TimeOut(p) \/ Stop(p)
              PROVE  MainLives'
  BY <1>0 DEF Next
<1>a. pc \in [Pids -> Places] /\ mainPID \in Unit \cup {None}  BY DEF Base, TypeOK
<1>1. CASE Start(p)
  BY <1>1, <1>a DEF Start, Go, Base, MainLives, Alive, Absent, Serving, Leaving, Adopting
<1>2. CASE Stat(p) \/ Dial(p) \/ CheckOwner(p) \/ Reclaim(p) \/ Bind(p)
  BY <1>2, MoveMain DEF Stat, Dial, CheckOwner, Reclaim, Bind, Places, Absent, Adopting, Leaving
<1>3. CASE ClaimOwner(p) \/ AskState(p) \/ AskSocket(p) \/ Receive(p) \/ Stop(p) \/ Close(p) \/ Remove(p)
  BY <1>3, MoveMain DEF ClaimOwner, AskState, AskSocket, Receive, Stop, Serving, Close, Remove,
                        Places, Absent, Adopting, Leaving
<1>4. CASE AddressInUse(p) \/ Crash(p) \/ ReleaseOwner(p)
  BY <1>4, EndMain DEF AddressInUse, Crash, ReleaseOwner
<1>5. CASE Unanswered(p) \/ TimeOut(p)
  BY <1>5, EndMain DEF Unanswered, TimeOut, Withdraw
<1>6. CASE ClaimFails(p)
  BY <1>6, EndMain, MoveMain DEF ClaimFails, Places, Absent
<1>7. CASE AskInfo(p)
  <2>1. CASE p \notin Unit /\ Die({p}, mainPID)
    <3>1. mainPID # p  BY <2>1, <1>a
    <3>2. Casualties(p, mainPID) = {p}  BY <3>1 DEF Casualties
    <3>. QED BY <2>1, <3>2, EndMain
  <2>2. CASE p \notin Unit /\ Go(p, "state") /\ mainPID' = Notify(p)
    <3>1. mainPID' = mainPID  BY <2>2 DEF Notify
    <3>. QED BY <1>7, <2>2, <3>1, MoveMain DEF AskInfo, Places, Absent, Adopting
  <2>3. CASE p \in Unit /\ Go(p, "state") /\ mainPID' = Notify(p)
    <3>1. mainPID' = p  BY <1>7, <2>3 DEF AskInfo, Notify, Alive, Absent
    <3>. QED BY <1>a, <2>3, <3>1 DEF Go, MainLives, Alive, Absent, Adopting
  <2>. QED BY <1>7, <2>1, <2>2, <2>3 DEF AskInfo
<1>8. CASE Mark(p) \/ Send(p)
  BY <1>8 DEF Mark, Send, Base, MainLives, Alive
<1>9. CASE Shutdown(p)
  <2>1. CASE Serving(server[p])
    <3>1. server[p] \in Pids  BY <1>9 DEF Shutdown, Base, Fits, TypeOK, Maybe
    <3>. QED BY <1>9, <2>1, <3>1, MoveMain DEF Shutdown, Serving, Places, Absent, Leaving
  <2>. QED BY <1>9, <2>1 DEF Shutdown, Base, MainLives, Alive
<1>. QED BY <1>1, <1>2, <1>3, <1>4, <1>5, <1>6, <1>7, <1>8, <1>9 DEF Proceed

----------------------------------------------------------------------------
(* Who is in charge, over one step.                                        *)

Shrinks == \A q, s \in Pids : Has(q, s)' => Has(q, s)

\* The steps that neither bind a socket nor send one.
Others(p) ==
  \/ Start(p) \/ Stat(p) \/ Dial(p) \/ CheckOwner(p) \/ Reclaim(p) \/ AddressInUse(p)
  \/ ClaimOwner(p) \/ AskInfo(p) \/ AskState(p) \/ AskSocket(p) \/ Receive(p)
  \/ Unanswered(p) \/ Mark(p) \/ Shutdown(p)
  \/ Close(p) \/ Remove(p) \/ ReleaseOwner(p)
  \/ Crash(p) \/ ClaimFails(p) \/ TimeOut(p) \/ Stop(p)

Takes(p) ==
  /\ \A q, s \in Pids : ~Has(q, s)
  /\ \A q, s \in Pids : Has(q, s)' <=> q = p /\ s = p

Passes(p) ==
  /\ server[p] \in Pids /\ path \in Pids /\ server[p] # p
  /\ Has(server[p], path)
  /\ \A q, s \in Pids : Has(q, s)' <=> q = p /\ s = path

\* Nobody comes into charge by a death.
LEMMA EndShrinks ==
  ASSUME Base, NEW dead \in SUBSET Pids, NEW main, Die(dead, main), server' = server
  PROVE  Shrinks
<1>1. \A p \in Pids :
        /\ pc'[p] = (IF p \in dead THEN "gone" ELSE pc[p])
        /\ holds'[p] = (IF p \in dead THEN None ELSE holds[p])
        /\ inbox'[p] = (IF p \in dead THEN None ELSE inbox[p])
        /\ stage'[p] = IF server[p] \in dead /\ stage[p] \in {"asked", "marked"}
                         THEN "failed" ELSE stage[p]
  BY DEF Die
<1>. QED BY <1>1 DEF Shrinks, Has, LeftBehind, PassedOn

\* The steps that neither bind nor pass a socket put nobody in charge.
LEMMA MostShrink ==
  ASSUME Base, NEW p \in Pids,
         Others(p)
  PROVE  Shrinks
<1>a. Casualties(p, mainPID) \in SUBSET Pids /\ Casualties(p, Abort(p)) \in SUBSET Pids
  BY CasualtiesType
<1>b. /\ pc \in [Pids -> Places] /\ holds \in [Pids -> Maybe] /\ inbox \in [Pids -> Maybe]
      /\ server \in [Pids -> Maybe] /\ Fits /\ Handlers
      /\ stage \in [Pids -> {"none", "asked", "marked", "sent", "failed", "done"}]
  BY DEF Base, TypeOK
<1>1. CASE Start(p) \/ Stat(p) \/ Dial(p) \/ CheckOwner(p) \/ Reclaim(p) \/ ClaimOwner(p) \/ AskState(p)
  BY <1>1, <1>b DEF Start, Stat, Dial, CheckOwner, Reclaim, ClaimOwner, AskState, Go, handoffVars,
                    Shrinks, Has, LeftBehind, PassedOn
<1>2. CASE AskSocket(p)
  BY <1>2, <1>b DEF AskSocket, Go, Fits, Holding, Past, Leaving, Shrinks, Has, LeftBehind, PassedOn
<1>3. CASE Receive(p)
  BY <1>3, <1>b DEF Receive, Go, Fits, Holding, Past, Leaving, Shrinks, Has, LeftBehind, PassedOn
<1>4. CASE Mark(p)
  BY <1>4, <1>b DEF Mark, Shrinks, Has, LeftBehind, PassedOn
<1>5. CASE Shutdown(p)
  <2>1. server[p] \in Pids  BY <1>5, <1>b DEF Shutdown, Fits, Maybe
  <2>. QED
    BY <1>5, <1>b, <2>1 DEF Shutdown, Go, Serving, Fits, Handlers, Holding, Past, Leaving, Shrinks,
                            Has, LeftBehind, PassedOn
<1>6. CASE Stop(p) \/ Remove(p)
  BY <1>6, <1>b DEF Stop, Remove, Serving, Go, handoffVars, Shrinks, Has, LeftBehind, PassedOn
<1>7. CASE Close(p)
  BY <1>7, <1>b DEF Close, Go, handoffVars, Fits, Shrinks, Has, LeftBehind, PassedOn
<1>8. CASE AddressInUse(p) \/ Crash(p) \/ ReleaseOwner(p)
  BY <1>8, <1>a, EndShrinks DEF AddressInUse, Crash, ReleaseOwner
<1>9. CASE Unanswered(p) \/ TimeOut(p)
  BY <1>9, <1>a, EndShrinks DEF Unanswered, TimeOut, Withdraw
<1>10. CASE ClaimFails(p)
  <2>1. CASE Die(Casualties(p, mainPID), mainPID)
    BY <1>10, <2>1, <1>a, EndShrinks DEF ClaimFails
  <2>2. CASE pc[p] = "adopted" /\ Go(p, "serving") /\ UNCHANGED <<holds, inbox, stage>>
    BY <1>10, <2>2, <1>b DEF ClaimFails, Go, Shrinks, Has, LeftBehind, PassedOn
  <2>. QED BY <1>10, <2>1, <2>2 DEF ClaimFails
<1>11. CASE AskInfo(p)
  <2>1. CASE Die({p}, mainPID)
    BY <1>11, <2>1, EndShrinks DEF AskInfo
  <2>2. CASE Go(p, "state") /\ UNCHANGED <<holds, inbox, stage>>
    BY <1>11, <2>2, <1>b DEF AskInfo, Go, Shrinks, Has, LeftBehind, PassedOn
  <2>. QED BY <1>11, <2>1, <2>2 DEF AskInfo
<1>. QED
  BY <1>1, <1>2, <1>3, <1>4, <1>5, <1>6, <1>7, <1>8, <1>9, <1>10, <1>11 DEF Others

\* A socket is bound where nobody is in charge.
LEMMA BindTakes ==
  ASSUME Base, InOrder, NEW p \in Pids, Bind(p)
  PROVE  Takes(p)
<1>b. /\ pc \in [Pids -> Places] /\ holds \in [Pids -> Maybe] /\ inbox \in [Pids -> Maybe]
      /\ server \in [Pids -> Maybe] /\ Fits /\ Handlers
      /\ stage \in [Pids -> {"none", "asked", "marked", "sent", "failed", "done"}]
  BY DEF Base, TypeOK
<1>1. \A q, s \in Pids : ~Has(q, s)
  BY DEF Bind, InOrder, OnPath
<1>2. inbox[p] = None /\ ~PassedOn(p) /\ ~(\E r \in Pids : server[r] = p)
  BY <1>b DEF Bind, Fits, Handlers, Past, Leaving, PassedOn
<1>3. ASSUME NEW q \in Pids, NEW s \in Pids PROVE Has(q, s)' <=> q = p /\ s = p
  <2>1. CASE q = p
    BY <1>2, <1>b, <2>1 DEF Bind, Go, handoffVars, Has, LeftBehind, PassedOn
  <2>2. CASE q # p
    <3>1. Has(q, s)' => Has(q, s)
      BY <1>b, <2>2 DEF Bind, Go, handoffVars, Has, LeftBehind, PassedOn
    <3>. QED BY <3>1, <1>1, <2>2
  <2>. QED BY <2>1, <2>2
<1>. QED BY <1>1, <1>3 DEF Takes

\* A socket that is sent is the path's, and its sender was in charge until then.
LEMMA SendPasses ==
  ASSUME Base, InOrder, NEW p \in Pids, Send(p)
  PROVE  Shrinks \/ Passes(p)
<1>b. /\ pc \in [Pids -> Places] /\ holds \in [Pids -> Maybe] /\ inbox \in [Pids -> Maybe]
      /\ server \in [Pids -> Maybe] /\ Fits /\ Handlers
      /\ stage \in [Pids -> {"none", "asked", "marked", "sent", "failed", "done"}]
  BY DEF Base, TypeOK
<1>0. stage[p] = "marked" /\ server[p] \in Pids
  BY <1>b DEF Send, Fits, Maybe
<1>1. CASE pc[p] = "wait" /\ holds[server[p]] # None
  <2>1. server[p] # p  BY <1>1, <1>0, <1>b DEF Handlers, Past, Leaving
  <2>2. ~LeftBehind(server[p])
    BY <1>0 DEF InOrder, OneRequest, Pending, LeftBehind, PassedOn
  <2>3. holds[server[p]] \in Pids /\ Has(server[p], holds[server[p]])
    BY <1>0, <1>1, <1>b, <2>2 DEF Has, Maybe
  <2>4. path = holds[server[p]]
    BY <1>0, <2>3 DEF InOrder, OnPath
  <2>5. /\ stage' = [stage EXCEPT ![p] = "sent"]
        /\ inbox' = [inbox EXCEPT ![p] = path]
        /\ UNCHANGED <<pc, holds, server>>
    BY <1>1, <2>4 DEF Send
  <2>6. \A q, s \in Pids : Has(q, s) => q = server[p]
    BY <2>3, <2>4, <1>0 DEF InOrder, OnPath, Sole
  <2>7. holds[p] = None /\ ~(\E r \in Pids : server[r] = p)
    BY <1>b, <1>1 DEF Fits, Handlers, Holding, Past, Leaving
  <2>8. ASSUME NEW q \in Pids, NEW s \in Pids PROVE Has(q, s)' <=> q = p /\ s = path
    <3>1. CASE q = p
      BY <2>3, <2>4, <2>5, <2>7, <3>1, <1>b DEF Has, LeftBehind, PassedOn
    <3>2. CASE q = server[p]
      BY <2>1, <2>5, <3>2, <1>b DEF Has, LeftBehind, PassedOn
    <3>3. CASE q \notin {p, server[p]}
      <4>1. Has(q, s)' => Has(q, s)
        BY <2>5, <3>3, <1>b DEF Has, LeftBehind, PassedOn
      <4>. QED BY <4>1, <2>6, <3>3
    <3>. QED BY <3>1, <3>2, <3>3
  <2>. QED BY <1>0, <2>1, <2>3, <2>4, <2>8 DEF Passes
<1>2. CASE ~(pc[p] = "wait" /\ holds[server[p]] # None)
  <2>1. /\ stage' = [stage EXCEPT ![p] = "failed"]
        /\ inbox' = [inbox EXCEPT ![p] = None]
        /\ UNCHANGED <<pc, holds, server>>
    BY <1>2 DEF Send
  <2>. QED BY <1>0, <1>b, <2>1 DEF Shrinks, Has, LeftBehind, PassedOn
<1>. QED BY <1>1, <1>2

----------------------------------------------------------------------------
(* One process in charge, on the path.                                     *)

\* Over one step the process in charge stays, leaves, takes or passes.
LEMMA ChargeMoves ==
  ASSUME Base, InOrder, NEW p \in Pids,
         Others(p) \/ Bind(p) \/ Send(p)
  PROVE  Shrinks \/ (Bind(p) /\ Takes(p)) \/ (Send(p) /\ Passes(p))
BY MostShrink, BindTakes, SendPasses

\* The path leads to the socket of the one process in charge.
LEMMA PathKept ==
  ASSUME Base, InOrder, NEW p \in Pids,
         Others(p) \/ Bind(p) \/ Send(p)
  PROVE  OnPath' /\ Sole'
<1>a. Shrinks \/ (Bind(p) /\ Takes(p)) \/ (Send(p) /\ Passes(p))
  BY ChargeMoves
<1>b. Fits /\ Handlers /\ TypeOK  BY DEF Base
<1>1. Sole'
  BY <1>a DEF InOrder, Sole, Shrinks, Takes, Passes
<1>. SUFFICES OnPath'
  BY <1>1
<1>2. CASE path' = path
  <2>1. CASE Shrinks
    BY <1>2, <2>1 DEF InOrder, OnPath, Shrinks
  <2>2. CASE Bind(p)
    BY <1>2, <2>2 DEF Bind
  <2>3. CASE Passes(p)
    BY <1>2, <2>3 DEF OnPath, Passes
  <2>. QED BY <1>a, <2>1, <2>2, <2>3
<1>3. CASE Bind(p)
  BY <1>3, BindTakes DEF Bind, OnPath, Takes
<1>4. CASE Reclaim(p)
  <2>1. Shrinks  BY <1>4, MostShrink DEF Others
  <2>2. \A q, s \in Pids : ~Has(q, s)
    BY <1>4 DEF Reclaim, AboutToUnlink, InOrder, Cleared
  <2>. QED BY <2>1, <2>2 DEF OnPath, Shrinks
<1>5. CASE ClaimFails(p) /\ path' # path
  <2>0. pc[p] = "claim" /\ Die(Casualties(p, mainPID), mainPID)
    BY <1>5 DEF ClaimFails
  <2>1. Shrinks  BY <1>5, MostShrink DEF Others
  <2>2. Has(p, holds[p]) /\ holds[p] \in Pids
    BY <2>0, <1>b DEF Has, Fits, Handlers, Holding, Past, Leaving, LeftBehind, PassedOn, TypeOK, Maybe
  <2>3. \A q, s \in Pids : Has(q, s) => q = p
    BY <2>2 DEF InOrder, OnPath, Sole
  <2>4. holds'[p] = None /\ inbox'[p] = None
    BY <2>0 DEF Die, Casualties
  <2>. QED BY <2>1, <2>3, <2>4 DEF OnPath, Shrinks, Has
<1>6. CASE Close(p) /\ path' # path
  <2>0. unlinks[p]  BY <1>6 DEF Close
  <2>1. Shrinks  BY <1>6, MostShrink DEF Others
  <2>2. ~LeftBehind(p)
    BY <2>0, <1>b DEF Handlers, LeftBehind, PassedOn
  <2>3. Has(p, holds[p]) /\ holds[p] \in Pids
    BY <1>6, <2>2, <1>b DEF Close, Has, Fits, Holding, TypeOK, Maybe
  <2>4. \A q, s \in Pids : Has(q, s) => q = p
    BY <2>3 DEF InOrder, OnPath, Sole
  <2>5. holds'[p] = None /\ inbox'[p] = None
    BY <1>6, <1>b DEF Close, handoffVars, Fits, TypeOK
  <2>. QED BY <2>1, <2>4, <2>5 DEF OnPath, Shrinks, Has
<1>7. CASE Remove(p) /\ path' # path
  <2>1. Shrinks  BY <1>7, MostShrink DEF Others
  <2>2. \A q, s \in Pids : ~Has(q, s)
    BY <1>7 DEF Remove, AboutToUnlink, InOrder, Cleared
  <2>. QED BY <2>1, <2>2 DEF OnPath, Shrinks
<1>8. path' # path => Bind(p) \/ Reclaim(p) \/ ClaimFails(p) \/ Close(p) \/ Remove(p)
  BY DEF Others, Start, Crash, TimeOut, Stop, Stat, Dial, CheckOwner, AddressInUse, ClaimOwner, AskInfo,
         AskState, AskSocket, Receive, Unanswered, Withdraw, Mark, Send, Shutdown, ReleaseOwner
<1>. QED BY <1>2, <1>3, <1>4, <1>5, <1>6, <1>7, <1>8

\* Nobody is in charge behind one who is about to unlink the path.
LEMMA ClearedKept ==
  ASSUME Base, InOrder, NEW p \in Pids,
         Others(p) \/ Bind(p) \/ Send(p),
         Orderly'
  PROVE  Cleared'
<1>a. Shrinks \/ (Bind(p) /\ Takes(p)) \/ (Send(p) /\ Passes(p))
  BY ChargeMoves
<1>b. /\ pc \in [Pids -> Places] /\ holds \in [Pids -> Maybe] /\ inbox \in [Pids -> Maybe]
      /\ record \in Maybe /\ server \in [Pids -> Maybe] /\ Fits /\ Handlers
  BY DEF Base, TypeOK
<1>1. CASE CheckOwner(p) /\ ~ownerAlive(p)
  <2>1. ASSUME NEW q \in Pids, NEW s \in Pids, Has(q, s) PROVE FALSE
    <3>1. path = s  BY <2>1 DEF InOrder, OnPath
    <3>2. Alive(q) /\ q # p
      BY <1>1, <2>1, <1>b DEF CheckOwner, Has, Fits, Holding, Alive, Absent
    <3>3. record = q
      BY <1>1, <2>1, <3>1, <3>2 DEF CheckOwner, Orderly, Unclaimed, Has
    <3>. QED BY <1>1, <3>2, <3>3 DEF ownerAlive
  <2>2. Shrinks  BY <1>1, MostShrink DEF Others
  <2>. QED BY <2>1, <2>2 DEF Shrinks, Cleared
<1>2. CASE Close(p)
  <2>1. Shrinks  BY <1>2, MostShrink DEF Others
  <2>2. CASE handedOff[p]
    <3>1. \A q \in Pids : AboutToUnlink(q)' => AboutToUnlink(q)
      BY <1>2, <2>2, <1>b DEF Close, Go, AboutToUnlink, handoffVars
    <3>. QED BY <3>1, <2>1 DEF InOrder, Cleared, Shrinks
  <2>3. CASE ~handedOff[p]
    <3>1. ~LeftBehind(p)
      BY <2>3, <1>b DEF Handlers, LeftBehind, PassedOn
    <3>2. Has(p, holds[p]) /\ holds[p] \in Pids
      BY <1>2, <3>1, <1>b DEF Close, Has, Fits, Holding, Maybe
    <3>3. \A q, s \in Pids : Has(q, s) => q = p
      BY <3>2 DEF InOrder, OnPath, Sole
    <3>4. holds'[p] = None /\ inbox'[p] = None
      BY <1>2, <1>b DEF Close, handoffVars, Fits
    <3>. QED BY <2>1, <3>3, <3>4 DEF Cleared, Shrinks, Has
  <2>. QED BY <2>2, <2>3
<1>3. CASE Bind(p)
  <2>1. \A q \in Pids : ~AboutToUnlink(q)
    BY <1>3 DEF Bind, Orderly
  <2>2. \A q \in Pids : ~AboutToUnlink(q)'
    BY <2>1, <1>3, <1>b DEF Bind, Go, AboutToUnlink, handoffVars
  <2>. QED BY <2>2 DEF Cleared
<1>4. CASE ~Bind(p) /\ ~Close(p) /\ ~(CheckOwner(p) /\ ~ownerAlive(p))
  <2>1. \A q \in Pids : AboutToUnlink(q)' => AboutToUnlink(q)
    <3>1. CASE Start(p) \/ Stat(p) \/ Dial(p) \/ Reclaim(p) \/ ClaimOwner(p) \/ AskState(p) \/ AskSocket(p)
               \/ Receive(p) \/ Stop(p) \/ Remove(p)
      BY <3>1, <1>b DEF Start, Stat, Dial, Reclaim, ClaimOwner, AskState, AskSocket, Receive, Stop, Remove,
                        Go, AboutToUnlink, handoffVars
    <3>2. CASE CheckOwner(p)
      BY <3>2, <1>4, <1>b DEF CheckOwner, Go, AboutToUnlink, handoffVars
    <3>3. CASE AddressInUse(p) \/ Crash(p) \/ ReleaseOwner(p) \/ Unanswered(p) \/ TimeOut(p)
      BY <3>3 DEF AddressInUse, Crash, ReleaseOwner, Unanswered, TimeOut, Withdraw, Die, AboutToUnlink
    <3>4. CASE ClaimFails(p) \/ AskInfo(p)
      BY <3>4, <1>b DEF ClaimFails, AskInfo, Die, Go, AboutToUnlink
    <3>5. CASE Mark(p)
      BY <3>5 DEF Mark, AboutToUnlink, Base, TypeOK, Alive
    <3>6. CASE Send(p)
      BY <3>6 DEF Send, AboutToUnlink
    <3>7. CASE Shutdown(p)
      <4>1. server[p] \in Pids  BY <3>7, <1>b DEF Shutdown, Fits, Maybe
      <4>. QED BY <3>7, <4>1, <1>b DEF Shutdown, Go, AboutToUnlink
    <3>. QED BY <1>4, <3>1, <3>2, <3>3, <3>4, <3>5, <3>6, <3>7 DEF Others
  <2>2. CASE Shrinks
    BY <2>1, <2>2 DEF InOrder, Cleared, Shrinks
  <2>3. CASE Passes(p)
    BY <2>1, <2>3 DEF InOrder, Cleared, Passes
  <2>. QED BY <1>a, <1>4, <2>2, <2>3
<1>. QED BY <1>1, <1>2, <1>3, <1>4

----------------------------------------------------------------------------
(* Requests and successors, over one step.                                 *)

\* A process that adopts after a step did before it, of the same predecessor, or
\* has just asked who answers.
LEMMA AdopterStep ==
  ASSUME Base, NEW p \in Pids, Others(p) \/ Bind(p) \/ Send(p),
         NEW r \in Pids, pc'[r] \in Adopting
  PROVE  \/ pc[r] \in Adopting /\ pre'[r] = pre[r]
         \/ r = p /\ AskInfo(p) /\ pc'[p] = "state"
<1>b. pc \in [Pids -> Places] /\ pre \in [Pids -> Maybe] /\ server \in [Pids -> Maybe] /\ Fits
  BY DEF Base, TypeOK
<1>1. CASE Start(p) \/ Stat(p) \/ Dial(p) \/ CheckOwner(p) \/ Reclaim(p) \/ Bind(p) \/ ClaimOwner(p)
           \/ AskState(p) \/ AskSocket(p) \/ Receive(p) \/ Stop(p) \/ Close(p) \/ Remove(p)
  BY <1>1, <1>b DEF Start, Stat, Dial, CheckOwner, Reclaim, Bind, ClaimOwner, AskState, AskSocket, Receive,
                    Stop, Close, Remove, Go, handoffVars, Adopting
<1>2. CASE AddressInUse(p) \/ Crash(p) \/ ReleaseOwner(p) \/ Unanswered(p) \/ TimeOut(p)
  BY <1>2 DEF AddressInUse, Crash, ReleaseOwner, Unanswered, TimeOut, Withdraw, Die, Adopting
<1>3. CASE ClaimFails(p)
  BY <1>3, <1>b DEF ClaimFails, Die, Go, Adopting
<1>4. CASE AskInfo(p)
  BY <1>4, <1>b DEF AskInfo, Die, Go, Adopting
<1>5. CASE Mark(p) \/ Send(p)
  BY <1>5 DEF Mark, Send
<1>6. CASE Shutdown(p)
  <2>1. server[p] \in Pids  BY <1>6, <1>b DEF Shutdown, Fits, Maybe
  <2>. QED BY <1>6, <2>1, <1>b DEF Shutdown, Go, Adopting
<1>. QED BY <1>1, <1>2, <1>3, <1>4, <1>5, <1>6 DEF Others

\* A request that goes somewhere after a step did before it, or is new.
LEMMA RequestStep ==
  ASSUME Base, NEW p \in Pids, Others(p) \/ Bind(p) \/ Send(p),
         NEW r \in Pids, stage'[r] \in Pending \cup {"done"}
  PROVE  \/ /\ stage[r] \in Pending \cup {"done"} /\ server'[r] = server[r]
            /\ stage'[r] \in Pending => stage[r] \in Pending
         \/ r = p /\ AskSocket(p)
<1>b. /\ server \in [Pids -> Maybe]
      /\ stage \in [Pids -> {"none", "asked", "marked", "sent", "failed", "done"}]
  BY DEF Base, TypeOK
<1>1. CASE AskSocket(p)
  BY <1>1, <1>b DEF AskSocket
<1>2. CASE Start(p) \/ Stat(p) \/ Dial(p) \/ CheckOwner(p) \/ Reclaim(p) \/ Bind(p) \/ ClaimOwner(p)
           \/ AskState(p) \/ Receive(p) \/ Stop(p) \/ Close(p) \/ Remove(p)
  BY <1>2, <1>b DEF Start, Stat, Dial, CheckOwner, Reclaim, Bind, ClaimOwner, AskState, Receive,
                    Stop, Close, Remove, handoffVars
<1>3. CASE AddressInUse(p) \/ Crash(p) \/ ReleaseOwner(p) \/ Unanswered(p) \/ TimeOut(p)
  BY <1>3 DEF AddressInUse, Crash, ReleaseOwner, Unanswered, TimeOut, Withdraw, Die, Pending
<1>4. CASE ClaimFails(p) \/ AskInfo(p)
  BY <1>4, <1>b DEF ClaimFails, AskInfo, Die, Pending
<1>5. CASE Mark(p) \/ Send(p) \/ Shutdown(p)
  BY <1>5, <1>b DEF Mark, Send, Shutdown, Pending
<1>. QED BY <1>1, <1>2, <1>3, <1>4, <1>5 DEF Others

\* While no two successors ask at once, there is one successor and one request.
LEMMA RequestsKept ==
  ASSUME Base, InOrder, NEW p \in Pids, Others(p) \/ Bind(p) \/ Send(p), Orderly'
  PROVE  OneAdopts' /\ OneRequest' /\ OwnRequest'
<1>b. /\ server \in [Pids -> Maybe] /\ pre \in [Pids -> Maybe] /\ Fits /\ Handlers
      /\ stage \in [Pids -> {"none", "asked", "marked", "sent", "failed", "done"}]
  BY DEF Base, TypeOK
<1>1. ASSUME AskInfo(p), pc'[p] = "state"
      PROVE  /\ \A r \in Pids : pc[r] \notin Adopting
             /\ \A r \in Pids : server[r] = pre'[p] => stage[r] \notin Pending
             /\ pre'[p] \in Pids /\ UNCHANGED <<server, stage>>
  BY <1>1, <1>b DEF AskInfo, Die, Orderly, Engaged, Pending
<1>2. ASSUME AskSocket(p)
      PROVE  /\ pc[p] \in Adopting
             /\ \A r \in Pids : server[r] = server'[p] => stage[r] \notin Pending \cup {"done"}
             /\ \A r \in Pids \ {p} : server'[r] = server[r] /\ stage'[r] = stage[r]
  <2>1. PICK q \in Pids : /\ Answers(q) /\ server' = [server EXCEPT ![p] = q]
                          /\ contended' = (contended \/ Engaged(q))
    BY <1>2 DEF AskSocket
  <2>2. pc[p] \in Adopting /\ stage' = [stage EXCEPT ![p] = "asked"]
    BY <1>2 DEF AskSocket, Adopting
  <2>3. server'[p] = q /\ \A r \in Pids \ {p} : server'[r] = server[r] /\ stage'[r] = stage[r]
    BY <2>1, <2>2, <1>b
  <2>4. ~Engaged(q)  BY <2>1 DEF Orderly
  <2>5. \A r \in Pids : server[r] = q => stage[r] \notin Pending \cup {"done"}
    BY <2>1, <2>4, <1>b DEF Engaged, Pending, Handlers, Answers
  <2>. QED BY <2>2, <2>3, <2>5
<1>3. OneAdopts'
  BY <1>1, AdopterStep DEF InOrder, OneAdopts
<1>4. OneRequest'
  <2>1. ASSUME NEW q \in Pids, NEW r \in Pids, server'[q] = server'[r],
               {stage'[q], stage'[r]} \subseteq Pending \cup {"done"}
        PROVE  q = r
    <3>1. CASE AskSocket(p)
      <4>1. \A x \in {q, r} : x = p \/ (stage[x] \in Pending \cup {"done"} /\ server'[x] = server[x])
        BY <2>1, RequestStep
      <4>. QED BY <3>1, <4>1, <1>2, <2>1 DEF InOrder, OneRequest
    <3>2. CASE ~AskSocket(p)
      <4>1. \A x \in {q, r} : stage[x] \in Pending \cup {"done"} /\ server'[x] = server[x]
        BY <3>2, <2>1, RequestStep
      <4>. QED BY <4>1, <2>1 DEF InOrder, OneRequest
    <3>. QED BY <3>1, <3>2
  <2>. QED BY <2>1 DEF OneRequest
<1>5. OwnRequest'
  <2>1. ASSUME NEW a \in Pids, NEW r \in Pids, pc'[a] \in Adopting, server'[r] = pre'[a],
               stage'[r] \in Pending
        PROVE  r = a
    <3>1. CASE AskInfo(p) /\ pc'[p] = "state" /\ a = p
      BY <1>1, <2>1, <3>1
    <3>2. CASE pc[a] \in Adopting /\ pre'[a] = pre[a]
      <4>1. CASE AskSocket(p) /\ r = p
        BY <4>1, <3>2, <1>2 DEF InOrder, OneAdopts
      <4>2. CASE stage[r] \in Pending /\ server'[r] = server[r]
        BY <4>2, <3>2, <2>1 DEF InOrder, OwnRequest
      <4>. QED BY <4>1, <4>2, <2>1, RequestStep
    <3>. QED BY <3>1, <3>2, <2>1, AdopterStep
  <2>. QED BY <2>1 DEF OwnRequest
<1>. QED BY <1>3, <1>4, <1>5

----------------------------------------------------------------------------
(* The main process, over one step.                                        *)

MainStays == mainPID' = mainPID

\* A successor announces itself, or its abort names its predecessor.
MainAnnounced(p) == AskInfo(p) /\ p \in Unit /\ pc'[p] = "state" /\ mainPID' = p
MainRestored(p) ==
  /\ p \in Unit /\ pc[p] \in Adopting /\ pc'[p] = "gone"
  /\ mainPID' = pre[p] /\ pre[p] # p
  /\ \A r \in Pids : r # p => pc'[r] = pc[r]
  /\ UNCHANGED <<pre, server>>
  /\ Shrinks

UnitEnds == \A r \in Unit : ~Alive(r)'

\* After a process's end the main process is as it was, or the unit has ended.
LEMMA EndMoves ==
  ASSUME Base, NEW p \in Pids, Die(Casualties(p, mainPID), mainPID)
  PROVE  MainStays \/ UnitEnds
BY DEF Die, Casualties, MainStays, UnitEnds, Alive, Absent

\* Where the main process goes.
LEMMA MainMoves ==
  ASSUME Base, mainPID # None, NEW p \in Pids, Others(p) \/ Bind(p) \/ Send(p)
  PROVE  MainStays \/ MainAnnounced(p) \/ MainRestored(p) \/ UnitEnds
<1>b. pc \in [Pids -> Places] /\ mainPID \in Unit  BY DEF Base, TypeOK
<1>1. CASE Start(p) \/ Stat(p) \/ Dial(p) \/ CheckOwner(p) \/ Reclaim(p) \/ Bind(p) \/ ClaimOwner(p)
           \/ AskState(p) \/ AskSocket(p) \/ Receive(p) \/ Stop(p) \/ Close(p) \/ Remove(p)
           \/ Mark(p) \/ Send(p) \/ Shutdown(p)
  BY <1>1 DEF Start, Stat, Dial, CheckOwner, Reclaim, Bind, ClaimOwner, AskState, AskSocket, Receive,
              Stop, Close, Remove, Mark, Send, Shutdown, MainStays
<1>2. CASE AddressInUse(p) \/ Crash(p) \/ ReleaseOwner(p)
  BY <1>2, EndMoves DEF AddressInUse, Crash, ReleaseOwner
<1>3. CASE ClaimFails(p)
  BY <1>3, EndMoves DEF ClaimFails, MainStays
<1>4. CASE AskInfo(p)
  BY <1>4, <1>b DEF AskInfo, Die, Notify, Go, Alive, Absent, MainStays, MainAnnounced
<1>5. CASE Unanswered(p) \/ TimeOut(p)
  <2>0. Withdraw(p)  BY <1>5 DEF Unanswered, TimeOut
  <2>1. Die(Casualties(p, Abort(p)), Abort(p)) /\ UNCHANGED <<server, pre>>
    BY <2>0 DEF Withdraw
  <2>2. CASE Abort(p) = mainPID
    BY <2>1, <2>2, EndMoves
  <2>3. CASE Abort(p) # mainPID /\ Abort(p) = p
    BY <2>1, <2>3 DEF Die, Casualties, UnitEnds, Alive, Absent
  <2>4. CASE Abort(p) # mainPID /\ Abort(p) # p
    <3>1. Abort(p) = pre[p] /\ p \in Unit /\ pc[p] \in Adopting
      BY <2>4 DEF Abort, Notify
    <3>2. Casualties(p, Abort(p)) = {p}  BY <2>4 DEF Casualties
    <3>3. Shrinks  BY <1>5, MostShrink DEF Others
    <3>. QED BY <2>1, <2>4, <3>1, <3>2, <3>3 DEF Die, MainRestored
  <2>. QED BY <2>2, <2>3, <2>4
<1>. QED BY <1>1, <1>2, <1>3, <1>4, <1>5 DEF Others

\* Where a process that was past its start goes.
LEMMA PastStep ==
  ASSUME Base, NEW p \in Pids, Others(p) \/ Bind(p) \/ Send(p), NEW r \in Pids
  PROVE  /\ pc[r] \in Leaving \cup {"gone"} => pc'[r] \in Leaving \cup {"gone"}
         /\ pc[r] \in Adopting => pc'[r] \in Adopting \cup {"adopted", "gone"}
         /\ pc[r] \in Adopting /\ pc'[r] = "adopted" => Has(r, inbox[r]) /\ inbox[r] \in Pids
<1>b. /\ pc \in [Pids -> Places] /\ server \in [Pids -> Maybe] /\ inbox \in [Pids -> Maybe]
      /\ Fits /\ Handlers
  BY DEF Base, TypeOK
<1>1. CASE Start(p) \/ Stat(p) \/ Dial(p) \/ CheckOwner(p) \/ Reclaim(p) \/ Bind(p) \/ ClaimOwner(p)
           \/ AskState(p) \/ AskSocket(p) \/ Stop(p) \/ Close(p) \/ Remove(p) \/ Mark(p) \/ Send(p)
  BY <1>1, <1>b DEF Start, Stat, Dial, CheckOwner, Reclaim, Bind, ClaimOwner, AskState, AskSocket, Mark, Send,
                    Stop, Serving, Close, Remove, Go, handoffVars, Adopting, Leaving
<1>2. CASE AddressInUse(p) \/ Crash(p) \/ ReleaseOwner(p) \/ Unanswered(p) \/ TimeOut(p)
  BY <1>2 DEF AddressInUse, Crash, ReleaseOwner, Unanswered, TimeOut, Withdraw, Die, Adopting, Leaving
<1>3. CASE ClaimFails(p)
  BY <1>3, <1>b DEF ClaimFails, Die, Go, Adopting, Leaving
<1>4. CASE AskInfo(p)
  BY <1>4, <1>b DEF AskInfo, Die, Go, Adopting, Leaving
<1>5. CASE Receive(p)
  <2>1. ~LeftBehind(p) /\ inbox[p] \in Pids
    BY <1>5, <1>b DEF Receive, Handlers, LeftBehind, PassedOn, Past, Leaving, Maybe
  <2>. QED BY <1>5, <1>b, <2>1 DEF Receive, Go, Has, Adopting, Leaving
<1>6. CASE Shutdown(p)
  <2>1. server[p] \in Pids  BY <1>6, <1>b DEF Shutdown, Fits, Maybe
  <2>. QED BY <1>6, <2>1, <1>b DEF Shutdown, Serving, Go, Adopting, Leaving
<1>. QED BY <1>1, <1>2, <1>3, <1>4, <1>5, <1>6 DEF Others

\* A main process on its way out stays so.
LEMMA RetiringStep ==
  ASSUME Base, NEW p \in Pids, Others(p) \/ Bind(p) \/ Send(p), NEW m \in Pids,
         Retiring(m), pc'[m] # "gone"
  PROVE  Retiring(m)'
<1>b. /\ pc \in [Pids -> Places] /\ server \in [Pids -> Maybe] /\ Fits /\ Handlers
      /\ stage \in [Pids -> {"none", "asked", "marked", "sent", "failed", "done"}]
  BY DEF Base, TypeOK
<1>1. CASE pc[m] \in Leaving
  BY <1>1, PastStep DEF Retiring
<1>2. CASE PassedOn(m) /\ pc[m] \notin Leaving
  <2>1. PICK r \in Pids : server[r] = m /\ stage[r] = "sent"
    BY <1>2 DEF PassedOn
  <2>2. Serving(m) \/ pc[m] = "gone"
    BY <1>2, <2>1, <1>b DEF Handlers, Past, Serving
  <2>3. CASE Shutdown(p) /\ r = p
    BY <2>1, <2>2, <2>3, <1>b DEF Shutdown, Go, Retiring, Leaving, Serving
  <2>4. CASE ~(Shutdown(p) /\ r = p)
    <3>1. server'[r] = m
      BY <2>1, <1>b DEF Others, Start, Stat, Dial, CheckOwner, Reclaim, Bind, ClaimOwner, AskState,
         AskSocket, Receive, Stop, Close, Remove, Mark, Send, Shutdown, AddressInUse, Crash,
         ReleaseOwner, Unanswered, TimeOut, Withdraw, ClaimFails, AskInfo, handoffVars,
         Fits, Past, Leaving
    <3>2. stage'[r] = "sent"
      <4>1. CASE Start(p) \/ Stat(p) \/ Dial(p) \/ CheckOwner(p) \/ Reclaim(p) \/ Bind(p) \/ ClaimOwner(p)
                 \/ AskState(p) \/ Receive(p) \/ Stop(p) \/ Close(p) \/ Remove(p)
        BY <4>1, <2>1 DEF Start, Stat, Dial, CheckOwner, Reclaim, Bind, ClaimOwner, AskState, Receive,
                          Stop, Close, Remove, handoffVars
      <4>2. CASE AddressInUse(p) \/ Crash(p) \/ ReleaseOwner(p) \/ Unanswered(p) \/ TimeOut(p)
        BY <4>2, <2>1 DEF AddressInUse, Crash, ReleaseOwner, Unanswered, TimeOut, Withdraw, Die
      <4>3. CASE ClaimFails(p) \/ AskInfo(p)
        BY <4>3, <2>1 DEF ClaimFails, AskInfo, Die
      <4>4. CASE AskSocket(p)
        BY <4>4, <2>1, <1>b DEF AskSocket, Fits, Past, Leaving
      <4>5. CASE Mark(p) \/ Send(p) \/ Shutdown(p)
        BY <4>5, <2>1, <2>4, <1>b DEF Mark, Send, Shutdown
      <4>. QED BY <4>1, <4>2, <4>3, <4>4, <4>5 DEF Others
    <3>. QED BY <3>1, <3>2 DEF Retiring, PassedOn
  <2>. QED BY <2>3, <2>4
<1>. QED BY <1>1, <1>2 DEF Retiring

\* A successor in the unit is the main process while it adopts.
LEMMA AnnouncedKept ==
  ASSUME Base, InOrder, NEW p \in Pids, Others(p) \/ Bind(p) \/ Send(p), Orderly'
  PROVE  Announced'
<1>. SUFFICES ASSUME NEW a \in Unit, pc'[a] \in Adopting PROVE mainPID' = a
  BY DEF Announced
<1>b. a \in Pids /\ pre \in [Pids -> Maybe] /\ Fits  BY DEF Base, TypeOK
<1>1. CASE a = p /\ AskInfo(p) /\ pc'[p] = "state"
  BY <1>1 DEF AskInfo, Die, Notify, Alive, Absent
<1>2. CASE pc[a] \in Adopting
  <2>1. mainPID = a  BY <1>2 DEF InOrder, Announced
  <2>2. CASE MainStays
    BY <2>1, <2>2 DEF MainStays
  <2>3. CASE MainAnnounced(p)
    <3>1. {pc'[a], pc'[p]} \subseteq Adopting  BY <2>3 DEF MainAnnounced, Adopting
    <3>. QED BY <3>1, <2>3, <1>b, RequestsKept DEF MainAnnounced, OneAdopts
  <2>4. CASE MainRestored(p)
    <3>1. p = a  BY <2>4, <1>2, <1>b DEF MainRestored, InOrder, OneAdopts
    <3>. QED BY <3>1, <2>4 DEF MainRestored, Adopting
  <2>5. CASE UnitEnds
    BY <2>5 DEF UnitEnds, Alive, Absent, Adopting
  <2>. QED BY <2>1, <2>2, <2>3, <2>4, <2>5, <1>b, MainMoves
<1>. QED BY <1>1, <1>2, <1>b, AdopterStep

\* Who can be in charge while a successor adopts.
LEMMA SuccessionKept ==
  ASSUME Base, InOrder, NEW p \in Pids, Others(p) \/ Bind(p) \/ Send(p), Orderly'
  PROVE  Succession'
<1>. SUFFICES ASSUME NEW a \in Pids, NEW q \in Pids, NEW s \in Pids, pc'[a] \in Adopting, Has(q, s)'
              PROVE  q \in {a, pre'[a]} \/ (s = q /\ pc'[pre'[a]] \in Leaving \cup {"gone"})
  BY DEF Succession
<1>b. /\ pc \in [Pids -> Places] /\ holds \in [Pids -> Maybe] /\ inbox \in [Pids -> Maybe]
      /\ server \in [Pids -> Maybe] /\ pre \in [Pids -> Maybe] /\ Fits /\ Handlers
  BY DEF Base, TypeOK
<1>1. CASE a = p /\ AskInfo(p) /\ pc'[p] = "state"
  <2>1. PICK b \in Pids : Answers(b) /\ pre' = [pre EXCEPT ![p] = b] /\ ~Engaged(b)
    BY <1>1 DEF AskInfo, Die, Orderly
  <2>2. Has(b, path) /\ path \in Pids
    BY <2>1, <1>b DEF Answers, Serving, Engaged, Has, LeftBehind, PassedOn, Fits, Holding, Maybe
  <2>3. Has(q, s)  BY <1>1, MostShrink DEF Others, Shrinks
  <2>4. q = b  BY <2>2, <2>3 DEF InOrder, OnPath, Sole
  <2>. QED BY <2>1, <2>4, <1>1, <1>b
<1>2. CASE pc[a] \in Adopting /\ pre'[a] = pre[a]
  <2>0. pre[a] \in Pids /\ pc[pre[a]] \in Past
    BY <1>2, <1>b DEF Fits, Maybe
  <2>1. CASE Shrinks
    <3>1. q \in {a, pre[a]} \/ (s = q /\ pc[pre[a]] \in Leaving \cup {"gone"})
      BY <2>1, <1>2 DEF Shrinks, InOrder, Succession
    <3>. QED BY <3>1, <2>0, <1>2, PastStep
  <2>2. CASE Bind(p) /\ Takes(p)
    <3>1. q = p /\ s = p  BY <2>2 DEF Takes
    <3>2. CASE Serving(pre[a])
      <4>1. PassedOn(pre[a])
        BY <2>0, <2>2, <3>2, <1>b DEF Takes, Serving, Has, LeftBehind, Fits, Holding, Maybe
      <4>2. server[a] = pre[a] /\ stage[a] = "sent"
        BY <4>1, <1>2, <2>0 DEF PassedOn, InOrder, OwnRequest, Pending
      <4>3. inbox[a] \in Pids /\ ~LeftBehind(a)
        BY <4>2, <1>2, <2>0, <1>b DEF Fits, Handlers, Adopting, Past, Leaving, LeftBehind, PassedOn, Maybe
      <4>4. Has(a, inbox[a])  BY <4>3 DEF Has
      <4>. QED BY <4>3, <4>4, <2>2 DEF Takes
    <3>3. CASE pc[pre[a]] \in Leaving \cup {"gone"}
      BY <3>1, <3>3, <2>0, <1>2, PastStep
    <3>. QED BY <2>0, <3>2, <3>3 DEF Past, Serving
  <2>3. CASE Send(p) /\ Passes(p)
    <3>1. q = p /\ s = path  BY <2>3 DEF Passes
    <3>2. pc[p] = "wait"
      <4>1. Has(p, s)'  BY <3>1
      <4>2. ~Has(p, s)
        BY <2>3, <3>1 DEF Passes, InOrder, Sole
      <4>3. stage[p] = "marked" /\ server[p] \in Pids
        BY <2>3 DEF Send, Passes
      <4>. QED BY <4>1, <4>2, <4>3, <2>3, <1>b DEF Send, Has, LeftBehind, PassedOn
    <3>. QED BY <3>1, <3>2, <1>2 DEF InOrder, OneAdopts, Adopting
  <2>. QED BY <2>1, <2>2, <2>3, ChargeMoves
<1>. QED BY <1>1, <1>2, AdopterStep

\* The unit's process in charge is its main process, or the main process is on its
\* way in or out.
LEMMA MainIsKept ==
  ASSUME Base, InOrder, NEW p \in Pids, Others(p) \/ Bind(p) \/ Send(p), Fits', MainLives', TypeOK'
  PROVE  MainIs'
<1>1. ASSUME NEW q \in Unit, NEW s \in Pids, Has(q, s)', NEW m, mainPID' = m
      PROVE  q = m \/ pc'[m] \in Adopting \/ (s = q /\ Retiring(m)')
  <2>b. /\ pc \in [Pids -> Places] /\ holds \in [Pids -> Maybe] /\ inbox \in [Pids -> Maybe]
        /\ server \in [Pids -> Maybe] /\ pre \in [Pids -> Maybe] /\ mainPID \in Unit \cup {None}
        /\ Fits /\ Handlers /\ MainLives /\ q \in Pids
    BY DEF Base, TypeOK
  <2>1. Alive(q)'
    BY <1>1, <2>b DEF Has, Fits, Holding, Alive, Absent
  <2>2. m \in Unit /\ Alive(m)' /\ m \in Pids
    BY <1>1, <2>1 DEF MainLives, TypeOK
  <2>3. mainPID # None
    <3>1. Has(q, s) => Alive(q)
      BY <2>b DEF Has, Fits, Holding, Alive, Absent
    <3>2. Bind(p) => Alive(p)
      BY DEF Bind, Alive, Absent
    <3>3. Send(p) /\ Passes(p) => Alive(p)
      <4>1. CASE pc[p] = "wait"
        BY <4>1 DEF Alive, Absent
      <4>2. CASE pc[p] # "wait" /\ Send(p) /\ Passes(p)
        <5>1. Has(p, s)' => Has(p, s)
          BY <4>2, <2>b DEF Send, Has, LeftBehind, PassedOn, Base, TypeOK
        <5>. QED BY <5>1, <4>2, <1>1 DEF Passes, InOrder, Sole
      <4>. QED BY <4>1, <4>2
    <3>4. Alive(q)
      BY <3>1, <3>2, <3>3, <1>1, <2>b, ChargeMoves DEF Shrinks, Takes, Passes
    <3>. QED BY <3>4, <2>b DEF MainLives
  <2>4. CASE MainStays
    <3>0. m = mainPID /\ pc'[m] # "gone"
      BY <1>1, <2>2, <2>4 DEF MainStays, Alive, Absent
    <3>1. CASE Shrinks
      <4>1. Has(q, s)  BY <1>1, <2>b, <3>1 DEF Shrinks
      <4>2. CASE pc[m] \in Adopting
        <5>1. pc'[m] \in Adopting \/ (Has(m, inbox[m]) /\ inbox[m] \in Pids)
          BY <4>2, <3>0, <2>2, PastStep
        <5>. QED BY <5>1, <4>1, <2>b, <2>2 DEF InOrder, OnPath, Sole
      <4>3. CASE s = q /\ Retiring(m)
        BY <4>3, <3>0, <2>2, RetiringStep
      <4>. QED BY <4>1, <4>2, <4>3, <3>0 DEF InOrder, MainIs
    <3>2. CASE Bind(p) /\ Takes(p)
      <4>1. q = p /\ s = p  BY <3>2, <1>1, <2>b DEF Takes
      <4>2. CASE m # p
        <5>1. Alive(p) /\ pc'[m] = pc[m]
          BY <3>2, <4>2, <2>2, <2>b DEF Bind, Go, Alive, Absent
        <5>2. pc[m] \in Adopting \cup {"adopted", "serving"} \cup Leaving
          BY <5>1, <4>1, <4>2, <3>0, <2>b DEF MainLives
        <5>3. pc[m] \in {"adopted", "serving"} => PassedOn(m)
          BY <3>2, <2>2, <2>b DEF Takes, Has, LeftBehind, Fits, Holding, Maybe
        <5>4. pc[m] # "adopted"
          BY <5>3, <2>b, <2>2 DEF PassedOn, Handlers, Past, Leaving
        <5>5. pc[m] \in Adopting \/ Retiring(m)
          BY <5>2, <5>3, <5>4 DEF Retiring
        <5>. QED BY <4>1, <5>1, <5>5, <3>0, <2>2, RetiringStep
      <4>. QED BY <4>1, <4>2
    <3>3. CASE Send(p) /\ Passes(p)
      <4>1. q = p  BY <3>3, <1>1, <2>b DEF Passes
      <4>2. pc[p] = "wait"
        <5>1. pc[p] # "wait" => (Has(p, s)' => Has(p, s))
          BY <3>3, <2>b DEF Send, Has, LeftBehind, PassedOn, Base, TypeOK
        <5>. QED BY <5>1, <3>3, <4>1, <1>1 DEF Passes, InOrder, Sole
      <4>. QED BY <4>1, <4>2, <3>0 DEF InOrder, Announced, Adopting
    <3>. QED BY <3>1, <3>2, <3>3, ChargeMoves
  <2>5. CASE MainAnnounced(p)
    BY <2>5, <1>1 DEF MainAnnounced, Adopting
  <2>6. CASE MainRestored(p)
    <3>1. Has(q, s)  BY <1>1, <2>6, <2>b DEF MainRestored, Shrinks
    <3>2. q # p  BY <2>1, <2>6 DEF MainRestored, Alive, Absent
    <3>3. m = pre[p] /\ pc'[m] = pc[m]  BY <1>1, <2>6, <2>2 DEF MainRestored
    <3>4. q = m \/ (s = q /\ pc[m] \in Leaving \cup {"gone"})
      BY <3>1, <3>2, <3>3, <2>6, <2>b DEF MainRestored, InOrder, Succession
    <3>. QED BY <3>3, <3>4, <2>2 DEF Retiring, Alive, Absent
  <2>7. CASE UnitEnds
    BY <2>1, <2>7 DEF UnitEnds
  <2>. QED BY <2>3, <2>4, <2>5, <2>6, <2>7, MainMoves
<1>2. PICK m : m = mainPID'
  OBVIOUS
<1>. QED BY <1>1, <1>2 DEF MainIs, Retiring, PassedOn

----------------------------------------------------------------------------
(* The theorems.                                                           *)

\* What has crossed has crossed for good.
LEMMA History ==
  ASSUME NEW p \in Pids, Others(p) \/ Bind(p) \/ Send(p), Orderly'
  PROVE  Orderly
<1>1. CASE Start(p) \/ Stat(p) \/ Dial(p) \/ Reclaim(p) \/ ClaimOwner(p) \/ AskState(p) \/ Receive(p)
           \/ Stop(p) \/ Close(p) \/ Remove(p) \/ Mark(p) \/ Send(p) \/ Shutdown(p)
  BY <1>1 DEF Orderly, Start, Stat, Dial, Reclaim, ClaimOwner, AskState, Receive, Stop, Close, Remove,
              Mark, Send, Shutdown, history
<1>2. CASE AddressInUse(p) \/ Crash(p) \/ ReleaseOwner(p) \/ Unanswered(p) \/ TimeOut(p) \/ ClaimFails(p)
  BY <1>2 DEF Orderly, AddressInUse, Crash, ReleaseOwner, Unanswered, TimeOut, Withdraw, ClaimFails, history
<1>3. CASE CheckOwner(p)
  BY <1>3 DEF Orderly, CheckOwner
<1>4. CASE Bind(p)
  BY <1>4 DEF Orderly, Bind
<1>5. CASE AskInfo(p)
  <2>1. crossed' = crossed /\ (contended => contended')
    BY <1>5 DEF AskInfo
  <2>. QED BY <2>1 DEF Orderly
<1>6. CASE AskSocket(p)
  <2>1. crossed' = crossed /\ (contended => contended')
    BY <1>6 DEF AskSocket
  <2>. QED BY <2>1 DEF Orderly
<1>. QED BY <1>1, <1>2, <1>3, <1>4, <1>5, <1>6 DEF Others

\* No order of the daemons' steps, failures and deaths breaks the invariant: what
\* each descriptor, request and announcement says of the process it belongs to, and,
\* while no two starts crossed, that one process is in charge, of the path's socket.
THEOREM DaemonInvariant == Spec => []IInv
<1>1. Init => IInv
  <2>. SUFFICES ASSUME Init PROVE IInv
    OBVIOUS
  <2>1. TypeOK
    BY DEF Init, TypeOK, Places, Maybe
  <2>2. Fits /\ Handlers /\ MainLives
    BY DEF Init, Fits, Handlers, MainLives, Holding, Adopting, Past, Leaving, Alive, Absent
  <2>3. OnPath /\ Sole /\ Cleared /\ MainIs /\ Succession
    BY DEF Init, OnPath, Sole, Cleared, Has, MainIs, Succession
  <2>4. OneAdopts /\ OneRequest /\ OwnRequest /\ Announced
    BY DEF Init, OneAdopts, OneRequest, OwnRequest, Announced, Adopting, Pending
  <2>. QED BY <2>1, <2>2, <2>3, <2>4 DEF IInv, Base, InOrder
<1>2. IInv /\ [Next]_vars => IInv'
  <2>. SUFFICES ASSUME IInv, [Next]_vars PROVE IInv'
    OBVIOUS
  <2>1. Base'
    BY Typing, Fitting, MainLiving DEF IInv, Base
  <2>2. CASE UNCHANGED vars
    <3>. QED BY <2>1, <2>2 DEF IInv, Orderly, vars, history, handoffVars, InOrder, OnPath, Sole, Cleared,
         OneAdopts, OneRequest, OwnRequest, Announced, Succession, MainIs, Has, LeftBehind, PassedOn,
         Retiring, AboutToUnlink
  <2>3. ASSUME NEW p \in Pids, Others(p) \/ Bind(p) \/ Send(p), Orderly' PROVE InOrder'
    <3>1. Base /\ InOrder
      BY <2>3, History DEF IInv
    <3>2. OnPath' /\ Sole'  BY <2>3, <3>1, PathKept
    <3>3. Cleared'  BY <2>3, <3>1, ClearedKept
    <3>4. OneAdopts' /\ OneRequest' /\ OwnRequest'  BY <2>3, <3>1, RequestsKept
    <3>5. Announced'  BY <2>3, <3>1, AnnouncedKept
    <3>6. Succession'  BY <2>3, <3>1, SuccessionKept
    <3>7. MainIs'  BY <2>1, <2>3, <3>1, MainIsKept DEF Base
    <3>. QED BY <3>2, <3>3, <3>4, <3>5, <3>6, <3>7 DEF InOrder
  <2>4. Next => \E p \in Pids : Others(p) \/ Bind(p) \/ Send(p)
    BY DEF Next, Proceed, Others
  <2>. QED BY <2>1, <2>2, <2>3, <2>4 DEF IInv
<1>. QED BY <1>1, <1>2, PTL DEF Spec

\* Every daemon that serves is reachable through the path: refusals, handoffs,
\* stops, crashes and timeouts alone cost no daemon its path.
THEOREM ServersReachable == Spec => []Reachable
<1>1. IInv => Reachable
  BY DEF IInv, Base, TypeOK, InOrder, Reachable, InCharge, Up, Serving, Fits, Holding, OnPath, Has,
         LeftBehind, Maybe
<1>. QED BY <1>1, DaemonInvariant, PTL

\* Once no handoff is under way the service manager's main process is the daemon of
\* the unit that serves, or is on its way out while another has bound the path anew.
THEOREM MainProcessServes == Spec => []MainServes
<1>1. IInv => MainServes
  <2>. SUFFICES ASSUME IInv, Orderly, NEW q \in Unit, InCharge(q), \A p \in Pids : pc[p] \notin Adopting
                PROVE  mainPID = q \/ (holds[q] = q /\ mainPID \in Unit /\ Retiring(mainPID))
    BY DEF MainServes
  <2>1. holds[q] \in Pids /\ Has(q, holds[q]) /\ Alive(q)
    BY DEF IInv, Base, TypeOK, Fits, Holding, Has, LeftBehind, InCharge, Serving, Maybe, Alive, Absent
  <2>2. mainPID \in Unit
    BY <2>1 DEF IInv, Base, TypeOK, MainLives
  <2>. QED BY <2>1, <2>2 DEF IInv, InOrder, MainIs
<1>. QED BY <1>1, DaemonInvariant, PTL



\* The daemons of a path implement Ownership: one process at a time has the
\* socket, a process takes a new one only where nobody is in charge, and a socket
\* passes from one to the next in one step.
THEOREM OneOwnerHolds == Spec => OneOwner
<1>1. Init => Owned!Init
  BY DEF Init, Owned!Init, Charge
<1>2. IInv /\ [Next]_vars => [Owned!Next]_Charge
  <2>. SUFFICES ASSUME IInv, [Next]_vars PROVE [Owned!Next]_Charge
    OBVIOUS
  <2>. USE DEF Owned!Next, Owned!Take, Owned!Pass, Owned!Leave

  <2>1. CASE UNCHANGED vars
    BY <2>1 DEF vars, handoffVars, history, Charge, Orderly, LeftBehind, PassedOn
  <2>2. CASE ~Orderly'
    <3>1. Charge' = {}  BY <2>2 DEF Charge
    <3>. QED BY <3>1
  <2>3. ASSUME NEW p \in Pids, Others(p) \/ Bind(p) \/ Send(p), Orderly'
        PROVE  [Owned!Next]_Charge
    <3>1. Orderly /\ InOrder /\ Base  BY <2>3, History DEF IInv
    <3>2. \A q, s \in Pids : <<q, s>> \in Charge <=> Has(q, s)
      BY <3>1 DEF Charge, Has
    <3>3. \A q, s \in Pids : <<q, s>> \in Charge' <=> Has(q, s)'
      BY <2>3 DEF Charge, Has
    <3>4. Charge \subseteq Pids \X Pids /\ Charge' \subseteq Pids \X Pids
      BY DEF Charge
    <3>5. CASE Shrinks
      <4>1. Charge' \subseteq Charge
        BY <3>2, <3>3, <3>4, <3>5 DEF Shrinks
      <4>2. \A x, y \in Charge : x = y
        BY <3>1, <3>2, <3>4 DEF InOrder, OnPath, Sole
      <4>. QED BY <4>1, <4>2
    <3>6. CASE Takes(p)
      <4>1. Charge = {}  BY <3>2, <3>4, <3>6 DEF Takes
      <4>2. Charge' = {<<p, p>>}  BY <3>3, <3>4, <3>6 DEF Takes
      <4>. QED BY <4>1, <4>2
    <3>7. CASE Passes(p)
      <4>1. Charge = {<<server[p], path>>}
        BY <3>1, <3>2, <3>4, <3>7 DEF Passes, InOrder, OnPath, Sole
      <4>2. Charge' = {<<p, path>>}  BY <3>3, <3>4, <3>7 DEF Passes
      <4>. QED BY <3>7, <4>1, <4>2 DEF Passes
    <3>. QED BY <2>3, <3>1, <3>5, <3>6, <3>7, ChargeMoves
  <2>4. Next => \E p \in Pids : Others(p) \/ Bind(p) \/ Send(p)
    BY DEF Next, Proceed, Others
  <2>. QED BY <2>1, <2>2, <2>3, <2>4
<1>. QED BY <1>1, <1>2, DaemonInvariant, PTL DEF Spec, OneOwner, Owned!Spec
----------------------------------------------------------------------------
(* The resident processes, with any fuse and any tunables of the launcher. *)

DaemonRecords ==
  [ st : {"unborn", "exec", "starting", "serving", "leaving", "gone"}, img : Nat \cup {Nil},
    maps : {"copy", "installed", Nil}, depth : Nat, known : BOOLEAN, base : Nat \cup {Nil},
    cur : Nat \cup {Nil}, awaits : BOOLEAN, excused : BOOLEAN ]
Launchers ==
  [ pc : {"off", "top", "sleep", "running", "ended", "dead"}, backoff : Nat, fails : Nat, delay : Nat ]

ResidentTypeOK ==
  /\ installed \in Nat /\ client \in Nat
  /\ daemon \in [Daemons -> DaemonRecords]
  /\ launcher \in [Daemons -> Launchers]
  /\ child \in SUBSET Daemons
  /\ holder \in Daemons \cup {Nil}

\* A daemon that starts runs what is installed, and one that serves what it
\* found installed, or it is excused.
Current(r) ==
  /\ r.st \in {"exec", "starting"} /\ r.img # installed => r.excused
  /\ r.st = "serving" /\ r.base # Nil /\ r.img # r.base => r.excused
Supervised(d) ==
  /\ daemon[d].st \in {"unborn", "exec"} => launcher[d].pc = "off"
  /\ d \in child => launcher[d].pc \in {"running", "dead"}

ResidentInv ==
  ResidentTypeOK /\ \A d \in Daemons : Current(daemon[d]) /\ Supervised(d)

LEMMA NoDaemonTypes ==
  /\ \A st \in {"unborn", "gone"} : NoDaemon(st) \in DaemonRecords /\ Current(NoDaemon(st))
  /\ \A at \in {"off", "ended", "dead"} : Launcher(at) \in Launchers /\ Launcher(at).pc = at
BY ResidentAssumption DEF NoDaemon, DaemonRecords, Launcher, Launchers, Current

\* A step of one daemon and its launcher.
LEMMA OneDaemon ==
  ASSUME ResidentInv, installed' = installed, client' = client,
         NEW d \in Daemons, NEW r, daemon' = [daemon EXCEPT ![d] = r],
         NEW l, launcher' = [launcher EXCEPT ![d] = l],
         r \in DaemonRecords, Current(r), l \in Launchers,
         child' \in {child, child \cup {d}, child \ {d}}, holder' \in {holder, d, Nil},
         r.st \in {"unborn", "exec"} => l.pc = "off",
         d \in child' => l.pc \in {"running", "dead"}
  PROVE  ResidentInv'
<1>1. ResidentTypeOK'
  BY DEF ResidentInv, ResidentTypeOK
<1>2. ASSUME NEW e \in Daemons
      PROVE  (Current(daemon[e]) /\ Supervised(e))'
  <2>1. CASE e = d
    BY <2>1 DEF ResidentInv, ResidentTypeOK, Current, Supervised
  <2>2. CASE e # d
    BY <2>2 DEF ResidentInv, ResidentTypeOK, Current, Supervised
  <2>3. QED
    BY <2>1, <2>2
<1>3. QED
  BY <1>1, <1>2 DEF ResidentInv

LEMMA SpawnKeeps ==
  ASSUME ResidentInv, NEW d \in Daemons, NEW img \in Nat \cup {Nil}, NEW from \in {"copy", "installed", Nil},
         NEW depth \in Nat, NEW known \in BOOLEAN, NEW old \in BOOLEAN, img # installed => old,
         Spawned(d, img, from, depth, known, old), UNCHANGED <<installed, client, children>>
  PROVE  ResidentInv'
<1> DEFINE r == [daemon[d] EXCEPT !.st = "exec", !.img = img, !.maps = from, !.depth = depth,
                                  !.known = known, !.excused = old]
<1>1. daemon[d] \in DaemonRecords /\ daemon[d].st = "unborn" /\ launcher[d].pc = "off" /\ d \notin child
      /\ launcher[d] \in Launchers /\ launcher = [launcher EXCEPT ![d] = launcher[d]]
  BY DEF ResidentInv, ResidentTypeOK, Spawned, Unborn, Supervised
<1>2. r \in DaemonRecords /\ Current(r) /\ r.st = "exec"
  BY <1>1 DEF DaemonRecords, Current
<1>3. daemon' = [daemon EXCEPT ![d] = r]
  BY DEF Spawned, ResidentInv, ResidentTypeOK
<1> HIDE DEF r
<1>4. QED
  BY <1>1, <1>2, <1>3, OneDaemon DEF children

LEMMA DiesKeeps ==
  ASSUME ResidentInv, NEW d \in Daemons, Dies(d)
  PROVE  ResidentInv'
<1>1. /\ NoDaemon("gone") \in DaemonRecords /\ Current(NoDaemon("gone")) /\ NoDaemon("gone").st = "gone"
      /\ Launcher("dead") \in Launchers /\ Launcher("dead").pc = "dead"
  BY NoDaemonTypes DEF NoDaemon
<1> DEFINE r == NoDaemon("gone")
           l == Launcher("dead")
<1>2. /\ daemon' = [daemon EXCEPT ![d] = r] /\ launcher' = [launcher EXCEPT ![d] = l]
      /\ child' \in {child, child \cup {d}, child \ {d}} /\ holder' \in {holder, d, Nil}
      /\ UNCHANGED <<installed, client>>
  BY DEF Dies
<1> HIDE DEF r, l
<1>3. QED
  BY <1>1, <1>2, OneDaemon DEF r, l

LEMMA StartsKeep ==
  ASSUME ResidentInv, Starts
  PROVE  ResidentInv'
<1> USE DEF children
<1>1. PICK d \in Daemons : \/ spawnDaemon(d) \/ Operator(d) \/ MaybeReexec(d) \/ copyExecutableFails(d)
                         \/ openSocket(d) \/ Refused(d)
  BY DEF Starts
<1>2. /\ daemon[d] \in DaemonRecords /\ launcher[d] \in Launchers /\ Current(daemon[d]) /\ Supervised(d)
      /\ installed \in Nat /\ client \in Nat /\ 0 \in Nat
      /\ daemon \in [Daemons -> DaemonRecords] /\ launcher \in [Daemons -> Launchers]
  BY DEF ResidentInv, ResidentTypeOK
<1>3. CASE spawnDaemon(d)
  BY <1>2, <1>3, SpawnKeeps DEF spawnDaemon, ChildEnv
<1>4. CASE Operator(d)
  BY <1>2, <1>4, SpawnKeeps DEF Operator, ChildEnv
<1>5. CASE InPlace(d) /\ daemon[d].st = "exec"
  <2> DEFINE r == [daemon[d] EXCEPT !.st = "starting"]
             l == [launcher[d] EXCEPT !.pc = "top"]
  <2>1. r \in DaemonRecords /\ r.st = "starting" /\ Current(r) /\ l \in Launchers /\ l.pc = "top" /\ d \notin child
    BY <1>2, <1>5 DEF DaemonRecords, Launchers, Current, Supervised
  <2>2. daemon' = [daemon EXCEPT ![d] = r] /\ launcher' = [launcher EXCEPT ![d] = l]
        /\ UNCHANGED <<installed, client, child, holder>>
    BY <1>5 DEF InPlace
  <2> HIDE DEF r, l
  <2>3. QED
    BY <2>1, <2>2, OneDaemon
<1>6. CASE MaybeReexec(d)
  <2>1. CASE InPlace(d)
    BY <1>5, <1>6, <2>1 DEF MaybeReexec
  <2>2. CASE ~InPlace(d)
    <3> DEFINE r == [daemon[d] EXCEPT !.st = "starting", !.maps = "copy", !.known = TRUE, !.depth = @ + 1]
               l == [launcher[d] EXCEPT !.pc = "top"]
    <3>1. daemon[d].st = "exec" /\ daemon[d].depth + 1 \in Nat
      BY <1>2, <1>6 DEF MaybeReexec, DaemonRecords
    <3>2. r \in DaemonRecords /\ r.st = "starting" /\ Current(r) /\ l \in Launchers /\ l.pc = "top" /\ d \notin child
      BY <1>2, <3>1 DEF DaemonRecords, Launchers, Current, Supervised
    <3>3. daemon' = [daemon EXCEPT ![d] = r] /\ launcher' = [launcher EXCEPT ![d] = l]
          /\ UNCHANGED <<installed, client, child, holder>>
      BY <1>2, <1>6, <2>2 DEF MaybeReexec
    <3> HIDE DEF r, l
    <3>4. QED
      BY <3>2, <3>3, OneDaemon
  <2>3. QED
    BY <2>1, <2>2
<1>7. CASE copyExecutableFails(d)
  BY <1>5, <1>7 DEF copyExecutableFails
<1>8. CASE openSocket(d)
  <2>1. /\ daemon[d].st = "starting" /\ UNCHANGED <<installed, client, launcher, child, holder>>
        /\ daemon' = [e \in Daemons |->
             IF e = d THEN [daemon[d] EXCEPT !.st = "serving",
                              !.base = IF daemon[d].known THEN installed ELSE Nil]
             ELSE IF Serves(e) THEN [daemon[e] EXCEPT !.st = "leaving"] ELSE daemon[e]]
    BY <1>8 DEF openSocket
  <2>2. \A e \in Daemons : /\ daemon'[e] \in DaemonRecords /\ Current(daemon'[e])
                           /\ daemon'[e].st \in {"unborn", "exec"} => daemon'[e] = daemon[e]
    <3>1. ASSUME NEW e \in Daemons, e # d
          PROVE  /\ daemon'[e] \in DaemonRecords /\ Current(daemon'[e])
                 /\ daemon'[e].st \in {"unborn", "exec"} => daemon'[e] = daemon[e]
      BY <2>1, <3>1 DEF ResidentInv, ResidentTypeOK, DaemonRecords, Current, Serves
    <3>2. /\ daemon'[d] \in DaemonRecords /\ Current(daemon'[d]) /\ daemon'[d].st = "serving"
      BY <1>2, <2>1 DEF DaemonRecords, Current
    <3>3. QED
      BY <3>1, <3>2
  <2>3. ResidentTypeOK'
    <3>1. daemon' \in [Daemons -> DaemonRecords]
      BY <2>1, <2>2
    <3>2. QED
      BY <2>1, <3>1 DEF ResidentInv, ResidentTypeOK
  <2>4. \A e \in Daemons : (Current(daemon[e]) /\ Supervised(e))'
    BY <2>1, <2>2 DEF ResidentInv, Supervised, Current
  <2>5. QED
    BY <2>3, <2>4 DEF ResidentInv
<1>9. CASE Refused(d)
  BY <1>9, DiesKeeps DEF Refused
<1>10. QED
  BY <1>1, <1>3, <1>4, <1>6, <1>7, <1>8, <1>9

LEMMA HandoverKeeps ==
  ASSUME ResidentInv, Handover
  PROVE  ResidentInv'
<1> USE DEF children
<1>1. PICK d \in Daemons, e \in Daemons : spawnSuccessor(d, e) \/ Tick(d, e)
  BY DEF Handover
<1>2. /\ daemon[d] \in DaemonRecords /\ Current(daemon[d]) /\ installed \in Nat /\ daemon[e] \in DaemonRecords
      /\ daemon \in [Daemons -> DaemonRecords]
  BY DEF ResidentInv, ResidentTypeOK
<1>3. CASE spawnSuccessor(d, e)
  <2>1. daemon[d].depth \in Nat /\ daemon[d].known \in BOOLEAN /\ daemon[d].maps \in {"copy", "installed", Nil}
    BY <1>2 DEF DaemonRecords
  <2>2. CASE daemon[d].known
    BY <1>2, <1>3, <2>1, <2>2, SpawnKeeps DEF spawnSuccessor, listEnvWithoutActivation
  <2>3. CASE ~daemon[d].known
    <3>1. daemon[d].img \in Nat \cup {Nil}
      BY <1>2 DEF DaemonRecords
    <3>2. QED
      BY <1>2, <1>3, <2>1, <2>3, <3>1, SpawnKeeps DEF spawnSuccessor, listEnvWithoutActivation
  <2>4. QED
    BY <2>1, <2>2, <2>3
<1>4. CASE Tick(d, e)
  <2>1. /\ d # e /\ daemon[d].st = "serving" /\ daemon[e].st = "unborn"
        /\ UNCHANGED <<installed, client, launcher, child, holder>>
    BY <1>4 DEF Tick, Serves, Unborn
  <2>2. /\ daemon' \in [Daemons -> DaemonRecords]
        /\ daemon'[d] = [daemon[d] EXCEPT !.awaits = TRUE, !.cur = installed]
        /\ daemon'[e].st = "exec" /\ daemon'[e].img = installed
        /\ \A f \in Daemons \ {d, e} : daemon'[f] = daemon[f]
    BY <1>2, <1>4, <2>1 DEF Tick, DaemonRecords, ChildEnv
  <2>3. ResidentTypeOK'
    BY <2>1, <2>2 DEF ResidentInv, ResidentTypeOK
  <2>4. ASSUME NEW f \in Daemons
        PROVE  (Current(daemon[f]) /\ Supervised(f))'
    <3>1. CASE f = d
      <4>1. /\ daemon'[d].st = "serving" /\ daemon'[d].img = daemon[d].img
            /\ daemon'[d].base = daemon[d].base /\ daemon'[d].excused = daemon[d].excused
        BY <1>2, <2>1, <2>2 DEF DaemonRecords
      <4>2. QED
        BY <1>2, <2>1, <3>1, <4>1 DEF ResidentInv, Current, Supervised
    <3>2. CASE f = e
      BY <2>1, <2>2, <3>2 DEF ResidentInv, Current, Supervised
    <3>3. CASE f \notin {d, e}
      BY <2>1, <2>2, <3>3 DEF ResidentInv, Current, Supervised
    <3>4. QED
      BY <3>1, <3>2, <3>3
  <2>5. QED
    BY <2>3, <2>4 DEF ResidentInv
<1>5. QED
  BY <1>1, <1>3, <1>4

LEMMA EndsKeep ==
  ASSUME ResidentInv, Ends \/ Watches
  PROVE  ResidentInv'
<1> USE DEF children
<1>1. PICK d \in Daemons : Crashes(d) \/ Exit(d) \/ Signalled(d) \/ SpawnFails(d) \/ NoTakeover(d)
  BY DEF Ends, Watches
<1>2. /\ daemon[d] \in DaemonRecords /\ launcher[d] \in Launchers /\ Current(daemon[d]) /\ Supervised(d)
      /\ daemon \in [Daemons -> DaemonRecords] /\ launcher = [launcher EXCEPT ![d] = launcher[d]]
      /\ installed \in Nat
  BY DEF ResidentInv, ResidentTypeOK
<1>3. CASE Crashes(d)
  BY <1>3, DiesKeeps DEF Crashes
<1>4. CASE Exit(d)
  <2>1. CASE launcher[d].pc = "ended"
    <3> DEFINE r == NoDaemon("gone")
    <3>1. r \in DaemonRecords /\ r.st = "gone" /\ Current(r)
      BY NoDaemonTypes DEF NoDaemon
    <3>2. daemon' = [daemon EXCEPT ![d] = r] /\ UNCHANGED <<installed, client, launcher, child, holder>>
      BY <1>4, <2>1 DEF Exit
    <3> HIDE DEF r
    <3>3. QED
      BY <1>2, <3>1, <3>2, OneDaemon DEF Supervised
  <2>2. CASE launcher[d].pc # "ended"
    BY <1>4, <2>2, DiesKeeps DEF Exit
  <2>3. QED
    BY <2>1, <2>2
<1>5. CASE Signalled(d)
  <2> DEFINE r == [daemon[d] EXCEPT !.st = "leaving"]
  <2>1. r \in DaemonRecords /\ r.st = "leaving" /\ Current(r)
    BY <1>2 DEF DaemonRecords, Current
  <2>2. daemon' = [daemon EXCEPT ![d] = r] /\ UNCHANGED <<installed, client, launcher, child, holder>>
        /\ daemon[d].st = "serving"
    BY <1>5 DEF Signalled, Serves
  <2> HIDE DEF r
  <2>3. QED
    BY <1>2, <2>1, <2>2, OneDaemon DEF Supervised
<1>6. ASSUME NEW version \in Nat \cup {Nil}, Serves(d), Missed(d, version)
      PROVE  ResidentInv'
  <2> DEFINE r == [daemon[d] EXCEPT !.awaits = FALSE, !.base = version, !.cur = Nil, !.excused = TRUE]
  <2>1. r \in DaemonRecords /\ r.st = "serving" /\ Current(r)
    BY <1>2, <1>6 DEF DaemonRecords, Current, Serves
  <2>2. daemon' = [daemon EXCEPT ![d] = r] /\ UNCHANGED <<installed, client, launcher, child, holder>>
    BY <1>2, <1>6 DEF Missed
  <2> HIDE DEF r
  <2>3. QED
    BY <1>2, <2>1, <2>2, OneDaemon DEF Supervised
<1>7. CASE SpawnFails(d)
  BY <1>2, <1>6, <1>7 DEF SpawnFails
<1>8. CASE NoTakeover(d)
  <2>1. daemon[d].cur \in Nat \cup {Nil}
    BY <1>2 DEF DaemonRecords
  <2>2. QED
    BY <1>6, <1>8, <2>1 DEF NoTakeover
<1>9. QED
  BY <1>1, <1>3, <1>4, <1>5, <1>7, <1>8

\* What a launcher becomes after a failure.
LEMMA FailsType ==
  ASSUME NEW l \in Launchers
  PROVE  Fails(l) \in Launchers /\ Fails(l).pc = "sleep"
<1>1. /\ l.backoff \in Nat /\ l.fails \in Nat /\ MaxBackoff \in Nat /\ MaxRapidFails \in Nat
      /\ nextBackoff(l.backoff) \in Nat /\ l.fails + 1 \in Nat
  BY ResidentAssumption DEF Launchers, nextBackoff
<1>2. CASE l.fails + 1 >= MaxRapidFails
  BY <1>1, <1>2 DEF Fails, Launchers
<1>3. CASE ~(l.fails + 1 >= MaxRapidFails)
  BY <1>1, <1>3 DEF Fails, Launchers
<1>4. QED
  BY <1>2, <1>3

LEMMA SupervisesKeeps ==
  ASSUME ResidentInv, NEW d \in Daemons, Supervises(d)
  PROVE  ResidentInv'
<1>1. /\ daemon[d] \in DaemonRecords /\ launcher[d] \in Launchers /\ Current(daemon[d]) /\ Supervised(d)
      /\ daemon = [daemon EXCEPT ![d] = daemon[d]] /\ launcher \in [Daemons -> Launchers]
  BY DEF ResidentInv, ResidentTypeOK
<1>2. UNCHANGED <<installed, client, daemon>>
  BY DEF Supervises, Sleeps, startChild, Interrupted, RanLong, DiedSoon, Exited
<1>3. launcher[d].pc \in {"sleep", "top", "running"}
  BY DEF Supervises, Sleeps, startChild, Interrupted, RanLong, DiedSoon, Exited
<1>4. ASSUME NEW l \in Launchers, launcher' = [launcher EXCEPT ![d] = l],
             child' \in {child, child \cup {d}, child \ {d}}, holder' \in {holder, d, Nil},
             d \in child' => l.pc \in {"running", "dead"}
      PROVE  ResidentInv'
  <2>1. daemon[d].st \notin {"unborn", "exec"}
    BY <1>1, <1>3 DEF Supervised
  <2>2. QED
    BY <1>1, <1>2, <1>4, <2>1, OneDaemon
<1>5. CASE Sleeps(d)
  <2> DEFINE l == [launcher[d] EXCEPT !.pc = "top"]
  <2>1. l \in Launchers /\ l.pc = "top" /\ d \notin child
    BY <1>1, <1>5 DEF Launchers, Supervised, Sleeps
  <2>2. launcher' = [launcher EXCEPT ![d] = l] /\ UNCHANGED <<child, holder>>
    BY <1>5 DEF Sleeps
  <2> HIDE DEF l
  <2>3. QED
    BY <1>4, <2>1, <2>2
<1>6. CASE startChild(d)
  <2>1. launcher[d].pc = "top" /\ d \notin child
    BY <1>1, <1>6 DEF startChild, Supervised
  <2>2. CASE launcher' = [launcher EXCEPT ![d] = Launcher("ended")] /\ UNCHANGED <<child, holder>>
    BY <1>4, <2>1, <2>2, NoDaemonTypes
  <2>3. CASE /\ launcher' = [launcher EXCEPT ![d].pc = "running"] /\ child' = child \cup {d}
             /\ holder' = IF holder = Nil THEN d ELSE holder
    <3> DEFINE l == [launcher[d] EXCEPT !.pc = "running"]
    <3>1. l \in Launchers /\ l.pc = "running"
      BY <1>1 DEF Launchers
    <3>2. launcher' = [launcher EXCEPT ![d] = l]
      BY <2>3
    <3> HIDE DEF l
    <3>3. QED
      BY <1>4, <2>3, <3>1, <3>2
  <2>4. CASE launcher' = [launcher EXCEPT ![d] = Fails(@)] /\ UNCHANGED <<child, holder>>
    BY <1>1, <1>4, <2>1, <2>4, FailsType
  <2>5. QED
    BY <1>6, <2>2, <2>3, <2>4 DEF startChild
<1>7. ASSUME NEW l \in Launchers, Exited(d, l)
      PROVE  ResidentInv'
  BY <1>4, <1>7 DEF Exited
<1>8. CASE Interrupted(d)
  BY <1>7, <1>8, NoDaemonTypes DEF Interrupted
<1>9. CASE RanLong(d)
  <2>1. [launcher[d] EXCEPT !.pc = "top", !.fails = 0, !.backoff = MinBackoff, !.delay = 0] \in Launchers
    BY <1>1, ResidentAssumption DEF Launchers
  <2>2. QED
    BY <1>7, <1>9, <2>1 DEF RanLong
<1>10. CASE DiedSoon(d)
  BY <1>1, <1>7, <1>10, FailsType DEF DiedSoon
<1>11. QED
  BY <1>5, <1>6, <1>8, <1>9, <1>10 DEF Supervises

\* Every process that starts while an upgrade lands is excused.
LEMMA UpgradeKeeps ==
  ASSUME ResidentInv, Upgrade \/ StartClient
  PROVE  ResidentInv'
<1> USE DEF children
<1>1. CASE StartClient
  BY <1>1 DEF StartClient, ResidentInv, ResidentTypeOK, Current, Supervised
<1>2. CASE Upgrade
  <2>1. /\ installed' = installed + 1 /\ UNCHANGED <<client, launcher, child, holder>>
        /\ daemon' = [d \in Daemons |-> [daemon[d] EXCEPT !.excused = @ \/ Starting(d)]]
    BY <1>2 DEF Upgrade
  <2>2. ASSUME NEW d \in Daemons
        PROVE  daemon'[d] \in DaemonRecords /\ (Current(daemon[d]) /\ Supervised(d))'
    <3> DEFINE r == daemon[d]
    <3>1. r \in DaemonRecords /\ Current(r) /\ Supervised(d)
      BY DEF ResidentInv, ResidentTypeOK
    <3>2. daemon'[d] = [r EXCEPT !.excused = @ \/ Starting(d)]
      BY <2>1
    <3>3. /\ daemon'[d] \in DaemonRecords /\ daemon'[d].st = r.st /\ daemon'[d].img = r.img
          /\ daemon'[d].base = r.base /\ (daemon'[d].excused <=> r.excused \/ Starting(d))
      <4>1. Starting(d) \in BOOLEAN /\ r.excused \in BOOLEAN
        BY <3>1 DEF Starting, DaemonRecords
      <4>2. QED
        BY <3>1, <3>2, <4>1 DEF DaemonRecords
    <3>4. Current(daemon[d])'
      BY <3>1, <3>3 DEF Current, Starting
    <3>5. Supervised(d)'
      BY <2>1, <3>1, <3>3 DEF Supervised
    <3>6. QED
      BY <3>3, <3>4, <3>5
  <2>3. ResidentTypeOK'
    <3>1. daemon' \in [Daemons -> DaemonRecords]
      <4>1. \A d \in Daemons : daemon'[d] \in DaemonRecords
        BY <2>2
      <4>2. QED
        BY <2>1, <4>1
    <3>2. installed' \in Nat
      BY <2>1 DEF ResidentInv, ResidentTypeOK
    <3>3. QED
      BY <2>1, <3>1, <3>2 DEF ResidentInv, ResidentTypeOK
  <2>4. QED
    BY <2>2, <2>3 DEF ResidentInv
<1>3. QED
  BY <1>1, <1>2

LEMMA ResidentInvariant == ResidentSpec => []ResidentInv
<1>1. ResidentInit => ResidentInv
  <2> SUFFICES ASSUME ResidentInit PROVE ResidentInv
    OBVIOUS
  <2>1. /\ \A d \in Daemons : daemon[d] = NoDaemon("unborn") /\ launcher[d] = Launcher("off")
        /\ daemon = [d \in Daemons |-> NoDaemon("unborn")] /\ launcher = [d \in Daemons |-> Launcher("off")]
        /\ installed = 1 /\ client = 1 /\ child = {} /\ holder = Nil
    BY DEF ResidentInit
  <2>2. ResidentTypeOK
    BY <2>1, NoDaemonTypes DEF ResidentTypeOK
  <2>3. \A d \in Daemons : Current(daemon[d]) /\ Supervised(d)
    BY <2>1, NoDaemonTypes DEF Supervised
  <2>4. QED
    BY <2>2, <2>3 DEF ResidentInv
<1>2. ResidentInv /\ [ResidentNext]_residentVars => ResidentInv'
  <2>1. ResidentInv /\ UNCHANGED residentVars => ResidentInv'
    BY DEF residentVars, ResidentInv, ResidentTypeOK, Current, Supervised
  <2>2. QED
    BY <2>1, UpgradeKeeps, StartsKeep, EndsKeep, HandoverKeeps, SupervisesKeeps DEF ResidentNext
<1>3. QED
  BY <1>1, <1>2, PTL DEF ResidentSpec

\* A daemon that finds nothing new in the installed file and still runs another
\* version of it came from an old copy, was overtaken by an upgrade while it
\* started, or saw a takeover fail: watchInstalledBinary (cmd/selfupdate.go)
\* misses no upgrade in any other way, whoever starts, reloads, crashes or leaves.
THEOREM NoUpgradeMissed == ResidentSpec => []StaleExplained
<1>1. ResidentInv => StaleExplained
  BY ResidentAssumption DEF ResidentInv, ResidentTypeOK, StaleExplained, Server, Serves, Current
<1>2. QED
  BY <1>1, ResidentInvariant, PTL

\* A sub-daemon without a launcher is left by a daemon that died or did not wait
\* for it (superviseOne of internal/subdaemon, the five seconds of cmd/daemon.go).
THEOREM NoOtherOrphans == ResidentSpec => []OrphansExplained
<1>1. ResidentInv => OrphansExplained
  BY DEF ResidentInv, ResidentTypeOK, OrphansExplained, Supervised
<1>2. QED
  BY <1>1, ResidentInvariant, PTL
=============================================================================
