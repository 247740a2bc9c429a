------------------------------- MODULE Pacing -------------------------------
(***************************************************************************)
(* How the hub spaces timer fetches while the GraphQL budget is short: the *)
(* slots of grantTurn and the oldest-due rule of monitor.OldestDue.        *)
(*                                                                         *)
(* Time passes in units, and only when no timer is due. A fetch takes no   *)
(* time. The pollers are all tiered and none is paused by the broker, so   *)
(* all are candidates. The pace is a constant: N gaps for N pollers.       *)
(***************************************************************************)
EXTENDS Integers, FiniteSets, Functions

CONSTANTS
  Pollers,    \* the registered pollers, h.pollers
  Restored,   \* those a predecessor handed over, whose watchers may not return
  Gap,        \* the units between two slots
  Base,       \* the poll interval of an ample budget
  MaxDelay    \* bound: the longest delay of a timer, idle or error backoff

Pace == Gap * Cardinality(Pollers)

ASSUME PacingAssumption ==
  /\ IsFiniteSet(Pollers)
  /\ Restored \subseteq Pollers
  /\ Gap \in Nat \ {0}
  /\ Base \in Nat \ {0}
  /\ Base < Pace
  /\ MaxDelay \in Nat
  /\ Pace <= MaxDelay

\* The longest a poller waits between two fetches: its timer, and then for each
\* other poller a slot and the jitter of the wait for it.
Patience == MaxDelay + (Cardinality(Pollers) - 1) * (Gap + 1)

\* Ages past this are not told apart: the order of the fetches is kept apart.
MaxAge == Patience + 1

VARIABLES
  place,      \* poller -> its place by the instant of its last fetch, 1 the oldest
  age,        \* poller -> units since its lastRefresh
  started,    \* pollers whose goroutine runs
  timer,      \* poller -> units until its timer fires
  slot,       \* units until nextSlot
  stretched   \* whether the budget is short

pacingVars == <<place, age, started, timer, slot, stretched>>

Places == 1..Cardinality(Pollers)

\* nextDelay: a stretched pace is the least a poller waits.
Delays(short) == (IF short THEN Pace ELSE Base)..MaxDelay

\* A wait spread by jitter, at least one unit.
Jittered(d) == {j \in (d - 1)..(d + 1) : j >= 1}

\* Restored pollers were last refreshed by a predecessor: lastRefresh is zero.
PacingInit ==
  /\ place \in Bijection(Pollers, Places)
  /\ \A p \in Restored, q \in Pollers \ Restored : place[p] < place[q]
  /\ age = [p \in Pollers |-> IF p \in Restored THEN MaxAge ELSE 0]
  /\ started = Pollers \ Restored
  /\ timer = [p \in Pollers |-> IF p \in Restored THEN 0 ELSE Base]
  /\ slot = 0
  /\ stretched = TRUE

----------------------------------------------------------------------------
\* The start of a fetch: lastRefresh is now, and the next timer is armed.
Fetch(p) ==
  /\ age' = [age EXCEPT ![p] = 0]
  /\ place' = [q \in Pollers |-> IF q = p THEN Cardinality(Pollers)
                               ELSE IF place[p] < place[q] THEN place[q] - 1 ELSE place[q]]
  /\ \E d \in Delays(stretched) : timer' = [timer EXCEPT ![p] = d]

Due(p) == age[p] >= Pace

\* Mutant: the due poller that was refreshed last goes first.
MutantOldestDue ==
  {p \in Pollers : Due(p) /\ \A q \in Pollers : Due(q) => place[q] <= place[p]}

\* The due poller whose last refresh is the oldest, if one is due.
OldestDue ==
  {p \in Pollers : Due(p) /\ \A q \in Pollers : Due(q) => place[p] <= place[q]}

\* Slots are pace / N apart.
SlotLength == Gap

\* An expired timer while the budget is ample, or when it is p's turn.
Granted(p) ==
  /\ stretched => slot = 0 /\ OldestDue \subseteq {p}
  /\ slot' = IF stretched THEN SlotLength ELSE slot
  /\ Fetch(p)

\* p waits for the next slot, or for an older poller to take this one.
Denied(p) ==
  /\ stretched
  /\ \/ /\ slot > 0
        /\ \E d \in Jittered(slot) : timer' = [timer EXCEPT ![p] = d]
     \/ /\ slot = 0 /\ ~(OldestDue \subseteq {p})
        /\ \E d \in Jittered(Gap) : timer' = [timer EXCEPT ![p] = d]
  /\ UNCHANGED <<place, age, slot>>

\* p's timer fires and grantTurn decides.
Fire(p) ==
  /\ p \in started
  /\ timer[p] = 0
  /\ Granted(p) \/ Denied(p)
  /\ UNCHANGED <<started, stretched>>

\* A wake fetches without asking for a turn, as does a poller's first run.
Wake(p) ==
  /\ age[p] > 0
  /\ Fetch(p)
  /\ started' = started \cup {p}
  /\ UNCHANGED <<slot, stretched>>

\* A unit of time passes.
Elapse ==
  /\ \A p \in started : timer[p] > 0
  /\ age' = [p \in Pollers |-> IF age[p] < MaxAge THEN age[p] + 1 ELSE MaxAge]
  /\ timer' = [p \in Pollers |-> IF p \in started THEN timer[p] - 1 ELSE 0]
  /\ slot' = IF slot > 0 THEN slot - 1 ELSE 0
  /\ UNCHANGED <<place, started, stretched>>

\* The budget recovers or runs short again.
Budget ==
  /\ stretched' = ~stretched
  /\ UNCHANGED <<place, age, started, timer, slot>>

PacingNext ==
  \/ \E p \in Pollers : Fire(p) \/ Wake(p)
  \/ Elapse
  \/ Budget

PacingSpec == PacingInit /\ [][PacingNext]_pacingVars

\* Time passes and an expired timer is served.
PacingFairSpec == PacingSpec /\ WF_pacingVars(Elapse) /\ \A p \in Pollers : WF_pacingVars(Fire(p))

----------------------------------------------------------------------------
\* The type invariant of the pacing state.
PacingTypeOK ==
  /\ place \in Bijection(Pollers, Places)
  /\ age \in [Pollers -> 0..MaxAge]
  /\ started \in SUBSET Pollers
  /\ timer \in [Pollers -> 0..MaxDelay + 1]
  /\ slot \in 0..Gap
  /\ stretched \in BOOLEAN

\* "so no target starves" (hub.go, pace.go): each running poller's target is
\* refreshed again and again.
NoStarvation == \A p \in Pollers : [](p \in started => <>(age[p] = 0))

\* A running poller's turn comes within one round: no target is left unread for
\* longer than its own timer and one slot of each other poller.
BoundedWait == \A p \in started : age[p] <= Patience
=============================================================================
