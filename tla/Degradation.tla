---------------------------- MODULE Degradation ----------------------------
(***************************************************************************)
(* The degradation ledger of one hub poller (internal/hub/degradation.go): *)
(* which API surfaces are failing, which message was announced for each,   *)
(* and where the blind window that an outage opened begins.                *)
(*                                                                         *)
(* Time is a counter that every fetch advances: two fetches of a poller    *)
(* never complete at the same instant, because one goroutine makes them.   *)
(* 0 is Go's zero time.                                                    *)
(***************************************************************************)
EXTENDS Naturals

CONSTANTS
  Surfaces,     \* API surfaces a fetch can fail on: "graphql", "rest"
  Messages,     \* error messages
  NoMessage,    \* the absence of an entry in the surfaces map
  MaxTime,      \* bound: the last instant at which a fetch completes
  MaxTakeovers  \* bound: how often a successor daemon takes the poller over

ASSUME DegradationAssumption ==
  /\ NoMessage \notin Messages
  /\ MaxTime \in Nat
  /\ MaxTakeovers \in Nat

VARIABLES
  surfaces,   \* surface -> message last announced, NoMessage when healthy
  lastOK,     \* when the last successful fetch completed
  blindFrom,  \* start of the open blind window, 0 when none or unknowable
  now,        \* the instant at which the next fetch completes
  takeovers,  \* how many successors have taken over
  starts,     \* history: the instants of those takeovers
  failed,     \* history: instants of the failed fetches
  observed,   \* history: instants of the successful fetches
  declared,   \* history: the [from, to] gaps that recovery notices declared
  outage,     \* history: surface -> the error of its failed fetch since a success
  heard       \* history: surface -> what a watcher that hears all was last told

ledgerVars == <<surfaces, lastOK, blindFrom, now, takeovers, starts,
                failed, observed, declared, outage, heard>>

Healthy == [s \in Surfaces |-> NoMessage]

\* The surfaces with an episode in flight.
InFlight == {s \in Surfaces : surfaces[s] # NoMessage}

newDegradation ==
  /\ surfaces = Healthy
  /\ lastOK = 0
  /\ blindFrom = 0

LedgerInit ==
  /\ newDegradation
  /\ now = 1
  /\ takeovers = 0
  /\ starts = {}
  /\ failed = {}
  /\ observed = {}
  /\ declared = {}
  /\ outage = Healthy
  /\ heard = Healthy

----------------------------------------------------------------------------
\* Mutant: only the first failure of an episode is announced.
MutantFirstOnly(s, m) == surfaces[s] = NoMessage
\* Whether a failure of s with message m is new information to subscribers.
Announces(s, m) == surfaces[s] # m

\* Mutants: the window opens when the failure is discovered; it never opens.
MutantDiscovery == IF blindFrom = 0 THEN now ELSE blindFrom
MutantNoWindow == blindFrom

\* The window opens at the last success, on the episode's first failure only.
WindowStart == IF blindFrom = 0 THEN lastOK ELSE blindFrom

\* A failed fetch. A repeat of the announced message stays silent.
fail(s, m) ==
  /\ now < MaxTime
  /\ blindFrom' = WindowStart
  /\ surfaces' = [surfaces EXCEPT ![s] = m]
  /\ heard' = IF Announces(s, m) THEN [heard EXCEPT ![s] = m] ELSE heard
  /\ outage' = [outage EXCEPT ![s] = m]
  /\ failed' = failed \cup {now}
  /\ now' = now + 1
  /\ UNCHANGED <<lastOK, takeovers, starts, observed, declared>>

\* The gap a recovery declares. Only the first of the recovery notices carries
\* it (clearBlindWindow reads and clears), so an episode declares at most one.
DeclaredGap ==
  IF blindFrom = 0 THEN {} ELSE {[from |-> blindFrom, to |-> now]}

\* A completed fetch: every episode in flight ends with a recovery notice.
success ==
  /\ now < MaxTime
  /\ lastOK' = now
  /\ IF InFlight = {}
       THEN UNCHANGED <<surfaces, blindFrom, declared, heard>>
       ELSE /\ surfaces' = Healthy
            /\ blindFrom' = 0
            /\ declared' = declared \cup DeclaredGap
            /\ heard' = [s \in Surfaces |-> IF s \in InFlight THEN NoMessage ELSE heard[s]]
  /\ outage' = Healthy
  /\ observed' = observed \cup {now}
  /\ now' = now + 1
  /\ UNCHANGED <<takeovers, starts, failed>>

\* A successor daemon restores the poller (RestoreState calls newPoller) and
\* builds a new ledger: the old one is not part of PollerState. The watcher
\* reconnects to a new stream.
TakenOver ==
  /\ takeovers < MaxTakeovers
  /\ takeovers' = takeovers + 1
  /\ starts' = starts \cup {now}
  /\ surfaces' = Healthy
  /\ lastOK' = 0
  /\ blindFrom' = 0
  /\ outage' = Healthy
  /\ heard' = Healthy
  /\ UNCHANGED <<now, failed, observed, declared>>

LedgerNext ==
  \/ \E s \in Surfaces, m \in Messages : fail(s, m)
  \/ success
  \/ TakenOver

LedgerSpec == LedgerInit /\ [][LedgerNext]_ledgerVars

----------------------------------------------------------------------------
BlindGap == [from : Nat, to : Nat]

\* The type invariant of the ledger and of its history.
LedgerTypeOK ==
  /\ surfaces \in [Surfaces -> Messages \cup {NoMessage}]
  /\ lastOK \in Nat
  /\ blindFrom \in Nat
  /\ now \in Nat \ {0}
  /\ takeovers \in 0..MaxTakeovers
  /\ starts \in SUBSET Nat
  /\ failed \in SUBSET Nat
  /\ observed \in SUBSET Nat
  /\ declared \in SUBSET BlindGap
  /\ outage \in [Surfaces -> Messages \cup {NoMessage}]
  /\ heard \in [Surfaces -> Messages \cup {NoMessage}]

\* A declared gap is honest: it runs from one successful observation to the
\* next, with no success inside it (degradation.go: "time.Now() at the failure
\* would stamp the discovery of the blindness rather than its start").
DeclaredTruthfully ==
  \A g \in declared :
    /\ g.from \in observed
    /\ g.to \in observed
    /\ g.from < g.to
    /\ \A t \in observed : ~(g.from < t /\ t < g.to)

\* Whether one daemon made both fetches: no successor took over in between.
SameDaemon(before, after) == \A b \in starts : ~(before < b /\ b <= after)

\* Absence is not success: a failed fetch that lies between two successful ones
\* of one daemon lies inside a gap that some recovery notice declared. (The
\* window does not survive a takeover: PollerState does not carry it.)
GapsDeclared ==
  \A t \in failed, before, after \in observed :
    before < t /\ t < after /\ SameDaemon(before, after)
      => \E g \in declared : g.from < t /\ t < g.to

\* The silence after a repeated failure never leaves a watcher with a stale
\* message, and no recovery is missing: what it was last told of each surface is
\* how the fetches of that surface have gone since the last success (issues #66
\* and #102).
WatcherIsCurrent == heard = outage

\* Consecutive identical failures are one episode and one notice (issue #66): a
\* watcher that knows of the failure is not told again.
NoRepeatedNotice ==
  [][\A s \in Surfaces, m \in Messages :
       heard[s] = m /\ fail(s, m) => ~Announces(s, m)]_ledgerVars
=============================================================================
