--------------------------- MODULE CircuitBreaker ---------------------------
(***************************************************************************)
(* The circuit breaker of one agent, driven the way AgentGuard drives it:   *)
(* every payment first asks isOpen(), is decided some time later (an LLM    *)
(* call lies between), is then record()ed, and later still its entry        *)
(* reaches the audit log, with the timestamp of that moment.  The process   *)
(* may stop at any time; a restart rebuilds the breaker from the log.       *)
(*                                                                          *)
(* Source: packages/core/src/circuit-breaker.ts, and AgentGuard.evaluate,   *)
(* runGuard and hydrate in packages/core/src/index.ts.                      *)
(***************************************************************************)
EXTENDS CircuitBreakerRules

CONSTANTS
  Payments,     \* the payments the agent attempts
  MaxTime       \* bound on the clock

ASSUME PaymentsAssumption == IsFiniteSet(Payments) /\ MaxTime \in Nat

VARIABLES
  now,          \* Date.now()
  up,           \* the process runs
  events,       \* CircuitBreaker.events
  openedAt,     \* CircuitBreaker.openedAt
  pc,           \* where each payment stands
  decided,      \* the decision of each payment not yet logged
  log,          \* the audit log: durable
  before        \* ghost: the breaker the last crash found, until the restart

vars == <<now, up, events, openedAt, pc, decided, log, before>>

Event    == [id : Payments, ts : 0..MaxTime, verdict : Verdict, anomaly : BOOLEAN]
Decision == [verdict : Verdict, anomaly : BOOLEAN]
NoDecision == [verdict |-> "allow", anomaly |-> FALSE]
NothingBefore == [openedAt |-> NotOpen, events |-> {}]

TypeOK ==
  /\ now \in 0..MaxTime
  /\ up \in BOOLEAN
  /\ events \subseteq Event
  /\ openedAt \in (0..MaxTime) \cup {NotOpen}
  /\ pc \in [Payments -> {"idle", "frozen", "scoring", "decided", "logged", "lost"}]
  /\ decided \in [Payments -> Decision]
  /\ log \subseteq Event
  /\ before \in [openedAt : (0..MaxTime) \cup {NotOpen}, events : SUBSET Event]

Init ==
  /\ now = 0
  /\ up = TRUE
  /\ events = {}
  /\ openedAt = NotOpen
  /\ pc = [p \in Payments |-> "idle"]
  /\ decided = [p \in Payments |-> NoDecision]
  /\ log = {}
  /\ before = NothingBefore

-----------------------------------------------------------------------------
\* isOpen() at the head of evaluate(): a cooled-down breaker is reset first.
AskIsOpen ==
  IF openedAt # NotOpen /\ CooledDown(openedAt, now)
  THEN openedAt' = NotOpen /\ events' = {}
  ELSE UNCHANGED <<openedAt, events>>

Begin(p) ==
  /\ up
  /\ pc[p] = "idle"
  /\ pc' = [pc EXCEPT ![p] = IF IsOpen(openedAt, now) THEN "frozen" ELSE "scoring"]
  /\ AskIsOpen
  /\ UNCHANGED <<now, up, decided, log, before>>

\* Mutant: record() tests the window before it pushes.
TripLate(evs) == IF openedAt = NotOpen /\ ShouldTrip(events) THEN now ELSE openedAt

TripAt(evs) == IF openedAt = NotOpen /\ ShouldTrip(evs) THEN now ELSE openedAt

\* record(): push, prune, and trip if the breaker is closed and the window is full.
Decide(p, v, a) ==
  /\ up
  /\ \/ pc[p] = "scoring"
     \/ pc[p] = "frozen" /\ v = "block" /\ ~a
  /\ events' = InWindow(events \cup {[id |-> p, ts |-> now, verdict |-> v, anomaly |-> a]}, now)
  /\ openedAt' = TripAt(events')
  /\ decided' = [decided EXCEPT ![p] = [verdict |-> v, anomaly |-> a]]
  /\ pc' = [pc EXCEPT ![p] = "decided"]
  /\ UNCHANGED <<now, up, log, before>>

\* audit.record(): the entry carries the time it is written, not the decision's.
Log(p) ==
  /\ up
  /\ pc[p] = "decided"
  /\ log' = log \cup {[id |-> p, ts |-> now, verdict |-> decided[p].verdict,
                       anomaly |-> decided[p].anomaly]}
  /\ pc' = [pc EXCEPT ![p] = "logged"]
  /\ decided' = [decided EXCEPT ![p] = NoDecision]
  /\ UNCHANGED <<now, up, events, openedAt, before>>

\* reset(): the operator closes the breaker.
Reset ==
  /\ up
  /\ openedAt # NotOpen
  /\ openedAt' = NotOpen
  /\ events' = {}
  /\ UNCHANGED <<now, up, pc, decided, log, before>>

\* state() and a dry-run evaluate(): isOpen() outside any payment.
Peek == up /\ AskIsOpen /\ UNCHANGED <<now, up, pc, decided, log, before>>

\* counts(): prunes as it reports.
Counts ==
  /\ up
  /\ events' = InWindow(events, now)
  /\ UNCHANGED <<now, up, openedAt, pc, decided, log, before>>

Tick == now < MaxTime /\ now' = now + 1
        /\ UNCHANGED <<up, events, openedAt, pc, decided, log, before>>

InFlight(p) == pc[p] \in {"frozen", "scoring", "decided"}

Crash ==
  /\ up
  /\ up' = FALSE
  /\ before' = [openedAt |-> openedAt, events |-> events]
  /\ openedAt' = NotOpen
  /\ events' = {}
  /\ pc' = [p \in Payments |-> IF InFlight(p) THEN "lost" ELSE pc[p]]
  /\ decided' = [p \in Payments |-> NoDecision]
  /\ UNCHANGED <<now, log>>

\* Mutant: the replay trips at Date.now(), not at the time of the entry.
ReopenedNow == {IF t = NotOpen THEN t ELSE now : t \in ReplayedOpening(InWindow(log, now))}

Reopened == ReplayedOpening(InWindow(log, now))

\* create() -> hydrate(): the entries of the window are replayed through record().
Restart ==
  /\ ~up
  /\ up' = TRUE
  /\ events' = InWindow(log, now)
  /\ openedAt' \in Reopened
  /\ before' = NothingBefore
  /\ UNCHANGED <<now, pc, decided, log>>

Next ==
  \/ \E p \in Payments : Begin(p) \/ Log(p)
  \/ \E p \in Payments, v \in Verdict, a \in BOOLEAN : Decide(p, v, a)
  \/ Reset \/ Peek \/ Counts \/ Tick \/ Crash \/ Restart

Spec == Init /\ [][Next]_vars

-----------------------------------------------------------------------------
(***************************************************************************)
(* A window that reaches a threshold never coexists with a closed breaker:  *)
(* record() and hydrate() test every event they add, pruning and the clock  *)
(* only shrink the window, and closing empties it.                          *)
(***************************************************************************)
NoMissedTrip == ShouldTrip(InWindow(events, now)) => openedAt # NotOpen

(***************************************************************************)
(* What a restart owes a frozen agent as long as its evidence lasts: if the *)
(* decisions the breaker held at the crash and that reached the log inside  *)
(* the window still trip it, the restarted breaker is frozen again, since a *)
(* moment no later than the last of them.                                   *)
(***************************************************************************)
Evidence(evs) == {e \in InWindow(log, now) : \E d \in evs : d.id = e.id}

RestartKeepsWindowedFreeze ==
  [][(~up /\ up' /\ before.openedAt # NotOpen /\ ShouldTrip(Evidence(before.events)))
       => openedAt' # NotOpen
          /\ \E e \in Evidence(before.events) : openedAt' <= e.ts]_vars

=============================================================================
