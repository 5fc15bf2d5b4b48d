------------------------ MODULE CircuitBreakerRules ------------------------
(***************************************************************************)
(* The arithmetic of the per-agent circuit breaker of agentctl              *)
(* (packages/core/src/circuit-breaker.ts), without any state: what is in    *)
(* the sliding window, when a window trips, when a freeze has cooled down,  *)
(* and which state a replay of recorded history ends in.                    *)
(*                                                                          *)
(* An event is a record [id, ts, verdict, anomaly]; the breaker's array of  *)
(* events is a set, the id telling apart events of the same millisecond.    *)
(***************************************************************************)
EXTENDS Integers, FiniteSets

CONSTANTS
  WindowLen,        \* windowSeconds, in clock ticks
  MaxBlocks,        \* maxBlocks, or Unset
  MaxEscalations,   \* maxEscalations, or Unset
  MaxAnomalies,     \* maxAnomalies, or Unset
  Cooldown          \* cooldownSeconds; 0 when omitted

Unset   == -1       \* an optional threshold that is not configured
NotOpen == -1       \* openedAt === undefined

ASSUME BreakerAssumption ==
  /\ WindowLen \in Nat \ {0}
  /\ Cooldown \in Nat
  /\ {MaxBlocks, MaxEscalations, MaxAnomalies} \subseteq Nat \cup {Unset}

Verdict == {"allow", "escalate", "block"}

Blocks(evs)      == {e \in evs : e.verdict = "block"}
Escalations(evs) == {e \in evs : e.verdict = "escalate"}
Anomalies(evs)   == {e \in evs : e.anomaly}

\* prune(): what the window still holds at time t (the lower edge is excluded).
InWindow(evs, t) == {e \in evs : e.ts > t - WindowLen}

\* shouldTrip(): one configured threshold is reached.
ShouldTrip(evs) ==
  \/ MaxBlocks # Unset      /\ Cardinality(Blocks(evs)) >= MaxBlocks
  \/ MaxEscalations # Unset /\ Cardinality(Escalations(evs)) >= MaxEscalations
  \/ MaxAnomalies # Unset   /\ Cardinality(Anomalies(evs)) >= MaxAnomalies

\* The freeze opened at time o is over at time t (never, without a cooldown).
CooledDown(o, t) == Cooldown > 0 /\ t - o >= Cooldown

\* isOpen(): its answer; closing a cooled-down breaker is left to the caller.
IsOpen(o, t) == o # NotOpen /\ ~CooledDown(o, t)

(***************************************************************************)
(* openedAt after hydrate() replayed evs, oldest first, through record() on *)
(* a fresh breaker: the time of the first event whose prefix trips, given   *)
(* as the set of its one possible value.  (All of evs lie in one window, so *)
(* the replay prunes nothing.)                                              *)
(***************************************************************************)
UpTo(evs, t) == {e \in evs : e.ts <= t}

ReplayedOpening(evs) ==
  LET tripping == {e \in evs : ShouldTrip(UpTo(evs, e.ts))}
  IN  IF tripping = {}
      THEN {NotOpen}
      ELSE {t \in {e.ts : e \in tripping} : \A e \in tripping : t <= e.ts}
=============================================================================
