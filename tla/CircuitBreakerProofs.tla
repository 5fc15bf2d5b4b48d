------------------------ MODULE CircuitBreakerProofs ------------------------
(***************************************************************************)
(* Theorems about CircuitBreaker, for every set of payments, window,        *)
(* threshold, cooldown and bound.                                           *)
(*                                                                          *)
(* 1. TypeCorrect: the type invariant.                                      *)
(* 2. NoTripIsMissed: NoMissedTrip, which is inductive once the window and  *)
(*    the log are known to be finite.                                       *)
(* 3. FreezeOutlastsRestart: RestartKeepsWindowedFreeze.                    *)
(***************************************************************************)
EXTENDS CircuitBreaker, RulesProofs

Stages == {"idle", "frozen", "scoring", "decided", "logged", "lost"}

(***************************************************************************)
(* Restarted breakers are closed, or open since an event they replayed.     *)
(***************************************************************************)
LEMMA ReopenedType ==
  ASSUME TypeOK, NEW o \in Reopened
  PROVE  o \in (0..MaxTime) \cup {NotOpen}
<1>1. o = NotOpen \/ \E e \in InWindow(log, now) : o = e.ts
  BY DEF Reopened, ReplayedOpening
<1> QED
  BY <1>1 DEF TypeOK, Event, InWindow

(***************************************************************************)
(* The state of the breaker and of its use by the guard has its type.       *)
(***************************************************************************)
THEOREM TypeCorrect == Spec => []TypeOK
<1> USE DEF TypeOK, Decision
<1>0. MaxTime \in Nat /\ NoDecision \in Decision
  BY PaymentsAssumption DEF NoDecision, Verdict
<1>1. Init => TypeOK
  BY <1>0 DEF Init, NothingBefore
<1>2. TypeOK /\ [Next]_vars => TypeOK'
  <2> SUFFICES ASSUME TypeOK, [Next]_vars
               PROVE  TypeOK'
    OBVIOUS
  <2>1. ASSUME NEW p \in Payments, Begin(p)
        PROVE  TypeOK'
    BY <2>1 DEF Begin, AskIsOpen
  <2>2. ASSUME NEW p \in Payments, NEW v \in Verdict, NEW a \in BOOLEAN, Decide(p, v, a)
        PROVE  TypeOK'
    <3>1. [id |-> p, ts |-> now, verdict |-> v, anomaly |-> a] \in Event
      BY DEF Event
    <3>2. events' \subseteq Event
      BY <2>2, <3>1 DEF Decide, InWindow
    <3>3. openedAt' \in (0..MaxTime) \cup {NotOpen}
      BY <2>2 DEF Decide, TripAt
    <3> QED
      BY <2>2, <3>2, <3>3 DEF Decide
  <2>3. ASSUME NEW p \in Payments, Log(p)
        PROVE  TypeOK'
    <3>1. [id |-> p, ts |-> now, verdict |-> decided[p].verdict,
           anomaly |-> decided[p].anomaly] \in Event
      BY DEF Event
    <3>2. log' \subseteq Event
      BY <2>3, <3>1 DEF Log
    <3> QED
      BY <1>0, <2>3, <3>2 DEF Log
  <2>4. CASE Reset
    BY <2>4 DEF Reset
  <2>5. CASE Peek
    BY <2>5 DEF Peek, AskIsOpen
  <2>6. CASE Counts
    BY <2>6 DEF Counts, InWindow
  <2>7. CASE Tick
    BY <1>0, <2>7 DEF Tick
  <2>8. CASE Crash
    <3>1. pc' \in [Payments -> Stages]
      BY <2>8 DEF Crash, InFlight, Stages
    <3>2. decided' \in [Payments -> Decision]
      BY <1>0, <2>8 DEF Crash
    <3>3. before' \in [openedAt : (0..MaxTime) \cup {NotOpen}, events : SUBSET Event]
      BY <2>8 DEF Crash
    <3> QED
      BY <2>8, <3>1, <3>2, <3>3 DEF Crash, Stages
  <2>9. CASE Restart
    <3>1. openedAt' \in (0..MaxTime) \cup {NotOpen}
      BY <2>9, ReopenedType DEF Restart
    <3>2. events' \subseteq Event
      BY <2>9 DEF Restart, InWindow
    <3>3. before' \in [openedAt : (0..MaxTime) \cup {NotOpen}, events : SUBSET Event]
      BY <2>9 DEF Restart, NothingBefore
    <3> QED
      BY <2>9, <3>1, <3>2, <3>3 DEF Restart
  <2>10. CASE UNCHANGED vars
    BY <2>10 DEF vars
  <2> QED
    BY <2>1, <2>2, <2>3, <2>4, <2>5, <2>6, <2>7, <2>8, <2>9, <2>10 DEF Next
<1> QED
  BY <1>1, <1>2, PTL DEF Spec

-----------------------------------------------------------------------------
(* Cardinality says something of finite sets only. *)

Finite == IsFiniteSet(events) /\ IsFiniteSet(log)

(***************************************************************************)
(* Every step adds at most one event and one entry.                         *)
(***************************************************************************)
LEMMA FiniteStep == Finite /\ [Next]_vars => Finite'
<1> SUFFICES ASSUME Finite, [Next]_vars
             PROVE  Finite'
  OBVIOUS
<1> USE DEF Finite
<1>0. \A evs, t : IsFiniteSet(evs) => IsFiniteSet(InWindow(evs, t))
  <2>1. \A evs, t : InWindow(evs, t) \subseteq evs
    BY DEF InWindow
  <2> QED
    BY <2>1, FS_Subset
<1>1. IsFiniteSet({})
  BY FS_EmptySet
<1>2. ASSUME NEW p \in Payments, Begin(p)
      PROVE  Finite'
  BY <1>1, <1>2 DEF Begin, AskIsOpen
<1>3. ASSUME NEW p \in Payments, NEW v \in Verdict, NEW a \in BOOLEAN, Decide(p, v, a)
      PROVE  Finite'
  <2> DEFINE e == [id |-> p, ts |-> now, verdict |-> v, anomaly |-> a]
  <2>1. events' = InWindow(events \cup {e}, now) /\ log' = log
    BY <1>3 DEF Decide
  <2>2. IsFiniteSet(events \cup {e})
    BY FS_AddElement
  <2> QED
    BY <1>0, <2>1, <2>2
<1>4. ASSUME NEW p \in Payments, Log(p)
      PROVE  Finite'
  BY <1>4, FS_AddElement DEF Log
<1>5. CASE Reset
  BY <1>1, <1>5 DEF Reset
<1>6. CASE Peek
  BY <1>1, <1>6 DEF Peek, AskIsOpen
<1>7. CASE Counts
  BY <1>0, <1>7 DEF Counts
<1>8. CASE Tick
  BY <1>8 DEF Tick
<1>9. CASE Crash
  BY <1>1, <1>9 DEF Crash
<1>10. CASE Restart
  BY <1>0, <1>10 DEF Restart
<1>11. CASE UNCHANGED vars
  BY <1>11 DEF vars
<1> QED
  BY <1>2, <1>3, <1>4, <1>5, <1>6, <1>7, <1>8, <1>9, <1>10, <1>11 DEF Next

BreakerInv == TypeOK /\ Finite /\ NoMissedTrip

(***************************************************************************)
(* record() and hydrate() test what they add; nothing else fills a window.  *)
(***************************************************************************)
LEMMA TripStep ==
  ASSUME ThresholdsPositive, BreakerInv, [Next]_vars, TypeOK', Finite'
  PROVE  NoMissedTrip'
<1> USE DEF NoMissedTrip
<1>1. CASE events' = {}
  <2>1. InWindow(events', now') = {}
    BY <1>1 DEF InWindow
  <2> QED
    BY <2>1, NothingTripsNothing
<1>2. CASE UNCHANGED <<now, events, openedAt>>
  BY <1>2 DEF BreakerInv
<1>3. ASSUME NEW p \in Payments, NEW v \in Verdict, NEW a \in BOOLEAN, Decide(p, v, a)
      PROVE  NoMissedTrip'
  <2>1. InWindow(events', now') = events'
    BY <1>3, PruneOnce DEF Decide
  <2>2. now # NotOpen
    BY DEF BreakerInv, TypeOK, NotOpen
  <2>3. openedAt' = TripAt(events')
    BY <1>3 DEF Decide
  <2> QED
    BY <2>1, <2>2, <2>3 DEF TripAt
<1>4. CASE Counts
  BY <1>4, PruneOnce DEF Counts, BreakerInv
<1>5. CASE Tick
  <2>1. InWindow(events, now + 1) \subseteq InWindow(events, now)
    BY PruneMore DEF BreakerInv, TypeOK, Event
  <2>2. IsFiniteSet(InWindow(events, now))
    <3>1. InWindow(events, now) \subseteq events
      BY DEF InWindow
    <3> QED
      BY <3>1, FS_Subset DEF BreakerInv, Finite
  <2>3. ShouldTrip(InWindow(events, now + 1)) => ShouldTrip(InWindow(events, now))
    BY <2>1, <2>2, TripMonotone
  <2> QED
    BY <1>5, <2>3 DEF Tick, BreakerInv
<1>6. CASE Restart
  <2>1. events' = InWindow(log, now) /\ now' = now /\ openedAt' \in ReplayedOpening(events')
    BY <1>6 DEF Restart, Reopened
  <2>2. IsFiniteSet(events') /\ \A e \in events' : e.ts \in 0..MaxTime
    BY DEF Finite, TypeOK, Event
  <2>3. ShouldTrip(events') => openedAt' # NotOpen
    <3> HIDE DEF NoMissedTrip
    <3> QED
      BY <2>1, <2>2, ReplayTrips, PaymentsAssumption
  <2> QED
    BY <2>1, <2>3, PruneOnce
<1> QED
  BY <1>1, <1>2, <1>3, <1>4, <1>5, <1>6
     DEF Next, vars, Begin, AskIsOpen, Log, Reset, Peek, Crash

(***************************************************************************)
(* A full window never coexists with a closed breaker, whatever decisions   *)
(* overlap and whenever the process stops, if no threshold is zero.         *)
(***************************************************************************)
THEOREM NoTripIsMissed ==
  ASSUME ThresholdsPositive
  PROVE  Spec => []NoMissedTrip
<1>1. Init => Finite /\ NoMissedTrip
  <2>1. ASSUME Init
        PROVE  InWindow(events, now) = {}
    BY <2>1 DEF Init, InWindow
  <2> QED
    BY <2>1, NothingTripsNothing, FS_EmptySet DEF Init, Finite, NoMissedTrip
<1>2. TypeOK /\ TypeOK' /\ Finite /\ NoMissedTrip /\ [Next]_vars => (Finite /\ NoMissedTrip)'
  BY FiniteStep, TripStep DEF BreakerInv
<1> QED
  BY <1>1, <1>2, TypeCorrect, PTL DEF Spec

(***************************************************************************)
(* A restart keeps a freeze whose evidence was logged and is in the window. *)
(***************************************************************************)
THEOREM FreezeOutlastsRestart ==
  ASSUME ThresholdsPositive
  PROVE  Spec => RestartKeepsWindowedFreeze
<1> DEFINE Kept == (~up /\ up' /\ before.openedAt # NotOpen /\ ShouldTrip(Evidence(before.events)))
                     => openedAt' # NotOpen
                        /\ \E e \in Evidence(before.events) : openedAt' <= e.ts
<1>1. TypeOK /\ Finite /\ [Next]_vars => Kept
  <2> SUFFICES ASSUME TypeOK, Finite, [Next]_vars, ~up, up',
                      ShouldTrip(Evidence(before.events))
               PROVE  openedAt' # NotOpen
                      /\ \E e \in Evidence(before.events) : openedAt' <= e.ts
    OBVIOUS
  <2>1. Restart
    BY DEF Next, vars, Begin, Decide, Log, Reset, Peek, Counts, Tick, Crash
  <2> DEFINE evs == InWindow(log, now)
  <2>2. IsFiniteSet(evs) /\ \A e \in evs : e.ts \in 0..MaxTime
    <3>1. evs \subseteq log
      BY DEF InWindow
    <3> QED
      BY <3>1, FS_Subset DEF Finite, TypeOK, Event
  <2>3. Evidence(before.events) \in SUBSET evs
    BY DEF Evidence
  <2>4. openedAt' \in ReplayedOpening(evs)
    BY <2>1 DEF Restart, Reopened
  <2> HIDE DEF evs
  <2> QED
    BY <2>2, <2>3, <2>4, ReplayTrips, PaymentsAssumption
<1>2. Init => Finite
  BY FS_EmptySet DEF Init, Finite
<1>3. TypeOK /\ Finite /\ [Next]_vars => [Kept]_vars
  BY <1>1
<1> QED
  BY <1>2, <1>3, FiniteStep, TypeCorrect, PTL DEF Spec, RestartKeepsWindowedFreeze
=============================================================================
