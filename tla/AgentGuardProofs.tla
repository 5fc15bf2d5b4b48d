-------------------------- MODULE AgentGuardProofs --------------------------
(***************************************************************************)
(* Theorems about AgentGuard and GuardedFetch, for every set of payments,   *)
(* policy, request, breaker configuration and bound.                        *)
(*                                                                          *)
(* 1. TypeCorrect: the type invariant.                                      *)
(* 2. GuardSafe: Authorised, AccountedFor, SpendsAreReal and LogIsTrue, as  *)
(*    consequences of one inductive invariant, GuardInv.                    *)
(* 3. NoTripIsMissed: TripNeverMissed, with the replay of a restart.        *)
(* 4. GuardKeepsLedger: the guard implements PaymentLedger.                 *)
(* 5. OvershootIsBounded: MaxInFlight caps bound the spend of a day.        *)
(* 6. OnePayee: one payment at a time, one address per host.                *)
(* 7. RepliesAreHonest, FetchesAreAccountedFor and FetchesKeepLedger, of    *)
(*    guardedFetch().                                                       *)
(***************************************************************************)
EXTENDS GuardedFetch, RulesProofs

-----------------------------------------------------------------------------
(* The operators the actions are built from. *)

(***************************************************************************)
(* EvaluatePolicy answers two questions with yes or no.                     *)
(***************************************************************************)
LEMMA PolicyType ==
  ASSUME NEW ctx
  PROVE  EvaluatePolicy(ctx).critical \in BOOLEAN /\ EvaluatePolicy(ctx).escalate \in BOOLEAN
BY DEF EvaluatePolicy, EvaluateRules

(***************************************************************************)
(* aggregateVerdict returns one of the three verdicts.                      *)
(***************************************************************************)
LEMMA VerdictType ==
  ASSUME NEW c, NEW a, NEW e
  PROVE  AggregateVerdict(c, a, e) \in Verdict
BY DEF AggregateVerdict, Verdict

(***************************************************************************)
(* Pruning keeps only what was there.                                       *)
(***************************************************************************)
LEMMA InWindowSubset ==
  ASSUME NEW evs, NEW t
  PROVE  InWindow(evs, t) \subseteq evs
BY DEF InWindow

(***************************************************************************)
(* A replay ends closed, or open since one of the events it replayed.       *)
(***************************************************************************)
LEMMA ReplayedOpeningType ==
  ASSUME NEW evs, NEW o \in ReplayedOpening(evs)
  PROVE  o = NotOpen \/ \E e \in evs : o = e.ts
BY DEF ReplayedOpening

(***************************************************************************)
(* What the checks find keeps its shape when a check adds to it.            *)
(***************************************************************************)
LEMMA NothingType == Nothing \in Finding
BY DEF Nothing, Finding

\* The flags of a finding are Booleans.
LEMMA FindingFields ==
  ASSUME NEW f \in Finding
  PROVE  f.critical \in BOOLEAN /\ f.anomaly \in BOOLEAN
BY DEF Finding

\* What the policy adds leaves it a finding.
LEMMA FindingOfPolicy ==
  ASSUME NEW f \in Finding, NEW c \in BOOLEAN, NEW e \in BOOLEAN
  PROVE  [f EXCEPT !.critical = c, !.escalate = e] \in Finding
BY DEF Finding

\* So does what the behavioural score adds.
LEMMA FindingOfScore ==
  ASSUME NEW f \in Finding, NEW a \in BOOLEAN, NEW t \in BOOLEAN, NEW r \in BOOLEAN
  PROVE  [f EXCEPT !.anomaly = a, !.trigger = t, !.critical = @ \/ r] \in Finding
<1>1. (f.critical \/ r) \in BOOLEAN
  OBVIOUS
<1> QED
  BY <1>1 DEF Finding

\* The finding a replayed anomaly stands for.
LEMMA FindingOfDecision ==
  ASSUME NEW a \in BOOLEAN
  PROVE  [Nothing EXCEPT !.anomaly = a] \in Finding
BY DEF Finding, Nothing

\* The registry answers yes or no.
LEMMA RedirectedType == ASSUME NEW req PROVE Redirected(req) \in BOOLEAN
BY DEF Redirected

-----------------------------------------------------------------------------
(***************************************************************************)
(* The type invariant: in every reachable state each variable of the guard  *)
(* has the shape the code gives it, across all interleavings and restarts.  *)
(***************************************************************************)
Verdicted == {"pending", "approved", "settling", "settled", "recording"}
Typed == TypeOK /\ \A p \in Payments : pc[p] \in Verdicted => verdict[p] \in Verdict

\* No payment has begun: every variable has its type.
LEMMA TypeInit == Init => Typed
<1> USE DEF Running, Ended
<1> SUFFICES ASSUME Init PROVE Typed
  OBVIOUS
<1>1. found \in [Payments -> Finding]
  BY NothingType DEF Init
<1>2. landed \in [Payments -> Nat \cup {Never}] /\ openedAt \in Nat \cup {NotOpen}
  BY DEF Init
<1>3. log \subseteq Entry /\ events = {} /\ seen = {} /\ bindings = {} /\ spends = {}
  BY DEF Init
<1> QED
  BY <1>1, <1>2, <1>3 DEF Init, TypeOK, Typed, Verdicted

(***************************************************************************)
(* Every action of the guard and its environment keeps the types.           *)
(***************************************************************************)
LEMMA TypeStep == Typed /\ [Next]_vars => Typed'
<1> USE DEF Running, Ended
<1> SUFFICES ASSUME Typed, [Next]_vars
             PROVE  Typed'
  OBVIOUS
<1> USE DEF Typed, TypeOK, Verdicted, Goto, progress, memory, breaker, chain
<1>1. ASSUME NEW p \in Payments, Begin(p)
      PROVE  Typed'
  <2> DEFINE policy == EvaluatePolicy([req |-> Request[p], now |-> now,
                                      spends |-> spends, seen |-> seen])
             f == [found[p] EXCEPT !.critical = policy.critical, !.escalate = policy.escalate]
  <2>1. f \in Finding
    BY PolicyType, FindingOfPolicy
  <2>2. found' = found \/ found' = [found EXCEPT ![p] = f]
    BY <1>1 DEF Begin
  <2>3. found' \in [Payments -> Finding]
    BY <2>1, <2>2
  <2> QED
    BY <1>1, <2>3 DEF Begin, AskIsOpen
<1>2. ASSUME NEW p \in Payments, NEW b \in Behaviours, Score(p, b)
      PROVE  Typed'
  <2> DEFINE f == [found[p] EXCEPT !.anomaly = b.anomaly, !.trigger = b.trigger,
                                   !.critical = @ \/ Redirected(Request[p])]
  <2>1. b.anomaly \in BOOLEAN /\ b.trigger \in BOOLEAN
    BY GuardAssumption
  <2>2. found[p] \in Finding
    OBVIOUS
  <2>3. f \in Finding
    BY <2>1, <2>2, FindingOfScore, RedirectedType
  <2>4. found' = [found EXCEPT ![p] = f]
    BY <1>2 DEF Score
  <2> QED
    BY <1>2, <2>3, <2>4 DEF Score
<1>3. ASSUME NEW p \in Payments, NEW consistent \in BOOLEAN, Decide(p, consistent)
      PROVE  Typed'
  <2> DEFINE f == [Nothing EXCEPT !.anomaly = found[p].anomaly]
  <2> DEFINE v == IF pc[p] = "refused" THEN "block"
                  ELSE AggregateVerdict(found[p].critical \/ ~consistent, found[p].trigger,
                                        found[p].escalate)
  <2>a. v \in Verdict
    BY VerdictType DEF Verdict
  <2>1. /\ verdict' = [verdict EXCEPT ![p] = v]
        /\ RecordInBreaker(p, v)
        /\ Goto(p, WayOn(v))
        /\ stamp' = IF WayOn(v) = "approved" THEN stamp ELSE [stamp EXCEPT ![p] = now]
    BY <1>3 DEF Decide
  <2> HIDE DEF v
  <2>2. f \in Finding /\ found' = [found EXCEPT ![p] = f] /\ found[p].anomaly \in BOOLEAN
    BY <1>3, FindingFields, FindingOfDecision DEF Decide
  <2>3. events' \subseteq [id : Payments, ts : Nat, verdict : Verdict, anomaly : BOOLEAN]
    <3> DEFINE e == [id |-> p, ts |-> now, verdict |-> v, anomaly |-> found[p].anomaly]
    <3>1. e \in [id : Payments, ts : Nat, verdict : Verdict, anomaly : BOOLEAN]
      BY <2>2, <2>a
    <3>2. events' = events \/ events' = InWindow(events \cup {e}, now)
      BY <2>1 DEF RecordInBreaker
    <3> QED
      BY <3>1, <3>2, InWindowSubset
  <2>4. openedAt' \in Nat \cup {NotOpen}
    BY <2>1 DEF RecordInBreaker
  <2>5. WayOn(v) \in {"approved", "pending", "recording"}
    BY DEF WayOn
  <2> QED
    BY <1>3, <2>a, <2>1, <2>2, <2>3, <2>4, <2>5 DEF Decide
<1>4. ASSUME NEW p \in Payments, Approve(p) \/ Deny(p) \/ Expire(p)
      PROVE  Typed'
  BY <1>4 DEF Approve, Deny, Expire, Answer
<1>5. ASSUME NEW p \in Payments, SignFails(p) \/ Sign(p) \/ Land(p)
      PROVE  Typed'
  BY <1>5 DEF SignFails, Sign, Land
<1>6. ASSUME NEW p \in Payments, SettleSucceeds(p) \/ SettleRefused(p) \/ SettleThrows(p)
      PROVE  Typed'
  BY <1>6 DEF SettleSucceeds, SettleRefused, SettleThrows
<1>7. ASSUME NEW p \in Payments, Observe(p)
      PROVE  Typed'
  BY <1>7 DEF Observe, Spend
<1>8. ASSUME NEW p \in Payments, Insert(p)
      PROVE  Typed'
  <2>1. verdict[p] \in Verdict
    BY <1>8 DEF Insert
  <2>2. found[p].anomaly \in BOOLEAN
    BY FindingFields
  <2> DEFINE e == [id |-> p, ts |-> stamp[p], verdict |-> verdict[p],
                   anomaly |-> found[p].anomaly, settled |-> outcome[p] = "success"]
  <2>3. e \in Entry
    BY <2>1, <2>2 DEF Entry
  <2>4. log' \subseteq Entry
    BY <1>8, <2>3 DEF Insert
  <2> QED
    BY <1>8, <2>4 DEF Insert
<1>9. ASSUME NEW p \in Payments, InsertFails(p)
      PROVE  Typed'
  BY <1>9 DEF InsertFails
<1>10. CASE DryRun \/ ResetBreaker
  BY <1>10 DEF DryRun, ResetBreaker, AskIsOpen
<1>11. CASE Tick
  BY <1>11 DEF Tick
<1>12. CASE Crash
  BY <1>12, NothingType DEF Crash
<1>13. CASE Restart
  BY <1>13, InWindowSubset, ReplayedOpeningType DEF Restart, Rebuilt, Spend, Entry
<1>14. CASE RestartCold
  BY <1>14 DEF RestartCold
<1>15. CASE UNCHANGED vars
  BY <1>15 DEF vars
<1> QED
  BY <1>1, <1>2, <1>3, <1>4, <1>5, <1>6, <1>7, <1>8, <1>9, <1>10, <1>11, <1>12, <1>13,
     <1>14, <1>15 DEF Next, Evaluation, Settlement, Recording

\* Every variable of the guard keeps its type, through interleavings and restarts.
THEOREM TypeCorrect == Spec => []TypeOK
<1>1. Typed => TypeOK
  BY DEF Typed
<1> QED
  BY <1>1, TypeInit, TypeStep, PTL DEF Spec

-----------------------------------------------------------------------------
(***************************************************************************)
(* The inductive invariant.  What one payment knows at each stage ties the  *)
(* guard's view (verdict, human, outcome) to the environment's (auth,       *)
(* landed); the log and the spend windows are then tied to the payments,    *)
(* and the windows are complete for all that is logged or about to be.      *)
(***************************************************************************)
Before   == {"idle", "checked", "refused", "scored"}
Finished == {"recording", "done", "unwritten"}

Cleared(p) == \/ verdict[p] = "allow"
              \/ verdict[p] = "escalate" /\ human[p] = "approved"

Staged(p) ==
  /\ ~up => pc[p] \notin Running
  /\ pc[p] \in Before => verdict[p] = "none"
  /\ pc[p] \in Before \cup {"pending"} => human[p] = "none"
  /\ pc[p] \in Before \cup {"pending", "approved"} => outcome[p] = "none" /\ auth[p] = "none"
  /\ pc[p] = "pending" => verdict[p] = "escalate"
  /\ pc[p] = "approved" => Cleared(p)
  /\ pc[p] = "settling" => outcome[p] = "none" /\ auth[p] \in {"live", "used"}
  /\ pc[p] = "settled" => outcome[p] = "success" /\ auth[p] = "used"

Concluded(p) ==
  pc[p] \in Finished /\ outcome[p] = "success" => auth[p] = "used" /\ landed[p] <= stamp[p]

OnChain(p) ==
  /\ auth[p] # "none" => Cleared(p)
  /\ auth[p] = "used" <=> landed[p] # Never
  /\ landed[p] <= now
  /\ stamp[p] <= now

PaymentInv == \A p \in Payments : Staged(p) /\ Concluded(p) /\ OnChain(p)

LogInv ==
  /\ \A e \in log : /\ pc[e.id] = "done"
                    /\ e.ts = stamp[e.id]
                    /\ e.verdict = verdict[e.id]
                    /\ e.settled <=> outcome[e.id] = "success"
  /\ \A e, f \in log : e.id = f.id => e = f
  /\ \A p \in Payments : pc[p] = "done" => \E e \in log : e.id = p

SpendInv ==
  /\ ~up => spends = {}
  /\ \A s \in spends : /\ pc[s.id] \in Finished
                       /\ outcome[s.id] = "success"
                       /\ s.ts = stamp[s.id]
  /\ \A s, t \in spends : s.id = t.id => s = t

CountInv ==
  up /\ ~cold =>
    \A p \in Payments :
      pc[p] \in {"recording", "done"} /\ outcome[p] = "success" /\ StillCounts(stamp[p], now)
        => \E s \in spends : s.id = p /\ s.ts = stamp[p] /\ s.amount = Request[p].amount

GuardInv == TypeOK /\ PaymentInv /\ LogInv /\ SpendInv /\ CountInv

(***************************************************************************)
(* A restart reads back every entry that still counts towards a window.     *)
(***************************************************************************)
LEMMA WithinLookback == \A ts, t \in Nat : StillCounts(ts, t) => ts >= t - Lookback
BY DayLenType, GuardAssumption DEF StillCounts

(***************************************************************************)
(* Entries are of the agent's payments.                                     *)
(***************************************************************************)
LEMMA LoggedPayments == TypeOK => \A e \in log : e.id \in Payments /\ e.ts \in Nat
BY DEF TypeOK, Entry

(***************************************************************************)
(* Every step keeps what each payment knows in line with the environment.   *)
(***************************************************************************)
LEMMA PaymentStep == GuardInv /\ TypeOK' /\ [Next]_vars => PaymentInv'
<1> SUFFICES ASSUME GuardInv, TypeOK', [Next]_vars
             PROVE  PaymentInv'
  OBVIOUS
<1> USE DEF GuardInv, TypeOK, Goto, progress, memory, breaker, chain, PaymentInv,
        Staged, Concluded, OnChain, Cleared, Before, Finished, Running, Ended, Never
<1>1. ASSUME NEW p \in Payments, Begin(p)
       PROVE  PaymentInv'
  BY <1>1 DEF Begin
<1>2. ASSUME NEW p \in Payments, NEW b \in Behaviours, Score(p, b)
       PROVE  PaymentInv'
  BY <1>2 DEF Score
<1>3. ASSUME NEW p \in Payments, NEW consistent \in BOOLEAN, Decide(p, consistent)
       PROVE  PaymentInv'
  BY <1>3 DEF Decide, WayOn
<1>4. ASSUME NEW p \in Payments, Approve(p) \/ Deny(p) \/ Expire(p)
       PROVE  PaymentInv'
  BY <1>4 DEF Approve, Deny, Expire, Answer
<1>5. ASSUME NEW p \in Payments, SignFails(p)
       PROVE  PaymentInv'
  BY <1>5 DEF SignFails
<1>6. ASSUME NEW p \in Payments, Sign(p)
       PROVE  PaymentInv'
  BY <1>6 DEF Sign
<1>7. ASSUME NEW p \in Payments, Land(p)
       PROVE  PaymentInv'
  BY <1>7 DEF Land
<1>8. ASSUME NEW p \in Payments, SettleSucceeds(p)
       PROVE  PaymentInv'
  BY <1>8 DEF SettleSucceeds
<1>9. ASSUME NEW p \in Payments, SettleRefused(p)
       PROVE  PaymentInv'
  BY <1>9 DEF SettleRefused
<1>10. ASSUME NEW p \in Payments, SettleThrows(p)
       PROVE  PaymentInv'
  BY <1>10 DEF SettleThrows
<1>11. ASSUME NEW p \in Payments, Observe(p)
       PROVE  PaymentInv'
  BY <1>11 DEF Observe
<1>12. ASSUME NEW p \in Payments, Insert(p)
       PROVE  PaymentInv'
  BY <1>12 DEF Insert
<1>13. ASSUME NEW p \in Payments, InsertFails(p)
       PROVE  PaymentInv'
  BY <1>13 DEF InsertFails
<1>14. CASE DryRun \/ ResetBreaker
  BY <1>14 DEF DryRun, ResetBreaker
<1>15. CASE Tick
  BY <1>15 DEF Tick
<1>16. CASE Crash
  BY <1>16 DEF Crash
<1>17. CASE Restart
  BY <1>17 DEF Restart, Rebuilt
<1>18. CASE RestartCold
  BY <1>18 DEF RestartCold
<1>19. CASE UNCHANGED vars
  BY <1>19 DEF vars
<1> HIDE DEF GuardInv, TypeOK, PaymentInv
<1> QED
  BY <1>1, <1>2, <1>3, <1>4, <1>5, <1>6, <1>7, <1>8, <1>9, <1>10, <1>11, <1>12,
     <1>13, <1>14, <1>15, <1>16, <1>17, <1>18, <1>19
     DEF Next, Evaluation, Settlement, Recording

(***************************************************************************)
(* Every step keeps the log a true account of the payments that are done.   *)
(***************************************************************************)
LEMMA LogStep == GuardInv /\ TypeOK' /\ [Next]_vars => LogInv'
<1> SUFFICES ASSUME GuardInv, TypeOK', [Next]_vars
             PROVE  LogInv'
  OBVIOUS
<1> USE DEF GuardInv, TypeOK, Goto, progress, memory, breaker, chain, LogInv,
        PaymentInv, Staged, Before, Running, Ended
<1>1. ASSUME NEW p \in Payments, Begin(p)
       PROVE  LogInv'
  <2>1. log' = log
    BY <1>1 DEF Begin
  <2>2. \A q \in Payments : /\ pc'[q] = "done" <=> pc[q] = "done"
                            /\ pc[q] = "done" => /\ stamp'[q] = stamp[q]
                                                /\ verdict'[q] = verdict[q]
                                                /\ outcome'[q] = outcome[q]
    BY <1>1 DEF Begin
  <2> QED
    BY <2>1, <2>2, LoggedPayments
<1>2. ASSUME NEW p \in Payments, NEW b \in Behaviours, Score(p, b)
       PROVE  LogInv'
  BY <1>2 DEF Score
<1>3. ASSUME NEW p \in Payments, NEW consistent \in BOOLEAN, Decide(p, consistent)
       PROVE  LogInv'
  BY <1>3 DEF Decide, WayOn
<1>4. ASSUME NEW p \in Payments, Approve(p) \/ Deny(p) \/ Expire(p)
       PROVE  LogInv'
  <2>1. log' = log
    BY <1>4 DEF Approve, Deny, Expire, Answer
  <2>2. \A q \in Payments : /\ pc'[q] = "done" <=> pc[q] = "done"
                            /\ pc[q] = "done" => /\ stamp'[q] = stamp[q]
                                                /\ verdict'[q] = verdict[q]
                                                /\ outcome'[q] = outcome[q]
    BY <1>4 DEF Approve, Deny, Expire, Answer
  <2> QED
    BY <2>1, <2>2, LoggedPayments
<1>5. ASSUME NEW p \in Payments, SignFails(p)
       PROVE  LogInv'
  BY <1>5 DEF SignFails
<1>6. ASSUME NEW p \in Payments, Sign(p)
       PROVE  LogInv'
  BY <1>6 DEF Sign
<1>7. ASSUME NEW p \in Payments, Land(p)
       PROVE  LogInv'
  BY <1>7 DEF Land
<1>8. ASSUME NEW p \in Payments, SettleSucceeds(p)
       PROVE  LogInv'
  BY <1>8 DEF SettleSucceeds
<1>9. ASSUME NEW p \in Payments, SettleRefused(p)
       PROVE  LogInv'
  BY <1>9 DEF SettleRefused
<1>10. ASSUME NEW p \in Payments, SettleThrows(p)
       PROVE  LogInv'
  BY <1>10 DEF SettleThrows
<1>11. ASSUME NEW p \in Payments, Observe(p)
       PROVE  LogInv'
  BY <1>11 DEF Observe
<1>12. ASSUME NEW p \in Payments, Insert(p)
       PROVE  LogInv'
  <2> DEFINE e == [id |-> p, ts |-> stamp[p], verdict |-> verdict[p],
                   anomaly |-> found[p].anomaly, settled |-> outcome[p] = "success"]
  <2>1. e.id = p /\ e.ts = stamp[p] /\ e.verdict = verdict[p]
        /\ (e.settled <=> outcome[p] = "success")
    OBVIOUS
  <2>2. log' = log \cup {e} /\ pc[p] = "recording"
        /\ pc' = [pc EXCEPT ![p] = "done"] /\ UNCHANGED <<stamp, verdict, outcome>>
    BY <1>12 DEF Insert
  <2> HIDE DEF e
  <2>3. \A f \in log : f.id # p
    BY <2>2
  <2> QED
    BY <2>1, <2>2, <2>3, LoggedPayments
<1>13. ASSUME NEW p \in Payments, InsertFails(p)
       PROVE  LogInv'
  BY <1>13 DEF InsertFails
<1>14. CASE DryRun \/ ResetBreaker
  BY <1>14 DEF DryRun, ResetBreaker
<1>15. CASE Tick
  BY <1>15 DEF Tick
<1>16. CASE Crash
  <2>1. log' = log
    BY <1>16 DEF Crash
  <2>2. \A q \in Payments : /\ pc'[q] = "done" <=> pc[q] = "done"
                            /\ pc[q] = "done" => /\ stamp'[q] = stamp[q]
                                                /\ verdict'[q] = verdict[q]
                                                /\ outcome'[q] = outcome[q]
    BY <1>16 DEF Crash
  <2> QED
    BY <2>1, <2>2, LoggedPayments
<1>17. CASE Restart
  BY <1>17 DEF Restart, Rebuilt
<1>18. CASE RestartCold
  BY <1>18 DEF RestartCold
<1>19. CASE UNCHANGED vars
  BY <1>19 DEF vars
<1> QED
  BY <1>1, <1>2, <1>3, <1>4, <1>5, <1>6, <1>7, <1>8, <1>9, <1>10, <1>11, <1>12,
     <1>13, <1>14, <1>15, <1>16, <1>17, <1>18, <1>19
     DEF Next, Evaluation, Settlement, Recording

(***************************************************************************)
(* Every step keeps each spend record a settled payment's own.              *)
(***************************************************************************)
LEMMA SpendStep == GuardInv /\ TypeOK' /\ [Next]_vars => SpendInv'
<1> SUFFICES ASSUME GuardInv, TypeOK', [Next]_vars
             PROVE  SpendInv'
  OBVIOUS
<1> USE DEF GuardInv, TypeOK, Goto, progress, memory, breaker, chain, SpendInv,
        PaymentInv, Staged, LogInv, Before, Finished, Running, Ended, Spend
<1>1. ASSUME NEW p \in Payments, Begin(p)
       PROVE  SpendInv'
  BY <1>1 DEF Begin
<1>2. ASSUME NEW p \in Payments, NEW b \in Behaviours, Score(p, b)
       PROVE  SpendInv'
  BY <1>2 DEF Score
<1>3. ASSUME NEW p \in Payments, NEW consistent \in BOOLEAN, Decide(p, consistent)
       PROVE  SpendInv'
  BY <1>3 DEF Decide, WayOn
<1>4. ASSUME NEW p \in Payments, Approve(p) \/ Deny(p) \/ Expire(p)
       PROVE  SpendInv'
  BY <1>4 DEF Approve, Deny, Expire, Answer
<1>5. ASSUME NEW p \in Payments, SignFails(p)
       PROVE  SpendInv'
  BY <1>5 DEF SignFails
<1>6. ASSUME NEW p \in Payments, Sign(p)
       PROVE  SpendInv'
  BY <1>6 DEF Sign
<1>7. ASSUME NEW p \in Payments, Land(p)
       PROVE  SpendInv'
  BY <1>7 DEF Land
<1>8. ASSUME NEW p \in Payments, SettleSucceeds(p)
       PROVE  SpendInv'
  BY <1>8 DEF SettleSucceeds
<1>9. ASSUME NEW p \in Payments, SettleRefused(p)
       PROVE  SpendInv'
  BY <1>9 DEF SettleRefused
<1>10. ASSUME NEW p \in Payments, SettleThrows(p)
       PROVE  SpendInv'
  BY <1>10 DEF SettleThrows
<1>11. ASSUME NEW p \in Payments, Observe(p)
       PROVE  SpendInv'
  <2> DEFINE s == Spend(p, now, Request[p], FALSE)
  <2>1. s.id = p /\ s.ts = now
    BY DEF Spend
  <2>2. /\ pc[p] = "settled" /\ up
        /\ spends' = spends \cup {s}
        /\ stamp' = [stamp EXCEPT ![p] = now]
        /\ pc' = [pc EXCEPT ![p] = "recording"]
        /\ UNCHANGED <<up, outcome>>
    BY <1>11 DEF Observe
  <2> HIDE DEF s
  <2>3. \A t \in spends : t.id # p
    BY <2>2
  <2>4. outcome[p] = "success"
    BY <2>2
  <2>5. \A t \in spends' : /\ pc'[t.id] \in Finished
                           /\ outcome'[t.id] = "success"
                           /\ t.ts = stamp'[t.id]
    BY <2>1, <2>2, <2>3, <2>4
  <2>6. \A t, u \in spends' : t.id = u.id => t = u
    BY <2>1, <2>2, <2>3
  <2> QED
    BY <2>2, <2>5, <2>6
<1>12. ASSUME NEW p \in Payments, Insert(p)
       PROVE  SpendInv'
  BY <1>12 DEF Insert
<1>13. ASSUME NEW p \in Payments, InsertFails(p)
       PROVE  SpendInv'
  BY <1>13 DEF InsertFails
<1>14. CASE DryRun \/ ResetBreaker
  BY <1>14 DEF DryRun, ResetBreaker
<1>15. CASE Tick
  BY <1>15 DEF Tick
<1>16. CASE Crash
  BY <1>16 DEF Crash
<1>17. CASE Restart
  <2> DEFINE Back == {e \in log : e.ts >= now - Lookback /\ e.settled /\ StillCounts(e.ts, now)}
             Rec(e) == Spend(e.id, e.ts, Request[e.id], TRUE)
  <2>1. spends' = {Rec(e) : e \in Back} /\ up' /\ UNCHANGED <<pc, stamp, outcome>>
    BY <1>17 DEF Restart, Rebuilt
  <2>2. \A e : Rec(e).id = e.id /\ Rec(e).ts = e.ts
    BY DEF Spend
  <2>3. \A e, f \in log : Rec(e).id = Rec(f).id => e = f
    BY <2>2
  <2>4. \A e \in Back : pc[e.id] = "done" /\ e.ts = stamp[e.id] /\ outcome[e.id] = "success"
    OBVIOUS
  <2> HIDE DEF Rec
  <2>5. \A s \in spends' : /\ pc'[s.id] \in Finished
                           /\ outcome'[s.id] = "success"
                           /\ s.ts = stamp'[s.id]
    BY <2>1, <2>2, <2>4
  <2>6. \A s, t \in spends' : s.id = t.id => s = t
    BY <2>1, <2>3
  <2> QED
    BY <2>1, <2>5, <2>6
<1>18. CASE RestartCold
  BY <1>18 DEF RestartCold
<1>19. CASE UNCHANGED vars
  BY <1>19 DEF vars
<1> QED
  BY <1>1, <1>2, <1>3, <1>4, <1>5, <1>6, <1>7, <1>8, <1>9, <1>10, <1>11, <1>12,
     <1>13, <1>14, <1>15, <1>16, <1>17, <1>18, <1>19
     DEF Next, Evaluation, Settlement, Recording

(***************************************************************************)
(* Every step keeps the spend windows complete.                             *)
(***************************************************************************)
LEMMA CountStep == GuardInv /\ TypeOK' /\ [Next]_vars => CountInv'
<1> SUFFICES ASSUME GuardInv, TypeOK', [Next]_vars
             PROVE  CountInv'
  OBVIOUS
<1> USE DayLenType DEF GuardInv, TypeOK, Goto, progress, memory, breaker, chain, CountInv, SpendInv,
        PaymentInv, Staged, OnChain, LogInv, Before, Finished, Running, Ended, Spend, StillCounts
<1>1. ASSUME NEW p \in Payments, Begin(p)
       PROVE  CountInv'
  BY <1>1 DEF Begin
<1>2. ASSUME NEW p \in Payments, NEW b \in Behaviours, Score(p, b)
       PROVE  CountInv'
  BY <1>2 DEF Score
<1>3. ASSUME NEW p \in Payments, NEW consistent \in BOOLEAN, Decide(p, consistent)
       PROVE  CountInv'
  BY <1>3 DEF Decide, WayOn
<1>4. ASSUME NEW p \in Payments, Approve(p) \/ Deny(p) \/ Expire(p)
       PROVE  CountInv'
  <2>1. UNCHANGED <<now, up, cold, spends, outcome>>
    BY <1>4 DEF Approve, Deny, Expire, Answer
  <2>2. pc[p] = "pending" /\ outcome[p] = "none"
    BY <1>4 DEF Approve, Deny, Expire, Answer
  <2>3. \A q \in Payments \ {p} : pc'[q] = pc[q] /\ stamp'[q] = stamp[q]
    BY <1>4 DEF Approve, Deny, Expire, Answer
  <2> QED
    BY <2>1, <2>2, <2>3
<1>5. ASSUME NEW p \in Payments, SignFails(p)
       PROVE  CountInv'
  BY <1>5 DEF SignFails
<1>6. ASSUME NEW p \in Payments, Sign(p)
       PROVE  CountInv'
  BY <1>6 DEF Sign
<1>7. ASSUME NEW p \in Payments, Land(p)
       PROVE  CountInv'
  BY <1>7 DEF Land
<1>8. ASSUME NEW p \in Payments, SettleSucceeds(p)
       PROVE  CountInv'
  BY <1>8 DEF SettleSucceeds
<1>9. ASSUME NEW p \in Payments, SettleRefused(p)
       PROVE  CountInv'
  BY <1>9 DEF SettleRefused
<1>10. ASSUME NEW p \in Payments, SettleThrows(p)
       PROVE  CountInv'
  BY <1>10 DEF SettleThrows
<1>11. ASSUME NEW p \in Payments, Observe(p)
       PROVE  CountInv'
  <2> DEFINE s == Spend(p, now, Request[p], FALSE)
  <2>1. s.id = p /\ s.ts = now /\ s.amount = Request[p].amount
    BY DEF Spend
  <2>2. /\ spends' = spends \cup {s}
        /\ stamp' = [stamp EXCEPT ![p] = now]
        /\ pc' = [pc EXCEPT ![p] = "recording"]
        /\ UNCHANGED <<now, up, cold, outcome>>
    BY <1>11 DEF Observe
  <2> HIDE DEF s
  <2>3. \A q \in Payments \ {p} : pc'[q] = pc[q] /\ stamp'[q] = stamp[q]
    BY <2>2
  <2>4. s \in spends' /\ s.id = p /\ s.ts = stamp'[p] /\ s.amount = Request[p].amount
    BY <2>1, <2>2
  <2> QED
    BY <2>2, <2>3, <2>4
<1>12. ASSUME NEW p \in Payments, Insert(p)
       PROVE  CountInv'
  BY <1>12 DEF Insert
<1>13. ASSUME NEW p \in Payments, InsertFails(p)
       PROVE  CountInv'
  BY <1>13 DEF InsertFails
<1>14. CASE DryRun \/ ResetBreaker
  <2>1. UNCHANGED <<now, up, cold, pc, stamp, outcome, spends>>
    BY <1>14 DEF DryRun, ResetBreaker
  <2> QED
    BY <2>1
<1>15. CASE Tick
  BY <1>15 DEF Tick
<1>16. CASE Crash
  BY <1>16 DEF Crash
<1>17. CASE Restart
  <2> DEFINE Back == {e \in log : e.ts >= now - Lookback /\ e.settled /\ StillCounts(e.ts, now)}
             Rec(e) == Spend(e.id, e.ts, Request[e.id], TRUE)
  <2>1. spends' = {Rec(e) : e \in Back} /\ ~up /\ UNCHANGED <<now, pc, stamp, outcome>>
    BY <1>17 DEF Restart, Rebuilt
  <2>2. \A e : /\ Rec(e).id = e.id /\ Rec(e).ts = e.ts
             /\ Rec(e).amount = Request[e.id].amount
    BY DEF Spend
  <2> HIDE DEF Rec
  <2>3. ASSUME NEW q \in Payments, pc[q] \in {"recording", "done"}, outcome[q] = "success",
               StillCounts(stamp[q], now)
        PROVE  \E s \in spends' : s.id = q /\ s.ts = stamp[q] /\ s.amount = Request[q].amount
    <3>1. pc[q] = "done"
      BY <2>1, <2>3
    <3>2. PICK e \in log : e.id = q
      BY <3>1
    <3>3. e.ts = stamp[q] /\ e.settled
      BY <2>3, <3>2
    <3>4. e \in Back
      BY <2>3, <3>2, <3>3, WithinLookback
    <3>5. Rec(e) \in spends'
      BY <2>1, <3>4
    <3>6. Rec(e).id = q /\ Rec(e).ts = stamp[q] /\ Rec(e).amount = Request[q].amount
      BY <2>2, <3>2, <3>3
    <3> QED
      BY <3>5, <3>6
  <2> QED
    BY <2>1, <2>3
<1>18. CASE RestartCold
  BY <1>18 DEF RestartCold
<1>19. CASE UNCHANGED vars
  BY <1>19 DEF vars
<1> QED
  BY <1>1, <1>2, <1>3, <1>4, <1>5, <1>6, <1>7, <1>8, <1>9, <1>10, <1>11, <1>12,
     <1>13, <1>14, <1>15, <1>16, <1>17, <1>18, <1>19
     DEF Next, Evaluation, Settlement, Recording

\* Before the first payment there is nothing to account for.
LEMMA GuardInit == Init /\ TypeOK => GuardInv
BY DEF Init, GuardInv, PaymentInv, Staged, Concluded, OnChain, LogInv, SpendInv, CountInv,
       Before, Finished, Running, Never

(***************************************************************************)
(* GuardInv holds in every state of every run.                              *)
(***************************************************************************)
THEOREM GuardSafe == Spec => []GuardInv
<1>1. GuardInv /\ TypeOK' /\ [Next]_vars => GuardInv'
  BY PaymentStep, LogStep, SpendStep, CountStep DEF GuardInv
<1> QED
  BY <1>1, GuardInit, TypeCorrect, PTL DEF Spec

(***************************************************************************)
(* execute() returns without a settlement only for what it never signed, or *)
(* for what the facilitator refused.                                        *)
(***************************************************************************)
Refused(p) ==
  pc[p] \in Finished =>
    /\ outcome[p] = "none" => auth[p] = "none"
    /\ outcome[p] = "failure" /\ ~Failover => auth[p] = "void"
RefusedInv == \A p \in Payments : Refused(p)

\* What any step but one of the payment itself, from settling on, leaves true of it.
LEMMA RefusedStays ==
  ASSUME GuardInv, [Next]_vars, NEW p \in Payments, Refused(p)
  PROVE  Refused(p)'
<1> USE DEF GuardInv, TypeOK, PaymentInv, Staged, Refused, Finished, Before, Running, Goto,
            progress, memory, breaker, chain
<1>1. ASSUME NEW q \in Payments, Begin(q) PROVE Refused(p)'
  BY <1>1 DEF Begin
<1>2. ASSUME NEW q \in Payments, NEW b \in Behaviours, Score(q, b) PROVE Refused(p)'
  BY <1>2 DEF Score
<1>3. ASSUME NEW q \in Payments, NEW consistent \in BOOLEAN, Decide(q, consistent)
      PROVE  Refused(p)'
  BY <1>3 DEF Decide, WayOn
<1>4. ASSUME NEW q \in Payments, Approve(q) \/ Deny(q) \/ Expire(q) PROVE Refused(p)'
  BY <1>4 DEF Approve, Deny, Expire, Answer
<1>5. ASSUME NEW q \in Payments, SignFails(q) \/ Sign(q) \/ Land(q) PROVE Refused(p)'
  BY <1>5 DEF SignFails, Sign, Land
<1>6. ASSUME NEW q \in Payments, SettleSucceeds(q) \/ SettleRefused(q) \/ SettleThrows(q)
      PROVE  Refused(p)'
  BY <1>6 DEF SettleSucceeds, SettleRefused, SettleThrows
<1>7. ASSUME NEW q \in Payments, Observe(q) \/ Insert(q) \/ InsertFails(q) PROVE Refused(p)'
  BY <1>7 DEF Observe, Insert, InsertFails
<1>8. CASE DryRun \/ ResetBreaker \/ Tick \/ Restart \/ RestartCold \/ UNCHANGED vars
  BY <1>8 DEF DryRun, ResetBreaker, Tick, Restart, RestartCold, vars
<1>9. CASE Crash
  BY <1>9 DEF Crash
<1> HIDE DEF GuardInv, TypeOK, PaymentInv, Refused
<1> QED
  BY <1>1, <1>2, <1>3, <1>4, <1>5, <1>6, <1>7, <1>8, <1>9
     DEF Next, Evaluation, Settlement, Recording

\* An execute() that concluded without an answer of the facilitator had signed nothing.
THEOREM NothingUnanswered == Spec => []RefusedInv
<1>1. Init => RefusedInv
  BY DEF Init, RefusedInv, Refused, Finished
<1>2. RefusedInv /\ GuardInv /\ [Next]_vars => RefusedInv'
  BY RefusedStays DEF RefusedInv
<1> QED
  BY <1>1, <1>2, GuardSafe, PTL DEF Spec

(***************************************************************************)
(* execute() hands out no signature that neither the policy nor a human     *)
(* cleared, for any number of payments, checks and restarts.                *)
(***************************************************************************)
THEOREM NothingUnauthorised == Spec => []Authorised
<1>1. GuardInv => Authorised
  BY DEF GuardInv, PaymentInv, OnChain, Cleared, Authorised
<1> QED
  BY <1>1, GuardSafe, PTL

(***************************************************************************)
(* observe() and hydrate() account for every payment that returned.         *)
(***************************************************************************)
THEOREM NothingUncounted == Spec => []AccountedFor
<1>1. GuardInv /\ RefusedInv => AccountedFor
  <2> SUFFICES ASSUME GuardInv, RefusedInv, up, ~cold, ~Failover,
                      NEW p \in Payments, pc[p] = "done", Today(p)
               PROVE  \E s \in spends : s.id = p /\ s.ts >= landed[p]
                                         /\ s.amount = Request[p].amount
    BY DEF AccountedFor
  <2>1. auth[p] = "used" /\ landed[p] \in Nat /\ landed[p] > now - DayLen
    BY DEF GuardInv, TypeOK, PaymentInv, OnChain, Today, HasMoved, Never
  <2>2. outcome[p] = "success" /\ landed[p] <= stamp[p]
    BY <2>1 DEF GuardInv, TypeOK, PaymentInv, Concluded, Finished, RefusedInv, Refused
  <2>3. StillCounts(stamp[p], now)
    BY <2>1, <2>2, DayLenType DEF GuardInv, TypeOK, StillCounts
  <2> QED
    BY <2>2, <2>3 DEF GuardInv, CountInv
<1> QED
  BY <1>1, GuardSafe, NothingUnanswered, PTL

(***************************************************************************)
(* Every spend record is money that moved, and none is counted twice.       *)
(***************************************************************************)
THEOREM NothingCountedTwice == Spec => []SpendsAreReal
<1>1. GuardInv => SpendsAreReal
  <2> SUFFICES ASSUME GuardInv, NEW s \in spends
               PROVE  /\ HasMoved(s.id) /\ landed[s.id] <= s.ts
                      /\ \A t \in spends : t.id = s.id => t = s
    BY DEF SpendsAreReal
  <2>1. s.id \in Payments /\ pc[s.id] \in Finished /\ outcome[s.id] = "success"
        /\ s.ts = stamp[s.id]
    BY DEF GuardInv, TypeOK, SpendInv
  <2>2. auth[s.id] = "used" /\ landed[s.id] <= stamp[s.id]
    BY <2>1 DEF GuardInv, PaymentInv, Concluded
  <2>3. HasMoved(s.id)
    BY <2>1, <2>2 DEF GuardInv, PaymentInv, OnChain, HasMoved
  <2> QED
    BY <2>1, <2>2, <2>3 DEF GuardInv, SpendInv
<1> QED
  BY <1>1, GuardSafe, PTL

(***************************************************************************)
(* The audit log tells what happened to the payments it names.              *)
(***************************************************************************)
THEOREM NothingMisreported == Spec => []LogIsTrue
<1>1. GuardInv /\ RefusedInv => LogIsTrue
  <2> SUFFICES ASSUME GuardInv, RefusedInv
               PROVE  LogIsTrue
    OBVIOUS
  <2>1. \A e, f \in log : e.id = f.id => e = f
    BY DEF GuardInv, LogInv
  <2>2. \A p \in Payments : pc[p] = "done" => EntryOf(p) # {}
    BY DEF GuardInv, LogInv, EntryOf
  <2>3. ASSUME NEW e \in log
        PROVE  /\ e.settled => HasMoved(e.id) /\ landed[e.id] <= e.ts
               /\ ~e.settled /\ ~Failover => auth[e.id] \in {"none", "void"}
               /\ e.verdict = "block" => auth[e.id] = "none"
    <3>1. e.id \in Payments
      BY LoggedPayments DEF GuardInv
    <3>2. pc[e.id] \in Finished /\ e.ts = stamp[e.id] /\ e.verdict = verdict[e.id]
          /\ (e.settled <=> outcome[e.id] = "success")
      BY DEF GuardInv, LogInv, Finished
    <3>3. outcome[e.id] \in {"none", "success", "failure"}
      BY <3>1 DEF GuardInv, TypeOK
    <3>4. Concluded(e.id) /\ OnChain(e.id) /\ Refused(e.id)
      BY <3>1 DEF GuardInv, PaymentInv, RefusedInv
    <3> QED
      BY <3>2, <3>3, <3>4 DEF Concluded, OnChain, Cleared, HasMoved, Refused
  <2> QED
    BY <2>1, <2>2, <2>3 DEF LogIsTrue
<1> QED
  BY <1>1, GuardSafe, NothingUnanswered, PTL

-----------------------------------------------------------------------------
(***************************************************************************)
(* The windows of the breaker: they are finite, and a breaker that is off   *)
(* sees nothing.                                                            *)
(***************************************************************************)
BreakerInv ==
  /\ IsFiniteSet(events) /\ IsFiniteSet(log)
  /\ TripNeverMissed

(***************************************************************************)
(* A window of a finite set of events is finite.                            *)
(***************************************************************************)
LEMMA InWindowFinite ==
  ASSUME NEW evs, IsFiniteSet(evs), NEW t
  PROVE  IsFiniteSet(InWindow(evs, t))
BY InWindowSubset, FS_Subset

\* hydrate(): what the breaker is told of an entry.
AsEvent(e) == [id |-> e.id, ts |-> e.ts, verdict |-> e.verdict, anomaly |-> e.anomaly]

(***************************************************************************)
(* The events a restart replays: finite, and none from the future.          *)
(***************************************************************************)
LEMMA ReplayedEvents ==
  ASSUME GuardInv, IsFiniteSet(log), NEW entries \in SUBSET log
  PROVE  /\ IsFiniteSet({AsEvent(e) : e \in entries})
         /\ \A e \in {AsEvent(x) : x \in entries} : e.ts \in 0..now
<1> DEFINE T == {AsEvent(e) : e \in entries}
           f == [e \in entries |-> AsEvent(e)]
<1>1. IsFiniteSet(entries)
  BY FS_Subset
<1>2. IsFiniteSet({f[e] : e \in entries})
  <2>1. f = [e \in entries |-> f[e]]
    OBVIOUS
  <2> HIDE DEF f
  <2> QED
    BY <1>1, <2>1, FiniteImage
<1>3. IsFiniteSet(T)
  <2>1. {f[e] : e \in entries} = T
    OBVIOUS
  <2> QED
    BY <1>2, <2>1
<1>4. ASSUME NEW e \in entries
      PROVE  AsEvent(e).ts \in 0..now
  <2>1. e.id \in Payments /\ e.ts = stamp[e.id] /\ e.ts \in Nat /\ now \in Nat
    BY LoggedPayments DEF GuardInv, LogInv, TypeOK
  <2>2. stamp[e.id] <= now
    BY <2>1 DEF GuardInv, PaymentInv, OnChain
  <2> QED
    BY <2>1, <2>2 DEF AsEvent
<1> QED
  BY <1>3, <1>4

(***************************************************************************)
(* Every step of the guard tests the windows it fills.                      *)
(***************************************************************************)
LEMMA BreakerStep ==
  ASSUME ThresholdsPositive, GuardInv, BreakerInv, [Next]_vars
  PROVE  BreakerInv'
<1> USE DEF BreakerInv, TripNeverMissed
<1>0. /\ IsFiniteSet({}) /\ InWindow({}, now) = {} /\ InWindow({}, now') = {}
      /\ now \in Nat /\ now # NotOpen
  BY FS_EmptySet DEF InWindow, GuardInv, TypeOK, NotOpen
<1>1. CASE events' = {} /\ log' = log
  BY <1>0, <1>1, NothingTripsNothing
<1>2. CASE UNCHANGED <<now, breaker, log>>
  BY <1>2 DEF breaker
<1>3. ASSUME NEW p \in Payments, NEW consistent \in BOOLEAN, Decide(p, consistent)
      PROVE  BreakerInv'
  <2>1. PICK v : RecordInBreaker(p, v)
    BY <1>3 DEF Decide
  <2>2. log' = log /\ now' = now
    BY <1>3 DEF Decide
  <2>3. CASE ~BreakerOn
    BY <2>1, <2>2, <2>3 DEF RecordInBreaker, breaker
  <2>4. CASE BreakerOn
    <3> DEFINE e == [id |-> p, ts |-> now, verdict |-> v, anomaly |-> found[p].anomaly]
    <3>1. /\ events' = InWindow(events \cup {e}, now)
          /\ openedAt' = IF openedAt = NotOpen /\ ShouldTrip(events') THEN now ELSE openedAt
      BY <2>1, <2>4 DEF RecordInBreaker
    <3>2. IsFiniteSet(events \cup {e})
      BY FS_AddElement
    <3>3. IsFiniteSet(events')
      <4> HIDE DEF e
      <4> QED
        BY <3>1, <3>2, InWindowFinite
    <3>4. InWindow(events', now') = events'
      <4> HIDE DEF e
      <4> QED
        BY <2>2, <3>1, PruneOnce
    <3> QED
      BY <1>0, <2>2, <3>1, <3>3, <3>4
  <2> QED
    BY <2>3, <2>4
<1>4. ASSUME NEW p \in Payments, Insert(p)
      PROVE  BreakerInv'
  <2>1. IsFiniteSet(log') /\ UNCHANGED <<now, breaker>>
    BY <1>4, FS_AddElement DEF Insert
  <2> QED
    BY <2>1 DEF breaker
<1>5. CASE Tick
  <2>1. InWindow(events, now + 1) \subseteq InWindow(events, now)
    BY <1>0, PruneMore DEF GuardInv, TypeOK
  <2>2. IsFiniteSet(InWindow(events, now))
    BY InWindowFinite
  <2>3. ShouldTrip(InWindow(events, now + 1)) => ShouldTrip(InWindow(events, now))
    BY <2>1, <2>2, TripMonotone
  <2> QED
    BY <1>5, <2>3 DEF Tick, breaker
<1>6. CASE Restart
  <2> DEFINE entries == {e \in log : e.ts >= now - Lookback}
             replayed == {AsEvent(e) : e \in entries}
  <2>1. Rebuilt(entries) /\ UNCHANGED <<now, log>>
    BY <1>6 DEF Restart
  <2>2. CASE ~BreakerOn
    BY <2>1, <2>2 DEF Rebuilt, breaker
  <2>3. CASE BreakerOn
    <3>1. events' = InWindow(replayed, now) /\ openedAt' \in ReplayedOpening(events')
      BY <2>1, <2>3 DEF Rebuilt, AsEvent
    <3>2. IsFiniteSet(replayed) /\ \A e \in replayed : e.ts \in 0..now
      BY ReplayedEvents
    <3> HIDE DEF replayed
    <3>3. IsFiniteSet(events') /\ \A e \in events' : e.ts \in 0..now
      BY <3>1, <3>2, InWindowFinite, InWindowSubset
    <3>4. InWindow(events', now') = events'
      BY <2>1, <3>1, PruneOnce
    <3>5. ShouldTrip(events') => openedAt' # NotOpen
      BY <1>0, <3>1, <3>3, ReplayTrips
    <3> QED
      BY <2>1, <3>3, <3>4, <3>5
  <2> QED
    BY <2>2, <2>3
<1> QED
  BY <1>1, <1>2, <1>3, <1>4, <1>5, <1>6
     DEF Next, vars, Evaluation, Settlement, Recording, Begin, AskIsOpen, Score, Approve, Deny,
         Expire, Answer, SignFails, Sign, Land, SettleSucceeds, SettleRefused, SettleThrows,
         Observe, InsertFails, DryRun, ResetBreaker, Crash, RestartCold

(***************************************************************************)
(* A window that reaches a threshold leaves no breaker closed, however the  *)
(* payments overlap, across restarts, if no threshold is zero.              *)
(***************************************************************************)
THEOREM NoTripIsMissed ==
  ASSUME ThresholdsPositive
  PROVE  Spec => []TripNeverMissed
<1>1. Init => BreakerInv
  <2>1. ASSUME Init
        PROVE  InWindow(events, now) = {}
    BY <2>1 DEF Init, InWindow
  <2> QED
    BY <2>1, NothingTripsNothing, FS_EmptySet DEF Init, BreakerInv, TripNeverMissed
<1>2. GuardInv /\ BreakerInv /\ [Next]_vars => BreakerInv'
  BY BreakerStep
<1>3. BreakerInv => TripNeverMissed
  BY DEF BreakerInv
<1> QED
  BY <1>1, <1>2, <1>3, GuardSafe, PTL DEF Spec

-----------------------------------------------------------------------------
(***************************************************************************)
(* The refinement.  Read through ConsentedTo, Money and Row, each step of   *)
(* the guard and its environment is a step of PaymentLedger or changes      *)
(* nothing there: a payment that is signed for was consented to, and one    *)
(* that has an entry has concluded.                                         *)
(***************************************************************************)

(***************************************************************************)
(* What the mapped variables depend on.                                     *)
(***************************************************************************)
LEMMA ConsentFrame == UNCHANGED <<verdict, human>> => ConsentedTo' = ConsentedTo
BY DEF ConsentedTo

\* What the ledger sees of an authorization depends on auth alone.
LEMMA MoneyFrame == UNCHANGED auth => Money' = Money
BY DEF Money

\* What it sees of the rows depends on the log alone.
LEMMA RowFrame == UNCHANGED log => Row' = Row
BY DEF Row, EntryOf

(***************************************************************************)
(* A payment whose execute() has not returned has no row.                   *)
(***************************************************************************)
LEMMA NoRowYet ==
  ASSUME GuardInv, NEW p \in Payments, pc[p] # "done"
  PROVE  Row[p] = "none"
BY DEF GuardInv, LogInv, Row, EntryOf

(***************************************************************************)
(* Money stands for the authorization, value by value.                      *)
(***************************************************************************)
MoneyOf(a) ==
  CASE a = "none" -> "none" [] a = "live" -> "signed" [] a = "used" -> "moved" [] a = "void" -> "void"

\* A change of one payment's authorization changes the money of that payment.
LEMMA MoneyStep ==
  ASSUME TypeOK, NEW p \in Payments, NEW a, auth' = [auth EXCEPT ![p] = a]
  PROVE  Money' = [Money EXCEPT ![p] = MoneyOf(a)]
<1>1. \A q \in Payments : auth'[q] = IF q = p THEN a ELSE auth[q]
  BY DEF TypeOK
<1>2. Money = [q \in Payments |-> MoneyOf(auth[q])] /\ Money' = [q \in Payments |-> MoneyOf(auth'[q])]
  BY DEF Money, MoneyOf
<1> HIDE DEF MoneyOf
<1> QED
  BY <1>1, <1>2

(***************************************************************************)
(* The verdict: consent, when it is "allow".                                *)
(***************************************************************************)
LEMMA DecideStep ==
  ASSUME GuardInv, NEW p \in Payments, NEW consistent \in BOOLEAN, Decide(p, consistent)
  PROVE  [Ledger!Next]_(Ledger!vars)
<1>1. pc[p] \in Before /\ verdict[p] = "none" /\ human[p] = "none"
  BY DEF GuardInv, PaymentInv, Staged, Before, Decide
<1>2. PICK v : verdict' = [verdict EXCEPT ![p] = v]
  BY DEF Decide
<1>3. UNCHANGED <<human, auth, log>>
  BY DEF Decide, chain
<1>4. p \notin ConsentedTo
  BY <1>1 DEF ConsentedTo
<1>5. ConsentedTo' = ConsentedTo \/ ConsentedTo' = ConsentedTo \cup {p}
  <2>1. \A q \in Payments : q # p => verdict'[q] = verdict[q] /\ human'[q] = human[q]
    BY <1>2, <1>3 DEF GuardInv, TypeOK
  <2>2. \A q \in Payments : q # p => (q \in ConsentedTo' <=> q \in ConsentedTo)
    BY <2>1 DEF ConsentedTo
  <2>3. ConsentedTo \subseteq Payments /\ ConsentedTo' \subseteq Payments
    BY DEF ConsentedTo
  <2> QED
    BY <2>2, <2>3, <1>4
<1>6. Row[p] = "none"
  BY <1>1, NoRowYet DEF Before
<1>7. Money' = Money /\ Row' = Row
  BY <1>3, MoneyFrame, RowFrame
<1> QED
  BY <1>5, <1>6, <1>7 DEF Ledger!Next, Ledger!Consent, Ledger!vars

(***************************************************************************)
(* The human's answer: consent, when it is a yes.                           *)
(***************************************************************************)
LEMMA AnswerStep ==
  ASSUME GuardInv, NEW p \in Payments, NEW what, NEW label, Answer(p, what, label)
  PROVE  [Ledger!Next]_(Ledger!vars)
<1>1. pc[p] = "pending" /\ human[p] = "none" /\ verdict[p] = "escalate"
  BY DEF GuardInv, PaymentInv, Staged, Before, Answer
<1>2. human' = [human EXCEPT ![p] = what] /\ UNCHANGED <<verdict, auth, log>>
  BY DEF Answer, chain
<1>3. p \notin ConsentedTo
  BY <1>1 DEF ConsentedTo
<1>4. ConsentedTo' = ConsentedTo \/ ConsentedTo' = ConsentedTo \cup {p}
  <2>1. \A q \in Payments : q # p => verdict'[q] = verdict[q] /\ human'[q] = human[q]
    BY <1>2 DEF GuardInv, TypeOK
  <2>2. \A q \in Payments : q # p => (q \in ConsentedTo' <=> q \in ConsentedTo)
    BY <2>1 DEF ConsentedTo
  <2>3. ConsentedTo \subseteq Payments /\ ConsentedTo' \subseteq Payments
    BY DEF ConsentedTo
  <2> QED
    BY <2>2, <2>3, <1>3
<1>5. Row[p] = "none"
  BY <1>1, NoRowYet
<1>6. Money' = Money /\ Row' = Row
  BY <1>2, MoneyFrame, RowFrame
<1> QED
  BY <1>4, <1>5, <1>6 DEF Ledger!Next, Ledger!Consent, Ledger!vars

(***************************************************************************)
(* Signing, and what the facilitators make of the signature.                *)
(***************************************************************************)
LEMMA SignStep ==
  ASSUME GuardInv, NEW p \in Payments, Sign(p)
  PROVE  [Ledger!Next]_(Ledger!vars)
<1>1. pc[p] = "approved" /\ auth[p] = "none" /\ p \in ConsentedTo
  BY DEF GuardInv, PaymentInv, Staged, Cleared, ConsentedTo, Sign
<1>2. auth' = [auth EXCEPT ![p] = "live"] /\ UNCHANGED <<verdict, human, log>>
  BY DEF Sign
<1>3. Money' = [Money EXCEPT ![p] = "signed"] /\ Money[p] = "none"
  BY <1>1, <1>2, MoneyStep DEF GuardInv, MoneyOf, Money
<1>4. Row[p] = "none" /\ Row' = Row /\ ConsentedTo' = ConsentedTo
  BY <1>1, <1>2, NoRowYet, RowFrame, ConsentFrame
<1> QED
  BY <1>1, <1>3, <1>4 DEF Ledger!Next, Ledger!Sign

\* The transfer on chain: the money of a signed payment moves, as a rule before its row.
LEMMA LandEffect ==
  ASSUME GuardInv, NEW p \in Payments, Land(p)
  PROVE  /\ Money' = [Money EXCEPT ![p] = "moved"] /\ Money[p] = "signed"
         /\ Row' = Row /\ ConsentedTo' = ConsentedTo
         /\ ~Failover /\ Refused(p) => Row[p] = "none"
<1>1. auth[p] = "live" /\ auth' = [auth EXCEPT ![p] = "used"]
      /\ UNCHANGED <<verdict, human, log>>
  BY DEF Land, progress
<1>2. Money' = [Money EXCEPT ![p] = "moved"] /\ Money[p] = "signed"
  BY <1>1, MoneyStep DEF GuardInv, MoneyOf, Money
<1>3. ~Failover /\ Refused(p) => Row[p] = "none"
  <2> SUFFICES ASSUME ~Failover, Refused(p), pc[p] = "done" PROVE FALSE
    BY NoRowYet
  <2> QED
    BY <1>1 DEF GuardInv, PaymentInv, Concluded, Finished, Refused, TypeOK
<1>4. Row' = Row /\ ConsentedTo' = ConsentedTo
  BY <1>1, RowFrame, ConsentFrame
<1> QED
  BY <1>2, <1>3, <1>4

\* A refusal by the facilitator voids an authorization that has not moved.
LEMMA RefusedStep ==
  ASSUME GuardInv, NEW p \in Payments, SettleRefused(p)
  PROVE  [Ledger!Next]_(Ledger!vars)
<1>1. pc[p] = "settling" /\ UNCHANGED <<verdict, human, log>>
  BY DEF SettleRefused, memory, breaker
<1>2. Row[p] = "none" /\ Row' = Row /\ ConsentedTo' = ConsentedTo
  BY <1>1, NoRowYet, RowFrame, ConsentFrame
<1>3. CASE UNCHANGED auth
  BY <1>2, <1>3, MoneyFrame DEF Ledger!vars
<1>4. CASE auth[p] = "live" /\ auth' = [auth EXCEPT ![p] = "void"]
  <2>1. Money' = [Money EXCEPT ![p] = "void"] /\ Money[p] = "signed"
    BY <1>4, MoneyStep DEF GuardInv, MoneyOf, Money
  <2> QED
    BY <2>1, <1>2 DEF Ledger!Next, Ledger!Void
<1> QED
  BY <1>3, <1>4 DEF SettleRefused

(***************************************************************************)
(* The audit entry: settled if the money moved, final if it did not.        *)
(***************************************************************************)
LEMMA InsertEffect ==
  ASSUME GuardInv, NEW p \in Payments, Insert(p)
  PROVE  /\ Row[p] = "none"
         /\ Row' = [Row EXCEPT ![p] = IF outcome[p] = "success" THEN "settled" ELSE "unsettled"]
         /\ Money' = Money /\ ConsentedTo' = ConsentedTo
         /\ outcome[p] = "success" => Money[p] = "moved"
         /\ outcome[p] # "success" /\ ~Failover /\ Refused(p) => Money[p] \in {"none", "void"}
<1> DEFINE e == [id |-> p, ts |-> stamp[p], verdict |-> verdict[p],
                 anomaly |-> found[p].anomaly, settled |-> outcome[p] = "success"]
           kind == IF outcome[p] = "success" THEN "settled" ELSE "unsettled"
<1>1. e.id = p /\ (e.settled <=> outcome[p] = "success")
  OBVIOUS
<1>2. pc[p] = "recording" /\ log' = log \cup {e} /\ UNCHANGED <<verdict, human, auth>>
  BY DEF Insert, chain
<1>3. Row[p] = "none" /\ EntryOf(p) = {}
  BY <1>2, NoRowYet DEF GuardInv, LogInv, EntryOf
<1> HIDE DEF e
<1>4. EntryOf(p)' = {e}
  BY <1>1, <1>2, <1>3 DEF EntryOf
<1>5. \A q \in Payments : q # p => EntryOf(q)' = EntryOf(q)
  BY <1>1, <1>2 DEF EntryOf
<1>6. Row' = [Row EXCEPT ![p] = kind]
  <2>1. Row'[p] = kind
    BY <1>1, <1>4 DEF Row
  <2>2. \A q \in Payments : q # p => Row'[q] = Row[q]
    BY <1>5 DEF Row
  <2>3. DOMAIN Row' = Payments /\ Row = [q \in Payments |-> Row[q]]
        /\ Row' = [q \in Payments |-> Row'[q]]
    BY DEF Row
  <2> HIDE DEF kind
  <2> QED
    BY <2>1, <2>2, <2>3
<1>7. Money' = Money /\ ConsentedTo' = ConsentedTo
  BY <1>2, MoneyFrame, ConsentFrame
<1>8. outcome[p] = "success" => Money[p] = "moved"
  BY <1>2 DEF GuardInv, PaymentInv, Concluded, Finished, Money
<1>9. outcome[p] # "success" /\ ~Failover /\ Refused(p) => Money[p] \in {"none", "void"}
  BY <1>2 DEF GuardInv, TypeOK, PaymentInv, Concluded, Finished, Refused, Money
<1> QED
  BY <1>3, <1>6, <1>7, <1>8, <1>9

(***************************************************************************)
(* A transfer after a final row, or a row that is not final, is the only    *)
(* step the ledger could object to.                                         *)
(***************************************************************************)
LEMMA LedgerStep ==
  ASSUME GuardInv, [Next]_vars
  PROVE  [Ledger!Next]_(Ledger!vars) \/ \E p \in Payments : Land(p) \/ Insert(p)
<1> DEFINE Silent == UNCHANGED <<verdict, human, auth, log>>
<1>0. Silent => [Ledger!Next]_(Ledger!vars)
  BY ConsentFrame, MoneyFrame, RowFrame DEF Ledger!vars
<1> HIDE DEF Silent
<1>1. ASSUME NEW p \in Payments,
             Begin(p) \/ (\E b \in Behaviours : Score(p, b)) \/ SignFails(p) \/ SettleSucceeds(p)
               \/ SettleThrows(p) \/ Observe(p) \/ InsertFails(p)
      PROVE  Silent
  BY <1>1 DEF Silent, Begin, Score, SignFails, SettleSucceeds, SettleThrows, Observe,
              InsertFails, chain
<1>2. ASSUME DryRun \/ ResetBreaker \/ Tick \/ Crash \/ Restart \/ RestartCold \/ UNCHANGED vars
      PROVE  Silent
  BY <1>2 DEF Silent, DryRun, ResetBreaker, Tick, Crash, Restart, RestartCold, vars, progress, chain
<1>3. ASSUME NEW p \in Payments, Approve(p) \/ Deny(p) \/ Expire(p)
      PROVE  [Ledger!Next]_(Ledger!vars)
  BY <1>3, AnswerStep DEF Approve, Deny, Expire
<1> QED
  BY <1>0, <1>1, <1>2, <1>3, DecideStep, SignStep, RefusedStep
     DEF Next, Evaluation, Settlement, Recording

\* Where a refused payment was never signed for, the transfer keeps the ledger.
LEMMA LandStep ==
  ASSUME GuardInv, NEW p \in Payments, Land(p), Refused(p)
  PROVE  [Ledger!Next]_(Ledger!vars)
BY LandEffect DEF Ledger!Next, Ledger!Move

\* And so does its row.
LEMMA InsertStep ==
  ASSUME GuardInv, NEW p \in Payments, Insert(p), Refused(p)
  PROVE  [Ledger!Next]_(Ledger!vars)
<1>1. CASE outcome[p] = "success"
  BY <1>1, InsertEffect DEF Ledger!Next, Ledger!WriteSettled
<1>2. CASE outcome[p] # "success"
  BY <1>2, InsertEffect DEF Ledger!Next, Ledger!WriteUnsettled
<1> QED
  BY <1>1, <1>2

(***************************************************************************)
(* The guard with its environment implements the ledger: consent before a   *)
(* signature, money moved at most once, one row per payment that never      *)
(* changes, settled rows true and, without failover, unsettled rows final.  *)
(***************************************************************************)
THEOREM GuardKeepsLedger == Spec => KeepsLedger
<1>1. Init => Ledger!Init
  <2> SUFFICES ASSUME Init PROVE Ledger!Init
    OBVIOUS
  <2>1. ConsentedTo = {}
    BY DEF Init, ConsentedTo
  <2>2. Money = [p \in Payments |-> "none"]
    BY DEF Init, Money
  <2>3. Row = [p \in Payments |-> "none"]
    BY DEF Init, Row, EntryOf
  <2> QED
    BY <2>1, <2>2, <2>3 DEF Ledger!Init
<1>2. GuardInv /\ RefusedInv /\ [Next]_vars => [Ledger!Next]_(Ledger!vars)
  BY LedgerStep, LandStep, InsertStep DEF RefusedInv
<1>3. Spec => []GuardInv /\ []RefusedInv
  BY GuardSafe, NothingUnanswered
<1> QED
  BY <1>1, <1>2, <1>3, PTL DEF Spec, KeepsLedger, Ledger!Spec

-----------------------------------------------------------------------------
(***************************************************************************)
(* How far a day cap can be overshot.  Every payment that is under way has  *)
(* one of MaxInFlight slots, which it keeps when it is done; when a payment *)
(* begins, all that is done was counted against the cap, so what is in its  *)
(* slot then fits the cap with it.  From there the content of a slot only   *)
(* shrinks.                                                                 *)
(***************************************************************************)

\* What a payment may yet add to the day, or has added.
Weighs(p) ==
  \/ pc[p] \in {"checked", "scored"} /\ ~found[p].critical
  \/ pc[p] \in {"pending", "approved", "settling"}
  \/ pc[p] \in {"settled", "recording", "done"} /\ Today(p)
Weighing == {p \in Payments : Weighs(p)}

Slotted(slot) ==
  /\ \A p \in InFlight \cup Weighing : slot[p] # 0
  /\ \A p, q \in InFlight : slot[p] = slot[q] => p = q
  /\ \A rule \in DayCaps, j \in 1..MaxInFlight :
       Moved({p \in Weighing : slot[p] = j}, rule.token) <= rule.maxAmount

SlotInv == ~cold /\ ~Failover => \E slot \in [Payments -> 0..MaxInFlight] : Slotted(slot)

\* Only payments of a positive amount get past validateRequest().
PositiveInv ==
  \A p \in Payments :
    \/ pc[p] \in {"checked", "scored", "pending", "approved", "settling", "settled"}
    \/ auth[p] # "none"
    => Request[p].amount > 0

\* A spend record has the amount and the token that were asked for.
RecordInv == \A s \in spends : s.amount = Request[s.id].amount /\ s.token = Request[s.id].token

(***************************************************************************)
(* A payment validateRequest() turned down is never signed for.             *)
(***************************************************************************)
LEMMA PositiveStep == GuardInv /\ PositiveInv /\ [Next]_vars => PositiveInv'
<1> SUFFICES ASSUME GuardInv, PositiveInv, [Next]_vars
             PROVE  PositiveInv'
  OBVIOUS
<1> USE DEF GuardInv, TypeOK, PaymentInv, Staged, PositiveInv, Before, Running, Ended, Goto,
            progress, memory, breaker, chain
<1>1. ASSUME NEW p \in Payments, Begin(p) PROVE PositiveInv'
  BY <1>1 DEF Begin, ValidRequest
<1>2. ASSUME NEW p \in Payments, NEW b \in Behaviours, Score(p, b) PROVE PositiveInv'
  BY <1>2 DEF Score
<1>3. ASSUME NEW p \in Payments, NEW consistent \in BOOLEAN, Decide(p, consistent)
      PROVE  PositiveInv'
  BY <1>3 DEF Decide, WayOn
<1>4. ASSUME NEW p \in Payments, Approve(p) \/ Deny(p) \/ Expire(p) PROVE PositiveInv'
  BY <1>4 DEF Approve, Deny, Expire, Answer
<1>5. ASSUME NEW p \in Payments, SignFails(p) \/ Sign(p) \/ Land(p) PROVE PositiveInv'
  BY <1>5 DEF SignFails, Sign, Land
<1>6. ASSUME NEW p \in Payments, SettleSucceeds(p) \/ SettleRefused(p) \/ SettleThrows(p)
      PROVE  PositiveInv'
  <2>1. /\ pc[p] = "settling" /\ Request[p].amount > 0
        /\ \A q \in Payments \ {p} : pc'[q] = pc[q] /\ auth'[q] = auth[q]
    BY <1>6 DEF SettleSucceeds, SettleRefused, SettleThrows
  <2> QED
    BY <2>1
<1>7. ASSUME NEW p \in Payments, Observe(p) \/ Insert(p) \/ InsertFails(p) PROVE PositiveInv'
  <2>1. /\ UNCHANGED auth /\ \A q \in Payments \ {p} : pc'[q] = pc[q]
        /\ pc'[p] \in {"recording", "done", "unwritten"}
    BY <1>7 DEF Observe, Insert, InsertFails
  <2> QED
    BY <2>1
<1>8. CASE DryRun \/ ResetBreaker \/ Tick \/ Restart \/ RestartCold \/ UNCHANGED vars
  BY <1>8 DEF DryRun, ResetBreaker, Tick, Restart, RestartCold, vars
<1>9. CASE Crash
  BY <1>9 DEF Crash
<1> HIDE DEF GuardInv, TypeOK, PaymentInv, PositiveInv
<1> QED
  BY <1>1, <1>2, <1>3, <1>4, <1>5, <1>6, <1>7, <1>8, <1>9
     DEF Next, Evaluation, Settlement, Recording

(***************************************************************************)
(* The spend records change only when a payment is observed, with its own   *)
(* record, when the process stops, and when a restart replays the log.      *)
(***************************************************************************)
LEMMA SpendsFrame ==
  ASSUME [Next]_vars
  PROVE  \/ \E p \in Payments : Observe(p)
         \/ Restart
         \/ spends' \in SUBSET spends
<1> USE DEF memory
<1>1. \A p \in Payments : Begin(p) \/ Evaluation(p) => UNCHANGED spends
  BY DEF Begin, Evaluation, Score, Decide
<1>2. \A p \in Payments : Approve(p) \/ Deny(p) \/ Expire(p) => UNCHANGED spends
  BY DEF Approve, Deny, Expire, Answer
<1>3. \A p \in Payments : Settlement(p) => Observe(p) \/ UNCHANGED spends
  BY DEF Settlement, SignFails, Sign, SettleSucceeds, SettleRefused, SettleThrows
<1>4. \A p \in Payments : Land(p) \/ Recording(p) => UNCHANGED spends
  BY DEF Land, Recording, Insert, InsertFails
<1>5. DryRun \/ ResetBreaker \/ Tick \/ RestartCold \/ UNCHANGED vars => UNCHANGED spends
  BY DEF DryRun, ResetBreaker, Tick, RestartCold, vars
<1>6. Crash => spends' = {}
  BY DEF Crash
<1> QED
  BY <1>1, <1>2, <1>3, <1>4, <1>5, <1>6 DEF Next

\* Observed or replayed, a spend record says what was asked for.
LEMMA RecordStep == RecordInv /\ [Next]_vars => RecordInv'
<1> SUFFICES ASSUME RecordInv, [Next]_vars PROVE RecordInv'
  OBVIOUS
<1>1. ASSUME NEW p \in Payments, Observe(p) PROVE RecordInv'
  <2> DEFINE s == Spend(p, now, Request[p], FALSE)
  <2>1. spends' = spends \cup {s}
    BY <1>1 DEF Observe
  <2>2. s.id = p /\ s.amount = Request[p].amount /\ s.token = Request[p].token
    BY DEF Spend
  <2> HIDE DEF s
  <2> QED
    BY <2>1, <2>2 DEF RecordInv
<1>2. CASE Restart
  <2> DEFINE Rec(e) == Spend(e.id, e.ts, Request[e.id], TRUE)
  <2>1. \A s \in spends' : \E e \in log : s = Rec(e)
    BY <1>2 DEF Restart, Rebuilt
  <2>2. \A e : Rec(e).id = e.id /\ Rec(e).amount = Request[e.id].amount /\ Rec(e).token = Request[e.id].token
    BY DEF Spend
  <2> HIDE DEF Rec
  <2>3. ASSUME NEW s \in spends'
        PROVE  s.amount = Request[s.id].amount /\ s.token = Request[s.id].token
    <3>1. PICK e \in log : s = Rec(e)
      BY <2>1
    <3>2. Rec(e).id = e.id /\ Rec(e).amount = Request[e.id].amount /\ Rec(e).token = Request[e.id].token
      BY <2>2
    <3> QED
      BY <3>1, <3>2
  <2> QED
    BY <2>3 DEF RecordInv
<1>3. CASE spends' \in SUBSET spends
  BY <1>3 DEF RecordInv
<1> QED
  BY <1>1, <1>2, <1>3, SpendsFrame

\* Nothing more is in flight, and nothing more weighs on the day.
Lighter == InFlight' \in SUBSET InFlight /\ Weighing' \in SUBSET Weighing

(***************************************************************************)
(* Only the first step of a payment puts more weight on the day, or one     *)
(* more payment in flight.                                                  *)
(***************************************************************************)
LEMMA OnlyBeginAdds ==
  ASSUME GuardInv, RefusedInv, ~Failover, TypeOK', [Next]_vars
  PROVE  Lighter \/ \E p \in Payments : Begin(p)
<1> USE DEF GuardInv, TypeOK, PaymentInv, Staged, Concluded, OnChain, Goto, progress, memory, breaker,
            chain, InFlight, Weighing, Weighs, Today, HasMoved, Before, Finished, Running, Ended, Never,
            Lighter
<1>2. ASSUME NEW p \in Payments, NEW b \in Behaviours, Score(p, b) PROVE Lighter
  BY <1>2 DEF Score, Finding
<1>3. ASSUME NEW p \in Payments, NEW consistent \in BOOLEAN, Decide(p, consistent) PROVE Lighter
  <2> DEFINE v == IF pc[p] = "refused" THEN "block"
                  ELSE AggregateVerdict(found[p].critical \/ ~consistent, found[p].trigger,
                                        found[p].escalate)
  <2>1. /\ pc[p] \in {"refused", "scored"} /\ pc' = [pc EXCEPT ![p] = WayOn(v)]
        /\ \A q \in Payments : q # p => found'[q] = found[q]
        /\ UNCHANGED <<now, landed>>
    BY <1>3 DEF Decide
  <2>2. pc[p] = "refused" \/ found[p].critical => WayOn(v) = "recording"
    BY <2>1 DEF WayOn, AggregateVerdict
  <2>3. WayOn(v) \in {"approved", "pending", "recording"}
    BY DEF WayOn
  <2> HIDE DEF v
  <2>4. landed[p] = Never
    BY <2>1
  <2>5. \A q \in Payments : q # p => pc'[q] = pc[q] /\ (Weighs(q)' => Weighs(q))
    BY <2>1
  <2>6. Weighs(p)' => Weighs(p)
    BY <2>1, <2>2, <2>3, <2>4
  <2>7. pc[p] \in Running
    BY <2>1
  <2> HIDE DEF Weighs
  <2> QED
    BY <2>5, <2>6, <2>7
<1>4. ASSUME NEW p \in Payments, Approve(p) \/ Deny(p) \/ Expire(p) PROVE Lighter
  BY <1>4 DEF Approve, Deny, Expire, Answer
<1>5. ASSUME NEW p \in Payments, SignFails(p) \/ Sign(p) PROVE Lighter
  BY <1>5 DEF SignFails, Sign
<1>6. ASSUME NEW p \in Payments, Land(p) PROVE Lighter
  <2>1. pc[p] \notin {"settled", "recording", "done"}
    BY <1>6 DEF Land, RefusedInv, Refused
  <2> QED
    BY <1>6, <2>1 DEF Land
<1>7. ASSUME NEW p \in Payments, SettleSucceeds(p) \/ SettleRefused(p) \/ SettleThrows(p)
      PROVE  Lighter
  BY <1>7 DEF SettleSucceeds, SettleRefused, SettleThrows
<1>8. ASSUME NEW p \in Payments, Observe(p) \/ Insert(p) \/ InsertFails(p) PROVE Lighter
  <2>1. /\ pc[p] \in {"settled", "recording"} /\ UNCHANGED <<now, found, landed>>
        /\ \/ pc[p] = "settled" /\ pc' = [pc EXCEPT ![p] = "recording"]
           \/ pc[p] = "recording" /\ pc' = [pc EXCEPT ![p] = "done"]
           \/ pc[p] = "recording" /\ pc' = [pc EXCEPT ![p] = "unwritten"]
    BY <1>8 DEF Observe, Insert, InsertFails
  <2> QED
    BY <2>1
<1>9. CASE DryRun \/ ResetBreaker \/ Restart \/ RestartCold \/ UNCHANGED vars
  BY <1>9 DEF DryRun, ResetBreaker, Restart, RestartCold, vars
<1>10. CASE Tick
  BY <1>10, DayLenType DEF Tick
<1>11. CASE Crash
  BY <1>11 DEF Crash
<1> HIDE DEF GuardInv, TypeOK, PaymentInv, Lighter
<1> QED
  BY <1>2, <1>3, <1>4, <1>5, <1>6, <1>7, <1>8, <1>9, <1>10, <1>11
     DEF Next, Evaluation, Settlement, Recording

\* The records Moved adds up.
Moving(ps, token) == {Spend(p, 0, Request[p], FALSE) : p \in {q \in ps : Request[q].token = token}}

\* What moved is the total of these.
LEMMA MovedIsTotal == \A ps, token : Moved(ps, token) = Total(Moving(ps, token))
BY DEF Moved, Moving

\* Each says what the payment asked for.
LEMMA MovingRecord ==
  ASSUME NEW ps, NEW token, NEW x \in Moving(ps, token)
  PROVE  /\ x.id \in ps /\ Request[x.id].token = token /\ x.amount = Request[x.id].amount
         /\ x = Spend(x.id, 0, Request[x.id], FALSE)
<1>1. PICK p \in ps : Request[p].token = token /\ x = Spend(p, 0, Request[p], FALSE)
  BY DEF Moving
<1>2. x.id = p /\ x.amount = Request[p].amount
  BY <1>1 DEF Spend
<1> QED
  BY <1>1, <1>2

\* They are finitely many records of amounts.
LEMMA MovingAmounts ==
  ASSUME NEW ps \in SUBSET Payments, NEW token
  PROVE  /\ IsFiniteSet(Moving(ps, token)) /\ Amounts(Moving(ps, token))
         /\ Moved(ps, token) \in Int
         /\ (\A p \in ps : Request[p].amount >= 0) => \A x \in Moving(ps, token) : x.amount >= 0
<1> DEFINE S == Moving(ps, token)
           f == [x \in S |-> x.id]
<1>1. ASSUME NEW x \in S
      PROVE  /\ x.id \in ps /\ x.amount = Request[x.id].amount
             /\ x = Spend(x.id, 0, Request[x.id], FALSE)
  <2>1. PICK p \in ps : Request[p].token = token /\ x = Spend(p, 0, Request[p], FALSE)
    BY DEF Moving
  <2>2. x.id = p /\ x.amount = Request[p].amount
    BY <2>1 DEF Spend
  <2> QED
    BY <2>1, <2>2
<1> HIDE DEF S
<1>2. f \in Injection(S, Payments)
  BY <1>1 DEF Injection, IsInjective
<1> HIDE DEF f
<1>3. IsFiniteSet(S)
  BY <1>2, FS_Injection, GuardAssumption
<1>4. Amounts(S)
  BY <1>1, GuardAssumption DEF Amounts
<1>5. Total(S) \in Int
  BY <1>3, <1>4, TotalType
<1> QED
  BY <1>1, <1>3, <1>4, <1>5, MovedIsTotal DEF S

\* Of fewer payments, none of a negative amount, no more moved.
LEMMA MovedLess ==
  ASSUME NEW ps \in SUBSET Payments, NEW fewer \in SUBSET ps, NEW token,
         \A p \in ps : Request[p].amount >= 0
  PROVE  Moved(fewer, token) <= Moved(ps, token)
<1> DEFINE U == Moving(ps, token)
           S == Moving(fewer, token)
           f == [x \in S |-> x]
<1>1. IsFiniteSet(U) /\ Amounts(U) /\ \A u \in U : u.amount >= 0
  BY MovingAmounts
<1>2. IsFiniteSet(S) /\ Amounts(S)
  <2>1. fewer \in SUBSET Payments
    OBVIOUS
  <2> QED
    BY <2>1, MovingAmounts
<1>3. \A x \in S : x \in U
  BY DEF Moving
<1>4. /\ \A x \in S : f[x] \in U /\ f[x].amount = x.amount
      /\ \A x, y \in S : f[x] = f[y] => x = y
  BY <1>3
<1> HIDE DEF S, U, f
<1>5. Total(S) <= Total(U)
  BY <1>1, <1>2, <1>4, TotalAtMost
<1> QED
  BY <1>5, MovedIsTotal DEF S, U

\* One payment more adds its amount where its token is.
LEMMA MovedAdds ==
  ASSUME NEW ps \in SUBSET Payments, NEW p \in Payments, p \notin ps, NEW token
  PROVE  Moved(ps \cup {p}, token)
           = Moved(ps, token) + (IF Request[p].token = token THEN Request[p].amount ELSE 0)
<1> DEFINE S == Moving(ps, token)
           r == Spend(p, 0, Request[p], FALSE)
           more == ps \cup {p}
<1>1. IsFiniteSet(S) /\ Amounts(S) /\ Moved(ps, token) \in Int
  BY MovingAmounts
<1>2. CASE Request[p].token = token
  <2>1. Moving(more, token) = S \cup {r}
    BY <1>2 DEF Moving
  <2>2. r.id = p /\ r.amount = Request[p].amount
    BY DEF Spend
  <2>3. r \notin S
    <3>1. \A x \in S : x.id \in ps
      BY MovingRecord
    <3> QED
      BY <2>2, <3>1
  <2>4. r.amount \in Int
    BY <2>2, GuardAssumption
  <2> HIDE DEF S, r, more
  <2>5. Total(S \cup {r}) = Total(S) + r.amount
    BY <1>1, <2>3, <2>4, TotalAdds
  <2>6. Moved(more, token) = Total(S) + r.amount
    BY <2>1, <2>5, MovedIsTotal
  <2> QED
    BY <1>2, <2>2, <2>6, MovedIsTotal DEF S, more
<1>3. CASE Request[p].token # token
  <2>1. Moving(more, token) = S
    BY <1>3 DEF Moving
  <2>2. Moved(more, token) = Moved(ps, token)
    BY <2>1, MovedIsTotal
  <2> QED
    BY <1>1, <1>3, <2>2
<1> QED
  BY <1>2, <1>3

DoneToday == {p \in Payments : pc[p] = "done" /\ Today(p)}

(***************************************************************************)
(* What is done and moved today is in the evaluator's window of the day.    *)
(***************************************************************************)
LEMMA DayCovers ==
  ASSUME GuardInv, RefusedInv, RecordInv, PositiveInv, up, ~cold, ~Failover, NEW token
  PROVE  /\ Moved(DoneToday, token) <= WindowedSpend(spends, "day", token, now)
         /\ WindowedSpend(spends, "day", token, now) \in Int
<1> DEFINE U == {s \in InSpendWindow(spends, "day", now) : s.token = token}
           S == Moving(DoneToday, token)
           Of(p) == CHOOSE s \in spends : s.id = p /\ s.ts = stamp[p] /\ s.amount = Request[p].amount
           f == [x \in S |-> Of(x.id)]
           ids == [s \in U |-> s.id]
<1>1. \A s \in spends : s.id \in Payments /\ s.amount = Request[s.id].amount
  BY DEF GuardInv, TypeOK, RecordInv
<1>2. U \in SUBSET spends
  BY DEF InSpendWindow
<1>3. IsFiniteSet(U)
  <2>1. ids \in Injection(U, Payments)
    <3>1. \A s, t \in spends : s.id = t.id => s = t
      BY DEF GuardInv, SpendInv
    <3> HIDE DEF U
    <3> QED
      BY <1>1, <1>2, <3>1 DEF Injection, IsInjective
  <2> HIDE DEF ids, U
  <2> QED
    BY <2>1, FS_Injection, GuardAssumption
<1>4. Amounts(U) /\ \A u \in U : u.amount >= 0
  <2>1. ASSUME NEW s \in spends PROVE s.amount \in Int /\ s.amount >= 0
    <3>1. s.id \in Payments /\ pc[s.id] \in Finished /\ outcome[s.id] = "success"
      BY <1>1 DEF GuardInv, SpendInv
    <3>2. auth[s.id] = "used"
      BY <3>1 DEF GuardInv, PaymentInv, Concluded
    <3> QED
      BY <1>1, <3>1, <3>2, GuardAssumption DEF PositiveInv
  <2> HIDE DEF U
  <2> QED
    BY <1>2, <2>1 DEF Amounts
<1>5. ASSUME NEW p \in DoneToday, Request[p].token = token
      PROVE  Of(p) \in U /\ Of(p).id = p /\ Of(p).amount = Request[p].amount
  <2>1. /\ p \in Payments /\ pc[p] = "done"
        /\ auth[p] = "used" /\ landed[p] \in Nat /\ landed[p] > now - DayLen
    BY DEF DoneToday, GuardInv, TypeOK, PaymentInv, OnChain, Today, HasMoved, Never
  <2>2. outcome[p] = "success" /\ landed[p] <= stamp[p] /\ stamp[p] \in Nat /\ now \in Nat
    BY <2>1 DEF GuardInv, TypeOK, PaymentInv, Concluded, Finished, RefusedInv, Refused
  <2>3. StillCounts(stamp[p], now)
    BY <2>1, <2>2, DayLenType DEF StillCounts
  <2>4. \E s \in spends : s.id = p /\ s.ts = stamp[p] /\ s.amount = Request[p].amount
    BY <2>1, <2>2, <2>3 DEF GuardInv, CountInv
  <2>5. Of(p) \in spends /\ Of(p).id = p /\ Of(p).ts = stamp[p] /\ Of(p).amount = Request[p].amount
    BY <2>4
  <2> HIDE DEF Of
  <2>6. Of(p).token = token
    BY <1>5, <2>5 DEF RecordInv
  <2>7. Of(p) \in InSpendWindow(spends, "day", now)
    BY <2>3, <2>5 DEF InSpendWindow, StillCounts
  <2> QED
    BY <2>5, <2>6, <2>7
<1>6. DoneToday \in SUBSET Payments
  BY DEF DoneToday
<1>7. WindowedSpend(spends, "day", token, now) = Total(U)
  BY DEF WindowedSpend
<1>8. ASSUME NEW x \in S
      PROVE  /\ x.id \in DoneToday /\ Request[x.id].token = token
             /\ x.amount = Request[x.id].amount /\ x = Spend(x.id, 0, Request[x.id], FALSE)
  <2>1. PICK p \in DoneToday : Request[p].token = token /\ x = Spend(p, 0, Request[p], FALSE)
    BY DEF Moving
  <2>2. x.id = p /\ x.amount = Request[p].amount
    BY <2>1 DEF Spend
  <2> QED
    BY <2>1, <2>2
<1>9. IsFiniteSet(S) /\ Amounts(S)
  BY <1>6, MovingAmounts
<1> HIDE DEF S, U, Of
<1>10. /\ \A x \in S : f[x] \in U /\ f[x].id = x.id /\ f[x].amount = x.amount
       /\ \A x, y \in S : f[x] = f[y] => x = y
  <2>1. \A x \in S : f[x] \in U /\ f[x].id = x.id /\ f[x].amount = x.amount
    BY <1>5, <1>8
  <2>2. ASSUME NEW x \in S, NEW y \in S, f[x] = f[y] PROVE x = y
    <3>1. x.id = y.id
      BY <2>1, <2>2
    <3> QED
      BY <1>8, <3>1
  <2> QED
    BY <2>1, <2>2
<1> HIDE DEF f
<1>11. Total(S) <= Total(U)
  BY <1>3, <1>4, <1>9, <1>10, TotalAtMost
<1>12. Total(U) \in Int
  BY <1>3, <1>4, TotalType
<1> QED
  BY <1>7, <1>11, <1>12, MovedIsTotal DEF S

(***************************************************************************)
(* A guard that started cold stays what it is.                              *)
(***************************************************************************)
LEMMA ColdStays == [Next]_vars => cold' = cold \/ cold'
<1> SUFFICES ASSUME [Next]_vars PROVE cold' = cold \/ cold'
  OBVIOUS
<1>1. \A p \in Payments : Begin(p) \/ Evaluation(p) => UNCHANGED cold
  BY DEF Begin, Evaluation, Score, Decide
<1>2. \A p \in Payments : Approve(p) \/ Deny(p) \/ Expire(p) => UNCHANGED cold
  BY DEF Approve, Deny, Expire, Answer
<1>3. \A p \in Payments : Settlement(p) => UNCHANGED cold
  BY DEF Settlement, SignFails, Sign, SettleSucceeds, SettleRefused, SettleThrows, Observe
<1>4. \A p \in Payments : Land(p) \/ Recording(p) => UNCHANGED cold
  BY DEF Land, Recording, Insert, InsertFails
<1>5. DryRun \/ ResetBreaker \/ Tick \/ Crash \/ Restart \/ UNCHANGED vars => UNCHANGED cold
  BY DEF DryRun, ResetBreaker, Tick, Crash, Restart, vars
<1>6. RestartCold => cold'
  BY DEF RestartCold
<1> QED
  BY <1>1, <1>2, <1>3, <1>4, <1>5, <1>6 DEF Next

\* What weighs on a day has a positive amount.
LEMMA WeighsPositive ==
  ASSUME GuardInv, PositiveInv
  PROVE  Weighing \in SUBSET Payments /\ \A p \in Weighing : Request[p].amount >= 0
<1>1. Weighing \in SUBSET Payments
  BY DEF Weighing
<1>2. ASSUME NEW p \in Weighing PROVE Request[p].amount >= 0
  <2>1. p \in Payments /\ Weighs(p) /\ OnChain(p)
    BY <1>2 DEF Weighing, GuardInv, PaymentInv
  <2>2. Request[p].amount > 0
    BY <2>1 DEF Weighs, Today, HasMoved, OnChain, PositiveInv
  <2> QED
    BY <2>1, <2>2, GuardAssumption
<1> QED
  BY <1>1, <1>2

(***************************************************************************)
(* While fewer than MaxInFlight payments are under way, one slot is free.   *)
(***************************************************************************)
LEMMA FreeSlot ==
  ASSUME NEW slot \in [Payments -> 0..MaxInFlight],
         \A q \in InFlight : slot[q] # 0,
         Cardinality(InFlight) < MaxInFlight
  PROVE  \E j \in 1..MaxInFlight : \A q \in InFlight : slot[q] # j
<1> SUFFICES ASSUME \A j \in 1..MaxInFlight : \E q \in InFlight : slot[q] = j
             PROVE  FALSE
  OBVIOUS
<1> DEFINE f == [q \in InFlight |-> slot[q]]
           slots == 1..MaxInFlight
<1>1. InFlight \subseteq Payments /\ IsFiniteSet(InFlight)
  <2>1. InFlight \subseteq Payments
    BY DEF InFlight
  <2> QED
    BY <2>1, FS_Subset, GuardAssumption
<1>2. MaxInFlight \in Nat /\ IsFiniteSet(slots) /\ Cardinality(slots) = MaxInFlight
  <2>1. MaxInFlight \in Nat
    BY GuardAssumption
  <2> QED
    BY <2>1, FS_Interval
<1>3. f \in Surjection(InFlight, slots)
  <2>1. \A q \in InFlight : slot[q] \in slots
    BY <1>1, <1>2
  <2> QED
    BY <2>1 DEF Surjection
<1> HIDE DEF f, slots
<1>4. Cardinality(slots) <= Cardinality(InFlight)
  BY <1>1, <1>3, FS_Surjection
<1>5. Cardinality(InFlight) \in Nat
  BY <1>1, FS_CardinalityType
<1> QED
  BY <1>2, <1>4, <1>5

\* A cap on the day is a well-formed rule.
LEMMA DayCapFields ==
  ASSUME NEW rule \in DayCaps
  PROVE  /\ rule \in Policy /\ WellFormed(rule) /\ rule.type = "spend-cap" /\ rule.window = "day"
         /\ rule.maxAmount \in Nat
BY PolicyAssumption DEF DayCaps, WellFormed

(***************************************************************************)
(* A payment that begins in a free slot fits the cap with what is there.    *)
(***************************************************************************)
LEMMA FitsItsSlot ==
  ASSUME GuardInv, RefusedInv, RecordInv, PositiveInv, ~cold, ~Failover,
         NEW p \in Payments, Begin(p), Weighs(p)', NEW rule \in DayCaps,
         NEW others \in SUBSET DoneToday, p \notin others, Moved(others, rule.token) <= rule.maxAmount
  PROVE  Moved(others \cup {p}, rule.token) <= rule.maxAmount
<1> DEFINE ctx == [req |-> Request[p], now |-> now, spends |-> spends, seen |-> seen]
<1>1. up /\ pc'[p] \in {"checked", "refused"} /\ (pc'[p] = "checked" => found'[p].critical = EvaluatePolicy(ctx).critical)
  BY DEF Begin, Goto, GuardInv, TypeOK, Finding
<1>2. ~EvaluateRules(Policy, ctx).critical
  BY <1>1 DEF Weighs, EvaluatePolicy
<1>3. others \in SUBSET Payments /\ DoneToday \in SUBSET Payments
  BY DEF DoneToday
<1>4. Moved(others \cup {p}, rule.token)
        = Moved(others, rule.token) + (IF Request[p].token = rule.token THEN Request[p].amount ELSE 0)
  BY <1>3, MovedAdds
<1>5. Moved(others, rule.token) \in Int /\ Moved(DoneToday, rule.token) \in Int
  BY <1>3, MovingAmounts
<1>6. CASE Request[p].token = rule.token
  <2>1. WindowedSpend(ctx.spends, rule.window, rule.token, ctx.now) + ctx.req.amount <= rule.maxAmount
    <3>1. /\ ctx.req.amount \in Int /\ rule.token = ctx.req.token
          /\ WindowedSpend(ctx.spends, rule.window, rule.token, ctx.now) \in Int
      <4>1. WindowedSpend(spends, "day", rule.token, now) \in Int
        BY <1>1, DayCovers
      <4> QED
        BY <1>6, <4>1, DayCapFields, GuardAssumption
    <3> HIDE DEF ctx
    <3> QED
      BY <1>2, <3>1, DayCapFields, CapChecked
  <2>2. Moved(DoneToday, rule.token) <= WindowedSpend(spends, "day", rule.token, now)
        /\ WindowedSpend(spends, "day", rule.token, now) \in Int
    BY <1>1, DayCovers
  <2>3. \A q \in DoneToday : Request[q].amount >= 0
    <3>1. \A q \in DoneToday : q \in Weighing
      BY DEF DoneToday, Weighing, Weighs
    <3> QED
      BY <3>1, WeighsPositive
  <2>4. Moved(others, rule.token) <= Moved(DoneToday, rule.token)
    BY <1>3, <2>3, MovedLess
  <2>5. Request[p].amount \in Int /\ rule.maxAmount \in Nat /\ rule.window = "day"
    BY GuardAssumption, DayCapFields
  <2> QED
    BY <1>4, <1>5, <1>6, <2>1, <2>2, <2>4, <2>5
<1>7. CASE Request[p].token # rule.token
  BY <1>4, <1>5, <1>7
<1> QED
  BY <1>6, <1>7

(***************************************************************************)
(* Every step finds the payments their slots.                               *)
(***************************************************************************)
LEMMA SlotStep ==
  ASSUME GuardInv, RefusedInv, RecordInv, PositiveInv, SlotInv, TypeOK', [Next]_vars
  PROVE  SlotInv'
<1> SUFFICES ASSUME ~cold', ~Failover
             PROVE  \E slot \in [Payments -> 0..MaxInFlight] : Slotted(slot)'
  BY DEF SlotInv
<1>1. ~cold
  BY ColdStays
<1>2. PICK slot \in [Payments -> 0..MaxInFlight] : Slotted(slot)
  BY <1>1 DEF SlotInv
<1> DEFINE In(j) == {p \in Weighing : slot[p] = j}
<1>3. \A j : In(j) \in SUBSET Payments /\ \A q \in In(j) : Request[q].amount >= 0
  BY WeighsPositive
<1>4. /\ \A p \in InFlight \cup Weighing : slot[p] # 0
      /\ \A p, q \in InFlight : slot[p] = slot[q] => p = q
      /\ \A rule \in DayCaps, j \in 1..MaxInFlight : Moved(In(j), rule.token) <= rule.maxAmount
  BY <1>2 DEF Slotted
<1>5. CASE Lighter
  <2>1. InFlight' \subseteq InFlight /\ Weighing' \subseteq Weighing
    BY <1>5 DEF Lighter
  <2>2. ASSUME NEW rule \in DayCaps, NEW j \in 1..MaxInFlight
        PROVE  Moved({p \in Weighing' : slot[p] = j}, rule.token) <= rule.maxAmount
    <3> DEFINE less == {p \in Weighing' : slot[p] = j}
    <3>1. less \in SUBSET In(j)
      BY <2>1
    <3>2. Moved(In(j), rule.token) <= rule.maxAmount
      BY <1>4
    <3> HIDE DEF less, In
    <3>3. Moved(less, rule.token) <= Moved(In(j), rule.token)
      BY <1>3, <3>1, MovedLess
    <3>4. Moved(less, rule.token) \in Int /\ Moved(In(j), rule.token) \in Int /\ rule.maxAmount \in Int
      <4>1. less \in SUBSET Payments
        BY <1>3, <3>1
      <4> QED
        BY <1>3, <4>1, MovingAmounts, DayCapFields
    <3>5. Moved(less, rule.token) <= rule.maxAmount
      BY <3>2, <3>3, <3>4
    <3> QED
      BY <3>5 DEF less
  <2>3. Slotted(slot)'
    BY <1>4, <2>1, <2>2 DEF Slotted, DayCaps, Moved
  <2> QED
    BY <2>3
<1>6. ASSUME NEW p \in Payments, Begin(p)
      PROVE  \E some \in [Payments -> 0..MaxInFlight] : Slotted(some)'
  <2>1. /\ pc[p] = "idle" /\ Cardinality(InFlight) < MaxInFlight
        /\ pc' = [pc EXCEPT ![p] = "checked"] \/ pc' = [pc EXCEPT ![p] = "refused"]
        /\ \A q \in Payments : q # p => found'[q] = found[q]
        /\ UNCHANGED <<now, landed>>
    BY <1>6 DEF Begin, Goto, chain, GuardInv, TypeOK
  <2>2. PICK j \in 1..MaxInFlight : \A q \in InFlight : slot[q] # j
    <3> HIDE DEF In
    <3> QED
      BY <1>4, <2>1, FreeSlot
  <2> DEFINE more == [slot EXCEPT ![p] = j]
  <2>3. more \in [Payments -> 0..MaxInFlight] /\ more[p] = j /\ \A q \in Payments : q # p => more[q] = slot[q]
    BY GuardAssumption
  <2>4. InFlight' = InFlight \cup {p} /\ p \notin InFlight
    BY <2>1 DEF InFlight, Running, GuardInv, TypeOK
  <2>5. Weighing' \subseteq Weighing \cup {p} /\ (Weighs(p)' => Weighing' = Weighing \cup {p}) /\ p \notin Weighing /\ (~Weighs(p)' => Weighing' = Weighing)
    BY <2>1 DEF Weighing, Weighs, Today, HasMoved, GuardInv, TypeOK
  <2> HIDE DEF more
  <2>6. /\ \A q \in InFlight' \cup Weighing' : more[q] # 0
        /\ \A q, r \in InFlight' : more[q] = more[r] => q = r
    <3>1. InFlight \subseteq Payments /\ Weighing \subseteq Payments
      BY DEF InFlight, Weighing
    <3>2. j # 0
      BY GuardAssumption
    <3> HIDE DEF In
    <3> QED
      BY <1>4, <2>2, <2>3, <2>4, <2>5, <3>1, <3>2
  <2>7. ASSUME NEW rule \in DayCaps, NEW i \in 1..MaxInFlight
        PROVE  Moved({q \in Weighing' : more[q] = i}, rule.token) <= rule.maxAmount
    <3>1. CASE i = j /\ Weighs(p)'
      <4>1. {q \in Weighing' : more[q] = i} = In(j) \cup {p}
        <5>1. Weighing \subseteq Payments
          BY DEF Weighing
        <5> QED
          BY <2>3, <2>5, <3>1, <5>1
      <4>2. In(j) \in SUBSET DoneToday /\ p \notin In(j)
        BY <2>2, <2>5 DEF Weighing, Weighs, InFlight, Running, DoneToday
      <4>3. Moved(In(j), rule.token) <= rule.maxAmount
        BY <1>4
      <4> HIDE DEF In
      <4>4. Moved(In(j) \cup {p}, rule.token) <= rule.maxAmount
        BY <1>1, <1>6, <3>1, <4>2, <4>3, FitsItsSlot
      <4> QED
        BY <4>1, <4>4
    <3>2. CASE ~(i = j /\ Weighs(p)')
      <4> DEFINE less == {q \in Weighing' : more[q] = i}
      <4>1. less \in SUBSET In(i)
        <5>1. Weighing \subseteq Payments
          BY DEF Weighing
        <5> QED
          BY <2>3, <2>5, <3>2, <5>1
      <4>2. Moved(In(i), rule.token) <= rule.maxAmount
        BY <1>4
      <4> HIDE DEF less, In
      <4>3. Moved(less, rule.token) <= Moved(In(i), rule.token)
        BY <1>3, <4>1, MovedLess
      <4>4. Moved(less, rule.token) \in Int /\ Moved(In(i), rule.token) \in Int /\ rule.maxAmount \in Int
        <5>1. less \in SUBSET Payments
          BY <1>3, <4>1
        <5> QED
          BY <1>3, <5>1, MovingAmounts, DayCapFields
      <4>5. Moved(less, rule.token) <= rule.maxAmount
        BY <4>2, <4>3, <4>4
      <4> QED
        BY <4>5 DEF less
    <3> QED
      BY <3>1, <3>2
  <2>8. Slotted(more)'
    BY <2>6, <2>7 DEF Slotted, DayCaps, Moved
  <2> QED
    BY <2>3, <2>8
<1> QED
  BY <1>5, <1>6, OnlyBeginAdds, <1>2

\* Nothing is in a slot at the start.
LEMMA SlotInit == Init => SlotInv
<1> SUFFICES ASSUME Init
             PROVE  \E slot \in [Payments -> 0..MaxInFlight] : Slotted(slot)
  BY DEF SlotInv
<1> DEFINE slot == [p \in Payments |-> 0]
<1>1. slot \in [Payments -> 0..MaxInFlight]
  BY GuardAssumption
<1>2. InFlight = {} /\ Weighing = {}
  BY DEF Init, InFlight, Running, Weighing, Weighs
<1>3. \A token : Moved({}, token) = 0
  <2> TAKE token
  <2>1. Moving({}, token) = {}
    BY DEF Moving
  <2> QED
    BY <2>1, MovedIsTotal, TotalOfNone
<1>4. ASSUME NEW rule \in DayCaps, NEW j \in 1..MaxInFlight
      PROVE  Moved({p \in Weighing : slot[p] = j}, rule.token) <= rule.maxAmount
  <2>1. {p \in Weighing : slot[p] = j} = {}
    BY <1>2
  <2>2. Moved({p \in Weighing : slot[p] = j}, rule.token) = 0
    BY <1>3, <2>1
  <2> QED
    BY <2>2, DayCapFields
<1>5. Slotted(slot)
  BY <1>2, <1>4 DEF Slotted
<1> QED
  BY <1>1, <1>5

(***************************************************************************)
(* With its slots, what weighs on a day is at most MaxInFlight caps.        *)
(***************************************************************************)
LEMMA SlotsBound ==
  ASSUME GuardInv, RefusedInv, PositiveInv, SlotInv
  PROVE  OvershootBound
<1> SUFFICES ASSUME ~cold, ~Failover, NEW rule \in DayCaps
             PROVE  Moved(Counted, rule.token) <= MaxInFlight * rule.maxAmount
  BY DEF OvershootBound
<1> DEFINE token == rule.token
           S == Moving(Weighing, token)
<1>1. PICK slot \in [Payments -> 0..MaxInFlight] : Slotted(slot)
  BY DEF SlotInv
<1> DEFINE part == [x \in S |-> slot[x.id]]
<1>2. Counted \in SUBSET Weighing /\ Weighing \in SUBSET Payments /\ Counted \in SUBSET Payments
  BY DEF Counted, Weighing, Weighs
<1>3. MaxInFlight \in Nat /\ rule.maxAmount \in Int
  BY GuardAssumption, DayCapFields
<1>4. IsFiniteSet(S) /\ Amounts(S)
  BY <1>2, MovingAmounts
<1>5. ASSUME NEW x \in S PROVE part[x] \in 1..MaxInFlight
  <2>1. PICK p \in Weighing : x = Spend(p, 0, Request[p], FALSE)
    BY DEF Moving
  <2>2. x.id = p
    BY <2>1 DEF Spend
  <2>3. slot[p] # 0 /\ slot[p] \in 0..MaxInFlight
    BY <1>1, <1>2 DEF Slotted
  <2> QED
    BY <1>3, <2>2, <2>3
<1>6. ASSUME NEW j \in 1..MaxInFlight
      PROVE  Total({x \in S : part[x] = j}) <= rule.maxAmount
  <2> DEFINE ps == {p \in Weighing : slot[p] = j}
  <2>1. \A p : Spend(p, 0, Request[p], FALSE).id = p
    BY DEF Spend
  <2>2. {x \in S : part[x] = j} = Moving(ps, token)
    BY <2>1 DEF Moving
  <2>3. Moved(ps, token) <= rule.maxAmount
    BY <1>1 DEF Slotted
  <2> HIDE DEF S, part, ps, token
  <2>4. Moved(ps, token) = Total(Moving(ps, token))
    BY MovedIsTotal
  <2> QED
    BY <2>2, <2>3, <2>4
<1> HIDE DEF S, part
<1>7. Total(S) <= MaxInFlight * rule.maxAmount
  BY <1>3, <1>4, <1>5, <1>6, TotalOfParts
<1>8. Moved(Weighing, token) <= MaxInFlight * rule.maxAmount
  BY <1>7, MovedIsTotal DEF S
<1>9. Moved(Counted, token) <= Moved(Weighing, token)
  BY <1>2, WeighsPositive, MovedLess
<1>10. Moved(Counted, token) \in Int /\ Moved(Weighing, token) \in Int /\ MaxInFlight * rule.maxAmount \in Int
  <2>1. Moved(Counted, token) \in Int /\ Moved(Weighing, token) \in Int
    BY <1>2, MovingAmounts
  <2>2. \A n \in Nat, m \in Int : n * m \in Int
    OBVIOUS
  <2> QED
    BY <1>3, <2>1, <2>2
<1> QED
  BY <1>8, <1>9, <1>10

(***************************************************************************)
(* Checking before and counting after settlement overshoots a day cap by at *)
(* most the payments under way: what moved within a day stays within        *)
(* MaxInFlight caps, whatever the policy, the requests and the restarts.    *)
(***************************************************************************)
THEOREM OvershootIsBounded == Spec => []OvershootBound
<1>1. Init => PositiveInv /\ RecordInv
  BY DEF Init, PositiveInv, RecordInv
<1>2. Spec => [](TypeOK /\ GuardInv /\ RefusedInv)
  BY TypeCorrect, GuardSafe, NothingUnanswered, PTL
<1>3. TypeOK' /\ GuardInv /\ RefusedInv /\ PositiveInv /\ RecordInv /\ SlotInv /\ [Next]_vars
        => PositiveInv' /\ RecordInv' /\ SlotInv'
  BY PositiveStep, RecordStep, SlotStep
<1>4. GuardInv /\ RefusedInv /\ PositiveInv /\ SlotInv => OvershootBound
  BY SlotsBound
<1> QED
  BY <1>1, <1>2, <1>3, <1>4, SlotInit, PTL DEF Spec

-----------------------------------------------------------------------------
(***************************************************************************)
(* One payee per host.  What settled within the lookback is known to the    *)
(* guard: its recipient is seen and its host bound.  With one payment at a  *)
(* time, no binding is made between the check of a payment and its own.     *)
(***************************************************************************)
Bound(p) == <<Request[p].url.host, Request[p].recipient>>
Settled(p) == pc[p] \in {"recording", "done"} /\ outcome[p] = "success"

Known(p) ==
  Settled(p) /\ stamp[p] >= now - Lookback =>
    /\ Request[p].recipient \in seen
    /\ Request[p].url # NoUrl => Bound(p) \in bindings
KnownInv == up /\ ~cold => \A p \in Payments : Known(p)

Screened(p) == \/ pc[p] = "scored" /\ ~found[p].critical
               \/ pc[p] \in {"pending", "approved", "settling", "settled"}

\* Two payments settled for one host, the second within the lookback of the first.
SameHost(p, q) ==
  /\ Settled(p) /\ Settled(q)
  /\ Request[p].url # NoUrl /\ Request[q].url # NoUrl
  /\ Request[p].url.host = Request[q].url.host
  /\ stamp[p] <= stamp[q] /\ stamp[q] - stamp[p] <= Lookback

OneByOne   == \A p, q \in InFlight : p = q
OneAddress == \A b, c \in bindings : b[1] = c[1] => b[2] = c[2]
PayeeInv ==
  MaxInFlight = 1 /\ ~cold =>
    /\ OneByOne
    /\ OneAddress
    /\ \A p \in Payments : Screened(p) => ~Redirected(Request[p])
    /\ \A p, q \in Payments : SameHost(p, q) => Request[p].recipient = Request[q].recipient

(***************************************************************************)
(* observe() and bind() make a settled payment known, a restart reads it    *)
(* back.                                                                    *)
(***************************************************************************)
LEMMA KnownStep == GuardInv /\ TypeOK' /\ KnownInv /\ [Next]_vars => KnownInv'
<1> SUFFICES ASSUME GuardInv, TypeOK', KnownInv, [Next]_vars
             PROVE  KnownInv'
  OBVIOUS
<1> USE GuardAssumption DEF GuardInv, TypeOK, Goto, progress, memory, breaker, chain, KnownInv, Known,
        Settled, PaymentInv, Staged, LogInv, Before, Running, Ended
<1>1. ASSUME NEW p \in Payments, Begin(p) PROVE KnownInv'
  BY <1>1 DEF Begin
<1>2. ASSUME NEW p \in Payments, NEW b \in Behaviours, Score(p, b) PROVE KnownInv'
  BY <1>2 DEF Score
<1>3. ASSUME NEW p \in Payments, NEW consistent \in BOOLEAN, Decide(p, consistent)
      PROVE  KnownInv'
  BY <1>3 DEF Decide, WayOn
<1>4. ASSUME NEW p \in Payments, Approve(p) \/ Deny(p) \/ Expire(p) PROVE KnownInv'
  <2>1. /\ UNCHANGED <<now, up, cold, seen, bindings, outcome>>
        /\ pc[p] = "pending" /\ outcome[p] = "none"
        /\ \A q \in Payments \ {p} : pc'[q] = pc[q] /\ stamp'[q] = stamp[q]
    BY <1>4 DEF Approve, Deny, Expire, Answer
  <2> QED
    BY <2>1
<1>5. ASSUME NEW p \in Payments, SignFails(p) \/ Sign(p) \/ Land(p) PROVE KnownInv'
  <2>1. /\ UNCHANGED <<now, up, cold, seen, bindings, outcome, stamp>>
        /\ \A q \in Payments : pc'[q] = pc[q] \/ pc'[q] \in {"threw", "settling"}
    BY <1>5 DEF SignFails, Sign, Land
  <2> QED
    BY <2>1
<1>6. ASSUME NEW p \in Payments, SettleSucceeds(p) \/ SettleRefused(p) \/ SettleThrows(p)
      PROVE  KnownInv'
  <2>1. /\ UNCHANGED <<now, up, cold, seen, bindings>>
        /\ \A q \in Payments \ {p} : /\ pc'[q] = pc[q] /\ stamp'[q] = stamp[q]
                                     /\ outcome'[q] = outcome[q]
    BY <1>6 DEF SettleSucceeds, SettleRefused, SettleThrows
  <2>2. pc'[p] \in {"settled", "threw"} \/ outcome'[p] = "failure"
    BY <1>6 DEF SettleSucceeds, SettleRefused, SettleThrows
  <2> QED
    BY <2>1, <2>2
<1>7. ASSUME NEW p \in Payments, Observe(p) PROVE KnownInv'
  BY <1>7 DEF Observe, Bound
<1>8. ASSUME NEW p \in Payments, Insert(p) \/ InsertFails(p) PROVE KnownInv'
  <2>1. /\ UNCHANGED <<now, up, cold, seen, bindings, outcome, stamp>> /\ pc[p] = "recording"
        /\ \A q \in Payments \ {p} : pc'[q] = pc[q]
    BY <1>8 DEF Insert, InsertFails
  <2> QED
    BY <2>1
<1>9. CASE DryRun \/ ResetBreaker \/ RestartCold \/ UNCHANGED vars
  BY <1>9 DEF DryRun, ResetBreaker, RestartCold, vars
<1>10. CASE Tick
  BY <1>10 DEF Tick
<1>11. CASE Crash
  BY <1>11 DEF Crash
<1>12. CASE Restart
  <2> DEFINE back == {e \in log : e.ts >= now - Lookback}
             old  == {e \in back : e.settled}
  <2>1. /\ ~up /\ UNCHANGED <<now, pc, stamp, outcome>>
        /\ seen' = {Request[e.id].recipient : e \in old}
        /\ bindings' = {<<Request[e.id].url.host, Request[e.id].recipient>> :
                          e \in {x \in old : Request[x.id].url # NoUrl}}
    BY <1>12 DEF Restart, Rebuilt
  <2>2. ASSUME NEW q \in Payments, Settled(q), stamp[q] >= now - Lookback
        PROVE  Request[q].recipient \in seen' /\ (Request[q].url # NoUrl => Bound(q) \in bindings')
    <3>1. PICK e \in log : e.id = q
      BY <2>1, <2>2
    <3>2. e \in old
      BY <2>2, <3>1
    <3> HIDE DEF old, GuardInv, TypeOK, KnownInv, LogInv
    <3>3. Request[q].recipient \in seen'
      BY <2>1, <3>1, <3>2
    <3>4. Request[q].url # NoUrl => Bound(q) \in bindings'
      <4> SUFFICES ASSUME Request[q].url # NoUrl PROVE Bound(q) \in bindings'
        OBVIOUS
      <4>1. e \in {x \in old : Request[x.id].url # NoUrl}
        BY <3>1, <3>2
      <4> QED
        BY <2>1, <3>1, <4>1 DEF Bound
    <3> QED
      BY <3>3, <3>4
  <2> QED
    BY <2>1, <2>2 DEF Bound
<1> HIDE DEF GuardInv, TypeOK, KnownInv
<1> QED
  BY <1>1, <1>2, <1>3, <1>4, <1>5, <1>6, <1>7, <1>8, <1>9, <1>10, <1>11, <1>12
     DEF Next, Evaluation, Settlement, Recording

(***************************************************************************)
(* With one payment at a time, every step keeps one address per host.       *)
(***************************************************************************)
LEMMA PayeeStep == GuardInv /\ TypeOK' /\ KnownInv /\ PayeeInv /\ [Next]_vars => PayeeInv'
<1> SUFFICES ASSUME GuardInv, TypeOK', KnownInv, PayeeInv, [Next]_vars, MaxInFlight = 1, ~cold'
             PROVE  PayeeInv'
  BY DEF PayeeInv
<1>0. /\ ~cold /\ OneByOne /\ OneAddress
      /\ \A p \in Payments : Screened(p) => ~Redirected(Request[p])
      /\ \A p, q \in Payments : SameHost(p, q) => Request[p].recipient = Request[q].recipient
  BY ColdStays DEF PayeeInv
<1> DEFINE Frame == InFlight' \subseteq InFlight /\ bindings' = bindings
           Screen == \A p \in Payments : Screened(p)' => Screened(p) \/ ~Redirected(Request[p])
           Pairs == \A p, q \in Payments : SameHost(p, q)' => SameHost(p, q)
<1>14. ASSUME Frame, Screen, Pairs PROVE PayeeInv'
  <2>1. OneByOne' /\ OneAddress'
    BY <1>0, <1>14 DEF OneByOne, OneAddress
  <2>2. \A p \in Payments : Redirected(Request[p])' <=> Redirected(Request[p])
    BY <1>14 DEF Redirected
  <2> QED
    BY <1>0, <1>14, <2>1, <2>2 DEF PayeeInv
<1> USE DEF GuardInv, TypeOK, Goto, progress, memory, breaker, chain, InFlight, Screened, SameHost, Settled,
        PaymentInv, Staged, Before, Running, Ended
<1>1. ASSUME NEW p \in Payments, Begin(p) PROVE PayeeInv'
  <2>1. /\ pc[p] = "idle" /\ Cardinality(InFlight) < 1
        /\ pc' = [pc EXCEPT ![p] = "checked"] \/ pc' = [pc EXCEPT ![p] = "refused"]
        /\ \A q \in Payments : q # p => found'[q] = found[q]
        /\ UNCHANGED <<bindings, stamp, outcome>>
    BY <1>1 DEF Begin
  <2>2. InFlight = {}
    <3>1. IsFiniteSet(InFlight)
      <4>1. InFlight \subseteq Payments
        OBVIOUS
      <4> HIDE DEF InFlight
      <4> QED
        BY <4>1, FS_Subset, GuardAssumption
    <3> HIDE DEF InFlight
    <3>2. Cardinality(InFlight) = 0
      BY <2>1, <3>1, FS_CardinalityType
    <3> QED
      BY <3>1, <3>2, FS_EmptySet
  <2>3. \A q \in InFlight' : q = p
    BY <2>1, <2>2
  <2>4. OneByOne' /\ OneAddress'
    BY <1>0, <2>1, <2>3 DEF OneByOne, OneAddress
  <2>5. Screen /\ Pairs
    BY <2>1
  <2>6. \A q \in Payments : Redirected(Request[q])' <=> Redirected(Request[q])
    BY <2>1 DEF Redirected
  <2> QED
    BY <1>0, <2>4, <2>5, <2>6 DEF PayeeInv
<1>2. ASSUME NEW p \in Payments, NEW b \in Behaviours, Score(p, b) PROVE PayeeInv'
  <2>1. Frame /\ Pairs
    BY <1>2 DEF Score
  <2>2. Screen
    BY <1>2, RedirectedType DEF Score, Finding
  <2> QED
    BY <1>14, <2>1, <2>2
<1>3. ASSUME NEW p \in Payments, NEW consistent \in BOOLEAN, Decide(p, consistent)
      PROVE  PayeeInv'
  <2> DEFINE v == IF pc[p] = "refused" THEN "block"
                  ELSE AggregateVerdict(found[p].critical \/ ~consistent, found[p].trigger,
                                        found[p].escalate)
  <2>1. /\ pc[p] \in {"refused", "scored"} /\ pc' = [pc EXCEPT ![p] = WayOn(v)]
        /\ \A q \in Payments : q # p => found'[q] = found[q] /\ stamp'[q] = stamp[q]
        /\ UNCHANGED <<outcome, bindings>>
    BY <1>3 DEF Decide
  <2>2. pc[p] = "refused" \/ found[p].critical => WayOn(v) = "recording"
    BY <2>1 DEF WayOn, AggregateVerdict
  <2>3. WayOn(v) \in {"approved", "pending", "recording"}
    BY DEF WayOn
  <2> HIDE DEF v
  <2>4. Frame /\ Pairs
    BY <2>1, <2>3
  <2>5. Screen
    BY <2>1, <2>2, <2>3
  <2> QED
    BY <1>14, <2>4, <2>5
<1>4. ASSUME NEW p \in Payments, Approve(p) \/ Deny(p) \/ Expire(p) PROVE PayeeInv'
  <2>1. /\ pc[p] = "pending" /\ outcome[p] = "none"
        /\ pc' = [pc EXCEPT ![p] = "approved"] \/ pc' = [pc EXCEPT ![p] = "recording"]
        /\ \A q \in Payments : q # p => stamp'[q] = stamp[q]
        /\ UNCHANGED <<found, outcome, bindings>>
    BY <1>4 DEF Approve, Deny, Expire, Answer
  <2>2. Frame /\ Screen /\ Pairs
    BY <2>1
  <2> QED
    BY <1>14, <2>2
<1>5. ASSUME NEW p \in Payments, SignFails(p) \/ Sign(p) \/ Land(p) PROVE PayeeInv'
  <2>1. Frame /\ Screen /\ Pairs
    BY <1>5 DEF SignFails, Sign, Land
  <2> QED
    BY <1>14, <2>1
<1>6. ASSUME NEW p \in Payments, SettleSucceeds(p) \/ SettleRefused(p) \/ SettleThrows(p)
      PROVE  PayeeInv'
  <2>1. Frame /\ Screen /\ Pairs
    BY <1>6 DEF SettleSucceeds, SettleRefused, SettleThrows
  <2> QED
    BY <1>14, <2>1
<1>7. ASSUME NEW p \in Payments, Observe(p) PROVE PayeeInv'
  <2>1. /\ pc[p] = "settled" /\ outcome[p] = "success" /\ up
        /\ pc' = [pc EXCEPT ![p] = "recording"] /\ stamp' = [stamp EXCEPT ![p] = now]
        /\ bindings' = IF Request[p].url = NoUrl THEN bindings ELSE bindings \cup {Bound(p)}
        /\ UNCHANGED <<found, outcome, now>>
    BY <1>7 DEF Observe, Bound
  <2>2. ~Redirected(Request[p])
    BY <1>0, <2>1
  <2>3. Request[p].url # NoUrl =>
          \A b \in bindings : b[1] = Request[p].url.host => b[2] = Request[p].recipient
    BY <1>0, <2>2 DEF OneAddress, Redirected
  <2>4. OneAddress'
    BY <1>0, <2>1, <2>3 DEF OneAddress, Bound
  <2>5. InFlight' = InFlight /\ p \in InFlight
    BY <2>1
  <2>6. OneByOne'
    BY <1>0, <2>5 DEF OneByOne
  <2>7. \A q \in Payments : ~Screened(q)'
    <3>1. \A q \in Payments : q # p => q \notin InFlight
      BY <1>0, <2>5 DEF OneByOne
    <3> QED
      BY <2>1, <3>1
  <2>8. ASSUME NEW q \in Payments, q # p, Settled(q), now - stamp[q] <= Lookback,
               Request[p].url # NoUrl, Request[q].url # NoUrl, Request[q].url.host = Request[p].url.host
        PROVE  Request[q].recipient = Request[p].recipient
    <3>1. Bound(q) \in bindings
      BY <1>0, <2>1, <2>8, GuardAssumption DEF KnownInv, Known
    <3> QED
      BY <2>3, <2>8, <3>1 DEF Bound
  <2>9. ASSUME NEW q \in Payments, NEW r \in Payments, SameHost(q, r)'
        PROVE  Request[q].recipient = Request[r].recipient
    <3>1. CASE q # p /\ r # p
      BY <1>0, <2>1, <2>9, <3>1
    <3>2. CASE q = p /\ r = p
      BY <3>2
    <3>3. CASE q # p /\ r = p
      BY <2>1, <2>8, <2>9, <3>3
    <3>4. CASE q = p /\ r # p
      <4>1. stamp[r] >= now /\ stamp[r] <= now
        BY <2>1, <2>9, <3>4 DEF OnChain
      <4>2. now - stamp[r] <= Lookback
        BY <4>1, GuardAssumption
      <4> QED
        BY <2>1, <2>8, <2>9, <3>4, <4>2
    <3> QED
      BY <3>1, <3>2, <3>3, <3>4
  <2> QED
    BY <2>4, <2>6, <2>7, <2>9 DEF PayeeInv
<1>8. ASSUME NEW p \in Payments, Insert(p) \/ InsertFails(p) PROVE PayeeInv'
  <2>1. /\ pc[p] = "recording"
        /\ pc' = [pc EXCEPT ![p] = "done"] \/ pc' = [pc EXCEPT ![p] = "unwritten"]
        /\ UNCHANGED <<found, stamp, outcome, bindings>>
    BY <1>8 DEF Insert, InsertFails
  <2>2. Frame /\ Screen /\ Pairs
    BY <2>1
  <2> QED
    BY <1>14, <2>2
<1>9. CASE DryRun \/ ResetBreaker \/ RestartCold \/ Tick \/ UNCHANGED vars
  <2>1. Frame /\ Screen /\ Pairs
    BY <1>9 DEF DryRun, ResetBreaker, RestartCold, Tick, vars
  <2> QED
    BY <1>14, <2>1
<1>11. CASE Crash
  <2>1. /\ InFlight' = {} /\ bindings' = {} /\ Pairs
        /\ \A p \in Payments : ~Screened(p)'
    BY <1>11 DEF Crash
  <2> QED
    BY <1>0, <2>1 DEF PayeeInv, OneByOne, OneAddress
<1>12. CASE Restart
  <2> DEFINE old == {e \in log : e.ts >= now - Lookback /\ e.settled}
  <2>1. /\ ~up /\ UNCHANGED <<now, pc, stamp, outcome, found>>
        /\ \A b \in bindings' : \E e \in old : Request[e.id].url # NoUrl /\ b = Bound(e.id)
    BY <1>12 DEF Restart, Rebuilt, Bound
  <2>2. InFlight' = {} /\ (\A p \in Payments : ~Screened(p)') /\ Pairs
    BY <2>1
  <2>3. ASSUME NEW e \in old PROVE e.id \in Payments /\ Settled(e.id) /\ stamp[e.id] = e.ts /\ e.ts \in Nat /\ e.ts <= now /\ now - e.ts <= Lookback
    BY LoggedPayments, GuardAssumption DEF LogInv, OnChain
  <2>4. ASSUME NEW e \in old, NEW f \in old, Request[e.id].url # NoUrl, Request[f.id].url # NoUrl,
               Request[e.id].url.host = Request[f.id].url.host
        PROVE  Request[e.id].recipient = Request[f.id].recipient
    <3>1. SameHost(e.id, f.id) \/ SameHost(f.id, e.id)
      BY <2>3, <2>4, GuardAssumption
    <3> QED
      BY <1>0, <2>3, <3>1
  <2> HIDE DEF old
  <2>5. OneAddress'
    BY <2>1, <2>4 DEF OneAddress, Bound
  <2> QED
    BY <1>0, <2>2, <2>5 DEF PayeeInv, OneByOne
<1> HIDE DEF GuardInv, TypeOK
<1> QED
  BY <1>1, <1>2, <1>3, <1>4, <1>5, <1>6, <1>7, <1>8, <1>9, <1>11, <1>12
     DEF Next, Evaluation, Settlement, Recording

(***************************************************************************)
(* A settled payment of the lookback is known to the guard that runs.       *)
(***************************************************************************)
THEOREM PayeesKnown == Spec => []KnownInv
<1>1. Init => KnownInv
  BY DEF Init, KnownInv, Known, Settled
<1>2. Spec => [](TypeOK /\ GuardInv)
  BY TypeCorrect, GuardSafe, PTL
<1> QED
  BY <1>1, <1>2, KnownStep, PTL DEF Spec

(***************************************************************************)
(* With one payment at a time, a host is paid at one address within every   *)
(* stretch of the lookback, through every stop and restart.                 *)
(***************************************************************************)
THEOREM OnePayee == Spec => []OnePayeePerHost
<1>1. Init => PayeeInv
  BY DEF Init, PayeeInv, OneByOne, OneAddress, InFlight, Running, Screened, SameHost, Settled
<1>2. Spec => [](TypeOK /\ GuardInv /\ KnownInv)
  BY TypeCorrect, GuardSafe, PayeesKnown, PTL
<1>3. TypeOK /\ GuardInv /\ PayeeInv => OnePayeePerHost
  <2> SUFFICES ASSUME TypeOK, GuardInv, PayeeInv, MaxInFlight = 1, ~cold,
                      NEW e \in log, NEW f \in log, e.settled, f.settled,
                      Request[e.id].url = Request[f.id].url, Request[e.id].url # NoUrl,
                      e.ts <= f.ts, f.ts - e.ts <= Lookback
               PROVE  Request[e.id].recipient = Request[f.id].recipient
    BY DEF OnePayeePerHost
  <2>1. SameHost(e.id, f.id) /\ e.id \in Payments /\ f.id \in Payments
    BY LoggedPayments DEF GuardInv, LogInv, SameHost, Settled
  <2> QED
    BY <2>1 DEF PayeeInv
<1> QED
  BY <1>1, <1>2, <1>3, PayeeStep, PTL DEF Spec

-----------------------------------------------------------------------------
(***************************************************************************)
(* guardedFetch().  A fetch takes the steps of the guard, and one more: a   *)
(* response whose header says failure, or that has none, which concludes    *)
(* the payment with nothing known of the money.  What is proved of the      *)
(* guard survives that step, except that the row of a fetch may not be      *)
(* final.                                                                   *)
(***************************************************************************)

(***************************************************************************)
(* Every other step of a fetch is a step of the guard.                      *)
(***************************************************************************)
LEMMA FetchSteps ==
  ASSUME [FetchNext]_fetchVars
  PROVE  [Next]_vars \/ \E p \in Fetches, told \in {"failure", "none"} : Unsettled(p, told)
<1>1. ASSUME NEW p \in Payments, Begin(p) \/ Evaluation(p) \/ Approve(p) \/ Deny(p) \/ Expire(p) \/ Land(p)
      PROVE  Next
  BY <1>1 DEF Next
<1>2. ASSUME NEW p \in Payments, Settlement(p) \/ Recording(p)
      PROVE  Next
  BY <1>2 DEF Next
<1>3. ASSUME NEW p \in Fetches, FetchSettlement(p) \/ FetchRecording(p)
      PROVE  Settlement(p) \/ Recording(p) \/ \E told \in {"failure", "none"} : Unsettled(p, told)
  BY <1>3 DEF FetchSettlement, Create, CreationFails, FetchThrows, ResponseSettled, ResponseFailed,
              ResponseUnmarked, ObserveResponse, FetchRecording, Abort, AbortUnwritten, RecordResponse,
              ResponseUnwritten, Settlement, Recording
<1>4. CASE DryRun \/ ResetBreaker \/ Tick \/ Crash \/ Restart \/ RestartCold
  BY <1>4 DEF Next
<1>5. CASE UNCHANGED fetchVars
  BY <1>5 DEF fetchVars
<1> QED
  BY <1>1, <1>2, <1>3, <1>4, <1>5, FetchAssumption DEF FetchNext

(***************************************************************************)
(* A response that does not say success leaves the guard sound.             *)
(***************************************************************************)
LEMMA UnsettledKeeps ==
  ASSUME Typed, GuardInv, KnownInv,
         NEW p \in Fetches, NEW told \in {"failure", "none"}, Unsettled(p, told)
  PROVE  Typed' /\ GuardInv' /\ KnownInv'
<1>1. /\ p \in Payments /\ pc[p] = "settling" /\ outcome[p] = "none"
      /\ pc' = [pc EXCEPT ![p] = "recording"] /\ stamp' = [stamp EXCEPT ![p] = now]
      /\ outcome' = [outcome EXCEPT ![p] = told]
      /\ UNCHANGED <<now, up, cold, found, verdict, human, spends, seen, bindings,
                     events, openedAt, log, auth, landed>>
      /\ up
  BY FetchAssumption DEF Unsettled, Goto, memory, breaker, chain, GuardInv, PaymentInv, Staged
<1>2. TypeOK' /\ Typed'
  BY <1>1 DEF Typed, TypeOK, Verdicted, Running
<1>3. \A q \in Payments : q # p => pc'[q] = pc[q] /\ stamp'[q] = stamp[q] /\ outcome'[q] = outcome[q]
  BY <1>1
<1>4. pc'[p] = "recording" /\ stamp'[p] = now /\ outcome'[p] # "success"
  BY <1>1 DEF GuardInv, TypeOK
<1>5. PaymentInv'
  BY <1>1, <1>3, <1>4
     DEF GuardInv, TypeOK, PaymentInv, Staged, Concluded, OnChain, Cleared, Before, Running, Finished
<1>6. LogInv' /\ SpendInv'
  BY <1>1, <1>3, <1>4, LoggedPayments DEF GuardInv, TypeOK, LogInv, SpendInv, Finished
<1>7. CountInv'
  BY <1>1, <1>3, <1>4 DEF GuardInv, CountInv
<1>8. KnownInv'
  BY <1>1, <1>3, <1>4 DEF KnownInv, Known, Settled, Bound
<1> QED
  BY <1>2, <1>5, <1>6, <1>7, <1>8 DEF GuardInv

(***************************************************************************)
(* What the caller of a fetch got against where the payment stands.         *)
(***************************************************************************)
ReplyFits(p) ==
  /\ reply[p] = "blocked" => \/ pc[p] = "done" /\ auth[p] = "none"
                             \/ pc[p] = "threw" /\ human[p] = "approved"
  /\ reply[p] = "response" => pc[p] = "done"
  /\ reply[p] = "rethrown" => pc[p] \in {"threw", "unwritten"}
ReplyInv == reply \in [Payments -> Reply] /\ \A p \in Fetches : ReplyFits(p)

\* A step that leaves an ended payment ended as it was.
Settles(p) == pc'[p] = pc[p] /\ human'[p] = human[p] /\ (auth[p] = "none" => auth'[p] = "none")

\* What has ended stays ended, and what was never signed for stays so.
LEMMA EndedStays ==
  ASSUME GuardInv, [Next]_vars, NEW p \in Payments, pc[p] \in Ended
  PROVE  Settles(p)
<1> USE DEF GuardInv, TypeOK, Goto, progress, memory, breaker, chain, Running, Ended, Settles
<1>1. ASSUME NEW q \in Payments, Begin(q) PROVE Settles(p)
  BY <1>1 DEF Begin
<1>2. ASSUME NEW q \in Payments, NEW b \in Behaviours, Score(q, b) PROVE Settles(p)
  BY <1>2 DEF Score
<1>3. ASSUME NEW q \in Payments, NEW consistent \in BOOLEAN, Decide(q, consistent)
      PROVE  Settles(p)
  BY <1>3 DEF Decide
<1>4. ASSUME NEW q \in Payments, Approve(q) \/ Deny(q) \/ Expire(q) PROVE Settles(p)
  BY <1>4 DEF Approve, Deny, Expire, Answer
<1>5. ASSUME NEW q \in Payments, SignFails(q) \/ Sign(q) \/ Land(q) PROVE Settles(p)
  BY <1>5 DEF SignFails, Sign, Land
<1>6. ASSUME NEW q \in Payments, SettleSucceeds(q) \/ SettleRefused(q) \/ SettleThrows(q)
      PROVE  Settles(p)
  BY <1>6 DEF SettleSucceeds, SettleRefused, SettleThrows
<1>7. ASSUME NEW q \in Payments, Observe(q) \/ Insert(q) \/ InsertFails(q) PROVE Settles(p)
  BY <1>7 DEF Observe, Insert, InsertFails
<1>8. CASE DryRun \/ ResetBreaker \/ Tick \/ Crash \/ Restart \/ RestartCold \/ UNCHANGED vars
  BY <1>8 DEF DryRun, ResetBreaker, Tick, Crash, Restart, RestartCold, vars
<1> HIDE DEF GuardInv, TypeOK, Settles
<1> QED
  BY <1>1, <1>2, <1>3, <1>4, <1>5, <1>6, <1>7, <1>8
     DEF Next, Evaluation, Settlement, Recording

\* Once a reply fits an ended payment, it goes on fitting.
LEMMA ReplyStays ==
  ASSUME GuardInv, [FetchNext]_fetchVars, NEW p \in Fetches, ReplyFits(p),
         reply'[p] = reply[p], reply[p] \in Reply
  PROVE  ReplyFits(p)'
<1>1. p \in Payments
  BY FetchAssumption
<1>2. CASE pc[p] \in Ended
  <2>1. Settles(p)
    <3>1. CASE [Next]_vars
      BY <1>1, <1>2, <3>1, EndedStays
    <3>2. ASSUME NEW q \in Fetches, NEW told, Unsettled(q, told) PROVE Settles(p)
      BY <1>1, <1>2, <3>2, FetchAssumption
         DEF Unsettled, Goto, chain, Settles, GuardInv, TypeOK, Ended
    <3> QED
      BY <3>1, <3>2, FetchSteps
  <2> QED
    BY <2>1 DEF Settles, ReplyFits
<1>3. CASE pc[p] \notin Ended
  BY <1>3 DEF ReplyFits, Ended, Reply
<1> QED
  BY <1>2, <1>3

\* A reply is given by a step of the fetch itself.
LEMMA ReplyGiven ==
  ASSUME GuardInv, ReplyInv, NEW p \in Fetches, FetchSettlement(p) \/ FetchRecording(p),
         reply'[p] # reply[p]
  PROVE  ReplyFits(p)'
<1> USE DEF GuardInv, TypeOK, ReplyInv, Replied, Goto, Reply
<1>0. p \in Payments
  BY FetchAssumption
<1>1. CASE Abort(p)
  <2>1. pc[p] = "recording" /\ pc'[p] = "done" /\ UNCHANGED auth /\ reply'[p] = "blocked"
    BY <1>0, <1>1 DEF Abort, Insert, chain
  <2>2. auth[p] = "none"
    BY <1>0, <1>1 DEF Abort, ConsentedTo, PaymentInv, OnChain, Cleared
  <2> QED
    BY <2>1, <2>2 DEF ReplyFits
<1>2. CASE AbortUnwritten(p) \/ ResponseUnwritten(p)
  BY <1>0, <1>2 DEF AbortUnwritten, ResponseUnwritten, InsertFails, ReplyFits
<1>3. CASE CreationFails(p) \/ FetchThrows(p)
  <2>1. /\ pc[p] \in {"approved", "settling"} /\ pc'[p] = "threw" /\ UNCHANGED human
        /\ reply'[p] = Caught(p)
    BY <1>0, <1>3 DEF CreationFails, FetchThrows, SignFails, SettleThrows, Caught
  <2>2. Cleared(p)
    BY <1>0, <2>1 DEF PaymentInv, Staged, OnChain
  <2> QED
    BY <2>1, <2>2 DEF Caught, Cleared, ReplyFits
<1>4. CASE RecordResponse(p)
  BY <1>0, <1>4 DEF RecordResponse, Insert, ReplyFits
<1>5. CASE Create(p) \/ ResponseSettled(p) \/ ResponseFailed(p) \/ ResponseUnmarked(p)
           \/ ObserveResponse(p)
  BY <1>5 DEF Create, ResponseSettled, ResponseFailed, ResponseUnmarked, Unsettled, ObserveResponse
<1> QED
  BY <1>1, <1>2, <1>3, <1>4, <1>5 DEF FetchSettlement, FetchRecording

\* A reply once given stays true.
LEMMA ReplyStep == GuardInv /\ ReplyInv /\ [FetchNext]_fetchVars => ReplyInv'
<1> SUFFICES ASSUME GuardInv, ReplyInv, [FetchNext]_fetchVars PROVE ReplyInv'
  OBVIOUS
<1>1. \/ reply' = reply
      \/ \E p \in Fetches : /\ FetchSettlement(p) \/ FetchRecording(p)
                            /\ \E what \in Reply : reply' = [reply EXCEPT ![p] = what]
  <2>1. ASSUME NEW p \in Fetches, FetchSettlement(p) \/ FetchRecording(p)
        PROVE  reply' = reply \/ \E what \in Reply : reply' = [reply EXCEPT ![p] = what]
    BY <2>1 DEF FetchSettlement, FetchRecording, Create, CreationFails, FetchThrows, ResponseSettled,
                ResponseFailed, ResponseUnmarked, Unsettled, ObserveResponse, Abort, AbortUnwritten,
                RecordResponse, ResponseUnwritten, Replied, Caught, Reply
  <2> QED
    BY <2>1 DEF FetchNext, fetchVars
<1>2. CASE reply' = reply
  <2>1. ASSUME NEW p \in Fetches PROVE ReplyFits(p)'
    BY <1>2, FetchAssumption, ReplyStays DEF ReplyInv
  <2> QED
    BY <1>2, <2>1 DEF ReplyInv
<1>3. ASSUME NEW p \in Fetches, FetchSettlement(p) \/ FetchRecording(p),
             NEW what \in Reply, reply' = [reply EXCEPT ![p] = what]
      PROVE  ReplyInv'
  <2>1. reply' \in [Payments -> Reply]
    BY <1>3 DEF ReplyInv
  <2>2. ASSUME NEW q \in Fetches PROVE ReplyFits(q)'
    <3>1. CASE reply'[q] = reply[q]
      BY <3>1, FetchAssumption, ReplyStays DEF ReplyInv
    <3>2. CASE reply'[q] # reply[q]
      <4>1. q = p
        BY <1>3, <3>2, FetchAssumption DEF ReplyInv
      <4> QED
        BY <1>3, <3>2, <4>1, ReplyGiven
    <3> QED
      BY <3>1, <3>2
  <2> QED
    BY <2>1, <2>2 DEF ReplyInv
<1> QED
  BY <1>1, <1>2, <1>3

FetchInv == Typed /\ GuardInv /\ KnownInv /\ ReplyInv /\ \A p \in Payments \ Fetches : Refused(p)

(***************************************************************************)
(* The invariants of the guard, and the replies, hold for fetches.          *)
(***************************************************************************)
THEOREM FetchSafe == FetchSpec => []FetchInv
<1>1. FetchInit => FetchInv
  <2> SUFFICES ASSUME FetchInit PROVE FetchInv
    OBVIOUS
  <2>1. Init /\ Typed /\ GuardInv
    BY TypeInit, GuardInit DEF FetchInit, Typed
  <2>2. KnownInv /\ \A p \in Payments \ Fetches : Refused(p)
    BY <2>1 DEF Init, KnownInv, Known, Settled, Refused, Finished
  <2>3. ReplyInv
    BY FetchAssumption DEF FetchInit, ReplyInv, ReplyFits, Reply
  <2> QED
    BY <2>1, <2>2, <2>3 DEF FetchInv
<1>2. FetchInv /\ [FetchNext]_fetchVars => FetchInv'
  <2> SUFFICES ASSUME FetchInv, [FetchNext]_fetchVars PROVE FetchInv'
    OBVIOUS
  <2>1. CASE [Next]_vars
    <3>1. Typed' /\ TypeOK'
      BY <2>1, TypeStep DEF FetchInv, Typed
    <3>2. GuardInv'
      BY <2>1, <3>1, PaymentStep, LogStep, SpendStep, CountStep DEF FetchInv, GuardInv
    <3>3. KnownInv'
      BY <2>1, <3>1, KnownStep DEF FetchInv
    <3>4. \A p \in Payments \ Fetches : Refused(p)'
      BY <2>1, RefusedStays DEF FetchInv
    <3> QED
      BY <3>1, <3>2, <3>3, <3>4, ReplyStep DEF FetchInv
  <2>2. ASSUME NEW p \in Fetches, NEW told \in {"failure", "none"}, Unsettled(p, told)
        PROVE  FetchInv'
    <3>1. Typed' /\ GuardInv' /\ KnownInv'
      BY <2>2, UnsettledKeeps DEF FetchInv
    <3>2. \A q \in Payments \ Fetches : Refused(q)'
      BY <2>2, FetchAssumption DEF FetchInv, GuardInv, TypeOK, Refused, Unsettled, Goto, chain
    <3> QED
      BY <3>1, <3>2, ReplyStep DEF FetchInv
  <2> QED
    BY <2>1, <2>2, FetchSteps
<1> QED
  BY <1>1, <1>2, PTL DEF FetchSpec

(***************************************************************************)
(* "Blocked" without a human's approval: nothing was signed, and a row says *)
(* so.  A response: a row as its header.  An exception: no row.             *)
(***************************************************************************)
THEOREM RepliesAreHonest == FetchSpec => []ReplyIsHonest
<1>1. FetchInv => ReplyIsHonest
  <2> SUFFICES ASSUME FetchInv, NEW p \in Fetches
               PROVE  /\ reply[p] = "blocked" /\ human[p] # "approved"
                           => auth[p] = "none" /\ EntryOf(p) # {}
                      /\ reply[p] = "response"
                           => \E e \in EntryOf(p) : e.settled <=> outcome[p] = "success"
                      /\ reply[p] = "rethrown" => EntryOf(p) = {}
    BY DEF ReplyIsHonest
  <2>1. p \in Payments /\ ReplyFits(p)
    BY FetchAssumption DEF FetchInv, ReplyInv
  <2>2. pc[p] = "done" => \E e \in log : e.id = p /\ (e.settled <=> outcome[p] = "success")
    BY <2>1 DEF FetchInv, GuardInv, LogInv
  <2>3. pc[p] # "done" => EntryOf(p) = {}
    BY DEF FetchInv, GuardInv, LogInv, EntryOf
  <2> QED
    BY <2>1, <2>2, <2>3 DEF ReplyFits, EntryOf
<1> QED
  BY <1>1, FetchSafe, PTL

(***************************************************************************)
(* A payment whose response said "settled" is counted and its recipient     *)
(* known, by this process and by the next; nothing else is counted.         *)
(***************************************************************************)
THEOREM FetchesAreAccountedFor == FetchSpec => []FetchesAccountedFor
<1>1. FetchInv => FetchesAccountedFor
  <2> SUFFICES ASSUME FetchInv PROVE FetchesAccountedFor
    OBVIOUS
  <2>1. \A s \in spends : HasMoved(s.id)
    BY DEF FetchInv, GuardInv, TypeOK, SpendInv, PaymentInv, Concluded, OnChain, HasMoved
  <2>2. ASSUME up, ~cold, NEW p \in Fetches, reply[p] = "response", outcome[p] = "success", Today(p)
        PROVE  /\ \E s \in spends : s.id = p /\ s.ts >= landed[p]
               /\ Request[p].recipient \in seen
    <3>1. p \in Payments /\ pc[p] = "done"
      BY <2>2, FetchAssumption DEF FetchInv, ReplyInv, ReplyFits
    <3>2. /\ landed[p] \in Nat /\ landed[p] > now - DayLen /\ landed[p] <= stamp[p]
          /\ stamp[p] \in Nat /\ now \in Nat
      BY <2>2, <3>1 DEF FetchInv, GuardInv, TypeOK, PaymentInv, Concluded, Finished, Today, HasMoved, Never
    <3>3. StillCounts(stamp[p], now)
      BY <3>2, DayLenType DEF StillCounts
    <3>4. \E s \in spends : s.id = p /\ s.ts = stamp[p]
      BY <2>2, <3>1, <3>3 DEF FetchInv, GuardInv, CountInv
    <3>5. Request[p].recipient \in seen
      BY <2>2, <3>1, <3>2, <3>3, WithinLookback DEF FetchInv, KnownInv, Known, Settled
    <3> QED
      BY <3>2, <3>4, <3>5
  <2> QED
    BY <2>1, <2>2 DEF FetchesAccountedFor
<1> QED
  BY <1>1, FetchSafe, PTL

(***************************************************************************)
(* Fetches and execute() calls together implement the ledger in which the   *)
(* unsettled rows of fetches are not final.                                 *)
(***************************************************************************)
THEOREM FetchesKeepLedger == FetchSpec => FetchKeepsLedger
<1>1. FetchInit => FetchLedger!Init
  <2> SUFFICES ASSUME FetchInit PROVE FetchLedger!Init
    OBVIOUS
  <2>1. ConsentedTo = {}
    BY DEF FetchInit, Init, ConsentedTo
  <2>2. Money = [p \in Payments |-> "none"]
    BY DEF FetchInit, Init, Money
  <2>3. Row = [p \in Payments |-> "none"]
    BY DEF FetchInit, Init, Row, EntryOf
  <2> QED
    BY <2>1, <2>2, <2>3 DEF FetchLedger!Init
<1>2. [Ledger!Next]_(Ledger!vars) => [FetchLedger!Next]_(FetchLedger!vars)
  BY DEF Ledger!Next, Ledger!vars, Ledger!Consent, Ledger!Sign, Ledger!Move, Ledger!Void,
         Ledger!WriteSettled, Ledger!WriteUnsettled,
         FetchLedger!Next, FetchLedger!vars, FetchLedger!Consent, FetchLedger!Sign, FetchLedger!Move,
         FetchLedger!Void, FetchLedger!WriteSettled, FetchLedger!WriteUnsettled
<1>3. FetchInv /\ [FetchNext]_fetchVars => [FetchLedger!Next]_(FetchLedger!vars)
  <2> SUFFICES ASSUME FetchInv, [FetchNext]_fetchVars PROVE [FetchLedger!Next]_(FetchLedger!vars)
    OBVIOUS
  <2>1. ASSUME NEW p \in Payments, Land(p) PROVE FetchLedger!Next
    <3>1. ~Failover /\ p \notin Fetches => Row[p] = "none"
      BY <2>1, LandEffect DEF FetchInv
    <3> QED
      BY <2>1, <3>1, LandEffect DEF FetchInv, FetchLedger!Next, FetchLedger!Move
  <2>2. ASSUME NEW p \in Payments, Insert(p) PROVE FetchLedger!Next
    <3>1. CASE outcome[p] = "success"
      BY <2>2, <3>1, InsertEffect DEF FetchInv, FetchLedger!Next, FetchLedger!WriteSettled
    <3>2. CASE outcome[p] # "success"
      <4>1. ~Failover /\ p \notin Fetches => Money[p] \in {"none", "void"}
        BY <2>2, <3>2, InsertEffect DEF FetchInv
      <4> QED
        BY <2>2, <3>2, <4>1, InsertEffect DEF FetchInv, FetchLedger!Next, FetchLedger!WriteUnsettled
    <3> QED
      BY <3>1, <3>2
  <2>3. CASE [Next]_vars
    BY <1>2, <2>1, <2>2, <2>3, LedgerStep DEF FetchInv
  <2>4. ASSUME NEW p \in Fetches, NEW told, Unsettled(p, told) PROVE UNCHANGED FetchLedger!vars
    <3>1. UNCHANGED <<verdict, human, auth, log>>
      BY <2>4 DEF Unsettled, chain
    <3> QED
      BY <3>1, ConsentFrame, MoneyFrame, RowFrame DEF FetchLedger!vars
  <2> QED
    BY <2>3, <2>4, FetchSteps
<1> QED
  BY <1>1, <1>3, FetchSafe, PTL DEF FetchSpec, FetchKeepsLedger, FetchLedger!Spec
=============================================================================
