------------------------------ MODULE Backtest ------------------------------
(***************************************************************************)
(* simulatePolicy(): a candidate policy replayed over the audit history of  *)
(* PolicyEvaluator, entry by entry.  Nothing of it is a state machine: the  *)
(* operators are evaluated on every history the evaluator can have made.    *)
(*                                                                          *)
(* Source: packages/core/src/policy/simulate.ts.  The replay takes place    *)
(* now: evaluate() reads the present clock and observe() is not given the   *)
(* entry's timestamp, so the whole history falls in one window and in one   *)
(* hour of the day.                                                         *)
(*                                                                          *)
(* Not covered: entries that did not settle, which are evaluated too and,   *)
(* when their verdict was "allow", observed as if they had settled.         *)
(***************************************************************************)
EXTENDS PolicyEvaluator

CONSTANT Candidates       \* the policies an operator tries

ASSUME CandidatesAssumption == \A candidate \in Candidates : \A rule \in candidate : WellFormed(rule)

\* Mutant: the payment is remembered at the time it was made.
ObservedThen(e) == e.ts

ObservedAt(e) == now

\* The entries replayed before e all happened, so all of them were observed.
Replayed(e) == {d \in log : d.id < e.id}

SimulatedVerdict(candidate, e) ==
  LET found == EvaluateRules(candidate,
                 [req    |-> e.req,
                  now    |-> now,
                  spends |-> {Spend(d.id, ObservedAt(d), d.req, FALSE) : d \in Replayed(e)},
                  seen   |-> {d.req.recipient : d \in Replayed(e)}])
  IN  IF found.critical THEN "block"
      ELSE IF found.escalate THEN "escalate"
      ELSE "allow"

RecordedVerdict(e) == IF e.human THEN "escalate" ELSE "allow"

NewlyBlocked(candidate) ==
  {e \in log : SimulatedVerdict(candidate, e) = "block" /\ RecordedVerdict(e) # "block"}

-----------------------------------------------------------------------------
Listed(rule, req) ==
  IF rule.mode = "recipients" THEN req.recipient \in rule.entries
  ELSE \E e \in rule.entries : ResourceMatches(req.url, e)

\* What a rule that can block says of this history at a moment; nothing of a time window.
Kept(rule, at) ==
  CASE rule.type = "spend-cap"  -> CapsKept({rule}, at)
    [] rule.type = "rate-limit" -> RateKept(rule, at)
    [] rule.type = "allowlist" /\ rule.enforce ->
         \A e \in log : Listed(rule, e.req)
    [] rule.type = "counterparty" /\ rule.flagNewRecipients /\ rule.action = "block" ->
         \A e \in log : ~FirstTo(e)
    [] OTHER -> TRUE

(***************************************************************************)
(* policy/simulate.ts:34 "exactly what a policy change would have done": a  *)
(* candidate that the backtest says blocks nothing has caps, rate limits of *)
(* any length, allowlists and blocked strangers that this history kept, at  *)
(* every moment and across restarts.  It says nothing of a time window,     *)
(* which the backtest judges at the present hour, and the converse does not *)
(* hold: a history spread over days is blocked as if it were made at once.  *)
(***************************************************************************)
BacktestMissesNothing ==
  \A candidate \in Candidates :
    NewlyBlocked(candidate) = {} =>
      \A rule \in candidate, e \in log : Kept(rule, e.ts)
=============================================================================
