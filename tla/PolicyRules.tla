---------------------------- MODULE PolicyRules ----------------------------
(***************************************************************************)
(* The deterministic policy rules of agentctl and the aggregation of the    *)
(* three layers into a verdict, as pure operators.                          *)
(*                                                                          *)
(* Source: packages/core/src/policy/rules.ts, policy/evaluator.ts and       *)
(* aggregateVerdict in index.ts.                                            *)
(*                                                                          *)
(* A request is [amount, token, recipient, url]; a url is NoUrl or          *)
(* [host |-> <<"api", "trusted", "com">>, path |-> <<"v2", "x">>]; names    *)
(* are compared after the lower-casing the code does, so one value stands   *)
(* for all spellings.  A rule returns the severity of its failing check     *)
(* ("info" when it passes or does not apply) and whether it escalates.      *)
(***************************************************************************)
EXTENDS Integers, FiniteSets, Sequences, FiniteSetsExt, SequencesExt

CONSTANTS
  Policy,         \* the set of rules of policy.json
  AnomalyAction,  \* policy.anomalyAction: "block" or "escalate"
  HourLen,        \* ticks of the clock in an hour
  HoursPerDay     \* 24 in the code, fewer in a scaled-down day

\* What the schema of a policy makes of the rules; an hour may be 24.
WellFormed(rule) ==
  /\ rule.type = "spend-cap" =>
       rule.maxAmount \in Nat /\ rule.window \in {"transaction", "session", "hour", "day"}
  /\ rule.type = "rate-limit" => rule.maxPayments \in Nat /\ rule.windowLen \in Nat
  /\ rule.type = "time-window" => {rule.start, rule.end} \subseteq 0..HoursPerDay
  /\ rule.type \in {"time-window", "counterparty"} => rule.action \in {"block", "escalate", "warn"}

ASSUME PolicyAssumption ==
  /\ AnomalyAction \in {"block", "escalate"}
  /\ HourLen \in Nat \ {0}
  /\ HoursPerDay \in Nat \ {0}
  /\ \A rule \in Policy : WellFormed(rule)

DayLen == HourLen * HoursPerDay
NoEscalation == -1    \* escalateAbove is undefined
NoUrl == [host |-> <<>>, path |-> <<>>]   \* no resource URL, or one that does not parse

Pass == [severity |-> "info", escalate |-> FALSE]
Fail(severity) == [severity |-> severity, escalate |-> FALSE]
\* How a rule with an `action` fails: "block" is critical, "escalate" asks a human.
FailAs(action) == [severity |-> IF action = "block" THEN "critical" ELSE "warning",
                   escalate |-> action = "escalate"]

-----------------------------------------------------------------------------
(***************************************************************************)
(* The evaluator's memory: spends is a set of records                       *)
(* [id, ts, amount, token, hydrated], seen a set of recipients.             *)
(***************************************************************************)
\* Mutant: a timestamp in microseconds.
SpendInMicros(id, ts, req, hydrated) ==
  [id |-> id, ts |-> ts * 1000, amount |-> req.amount, token |-> req.token, hydrated |-> hydrated]

Spend(id, ts, req, hydrated) ==
  [id |-> id, ts |-> ts, amount |-> req.amount, token |-> req.token, hydrated |-> hydrated]

Total(spends) == MapThenSumSet(LAMBDA s : s.amount, spends)

\* The records a window looks at; "session" leaves out what was replayed.
InSpendWindow(spends, window, now) ==
  CASE window = "hour"    -> {s \in spends : s.ts > now - HourLen}
    [] window = "day"     -> {s \in spends : s.ts > now - DayLen}
    [] window = "session" -> {s \in spends : ~s.hydrated}

\* Mutant: calendar hours and days instead of sliding ones.
CalendarSpend(spends, window, token, now) ==
  LET len == IF window = "hour" THEN HourLen ELSE DayLen
  IN  Total({s \in spends : s.token = token /\ s.ts \div len = now \div len})

WindowedSpend(spends, window, token, now) ==
  Total({s \in InSpendWindow(spends, window, now) : s.token = token})

\* hydrate(): the settled entries a restart turns back into spend records.
\* Mutant: the horizon of the replay is a tick too short.
CutShort(ts, now) == ts > now - DayLen + 1

StillCounts(ts, now) == ts > now - DayLen

-----------------------------------------------------------------------------
(* The rules.  ctx is [req, now, spends, seen].                             *)

CheckSpendCap(rule, ctx) ==
  LET prior == IF rule.window = "transaction"
               THEN 0
               ELSE WindowedSpend(ctx.spends, rule.window, rule.token, ctx.now)
      over  == prior + ctx.req.amount > rule.maxAmount
      large == rule.escalateAbove # NoEscalation /\ ctx.req.amount > rule.escalateAbove
  IN  IF rule.token # ctx.req.token THEN Pass
      ELSE IF over THEN Fail("critical")
      ELSE IF large THEN FailAs("escalate")
      ELSE Pass

\* An entry names a host, which covers its subdomains, and optionally a path prefix.
ResourceMatches(url, entry) ==
  /\ entry.host # <<>>
  /\ IsSuffix(entry.host, url.host)
  /\ IsPrefix(entry.path, url.path)

CheckAllowlist(rule, ctx) ==
  LET listed == IF rule.mode = "recipients"
                THEN ctx.req.recipient \in rule.entries
                ELSE ctx.req.url # NoUrl /\ \E e \in rule.entries : ResourceMatches(ctx.req.url, e)
  IN  IF listed THEN Pass ELSE Fail(IF rule.enforce THEN "critical" ELSE "warning")

\* Mutant: the payment at hand is not counted.
RateOffByOne(rule, ctx) ==
  LET recent == {s \in ctx.spends : s.ts > ctx.now - rule.windowLen}
  IN  IF Cardinality(recent) > rule.maxPayments THEN Fail("critical") ELSE Pass

CheckRateLimit(rule, ctx) ==
  LET recent == {s \in ctx.spends : s.ts > ctx.now - rule.windowLen}
  IN  IF Cardinality(recent) + 1 > rule.maxPayments THEN Fail("critical") ELSE Pass

\* Mutant: a new recipient is only a warning.
CounterpartyWarns(rule, ctx) ==
  IF rule.flagNewRecipients /\ ctx.req.recipient \notin ctx.seen THEN Fail("warning") ELSE Pass

CheckCounterparty(rule, ctx) ==
  IF rule.flagNewRecipients /\ ctx.req.recipient \notin ctx.seen
  THEN FailAs(rule.action) ELSE Pass

\* Mutant: a window past midnight restricts nothing.
HoursUnwrapped(rule, ctx) ==
  LET hour == (ctx.now \div HourLen) % HoursPerDay
  IN  IF rule.start >= rule.end \/ (rule.start <= hour /\ hour < rule.end)
      THEN Pass ELSE FailAs(rule.action)

\* allowedHours [start, end): may wrap past midnight; start = end is no restriction.
CheckTimeWindow(rule, ctx) ==
  LET hour == (ctx.now \div HourLen) % HoursPerDay
      inWindow == \/ rule.start = rule.end
                  \/ rule.start < rule.end /\ rule.start <= hour /\ hour < rule.end
                  \/ rule.start > rule.end /\ (rule.start <= hour \/ hour < rule.end)
  IN  IF inWindow THEN Pass ELSE FailAs(rule.action)

Dispatch(rule, ctx) ==
  CASE rule.type = "spend-cap"    -> CheckSpendCap(rule, ctx)
    [] rule.type = "allowlist"    -> CheckAllowlist(rule, ctx)
    [] rule.type = "rate-limit"   -> CheckRateLimit(rule, ctx)
    [] rule.type = "counterparty" -> CheckCounterparty(rule, ctx)
    [] rule.type = "time-window"  -> CheckTimeWindow(rule, ctx)

\* evaluate(): what all the rules of a policy say of a request.
EvaluateRules(rules, ctx) ==
  LET results == {Dispatch(rule, ctx) : rule \in rules}
  IN  [critical |-> \E r \in results : r.severity = "critical",
       escalate |-> \E r \in results : r.escalate]
EvaluatePolicy(ctx) == EvaluateRules(Policy, ctx)

(***************************************************************************)
(* aggregateVerdict: a critical check outside the behavioural layer always  *)
(* blocks; a behavioural anomaly does what anomalyAction says; a rule or an *)
(* anomaly that wants a human escalates.                                    *)
(***************************************************************************)
AggregateVerdict(critical, anomalous, escalate) ==
  IF critical \/ (anomalous /\ AnomalyAction = "block") THEN "block"
  ELSE IF escalate \/ anomalous THEN "escalate"
  ELSE "allow"
=============================================================================
