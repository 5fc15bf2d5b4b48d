-------------------------- MODULE PolicyEvaluator --------------------------
(***************************************************************************)
(* PolicyEvaluator with a caller that makes one payment at a time: each is  *)
(* evaluated, possibly put to a human, settled, and only then observed and  *)
(* recorded; time passes and the process may restart in between, and every  *)
(* restart replays the log.  What the rules promise over time is checked    *)
(* here against the log; what they promise when payments overlap or stop    *)
(* halfway is AgentGuard's subject.                                         *)
(*                                                                          *)
(* Source: packages/core/src/policy/evaluator.ts and policy/rules.ts.       *)
(***************************************************************************)
EXTENDS PolicyRules

CONSTANTS
  Requests,       \* the payment requests the agent makes
  MaxPayments,    \* bound on the payments made
  MaxTime         \* bound on the clock

\* validateRequest() lets only positive amounts come this far.
ASSUME EvaluatorAssumption ==
  /\ \A req \in Requests : req.amount \in Nat \ {0}
  /\ MaxPayments \in Nat
  /\ MaxTime \in Nat \ {0}

VARIABLES
  now,            \* Date.now()
  underway,       \* the payment that passed evaluate() and is not observed yet
  spends,         \* PolicyEvaluator.payments
  seen,           \* PolicyEvaluator.seen
  log,            \* settled entries of the audit log: durable
  session         \* ghost: ids of the payments made since the last start

vars == <<now, underway, spends, seen, log, session>>

\* A request, when it was evaluated and whether it has to be put to a human.
Question == [req : Requests, asked : 1..MaxTime, human : BOOLEAN]

\* `asked` is a ghost: an entry is dated when it is written.
Entry == [id : 1..MaxPayments, ts : 1..MaxTime, asked : 1..MaxTime,
          req : Requests, human : BOOLEAN]

TypeOK ==
  /\ now \in 1..MaxTime
  /\ underway \subseteq Question
  /\ \A s \in spends : s.id \in 1..MaxPayments /\ s.ts \in 1..MaxTime /\ s.hydrated \in BOOLEAN
  /\ seen \subseteq {r.recipient : r \in Requests}
  /\ log \subseteq Entry
  /\ session \subseteq 1..MaxPayments

\* Time starts at 1: the "session" window looks at timestamps above 0.
Init ==
  /\ now = 1
  /\ underway = {}
  /\ spends = {}
  /\ seen = {}
  /\ log = {}
  /\ session = {}

Context(req) == [req |-> req, now |-> now, spends |-> spends, seen |-> seen]

\* evaluate(): the clock is read here, and nothing is changed.
Evaluate(req) ==
  LET found == EvaluatePolicy(Context(req))
  IN  /\ underway = {}
      /\ Cardinality(log) < MaxPayments
      /\ ~found.critical
      /\ underway' = {[req |-> req, asked |-> now, human |-> found.escalate]}
      /\ UNCHANGED <<now, spends, seen, log, session>>

\* The payment, approved if need be, has settled: observe(), then record().
Settle(u) ==
  LET id == Cardinality(log) + 1
  IN  /\ underway' = {}
      /\ spends' = spends \cup {Spend(id, now, u.req, FALSE)}
      /\ seen' = seen \cup {u.req.recipient}
      /\ log' = log \cup {[id |-> id, ts |-> now, asked |-> u.asked,
                           req |-> u.req, human |-> u.human]}
      /\ session' = session \cup {id}
      /\ UNCHANGED now

\* A human denies it, it does not settle, or a call throws: nothing is observed.
GiveUp == underway # {} /\ underway' = {} /\ UNCHANGED <<now, spends, seen, log, session>>

\* A restart: hydrate() rebuilds both memories, each with its own horizon.
Restart ==
  /\ underway' = {}
  /\ spends' = {Spend(e.id, e.ts, e.req, TRUE) : e \in {x \in log : StillCounts(x.ts, now)}}
  /\ seen' = {e.req.recipient : e \in log}
  /\ session' = {}
  /\ UNCHANGED <<now, log>>

Tick == now < MaxTime /\ now' = now + 1 /\ UNCHANGED <<underway, spends, seen, log, session>>

Next ==
  \/ \E req \in Requests : Evaluate(req)
  \/ \E u \in underway : Settle(u)
  \/ GiveUp \/ Restart \/ Tick

Spec == Init /\ [][Next]_vars

-----------------------------------------------------------------------------
Within(len, at) == {e \in log : at - len < e.ts /\ e.ts <= at}
Paid(entries, token) ==
  Total({Spend(e.id, e.ts, e.req, FALSE) : e \in {x \in entries : x.req.token = token}})

\* What the caps of a policy, and a rate limit, promise of the log at a moment.
CapsKept(policy, at) ==
  \A rule \in {r \in policy : r.type = "spend-cap"} :
    CASE rule.window = "hour"    -> Paid(Within(HourLen, at), rule.token) <= rule.maxAmount
      [] rule.window = "day"     -> Paid(Within(DayLen, at), rule.token) <= rule.maxAmount
      [] rule.window = "session" -> Paid({e \in log : e.id \in session}, rule.token) <= rule.maxAmount
      [] rule.window = "transaction" ->
           \A e \in log : e.req.token = rule.token => e.req.amount <= rule.maxAmount

RateKept(rule, at) == Cardinality(Within(rule.windowLen, at)) <= rule.maxPayments

(***************************************************************************)
(* No spend cap is ever exceeded: at every moment what really was spent in  *)
(* the hour or the day that ends there, or in this run of the process, is   *)
(* within the cap, whatever restarts fell in between.                       *)
(***************************************************************************)
CapsHold == CapsKept(Policy, now)

(***************************************************************************)
(* A rate limit whose window is no longer than a day holds across restarts. *)
(* A longer one does not, whatever policy/evaluator.ts:109 says of windows: *)
(* hydrate() replays a day.                                                 *)
(***************************************************************************)
DailyRatesHold ==
  \A rule \in Policy : rule.type = "rate-limit" /\ rule.windowLen <= DayLen => RateKept(rule, now)

(***************************************************************************)
(* Under a counterparty rule the first payment ever made to a recipient was *)
(* put to a human, whatever restarts rebuilt the set of known ones.         *)
(***************************************************************************)
FirstTo(e) == \A d \in log : d.req.recipient = e.req.recipient => e.id <= d.id

NewPayeesMeetAHuman ==
  (\E r \in Policy : r.type = "counterparty" /\ r.flagNewRecipients /\ r.action = "escalate")
    => \A e \in log : FirstTo(e) => e.human

(***************************************************************************)
(* A payment no human saw was evaluated in the hours of every window that   *)
(* is more than a warning, counted up from its start until its end, past    *)
(* midnight if need be: from 0 to 24 is the whole day.  It may be made, and *)
(* dated, outside them: evaluate() reads the hour (policy/evaluator.ts:55)  *)
(* and the facilitator is asked later.                                      *)
(***************************************************************************)
HoursOf(rule) ==
  IF rule.start = rule.end THEN 0..(HoursPerDay - 1)
  ELSE LET len == rule.end - rule.start
               + (IF rule.start < rule.end THEN 0 ELSE HoursPerDay)
       IN  {(rule.start + k) % HoursPerDay : k \in 0..(len - 1)}

HoursRespected ==
  \A rule \in {r \in Policy : r.type = "time-window" /\ r.action # "warn"}, e \in log :
    ~e.human => (e.asked \div HourLen) % HoursPerDay \in HoursOf(rule)
=============================================================================
