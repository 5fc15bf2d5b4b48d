----------------------------- MODULE AgentGuard -----------------------------
(***************************************************************************)
(* One agent's guard: several payments at a time go through execute(), from *)
(* the policy check to the audit entry, while the process may stop and be   *)
(* restarted from its own audit log.                                        *)
(*                                                                          *)
(* Source: packages/core/src/index.ts (create, hydrate, evaluate, execute,  *)
(* runGuard), with policy/evaluator.ts, circuit-breaker.ts,                 *)
(* approval-queue.ts, intent/registry.ts, intent/reconcile.ts and           *)
(* audit/logger.ts as it calls them.  The facilitator and the token         *)
(* contract are the environment: execute() hands over a signed              *)
(* authorization, the money moves or not, and an answer comes back or not.  *)
(*                                                                          *)
(* Between two awaits JavaScript runs without interruption: an action is    *)
(* the code between two awaits, and everything may happen in between.       *)
(*                                                                          *)
(* Covered:     interleaved payments, stop and restart, approval timeouts,  *)
(*              lost facilitator answers, failing inserts, unreadable       *)
(*              history, facilitator failover.                              *)
(* Not covered: the behavioural scores (any outcome in Behaviours), the     *)
(*              LLM's judgement (any), edited log rows.  guardedFetch() is   *)
(*              GuardedFetch, failover in detail Settlement.                *)
(***************************************************************************)
EXTENDS PolicyRules, CircuitBreakerRules

CONSTANTS
  Payments,         \* the payments the agent attempts
  Request,          \* what each of them asks for
  MaxInFlight,      \* how many the caller runs at once
  Behaviours,       \* outcomes of the behavioural layer: [anomaly, trigger]
  IntentThreshold,  \* the LLM looks at amounts from here up
  HasApprover,      \* an approval queue is configured
  ApprovalTimeout,  \* defaultTimeoutSeconds of the queue
  BreakerOn,        \* a circuit breaker is configured
  Failover,         \* fallback facilitators are configured
  Lookback,         \* hydrateLookbackMs
  MaxTime           \* bound on the clock

Never == -1         \* landed: the money has not moved

ASSUME GuardAssumption ==
  /\ IsFiniteSet(Payments)
  /\ \A p \in Payments : Request[p].amount \in Int
  /\ MaxInFlight \in Nat
  /\ ApprovalTimeout \in Nat
  /\ Lookback \in Nat /\ Lookback >= DayLen
  /\ MaxTime \in Nat
  /\ {HasApprover, BreakerOn, Failover} \subseteq BOOLEAN
  /\ Behaviours \subseteq [anomaly : BOOLEAN, trigger : BOOLEAN]

VARIABLES
  now,        \* Date.now()
  up,         \* the process runs
  cold,       \* some start could not read the history
  pc,         \* where each execute() stands
  found,      \* what the checks of each payment have found so far
  verdict,    \* decision.verdict, "none" before it
  human,      \* what became of its escalation
  stamp,      \* when a payment entered the approval queue, or its entry was dated
  outcome,    \* settlement.success as the guard learned it
  spends,     \* PolicyEvaluator.payments
  seen,       \* PolicyEvaluator.seen
  bindings,   \* ResourceRegistry.bindings: pairs <<host, recipient>>
  events,     \* CircuitBreaker.events
  openedAt,   \* CircuitBreaker.openedAt
  log,        \* the audit store: durable
  auth,       \* environment: the signed authorization of each payment
  landed      \* environment: when the money of each payment moved

progress == <<pc, found, verdict, human, stamp, outcome>>
memory   == <<spends, seen, bindings>>
breaker  == <<events, openedAt>>
chain    == <<auth, landed>>
vars     == <<now, up, cold, progress, memory, breaker, log, chain>>

Running == {"checked", "refused", "scored", "pending", "approved", "settling",
            "settled", "recording"}
Ended   == {"done",        \* execute() returned
            "threw",       \* signing or settling threw
            "unwritten",   \* the audit insert threw
            "lost"}        \* the process stopped

Finding == [critical : BOOLEAN, escalate : BOOLEAN, anomaly : BOOLEAN, trigger : BOOLEAN]
Nothing == [critical |-> FALSE, escalate |-> FALSE, anomaly |-> FALSE, trigger |-> FALSE]

Entry == [id : Payments, ts : Nat, verdict : Verdict, anomaly : BOOLEAN, settled : BOOLEAN]

Init ==
  /\ now = 0
  /\ up = TRUE
  /\ cold = FALSE
  /\ pc = [p \in Payments |-> "idle"]
  /\ found = [p \in Payments |-> Nothing]
  /\ verdict = [p \in Payments |-> "none"]
  /\ human = [p \in Payments |-> "none"]
  /\ stamp = [p \in Payments |-> 0]
  /\ outcome = [p \in Payments |-> "none"]
  /\ spends = {} /\ seen = {} /\ bindings = {}
  /\ events = {} /\ openedAt = NotOpen
  /\ log = {}
  /\ auth = [p \in Payments |-> "none"]
  /\ landed = [p \in Payments |-> Never]

InFlight == {p \in Payments : pc[p] \in Running}
Goto(p, label) == pc' = [pc EXCEPT ![p] = label]

-----------------------------------------------------------------------------
(* evaluate() *)

\* isOpen(): a cooled-down breaker closes and forgets its window.
AskIsOpen ==
  IF openedAt # NotOpen /\ CooledDown(openedAt, now)
  THEN openedAt' = NotOpen /\ events' = {}
  ELSE UNCHANGED breaker

\* validateRequest(): positive amount, well-formed addresses.
Malformed == "malformed"
ValidRequest(req) == req.amount > 0 /\ req.recipient # Malformed

(***************************************************************************)
(* Up to the first await: a frozen agent or an invalid request is refused,  *)
(* otherwise the policy is evaluated against the memory of this moment.     *)
(***************************************************************************)
Begin(p) ==
  LET req == Request[p]
      passes == ~IsOpen(openedAt, now) /\ ValidRequest(req)
      policy == EvaluatePolicy([req |-> req, now |-> now, spends |-> spends, seen |-> seen])
  IN  /\ up
      /\ pc[p] = "idle"
      /\ Cardinality(InFlight) < MaxInFlight
      /\ AskIsOpen
      /\ IF passes
         THEN /\ Goto(p, "checked")
              /\ found' = [found EXCEPT ![p].critical = policy.critical,
                                        ![p].escalate = policy.escalate]
         ELSE Goto(p, "refused") /\ UNCHANGED found
      /\ UNCHANGED <<now, up, cold, verdict, human, stamp, outcome, memory, log, chain>>

\* Mutant: only an address bound to another host is a redirection.
RedirectedElsewhere(req) == \E b \in bindings : b[1] # req.url.host /\ b[2] = req.recipient

\* ResourceRegistry.check: the host was paid before, and never at this address.
Redirected(req) ==
  /\ req.url # NoUrl
  /\ \E b \in bindings : b[1] = req.url.host
  /\ <<req.url.host, req.recipient>> \notin bindings

\* behavioral.score(), then the binding check; the LLM call starts here.
Score(p, b) ==
  /\ up
  /\ pc[p] = "checked"
  /\ found' = [found EXCEPT ![p].anomaly = b.anomaly,
                            ![p].trigger = b.trigger,
                            ![p].critical = @ \/ Redirected(Request[p])]
  /\ Goto(p, "scored")
  /\ UNCHANGED <<now, up, cold, verdict, human, stamp, outcome, memory, breaker, log, chain>>

(***************************************************************************)
(* runGuard(): the verdict, its record in the breaker, and the way on.      *)
(***************************************************************************)
\* Mutant: the breaker tests its window before it adds the decision.
RecordTripsLate(p, v) ==
  IF BreakerOn
  THEN /\ events' = InWindow(events \cup {[id |-> p, ts |-> now, verdict |-> v,
                                           anomaly |-> found[p].anomaly]}, now)
       /\ openedAt' = IF openedAt = NotOpen /\ ShouldTrip(events) THEN now ELSE openedAt
  ELSE UNCHANGED breaker

RecordInBreaker(p, v) ==
  IF BreakerOn
  THEN /\ events' = InWindow(events \cup {[id |-> p, ts |-> now, verdict |-> v,
                                           anomaly |-> found[p].anomaly]}, now)
       /\ openedAt' = IF openedAt = NotOpen /\ ShouldTrip(events') THEN now ELSE openedAt
  ELSE UNCHANGED breaker

\* An LLM that is off, skipped or out of service lets every intent pass.
IntentDoubted(p) == Request[p].amount >= IntentThreshold

\* Mutants: an escalation nobody is asked about goes through; a label nobody handles.
EscalationSlips(v) == IF v = "block" THEN "recording" ELSE "approved"
WayNowhere(v)      == IF v = "allow" THEN "approved" ELSE v

\* Where runGuard() and the branch on `allowed` lead.
WayOn(v) ==
  CASE v = "allow" -> "approved"
    [] v = "escalate" /\ HasApprover -> "pending"
    [] OTHER -> "recording"

Decide(p, consistent) ==
  /\ up
  /\ pc[p] \in {"refused", "scored"}
  /\ consistent \/ (pc[p] = "scored" /\ IntentDoubted(p))
  /\ LET v == IF pc[p] = "refused"
              THEN "block"
              ELSE AggregateVerdict(found[p].critical \/ ~consistent, found[p].trigger,
                                    found[p].escalate)
     IN  /\ verdict' = [verdict EXCEPT ![p] = v]
         /\ RecordInBreaker(p, v)
         /\ Goto(p, WayOn(v))
         /\ stamp' = IF WayOn(v) = "approved" THEN stamp ELSE [stamp EXCEPT ![p] = now]
  /\ found' = [found EXCEPT ![p] = [Nothing EXCEPT !.anomaly = found[p].anomaly]]
  /\ UNCHANGED <<now, up, cold, human, outcome, memory, log, chain>>

-----------------------------------------------------------------------------
(* ApprovalQueue: an escalated payment waits for resolve() or its timer. *)

Answer(p, what, label) ==
  /\ up
  /\ pc[p] = "pending"
  /\ human' = [human EXCEPT ![p] = what]
  /\ stamp' = [stamp EXCEPT ![p] = now]
  /\ Goto(p, label)
  /\ UNCHANGED <<now, up, cold, found, verdict, outcome, memory, breaker, log, chain>>

Approve(p) == Answer(p, "approved", "approved")
Deny(p)    == Answer(p, "denied", "recording")

\* Mutant: the timer of an approval is never started.
TimerUnset(p) == FALSE

\* At the end of the modelled time every timer counts as due.
Due(p) == now - stamp[p] >= ApprovalTimeout \/ now = MaxTime
Expire(p) == Due(p) /\ Answer(p, "expired", "recording")

-----------------------------------------------------------------------------
(* execute() after the guard: sign, settle, observe, record. *)

\* createPaymentPayload() fails, or what it signed is not what was approved.
SignFails(p) ==
  /\ up
  /\ pc[p] = "approved"
  /\ Goto(p, "threw")
  /\ UNCHANGED <<now, up, cold, found, verdict, human, stamp, outcome, memory, breaker, log, chain>>

\* Mutant: the entry is written before the settlement is known, and after it again.
SignAndRecord(p) ==
  /\ up
  /\ pc[p] = "approved"
  /\ auth' = [auth EXCEPT ![p] = "live"]
  /\ log' = log \cup {[id |-> p, ts |-> now, verdict |-> verdict[p],
                       anomaly |-> found[p].anomaly, settled |-> FALSE]}
  /\ Goto(p, "settling")
  /\ UNCHANGED <<now, up, cold, found, verdict, human, stamp, outcome, memory, breaker, landed>>

Sign(p) ==
  /\ up
  /\ pc[p] = "approved"
  /\ auth' = [auth EXCEPT ![p] = "live"]
  /\ Goto(p, "settling")
  /\ UNCHANGED <<now, up, cold, found, verdict, human, stamp, outcome, memory, breaker, log, landed>>

\* The facilitator broadcasts the authorization, whoever is still listening.
Land(p) ==
  /\ auth[p] = "live"
  /\ auth' = [auth EXCEPT ![p] = "used"]
  /\ landed' = [landed EXCEPT ![p] = now]
  /\ UNCHANGED <<now, up, cold, progress, memory, breaker, log>>

SettleSucceeds(p) ==
  /\ up
  /\ pc[p] = "settling"
  /\ auth[p] = "used"
  /\ outcome' = [outcome EXCEPT ![p] = "success"]
  /\ Goto(p, "settled")
  /\ UNCHANGED <<now, up, cold, found, verdict, human, stamp, memory, breaker, log, chain>>

\* A fallback's refusal does not bind the first facilitator, which may have used
\* the authorization, or may yet.
SettleRefused(p) ==
  /\ up
  /\ pc[p] = "settling"
  /\ \/ auth[p] = "live" /\ auth' = [auth EXCEPT ![p] = "void"]
     \/ Failover /\ UNCHANGED auth
  /\ outcome' = [outcome EXCEPT ![p] = "failure"]
  /\ stamp' = [stamp EXCEPT ![p] = now]
  /\ Goto(p, "recording")
  /\ UNCHANGED <<now, up, cold, found, verdict, human, memory, breaker, log, landed>>

\* Mutants: a missing answer is taken for a success; for a refusal.
ThrowTakenForSuccess(p) ==
  /\ up
  /\ pc[p] = "settling"
  /\ outcome' = [outcome EXCEPT ![p] = "success"]
  /\ Goto(p, "settled")
  /\ UNCHANGED <<now, up, cold, found, verdict, human, stamp, memory, breaker, log, chain>>
ThrowTakenForRefusal(p) ==
  /\ up
  /\ pc[p] = "settling"
  /\ outcome' = [outcome EXCEPT ![p] = "failure"]
  /\ stamp' = [stamp EXCEPT ![p] = now]
  /\ Goto(p, "recording")
  /\ UNCHANGED <<now, up, cold, found, verdict, human, memory, breaker, log, chain>>

\* No answer: the money may have moved, or may still move.
SettleThrows(p) ==
  /\ up
  /\ pc[p] = "settling"
  /\ Goto(p, "threw")
  /\ UNCHANGED <<now, up, cold, found, verdict, human, stamp, outcome, memory, breaker, log, chain>>

\* evaluator.observe() and resources.bind(); audit.record() dates its entry.
Observe(p) ==
  /\ up
  /\ pc[p] = "settled"
  /\ spends' = spends \cup {Spend(p, now, Request[p], FALSE)}
  /\ seen' = seen \cup {Request[p].recipient}
  /\ bindings' = IF Request[p].url = NoUrl THEN bindings
                 ELSE bindings \cup {<<Request[p].url.host, Request[p].recipient>>}
  /\ stamp' = [stamp EXCEPT ![p] = now]
  /\ Goto(p, "recording")
  /\ UNCHANGED <<now, up, cold, found, verdict, human, outcome, breaker, log, chain>>

Insert(p) ==
  /\ up
  /\ pc[p] = "recording"
  /\ log' = log \cup {[id |-> p, ts |-> stamp[p], verdict |-> verdict[p],
                       anomaly |-> found[p].anomaly, settled |-> outcome[p] = "success"]}
  /\ Goto(p, "done")
  /\ UNCHANGED <<now, up, cold, found, verdict, human, stamp, outcome, memory, breaker, chain>>

InsertFails(p) ==
  /\ up
  /\ pc[p] = "recording"
  /\ Goto(p, "unwritten")
  /\ UNCHANGED <<now, up, cold, found, verdict, human, stamp, outcome, memory, breaker, log, chain>>

-----------------------------------------------------------------------------
(* The operator, the clock, and the process. *)

\* A dry-run evaluate(), or circuitBreaker.state(): only isOpen() leaves a trace.
DryRun == up /\ AskIsOpen /\ UNCHANGED <<now, up, cold, progress, memory, log, chain>>

ResetBreaker ==
  /\ up
  /\ openedAt # NotOpen
  /\ openedAt' = NotOpen
  /\ events' = {}
  /\ UNCHANGED <<now, up, cold, progress, memory, log, chain>>

Tick == now < MaxTime /\ now' = now + 1
        /\ UNCHANGED <<up, cold, progress, memory, breaker, log, chain>>

Crash ==
  /\ up
  /\ up' = FALSE
  /\ pc' = [p \in Payments |-> IF pc[p] \in Running THEN "lost" ELSE pc[p]]
  /\ found' = [p \in Payments |-> Nothing]
  /\ spends' = {} /\ seen' = {} /\ bindings' = {}
  /\ events' = {} /\ openedAt' = NotOpen
  /\ UNCHANGED <<now, cold, verdict, human, stamp, outcome, log, chain>>

\* create() and hydrate(): settled entries feed the memory, all feed the breaker.
Rebuilt(entries) ==
  LET settled == {e \in entries : e.settled}
  IN  /\ spends' = {Spend(e.id, e.ts, Request[e.id], TRUE) :
                      e \in {x \in settled : StillCounts(x.ts, now)}}
      /\ seen' = {Request[e.id].recipient : e \in settled}
      /\ bindings' = {<<Request[e.id].url.host, Request[e.id].recipient>> :
                        e \in {x \in settled : Request[x.id].url # NoUrl}}
      /\ IF BreakerOn
         THEN /\ events' = InWindow({[id |-> e.id, ts |-> e.ts, verdict |-> e.verdict,
                                      anomaly |-> e.anomaly] : e \in entries}, now)
              /\ openedAt' \in ReplayedOpening(events')
         ELSE UNCHANGED breaker

Restart ==
  /\ ~up
  /\ up' = TRUE
  /\ Rebuilt({e \in log : e.ts >= now - Lookback})
  /\ UNCHANGED <<now, cold, progress, log, chain>>

\* The history is unreadable: hydrate() gives up and the guard starts cold.
RestartCold ==
  /\ ~up
  /\ up' = TRUE
  /\ cold' = TRUE
  /\ UNCHANGED <<now, progress, memory, breaker, log, chain>>

Evaluation(p) ==
  \/ \E b \in Behaviours : Score(p, b)
  \/ \E consistent \in BOOLEAN : Decide(p, consistent)
Settlement(p) ==
  \/ SignFails(p) \/ Sign(p)
  \/ SettleSucceeds(p) \/ SettleRefused(p) \/ SettleThrows(p)
  \/ Observe(p)
Recording(p) == Insert(p) \/ InsertFails(p)

Next ==
  \/ \E p \in Payments :
       \/ Begin(p) \/ Evaluation(p)
       \/ Approve(p) \/ Deny(p) \/ Expire(p)
       \/ Settlement(p) \/ Land(p) \/ Recording(p)
  \/ DryRun \/ ResetBreaker \/ Tick \/ Crash \/ Restart \/ RestartCold

Spec == Init /\ [][Next]_vars

-----------------------------------------------------------------------------
(***************************************************************************)
(* The state of the guard has the shape the code gives it.                  *)
(***************************************************************************)
TypeOK ==
  /\ now \in Nat
  /\ up \in BOOLEAN /\ cold \in BOOLEAN
  /\ pc \in [Payments -> {"idle"} \cup Running \cup Ended]
  /\ found \in [Payments -> Finding]
  /\ verdict \in [Payments -> Verdict \cup {"none"}]
  /\ human \in [Payments -> {"none", "approved", "denied", "expired"}]
  /\ stamp \in [Payments -> Nat]
  /\ outcome \in [Payments -> {"none", "success", "failure"}]
  /\ \A s \in spends : s.id \in Payments /\ s.ts \in Nat
  /\ seen \subseteq {Request[p].recipient : p \in Payments}
  /\ bindings \subseteq {<<Request[p].url.host, Request[p].recipient>> : p \in Payments}
  /\ events \subseteq [id : Payments, ts : Nat, verdict : Verdict, anomaly : BOOLEAN]
  /\ openedAt \in Nat \cup {NotOpen}
  /\ log \subseteq Entry
  /\ auth \in [Payments -> {"none", "live", "used", "void"}]
  /\ landed \in [Payments -> Nat \cup {Never}]

HasMoved(p) == landed[p] # Never
Today(p)    == HasMoved(p) /\ landed[p] > now - DayLen
EntryOf(p)  == {e \in log : e.id = p}

(***************************************************************************)
(* Nothing is signed without a verdict that allows it, or an escalation a   *)
(* human approved while it was pending: however payments, timeouts, stops   *)
(* and restarts interleave, and whatever the facilitator does with it.      *)
(***************************************************************************)
Authorised ==
  \A p \in Payments :
    auth[p] # "none" =>
      \/ verdict[p] = "allow"
      \/ verdict[p] = "escalate" /\ human[p] = "approved"

(***************************************************************************)
(* The spend windows never under-count what was accounted: while the guard  *)
(* runs with its history, every payment that moved within the last day and  *)
(* whose execute() returned has a spend record at least as young as it, in  *)
(* the process that made it and in all that follow.  With failover a        *)
(* payment may be taken for refused: the fallback refuses what the primary  *)
(* has settled without an answer.                                           *)
(***************************************************************************)
AccountedFor ==
  (up /\ ~cold /\ ~Failover) =>
    \A p \in Payments :
      pc[p] = "done" /\ Today(p) =>
        \E s \in spends : s.id = p /\ s.ts >= landed[p] /\ s.amount = Request[p].amount

(***************************************************************************)
(* Nor do they over-count: a spend record stands for money that had moved   *)
(* by its timestamp, and no payment has two, although the same payment is   *)
(* counted live by one process and from the log by the next.                *)
(***************************************************************************)
SpendsAreReal ==
  \A s \in spends :
    /\ HasMoved(s.id) /\ landed[s.id] <= s.ts
    /\ \A t \in spends : t.id = s.id => t = s

(***************************************************************************)
(* The audit log against what happened: one entry per payment, one for each *)
(* execute() that returned; money that a "settled" entry claims has moved;  *)
(* a refusal without failover is final; a blocked payment moved nothing.    *)
(***************************************************************************)
LogIsTrue ==
  /\ \A e, f \in log : e.id = f.id => e = f
  /\ \A p \in Payments : pc[p] = "done" => EntryOf(p) # {}
  /\ \A e \in log :
       /\ e.settled => HasMoved(e.id) /\ landed[e.id] <= e.ts
       /\ ~e.settled /\ ~Failover => auth[e.id] \in {"none", "void"}
       /\ e.verdict = "block" => auth[e.id] = "none"

(***************************************************************************)
(* How far checking before and counting after settlement can overshoot a    *)
(* day cap: with MaxInFlight payments at a time, what moved within a day    *)
(* (for payments that are under way or returned) stays within MaxInFlight   *)
(* caps.  One payment at a time respects the cap exactly.                   *)
(***************************************************************************)
Moved(ps, token) ==
  Total({Spend(p, 0, Request[p], FALSE) : p \in {q \in ps : Request[q].token = token}})
DayCaps == {rule \in Policy : rule.type = "spend-cap" /\ rule.window = "day"}

Counted == {p \in Payments : Today(p) /\ pc[p] \in {"settling", "settled", "recording", "done"}}

OvershootBound ==
  (~cold /\ ~Failover) =>
    \A rule \in DayCaps : Moved(Counted, rule.token) <= MaxInFlight * rule.maxAmount

(***************************************************************************)
(* A host has one payee: with one payment at a time, two settled payments   *)
(* for the same host go to the same address, across restarts, as long as    *)
(* both lie within the history a restart reads back.                        *)
(***************************************************************************)
OnePayeePerHost ==
  (MaxInFlight = 1 /\ ~cold) =>
    \A e, f \in log :
      /\ e.settled /\ f.settled
      /\ Request[e.id].url = Request[f.id].url /\ Request[e.id].url # NoUrl
      /\ e.ts <= f.ts /\ f.ts - e.ts <= Lookback
      => Request[e.id].recipient = Request[f.id].recipient

\* A window of decisions that reaches a threshold leaves no breaker closed.
TripNeverMissed == ShouldTrip(InWindow(events, now)) => openedAt # NotOpen

(***************************************************************************)
(* The guard, the facilitator and the audit log together keep the promises  *)
(* of PaymentLedger, through every interleaving, stop and restart: read as  *)
(* its consent, money and row, each step is one of its steps.  A fallback   *)
(* may refuse what the first facilitator settled: no row is final then.     *)
(***************************************************************************)
ConsentedTo == {p \in Payments : \/ verdict[p] = "allow"
                                 \/ verdict[p] = "escalate" /\ human[p] = "approved"}
Money == [p \in Payments |->
            CASE auth[p] = "none" -> "none"
              [] auth[p] = "live" -> "signed"
              [] auth[p] = "used" -> "moved"
              [] auth[p] = "void" -> "void"]
Row == [p \in Payments |->
          IF EntryOf(p) = {} THEN "none"
          ELSE IF \E e \in EntryOf(p) : e.settled THEN "settled" ELSE "unsettled"]

Ledger == INSTANCE PaymentLedger WITH
  Trusted <- IF Failover THEN {} ELSE Payments,
  consent <- ConsentedTo,
  money <- Money,
  row <- Row

KeepsLedger == Ledger!Spec

-----------------------------------------------------------------------------
(* What a comment says of the guard, and the code does not do. *)

(***************************************************************************)
(* index.ts:377, of execute(): "Records to the audit log regardless.", at   *)
(* least when the money moved.                                              *)
(***************************************************************************)
ExecuteAlwaysRecords ==
  \A p \in Payments : pc[p] \in {"done", "threw"} /\ HasMoved(p) => EntryOf(p) # {}
=============================================================================
