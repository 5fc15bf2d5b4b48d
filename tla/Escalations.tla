---------------------------- MODULE Escalations ----------------------------
(***************************************************************************)
(* The promises onEscalation() returns for escalated payments: what the     *)
(* control plane and the webhook approver share.                            *)
(*                                                                          *)
(* Source: packages/core/src/approval-queue.ts (the promise of enqueue()),  *)
(* escalation/webhook.ts (the promise of the handler) and runGuard in       *)
(* index.ts, which awaits them.                                             *)
(***************************************************************************)
EXTENDS Integers, FiniteSets

CONSTANTS
  Queued,     \* escalations parked in the approval queue
  Posted,     \* escalations posted to the webhook
  MaxTime     \* bound on the clock

ASSUME EscalationAssumption ==
  /\ Queued \cap Posted = {}
  /\ MaxTime \in Nat

VARIABLES
  now,      \* Date.now()
  answer,   \* the promise of each escalation
  since,    \* when it was asked for
  said      \* <<escalation, yes>>: what the humans decided

escalationVars == <<now, answer, since, said>>

Questions == Queued \cup Posted

EscalationInit ==
  /\ now = 0
  /\ answer = [e \in Questions |-> "none"]
  /\ since = [e \in Questions |-> 0]
  /\ said = {}

Waiting(e) == answer[e] = "waiting"

\* runGuard() starts to wait.
Ask(e) ==
  /\ answer[e] = "none"
  /\ answer' = [answer EXCEPT ![e] = "waiting"]
  /\ since' = [since EXCEPT ![e] = now]
  /\ UNCHANGED <<now, said>>

\* A promise is settled once: later calls of its resolve() do nothing.
Settled(e, approved) ==
  answer' = IF Waiting(e)
            THEN [answer EXCEPT ![e] = IF approved THEN "approved" ELSE "refused"]
            ELSE answer

\* A timer of this length has run out; at the end of the modelled time, any.
Elapsed(e, len) == now - since[e] >= len \/ now = MaxTime
=============================================================================
