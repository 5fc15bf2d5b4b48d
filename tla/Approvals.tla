----------------------------- MODULE Approvals -----------------------------
(***************************************************************************)
(* Both ways of asking a human, side by side on one clock: escalations      *)
(* resolved through the control plane, and escalations posted to a webhook. *)
(* Together they implement HumanApproval.                                   *)
(***************************************************************************)
EXTENDS ControlPlane, WebhookApprover

vars == <<escalationVars, controlVars, responses>>

Init == EscalationInit /\ ControlInit /\ WebhookInit

Tick == now < MaxTime /\ now' = now + 1
        /\ UNCHANGED <<answer, since, said, controlVars, responses>>

Next ==
  \/ ControlNext /\ UNCHANGED responses
  \/ WebhookNext /\ UNCHANGED controlVars
  \/ Tick

Spec == Init /\ [][Next]_vars

(***************************************************************************)
(* Timers fire and time passes.  No human, operator, approver or network    *)
(* owes anything.                                                           *)
(***************************************************************************)
Fairness ==
  /\ \A e \in Queued : WF_vars(Timeout(e) /\ UNCHANGED responses)
  /\ \A e \in Posted : WF_vars(Abort(e) /\ UNCHANGED controlVars)
  /\ WF_vars(Tick)

FairSpec == Spec /\ Fairness

-----------------------------------------------------------------------------
(***************************************************************************)
(* The state has the shape the code and the environment give it.            *)
(***************************************************************************)
TypeOK ==
  /\ now \in 0..MaxTime
  /\ answer \in [Questions -> {"none", "waiting", "approved", "refused"}]
  /\ since \in [Questions -> 0..MaxTime]
  /\ said \subseteq Questions \X BOOLEAN
  /\ pending \subseteq Queued /\ listed \subseteq Queued
  /\ posts \subseteq Post
  /\ replied \in [Queued -> Seq(BOOLEAN)]
  /\ hits \in [Clients -> [count : 0..MaxRequests, resetAt : Nat]]
  /\ served \in [Clients -> Seq(0..MaxTime)]
  /\ responses \subseteq Response

(***************************************************************************)
(* With a token set (server/index.ts:109), every escalation gets one        *)
(* answer, and "approved" only when a human said yes to this escalation     *)
(* after it was asked: no request or response that is unsigned, without     *)
(* token, stale, misrouted, repeated or late makes up for that.  Without a  *)
(* token, which is the default, whoever reaches the port approves.          *)
(***************************************************************************)
Contract == INSTANCE HumanApproval

AsksHumans == Contract!Spec

(***************************************************************************)
(* Nobody waits forever: every escalation is answered, if by its timer.     *)
(***************************************************************************)
EveryEscalationEnds ==
  \A e \in Questions : Waiting(e) ~> answer[e] \in {"approved", "refused"}
=============================================================================
