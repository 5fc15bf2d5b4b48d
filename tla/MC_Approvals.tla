---------------------------- MODULE MC_Approvals ----------------------------
(* One escalation in the queue, one at the webhook, one client address.     *)
EXTENDS Approvals

CONSTANTS q, h, ops
=============================================================================
