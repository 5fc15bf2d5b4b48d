--------------------------- MODULE HumanApproval ---------------------------
(***************************************************************************)
(* What the guard may rely on when it puts a payment to a human, whichever  *)
(* approver is configured: each question gets one answer and keeps it, and  *)
(* "approved" is the word of a human, said of this very question after it   *)
(* was asked.                                                               *)
(*                                                                          *)
(* Source: the promise of GuardOptions.onEscalation in                      *)
(* packages/core/src/index.ts.  Approvals implements this specification     *)
(* with the approval queue behind the control plane, and the webhook.       *)
(***************************************************************************)
CONSTANT Questions

VARIABLES
  answer,   \* "none", "waiting", "approved" or "refused"
  said      \* <<question, yes>> for every word of a human

vars == <<answer, said>>

Init == answer = [e \in Questions |-> "none"] /\ said = {}

Ask(e) ==
  /\ answer[e] = "none"
  /\ answer' = [answer EXCEPT ![e] = "waiting"]
  /\ UNCHANGED said

Say(e, yes) ==
  /\ answer[e] # "none"
  /\ said' = said \cup {<<e, yes>>}
  /\ UNCHANGED answer

Approve(e) ==
  /\ answer[e] = "waiting"
  /\ <<e, TRUE>> \in said
  /\ answer' = [answer EXCEPT ![e] = "approved"]
  /\ UNCHANGED said

Refuse(e) ==
  /\ answer[e] = "waiting"
  /\ answer' = [answer EXCEPT ![e] = "refused"]
  /\ UNCHANGED said

Next ==
  \E e \in Questions :
    Ask(e) \/ (\E yes \in BOOLEAN : Say(e, yes)) \/ Approve(e) \/ Refuse(e)

Spec == Init /\ [][Next]_vars
=============================================================================
