-------------------------- MODULE WebhookApprover --------------------------
(***************************************************************************)
(* createWebhookEscalation(): an escalation is posted to an approver, and   *)
(* its response, if one comes in time, is believed when it is signed, fresh *)
(* and echoes the nonce.                                                    *)
(*                                                                          *)
(* Source: packages/core/src/escalation/webhook.ts.  The approver and the   *)
(* network between are the environment: a response may be late, delivered   *)
(* to another escalation's request, delivered again, replaced by an error   *)
(* page, or be the signed request itself, sent back.                        *)
(***************************************************************************)
EXTENDS Escalations

CONSTANTS
  WebhookTimeout,   \* timeoutSeconds
  Tolerance,        \* DEFAULT_SIGNATURE_TOLERANCE_SECONDS; 0 disables the check
  RequireSigned     \* requireSignedResponse

Elsewhere == "elsewhere"   \* the nonce of another guard's escalation, under the same secret

ASSUME WebhookAssumption ==
  /\ WebhookTimeout \in Nat
  /\ Tolerance \in Nat
  /\ RequireSigned \in BOOLEAN
  /\ Elsewhere \notin Posted

VARIABLE responses   \* what the approver has sent

Response == [nonce : Posted, approved : {"yes", "no"}, signed : BOOLEAN, ts : 0..MaxTime]

WebhookInit == responses = {}

\* The request event, signed with the shared secret: it has a nonce and no `approved`.
Event(e) == [nonce |-> e, approved |-> "absent", signed |-> TRUE, ts |-> since[e]]

\* A page somebody else wrote; without RequireSigned nobody else is on the way.
Page(e) == [nonce |-> e, approved |-> "yes", signed |-> FALSE, ts |-> now]

\* What the approver said of another escalation.
Misrouted == [nonce |-> Elsewhere, approved |-> "yes", signed |-> TRUE, ts |-> now]

Deliverable ==
  responses \cup {Misrouted}
    \cup {Event(e) : e \in {q \in Posted : answer[q] # "none"}}
    \cup (IF RequireSigned THEN {Page(e) : e \in Posted} ELSE {})

\* The event goes out; its nonce stands for the escalation.
PostEvent(e) ==
  /\ e \in Posted
  /\ Ask(e)
  /\ UNCHANGED responses

\* A human decides once on an event, in time or not; the approver signs the response.
Respond(e, yes) ==
  /\ answer[e] # "none"
  /\ ~\E r \in responses : r.nonce = e
  /\ said' = said \cup {<<e, yes>>}
  /\ responses' = responses \cup
       {[nonce |-> e, approved |-> IF yes THEN "yes" ELSE "no", signed |-> TRUE, ts |-> now]}
  /\ UNCHANGED <<now, answer, since>>

\* verifyWebhook(): signed, and not older than the tolerance.
SignatureOk(r) ==
  /\ r.signed
  /\ Tolerance > 0 => now - r.ts <= Tolerance

\* Mutant: the nonce is signed but not compared.
BelievedUnbound(e, r) == (RequireSigned => SignatureOk(r)) /\ r.approved = "yes"

Believed(e, r) ==
  /\ RequireSigned => SignatureOk(r)
  /\ r.approved = "yes"
  /\ r.nonce = e

\* Some response arrives on the request of e.
Receive(e, r) ==
  /\ Waiting(e)
  /\ Settled(e, Believed(e, r))
  /\ UNCHANGED <<now, since, said, responses>>

\* Mutant: the abort is only armed once a response has started.
AbortUnarmed(e) == FALSE

\* The abort controller's timer.
TimedOut(e) == Elapsed(e, WebhookTimeout)

Abort(e) ==
  /\ Waiting(e)
  /\ TimedOut(e)
  /\ Settled(e, FALSE)
  /\ UNCHANGED <<now, since, said, responses>>

\* The network fails, the status is not 2xx, or the body is not JSON.
PostFails(e) ==
  /\ Waiting(e)
  /\ Settled(e, FALSE)
  /\ UNCHANGED <<now, since, said, responses>>

WebhookNext ==
  \E e \in Posted :
    \/ PostEvent(e) \/ Abort(e) \/ PostFails(e)
    \/ \E yes \in BOOLEAN : Respond(e, yes)
    \/ \E r \in Deliverable : Receive(e, r)
=============================================================================
