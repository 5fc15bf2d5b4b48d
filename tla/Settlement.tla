----------------------------- MODULE Settlement -----------------------------
(***************************************************************************)
(* Signing and settling EIP-3009 authorizations: callers that sign, hand    *)
(* the signature to a list of facilitators, and sign again when no answer   *)
(* came; the tracker of outstanding nonces the wallet adapters share; and   *)
(* the chain, where a nonce is good for one transfer.                       *)
(*                                                                          *)
(* Source: packages/core/src/x402/eip3009.ts, x402/facilitator.ts, and the  *)
(* adapters' authorizePayment/releaseNonce.  The caller that retries, the   *)
(* facilitators and the token contract are the environment.                 *)
(*                                                                          *)
(* A facilitator that is asked keeps a copy of the authorization until it   *)
(* broadcasts or rejects it, or the authorization expires, whether or not   *)
(* its answer reaches the caller, and whatever the answer says: a refusal   *)
(* promises nothing about the copy (facilitator.ts:41).                     *)
(*                                                                          *)
(* The adapters draw their nonces and pass the tracker; the nonce of its    *)
(* own beside the tracker is for who calls signEIP3009Authorization()       *)
(* directly.                                                                *)
(***************************************************************************)
EXTENDS Naturals, FiniteSets

CONSTANTS
  Payments,
  Supplied,       \* the nonce each caller supplies, or NoNonce
  Tracked,        \* the payments signed through the adapters' tracker
  Facilitators,   \* how many URLs the failover client has
  Tries           \* bound on the signatures of each payment

NoNonce == <<"none", 0>>
RandomNonce(p, n) == <<p, n>>   \* the one drawn for the n-th signature of p

ASSUME SettlementAssumption ==
  /\ Tracked \subseteq Payments
  /\ Facilitators \in Nat \ {0}
  /\ Tries \in [Payments -> Nat]
  /\ \A p, q \in Payments : \A n \in 1..Tries[q] : Supplied[p] # RandomNonce(q, n)

VARIABLES
  pc,         \* "idle", "signing", "asking", or how the last attempt ended
  attempt,    \* signatures made for each payment
  nonce,      \* the nonce of the authorization its caller holds
  asked,      \* the facilitator of tryAll's loop
  inflight,   \* InFlightNonceTracker.inflight
  copies,     \* environment: [nonce, for, at] authorizations facilitators hold
  paid        \* environment: [nonce, for, by] transfers on chain

vars == <<pc, attempt, nonce, asked, inflight, copies, paid>>

Ended == {"success", "failure", "threw"}

Init ==
  /\ pc = [p \in Payments |-> "idle"]
  /\ attempt = [p \in Payments |-> 0]
  /\ nonce = [p \in Payments |-> NoNonce]
  /\ asked = [p \in Payments |-> 0]
  /\ inflight = {} /\ copies = {} /\ paid = {}

PaidWith(n) == {t \in paid : t.nonce = n}
Transfers(p) == {t \in paid : t.for = p}
Copy(p, k) == [nonce |-> nonce[p], for |-> p, at |-> k]

-----------------------------------------------------------------------------
(* signEIP3009Authorization() *)

\* Mutants: a random nonce for every signature; reserve() without its loop.
AlwaysRandom(p) == RandomNonce(p, attempt[p] + 1)
Unchecked(p) == IF Supplied[p] # NoNonce THEN Supplied[p] ELSE RandomNonce(p, attempt[p] + 1)

\* The supplied nonce, unless the tracker still holds it, else a random one.
NonceFor(p) ==
  IF Supplied[p] # NoNonce /\ ~(p \in Tracked /\ Supplied[p] \in inflight)
  THEN Supplied[p]
  ELSE RandomNonce(p, attempt[p] + 1)

\* The caller signs, for the first time or after an attempt that did not settle.
Authorize(p) ==
  /\ pc[p] \in {"idle", "failure", "threw"}
  /\ attempt[p] < Tries[p]
  /\ attempt' = [attempt EXCEPT ![p] = @ + 1]
  /\ nonce' = [nonce EXCEPT ![p] = NonceFor(p)]
  /\ inflight' = IF p \in Tracked THEN inflight \cup {NonceFor(p)} ELSE inflight
  /\ pc' = [pc EXCEPT ![p] = "signing"]
  /\ UNCHANGED <<asked, copies, paid>>

\* signTypedData() fails: the reservation stays, and nobody learns its nonce.
SignThrows(p) ==
  /\ pc[p] = "signing"
  /\ pc' = [pc EXCEPT ![p] = "threw"]
  /\ nonce' = [nonce EXCEPT ![p] = NoNonce]
  /\ UNCHANGED <<attempt, asked, inflight, copies, paid>>

\* releaseNonce(): once, for an authorization that has settled or expired.
Release(p) ==
  /\ p \in Tracked
  /\ nonce[p] \in inflight
  /\ \/ pc[p] = "success"
     \/ pc[p] \in Ended /\ ~\E c \in copies : c.nonce = nonce[p]
  /\ inflight' = inflight \ {nonce[p]}
  /\ nonce' = [nonce EXCEPT ![p] = NoNonce]
  /\ UNCHANGED <<pc, attempt, asked, copies, paid>>

-----------------------------------------------------------------------------
(* FailoverFacilitatorClient.settle(): tryAll *)

\* The call to the k-th facilitator goes out.
Ask(p, k) ==
  /\ asked' = [asked EXCEPT ![p] = k]
  /\ copies' = copies \cup {Copy(p, k)}
  /\ pc' = [pc EXCEPT ![p] = "asking"]

Settle(p) ==
  /\ pc[p] = "signing"
  /\ Ask(p, 1)
  /\ UNCHANGED <<attempt, nonce, inflight, paid>>

\* A facilitator reports the transfer it made.
AnswersSuccess(p) ==
  /\ pc[p] = "asking"
  /\ [nonce |-> nonce[p], for |-> p, by |-> asked[p]] \in paid
  /\ pc' = [pc EXCEPT ![p] = "success"]
  /\ UNCHANGED <<attempt, nonce, asked, inflight, copies, paid>>

\* { success: false }: returned as it is, no other facilitator is asked.  The one
\* that refused may keep its copy, or have broadcast it.
AnswersFailure(p) ==
  /\ pc[p] = "asking"
  /\ copies' = copies \/ copies' = copies \ {Copy(p, asked[p])}
  /\ pc' = [pc EXCEPT ![p] = "failure"]
  /\ UNCHANGED <<attempt, nonce, asked, inflight, paid>>

\* No answer: the next facilitator, or the last error.
AnswerLost(p) ==
  /\ pc[p] = "asking"
  /\ IF asked[p] < Facilitators
     THEN Ask(p, asked[p] + 1)
     ELSE pc' = [pc EXCEPT ![p] = "threw"] /\ UNCHANGED <<asked, copies>>
  /\ UNCHANGED <<attempt, nonce, inflight, paid>>

-----------------------------------------------------------------------------
(* The facilitators and the chain. *)

\* A transfer, if the token contract has not seen the nonce.
Broadcast(c) ==
  /\ PaidWith(c.nonce) = {}
  /\ paid' = paid \cup {[nonce |-> c.nonce, for |-> c.for, by |-> c.at]}
  /\ copies' = copies \ {c}
  /\ UNCHANGED <<pc, attempt, nonce, asked, inflight>>

\* validBefore passes: no copy of the authorization is good any more.
Expires(n) ==
  /\ \E c \in copies : c.nonce = n
  /\ \A p \in Payments : nonce[p] = n => pc[p] \in Ended
  /\ copies' = {c \in copies : c.nonce # n}
  /\ UNCHANGED <<pc, attempt, nonce, asked, inflight, paid>>

Sign(p)   == SignThrows(p) \/ Settle(p)
Answer(p) == AnswersSuccess(p) \/ AnswersFailure(p) \/ AnswerLost(p)

Next ==
  \/ \E p \in Payments : Authorize(p) \/ Sign(p) \/ Release(p) \/ Answer(p)
  \/ \E c \in copies : Broadcast(c) \/ Expires(c.nonce)

Spec == Init /\ [][Next]_vars

-----------------------------------------------------------------------------
Nonce == {NoNonce} \cup {Supplied[p] : p \in Payments}
           \cup UNION {{RandomNonce(p, n) : n \in 1..Tries[p]} : p \in Payments}

(***************************************************************************)
(* The state has the shape the code and the environment give it.            *)
(***************************************************************************)
TypeOK ==
  /\ pc \in [Payments -> {"idle", "signing", "asking"} \cup Ended]
  /\ attempt \in [Payments -> Nat]
  /\ \A p \in Payments : attempt[p] <= Tries[p]
  /\ nonce \in [Payments -> Nonce]
  /\ asked \in [Payments -> 0..Facilitators]
  /\ inflight \subseteq Nonce
  /\ copies \subseteq [nonce : Nonce, for : Payments, at : 1..Facilitators]
  /\ paid \subseteq [nonce : Nonce, for : Payments, by : 1..Facilitators]

(***************************************************************************)
(* eip3009.ts:57: a caller that supplies its own nonce and keeps it away    *)
(* from the tracker pays at most once, however often it signs again, after  *)
(* refusals too, and whichever facilitators still hold its authorizations.  *)
(* With the tracker it may pay again: the retry is given another nonce.     *)
(***************************************************************************)
RetryPaysOnce ==
  \A p \in Payments \ Tracked :
    Supplied[p] # NoNonce => \A t, u \in Transfers(p) : t = u

(***************************************************************************)
(* The tracker (eip3009.ts:34) keeps payments apart: two payments signed    *)
(* through it never hold live authorizations with the same nonce, of which  *)
(* the chain would take only one, even if their callers supplied the same   *)
(* one; provided that a caller releases once, and only what is settled or   *)
(* can no longer be.                                                        *)
(***************************************************************************)
NoncesNotShared ==
  \A c, d \in copies :
    /\ {c.for, d.for} \subseteq Tracked
    /\ c.nonce = d.nonce
    /\ PaidWith(c.nonce) = {}
    => c.for = d.for
=============================================================================
