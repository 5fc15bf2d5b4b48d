---------------------------- MODULE GuardedFetch ----------------------------
(***************************************************************************)
(* guardedFetch(): the payments of a drop-in fetch, beside those of         *)
(* execute(), on the same guard.  The x402 client signs and retries on its  *)
(* own; agentctl sees the payment through three hooks and turns what the    *)
(* client throws into the caller's reply.                                   *)
(*                                                                          *)
(* Source: packages/core/src/index.ts (guardedFetch and the hooks of        *)
(* ensureSpine) and x402/interceptor.ts.  The client and the resource       *)
(* server are the environment: one payment per wrapped request, and a       *)
(* response whose PAYMENT-RESPONSE header says success, says failure or is  *)
(* missing, or no response.  A header that says success is taken to be      *)
(* true, as agentctl does; one that says failure, or none, proves nothing.  *)
(*                                                                          *)
(* Evaluation and approval are execute()'s: both call runGuard().  From the *)
(* verdict on, a fetch takes the actions below.                             *)
(***************************************************************************)
EXTENDS AgentGuard

CONSTANT Fetches   \* the payments that go through guardedFetch()

ASSUME FetchAssumption == Fetches \subseteq Payments

VARIABLE reply     \* what the caller of the fetch gets

fetchVars == <<vars, reply>>

Reply == {"none",
          "response",   \* the server's response
          "blocked",    \* 403 "Payment blocked by agentctl"
          "rethrown"}   \* the client's exception

FetchInit == Init /\ reply = [p \in Payments |-> "none"]

Replied(p, what) == reply' = [reply EXCEPT ![p] = what]

\* The decision is pushed when the guard lets it pass, and popped by the response hook.
OnStack(p) == pc[p] \in {"approved", "settling"}

\* Mutant: a throw with a decision on the stack is taken for a refusal.
CatchAll(p) == IF OnStack(p) THEN "blocked" ELSE "rethrown"

\* The catch of guardedFetch(): the last decision of the request tells what happened.
Caught(p) == IF OnStack(p) /\ verdict[p] # "allow" THEN "blocked" ELSE "rethrown"

-----------------------------------------------------------------------------
\* onBeforePaymentCreation of a refused payment: the row first, then the abort.
Abort(p) ==
  /\ p \notin ConsentedTo
  /\ Insert(p)
  /\ Replied(p, "blocked")

\* The insert throws before the decision is pushed.
AbortUnwritten(p) ==
  /\ p \notin ConsentedTo
  /\ InsertFails(p)
  /\ Replied(p, "rethrown")

\* onAfterPaymentCreation throws, or the payload cannot be made: nothing is sent.
CreationFails(p) == SignFails(p) /\ Replied(p, Caught(p))

\* The payload is signed and the request sent again with it.
Create(p) == Sign(p) /\ UNCHANGED reply

\* No response: the payment may have been settled, the response hook never runs.
FetchThrows(p) == SettleThrows(p) /\ Replied(p, Caught(p))

\* onPaymentResponse, by the header of the response.
ResponseSettled(p) == SettleSucceeds(p) /\ UNCHANGED reply

\* A response that does not say success, which is the resource server's word: the
\* money may have moved, or may move yet.
Unsettled(p, told) ==
  /\ up
  /\ pc[p] = "settling"
  /\ outcome' = [outcome EXCEPT ![p] = told]
  /\ stamp' = [stamp EXCEPT ![p] = now]
  /\ Goto(p, "recording")
  /\ UNCHANGED <<now, up, cold, found, verdict, human, memory, breaker, log, chain, reply>>

\* The header says failure.
ResponseFailed(p) == Unsettled(p, "failure")

\* Mutant: a response without the header is taken for a settlement.
ResponseUnmarkedCounts(p) ==
  /\ up
  /\ pc[p] = "settling"
  /\ outcome' = [outcome EXCEPT ![p] = "success"]
  /\ Goto(p, "settled")
  /\ UNCHANGED <<now, up, cold, found, verdict, human, stamp, memory, breaker, log, chain, reply>>

\* There is no header, hence no settlement to record.
ResponseUnmarked(p) == Unsettled(p, "none")

\* Mutant: the response hook leaves the memory of the guard alone.
ObserveNothing(p) ==
  /\ up
  /\ pc[p] = "settled"
  /\ stamp' = [stamp EXCEPT ![p] = now]
  /\ Goto(p, "recording")
  /\ UNCHANGED <<now, up, cold, found, verdict, human, outcome, memory, breaker, log, chain, reply>>

ObserveResponse(p) == Observe(p) /\ UNCHANGED reply

RecordResponse(p) ==
  /\ p \in ConsentedTo
  /\ Insert(p)
  /\ Replied(p, "response")

\* The hook's exception replaces the response.
ResponseUnwritten(p) ==
  /\ p \in ConsentedTo
  /\ InsertFails(p)
  /\ Replied(p, "rethrown")

FetchSettlement(p) ==
  \/ Create(p) \/ CreationFails(p) \/ FetchThrows(p)
  \/ ResponseSettled(p) \/ ResponseFailed(p) \/ ResponseUnmarked(p)
  \/ ObserveResponse(p)
FetchRecording(p) ==
  \/ Abort(p) \/ AbortUnwritten(p)
  \/ RecordResponse(p) \/ ResponseUnwritten(p)

FetchNext ==
  \/ \E p \in Payments :
       /\ \/ Begin(p) \/ Evaluation(p)
          \/ Approve(p) \/ Deny(p) \/ Expire(p)
          \/ Land(p)
       /\ UNCHANGED reply
  \/ \E p \in Payments \ Fetches : (Settlement(p) \/ Recording(p)) /\ UNCHANGED reply
  \/ \E p \in Fetches : FetchSettlement(p) \/ FetchRecording(p)
  \/ (DryRun \/ ResetBreaker \/ Tick \/ Crash \/ Restart \/ RestartCold) /\ UNCHANGED reply

(***************************************************************************)
(* The event loop runs every continuation that is ready, timers fire, every *)
(* HTTP request (to the LLM, the facilitator, the resource server) is       *)
(* answered, fails or times out, and time passes.  Nothing is owed by the   *)
(* human approver, the operator or the caller, and nothing brings a process *)
(* back.                                                                    *)
(***************************************************************************)
FetchFairness ==
  /\ \A p \in Payments :
       /\ WF_fetchVars(Evaluation(p) /\ UNCHANGED reply)
       /\ WF_fetchVars(Expire(p) /\ UNCHANGED reply)
  /\ \A p \in Payments \ Fetches :
       /\ WF_fetchVars(Settlement(p) /\ UNCHANGED reply)
       /\ WF_fetchVars(Recording(p) /\ UNCHANGED reply)
  /\ \A p \in Fetches :
       /\ WF_fetchVars(FetchSettlement(p))
       /\ WF_fetchVars(FetchRecording(p))
  /\ WF_fetchVars(Tick /\ UNCHANGED reply)

FetchSpec == FetchInit /\ [][FetchNext]_fetchVars /\ FetchFairness

-----------------------------------------------------------------------------
(***************************************************************************)
(* The reply tells the truth.  "Payment blocked" to a payment no human had  *)
(* approved: nothing was signed and the refusal is in the log.  A response: *)
(* the payment has a row, settled exactly when its header said so.  An      *)
(* exception: no settlement is recorded.  (An approved escalation whose     *)
(* signing or request fails is also answered "blocked".)                    *)
(***************************************************************************)
ReplyIsHonest ==
  \A p \in Fetches :
    /\ reply[p] = "blocked" /\ human[p] # "approved"
         => auth[p] = "none" /\ EntryOf(p) # {}
    /\ reply[p] = "response"
         => \E e \in EntryOf(p) : e.settled <=> outcome[p] = "success"
    /\ reply[p] = "rethrown" => EntryOf(p) = {}

(***************************************************************************)
(* The guard counts what a response said was settled (index.ts:520): while  *)
(* it runs with its history, such a payment of the last day is in its spend *)
(* windows with its recipient known, after a restart as before it; and no   *)
(* payment is counted whose money had not moved.  What moved behind a       *)
(* header that said failure, or behind none, is not counted.                *)
(***************************************************************************)
FetchesAccountedFor ==
  /\ (up /\ ~cold) =>
       \A p \in Fetches :
         reply[p] = "response" /\ outcome[p] = "success" /\ Today(p) =>
           /\ \E s \in spends : s.id = p /\ s.ts >= landed[p]
           /\ Request[p].recipient \in seen
  /\ \A s \in spends : HasMoved(s.id)

(***************************************************************************)
(* Rows, signatures and money of a mix of fetches and execute() calls keep  *)
(* the promises of PaymentLedger; the unsettled row of a fetch stands for   *)
(* the word of the resource server, or its silence, and proves nothing.     *)
(***************************************************************************)
FetchLedger == INSTANCE PaymentLedger WITH
  Trusted <- IF Failover THEN {} ELSE Payments \ Fetches,
  consent <- ConsentedTo,
  money <- Money,
  row <- Row

FetchKeepsLedger == FetchLedger!Spec

(***************************************************************************)
(* A fetch ends with a reply, and every execute() ends, unless the process  *)
(* stops.                                                                   *)
(***************************************************************************)
EveryFetchEnds ==
  \A p \in Payments :
    /\ pc[p] # "idle" ~> pc[p] \in Ended
    /\ p \in Fetches => (pc[p] # "idle" ~> reply[p] # "none" \/ pc[p] = "lost")

=============================================================================
