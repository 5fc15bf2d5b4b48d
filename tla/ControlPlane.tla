---------------------------- MODULE ControlPlane ----------------------------
(***************************************************************************)
(* The approval queue and the HTTP control plane an operator resolves it    *)
(* through: a limiter per client address, a bearer token if one is set      *)
(* (by default none is), and requests that arrive late, out of order or     *)
(* twice.                                                                   *)
(*                                                                          *)
(* Source: packages/server/src/index.ts and                                 *)
(* packages/core/src/approval-queue.ts.                                     *)
(*                                                                          *)
(* GET /health changes nothing and is left out; /evaluate, /breaker,        *)
(* /breaker/reset, /report and unknown paths matter here for what they take *)
(* from the limiter (what they do to the breaker is AgentGuard's DryRun and *)
(* ResetBreaker).                                                           *)
(***************************************************************************)
EXTENDS Escalations, Sequences

CONSTANTS
  Clients,        \* remote addresses
  TokenSet,       \* whether ControlPlaneOptions.token is set
  MaxRequests,    \* RateLimitOptions.max
  LimitWindow,    \* RateLimitOptions.windowMs
  QueueTimeout    \* defaultTimeoutSeconds

ASSUME ControlPlaneAssumption ==
  /\ TokenSet \in BOOLEAN
  /\ MaxRequests \in Nat \ {0}
  /\ LimitWindow \in Nat \ {0}
  /\ QueueTimeout \in Nat

VARIABLES
  pending,   \* the keys of ApprovalQueue.pending
  listed,    \* ids an operator has seen in GET /approvals
  posts,     \* resolve requests the network may deliver, and deliver again
  replied,   \* for each id, the actions whose request was answered 200
  hits,      \* RateLimiter.hits; resetAt = 0 where there is no entry yet
  served     \* ghost: the times of the requests let through, by client

controlVars == <<pending, listed, posts, replied, hits, served>>

\* Operators hold the token; whoever else reaches the port does not.
Post == [id : Queued, approve : BOOLEAN, token : BOOLEAN]

ControlInit ==
  /\ pending = {}
  /\ listed = {}
  /\ posts = {}
  /\ replied = [e \in Queued |-> <<>>]
  /\ hits = [c \in Clients |-> [count |-> 0, resetAt |-> 0]]
  /\ served = [c \in Clients |-> <<>>]

-----------------------------------------------------------------------------
(* ApprovalQueue *)

Enqueue(e) ==
  /\ e \in Queued
  /\ Ask(e)
  /\ pending' = pending \cup {e}
  /\ UNCHANGED <<listed, posts, replied, hits, served>>

\* Mutant: the timer settles the promise and leaves the slot.
TimeoutKeepsSlot(e) ==
  /\ e \in pending
  /\ Elapsed(e, QueueTimeout)
  /\ Waiting(e)
  /\ Settled(e, FALSE)
  /\ UNCHANGED <<now, since, said, controlVars>>

Timeout(e) ==
  /\ e \in pending
  /\ Elapsed(e, QueueTimeout)
  /\ pending' = pending \ {e}
  /\ Settled(e, FALSE)
  /\ UNCHANGED <<now, since, said, listed, posts, replied, hits, served>>

-----------------------------------------------------------------------------
(* RateLimiter.allow() *)

Fresh(c) == now >= hits[c].resetAt

Allows(c) == Fresh(c) \/ hits[c].count < MaxRequests

\* Mutant: a request in a running window opens the next one.
ProlongingHit(c) ==
  /\ Allows(c)
  /\ hits' = [hits EXCEPT ![c] =
       [count |-> IF Fresh(c) THEN 1 ELSE hits[c].count + 1, resetAt |-> now + LimitWindow]]
  /\ served' = [served EXCEPT ![c] = Append(@, now)]

\* allow() says yes; when it says no it changes nothing and the client gets a 429.
Hit(c) ==
  /\ Allows(c)
  /\ hits' = [hits EXCEPT ![c] =
       IF Fresh(c)
       THEN [count |-> 1, resetAt |-> now + LimitWindow]
       ELSE [count |-> hits[c].count + 1, resetAt |-> hits[c].resetAt]]
  /\ served' = [served EXCEPT ![c] = Append(@, now)]

-----------------------------------------------------------------------------
(* handle() *)

\* GET /approvals by an operator, or by anybody when no token is set.
List(c) ==
  /\ Hit(c)
  /\ listed' = listed \cup pending
  /\ UNCHANGED <<escalationVars, pending, posts, replied>>

\* An operator decides about a payment on the list, or someone else sends an answer.
SendPost(id, approve, token) ==
  /\ id \in listed
  /\ posts' = posts \cup {[id |-> id, approve |-> approve, token |-> token]}
  /\ said' = IF token THEN said \cup {<<id, approve>>} ELSE said
  /\ UNCHANGED <<now, answer, since, pending, listed, replied, hits, served>>

\* What follows the limiter: 401 without the token that is set, 404 for an id
\* that is not pending.
Resolves(post) == (TokenSet => post.token) /\ post.id \in pending

\* POST /approvals/:id/approve|deny arrives, for the first time or again.
HandlePost(c, post) ==
  /\ Hit(c)
  /\ IF Resolves(post)
     THEN /\ pending' = pending \ {post.id}
          /\ Settled(post.id, post.approve)
          /\ replied' = [replied EXCEPT ![post.id] = Append(@, post.approve)]
     ELSE UNCHANGED <<answer, pending, replied>>
  /\ UNCHANGED <<now, since, said, listed, posts>>

\* Any other route, or a request that gets a 401.
OtherRequest(c) ==
  /\ Hit(c)
  /\ UNCHANGED <<escalationVars, pending, listed, posts, replied>>

ControlNext ==
  \/ \E e \in Queued : Enqueue(e) \/ Timeout(e)
  \/ \E c \in Clients :
       List(c) \/ OtherRequest(c) \/ \E post \in posts : HandlePost(c, post)
  \/ \E id \in listed, approve, token \in BOOLEAN : SendPost(id, approve, token)

-----------------------------------------------------------------------------
(***************************************************************************)
(* A 200 is the truth: whatever timers, late, repeated and contradictory    *)
(* requests there were, an id is answered 200 at most once, the payment got *)
(* that very answer, and none was approved without a 200.                   *)
(***************************************************************************)
RepliesAreTrue ==
  \A e \in Queued :
    /\ Len(replied[e]) <= 1
    /\ replied[e] # <<>> => answer[e] = IF Head(replied[e]) THEN "approved" ELSE "refused"
    /\ answer[e] = "approved" => replied[e] # <<>>

(***************************************************************************)
(* The limiter, measured against the requests it let through: in no         *)
(* interval of a window's length more than twice the maximum less one (the  *)
(* price of a fixed window), and never a 429 for a client that made fewer   *)
(* than the maximum in the window that ends now.                            *)
(***************************************************************************)
ServedFrom(c, t, len) ==
  Cardinality({i \in DOMAIN served[c] : t <= served[c][i] /\ served[c][i] < t + len})

LimiterBounds ==
  \A c \in Clients :
    /\ \A t \in 0..MaxTime : ServedFrom(c, t, LimitWindow) <= 2 * MaxRequests - 1
    /\ ServedFrom(c, now - LimitWindow + 1, LimitWindow) < MaxRequests => Allows(c)
=============================================================================
