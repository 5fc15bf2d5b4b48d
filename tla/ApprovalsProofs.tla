--------------------------- MODULE ApprovalsProofs ---------------------------
(***************************************************************************)
(* Proofs about Approvals, for any escalations, clients, timeouts and       *)
(* limits, and whether responses have to be signed or not.  What is answered *)
(* is told truly whether or not a token is set; that only humans approve    *)
(* needs the token.                                                         *)
(*                                                                          *)
(* The promises: a slot in the queue is a promise that waits, and whatever  *)
(* counts as an answer was said by a human.  The limiter: a window is       *)
(* opened by a request, so the requests of two windows reach further than   *)
(* one, and the running window's requests are the latest ones.              *)
(***************************************************************************)
EXTENDS Approvals, FiniteSetTheorems, SequenceTheorems, WellFoundedInduction, TLAPS

\* What stands behind each slot, request and response.
SlotsWait == \A e \in pending : Waiting(e) /\ replied[e] = <<>>
ListedWereAsked == \A e \in listed : answer[e] # "none"
UnaskedUnreplied == \A e \in Queued : answer[e] = "none" => replied[e] = <<>>
PostsAreWords == \A post \in posts : post.token => <<post.id, post.approve>> \in said
ResponsesAreWords == \A r \in responses : r.approved = "yes" => <<r.nonce, TRUE>> \in said

Inv ==
  /\ TypeOK /\ SlotsWait /\ ListedWereAsked /\ UnaskedUnreplied
  /\ PostsAreWords /\ ResponsesAreWords /\ RepliesAreTrue

\* Queued and posted escalations are different ones, and the constants have their types.
LEMMA Types ==
  /\ Queued \subseteq Questions /\ Posted \subseteq Questions /\ Queued \cap Posted = {}
  /\ MaxTime \in Nat /\ MaxRequests \in Nat \ {0} /\ LimitWindow \in Nat \ {0}
  /\ 0 \in 0..MaxTime /\ Elsewhere \notin Posted
BY EscalationAssumption, ControlPlaneAssumption, WebhookAssumption DEF Questions

\* The two answers a promise can get.
LEMMA SettledProps ==
  ASSUME TypeOK, NEW e \in Questions, NEW yes \in BOOLEAN, Settled(e, yes)
  PROVE  /\ answer' \in [Questions -> {"none", "waiting", "approved", "refused"}]
         /\ ~Waiting(e) => answer' = answer
         /\ Waiting(e) => answer' = [answer EXCEPT ![e] = IF yes THEN "approved" ELSE "refused"]
         /\ \A q \in Questions : q # e => answer'[q] = answer[q]
BY DEF TypeOK, Settled

\* A counted request keeps the limiter and its history in their types.
LEMMA HitType ==
  ASSUME TypeOK, NEW c \in Clients, Hit(c)
  PROVE  /\ hits' \in [Clients -> [count : 0..MaxRequests, resetAt : Nat]]
         /\ served' \in [Clients -> Seq(0..MaxTime)]
<1>1. /\ hits \in [Clients -> [count : 0..MaxRequests, resetAt : Nat]]
      /\ served \in [Clients -> Seq(0..MaxTime)] /\ now \in 0..MaxTime
  BY DEF TypeOK
<1>2. hits[c].count \in 0..MaxRequests /\ hits[c].resetAt \in Nat
  BY <1>1
<1>3. now + LimitWindow \in Nat /\ 1 \in 0..MaxRequests
  BY <1>1, Types
<1>4. ~Fresh(c) => hits[c].count + 1 \in 0..MaxRequests
  BY <1>2, Types DEF Hit, Allows
<1>5. served[c] \in Seq(0..MaxTime) /\ Append(served[c], now) \in Seq(0..MaxTime)
  BY <1>1
<1>6. hits' \in [Clients -> [count : 0..MaxRequests, resetAt : Nat]]
  <2>1. CASE Fresh(c)
    BY <1>1, <1>3, <2>1 DEF Hit
  <2>2. CASE ~Fresh(c)
    <3>1. hits' = [hits EXCEPT ![c] = [count |-> hits[c].count + 1, resetAt |-> hits[c].resetAt]]
      BY <2>2 DEF Hit
    <3> QED
      BY <1>1, <1>2, <1>4, <2>2, <3>1
  <2> QED
    BY <2>1, <2>2
<1>7. served' \in [Clients -> Seq(0..MaxTime)]
  <2>1. served' = [served EXCEPT ![c] = Append(served[c], now)]
    BY DEF Hit
  <2> QED
    BY <1>1, <1>5, <2>1
<1> QED
  BY <1>6, <1>7

-----------------------------------------------------------------------------
\* Nothing is asked at the start.
LEMMA InitInv == Init => Inv
<1> SUFFICES ASSUME Init
             PROVE  Inv
  OBVIOUS
<1> USE DEF Init, EscalationInit, ControlInit, WebhookInit
<1>1. TypeOK
  <2>1. /\ now \in 0..MaxTime
        /\ answer \in [Questions -> {"none", "waiting", "approved", "refused"}]
        /\ since \in [Questions -> 0..MaxTime]
        /\ said \subseteq Questions \X BOOLEAN
        /\ pending \subseteq Queued /\ listed \subseteq Queued
        /\ posts \subseteq Post /\ responses \subseteq Response
    BY Types
  <2>2. replied \in [Queued -> Seq(BOOLEAN)]
    OBVIOUS
  <2>3. hits \in [Clients -> [count : 0..MaxRequests, resetAt : Nat]]
    BY Types
  <2>4. served \in [Clients -> Seq(0..MaxTime)]
    OBVIOUS
  <2> QED
    BY <2>1, <2>2, <2>3, <2>4 DEF TypeOK
<1>2. SlotsWait /\ ListedWereAsked /\ UnaskedUnreplied /\ PostsAreWords /\ ResponsesAreWords
  BY DEF SlotsWait, ListedWereAsked, UnaskedUnreplied, PostsAreWords, ResponsesAreWords
<1>3. \A e \in Queued : replied[e] = <<>> /\ answer[e] = "none"
  BY Types
<1>4. RepliesAreTrue
  <2>1. Len(<<>>) <= 1 /\ "none" # "approved"
    OBVIOUS
  <2> HIDE DEF Init, EscalationInit, ControlInit, WebhookInit
  <2> QED
    BY <1>3, <2>1 DEF RepliesAreTrue
<1> QED
  BY <1>1, <1>2, <1>4 DEF Inv

(***************************************************************************)
(* A step that only takes from the limiter, or lets time pass.              *)
(***************************************************************************)
LEMMA QuietStep ==
  ASSUME Inv, UNCHANGED <<answer, since, said, pending, listed, posts, replied, responses>>,
         now' \in 0..MaxTime,
         hits' \in [Clients -> [count : 0..MaxRequests, resetAt : Nat]],
         served' \in [Clients -> Seq(0..MaxTime)]
  PROVE  Inv'
BY DEF Inv, TypeOK, SlotsWait, Waiting, ListedWereAsked, UnaskedUnreplied, PostsAreWords,
       ResponsesAreWords, RepliesAreTrue

\* enqueue(): a slot in the queue and a question to a human.
LEMMA EnqueueStep ==
  ASSUME Inv, NEW e \in Queued, Enqueue(e), UNCHANGED responses
  PROVE  Inv' /\ Contract!Ask(e)
<1>1. /\ answer[e] = "none" /\ answer' = [answer EXCEPT ![e] = "waiting"]
      /\ since' = [since EXCEPT ![e] = now] /\ pending' = pending \cup {e}
      /\ UNCHANGED <<now, said, listed, posts, replied, hits, served, responses>>
  BY DEF Enqueue, Ask
<1>2. e \in Questions
  BY Types
<1>3. TypeOK'
  BY <1>1, <1>2 DEF Inv, TypeOK
<1>4. SlotsWait' /\ UnaskedUnreplied' /\ ListedWereAsked'
  BY <1>1, <1>2, Types DEF Inv, TypeOK, SlotsWait, Waiting, UnaskedUnreplied, ListedWereAsked
<1>5. RepliesAreTrue'
  BY <1>1, <1>2, Types DEF Inv, TypeOK, UnaskedUnreplied, RepliesAreTrue
<1>6. PostsAreWords' /\ ResponsesAreWords'
  BY <1>1 DEF Inv, PostsAreWords, ResponsesAreWords
<1> QED
  BY <1>1, <1>3, <1>4, <1>5, <1>6 DEF Inv, Contract!Ask

\* The expiry timer: the slot goes, and the answer is a refusal.
LEMMA TimeoutStep ==
  ASSUME Inv, NEW e \in Queued, Timeout(e), UNCHANGED responses
  PROVE  Inv' /\ Contract!Refuse(e)
<1>1. /\ e \in pending /\ Settled(e, FALSE) /\ pending' = pending \ {e}
      /\ UNCHANGED <<now, since, said, listed, posts, replied, hits, served, responses>>
  BY DEF Timeout
<1>2. e \in Questions /\ Waiting(e) /\ replied[e] = <<>>
  BY <1>1, Types DEF Inv, SlotsWait
<1>3. answer' = [answer EXCEPT ![e] = "refused"]
  BY <1>1, <1>2 DEF Settled
<1>4. TypeOK'
  BY <1>1, <1>2, <1>3 DEF Inv, TypeOK
<1>5. SlotsWait' /\ ListedWereAsked' /\ UnaskedUnreplied'
  BY <1>1, <1>2, <1>3, Types
  DEF Inv, TypeOK, SlotsWait, Waiting, ListedWereAsked, UnaskedUnreplied
<1>6. RepliesAreTrue'
  BY <1>1, <1>2, <1>3, Types DEF Inv, TypeOK, RepliesAreTrue
<1>7. PostsAreWords' /\ ResponsesAreWords'
  BY <1>1 DEF Inv, PostsAreWords, ResponsesAreWords
<1> QED
  BY <1>1, <1>2, <1>3, <1>4, <1>5, <1>6, <1>7 DEF Inv, Waiting, Contract!Refuse

\* GET /approvals only shows what waits.
LEMMA ListStep ==
  ASSUME Inv, NEW c \in Clients, List(c), UNCHANGED responses
  PROVE  Inv' /\ UNCHANGED <<answer, said>>
<1>1. /\ Hit(c) /\ listed' = listed \cup pending
      /\ UNCHANGED <<now, answer, since, said, pending, posts, replied, responses>>
  BY DEF List, escalationVars
<1>2. TypeOK'
  BY <1>1, HitType DEF Inv, TypeOK
<1>3. ListedWereAsked'
  BY <1>1 DEF Inv, ListedWereAsked, SlotsWait, Waiting
<1>4. SlotsWait' /\ UnaskedUnreplied' /\ PostsAreWords' /\ ResponsesAreWords' /\ RepliesAreTrue'
  BY <1>1 DEF Inv, SlotsWait, Waiting, UnaskedUnreplied, PostsAreWords, ResponsesAreWords,
              RepliesAreTrue
<1> QED
  BY <1>1, <1>2, <1>3, <1>4 DEF Inv

\* An operator sends an answer: it becomes his word, if he has the token.
LEMMA SendPostStep ==
  ASSUME Inv, NEW id \in listed, NEW approve \in BOOLEAN, NEW token \in BOOLEAN,
         SendPost(id, approve, token), UNCHANGED responses
  PROVE  Inv' /\ (UNCHANGED <<answer, said>> \/ Contract!Say(id, approve))
<1> DEFINE post == [id |-> id, approve |-> approve, token |-> token]
<1>1. /\ posts' = posts \cup {post}
      /\ said' = IF token THEN said \cup {<<id, approve>>} ELSE said
      /\ UNCHANGED <<now, answer, since, pending, listed, replied, hits, served, responses>>
  BY DEF SendPost
<1>2. id \in Queued /\ id \in Questions /\ answer[id] # "none"
  BY Types DEF Inv, TypeOK, ListedWereAsked
<1>3. post \in Post /\ post.id = id /\ post.approve = approve /\ post.token = token
  BY <1>2 DEF Post
<1>4. said \subseteq said' /\ (token => <<id, approve>> \in said')
  BY <1>1
<1>5. TypeOK'
  BY <1>1, <1>2, <1>3 DEF Inv, TypeOK
<1>6. PostsAreWords' /\ ResponsesAreWords'
  BY <1>1, <1>3, <1>4 DEF Inv, PostsAreWords, ResponsesAreWords
<1>7. SlotsWait' /\ ListedWereAsked' /\ UnaskedUnreplied' /\ RepliesAreTrue'
  BY <1>1 DEF Inv, SlotsWait, Waiting, ListedWereAsked, UnaskedUnreplied, RepliesAreTrue
<1>8. UNCHANGED <<answer, said>> \/ Contract!Say(id, approve)
  BY <1>1, <1>2 DEF Contract!Say
<1> QED
  BY <1>5, <1>6, <1>7, <1>8 DEF Inv

(***************************************************************************)
(* A request resolves a pending id once: the slot is gone with the answer.  *)
(***************************************************************************)
LEMMA HandlePostStep ==
  ASSUME Inv, NEW c \in Clients, NEW post \in posts, HandlePost(c, post), UNCHANGED responses
  PROVE  Inv' /\ (TokenSet => \/ UNCHANGED <<answer, said>>
                              \/ Contract!Approve(post.id)
                              \/ Contract!Refuse(post.id))
<1>1. Hit(c) /\ UNCHANGED <<now, since, said, listed, posts, responses>>
  BY DEF HandlePost
<1>2. CASE ~Resolves(post)
  <2>1. UNCHANGED <<answer, pending, replied>>
    BY <1>2 DEF HandlePost
  <2> QED
    BY <1>1, <2>1, HitType, QuietStep DEF Inv, TypeOK
<1>3. CASE Resolves(post)
  <2> DEFINE e == post.id
             yes == post.approve
  <2>1. /\ pending' = pending \ {e} /\ Settled(e, yes)
        /\ replied' = [replied EXCEPT ![e] = Append(replied[e], yes)]
    BY <1>3 DEF HandlePost
  <2>2. e \in pending /\ (TokenSet => post.token)
    BY <1>3 DEF Resolves
  <2>3. e \in Queued /\ e \in Questions /\ yes \in BOOLEAN
    BY Types DEF Inv, TypeOK, Post
  <2>4. Waiting(e) /\ replied[e] = <<>> /\ (TokenSet => <<e, yes>> \in said)
    BY <2>2 DEF Inv, SlotsWait, PostsAreWords
  <2>5. answer' = [answer EXCEPT ![e] = IF yes THEN "approved" ELSE "refused"]
    BY <2>1, <2>4 DEF Settled
  <2> HIDE DEF e, yes
  <2>6. replied' = [replied EXCEPT ![e] = <<yes>>]
    BY <2>1, <2>3, <2>4
  <2>7. TypeOK'
    <3>1. <<yes>> \in Seq(BOOLEAN)
      BY <2>3
    <3>2. answer' \in [Questions -> {"none", "waiting", "approved", "refused"}]
      BY <2>3, <2>5 DEF Inv, TypeOK
    <3> QED
      BY <1>1, <2>1, <2>3, <2>6, <3>1, <3>2, HitType DEF Inv, TypeOK
  <2>8. answer'[e] = (IF yes THEN "approved" ELSE "refused") /\ answer'[e] # "none"
    BY <2>3, <2>5 DEF Inv, TypeOK
  <2>9. \A q \in Queued : q # e => answer'[q] = answer[q] /\ replied'[q] = replied[q]
    BY <2>5, <2>6, Types DEF Inv, TypeOK
  <2>10. replied'[e] = <<yes>> /\ Len(<<yes>>) = 1 /\ Head(<<yes>>) = yes /\ <<yes>> # <<>>
    BY <2>3, <2>6 DEF Inv, TypeOK
  <2>11. SlotsWait' /\ ListedWereAsked' /\ UnaskedUnreplied'
    BY <1>1, <2>1, <2>8, <2>9 DEF Inv, TypeOK, SlotsWait, Waiting, ListedWereAsked, UnaskedUnreplied
  <2>12. RepliesAreTrue'
    <3>1. /\ Len(replied'[e]) <= 1
          /\ answer'[e] = IF Head(replied'[e]) THEN "approved" ELSE "refused"
          /\ replied'[e] # <<>>
      <4>1. Len(replied'[e]) = 1 /\ Head(replied'[e]) = yes /\ replied'[e] # <<>>
        BY <2>10
      <4>2. Len(replied'[e]) <= 1
        BY <4>1
      <4>3. answer'[e] = IF Head(replied'[e]) THEN "approved" ELSE "refused"
        BY <2>8, <4>1, Zenon
      <4> QED
        BY <4>1, <4>2, <4>3
    <3>2. ASSUME NEW q \in Queued, q # e
          PROVE  /\ Len(replied'[q]) <= 1
                 /\ replied'[q] # <<>> =>
                      answer'[q] = IF Head(replied'[q]) THEN "approved" ELSE "refused"
                 /\ answer'[q] = "approved" => replied'[q] # <<>>
      BY <2>9, <3>2 DEF Inv, RepliesAreTrue
    <3> QED
      BY <3>1, <3>2 DEF RepliesAreTrue
  <2>13. PostsAreWords' /\ ResponsesAreWords'
    BY <1>1 DEF Inv, PostsAreWords, ResponsesAreWords
  <2>14. TokenSet => Contract!Approve(e) \/ Contract!Refuse(e)
    BY <1>1, <2>3, <2>4, <2>5 DEF Waiting, Contract!Approve, Contract!Refuse
  <2> QED
    BY <2>7, <2>11, <2>12, <2>13, <2>14 DEF Inv, e
<1> QED
  BY <1>2, <1>3

\* Every step of the control plane behind a token is one of HumanApproval, or none.
LEMMA ControlStep ==
  ASSUME Inv, ControlNext, UNCHANGED responses
  PROVE  Inv' /\ (TokenSet => [Contract!Next]_(Contract!vars))
<1>1. CASE \E e \in Queued : Enqueue(e) \/ Timeout(e)
  BY <1>1, EnqueueStep, TimeoutStep, Types DEF Contract!Next
<1>2. CASE \E c \in Clients : List(c)
  BY <1>2, ListStep DEF Contract!vars
<1>3. CASE \E c \in Clients : OtherRequest(c)
  <2>1. PICK c \in Clients : OtherRequest(c)
    BY <1>3
  <2>2. Hit(c) /\ UNCHANGED <<now, answer, since, said, pending, listed, posts, replied>>
    BY <2>1 DEF OtherRequest, escalationVars
  <2> QED
    BY <2>2, HitType, QuietStep DEF Inv, TypeOK, Contract!vars
<1>4. CASE \E c \in Clients, post \in posts : HandlePost(c, post)
  <2>1. PICK c \in Clients, post \in posts : HandlePost(c, post)
    BY <1>4
  <2>2. post.id \in Questions
    BY Types DEF Inv, TypeOK, Post
  <2> QED
    BY <2>1, <2>2, HandlePostStep DEF Contract!Next, Contract!vars
<1>5. CASE \E id \in listed, approve, token \in BOOLEAN : SendPost(id, approve, token)
  <2>1. listed \subseteq Questions
    BY Types DEF Inv, TypeOK
  <2> QED
    BY <1>5, <2>1, SendPostStep DEF Contract!Next, Contract!vars
<1> QED
  BY <1>1, <1>2, <1>3, <1>4, <1>5 DEF ControlNext

-----------------------------------------------------------------------------
(***************************************************************************)
(* Of all that may arrive on a request, only a response some human gave to  *)
(* this very escalation passes.                                             *)
(***************************************************************************)
LEMMA BelievedWasSaid ==
  ASSUME Inv, NEW e \in Posted, NEW r \in Deliverable, Believed(e, r)
  PROVE  <<e, TRUE>> \in said
<1>1. /\ RequireSigned => r.signed
      /\ r.approved = "yes" /\ r.nonce = e
  BY DEF Believed, SignatureOk
<1>2. CASE r \in responses
  BY <1>1, <1>2 DEF Inv, ResponsesAreWords
<1>3. CASE r = Misrouted
  BY <1>1, <1>3, Types DEF Misrouted
<1>4. CASE \E q \in Posted : r = Event(q)
  BY <1>1, <1>4 DEF Event
<1>5. CASE RequireSigned /\ \E q \in Posted : r = Page(q)
  BY <1>1, <1>5 DEF Page
<1> QED
  BY <1>2, <1>3, <1>4, <1>5 DEF Deliverable

\* The webhook call: a question to a human.
LEMMA PostEventStep ==
  ASSUME Inv, NEW e \in Posted, PostEvent(e), UNCHANGED controlVars
  PROVE  Inv' /\ Contract!Ask(e)
<1>1. /\ answer[e] = "none" /\ answer' = [answer EXCEPT ![e] = "waiting"]
      /\ since' = [since EXCEPT ![e] = now]
      /\ UNCHANGED <<now, said, pending, listed, posts, replied, hits, served, responses>>
  BY DEF PostEvent, Ask, controlVars
<1>2. e \in Questions /\ e \notin Queued
  BY Types
<1>3. TypeOK'
  BY <1>1, <1>2 DEF Inv, TypeOK
<1>4. SlotsWait' /\ UnaskedUnreplied' /\ ListedWereAsked'
  BY <1>1, <1>2, Types DEF Inv, TypeOK, SlotsWait, Waiting, UnaskedUnreplied, ListedWereAsked
<1>5. RepliesAreTrue'
  BY <1>1, <1>2, Types DEF Inv, TypeOK, RepliesAreTrue
<1>6. PostsAreWords' /\ ResponsesAreWords'
  BY <1>1 DEF Inv, PostsAreWords, ResponsesAreWords
<1> QED
  BY <1>1, <1>2, <1>3, <1>4, <1>5, <1>6 DEF Inv, Contract!Ask

\* The approver answers: his word, signed.
LEMMA RespondStep ==
  ASSUME Inv, NEW e \in Posted, NEW yes \in BOOLEAN, Respond(e, yes), UNCHANGED controlVars
  PROVE  Inv' /\ Contract!Say(e, yes)
<1> DEFINE r == [nonce |-> e, approved |-> IF yes THEN "yes" ELSE "no", signed |-> TRUE, ts |-> now]
<1>1. /\ answer[e] # "none"
      /\ said' = said \cup {<<e, yes>>} /\ responses' = responses \cup {r}
      /\ UNCHANGED <<now, answer, since, pending, listed, posts, replied, hits, served>>
  BY DEF Respond, controlVars
<1>2. e \in Questions
  BY Types
<1>3. r \in Response
  BY DEF Inv, TypeOK, Response
<1> HIDE DEF r
<1>4. TypeOK'
  <2>1. said' \subseteq Questions \X BOOLEAN /\ responses' \subseteq Response
    BY <1>1, <1>2, <1>3 DEF Inv, TypeOK
  <2> QED
    BY <1>1, <2>1 DEF Inv, TypeOK
<1>5. r.approved = "yes" => <<r.nonce, TRUE>> \in said'
  BY <1>1 DEF r
<1>6. PostsAreWords' /\ ResponsesAreWords'
  BY <1>1, <1>5 DEF Inv, PostsAreWords, ResponsesAreWords
<1>7. SlotsWait' /\ ListedWereAsked' /\ UnaskedUnreplied' /\ RepliesAreTrue'
  BY <1>1 DEF Inv, SlotsWait, Waiting, ListedWereAsked, UnaskedUnreplied, RepliesAreTrue
<1> QED
  BY <1>1, <1>2, <1>4, <1>6, <1>7 DEF Inv, Contract!Say

\* A response, an error or the timer settles the promise.
LEMMA SettleStep ==
  ASSUME Inv, NEW e \in Posted, NEW yes \in BOOLEAN, Waiting(e), Settled(e, yes),
         yes => <<e, TRUE>> \in said,
         UNCHANGED <<now, since, said, responses, controlVars>>
  PROVE  Inv' /\ (Contract!Approve(e) \/ Contract!Refuse(e))
<1>1. /\ answer' = [answer EXCEPT ![e] = IF yes THEN "approved" ELSE "refused"]
      /\ UNCHANGED <<now, since, said, pending, listed, posts, replied, hits, served, responses>>
  BY DEF Settled, controlVars
<1>2. e \in Questions /\ e \notin Queued
  BY Types
<1>3. TypeOK'
  BY <1>1, <1>2 DEF Inv, TypeOK
<1>4. SlotsWait' /\ ListedWereAsked' /\ UnaskedUnreplied'
  BY <1>1, <1>2, Types DEF Inv, TypeOK, SlotsWait, Waiting, ListedWereAsked, UnaskedUnreplied
<1>5. RepliesAreTrue'
  BY <1>1, <1>2, Types DEF Inv, TypeOK, RepliesAreTrue
<1>6. PostsAreWords' /\ ResponsesAreWords'
  BY <1>1 DEF Inv, PostsAreWords, ResponsesAreWords
<1>7. Contract!Approve(e) \/ Contract!Refuse(e)
  BY <1>1 DEF Waiting, Contract!Approve, Contract!Refuse
<1> QED
  BY <1>3, <1>4, <1>5, <1>6, <1>7 DEF Inv

\* Every step of the webhook is one of HumanApproval, or none.
LEMMA WebhookStep ==
  ASSUME Inv, WebhookNext, UNCHANGED controlVars
  PROVE  Inv' /\ [Contract!Next]_(Contract!vars)
<1> PICK e \in Posted :
      \/ PostEvent(e) \/ Abort(e) \/ PostFails(e)
      \/ \E yes \in BOOLEAN : Respond(e, yes)
      \/ \E r \in Deliverable : Receive(e, r)
  BY DEF WebhookNext
<1>1. e \in Questions
  BY Types
<1>2. CASE PostEvent(e)
  BY <1>1, <1>2, PostEventStep DEF Contract!Next
<1>3. CASE \E yes \in BOOLEAN : Respond(e, yes)
  BY <1>1, <1>3, RespondStep DEF Contract!Next
<1>4. CASE Abort(e) \/ PostFails(e)
  BY <1>1, <1>4, SettleStep DEF Abort, PostFails, Contract!Next
<1>5. CASE \E r \in Deliverable : Receive(e, r)
  <2>1. PICK r \in Deliverable : Receive(e, r)
    BY <1>5
  <2>2. /\ Waiting(e) /\ Settled(e, Believed(e, r))
        /\ UNCHANGED <<now, since, said, responses>>
    BY <2>1 DEF Receive
  <2>3. CASE Believed(e, r)
    <3>1. Settled(e, TRUE)
      BY <2>2, <2>3 DEF Settled
    <3> QED
      BY <1>1, <2>2, <2>3, <3>1, BelievedWasSaid, SettleStep DEF Contract!Next
  <2>4. CASE ~Believed(e, r)
    <3>1. Settled(e, FALSE)
      BY <2>2, <2>4 DEF Settled
    <3> QED
      BY <1>1, <2>2, <3>1, SettleStep DEF Contract!Next
  <2> QED
    BY <2>3, <2>4
<1> QED
  BY <1>2, <1>3, <1>4, <1>5

-----------------------------------------------------------------------------
\* Both ways side by side, and the clock.
LEMMA Step ==
  ASSUME Inv, [Next]_vars
  PROVE  Inv' /\ (TokenSet => [Contract!Next]_(Contract!vars))
<1>1. CASE ControlNext /\ UNCHANGED responses
  BY <1>1, ControlStep
<1>2. CASE WebhookNext /\ UNCHANGED controlVars
  BY <1>2, WebhookStep
<1>3. CASE Tick \/ UNCHANGED vars
  <2>1. /\ UNCHANGED <<answer, since, said, pending, listed, posts, replied, hits, served, responses>>
        /\ now' \in 0..MaxTime
    BY <1>3, Types DEF Tick, vars, escalationVars, controlVars, Inv, TypeOK
  <2> QED
    BY <2>1, QuietStep DEF Inv, TypeOK, Contract!vars
<1> QED
  BY <1>1, <1>2, <1>3 DEF Next

(***************************************************************************)
(* Inv holds in every reachable state.                                      *)
(***************************************************************************)
THEOREM Invariant == Spec => []Inv
<1>1. Inv /\ [Next]_vars => Inv'
  BY Step
<1> QED
  BY InitInv, <1>1, PTL DEF Spec

(***************************************************************************)
(* The queue, the limiter and the promises have their types; no counter of  *)
(* the limiter passes its maximum.                                          *)
(***************************************************************************)
THEOREM TypeCorrect == Spec => []TypeOK
<1>1. Inv => TypeOK
  BY DEF Inv
<1> QED
  BY Invariant, <1>1, PTL

(***************************************************************************)
(* A 200 from the control plane is the answer the payment got, and no       *)
(* payment in the queue is approved without one.                            *)
(***************************************************************************)
THEOREM OperatorsAreToldTheTruth == Spec => []RepliesAreTrue
<1>1. Inv => RepliesAreTrue
  BY DEF Inv
<1> QED
  BY Invariant, <1>1, PTL

(***************************************************************************)
(* Queue, control plane with a token and webhook implement HumanApproval:   *)
(* one answer each, and an approval is a human's word on this escalation.   *)
(***************************************************************************)
THEOREM ImplementsHumanApproval ==
  ASSUME TokenSet
  PROVE  Spec => AsksHumans
<1>1. Init => Contract!Init
  BY DEF Init, EscalationInit, Contract!Init
<1>2. Inv /\ [Next]_vars => [Contract!Next]_(Contract!vars)
  BY Step
<1> QED
  BY Invariant, <1>1, <1>2, PTL DEF Spec, AsksHumans, Contract!Spec

-----------------------------------------------------------------------------
(* The limiter. *)

\* The times s let through until t, given the entry of the limiter: in order; the last `count`
\* are of the running window, which the first of them opened; the window before was over by
\* then; and so 2 * MaxRequests requests take longer than a window.
Admitted(s, entry, t) ==
  LET n      == Len(s)
      opener == n - entry.count + 1
  IN  /\ entry.count <= n /\ (n > 0 => entry.count > 0) /\ (n = 0 => entry.resetAt = 0)
      /\ \A i \in 1..n : s[i] <= t /\ \A j \in i..n : s[i] <= s[j]
      /\ n > 0 => s[opener] = entry.resetAt - LimitWindow
      /\ opener - MaxRequests \in 1..n => s[opener - MaxRequests] + LimitWindow <= s[opener]
      /\ \A i \in 1..n : i + 2 * MaxRequests - 1 <= n =>
           s[i] + LimitWindow <= s[i + 2 * MaxRequests - 1]

\* It holds of every client.
LimiterInv == \A c \in Clients : Admitted(served[c], hits[c], now)

\* What RateLimiter.hits holds for a client.
Entries == [count : 0..MaxRequests, resetAt : Nat]

(***************************************************************************)
(* A request that finds the window over opens the next one.                 *)
(***************************************************************************)
LEMMA OpeningHit ==
  ASSUME NEW s \in Seq(0..MaxTime), NEW entry \in Entries, NEW t \in 0..MaxTime,
         Admitted(s, entry, t), t >= entry.resetAt
  PROVE  Admitted(Append(s, t), [count |-> 1, resetAt |-> t + LimitWindow], t)
<1> DEFINE n == Len(s)
           a == Append(s, t)
           opener == n - entry.count + 1
<1>1. /\ MaxRequests \in Nat /\ MaxRequests >= 1 /\ LimitWindow \in Nat /\ LimitWindow >= 1
      /\ MaxTime \in Nat /\ t \in Nat
  BY Types
<1>2. n \in Nat /\ entry.count \in 0..MaxRequests /\ entry.resetAt \in Nat
  BY LenProperties DEF Entries
<1>3. \A i \in 1..n : s[i] \in Nat
  BY <1>1, ElementOfSeq
<1>4. Len(a) = n + 1 /\ a[n + 1] = t /\ \A i \in 1..n : a[i] = s[i]
  BY AppendProperties
<1>5. /\ entry.count <= n /\ (n > 0 => entry.count > 0)
      /\ \A i \in 1..n : s[i] <= t /\ \A j \in i..n : s[i] <= s[j]
      /\ n > 0 => s[opener] = entry.resetAt - LimitWindow
      /\ \A i \in 1..n : i + 2 * MaxRequests - 1 <= n =>
           s[i] + LimitWindow <= s[i + 2 * MaxRequests - 1]
  BY DEF Admitted
<1> HIDE DEF n, a
\* What was let through before the opener of the old window is a window old.
<1>6. ASSUME NEW i \in 1..n, i <= opener
      PROVE  s[i] + LimitWindow <= t
  <2>1. opener \in i..n /\ n > 0
    BY <1>2, <1>5, <1>6
  <2>2. s[i] <= s[opener]
    BY <1>5, <2>1
  <2>3. s[opener] = entry.resetAt - LimitWindow
    BY <1>5, <2>1
  <2>4. s[i] \in Nat /\ s[opener] \in Nat
    BY <1>2, <1>3, <1>5, <2>1
  <2>5. s[opener] + LimitWindow = entry.resetAt
    BY <1>1, <1>2, <2>3
  <2> HIDE DEF opener
  <2> QED
    BY <1>1, <1>2, <2>2, <2>4, <2>5
<1>7. \A i \in 1..n + 1 : a[i] <= t /\ \A j \in i..n + 1 : a[i] <= a[j]
  <2>1. ASSUME NEW i \in 1..n + 1, NEW j \in i..n + 1
        PROVE  a[i] <= t /\ a[i] <= a[j]
    <3>1. CASE i = n + 1
      BY <1>1, <1>2, <1>4, <3>1
    <3>2. CASE i \in 1..n /\ j = n + 1
      BY <1>1, <1>4, <1>5, <3>2
    <3>3. CASE i \in 1..n /\ j \in i..n
      <4>1. a[i] = s[i] /\ a[j] = s[j]
        BY <1>2, <1>4, <3>3
      <4> QED
        BY <1>5, <3>3, <4>1
    <3> QED
      BY <1>2, <3>1, <3>2, <3>3
  <2>2. \A i \in 1..n + 1 : i \in i..n + 1
    BY <1>2
  <2> QED
    BY <2>1, <2>2
<1>8. ASSUME (n + 1) - MaxRequests \in 1..n + 1
      PROVE  a[(n + 1) - MaxRequests] + LimitWindow <= a[n + 1]
  <2>1. (n + 1) - MaxRequests \in 1..n /\ (n + 1) - MaxRequests <= opener
    BY <1>1, <1>2, <1>8
  <2> QED
    BY <1>4, <1>6, <2>1
<1>9. ASSUME NEW i \in 1..n + 1, i + 2 * MaxRequests - 1 <= n + 1
      PROVE  a[i] + LimitWindow <= a[i + 2 * MaxRequests - 1]
  <2>1. CASE i + 2 * MaxRequests - 1 <= n
    <3>1. i \in 1..n /\ i + 2 * MaxRequests - 1 \in 1..n
      BY <1>1, <1>2, <2>1
    <3> QED
      BY <1>4, <1>5, <2>1, <3>1
  <2>2. CASE i + 2 * MaxRequests - 1 = n + 1
    <3>1. i \in 1..n /\ i <= opener
      BY <1>1, <1>2, <2>2
    <3> QED
      BY <1>4, <1>6, <2>2, <3>1
  <2> QED
    BY <1>1, <1>2, <1>9, <2>1, <2>2
<1> DEFINE e == [count |-> 1, resetAt |-> t + LimitWindow]
<1>12. e.count = 1 /\ e.resetAt = t + LimitWindow
  OBVIOUS
<1> HIDE DEF opener, e
<1>13. Admitted(a, e, t)
  <2> DEFINE m == n + 1
  <2>1. Len(a) - e.count + 1 = m /\ Len(a) = m /\ e.count <= m /\ e.count > 0 /\ m # 0
    BY <1>2, <1>4, <1>12
  <2>2. e.resetAt - LimitWindow = t /\ a[m] = t
    BY <1>1, <1>4, <1>12
  <2>3. m - MaxRequests \in 1..m => a[m - MaxRequests] + LimitWindow <= a[m]
    BY <1>8
  <2>4. \A i \in 1..m : i + 2 * MaxRequests - 1 <= m =>
          a[i] + LimitWindow <= a[i + 2 * MaxRequests - 1]
    BY <1>9
  <2>5. \A i \in 1..m : a[i] <= t /\ \A j \in i..m : a[i] <= a[j]
    BY <1>7
  <2> HIDE DEF m
  <2> QED
    BY <2>1, <2>2, <2>3, <2>4, <2>5 DEF Admitted
<1> QED
  BY <1>13 DEF a, e

(***************************************************************************)
(* A request that is counted in the running window.                         *)
(***************************************************************************)
LEMMA CountedHit ==
  ASSUME NEW s \in Seq(0..MaxTime), NEW entry \in Entries, NEW t \in 0..MaxTime,
         Admitted(s, entry, t), t < entry.resetAt, entry.count < MaxRequests, Len(s) > 0
  PROVE  Admitted(Append(s, t), [count |-> entry.count + 1, resetAt |-> entry.resetAt], t)
<1> DEFINE n == Len(s)
           a == Append(s, t)
           opener == n - entry.count + 1
<1>1. /\ MaxRequests \in Nat /\ MaxRequests >= 1 /\ LimitWindow \in Nat /\ LimitWindow >= 1
      /\ MaxTime \in Nat /\ t \in Nat
  BY Types
<1>2. n \in Nat /\ n > 0 /\ entry.count \in 0..MaxRequests /\ entry.resetAt \in Nat
  BY LenProperties DEF Entries
<1>3. \A i \in 1..n : s[i] \in Nat
  BY <1>1, ElementOfSeq
<1>4. Len(a) = n + 1 /\ a[n + 1] = t /\ \A i \in 1..n : a[i] = s[i]
  BY AppendProperties
<1>5. /\ entry.count <= n /\ (n > 0 => entry.count > 0)
      /\ \A i \in 1..n : s[i] <= t /\ \A j \in i..n : s[i] <= s[j]
      /\ n > 0 => s[opener] = entry.resetAt - LimitWindow
      /\ opener - MaxRequests \in 1..n => s[opener - MaxRequests] + LimitWindow <= s[opener]
      /\ \A i \in 1..n : i + 2 * MaxRequests - 1 <= n =>
           s[i] + LimitWindow <= s[i + 2 * MaxRequests - 1]
  BY DEF Admitted
<1> HIDE DEF n, a
<1>6. opener \in 1..n /\ opener = n + 1 - (entry.count + 1) + 1
  BY <1>2, <1>5
<1> HIDE DEF opener
\* What was let through before the window that came before is a window old.
<1>7. ASSUME NEW i \in 1..n, i <= opener - MaxRequests
      PROVE  s[i] + LimitWindow <= t
  <2>0. opener \in 1..n /\ n \in Nat /\ MaxRequests \in Nat /\ MaxRequests >= 1
    BY <1>1, <1>2, <1>6
  <2>1. opener - MaxRequests \in i..n /\ opener - MaxRequests \in 1..n
    BY <1>7, <2>0
  <2>2. s[i] <= s[opener - MaxRequests] /\ s[opener - MaxRequests] + LimitWindow <= s[opener]
    BY <1>5, <2>1
  <2>3. s[opener] <= t
    BY <1>5, <1>6
  <2>4. s[i] \in Nat /\ s[opener] \in Nat /\ s[opener - MaxRequests] \in Nat
    BY <1>3, <1>6, <2>1
  <2>5. \A x, y, z \in Nat : x <= y /\ y + LimitWindow <= z /\ z <= t => x + LimitWindow <= t
    BY <1>1
  <2> QED
    BY <2>2, <2>3, <2>4, <2>5
<1>8. \A i \in 1..n + 1 : a[i] <= t /\ \A j \in i..n + 1 : a[i] <= a[j]
  <2>1. ASSUME NEW i \in 1..n + 1, NEW j \in i..n + 1
        PROVE  a[i] <= t /\ a[i] <= a[j]
    <3>1. CASE i = n + 1
      BY <1>1, <1>2, <1>4, <3>1
    <3>2. CASE i \in 1..n /\ j = n + 1
      BY <1>1, <1>4, <1>5, <3>2
    <3>3. CASE i \in 1..n /\ j \in i..n
      <4>1. a[i] = s[i] /\ a[j] = s[j]
        BY <1>2, <1>4, <3>3
      <4> QED
        BY <1>5, <3>3, <4>1
    <3> QED
      BY <1>2, <3>1, <3>2, <3>3
  <2>2. \A i \in 1..n + 1 : i \in i..n + 1
    BY <1>2
  <2> QED
    BY <2>1, <2>2
<1>9. ASSUME opener - MaxRequests \in 1..n + 1
      PROVE  a[opener - MaxRequests] + LimitWindow <= a[opener]
  <2>1. opener - MaxRequests \in 1..n
    BY <1>1, <1>2, <1>6, <1>9
  <2> QED
    BY <1>4, <1>5, <1>6, <2>1
<1>10. ASSUME NEW i \in 1..n + 1, i + 2 * MaxRequests - 1 <= n + 1
       PROVE  a[i] + LimitWindow <= a[i + 2 * MaxRequests - 1]
  <2>1. CASE i + 2 * MaxRequests - 1 <= n
    <3>1. i \in 1..n /\ i + 2 * MaxRequests - 1 \in 1..n
      BY <1>1, <1>2, <2>1
    <3> QED
      BY <1>4, <1>5, <2>1, <3>1
  <2>2. CASE i + 2 * MaxRequests - 1 = n + 1
    <3>1. opener = n - entry.count + 1
      BY DEF opener
    <3>2. i \in 1..n /\ i <= opener - MaxRequests
      BY <1>1, <1>2, <2>2, <3>1
    <3> QED
      BY <1>4, <1>7, <2>2, <3>2
  <2> QED
    BY <1>1, <1>2, <1>10, <2>1, <2>2
<1>11. a[opener] = entry.resetAt - LimitWindow
  BY <1>2, <1>4, <1>5, <1>6
<1> DEFINE e == [count |-> entry.count + 1, resetAt |-> entry.resetAt]
<1>12. e.count = entry.count + 1 /\ e.resetAt = entry.resetAt
  OBVIOUS
<1> HIDE DEF e
<1>13. Admitted(a, e, t)
  <2>1. /\ Len(a) - e.count + 1 = opener /\ Len(a) = n + 1
        /\ e.count <= n + 1 /\ e.count > 0 /\ n + 1 # 0
    BY <1>2, <1>4, <1>5, <1>6, <1>12
  <2> QED
    BY <1>8, <1>9, <1>10, <1>11, <1>12, <2>1 DEF Admitted
<1> QED
  BY <1>13 DEF a, e

\* Time that passes changes nothing of it.
LEMMA TimeGoesOn ==
  ASSUME NEW s \in Seq(0..MaxTime), NEW entry, NEW t \in Nat, NEW u \in Nat, t <= u,
         Admitted(s, entry, t)
  PROVE  Admitted(s, entry, u)
<1>1. \A i \in 1..Len(s) : s[i] \in Nat
  BY Types, ElementOfSeq
<1>2. \A i \in 1..Len(s) : s[i] <= u
  BY <1>1 DEF Admitted
<1> QED
  BY <1>2 DEF Admitted

\* A request that is let through, in the terms of the two lemmas.
LEMMA AdmittedHit ==
  ASSUME TypeOK, LimiterInv, NEW c \in Clients, Hit(c), now' = now
  PROVE  LimiterInv'
<1>1. /\ hits \in [Clients -> Entries] /\ served \in [Clients -> Seq(0..MaxTime)]
      /\ now \in 0..MaxTime
  BY DEF TypeOK, Entries
<1>2. \A d \in Clients : Admitted(served[d], hits[d], now)
  BY DEF LimiterInv
<1>3. /\ served' = [served EXCEPT ![c] = Append(served[c], now)]
      /\ \A d \in Clients : d # c => hits'[d] = hits[d]
  BY <1>1 DEF Hit
<1>4. Admitted(Append(served[c], now), hits'[c], now)
  <2>1. CASE now >= hits[c].resetAt
    <3>1. hits'[c] = [count |-> 1, resetAt |-> now + LimitWindow]
      BY <1>1, <2>1 DEF Hit, Fresh
    <3>2. Admitted(Append(served[c], now), [count |-> 1, resetAt |-> now + LimitWindow], now)
      BY <1>1, <1>2, <2>1, OpeningHit
    <3> QED
      BY <3>1, <3>2
  <2>2. CASE ~(now >= hits[c].resetAt)
    <3>1. /\ hits'[c] = [count |-> hits[c].count + 1, resetAt |-> hits[c].resetAt]
          /\ hits[c].count < MaxRequests
      BY <1>1, <2>2 DEF Hit, Fresh, Allows
    <3>2. hits[c].resetAt \in Nat /\ now \in Nat
      BY <1>1, Types DEF Entries
    <3>3. Len(served[c]) # 0 /\ Len(served[c]) \in Nat
      BY <1>1, <1>2, <2>2, <3>2, LenProperties DEF Admitted
    <3>4. now < hits[c].resetAt /\ Len(served[c]) > 0
      BY <2>2, <3>2, <3>3
    <3>5. Admitted(Append(served[c], now),
                   [count |-> hits[c].count + 1, resetAt |-> hits[c].resetAt], now)
      BY <1>1, <1>2, <3>1, <3>4, CountedHit
    <3> QED
      BY <3>1, <3>5
  <2> QED
    BY <2>1, <2>2
<1> QED
  BY <1>1, <1>2, <1>3, <1>4 DEF LimiterInv

(***************************************************************************)
(* Only a request that is let through touches the limiter.                  *)
(***************************************************************************)
LEMMA LimiterStep == TypeOK /\ LimiterInv /\ [Next]_vars => LimiterInv'
<1> SUFFICES ASSUME TypeOK, LimiterInv, [Next]_vars
             PROVE  LimiterInv'
  OBVIOUS
<1>1. ASSUME UNCHANGED <<hits, served>>, now' \in Nat, now <= now'
      PROVE  LimiterInv'
  <2>1. now \in Nat /\ served \in [Clients -> Seq(0..MaxTime)]
    BY Types DEF TypeOK
  <2>2. \A c \in Clients : Admitted(served[c], hits[c], now')
    BY <1>1, <2>1, TimeGoesOn DEF LimiterInv
  <2> QED
    BY <1>1, <2>2 DEF LimiterInv
<1>2. now \in Nat /\ now <= now
  BY Types DEF TypeOK
<1>3. ASSUME NEW e \in Queued, Enqueue(e) \/ Timeout(e)
      PROVE  LimiterInv'
  BY <1>1, <1>2, <1>3 DEF Enqueue, Timeout, Ask, Settled
<1>4. ASSUME NEW c \in Clients, Hit(c), now' = now
      PROVE  LimiterInv'
  BY <1>4, AdmittedHit
<1>5. ASSUME NEW c \in Clients, List(c) \/ OtherRequest(c) \/ \E post \in posts : HandlePost(c, post)
      PROVE  LimiterInv'
  BY <1>4, <1>5 DEF List, OtherRequest, HandlePost, escalationVars
<1>6. ASSUME NEW id \in listed, NEW approve \in BOOLEAN, NEW token \in BOOLEAN,
             SendPost(id, approve, token)
      PROVE  LimiterInv'
  BY <1>1, <1>2, <1>6 DEF SendPost
<1>7. CASE WebhookNext /\ UNCHANGED controlVars
  <2>1. UNCHANGED <<hits, served>>
    BY <1>7 DEF controlVars
  <2>2. now' = now
    BY <1>7 DEF WebhookNext, PostEvent, Respond, Receive, Abort, PostFails, Ask, Settled
  <2> QED
    BY <1>1, <1>2, <2>1, <2>2
<1>8. CASE Tick
  BY <1>1, <1>2, <1>8 DEF Tick, controlVars
<1>9. CASE UNCHANGED vars
  BY <1>1, <1>2, <1>9 DEF vars, controlVars, escalationVars
<1> QED
  BY <1>3, <1>5, <1>6, <1>7, <1>8, <1>9 DEF Next, ControlNext

(***************************************************************************)
(* An interval of a window's length holds less than two windows' requests:  *)
(* after the first of them, 2 * MaxRequests - 1 more take too long.         *)
(***************************************************************************)
LEMMA Crowd ==
  ASSUME NEW s \in Seq(0..MaxTime), NEW entry, NEW t \in Nat, NEW t0 \in Nat, Admitted(s, entry, t)
  PROVE  Cardinality({i \in DOMAIN s : t0 <= s[i] /\ s[i] < t0 + LimitWindow})
           <= 2 * MaxRequests - 1
<1> DEFINE X == {i \in DOMAIN s : t0 <= s[i] /\ s[i] < t0 + LimitWindow}
           n == Len(s)
<1>1. MaxRequests \in Nat /\ MaxRequests >= 1 /\ LimitWindow \in Nat
  BY Types
<1>2. n \in Nat /\ DOMAIN s = 1..n /\ \A i \in 1..n : s[i] \in Nat
  BY Types, LenProperties, ElementOfSeq
<1>3. /\ \A i \in 1..n : \A j \in i..n : s[i] <= s[j]
      /\ \A i \in 1..n : i + 2 * MaxRequests - 1 <= n =>
           s[i] + LimitWindow <= s[i + 2 * MaxRequests - 1]
  BY DEF Admitted
<1>4. CASE X = {}
  <2>1. 0 <= 2 * MaxRequests - 1
    BY <1>1
  <2> HIDE DEF X
  <2>2. Cardinality(X) = 0
    BY <1>4, FS_EmptySet
  <2> QED
    BY <2>1, <2>2 DEF X
<1>5. CASE X # {}
  <2>1. PICK a \in X : \A i \in X : ~(i < a)
    <3> DEFINE R == OpToRel(<, Nat)
    <3>1. IsWellFoundedOn(R, Nat)
      BY NatLessThanWellFounded DEF OpToRel
    <3>2. X \subseteq Nat
      BY <1>2
    <3>3. \A i, j \in Nat : <<i, j>> \in R <=> i < j
      BY DEF OpToRel
    <3> HIDE DEF R, X
    <3>4. PICK a \in X : \A i \in X : ~(<<i, a>> \in R)
      BY <1>5, <3>1, <3>2, WFMin
    <3> QED
      BY <3>2, <3>3, <3>4
  <2>2. a \in 1..n /\ t0 <= s[a] /\ s[a] \in Nat
    BY <1>2
  <2>3. ASSUME NEW i \in X
        PROVE  i \in a..a + 2 * MaxRequests - 2
    <3>1. i \in 1..n /\ s[i] < t0 + LimitWindow /\ a <= i /\ s[i] \in Nat
      BY <1>2, <2>1, <2>2
    <3>2. ASSUME i >= a + 2 * MaxRequests - 1
          PROVE  FALSE
      <4> DEFINE b == a + 2 * MaxRequests - 1
      <4>1. b \in 1..n /\ i \in b..n
        BY <1>1, <1>2, <2>2, <3>1, <3>2
      <4>2. s[b] <= s[i] /\ s[a] + LimitWindow <= s[b] /\ s[b] \in Nat
        BY <1>2, <1>3, <2>2, <4>1
      <4> QED
        BY <1>1, <2>2, <3>1, <4>2
    <3> QED
      BY <1>1, <1>2, <2>2, <3>1, <3>2
  <2>4. /\ a \in Int /\ a + 2 * MaxRequests - 2 \in Int /\ ~(a > a + 2 * MaxRequests - 2)
        /\ (a + 2 * MaxRequests - 2) - a + 1 = 2 * MaxRequests - 1
    BY <1>1, <2>2
  <2>5. /\ IsFiniteSet(a..a + 2 * MaxRequests - 2)
        /\ Cardinality(a..a + 2 * MaxRequests - 2) = 2 * MaxRequests - 1
    BY <2>4, FS_Interval
  <2>6. X \in SUBSET (a..a + 2 * MaxRequests - 2)
    BY <2>3
  <2> HIDE DEF X
  <2>7. Cardinality(X) <= Cardinality(a..a + 2 * MaxRequests - 2)
    BY <2>5, <2>6, FS_Subset
  <2> QED
    BY <2>5, <2>7 DEF X
<1> QED
  BY <1>4, <1>5

(***************************************************************************)
(* A client that is refused has made its requests in the running window.    *)
(***************************************************************************)
LEMMA RefusedIsFull ==
  ASSUME NEW s \in Seq(0..MaxTime), NEW entry \in Entries, NEW t \in Nat, Admitted(s, entry, t),
         t < entry.resetAt, ~(entry.count < MaxRequests), NEW t0 \in Int, t0 = t - LimitWindow + 1
  PROVE  Cardinality({i \in DOMAIN s : t0 <= s[i] /\ s[i] < t0 + LimitWindow}) >= MaxRequests
<1> DEFINE X == {i \in DOMAIN s : t0 <= s[i] /\ s[i] < t0 + LimitWindow}
           n == Len(s)
           opener == n - entry.count + 1
<1>1. MaxRequests \in Nat /\ MaxRequests >= 1 /\ LimitWindow \in Nat
  BY Types
<1>2. n \in Nat /\ DOMAIN s = 1..n /\ \A i \in 1..n : s[i] \in Nat
  BY Types, LenProperties, ElementOfSeq
<1>3. entry.count = MaxRequests /\ entry.resetAt \in Nat
  BY <1>1 DEF Entries
<1>4. /\ entry.count <= n /\ \A i \in 1..n : s[i] <= t /\ \A j \in i..n : s[i] <= s[j]
      /\ n > 0 => s[opener] = entry.resetAt - LimitWindow
  BY DEF Admitted
<1>5. opener \in 1..n /\ n > 0
  BY <1>1, <1>2, <1>3, <1>4
<1>6. ASSUME NEW i \in opener..n
      PROVE  i \in X
  <2>1. i \in 1..n /\ s[opener] <= s[i] /\ s[i] <= t
    BY <1>2, <1>4, <1>5
  <2>2. s[i] \in Nat /\ s[opener] \in Nat /\ s[opener] = entry.resetAt - LimitWindow
    BY <1>2, <1>4, <1>5, <2>1
  <2> QED
    BY <1>1, <1>2, <1>3, <2>1, <2>2
<1>7. IsFiniteSet(X)
  <2>1. IsFiniteSet(1..n)
    BY <1>2, FS_Interval
  <2> QED
    BY <1>2, <2>1, FS_Subset
<1>8. opener..n \in SUBSET X
  BY <1>6
<1>9. Cardinality(opener..n) = MaxRequests
  <2>1. opener \in Int /\ n \in Int /\ ~(opener > n) /\ n - opener + 1 = MaxRequests
    BY <1>1, <1>2, <1>3, <1>5
  <2> HIDE DEF opener, n
  <2> QED
    BY <2>1, FS_Interval
<1> HIDE DEF X, opener, n
<1>10. Cardinality(opener..n) <= Cardinality(X)
  BY <1>7, <1>8, FS_Subset
<1>11. Cardinality(X) \in Nat
  BY <1>7, FS_CardinalityType
<1> QED
  BY <1>1, <1>9, <1>10, <1>11 DEF X

(***************************************************************************)
(* In no interval of a window's length more than 2 * MaxRequests - 1        *)
(* requests are let through, and a client that made fewer than MaxRequests  *)
(* in the window that ends now is not refused.                              *)
(***************************************************************************)
THEOREM LimiterIsBounded == Spec => []LimiterBounds
<1>1. Init => LimiterInv
  <2> SUFFICES ASSUME Init, NEW c \in Clients
               PROVE  Admitted(served[c], hits[c], now)
    BY DEF LimiterInv
  <2>1. /\ served[c] = <<>> /\ hits[c].count = 0 /\ hits[c].resetAt = 0
        /\ Len(<<>>) = 0
    BY DEF Init, ControlInit
  <2> QED
    BY <2>1, Types DEF Admitted
<1>2. LimiterInv /\ TypeOK /\ [Next]_vars => LimiterInv'
  BY LimiterStep
<1>3. LimiterInv /\ TypeOK => LimiterBounds
  <2> SUFFICES ASSUME LimiterInv, TypeOK, NEW c \in Clients
               PROVE  /\ \A t \in 0..MaxTime : ServedFrom(c, t, LimitWindow) <= 2 * MaxRequests - 1
                      /\ ServedFrom(c, now - LimitWindow + 1, LimitWindow) < MaxRequests => Allows(c)
    BY DEF LimiterBounds
  <2>1. /\ served[c] \in Seq(0..MaxTime) /\ hits[c] \in Entries /\ now \in Nat
        /\ Admitted(served[c], hits[c], now) /\ MaxTime \in Nat
        /\ LimitWindow \in Nat /\ MaxRequests \in Nat
    BY Types DEF TypeOK, LimiterInv, Entries
  <2>2. ASSUME NEW t \in 0..MaxTime
        PROVE  ServedFrom(c, t, LimitWindow) <= 2 * MaxRequests - 1
    <3>1. t \in Nat
      BY <2>1
    <3> QED
      BY <2>1, <3>1, Crowd DEF ServedFrom
  <2>3. ASSUME ~Allows(c)
        PROVE  ~(ServedFrom(c, now - LimitWindow + 1, LimitWindow) < MaxRequests)
    <3>1. now < hits[c].resetAt /\ ~(hits[c].count < MaxRequests)
      BY <2>1, <2>3 DEF Allows, Fresh, Entries
    <3> DEFINE t0 == now - LimitWindow + 1
    <3>2. t0 \in Int
      BY <2>1
    <3> HIDE DEF t0
    <3>3. t0 = now - LimitWindow + 1
      BY DEF t0
    <3>4. ServedFrom(c, t0, LimitWindow) >= MaxRequests
      BY <2>1, <3>1, <3>2, <3>3, RefusedIsFull DEF ServedFrom
    <3>5. ServedFrom(c, t0, LimitWindow) \in Nat
      <4>1. IsFiniteSet(DOMAIN served[c])
        <5>1. DOMAIN served[c] = 1..Len(served[c]) /\ Len(served[c]) \in Int /\ 1 \in Int
          BY <2>1, LenProperties
        <5> QED
          BY <5>1, FS_Interval
      <4> QED
        BY <4>1, FS_Subset, FS_CardinalityType DEF ServedFrom
    <3> QED
      BY <2>1, <3>4, <3>5 DEF t0
  <2> QED
    BY <2>2, <2>3
<1> QED
  BY <1>1, <1>2, <1>3, TypeCorrect, PTL DEF Spec
=============================================================================
