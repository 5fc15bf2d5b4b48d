-------------------------- MODULE SettlementProofs --------------------------
(***************************************************************************)
(* Proofs about Settlement, for any payments, nonces, facilitators and      *)
(* number of retries, tracked or not.                                       *)
(***************************************************************************)
EXTENDS Settlement, TLAPS

\* The random nonces that have not been drawn are nowhere.
Undrawn(q, m) == attempt[q] < m /\ m <= Tries[q]

NoncesFresh ==
  \A q \in Payments, m \in Nat : Undrawn(q, m) =>
    /\ RandomNonce(q, m) \notin inflight
    /\ \A p \in Payments : nonce[p] # RandomNonce(q, m)
    /\ \A c \in copies : c.nonce # RandomNonce(q, m)

\* A caller that signs or asks holds a nonce, and so does every copy.
NonceHeld ==
  /\ \A p \in Payments : pc[p] \in {"signing", "asking"} => nonce[p] # NoNonce
  /\ \A c \in copies : c.nonce # NoNonce

\* The chain has the nonce of a caller that was told of success.
SuccessPaid ==
  \A p \in Payments : pc[p] = "success" /\ nonce[p] # NoNonce => PaidWith(nonce[p]) # {}

\* What the tracker guarantees of the nonces its callers and their copies hold.
HeldAreReserved == \A p \in Tracked : nonce[p] # NoNonce => nonce[p] \in inflight
HeldAreDistinct == \A p, q \in Tracked : p # q /\ nonce[p] = nonce[q] => nonce[p] = NoNonce
Live(c) == c.for \in Tracked /\ PaidWith(c.nonce) = {}
LiveAreReserved == \A c \in copies : Live(c) => c.nonce \in inflight
LiveAreTheHolders == \A c \in copies, q \in Tracked : Live(c) /\ c.nonce = nonce[q] => c.for = q

TrackerInv ==
  /\ NoncesFresh /\ NonceHeld /\ SuccessPaid
  /\ HeldAreReserved /\ HeldAreDistinct /\ LiveAreReserved /\ LiveAreTheHolders
  /\ NoncesNotShared

\* Everything of a caller that keeps to its own nonce carries that nonce.
OwnNonceOnly ==
  \A p \in Payments \ Tracked : Supplied[p] # NoNonce =>
    /\ pc[p] \in {"signing", "asking"} => nonce[p] = Supplied[p]
    /\ \A c \in copies : c.for = p => c.nonce = Supplied[p]
    /\ \A t \in paid : t.for = p => t.nonce = Supplied[p]

\* A nonce is good for one transfer.
PaidUnique == \A t, u \in paid : t.nonce = u.nonce => t = u

-----------------------------------------------------------------------------
(***************************************************************************)
(* A signature takes the caller's nonce or one never drawn before, and a    *)
(* tracked one none that the tracker holds.                                 *)
(***************************************************************************)
LEMMA NonceForProps ==
  ASSUME TypeOK, NoncesFresh, NEW p \in Payments, attempt[p] < Tries[p]
  PROVE  /\ NonceFor(p) \in Nonce \ {NoNonce}
         /\ p \in Tracked => NonceFor(p) \notin inflight
         /\ p \notin Tracked /\ Supplied[p] # NoNonce => NonceFor(p) = Supplied[p]
         /\ \A q \in Payments, m \in Nat :
              attempt[q] < m /\ m <= Tries[q] /\ (q = p => attempt[p] + 1 < m)
                => NonceFor(p) # RandomNonce(q, m)
<1> DEFINE n == attempt[p] + 1
<1>1. attempt[p] \in Nat /\ Tries[p] \in Nat /\ n \in 1..Tries[p]
  BY SettlementAssumption DEF TypeOK
<1>2. RandomNonce(p, n) \in Nonce /\ RandomNonce(p, n) # NoNonce
  BY <1>1 DEF Nonce, RandomNonce, NoNonce
<1>3. RandomNonce(p, n) \notin inflight
  BY <1>1 DEF NoncesFresh, Undrawn
<1>4. \A q \in Payments, m \in Nat :
        attempt[q] < m /\ m <= Tries[q] /\ (q = p => n < m)
          => RandomNonce(p, n) # RandomNonce(q, m)
  BY <1>1 DEF RandomNonce
<1>5. \A q \in Payments, m \in Nat :
        attempt[q] < m /\ m <= Tries[q] => Supplied[p] # RandomNonce(q, m)
  <2> SUFFICES ASSUME NEW q \in Payments, NEW m \in Nat, attempt[q] < m, m <= Tries[q]
               PROVE  Supplied[p] # RandomNonce(q, m)
    OBVIOUS
  <2>1. attempt[q] \in Nat /\ Tries[q] \in Nat
    BY SettlementAssumption DEF TypeOK
  <2>2. m \in 1..Tries[q]
    BY <2>1
  <2> QED
    BY <2>2, SettlementAssumption
<1>6. Supplied[p] \in Nonce
  BY DEF Nonce
<1> QED
  BY <1>2, <1>3, <1>4, <1>5, <1>6 DEF NonceFor

-----------------------------------------------------------------------------
(***************************************************************************)
(* The state keeps its shape.                                               *)
(***************************************************************************)
LEMMA CopyType ==
  ASSUME TypeOK, NEW p \in Payments, NEW k \in 1..Facilitators
  PROVE  Copy(p, k) \in [nonce : Nonce, for : Payments, at : 1..Facilitators]
BY DEF TypeOK, Copy

\* Asking a facilitator of the list keeps the types.
LEMMA AskType ==
  ASSUME TypeOK, NEW p \in Payments, NEW k \in 1..Facilitators, Ask(p, k)
  PROVE  /\ pc' \in [Payments -> {"idle", "signing", "asking"} \cup Ended]
         /\ asked' \in [Payments -> 0..Facilitators]
         /\ copies' \subseteq [nonce : Nonce, for : Payments, at : 1..Facilitators]
<1>1. Facilitators \in Nat /\ k \in 0..Facilitators
  BY SettlementAssumption
<1> QED
  BY <1>1, CopyType DEF TypeOK, Ask

\* Every step keeps the types; a random nonce is drawn from the numbers.
LEMMA TypeStep ==
  ASSUME TypeOK, NoncesFresh, [Next]_vars
  PROVE  TypeOK'
<1> USE DEF TypeOK
<1>1. ASSUME NEW p \in Payments, Authorize(p)
      PROVE  TypeOK'
  <2>1. NonceFor(p) \in Nonce
    BY <1>1, NonceForProps DEF Authorize
  <2>2. attempt[p] + 1 \in Nat /\ attempt[p] + 1 <= Tries[p]
    <3> HIDE DEF TypeOK
    <3>1. attempt[p] \in Nat /\ Tries[p] \in Nat
      BY SettlementAssumption DEF TypeOK
    <3>2. attempt[p] < Tries[p]
      BY <1>1 DEF Authorize
    <3> QED
      BY <3>1, <3>2
  <2>3. attempt' \in [Payments -> Nat] /\ \A q \in Payments : attempt'[q] <= Tries[q]
    BY <1>1, <2>2 DEF Authorize
  <2>4. /\ pc' \in [Payments -> {"idle", "signing", "asking"} \cup Ended]
        /\ nonce' \in [Payments -> Nonce] /\ inflight' \subseteq Nonce
    BY <1>1, <2>1 DEF Authorize
  <2> QED
    BY <1>1, <2>3, <2>4 DEF Authorize
<1>2. ASSUME NEW p \in Payments, SignThrows(p)
      PROVE  TypeOK'
  <2>1. NoNonce \in Nonce
    BY DEF Nonce
  <2> QED
    BY <1>2, <2>1 DEF SignThrows, Ended
<1>3. ASSUME NEW p \in Payments, Settle(p)
      PROVE  TypeOK'
  <2>1. 1 \in 1..Facilitators
    BY SettlementAssumption
  <2> QED
    BY <1>3, <2>1, AskType DEF Settle
<1>4. ASSUME NEW p \in Payments, Release(p)
      PROVE  TypeOK'
  <2>1. NoNonce \in Nonce
    BY DEF Nonce
  <2> QED
    BY <1>4, <2>1 DEF Release
<1>5. ASSUME NEW p \in Payments, AnswersSuccess(p) \/ AnswersFailure(p)
      PROVE  TypeOK'
  BY <1>5 DEF AnswersSuccess, AnswersFailure, Ended
<1>6. ASSUME NEW p \in Payments, AnswerLost(p)
      PROVE  TypeOK'
  <2>1. CASE asked[p] < Facilitators
    <3>1. asked[p] + 1 \in 1..Facilitators
      BY <2>1, SettlementAssumption
    <3>2. Ask(p, asked[p] + 1)
      BY <1>6, <2>1 DEF AnswerLost
    <3> QED
      BY <1>6, <3>1, <3>2, AskType DEF AnswerLost
  <2>2. CASE ~(asked[p] < Facilitators)
    BY <1>6, <2>2 DEF AnswerLost, Ended
  <2> QED
    BY <2>1, <2>2
<1>7. ASSUME NEW c \in copies, Broadcast(c) \/ Expires(c.nonce)
      PROVE  TypeOK'
  BY <1>7 DEF Broadcast, Expires
<1>8. CASE UNCHANGED vars
  BY <1>8 DEF vars
<1> QED
  BY <1>1, <1>2, <1>3, <1>4, <1>5, <1>6, <1>7, <1>8 DEF Next, Sign, Answer

-----------------------------------------------------------------------------
(***************************************************************************)
(* The tracker keeps the nonces of its callers apart.                       *)
(***************************************************************************)
LEMMA AuthorizeKeepsApart ==
  ASSUME TypeOK, TrackerInv, NEW p \in Payments, Authorize(p)
  PROVE  TrackerInv'
<1> DEFINE n == NonceFor(p)
<1>1. /\ nonce' = [nonce EXCEPT ![p] = n] /\ attempt' = [attempt EXCEPT ![p] = @ + 1]
      /\ inflight' = IF p \in Tracked THEN inflight \cup {n} ELSE inflight
      /\ pc' = [pc EXCEPT ![p] = "signing"] /\ attempt[p] < Tries[p]
      /\ UNCHANGED <<copies, paid>>
  BY DEF Authorize
<1>2. /\ n # NoNonce
      /\ p \in Tracked => n \notin inflight
      /\ \A q \in Payments, m \in Nat :
           attempt[q] < m /\ m <= Tries[q] /\ (q = p => attempt[p] + 1 < m) => n # RandomNonce(q, m)
  BY <1>1, NonceForProps DEF TrackerInv
<1>3. /\ nonce \in [Payments -> Nonce] /\ attempt \in [Payments -> Nat]
      /\ pc \in [Payments -> {"idle", "signing", "asking"} \cup Ended]
      /\ Tracked \subseteq Payments
  BY SettlementAssumption DEF TypeOK
<1>4. NoncesFresh'
  <2> SUFFICES ASSUME NEW q \in Payments, NEW m \in Nat, Undrawn(q, m)'
               PROVE  /\ RandomNonce(q, m) \notin inflight'
                      /\ \A r \in Payments : nonce'[r] # RandomNonce(q, m)
                      /\ \A c \in copies' : c.nonce # RandomNonce(q, m)
    BY DEF NoncesFresh
  <2>1. /\ attempt[q] < m /\ m <= Tries[q] /\ (q = p => attempt[p] + 1 < m)
    BY <1>1, <1>3 DEF Undrawn
  <2>2. n # RandomNonce(q, m)
    BY <1>2, <2>1
  <2> HIDE DEF n
  <2> QED
    BY <1>1, <1>3, <2>1, <2>2 DEF TrackerInv, NoncesFresh, Undrawn
<1> HIDE DEF n
<1>5. NonceHeld'
  BY <1>1, <1>2, <1>3 DEF TrackerInv, NonceHeld
<1>6. SuccessPaid'
  BY <1>1, <1>3 DEF TrackerInv, SuccessPaid, PaidWith
<1>7. HeldAreReserved' /\ HeldAreDistinct'
  BY <1>1, <1>2, <1>3 DEF TrackerInv, HeldAreReserved, HeldAreDistinct
<1>8. LiveAreReserved' /\ NoncesNotShared'
  BY <1>1 DEF TrackerInv, LiveAreReserved, Live, NoncesNotShared, PaidWith
<1>9. LiveAreTheHolders'
  BY <1>1, <1>2, <1>3 DEF TrackerInv, LiveAreTheHolders, LiveAreReserved, Live, PaidWith
<1> QED
  BY <1>4, <1>5, <1>6, <1>7, <1>8, <1>9 DEF TrackerInv

\* One more copy of a held authorization leaves every nonce with its one holder.
LEMMA AskKeepsApart ==
  ASSUME TypeOK, TrackerInv, NEW p \in Payments, NEW k \in 1..Facilitators,
         pc[p] \in {"signing", "asking"}, Ask(p, k), UNCHANGED <<attempt, nonce, inflight, paid>>
  PROVE  TrackerInv'
<1>1. /\ copies' = copies \cup {Copy(p, k)} /\ pc' = [pc EXCEPT ![p] = "asking"]
      /\ Copy(p, k).nonce = nonce[p] /\ Copy(p, k).for = p
  BY DEF Ask, Copy
<1>2. nonce[p] # NoNonce
  BY DEF TrackerInv, NonceHeld
<1>3. pc \in [Payments -> {"idle", "signing", "asking"} \cup Ended] /\ Tracked \subseteq Payments
  BY SettlementAssumption DEF TypeOK
<1> DEFINE new == Copy(p, k)
<1>4. new.nonce = nonce[p] /\ new.for = p /\ copies' = copies \cup {new}
  BY <1>1
<1> HIDE DEF new
<1>5. NoncesFresh' /\ NonceHeld'
  BY <1>1, <1>2, <1>3, <1>4 DEF TrackerInv, NoncesFresh, NonceHeld, Undrawn
<1>6. SuccessPaid' /\ HeldAreReserved' /\ HeldAreDistinct'
  BY <1>1, <1>3 DEF TrackerInv, SuccessPaid, HeldAreReserved, HeldAreDistinct, PaidWith
<1>7. LiveAreReserved'
  BY <1>2, <1>4 DEF TrackerInv, LiveAreReserved, HeldAreReserved, Live, PaidWith
<1>8. LiveAreTheHolders'
  BY <1>2, <1>4 DEF TrackerInv, LiveAreTheHolders, HeldAreDistinct, Live, PaidWith
<1>9. NoncesNotShared'
  <2> SUFFICES ASSUME NEW c \in copies', NEW d \in copies', Live(c), d.for \in Tracked, c.nonce = d.nonce
               PROVE  c.for = d.for
    BY DEF NoncesNotShared, Live, PaidWith
  <2>1. CASE c \in copies /\ d \in copies
    BY <2>1 DEF TrackerInv, NoncesNotShared, Live
  <2>2. CASE c = new \/ d = new
    BY <1>4, <2>2 DEF TrackerInv, LiveAreTheHolders, Live, PaidWith
  <2> QED
    BY <1>4, <2>1, <2>2
<1> QED
  BY <1>5, <1>6, <1>7, <1>8, <1>9 DEF TrackerInv

\* A nonce still to be drawn is not the absence of one.
LEMMA NoNonceUndrawn ==
  ASSUME TypeOK, NEW q \in Payments, NEW m \in Nat, Undrawn(q, m)
  PROVE  NoNonce # RandomNonce(q, m)
<1>1. attempt[q] \in Nat
  BY DEF TypeOK
<1>2. m # 0
  BY <1>1 DEF Undrawn
<1> QED
  BY <1>2 DEF NoNonce, RandomNonce

\* The tracker keeps live authorizations apart at every step.
LEMMA TrackerStep ==
  ASSUME TypeOK, TrackerInv, [Next]_vars
  PROVE  TrackerInv'
<1>0. /\ nonce \in [Payments -> Nonce] /\ Tracked \subseteq Payments
      /\ pc \in [Payments -> {"idle", "signing", "asking"} \cup Ended]
  BY SettlementAssumption DEF TypeOK
<1>1. ASSUME NEW p \in Payments, Authorize(p)
      PROVE  TrackerInv'
  BY <1>1, AuthorizeKeepsApart
\* The reservation of a signature that failed is never released.
<1>2. ASSUME NEW p \in Payments, SignThrows(p)
      PROVE  TrackerInv'
  <2>1. NoncesFresh'
    <3>1. \A q \in Payments, m \in Nat : Undrawn(q, m) => NoNonce # RandomNonce(q, m)
      BY <1>0, NoNonceUndrawn
    <3> QED
      BY <1>0, <1>2, <3>1 DEF TrackerInv, NoncesFresh, Undrawn, SignThrows
  <2>4. NonceHeld' /\ SuccessPaid'
    BY <1>0, <1>2 DEF TrackerInv, NonceHeld, SuccessPaid, PaidWith, SignThrows
  <2>2. HeldAreReserved' /\ HeldAreDistinct'
    BY <1>0, <1>2 DEF TrackerInv, HeldAreReserved, HeldAreDistinct, SignThrows
  <2>3. LiveAreReserved' /\ LiveAreTheHolders' /\ NoncesNotShared'
    BY <1>0, <1>2 DEF TrackerInv, NonceHeld, LiveAreReserved, LiveAreTheHolders, NoncesNotShared,
                      Live, PaidWith, SignThrows
  <2> QED
    BY <2>1, <2>2, <2>3, <2>4 DEF TrackerInv
<1>3. ASSUME NEW p \in Payments, Settle(p)
      PROVE  TrackerInv'
  <2>1. 1 \in 1..Facilitators
    BY SettlementAssumption
  <2> QED
    BY <1>3, <2>1, AskKeepsApart DEF Settle
\* What is released is paid, or no copy of it is left.
<1>4. ASSUME NEW p \in Payments, Release(p)
      PROVE  TrackerInv'
  <2>1. /\ p \in Tracked /\ nonce' = [nonce EXCEPT ![p] = NoNonce]
        /\ inflight' = inflight \ {nonce[p]} /\ UNCHANGED <<pc, attempt, copies, paid>>
    BY <1>4 DEF Release
  <2>2. NoncesFresh' /\ NonceHeld' /\ SuccessPaid'
    <3>1. pc[p] \in Ended
      BY <1>4 DEF Release, Ended
    <3>2. \A q \in Payments, m \in Nat : Undrawn(q, m) => NoNonce # RandomNonce(q, m)
      BY <1>0, NoNonceUndrawn
    <3>3. NoncesFresh'
      BY <1>0, <2>1, <3>2 DEF TrackerInv, NoncesFresh, Undrawn
    <3>4. NonceHeld' /\ SuccessPaid'
      BY <1>0, <2>1, <3>1 DEF TrackerInv, NonceHeld, SuccessPaid, PaidWith, Ended
    <3> QED
      BY <3>3, <3>4
  <2>3. HeldAreReserved' /\ HeldAreDistinct'
    BY <1>0, <2>1 DEF TrackerInv, HeldAreReserved, HeldAreDistinct
  <2>4. \A c \in copies : Live(c) => c.nonce # nonce[p]
    BY <1>4 DEF TrackerInv, SuccessPaid, NonceHeld, Release, Live
  <2>5. LiveAreReserved' /\ NoncesNotShared'
    BY <2>1, <2>4 DEF TrackerInv, LiveAreReserved, NoncesNotShared, Live, PaidWith
  <2>6. LiveAreTheHolders'
    BY <1>0, <2>1 DEF TrackerInv, LiveAreTheHolders, NonceHeld, Live, PaidWith
  <2> QED
    BY <2>2, <2>3, <2>5, <2>6 DEF TrackerInv
<1>5. ASSUME NEW p \in Payments, AnswersSuccess(p) \/ AnswersFailure(p)
      PROVE  TrackerInv'
  <2>1. copies' \subseteq copies /\ UNCHANGED <<attempt, nonce, inflight, paid>>
    BY <1>5 DEF AnswersSuccess, AnswersFailure
  <2>2. SuccessPaid'
    BY <1>0, <1>5 DEF TrackerInv, SuccessPaid, PaidWith, AnswersSuccess, AnswersFailure
  <2>3. NonceHeld'
    BY <1>0, <1>5 DEF TrackerInv, NonceHeld, AnswersSuccess, AnswersFailure
  <2> QED
    BY <2>1, <2>2, <2>3 DEF TrackerInv, NoncesFresh, Undrawn, HeldAreReserved, HeldAreDistinct,
                            LiveAreReserved, LiveAreTheHolders, NoncesNotShared, Live, PaidWith
<1>6. ASSUME NEW p \in Payments, AnswerLost(p)
      PROVE  TrackerInv'
  <2>1. CASE asked[p] < Facilitators
    <3>1. asked[p] + 1 \in 1..Facilitators
      BY <2>1, SettlementAssumption DEF TypeOK
    <3> QED
      BY <1>6, <2>1, <3>1, AskKeepsApart DEF AnswerLost
  <2>2. CASE ~(asked[p] < Facilitators)
    <3>1. pc' = [pc EXCEPT ![p] = "threw"] /\ UNCHANGED <<attempt, nonce, inflight, copies, paid>>
      BY <1>6, <2>2 DEF AnswerLost
    <3> QED
      BY <1>0, <3>1 DEF TrackerInv, NoncesFresh, Undrawn, NonceHeld, SuccessPaid, HeldAreReserved,
                 HeldAreDistinct, LiveAreReserved, LiveAreTheHolders, NoncesNotShared, Live, PaidWith
  <2> QED
    BY <2>1, <2>2
<1>7. ASSUME NEW c \in copies, Broadcast(c) \/ Expires(c.nonce)
      PROVE  TrackerInv'
  <2>1. copies' \subseteq copies /\ paid \subseteq paid' /\ UNCHANGED <<pc, attempt, nonce, inflight>>
    BY <1>7 DEF Broadcast, Expires
  <2> QED
    BY <2>1 DEF TrackerInv, NoncesFresh, Undrawn, NonceHeld, SuccessPaid, HeldAreReserved,
                HeldAreDistinct, LiveAreReserved, LiveAreTheHolders, NoncesNotShared, Live, PaidWith
<1>8. CASE UNCHANGED vars
  BY <1>8 DEF vars, TrackerInv, NoncesFresh, Undrawn, NonceHeld, SuccessPaid, HeldAreReserved,
              HeldAreDistinct, LiveAreReserved, LiveAreTheHolders, NoncesNotShared, Live, PaidWith
<1> QED
  BY <1>1, <1>2, <1>3, <1>4, <1>5, <1>6, <1>7, <1>8 DEF Next, Sign, Answer

-----------------------------------------------------------------------------
(***************************************************************************)
(* A caller with its own nonce keeps to it, and a nonce pays once.          *)
(***************************************************************************)
LEMMA OwnStep ==
  ASSUME TypeOK, NoncesFresh, OwnNonceOnly, [Next]_vars
  PROVE  OwnNonceOnly'
<1>0. /\ nonce \in [Payments -> Nonce]
      /\ pc \in [Payments -> {"idle", "signing", "asking"} \cup Ended]
  BY DEF TypeOK
<1> SUFFICES ASSUME NEW o \in Payments \ Tracked, Supplied[o] # NoNonce
             PROVE  /\ pc'[o] \in {"signing", "asking"} => nonce'[o] = Supplied[o]
                    /\ \A c \in copies' : c.for = o => c.nonce = Supplied[o]
                    /\ \A t \in paid' : t.for = o => t.nonce = Supplied[o]
  BY DEF OwnNonceOnly
<1>a. /\ pc[o] \in {"signing", "asking"} => nonce[o] = Supplied[o]
      /\ \A c \in copies : c.for = o => c.nonce = Supplied[o]
      /\ \A t \in paid : t.for = o => t.nonce = Supplied[o]
  BY DEF OwnNonceOnly
<1> DEFINE Goal == /\ pc'[o] \in {"signing", "asking"} => nonce'[o] = Supplied[o]
                   /\ \A c \in copies' : c.for = o => c.nonce = Supplied[o]
                   /\ \A t \in paid' : t.for = o => t.nonce = Supplied[o]
<1>1. ASSUME NEW p \in Payments, Authorize(p)
      PROVE  Goal
  <2>1. p = o => NonceFor(p) = Supplied[o]
    BY DEF NonceFor
  <2> QED
    BY <1>0, <1>1, <1>a, <2>1 DEF Authorize
<1>2. ASSUME NEW p \in Payments, SignThrows(p)
      PROVE  Goal
  BY <1>0, <1>2, <1>a DEF SignThrows
<1>3. ASSUME NEW p \in Payments, NEW k \in Nat, pc[p] \in {"signing", "asking"}, Ask(p, k),
             UNCHANGED <<nonce, paid>>
      PROVE  Goal
  BY <1>0, <1>3, <1>a DEF Ask, Copy
<1>4. ASSUME NEW p \in Payments, Release(p)
      PROVE  Goal
  BY <1>0, <1>4, <1>a DEF Release
<1>5. ASSUME NEW p \in Payments, AnswersSuccess(p) \/ AnswersFailure(p)
      PROVE  Goal
  BY <1>0, <1>5, <1>a DEF AnswersSuccess, AnswersFailure
<1>6. ASSUME NEW p \in Payments, Settle(p)
      PROVE  Goal
  BY <1>3, <1>6 DEF Settle
<1>7. ASSUME NEW p \in Payments, AnswerLost(p)
      PROVE  Goal
  <2>1. CASE asked[p] < Facilitators
    <3>1. asked[p] + 1 \in Nat
      BY SettlementAssumption DEF TypeOK
    <3> QED
      BY <1>3, <1>7, <2>1, <3>1 DEF AnswerLost
  <2>2. CASE ~(asked[p] < Facilitators)
    BY <1>0, <1>7, <1>a, <2>2 DEF AnswerLost
  <2> QED
    BY <2>1, <2>2
<1>8. ASSUME NEW c \in copies, Broadcast(c)
      PROVE  Goal
  BY <1>8, <1>a DEF Broadcast
<1>9. ASSUME NEW c \in copies, Expires(c.nonce)
      PROVE  Goal
  BY <1>9, <1>a DEF Expires
<1>10. CASE UNCHANGED vars
  BY <1>10, <1>a DEF vars
<1> QED
  BY <1>1, <1>2, <1>4, <1>5, <1>6, <1>7, <1>8, <1>9, <1>10 DEF Next, Sign, Answer

\* The chain takes a nonce once.
LEMMA PaidUniqueStep ==
  ASSUME PaidUnique, [Next]_vars
  PROVE  PaidUnique'
<1>1. ASSUME NEW c \in copies, Broadcast(c)
      PROVE  PaidUnique'
  BY <1>1 DEF PaidUnique, Broadcast, PaidWith
<1>2. CASE UNCHANGED paid
  BY <1>2 DEF PaidUnique
<1>3. CASE UNCHANGED vars
  BY <1>2, <1>3 DEF vars
<1>4. ASSUME NEW p \in Payments, Authorize(p) \/ Sign(p) \/ Release(p) \/ Answer(p)
      PROVE  UNCHANGED paid
  BY <1>4 DEF Authorize, Sign, SignThrows, Settle, Release, Answer, AnswersSuccess,
              AnswersFailure, AnswerLost
<1>5. ASSUME NEW c \in copies, Expires(c.nonce)
      PROVE  UNCHANGED paid
  BY <1>5 DEF Expires
<1> QED
  BY <1>1, <1>2, <1>3, <1>4, <1>5 DEF Next

-----------------------------------------------------------------------------
IInv == TypeOK /\ TrackerInv /\ OwnNonceOnly /\ PaidUnique

\* Nothing is signed at the start.
LEMMA InitInv == Init => IInv
<1> SUFFICES ASSUME Init
             PROVE  IInv
  OBVIOUS
<1>1. TypeOK
  BY SettlementAssumption DEF Init, TypeOK, Nonce
<1>2. NoncesFresh
  BY <1>1, NoNonceUndrawn DEF Init, NoncesFresh
<1>3. TrackerInv
  BY <1>2, SettlementAssumption DEF Init, TrackerInv, NonceHeld, SuccessPaid, HeldAreReserved,
              HeldAreDistinct, LiveAreReserved, LiveAreTheHolders, NoncesNotShared
<1>4. OwnNonceOnly /\ PaidUnique
  BY DEF Init, OwnNonceOnly, PaidUnique
<1> QED
  BY <1>1, <1>3, <1>4 DEF IInv

\* IInv holds in every reachable state.
THEOREM Invariant == Spec => []IInv
<1>1. Init => IInv
  BY InitInv
<1>2. IInv /\ [Next]_vars => IInv'
  <2> SUFFICES ASSUME IInv, [Next]_vars
               PROVE  IInv'
    OBVIOUS
  <2>1. TypeOK /\ TrackerInv /\ NoncesFresh /\ OwnNonceOnly /\ PaidUnique
    BY DEF IInv, TrackerInv
  <2>2. TypeOK' /\ TrackerInv' /\ OwnNonceOnly'
    BY <2>1, TypeStep, TrackerStep, OwnStep
  <2>3. PaidUnique'
    BY <2>1, PaidUniqueStep
  <2> QED
    BY <2>2, <2>3 DEF IInv
<1> QED
  BY <1>1, <1>2, PTL DEF Spec

(***************************************************************************)
(* The state keeps the shape the code and the environment give it.          *)
(***************************************************************************)
THEOREM TypeCorrect == Spec => []TypeOK
BY Invariant, PTL DEF IInv

(***************************************************************************)
(* eip3009.ts:57: a caller that supplies its nonce pays at most once.       *)
(***************************************************************************)
THEOREM OwnNoncePaysOnce == Spec => []RetryPaysOnce
<1>1. IInv => RetryPaysOnce
  BY DEF IInv, OwnNonceOnly, PaidUnique, RetryPaysOnce, Transfers
<1> QED
  BY <1>1, Invariant, PTL

(***************************************************************************)
(* eip3009.ts:34, reserve(): the tracker keeps payments apart, whatever     *)
(* nonces their callers supply and however often they sign again.           *)
(***************************************************************************)
THEOREM TrackerKeepsApart == Spec => []NoncesNotShared
<1>1. IInv => NoncesNotShared
  BY DEF IInv, TrackerInv
<1> QED
  BY <1>1, Invariant, PTL
=============================================================================
