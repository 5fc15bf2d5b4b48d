------------------------------ MODULE MC_Guard ------------------------------
(* The guard of one agent on three payments under one day cap.              *)
EXTENDS AgentGuard, TLC

CONSTANTS p1, p2, p3

Url(host) == [host |-> <<host>>, path |-> <<>>]
Pay(amount, recipient) ==
  [amount |-> amount, token |-> "usdc", recipient |-> recipient, url |-> Url("api")]

\* Any two of three equal payments of 2 are more than a day cap of 2 or 3 allows.
MCRequest == [p \in {p1, p2, p3} |-> Pay(2, "alice")]

\* One payee asked for a 2 and a 1, another for a 1.
SerialRequest == p1 :> Pay(2, "alice") @@ p2 :> Pay(1, "alice") @@ p3 :> Pay(1, "bob")

DayCap(max) == [type |-> "spend-cap", window |-> "day", token |-> "usdc",
                maxAmount |-> max, escalateAbove |-> NoEscalation]

CapPolicy == {DayCap(3)}
TightPolicy == {DayCap(2)}
EscalatePolicy == {[DayCap(2) EXCEPT !.escalateAbove = 1]}

\* Behavioural outcomes: quiet, or a score over the threshold.
Quiet   == {[anomaly |-> FALSE, trigger |-> FALSE]}
Alarmed == Quiet \cup {[anomaly |-> TRUE, trigger |-> TRUE]}

\* They all ask for the same.
TripletSymmetry == Permutations({p1, p2, p3})
=============================================================================
