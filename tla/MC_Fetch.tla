------------------------------ MODULE MC_Fetch ------------------------------
(* A fetch that is allowed, or escalated when the behavioural layer raises  *)
(* an alarm, beside an execute() call for the same day cap.                 *)
EXTENDS MC_Guard, GuardedFetch

FetchRequest == p1 :> Pay(1, "bob") @@ p2 :> Pay(2, "alice")

CapOrAsk == {[DayCap(2) EXCEPT !.escalateAbove = 1]}
=============================================================================
