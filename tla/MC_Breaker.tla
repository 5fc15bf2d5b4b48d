----------------------------- MODULE MC_Breaker -----------------------------
(* The circuit breaker on three interchangeable payments.                   *)
EXTENDS CircuitBreaker, TLC

PaymentSymmetry == Permutations(Payments)
=============================================================================
