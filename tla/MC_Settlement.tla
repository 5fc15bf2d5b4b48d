--------------------------- MODULE MC_Settlement ---------------------------
(* A caller that retries with its own nonce, and two that share a tracker   *)
(* and, by mistake, a nonce.                                                *)
EXTENDS Settlement, TLC

CONSTANTS own, left, right

MCSupplied == own :> <<"own", 0>> @@ left :> <<"shared", 0>> @@ right :> <<"shared", 0>>

MCTries == own :> 2 @@ left :> 1 @@ right :> 1
=============================================================================
