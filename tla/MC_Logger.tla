----------------------------- MODULE MC_Logger -----------------------------
(* AuditLogger with a few interchangeable rows. *)
EXTENDS AuditLogger, TLC

RowSymmetry == Permutations(Rows)
=============================================================================
