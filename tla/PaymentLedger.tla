--------------------------- MODULE PaymentLedger ---------------------------
(***************************************************************************)
(* What agentctl promises of payments, with the guard, the facilitator, the *)
(* clock and the process left out: consent comes before a signature, the    *)
(* money moves at most once and only when signed for, and the audit row of  *)
(* a payment is written at most once, never changes, and is the last word:  *)
(* a settled row says that the money moved, and after an unsettled row of a *)
(* trusted payment it never will.                                           *)
(*                                                                          *)
(* Source: the promises of packages/core/src/index.ts (execute and          *)
(* guardedFetch) and audit/logger.ts.  AgentGuard and GuardedFetch          *)
(* implement this specification.                                            *)
(***************************************************************************)
CONSTANTS
  Payments,
  Trusted     \* those whose unsettled row is final

VARIABLES
  consent,    \* payments a policy or a human consented to
  money,      \* "none", "signed", "moved" or "void"
  row         \* "none", "settled" or "unsettled"

vars == <<consent, money, row>>

Init ==
  /\ consent = {}
  /\ money = [p \in Payments |-> "none"]
  /\ row = [p \in Payments |-> "none"]

Consent(p) ==
  /\ row[p] = "none"
  /\ consent' = consent \cup {p}
  /\ UNCHANGED <<money, row>>

Sign(p) ==
  /\ p \in consent
  /\ money[p] = "none"
  /\ row[p] = "none"
  /\ money' = [money EXCEPT ![p] = "signed"]
  /\ UNCHANGED <<consent, row>>

Move(p) ==
  /\ money[p] = "signed"
  /\ p \in Trusted => row[p] = "none"
  /\ money' = [money EXCEPT ![p] = "moved"]
  /\ UNCHANGED <<consent, row>>

Void(p) ==
  /\ money[p] = "signed"
  /\ row[p] = "none"
  /\ money' = [money EXCEPT ![p] = "void"]
  /\ UNCHANGED <<consent, row>>

WriteSettled(p) ==
  /\ row[p] = "none"
  /\ money[p] = "moved"
  /\ row' = [row EXCEPT ![p] = "settled"]
  /\ UNCHANGED <<consent, money>>

WriteUnsettled(p) ==
  /\ row[p] = "none"
  /\ p \in Trusted => money[p] \in {"none", "void"}
  /\ row' = [row EXCEPT ![p] = "unsettled"]
  /\ UNCHANGED <<consent, money>>

Next ==
  \E p \in Payments :
    \/ Consent(p) \/ Sign(p) \/ Move(p) \/ Void(p)
    \/ WriteSettled(p) \/ WriteUnsettled(p)

Spec == Init /\ [][Next]_vars
=============================================================================
