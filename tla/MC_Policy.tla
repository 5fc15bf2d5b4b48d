----------------------------- MODULE MC_Policy -----------------------------
(* One policy with every kind of rule, and five requests that tell its      *)
(* rules apart, on a day of three hours.                                    *)
EXTENDS Backtest

Url(host) == [host |-> host, path |-> <<"v2", "pay">>]
Api  == <<"api", "good", "com">>
Shop == <<"shop", "good", "com">>
Evil == <<"good", "com", "evil", "net">>

Req(amount, token, recipient, host) ==
  [amount |-> amount, token |-> token, recipient |-> recipient, url |-> Url(host)]

MCRequests == {Req(1, "usdc", "alice", Api), Req(2, "usdc", "bob", Shop),
               Req(3, "usdc", "bob", Api), Req(1, "eurc", "alice", Shop),
               Req(1, "usdc", "alice", Evil)}

Cap(window, max, above) ==
  [type |-> "spend-cap", window |-> window, token |-> "usdc",
   maxAmount |-> max, escalateAbove |-> above]

MCPolicy ==
  {Cap("transaction", 3, 2), Cap("hour", 3, NoEscalation), Cap("day", 5, NoEscalation),
   Cap("session", 6, NoEscalation),
   [type |-> "rate-limit", windowLen |-> 3, maxPayments |-> 2],
   [type |-> "counterparty", flagNewRecipients |-> TRUE, action |-> "escalate"],
   [type |-> "time-window", start |-> 2, end |-> 1, action |-> "escalate"],
   [type |-> "time-window", start |-> 0, end |-> 3, action |-> "block"],
   [type |-> "time-window", start |-> 1, end |-> 2, action |-> "warn"],
   [type |-> "allowlist", mode |-> "resources", enforce |-> TRUE,
    entries |-> {[host |-> <<"good", "com">>, path |-> <<"v2">>]}]}

Rate(len, max) == [type |-> "rate-limit", windowLen |-> len, maxPayments |-> max]
List(mode, entries) ==
  [type |-> "allowlist", mode |-> mode, enforce |-> TRUE, entries |-> entries]

\* Stricter policies to backtest: every kind of window, a rate limit longer than a day,
\* both kinds of list, strangers blocked, and a cap beside hours that the replay misjudges.
MCCandidates ==
  {{Cap("hour", 2, NoEscalation)}, {Cap("day", 3, NoEscalation)},
   {Cap("session", 3, NoEscalation)}, {Cap("transaction", 2, NoEscalation)},
   {Rate(2, 1)}, {Rate(8, 2)},
   {List("recipients", {"bob"}), List("resources", {[host |-> Api, path |-> <<>>]})},
   {[type |-> "counterparty", flagNewRecipients |-> TRUE, action |-> "block"]},
   {Cap("day", 4, NoEscalation), [type |-> "time-window", start |-> 0, end |-> 2, action |-> "block"]}}
=============================================================================
