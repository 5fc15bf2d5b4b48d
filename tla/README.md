# agentctl in TLA+

A formal model of agentctl, the policy and audit layer between an AI agent and
its wallet. TLC checks small instances; TLAPS proves the safety and action
properties for every value of the constants. Paths are relative to the repository; `core/`
stands for `packages/core/src/`.

    tlc -config MC_Guard.cfg MC_Guard.tla      # any cfg with the module of its prefix
    tlapm AgentGuardProofs.tla                 # any *Proofs module

## 1. The system

| Component | State | Operations | Correct when |
|---|---|---|---|
| Guard (`core/index.ts`) | the parts below; one `execute()` per payment, suspended at an `await` | `create`, `hydrate`, `evaluate`, `execute`, `resetCircuitBreaker` | nothing is signed without a verdict or a human; what moved is counted and logged |
| `guardedFetch` (`core/index.ts`, `core/x402/interceptor.ts`) | a stack of decisions per request | three hooks of the x402 client, the catch around it | the reply is true; what a response settled is counted |
| Policy rules and evaluator (`core/policy/`) | `payments`, `seen` in memory | `evaluate`, `observe`, `hydrate`, `simulatePolicy` | caps, rates, hours and the novelty rule hold over the history, across restarts |
| Circuit breaker (`core/circuit-breaker.ts`) | `events`, `openedAt` in memory | `isOpen`, `record`, `hydrate`, `reset`, `state`, `counts` | a full window never coexists with a closed breaker; a restart keeps a freeze |
| Approval queue and control plane (`core/approval-queue.ts`, `packages/server`) | pending promises and timers; a counter per client | `enqueue`, `resolve`, expiry; the HTTP routes | every escalation is answered once, and ends; a 200 is the truth |
| Webhook escalation (`core/escalation/webhook.ts`) | one nonce and timer per escalation | post, receive, abort | "approved" is a human's word on this escalation |
| Resource registry (`core/intent/registry.ts`) | host → payees | `bind`, `check`, `hydrate` | a host keeps its payee |
| Intent reconciler, behavioural layer | statistics, none that is durable | `check`, `score`, `observe` | (numerics and text: any outcome is allowed) |
| Signing and settlement (`core/x402/eip3009.ts`, `facilitator.ts`, `core/adapters/`) | the in-flight nonces | `authorizePayment`, `releaseNonce`, `settle` over a list | a retry does not pay twice; tracked payments never share a nonce |
| Audit logger and stores (`core/audit/`) | rows with `batch_index`, `batch_root` (durable); the `anchoring` flag | `record`, `flush`, `reconcile`, `anchorTick` | every row ends up provable on chain, none is stranded |
| `audit --verify` (`packages/cli/src/cli.ts`) | none; reads the rows and the chain one by one | `verifyEntries` | exit code 0 means intact, 2 means not |
| Anchor contract (`contracts/src/AuditAnchor.sol`) | `batches`, `head` per operator (on chain) | `commitBatch`, `verifyEntry`, `getBatch` | one append-only linked history per operator |
| Policy compiler, analytics, Python gate, Rust sidecar, Solana helpers | see `PROJECT.json` | | out of scope, section 7 |

**Interaction.** A payment enters `execute()` or a fetch. `evaluate()` asks the
breaker, the evaluator, the behavioural scorer, the registry and the LLM;
`runGuard()` tells the breaker the verdict and, for an escalation, waits for a
human behind the queue or the webhook. An allowed payment is signed, compared with
the request and handed to the facilitator (or sent with the retried request); on
success the evaluator and the registry learn of it, and the logger inserts one row.
Beside this, a timer runs `anchorTick()` over the rows. A restart rebuilds all
memory from the rows: the log is the only durable state.

**Why it is hard.** JavaScript runs one piece of code at a time, but every
`await` lets another payment in: what a check read is old when the payment is
counted. Money moves on a chain that does not wait for answers. The process may
stop between any two awaits. Commits to the chain may be lost, mined late or
reorganised away.

## 2. Modules

| Module | Role |
|---|---|
| `CircuitBreakerRules` | window, thresholds, cooldown and replay of the breaker, as operators |
| `CircuitBreaker` | the breaker with the guard's use of it: ask, decide, record, log, crash, replay |
| `PolicyRules` | the five rules, `evaluate`, `aggregateVerdict`, the spend windows, as operators |
| `PolicyEvaluator` | the evaluator with one payment at a time: what the rules promise over time |
| `Backtest` | `simulatePolicy()` as an operator over every history of `PolicyEvaluator` |
| `PaymentLedger` | abstract: consent, one signature, one transfer, one final row per payment |
| `AgentGuard` | the guard; uses `PolicyRules` and `CircuitBreakerRules`, implements `PaymentLedger` |
| `GuardedFetch` | extends `AgentGuard` with fetches beside `execute()` calls; implements `PaymentLedger` |
| `Settlement` | signing, the nonce tracker, the walk over facilitators, retries, the chain |
| `HumanApproval` | abstract: one answer per question, an approval only on a human's word |
| `Escalations`, `ControlPlane`, `WebhookApprover` | the promises, the two ways of answering them |
| `Approvals` | both ways side by side; implements `HumanApproval` |
| `AuditLogger` | passes over the rows against a chain that loses and reorders |
| `AuditVerify` | extends `AuditLogger` with damage to the rows and the verify command |
| `AuditAnchor` | the contract with operators, shared keys and replays |
| `*Proofs` | theorems, section 5 |
| `MC_*` | instances for TLC |

**Steps.** An action is the code between two awaits. In `AgentGuard`, `Begin` is
`evaluate()` up to the first await; `Score` the behavioural and binding checks;
`Decide` the verdict, its record in the breaker and the branch that follows;
`Approve`/`Deny`/`Expire` the queue; `Sign`, `Settle*`, `Observe`, `Insert` the rest
of `execute()`. `pc[p]` names the await the payment is suspended at; `Land` is the
transfer on chain, which needs nobody's attention. `Rebuilt` is `hydrate()`. A fetch
shares everything up to the verdict; from there `Create`, `CreationFails` and
`Response*` are the hooks, `FetchThrows` and `Caught` the catch. In `AuditLogger` a
pass is one run of `anchorTick()` or `flush()`: `StartTick`, `CheckBatch`,
`ReleaseBatch`, `ReadUnbatched`, `SendCommit`, `MarkBatched`, and `End` for every way
out, the `finally` block included. `AuditVerify` lists, looks rows up one by one,
checks batch by batch and totals, with the logger's steps in between.

**Data.** Sets stand for arrays whose order no code depends on. A Merkle root is
the set of its leaves, a proof is membership: keccak is taken to have no
collisions; a leaf is made from a row's contents and timestamp, never from its
stored hash. A URL is its host labels and path segments, so that suffix and prefix
of sequences are the code's structural match. Amounts are integers (the code uses
`bigint`). The contract's list of batches counts from 1. A signature is a Boolean
that only the holder of the secret makes true. Definitions commented *Mutant* are
faulty variants, used to check that the properties notice them.

**Deliberate over-approximations.** Behavioural scores (`Behaviours`), the LLM's
answer and a human's answer may be anything at any time; a commit or an
authorization a facilitator holds may be mined at any time; a cold start may happen
at any restart; a response to a webhook may be any message the approver or the guard
ever signed. **Assumptions on the environment.** A
`{ success: true }`, from a facilitator or in the header of a response, means that the
transfer is on chain. A failure in the header of a response, which the resource server
writes, means nothing; a facilitator's `{ success: false }` means in `Settlement`
nothing either, and in `AgentGuard`, without fallbacks, that the authorization will
not be broadcast later. The x402 client makes one payment
per wrapped request, as `wrapFetchWithPayment` does; rows are edited between passes
and never while the verify command runs; a caller gives a nonce back only when its
authorization has settled or expired, as `eip3009.ts` asks; store calls are atomic,
as both stores make them.

## 3. What the runs show

States are distinct states found. Deadlock is checked except in `approvals`,
`verify` and `settlement`, where everybody may be done.

| Run | Checks | Instance | States |
|---|---|---|---|
| `breaker` | `NoMissedTrip`, `RestartKeepsWindowedFreeze` | 3 payments, times 0 to 3, window 2, two thresholds of 2, cooldown 1 | 391 k |
| `policy` | `CapsHold`, `DailyRatesHold`, `NewPayeesMeetAHuman`, `HoursRespected`, `BacktestMissesNothing` | 3 payments out of 5 requests, every kind of rule, 3 hours of 2 ticks to a day, times 1 to 8, 9 candidate policies | 408 k |
| `guard` | `Authorised`, `AccountedFor`, `SpendsAreReal`, `LogIsTrue`, `OvershootBound`, `KeepsLedger` | 3 equal payments, 2 in flight, all escalated, 2-tick day, times 0 to 2 | 941 k |
| `guard_serial` | `OnePayeePerHost`, `TripNeverMissed` | 3 payments, one at a time, 2-tick day, times 0 to 3, breaker on | 3.69 M |
| `fetch` | `ReplyIsHonest`, `FetchesAccountedFor`, `FetchKeepsLedger`, `EveryFetchEnds` | a fetch beside an `execute()`, failover, alarms, breaker, responses that deny a transfer, fair | 187 k |
| `anchor` | `LinkedHistory`, `NoBorrowedAuthorship`, `HistoryKept` | 2 operators, 3 processes, 2 entries, 2 batches each | 82 k |
| `logger` | `NothingStranded`, `EveryRowAnchored` | 2 rows, 2 tick callers, 3 faults, fair | 193 k |
| `verify` | `CleanMeansIntact`, `SeenMeansCommitted`, `AlarmMeansMismatch`, `NothingStrandedUndamaged` | 2 entries with edits, 2 batches, 1 damage, 2 faults, one `flush()` caller | 497 k |
| `approvals` | `RepliesAreTrue`, `LimiterBounds`, `AsksHumans`, `EveryEscalationEnds` | 1 queued and 1 posted escalation, 1 client with 2 requests per 2 ticks, a token, fair | 338 k |
| `settlement` | `RetryPaysOnce`, `NoncesNotShared` | a caller that retries with its own nonce, two tracked ones with one nonce between them, 2 facilitators | 286 k |

The type invariants are checked along in `policy`, `guard`, `anchor` and `logger`; the
theorems `TypeCorrect` of section 5 cover them and the others. That of the contract
says more than types: no batch without a root or without entries was stored.
What the properties say:

- **`KeepsLedger`, `FetchKeepsLedger`**: read through who consented, what became of
  the authorization and which row was written, the guard is a `PaymentLedger`. The
  ledger forbids any order of steps in which a signature precedes consent, money
  moves twice or after a final row, or a row changes. `Trusted` says whose
  unsettled row is final: with failover nobody's, and never a fetch's, since a
  response whose header says failure, or that has none, proves nothing.
- **`AccountedFor` and `SpendsAreReal`** together: while the guard runs with its
  history, the spend windows contain every returned payment that moved within the
  day, once, and nothing else. Both cross the boundary between a live record and
  the one replayed from the log. `FetchesAccountedFor` is the same for what a response
  said was settled; what moved behind a denial or without the header is not counted.
- **`OvershootBound`** is what check-then-settle can promise under concurrency: with *n*
  payments in flight at most *n* caps move in a day (`CapsHold` is the exact cap, for
  one at a time). It excludes payments whose answer was lost or whose process died;
  section 4 says what happens with these.
- **`LogIsTrue`** relates the row, the authorization and the chain.
- **`ReplyIsHonest`**: "Payment blocked" to a payment no human had approved means
  that nothing was signed and that the refusal is logged.
- **`NoMissedTrip`, `TripNeverMissed`**: no sequence of decisions, logs, resets and
  replays leaves a window full of evidence beside a closed breaker. Decisions of
  overlapping payments are the subject of `breaker`, the replay of the audit log
  inside the guard that of `guard_serial`. Evidence that `isOpen()` erased when the
  cooldown was over is not in the window any more.
- **`RestartKeepsWindowedFreeze`** is the part of "a restart must not un-freeze"
  that the code keeps: a freeze whose evidence was logged and is in the window.
- **`CapsHold`** sums the log over sliding windows, independently of the
  evaluator's own records. **`HoursRespected`** is about the moment of the
  evaluation: between `Evaluate` and `Settle` time passes, and a payment may be made
  outside the hours it was checked in (section 4).
- **`BacktestMissesNothing`** uses the same sums: a candidate of which the backtest
  says that it blocks nothing has caps, rate limits of any length, allowlists and
  blocks on strangers that the history kept. Time windows are left out, and the
  converse fails (section 4).
- **`LinkedHistory`**: whoever holds only the contract's events can rebuild what
  it stores, however many processes commit under one key.
- **`NothingStranded`**: a tagged row either hashes, with its batch, to the root
  on chain, or `reconcile()` will notice. `EveryRowAnchored` adds that it is then
  anchored again, for good.
- **`CleanMeansIntact`**: no combination of edits, deletions and moves cancels out
  in the counts so that `audit --verify` exits with 0, whatever is mined, tagged or
  released while it runs; only a block replaced behind it escapes it.
  `SeenMeansCommitted` is what an `--agent` filter leaves of it; `AlarmMeansMismatch`
  is the other direction: no exit code 2 for rows that are exactly what the chain has,
  while nothing moves and the right chain answers for its id and its total. The latter
  is needed: section 4.
- **`AsksHumans`**: queue and webhook implement `HumanApproval`, against late,
  repeated, unsigned, misrouted and reflected messages. It holds where the control
  plane has a token (`TokenSet`, an assumption of the theorem): without it anybody
  may approve. A webhook that does not ask for signed responses (the default does) is
  taken to run over a transport nobody else writes to, as `README.md:154` says.
  With `TokenSet = FALSE` TLC finds `AsksHumans` violated, and the other three
  properties of the run hold (380 k states).
- **`LimiterBounds`**: a fixed window lets through at most twice its maximum less
  one in any interval of its length, and refuses nobody whom it did not let through
  the maximum within its length.
- **`RetryPaysOnce`** holds for a caller that keeps its own nonce, after lost
  answers and after refusals that did not hold; the tracker breaks it (section 4),
  and keeps **`NoncesNotShared`** instead. No property says that a refusal is final:
  nothing in the code makes it so.

**Bounds.** `MaxTime`, `MaxPayments`, `MaxBatches`, `MaxFaults`, `MaxDamages` and
`Tries` cap clocks, histories, faults, edits and retries. A day of two ticks lets
records leave every window within a run, and lets a calendar day differ from a
sliding one; three payments are the fewest with one in the window, one at the edge
and one under way. Two callers and three faults cover a crash, a lost commit and a
reorganisation in one behaviour. Two rows are the fewest of which a batch can hold
one and a later one both. In `verify` the second fault is what lets a batch be mined
and its block replaced within one command; two damages, the fewest that can cancel
out in a count, are covered by the proofs (and by TLC in 2.85 M states and three
minutes, with `MaxDamages = 2`).
In `policy` two payments fill a window and a third meets it; more payments are covered
by the proofs. Two facilitators are the fewest where one may hold what the other
settled; more retries, and retries through the tracker, are covered by the proofs. A
nonce of one's own beside the tracker is for direct callers of
`signEIP3009Authorization()`: the adapters and `execute()` draw theirs. In `fetch` the
clock takes one step: its windows never slide, which `guard` covers. A `MaxBatches`
that a behaviour could exhaust would show as a violation of `EveryRowAnchored`.
Symmetry is used for safety runs only, over payments with equal requests and over
rows. In `AgentGuard` and `Escalations`, at the last tick every approval timer counts
as due: time does not go on to make it so. No run has an invalid request: a refusal
before the checks is exercised by the open breaker.

**Fairness.** `GuardedFetch!FetchFairness`: weak fairness of each payment's own
continuations, of timers and of the clock. The event loop runs what is ready,
`setTimeout` fires, and HTTP calls return or fail. `Approvals!Fairness`: the same of the
queue's timer and the webhook's abort. The queue's timer is `unref`ed
(`core/approval-queue.ts:57`): it fires as long as something else, such as the control
plane's server, keeps the process alive; a process that ends instead is the guard's
`Crash`. None is assumed of the approver, the operator, the caller, the chain (`Land`),
the network or a restart. `AuditLogger!Fairness`: `setInterval` keeps firing, a pass's
calls return, what stays in the mempool is mined and blocks become safe. Faults are
finite, so "eventually" means after the last.

## 4. Findings

Two are runs that TLC refutes, with the line quoted in `PROJECT.json`:

| Run | The code | The claim |
|---|---|---|
| `guard_throw` | a `settle()` that throws leaves no row, though money may move | records regardless |
| `logger_overlap` | `anchorAudit()` bypasses the flag of `anchorTick()` | never let two overlap |

Others came up in modelling; the properties are stated so as to leave room for
them, and a reader of the code should know:

*Guard.*
- Concurrent payments are checked against the same spend total
  (`core/index.ts:350` reads, line 411 counts); `OvershootBound` says how far
  that goes.
- A payment that settled when the process stopped before its row was written is
  forgotten by the restart, and a stop while a human is asked leaves no row,
  where `README.md:212` says one is written. `AccountedFor` and `LogIsTrue` speak
  of payments that returned.
- The breaker is asked once, at the start of `evaluate()`: a payment that waits
  when it trips is signed all the same.
- With a manual reset, a freeze whose evidence has left the window is gone after a
  restart (`core/circuit-breaker.ts:69` replays the window only, where line 65 says a
  restart must not un-freeze). With a cooldown shorter than the window, `hydrate()`
  replays entries from before the last close, so a restored freeze may be dated from
  an earlier one. A threshold of zero trips on the first decision, not before it:
  the theorems on the breaker ask for positive ones.
- Hydration drops records a rate limit longer than a day still needs
  (`core/policy/evaluator.ts:115`, where line 109 says that no window looks further).
- A row that no longer matches its hash feeds the spend windows and, with them, the
  recipients the novelty rule calls known (`core/index.ts:216`).
- The backtest replays at the present time: a history spread over days is judged as
  if it were made at once, and may be reported as blocked where it was not. A time
  window is judged at the hour at which the operator runs the backtest
  (`core/policy/simulate.ts:53` calls `evaluate()`, which reads the clock at
  `evaluator.ts:55`), so a candidate whose hours the history broke may be said to
  change nothing, where `simulate.ts:34` promises "exactly what a policy change would
  have done".
- The hour is read when a payment is evaluated (`core/policy/evaluator.ts:55`); its
  row is dated after the LLM, a human and the facilitator answered
  (`core/index.ts:409-414`). A payment checked within the allowed hours may be made,
  and logged, outside them.

*guardedFetch.*
- An escalation a human approved still has the verdict "escalate": when signing or
  the request fails afterwards, the caller is told "Payment blocked"
  (`core/index.ts:444-446`), even if the money moved.
- A response without the settlement header, or with one that says failure, leaves an
  unsettled row and no spend record, whatever happened on chain (`core/index.ts:520`).

*Settlement.*
- `core/x402/facilitator.ts:8` calls a returned `{ success: false }` "a definitive
  settlement result". When the primary took the authorization without answering, the
  fallback's refusal says nothing of what the primary will do with it, and nothing in
  the code makes it final.
- The tracker gives a retry with the same supplied nonce a fresh random one
  (`core/x402/eip3009.ts:34`), so that a retry after a lost answer can be paid beside
  the first authorization; the comment at line 25 describes the opposite, and line 55
  offers the nonce "for idempotent retries".
- A signer that throws leaves its reservation behind, with a nonce nobody knows.
- `release()` goes by nonce: called twice, it may free the reservation of a later
  payment. The model lets a caller release once.
- A fallback facilitator refuses what the primary settled without answering, and
  the payment is logged as unsettled. `AccountedFor` excludes failover.

*Audit.*
- `awaitDurable()` waits for the block's number, not for the commit: a commit that
  was reorganised away is tagged all the same. `reconcile()` releases it later.
- A batch that landed before a crash, or after its pass gave up, is not matched
  with its rows: they are committed again, and from then on the counts on chain
  exceed the local ones and `audit --verify` exits with 2 on an intact log. A verify
  between a commit and its tagging does so too; `cli.ts:654` calls this an
  integrity failure. `AlarmMeansMismatch` counts such a log as different from the chain.
- A wrong or unreachable RPC (`cli.ts:528-533`) and a total that cannot be read
  (`cli.ts:642-644`) make `audit --verify` exit with 2, where `cli.ts:654-655` says that
  an RPC error is inconclusive and that a config mistake must not read as tampering.
  `WrongChain` and `TotalUnreadable` do as the code does, and set `unanswered`.
- Without entries, and without `AUDIT_ANCHOR_ADDRESS`, the command prints a line and
  exits with 0 (`cli.ts:128-132`, `494-497`): a log that was deleted altogether
  passes. `CleanMeansIntact` asks for an entry.
- `postgres-store.ts:55-61` keeps a rejected `initialized` promise: one failed start
  of the pool fails every later call.

*Control plane.*
- The token is optional and not set by default (`packages/server/src/index.ts:16`,
  `109`): any POST that reaches the port then approves. `cli.ts:311` warns of it; a
  program that calls `createControlPlaneHandler()` is not warned.
- The limiter runs before authentication: requests without the token use up the
  budget of those from the same address that have it. It can be switched off
  (`rateLimit: false`); `LimiterBounds` is about one that is on.

## 5. What is proved

Every safety and action property of the passing runs is a theorem, for every value
of the constants under their named assumptions, which TLC evaluates in every run.
The proofs rest on no other hypothesis than those in the statements: positive
thresholds for two theorems on the breaker, `NoOverlap` for two on the logger,
`TokenSet` for one on approvals.
Only liveness is left to TLC.

- **`RulesProofs`**: lemmas about the operators. `Total` folds a finite set of records
  into a sum; what it is on the empty set, with one record more or less, over a subset,
  over two parts or *n* parts, and under an injection (`TotalAtMost`) is enough for
  every sum below, and is proved by induction over the numbers of elements, written as a
  least counterexample. `NoRuleSkipped`, `CapChecked` and `RateChecked` say what a
  verdict without a critical finding implies. `TripMonotone` and `ReplayTrips` are about
  the breaker: a replay of a finite history with a tripping part ends open, no later
  than that part's last event.
- **`PolicyEvaluatorProofs`**: `MemoryRight` (the memory is what the log implies, across
  restarts) carries the rest. `CapsNeverExceeded` and `RatesNeverExceeded` compare a
  sliding window of the log with what the evaluator summed when the last payment in it
  was made: nothing else can have joined the window since. `NewPayeesSeen` and
  `HoursKept` need no sums: what a payment under way was checked for is still true when
  it settles, since the log has not grown meanwhile; `HourWraps` is the arithmetic of
  ranges past midnight. `BacktestIsConservative` maps each window of the history into
  the records the simulation holds when it reaches the window's last payment.
- **`AgentGuardProofs`**: `TypeCorrect`, `NothingUnauthorised`,
  `NothingUncounted`, `NothingCountedTwice`, `NothingMisreported`, from `GuardSafe`:
  `Spec => []GuardInv`. The properties are not inductive: that a returned payment
  has a record needs to know what `pc` says about `outcome`, `auth`, `landed` and
  `stamp` at every await, that a record in memory and a row in the log come from
  the same settlement with the same date, and that a row with its payment's
  `stamp` is the only one. `GuardInv` is the conjunction of these facts. The
  restart is the hard step: `Rebuilt` must re-create exactly the records younger
  than a day, and `Lookback >= DayLen` is what makes it possible. `NoTripIsMissed`
  adds the breaker.
  - `GuardKeepsLedger` is the refinement `Spec => KeepsLedger`: each action of the
    guard is one step of the ledger or a stutter, where `GuardInv` supplies that a
    signature has consent and that a payment with a row has concluded.
  - `OvershootIsBounded`: no sum over the payments in flight is inductive, since one
    that begins is checked against what is counted and not against what is under
    way. The invariant `SlotInv` says that all payments that may still add to the
    day, or did, *can be put* into `MaxInFlight` slots, no two in flight in one, such
    that no slot holds more than a cap. A payment begins in a free slot; what is in
    it is done, therefore in the spend windows, therefore fits with the newcomer.
  - `OnePayee` needs `PayeesKnown` (what settled within the lookback is bound and
    seen, for any number in flight) and then, with one in flight, that a payment past
    the binding check is not redirected until it is bound.
  - `FetchSafe` carries all of this over to `GuardedFetch`: each of its steps is a
    step of the guard or changes only `reply`. `ReplyInv` says what each reply means at
    which await. `RepliesAreHonest`, `FetchesAreAccountedFor` and the refinement
    `FetchesKeepLedger` follow.
- **`CircuitBreakerProofs`**: `TypeCorrect`, `NoTripIsMissed` and
  `FreezeOutlastsRestart`, for positive thresholds. The invariant adds that window
  and log are finite.
- **`SettlementProofs`**: `TypeCorrect`, `OwnNoncePaysOnce`, `TrackerKeepsApart`, from
  `Invariant`. `TrackerInv` says that the random nonces not yet drawn are nowhere, that
  every nonce a tracked caller holds is reserved and held by nobody else, and that a
  live copy belongs to its holder: a release must not free a nonce under another
  payment.
- **`ApprovalsProofs`**: `TypeCorrect`, `OperatorsAreToldTheTruth` and the refinement
  `ImplementsHumanApproval` (from `TokenSet`), from `Invariant`: a slot in the queue is
  a promise that waits and was not answered, every signed request or response is the
  word of a human, and the environment's other messages are none. `LimiterIsBounded`
  rests on `Admitted`: the last `count` requests let through belong to the running
  window, which the first of them opened when the one before was over, so that 2 ×
  maximum requests in a row take a window's length or longer.
- **`AuditAnchorProofs`**: `AnchorTypeCorrect`, `HistoryIsLinked`,
  `AuthorshipIsBound`, `HistoryIsKept`. Authorship needs the invariant that every
  leaf *of an operator's own* in any root anywhere was logged by that operator
  (`LeavesAuthored`): a replay copies roots between chains.
- **`AuditLoggerProofs`**: `LoggerTypeCorrect` and, where no two passes overlap
  (`NoOverlap`: only `anchorTick()` is called, or there is one caller),
  `TicksStrandNothing`, and `NothingIsStranded` beside the verify command. `LoggerInv`
  says that at most one pass is active, that the rows it holds are untagged, and
  that rows with equal batch index have equal roots of which they are members.
  Where `flush()` may overlap, the property is false (`logger_overlap`).
  `reconcile()` called by hand, which nothing but `reconcileAudit()` does, is no
  caller of the model.
  The three theorems on the command hold with or without overlap:
  - `SeenIsCommitted` from `SeenInv`: as long as no problem was noted and no block
    replaced, a row looked up waits for its batch to be checked or is `Vouched` for.
  - `CleanIsIntact` adds the counts. `Place` maps each row counted locally to its
    batch and leaf on chain; it is injective because ids are unique wherever rows are
    kept (`StoreInv`), and an injection between finite sets of equal size is onto
    (`EqualCountsMatch`): no leaf on chain is without its row.
  - `AlarmIsMismatch` from `QuietInv` (while nothing moves, what was looked up is
    what the store says) and `ProblemInv` (a noted problem is a real one, unless the
    chain did not answer for its id or its total).

**What the attempts showed.** Two statements were wrong, though TLC had found no
fault within its bounds. The properties of the verify command excused any change on
chain that *ended* as it began, which is enough for one fault but not for two: a block
may be replaced twice while the command runs. They now speak of what happened
`meanwhile`. `HoursOf` did not cover a range from 0 to 24, which the schema allows.
And the limiter's
history was a count per tick, which does not say in which window a request was let
through; it is a sequence of times now.

**Only model-checked**: liveness (`EveryFetchEnds`, `EveryEscalationEnds`,
`EveryRowAnchored`), which needs fairness and ENABLED; and the two refuted claims of
section 4.

## 6. Assumptions a reader should know

`PolicyAssumption` (for candidates of the backtest, `CandidatesAssumption`) asks that
the rules are `WellFormed`, as `core/policy/schema.ts` makes those it lets through: caps
and counts are not negative, hours lie in the day, windows are among those named.
`EvaluatorAssumption` asks for positive amounts, which is all `validateRequest()` lets
pass; `GuardAssumption`, where that check is modelled, for integers, and that `Lookback`
covers a day
(`DEFAULT_HYDRATE_LOOKBACK_MS` does; a smaller `hydrateLookbackMs` would break
`AccountedFor`). `cold` marks a
guard that started after an unreadable history; the code promises such a guard
nothing but that it runs, and the properties that need history exclude it.
`SettlementAssumption` says that a random nonce is never one that somebody supplied.
`verify` assumes a chain with a durability tag (`AwaitsSafe`): without it a batch may
be reorganised away while the command runs.

## 7. Not modelled

Floating-point statistics of the behavioural layer; prompts, compilation and
LLM clients; the providers behind the wallet adapters; typed-data signing and
Permit2; SQL and connection pools; analytics, tracing and wording; rows edited
between two runs of the guard (their effect on the verify command is modelled); the
commands of the CLI other than `audit --verify`, which are I/O around the library;
the Python gate and the Rust sidecar, which keep no state between calls.
`PROJECT.json` lists each part with its reason, and its `hazards` list says what no
property covers.

## 8. Plan

Every module of section 2 is written, and every safety and action property of its runs
proved. Worth adding: that a pass of `AuditLogger` is a sequence of steps of one operator
of `AuditAnchor`, so that the linked history of the contract holds of what the logger
commits; and `FetchKeepsLedger`'s counterpart for `Settlement`, which the guard now
uses through its three possible answers only.
