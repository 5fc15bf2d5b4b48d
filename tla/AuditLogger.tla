---------------------------- MODULE AuditLogger ----------------------------
(***************************************************************************)
(* Anchoring the audit log: passes that read the rows not yet anchored,     *)
(* commit their root on chain, wait for the block and tag the rows, and the *)
(* reconciliation that releases rows whose batch the chain does not have.   *)
(*                                                                          *)
(* Source: packages/core/src/audit/logger.ts, with audit/anchor.ts and the  *)
(* two stores.  The chain is the environment: transactions are mined in any *)
(* order or lost, blocks above the safe one may be reorganised away, and    *)
(* commitBatch() of AuditAnchor.sol accepts what names the current head.    *)
(*                                                                          *)
(* A root is the set of rows it commits to (their contents do not change    *)
(* here), the index of a batch counts from 1.  A pass is one run of         *)
(* anchorTick() or of flush(); its steps are the code between two awaits.   *)
(*                                                                          *)
(* Covered:     overlapping passes, stop and restart between any two steps, *)
(*              failing or timed-out calls, reorganisations, late commits.  *)
(* Not covered: rows edited or deleted behind the logger's back, a second   *)
(*              deployment under the same operator key.                     *)
(***************************************************************************)
EXTENDS Integers, Sequences, FiniteSets

CONSTANTS
  Rows,          \* the audit entries
  Ticks,         \* callers of anchorTick(): the scheduler, an operator
  Flushes,       \* callers of flush(): AgentCtl.anchorAudit()
  AwaitsSafe,    \* confirmationTag is not "latest", and the chain has the tag
  MaxBatches,    \* bound on the chain, pending commits included
  MaxFaults      \* bound on crashes, failed calls, lost commits and reorgs

Passes    == Ticks \cup Flushes
ZeroRoot  == {}
\* Mutant: no batch is batch -1.
MinusOne  == [index |-> 0 - 1, root |-> ZeroRoot]
Unbatched == [index |-> 0, root |-> ZeroRoot]   \* batch_index IS NULL

ASSUME LoggerAssumption ==
  /\ IsFiniteSet(Rows)
  /\ Ticks \cap Flushes = {}
  /\ AwaitsSafe \in BOOLEAN
  /\ MaxBatches \in Nat /\ MaxFaults \in Nat

VARIABLES
  rows,          \* the rows in the store
  tag,           \* batch_index and batch_root of every row
  stage,         \* where each pass stands
  agenda,        \* reconcile(): the anchored batches still to compare
  stale,         \* reconcile(): the batch index to release
  held,          \* flush(): the rows read
  prevRoot,      \* flush(): the head read
  receipt,       \* the batch index in the receipt, 0 if the commit reverted
  anchoring,     \* AuditLogger.anchoring
  pool,          \* environment: commits sent and not mined
  chain,         \* environment: the batches of this operator
  safe,          \* environment: how many of them are irreversible
  orphaned,      \* environment: passes whose mined commit was reorganised away
  faults

passes == <<stage, agenda, stale, held, prevRoot, receipt, anchoring>>
store  == <<rows, tag>>
env    == <<pool, chain, safe, orphaned>>
vars   == <<store, passes, env, faults>>

Init ==
  /\ rows = {} /\ tag = [r \in Rows |-> Unbatched]
  /\ stage = [p \in Passes |-> "idle"]
  /\ agenda = [p \in Passes |-> {}]
  /\ stale = [p \in Passes |-> 0]
  /\ held = [p \in Passes |-> {}]
  /\ prevRoot = [p \in Passes |-> ZeroRoot]
  /\ receipt = [p \in Passes |-> 0]
  /\ anchoring = FALSE
  /\ pool = {} /\ chain = <<>> /\ safe = 0 /\ orphaned = {}
  /\ faults = 0

\* The contract: head[operator], and whether getBatch(i) shows this root.
ChainHead == IF chain = <<>> THEN ZeroRoot ELSE chain[Len(chain)].root
OnChain(i, root) == i \in DOMAIN chain /\ chain[i].root = root

Pending == {r \in rows : tag[r] = Unbatched}
Tagged  == {r \in rows : tag[r] # Unbatched}
AnchoredBatches == {tag[r] : r \in Tagged}
EntriesInBatch(i) == {r \in Tagged : tag[r].index = i}

Goto(p, label) == stage' = [stage EXCEPT ![p] = label]

\* A tick clears the flag on the way out.
Unlocked(p) == IF p \in Ticks THEN FALSE ELSE anchoring

\* A pass returns, or throws into anchorTick()'s catch: its finally block runs.
End(p) ==
  /\ stage' = [stage EXCEPT ![p] = "idle"]
  /\ held' = [held EXCEPT ![p] = {}]
  /\ prevRoot' = [prevRoot EXCEPT ![p] = ZeroRoot]
  /\ receipt' = [receipt EXCEPT ![p] = 0]
  /\ agenda' = [agenda EXCEPT ![p] = {}]
  /\ stale' = [stale EXCEPT ![p] = 0]
  /\ anchoring' = Unlocked(p)
  /\ orphaned' = orphaned \ {p}

\* audit.record(): payments go on while a pass waits.
Record(r) ==
  /\ r \notin rows
  /\ rows' = rows \cup {r}
  /\ UNCHANGED <<tag, passes, env, faults>>

-----------------------------------------------------------------------------
(* anchorTick() and reconcile() *)

\* Mutant: the flag is not looked at.
StartsAnyway(p) == stage[p] = "idle"

MayStart(p) == stage[p] = "idle" /\ ~anchoring

StartTick(p) ==
  /\ MayStart(p)
  /\ anchoring' = TRUE
  /\ agenda' = [agenda EXCEPT ![p] = AnchoredBatches]
  /\ Goto(p, "reconciling")
  /\ UNCHANGED <<store, stale, held, prevRoot, receipt, env, faults>>

\* Mutant: any batch at that index will do.
IndexTaken(batch) == batch.index \in DOMAIN chain

StillThere(batch) == OnChain(batch.index, batch.root)

CheckBatch(p, batch) ==
  /\ stage[p] = "reconciling"
  /\ batch \in agenda[p]
  /\ \A other \in agenda[p] : batch.index <= other.index
  /\ agenda' = [agenda EXCEPT ![p] = @ \ {batch}]
  /\ IF StillThere(batch)
     THEN UNCHANGED <<stage, stale>>
     ELSE Goto(p, "releasing") /\ stale' = [stale EXCEPT ![p] = batch.index]
  /\ UNCHANGED <<store, held, prevRoot, receipt, anchoring, env, faults>>

\* releaseBatch() goes by the index alone.
ReleaseBatch(p) ==
  /\ stage[p] = "releasing"
  /\ tag' = [r \in Rows |-> IF r \in EntriesInBatch(stale[p]) THEN Unbatched ELSE tag[r]]
  /\ stale' = [stale EXCEPT ![p] = 0]
  /\ Goto(p, "reconciling")
  /\ UNCHANGED <<rows, agenda, held, prevRoot, receipt, anchoring, env, faults>>

-----------------------------------------------------------------------------
(* flush() *)

ReadUnbatched(p) ==
  /\ \/ p \in Ticks /\ stage[p] = "reconciling" /\ agenda[p] = {}
     \/ p \in Flushes /\ stage[p] = "idle"
  /\ IF Pending = {}
     THEN End(p)
     ELSE /\ held' = [held EXCEPT ![p] = Pending]
          /\ Goto(p, "loaded")
          /\ UNCHANGED <<agenda, stale, prevRoot, receipt, anchoring, orphaned>>
  /\ UNCHANGED <<store, pool, chain, safe, faults>>

Commit(p, prev, root) == [by |-> p, prevRoot |-> prev, root |-> root]

\* head(), then commitBatch() is broadcast.
SendCommit(p) ==
  /\ stage[p] = "loaded"
  /\ Len(chain) + Cardinality(pool) < MaxBatches
  /\ prevRoot' = [prevRoot EXCEPT ![p] = ChainHead]
  /\ pool' = pool \cup {Commit(p, ChainHead, held[p])}
  /\ Goto(p, "sent")
  /\ UNCHANGED <<store, agenda, stale, held, receipt, anchoring, chain, safe, orphaned, faults>>

\* A commit is mined; whoever sent it sees the receipt, if still waiting.
Mine(tx) ==
  LET accepted == tx.prevRoot = ChainHead
      awaited  == /\ stage[tx.by] = "sent"
                  /\ tx = Commit(tx.by, prevRoot[tx.by], held[tx.by])
  IN  /\ tx \in pool
      /\ pool' = pool \ {tx}
      /\ chain' = IF accepted THEN Append(chain, tx) ELSE chain
      /\ IF awaited
         THEN /\ Goto(tx.by, "mined")
              /\ receipt' = [receipt EXCEPT ![tx.by] = IF accepted THEN Len(chain) + 1 ELSE 0]
         ELSE UNCHANGED <<stage, receipt>>
      /\ UNCHANGED <<store, agenda, stale, held, prevRoot, anchoring, safe, orphaned, faults>>

\* No BatchCommitted event in the receipt: commit() throws.
Reverted(p) ==
  /\ stage[p] = "mined"
  /\ receipt[p] = 0
  /\ End(p)
  /\ UNCHANGED <<store, pool, chain, safe, faults>>

\* waitForTransactionReceipt() gives up on a commit that was lost.
NoReceipt(p) ==
  /\ stage[p] = "sent"
  /\ Commit(p, prevRoot[p], held[p]) \notin pool
  /\ End(p)
  /\ UNCHANGED <<store, pool, chain, safe, faults>>

\* awaitDurable() waits for the number of the receipt's block, whatever is in it.
Durable(p) == AwaitsSafe => receipt[p] <= safe \/ p \in orphaned

\* Mutant: every row without a batch is tagged, not the ones that were read.
RowsPendingNow(p) == Pending

RowsToMark(p) == held[p]

MarkBatched(p) ==
  /\ stage[p] = "mined"
  /\ receipt[p] # 0
  /\ Durable(p)
  /\ tag' = [r \in Rows |-> IF r \in RowsToMark(p)
                            THEN [index |-> receipt[p], root |-> held[p]]
                            ELSE tag[r]]
  /\ End(p)
  /\ UNCHANGED <<rows, pool, chain, safe, faults>>

-----------------------------------------------------------------------------
(* What goes wrong, and the chain. *)

Fault == faults < MaxFaults /\ faults' = faults + 1

\* A call throws or times out.
CallFails(p) ==
  /\ Fault
  /\ stage[p] # "idle"
  /\ End(p)
  /\ UNCHANGED <<store, pool, chain, safe>>

\* The process stops and is started again; the passes are gone, the rest stays.
Crash ==
  /\ Fault
  /\ \E p \in Passes : stage[p] # "idle"
  /\ stage' = [p \in Passes |-> "idle"]
  /\ agenda' = [p \in Passes |-> {}]
  /\ stale' = [p \in Passes |-> 0]
  /\ held' = [p \in Passes |-> {}]
  /\ prevRoot' = [p \in Passes |-> ZeroRoot]
  /\ receipt' = [p \in Passes |-> 0]
  /\ anchoring' = FALSE
  /\ orphaned' = {}
  /\ UNCHANGED <<store, pool, chain, safe>>

LoseCommit(tx) ==
  /\ Fault
  /\ tx \in pool
  /\ pool' = pool \ {tx}
  /\ UNCHANGED <<store, passes, chain, safe, orphaned>>

AdvanceSafe ==
  /\ safe < Len(chain)
  /\ safe' = safe + 1
  /\ UNCHANGED <<store, passes, pool, chain, orphaned, faults>>

\* Blocks above the safe one are replaced; their commits may be mined again.
Reorg(n) ==
  /\ Fault
  /\ n >= safe /\ n < Len(chain)
  /\ chain' = SubSeq(chain, 1, n)
  /\ \E back \in SUBSET {chain[i] : i \in n + 1 .. Len(chain)} : pool' = pool \cup back
  /\ orphaned' = orphaned \cup {p \in Passes : stage[p] = "mined" /\ receipt[p] > n}
  /\ UNCHANGED <<store, passes, safe>>

Pass(p) ==
  \/ \E batch \in agenda[p] : CheckBatch(p, batch)
  \/ ReleaseBatch(p) \/ SendCommit(p) \/ NoReceipt(p) \/ Reverted(p) \/ MarkBatched(p)
  \/ p \in Ticks /\ ReadUnbatched(p)

Next ==
  \/ \E r \in Rows : Record(r)
  \/ \E p \in Ticks : StartTick(p)
  \/ \E p \in Passes : Pass(p) \/ CallFails(p)
  \/ \E p \in Flushes : ReadUnbatched(p)
  \/ \E tx \in pool : Mine(tx) \/ LoseCommit(tx)
  \/ \E n \in 0 .. MaxBatches : Reorg(n)
  \/ AdvanceSafe \/ Crash

Spec == Init /\ [][Next]_vars

(***************************************************************************)
(* setInterval() keeps firing, the calls of a pass return, what stays in    *)
(* the pool is mined and blocks become safe; faults stop at MaxFaults.      *)
(***************************************************************************)
Fairness ==
  /\ WF_vars(\E p \in Ticks : StartTick(p))
  /\ \A p \in Passes : WF_vars(Pass(p))
  /\ WF_vars(\E tx \in pool : Mine(tx))
  /\ WF_vars(AdvanceSafe)

FairSpec == Spec /\ Fairness

-----------------------------------------------------------------------------
(***************************************************************************)
(* The store, the passes and the chain have the shape the code gives them.  *)
(***************************************************************************)
Stages  == {"idle", "reconciling", "releasing", "loaded", "sent", "mined"}
BatchTag == [index : Nat, root : SUBSET Rows]
Commits == [by : Passes, prevRoot : SUBSET Rows, root : SUBSET Rows]

TypeOK ==
  /\ rows \subseteq Rows
  /\ tag \in [Rows -> BatchTag]
  /\ stage \in [Passes -> Stages]
  /\ agenda \in [Passes -> SUBSET BatchTag]
  /\ stale \in [Passes -> Nat]
  /\ held \in [Passes -> SUBSET Rows]
  /\ prevRoot \in [Passes -> SUBSET Rows]
  /\ receipt \in [Passes -> Nat]
  /\ anchoring \in BOOLEAN
  /\ pool \subseteq Commits
  /\ chain \in Seq(Commits)
  /\ safe \in Nat
  /\ orphaned \subseteq Passes
  /\ faults \in Nat

\* reconcile() will find this batch and release its rows.
WillBeReleased(i) == \E r \in EntriesInBatch(i) : ~OnChain(i, tag[r].root)
\* The proofs that proofsForBatch() builds from the local rows verify on chain.
Provable(i) == OnChain(i, EntriesInBatch(i))

(***************************************************************************)
(* logger.ts:129, anchor.ts:120 on "entries permanently unprovable": a row  *)
(* tagged as anchored can be proved from the local rows, or the next        *)
(* reconcile() releases it to be anchored again.                            *)
(***************************************************************************)
NothingStranded == \A r \in Tagged : Provable(tag[r].index) \/ WillBeReleased(tag[r].index)

(***************************************************************************)
(* Once the faults are over, every recorded row ends up anchored and        *)
(* provable for good: no dropped, orphaned or interrupted commit strands    *)
(* it, and no failing pass stops the scheduler.                             *)
(***************************************************************************)
EveryRowAnchored ==
  \A r \in Rows : [](r \in rows => <>[](r \in Tagged /\ Provable(tag[r].index)))
=============================================================================
