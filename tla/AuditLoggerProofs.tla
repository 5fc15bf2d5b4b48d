------------------------- MODULE AuditLoggerProofs -------------------------
(***************************************************************************)
(* Why anchoring strands no row and what the exit codes of audit --verify   *)
(* prove, for every number of rows, ticks, batches, faults and damages.     *)
(*                                                                          *)
(* Anchoring: the `anchoring` flag keeps passes apart, so the rows a pass   *)
(* holds stay unanchored until it tags them, so a batch is tagged and       *)
(* released as a whole.  The assumption is what the flag cannot give: that  *)
(* nobody calls flush() past it.                                            *)
(*                                                                          *)
(* The command: a batch is checked as a whole, so a listed row that raises  *)
(* nothing is committed with its neighbours; the total then says that no    *)
(* committed leaf is missing.  Counting works because ids are unique in the *)
(* store and in every root.                                                 *)
(***************************************************************************)
EXTENDS AuditVerify, FiniteSetTheorems, SequenceTheorems, TLAPS

(***************************************************************************)
(* The tag of a row without a batch, tags compared by their fields, and the *)
(* root a new commit names.                                                 *)
(***************************************************************************)
LEMMA UnbatchedType == Unbatched \in BatchTag
BY DEF Unbatched, BatchTag, ZeroRoot

\* Tags are equal when their fields are.
LEMMA SameTag == \A a, b \in BatchTag : a.index = b.index /\ a.root = b.root => a = b
BY DEF BatchTag

\* The root of the last batch is a set of rows.
LEMMA ChainHeadType == TypeOK => ChainHead \in SUBSET Rows
<1> SUFFICES ASSUME TypeOK, chain # <<>>
             PROVE  chain[Len(chain)].root \in SUBSET Rows
  BY DEF ChainHead, ZeroRoot
<1>1. chain \in Seq(Commits)
  BY DEF TypeOK
<1>2. Len(chain) \in 1 .. Len(chain)
  BY <1>1, LenProperties, EmptySeq
<1>3. chain[Len(chain)] \in Commits
  BY <1>1, <1>2, ElementOfSeq
<1> QED
  BY <1>3 DEF Commits

(***************************************************************************)
(* A pass that ends leaves the state of all passes well formed.             *)
(***************************************************************************)
LEMMA EndType ==
  ASSUME TypeOK, NEW p \in Passes, End(p)
  PROVE  /\ stage' \in [Passes -> Stages]
         /\ held' \in [Passes -> SUBSET Rows]
         /\ prevRoot' \in [Passes -> SUBSET Rows]
         /\ receipt' \in [Passes -> Nat]
         /\ agenda' \in [Passes -> SUBSET BatchTag]
         /\ stale' \in [Passes -> Nat]
         /\ anchoring' \in BOOLEAN
         /\ orphaned' \subseteq Passes
<1> USE DEF TypeOK, End, Unlocked
<1>1. stage' \in [Passes -> Stages] /\ anchoring' \in BOOLEAN
  BY DEF Stages
<1>2. held' \in [Passes -> SUBSET Rows] /\ prevRoot' \in [Passes -> SUBSET Rows]
  BY DEF ZeroRoot
<1>3. receipt' \in [Passes -> Nat] /\ stale' \in [Passes -> Nat]
  OBVIOUS
<1>4. agenda' \in [Passes -> SUBSET BatchTag] /\ orphaned' \subseteq Passes
  OBVIOUS
<1> QED
  BY <1>1, <1>2, <1>3, <1>4

(***************************************************************************)
(* Every step keeps the logger, the store and the chain well formed.        *)
(***************************************************************************)
LEMMA TypeInit == Init => TypeOK
<1> SUFFICES ASSUME Init
             PROVE  TypeOK
  OBVIOUS
<1>1. tag \in [Rows -> BatchTag]
  BY UnbatchedType DEF Init
<1>2. chain \in Seq(Commits)
  BY EmptySeq DEF Init
<1> QED
  BY <1>1, <1>2 DEF Init, TypeOK, ZeroRoot, Stages

\* The step by which the type invariant is kept.
LEMMA TypeStep == TypeOK /\ [Next]_vars => TypeOK'
<1> SUFFICES ASSUME TypeOK, [Next]_vars
             PROVE  TypeOK'
  OBVIOUS
<1> USE DEF TypeOK, Goto, store, passes, env, Stages
<1>1. ASSUME NEW r \in Rows, Record(r)
      PROVE  TypeOK'
  BY <1>1 DEF Record
<1>2. ASSUME NEW p \in Ticks, StartTick(p)
      PROVE  TypeOK'
  BY <1>2 DEF StartTick, AnchoredBatches, Tagged, Passes
<1>3. ASSUME NEW p \in Passes, NEW batch \in agenda[p], CheckBatch(p, batch)
      PROVE  TypeOK'
  <2>1. batch.index \in Nat
    BY DEF BatchTag
  <2>2. stage' \in [Passes -> Stages] /\ stale' \in [Passes -> Nat]
    BY <1>3, <2>1 DEF CheckBatch
  <2>3. agenda' \in [Passes -> SUBSET BatchTag]
    BY <1>3 DEF CheckBatch
  <2> QED
    BY <1>3, <2>2, <2>3 DEF CheckBatch
<1>4. ASSUME NEW p \in Passes, ReleaseBatch(p)
      PROVE  TypeOK'
  BY <1>4, UnbatchedType DEF ReleaseBatch
<1>5. ASSUME NEW p \in Passes, ReadUnbatched(p)
      PROVE  TypeOK'
  <2>1. CASE Pending = {}
    BY <1>5, <2>1, EndType DEF ReadUnbatched
  <2>2. CASE Pending # {}
    <3>1. Pending \in SUBSET Rows
      BY DEF Pending
    <3>2. held' \in [Passes -> SUBSET Rows] /\ stage' \in [Passes -> Stages]
      BY <1>5, <2>2, <3>1 DEF ReadUnbatched
    <3> QED
      BY <1>5, <2>2, <3>2 DEF ReadUnbatched
  <2> QED
    BY <2>1, <2>2
<1>6. ASSUME NEW p \in Passes, SendCommit(p)
      PROVE  TypeOK'
  <2>1. Commit(p, ChainHead, held[p]) \in Commits
    BY ChainHeadType DEF Commit, Commits
  <2> QED
    BY <1>6, <2>1, ChainHeadType DEF SendCommit
<1>7. ASSUME NEW tx \in pool, Mine(tx)
      PROVE  TypeOK'
  <2>1. chain' \in Seq(Commits)
    BY <1>7, AppendProperties DEF Mine
  <2>2. Len(chain) + 1 \in Nat
    BY LenProperties
  <2>3. receipt' \in [Passes -> Nat]
    BY <1>7, <2>2 DEF Mine
  <2>4. stage' \in [Passes -> Stages]
    BY <1>7 DEF Mine
  <2> QED
    BY <1>7, <2>1, <2>3, <2>4 DEF Mine
<1>8. ASSUME NEW p \in Passes, NoReceipt(p) \/ Reverted(p) \/ CallFails(p)
      PROVE  TypeOK'
  <2>1. End(p) /\ faults' \in Nat /\ UNCHANGED <<store, pool, chain, safe>>
    BY <1>8 DEF NoReceipt, Reverted, CallFails, Fault
  <2> QED
    BY <2>1, EndType
<1>9. ASSUME NEW p \in Passes, MarkBatched(p)
      PROVE  TypeOK'
  <2>1. [index |-> receipt[p], root |-> held[p]] \in BatchTag
    BY DEF BatchTag
  <2>2. tag' \in [Rows -> BatchTag]
    BY <1>9, <2>1 DEF MarkBatched, RowsToMark
  <2> QED
    BY <1>9, <2>2, EndType DEF MarkBatched, RowsToMark
<1>10. ASSUME NEW tx \in pool, LoseCommit(tx)
       PROVE  TypeOK'
  BY <1>10 DEF LoseCommit, Fault
<1>11. ASSUME NEW n \in 0 .. MaxBatches, Reorg(n)
       PROVE  TypeOK'
  <2>1. Len(chain) \in Nat /\ n < Len(chain) /\ n \in Nat
    BY <1>11, LenProperties, LoggerAssumption DEF Reorg
  <2>2. \A i \in 1 .. Len(chain) : chain[i] \in Commits
    BY ElementOfSeq
  <2>3. \A i \in 1 .. n : chain[i] \in Commits
    BY <2>1, <2>2
  <2>4. chain' \in Seq(Commits)
    BY <1>11, <2>1, <2>3, SubSeqProperties DEF Reorg
  <2>5. {chain[i] : i \in n + 1 .. Len(chain)} \subseteq Commits
    BY <2>1, <2>2
  <2>6. PICK back \in SUBSET {chain[i] : i \in n + 1 .. Len(chain)} : pool' = pool \cup back
    BY <1>11 DEF Reorg
  <2>7. pool' \subseteq Commits
    BY <2>5, <2>6
  <2> QED
    BY <1>11, <2>4, <2>7 DEF Reorg, Fault
<1>12. CASE AdvanceSafe
  BY <1>12 DEF AdvanceSafe
<1>13. CASE Crash
  <2>1. /\ stage' \in [Passes -> Stages] /\ agenda' \in [Passes -> SUBSET BatchTag]
        /\ stale' \in [Passes -> Nat] /\ receipt' \in [Passes -> Nat]
    BY <1>13 DEF Crash
  <2>2. held' \in [Passes -> SUBSET Rows] /\ prevRoot' \in [Passes -> SUBSET Rows]
    BY <1>13 DEF Crash, ZeroRoot
  <2>3. anchoring' \in BOOLEAN /\ orphaned' \subseteq Passes
    BY <1>13 DEF Crash
  <2>5. faults' \in Nat
    BY <1>13 DEF Crash, Fault
  <2>4. UNCHANGED <<rows, tag, pool, chain, safe>>
    BY <1>13 DEF Crash
  <2> QED
    BY <2>1, <2>2, <2>3, <2>4, <2>5
<1>14. CASE UNCHANGED vars
  BY <1>14 DEF vars
<1> QED
  BY <1>1, <1>2, <1>3, <1>4, <1>5, <1>6, <1>7, <1>8, <1>9, <1>10, <1>11, <1>12, <1>13,
     <1>14 DEF Next, Pass, Passes

(***************************************************************************)
(* The state of the logger, the store and the chain has its type.           *)
(***************************************************************************)
THEOREM LoggerTypeCorrect == Spec => []TypeOK
  BY TypeInit, TypeStep, PTL DEF Spec

-----------------------------------------------------------------------------
(* The inductive invariant. *)

Holding == {"loaded", "sent", "mined"}

\* Nobody calls flush() beside another pass.
NoOverlap == Flushes = {} \/ \A p, q \in Passes : p = q

\* At most one pass is under way; the flag of anchorTick() says so.
OnePass ==
  /\ Flushes = {} => \A p \in Passes : stage[p] # "idle" => anchoring
  /\ \A p, q \in Passes : stage[p] # "idle" /\ stage[q] # "idle" => p = q

\* What a pass read as unanchored still is.
HeldFresh ==
  \A p \in Passes :
    stage[p] \in Holding => \A r \in held[p] : r \in rows /\ tag[r] = Unbatched

\* A tag names exactly the rows that carry it.
TagsWhole ==
  \A r \in Rows :
    tag[r] # Unbatched => r \in rows /\ tag[r].root = {s \in Rows : tag[s] = tag[r]}

LoggerInv == TypeOK /\ OnePass /\ HeldFresh /\ TagsWhole

(***************************************************************************)
(* The flag admits one pass at a time, and every way out of a pass clears   *)
(* it.                                                                      *)
(***************************************************************************)
LEMMA OnePassStep == NoOverlap /\ LoggerInv /\ TypeOK' /\ [Next]_vars => OnePass'
<1> SUFFICES ASSUME Flushes = {}, LoggerInv, TypeOK', [Next]_vars
             PROVE  OnePass'
  BY DEF NoOverlap, OnePass
<1> USE DEF LoggerInv, TypeOK, Goto, store, passes, env, Passes, OnePass
<1>1. ASSUME NEW r \in Rows, Record(r)
      PROVE  OnePass'
  BY <1>1 DEF Record
<1>2. ASSUME NEW p \in Ticks, StartTick(p)
      PROVE  OnePass'
  BY <1>2 DEF StartTick, MayStart
<1>3. ASSUME NEW p \in Passes, NEW batch \in agenda[p], CheckBatch(p, batch)
      PROVE  OnePass'
  BY <1>3 DEF CheckBatch
<1>4. ASSUME NEW p \in Passes, ReleaseBatch(p)
      PROVE  OnePass'
  BY <1>4 DEF ReleaseBatch
<1>5. ASSUME NEW p \in Passes, ReadUnbatched(p)
      PROVE  OnePass'
  <2>1. CASE Pending = {}
    <3>1. End(p) /\ UNCHANGED store
      BY <1>5, <2>1 DEF ReadUnbatched
    <3>2. /\ stage' = [stage EXCEPT ![p] = "idle"]
          /\ held' = [held EXCEPT ![p] = {}]
          /\ anchoring' = FALSE
          /\ rows' = rows /\ tag' = tag
      BY <3>1 DEF End, Unlocked
    <3>3. \A q \in Passes : stage'[q] = "idle"
      BY <1>5, <3>2 DEF ReadUnbatched
    <3> QED
      BY <3>3
  <2>2. CASE Pending # {}
    BY <1>5, <2>2 DEF ReadUnbatched
  <2> QED
    BY <2>1, <2>2
<1>6. ASSUME NEW p \in Passes, SendCommit(p)
      PROVE  OnePass'
  BY <1>6 DEF SendCommit
<1>7. ASSUME NEW tx \in pool, Mine(tx)
      PROVE  OnePass'
  <2>1. tx.by \in Passes
    BY DEF Commits
  <2>2. CASE stage[tx.by] = "sent"
    <3>1. \A q \in Passes : stage'[q] # "idle" => stage[q] # "idle"
      BY <1>7, <2>1, <2>2 DEF Mine
    <3> QED
      BY <1>7, <3>1 DEF Mine
  <2>3. CASE stage[tx.by] # "sent"
    BY <1>7, <2>3 DEF Mine
  <2> QED
    BY <2>2, <2>3
<1>8. ASSUME NEW p \in Passes, NoReceipt(p) \/ Reverted(p) \/ CallFails(p)
      PROVE  OnePass'
  <2>1. End(p) /\ stage[p] # "idle"
    BY <1>8 DEF NoReceipt, Reverted, CallFails
  <2>2. \A q \in Passes : stage'[q] = "idle"
    BY <2>1 DEF End
  <2> QED
    BY <2>2
<1>9. ASSUME NEW p \in Passes, MarkBatched(p)
      PROVE  OnePass'
  <2>1. End(p) /\ stage[p] # "idle"
    BY <1>9 DEF MarkBatched
  <2>2. \A q \in Passes : stage'[q] = "idle"
    BY <2>1 DEF End
  <2> QED
    BY <2>2
<1>10. ASSUME NEW tx \in pool, LoseCommit(tx)
       PROVE  OnePass'
  BY <1>10 DEF LoseCommit
<1>11. ASSUME NEW n \in 0 .. MaxBatches, Reorg(n)
       PROVE  OnePass'
  BY <1>11 DEF Reorg
<1>12. CASE AdvanceSafe
  BY <1>12 DEF AdvanceSafe
<1>13. CASE Crash
  BY <1>13 DEF Crash
<1>14. CASE UNCHANGED vars
  BY <1>14 DEF vars
<1> QED
  BY <1>1, <1>2, <1>3, <1>4, <1>5, <1>6, <1>7, <1>8, <1>9, <1>10, <1>11, <1>12, <1>13, <1>14
     DEF Next, Pass

(***************************************************************************)
(* No other pass touches the rows that one holds.                           *)
(***************************************************************************)
LEMMA HeldFreshStep == NoOverlap /\ LoggerInv /\ TypeOK' /\ [Next]_vars => HeldFresh'
<1> SUFFICES ASSUME LoggerInv, TypeOK', [Next]_vars
             PROVE  HeldFresh'
  OBVIOUS
<1> USE DEF LoggerInv, TypeOK, Goto, store, passes, env, Passes, OnePass, HeldFresh, Holding
<1>1. ASSUME NEW r \in Rows, Record(r)
      PROVE  HeldFresh'
  BY <1>1 DEF Record
<1>2. ASSUME NEW p \in Ticks, StartTick(p)
      PROVE  HeldFresh'
  BY <1>2 DEF StartTick, MayStart
<1>3. ASSUME NEW p \in Passes, NEW batch \in agenda[p], CheckBatch(p, batch)
      PROVE  HeldFresh'
  BY <1>3 DEF CheckBatch
<1>4. ASSUME NEW p \in Passes, ReleaseBatch(p)
      PROVE  HeldFresh'
  BY <1>4 DEF ReleaseBatch
<1>5. ASSUME NEW p \in Passes, ReadUnbatched(p)
      PROVE  HeldFresh'
  <2>1. CASE Pending = {}
    <3>1. End(p) /\ UNCHANGED store
      BY <1>5, <2>1 DEF ReadUnbatched
    <3>2. /\ stage' = [stage EXCEPT ![p] = "idle"]
          /\ held' = [held EXCEPT ![p] = {}]
          /\ rows' = rows /\ tag' = tag
      BY <3>1 DEF End, Unlocked
    <3> QED
      BY <3>2
  <2>2. CASE Pending # {}
    <3>1. /\ stage' = [stage EXCEPT ![p] = "loaded"]
          /\ held' = [held EXCEPT ![p] = Pending]
          /\ rows' = rows /\ tag' = tag
      BY <1>5, <2>2 DEF ReadUnbatched
    <3>2. \A r \in Pending : r \in rows /\ tag[r] = Unbatched
      BY DEF Pending
    <3> QED
      BY <3>1, <3>2
  <2> QED
    BY <2>1, <2>2
<1>6. ASSUME NEW p \in Passes, SendCommit(p)
      PROVE  HeldFresh'
  BY <1>6 DEF SendCommit
<1>7. ASSUME NEW tx \in pool, Mine(tx)
      PROVE  HeldFresh'
  BY <1>7 DEF Mine
<1>8. ASSUME NEW p \in Passes, NoReceipt(p) \/ Reverted(p) \/ CallFails(p)
      PROVE  HeldFresh'
  <2>1. End(p) /\ UNCHANGED store
    BY <1>8 DEF NoReceipt, Reverted, CallFails
  <2>2. /\ stage' = [stage EXCEPT ![p] = "idle"]
        /\ held' = [held EXCEPT ![p] = {}]
        /\ rows' = rows /\ tag' = tag
    BY <2>1 DEF End
  <2> QED
    BY <2>2
<1>9. ASSUME NEW p \in Passes, MarkBatched(p)
      PROVE  HeldFresh'
  BY <1>9 DEF MarkBatched, RowsToMark, End, Unlocked
<1>10. ASSUME NEW tx \in pool, LoseCommit(tx)
       PROVE  HeldFresh'
  BY <1>10 DEF LoseCommit
<1>11. ASSUME NEW n \in 0 .. MaxBatches, Reorg(n)
       PROVE  HeldFresh'
  BY <1>11 DEF Reorg
<1>12. CASE AdvanceSafe
  BY <1>12 DEF AdvanceSafe
<1>13. CASE Crash
  BY <1>13 DEF Crash
<1>14. CASE UNCHANGED vars
  BY <1>14 DEF vars
<1> QED
  BY <1>1, <1>2, <1>3, <1>4, <1>5, <1>6, <1>7, <1>8, <1>9, <1>10, <1>11, <1>12, <1>13, <1>14
     DEF Next, Pass

(***************************************************************************)
(* A batch is tagged and released as a whole.                               *)
(***************************************************************************)
LEMMA TagsWholeStep == NoOverlap /\ LoggerInv /\ TypeOK' /\ [Next]_vars => TagsWhole'
<1> SUFFICES ASSUME LoggerInv, TypeOK', [Next]_vars
             PROVE  TagsWhole'
  OBVIOUS
<1> USE DEF LoggerInv, TypeOK, Goto, store, passes, env, Passes, TagsWhole
<1>1. ASSUME NEW r \in Rows, Record(r)
      PROVE  TagsWhole'
  BY <1>1 DEF Record
<1>2. ASSUME NEW p \in Ticks, StartTick(p)
      PROVE  TagsWhole'
  BY <1>2 DEF StartTick, MayStart
<1>3. ASSUME NEW p \in Passes, NEW batch \in agenda[p], CheckBatch(p, batch)
      PROVE  TagsWhole'
  BY <1>3 DEF CheckBatch
<1>4. ASSUME NEW p \in Passes, ReleaseBatch(p)
      PROVE  TagsWhole'
  <2> DEFINE Gone == EntriesInBatch(stale[p])
  <2>1. tag' = [r \in Rows |-> IF r \in Gone THEN Unbatched ELSE tag[r]] /\ rows' = rows
    BY <1>4 DEF ReleaseBatch
  <2>2. \A r, s \in Rows : tag[r] = tag[s] /\ tag[r] # Unbatched => (r \in Gone <=> s \in Gone)
    BY DEF EntriesInBatch, Tagged
  <2> HIDE DEF Gone
  <2> QED
    BY <2>1, <2>2
<1>5. ASSUME NEW p \in Passes, ReadUnbatched(p)
      PROVE  TagsWhole'
  BY <1>5 DEF ReadUnbatched, End, Unlocked, Pending
<1>6. ASSUME NEW p \in Passes, SendCommit(p)
      PROVE  TagsWhole'
  BY <1>6 DEF SendCommit
<1>7. ASSUME NEW tx \in pool, Mine(tx)
      PROVE  TagsWhole'
  BY <1>7 DEF Mine
<1>8. ASSUME NEW p \in Passes, NoReceipt(p) \/ Reverted(p) \/ CallFails(p)
      PROVE  TagsWhole'
  <2>1. UNCHANGED <<rows, tag>>
    BY <1>8 DEF NoReceipt, Reverted, CallFails
  <2> QED
    BY <2>1
<1>9. ASSUME NEW p \in Passes, MarkBatched(p)
      PROVE  TagsWhole'
  <2> DEFINE new == [index |-> receipt[p], root |-> held[p]]
  <2>1. /\ tag' = [r \in Rows |-> IF r \in held[p] THEN new ELSE tag[r]]
        /\ rows' = rows /\ stage[p] = "mined" /\ receipt[p] # 0
    BY <1>9 DEF MarkBatched, RowsToMark
  <2>2. new # Unbatched /\ new.root = held[p]
    BY <2>1 DEF Unbatched
  <2>3. \A r \in held[p] : r \in rows /\ tag[r] = Unbatched
    BY <2>1 DEF HeldFresh, Holding
  <2>4. \A r \in Rows : tag[r] # new
    <3> SUFFICES ASSUME NEW r \in Rows, tag[r] = new
                 PROVE  FALSE
      OBVIOUS
    <3>1. held[p] = {s \in Rows : tag[s] = new}
      BY <2>2
    <3> QED
      BY <2>2, <2>3, <3>1
  <2> HIDE DEF new
  <2>5. held[p] \subseteq Rows
    BY DEF Passes
  <2>6. ASSUME NEW r \in Rows, r \in held[p]
        PROVE  r \in rows' /\ tag'[r].root = {s \in Rows : tag'[s] = tag'[r]}
    BY <2>1, <2>2, <2>3, <2>4, <2>5, <2>6
  <2>7. ASSUME NEW r \in Rows, r \notin held[p], tag[r] # Unbatched
        PROVE  r \in rows' /\ tag'[r].root = {s \in Rows : tag'[s] = tag'[r]}
    BY <2>1, <2>3, <2>4, <2>7
  <2> QED
    BY <2>1, <2>6, <2>7
<1>10. ASSUME NEW tx \in pool, LoseCommit(tx)
       PROVE  TagsWhole'
  BY <1>10 DEF LoseCommit
<1>11. ASSUME NEW n \in 0 .. MaxBatches, Reorg(n)
       PROVE  TagsWhole'
  BY <1>11 DEF Reorg
<1>12. CASE AdvanceSafe
  BY <1>12 DEF AdvanceSafe
<1>13. CASE Crash
  BY <1>13 DEF Crash
<1>14. CASE UNCHANGED vars
  BY <1>14 DEF vars
<1> QED
  BY <1>1, <1>2, <1>3, <1>4, <1>5, <1>6, <1>7, <1>8, <1>9, <1>10, <1>11, <1>12, <1>13, <1>14
     DEF Next, Pass

(***************************************************************************)
(* With one pass at a time, LoggerInv is kept.                              *)
(***************************************************************************)
LEMMA LoggerInvInit == Init => LoggerInv
  BY TypeInit DEF Init, LoggerInv, OnePass, HeldFresh, Holding, TagsWhole

\* The step by which it is kept.
LEMMA LoggerInvStep == NoOverlap /\ LoggerInv /\ [Next]_vars => LoggerInv'
  BY TypeStep, OnePassStep, HeldFreshStep, TagsWholeStep DEF LoggerInv

(***************************************************************************)
(* Tags that are whole leave no row stranded: if no row of a batch is to be *)
(* released, all of them carry the tag whose root is on chain.              *)
(***************************************************************************)
LEMMA WholeTagsStrandNothing == LoggerInv => NothingStranded
<1> SUFFICES ASSUME LoggerInv, NEW r \in Tagged, ~WillBeReleased(tag[r].index)
             PROVE  Provable(tag[r].index)
  BY DEF NothingStranded
<1>1. r \in Rows /\ tag[r] # Unbatched
  BY DEF Tagged, LoggerInv, TypeOK
<1>2. OnChain(tag[r].index, tag[r].root)
  BY <1>1 DEF WillBeReleased, EntriesInBatch, Tagged, OnChain
<1>3. \A s \in EntriesInBatch(tag[r].index) : tag[s] = tag[r]
  <2> TAKE s \in EntriesInBatch(tag[r].index)
  <2>1. s \in Rows /\ tag[s].index = tag[r].index
    BY DEF EntriesInBatch, Tagged, LoggerInv, TypeOK
  <2>2. OnChain(tag[s].index, tag[s].root)
    BY DEF WillBeReleased, OnChain, EntriesInBatch
  <2>3. tag[s].root = tag[r].root
    BY <1>2, <2>1, <2>2 DEF OnChain
  <2>4. tag[s] \in BatchTag /\ tag[r] \in BatchTag
    BY <1>1, <2>1 DEF LoggerInv, TypeOK
  <2> QED
    BY <2>1, <2>3, <2>4, SameTag
<1>4. EntriesInBatch(tag[r].index) = {s \in Rows : tag[s] = tag[r]}
  BY <1>1, <1>3 DEF EntriesInBatch, Tagged, LoggerInv, TypeOK, TagsWhole
<1> QED
  BY <1>1, <1>2, <1>4 DEF Provable, LoggerInv, TagsWhole

(***************************************************************************)
(* anchorTick() strands no row, whatever is interrupted, lost or            *)
(* reorganised away, as long as nobody runs flush() beside it.              *)
(***************************************************************************)
THEOREM TicksStrandNothing == ASSUME NoOverlap PROVE Spec => []NothingStranded
<1>1. LoggerInv /\ [Next]_vars => LoggerInv'
  BY LoggerInvStep
<1> QED
  BY <1>1, LoggerInvInit, WholeTagsStrandNothing, PTL DEF Spec

-----------------------------------------------------------------------------
(* The verify command beside the logger. *)

\* Until somebody damages the store, the logger's invariant holds.
UndamagedInv == damages \in Nat /\ (damages = 0 => LoggerInv)

(***************************************************************************)
(* The same for flush() called by hand, one call at a time, with the verify *)
(* command reading along, until the store is damaged.                       *)
(***************************************************************************)
THEOREM NothingIsStranded == ASSUME NoOverlap PROVE VerifySpec => []NothingStrandedUndamaged
<1>1. VerifyInit => UndamagedInv
  BY LoggerInvInit DEF VerifyInit, UndamagedInv
<1>2. UndamagedInv /\ [VerifyNext]_allVars => UndamagedInv'
  <2> SUFFICES ASSUME UndamagedInv, [VerifyNext]_allVars
               PROVE  UndamagedInv'
    OBVIOUS
  <2>1. CASE LoggerStep
    BY <2>1, LoggerInvStep DEF LoggerStep, UndamagedInv
  <2>2. ASSUME NEW r \in Rows, NEW s \in Rows, NEW batch,
               DeleteRow(r) \/ EditRow(r, s) \/ MoveRow(r, batch)
        PROVE  UndamagedInv'
    BY <2>2 DEF DeleteRow, EditRow, MoveRow, Damage, UndamagedInv
  <2>3. ASSUME UNCHANGED <<store, passes, env, damages>>, faults' = faults \/ Fault
        PROVE  UndamagedInv'
    <3>1. UNCHANGED <<rows, tag, stage, agenda, stale, held, prevRoot, receipt, anchoring,
                      pool, chain, safe, orphaned, damages>>
      BY <2>3 DEF store, passes, env
    <3>2. faults \in Nat => faults' \in Nat
      BY <2>3 DEF Fault
    <3> QED
      BY <3>1, <3>2 DEF UndamagedInv, LoggerInv, TypeOK, OnePass, HeldFresh, TagsWhole
  <2>4. ASSUME NEW r \in Rows, LookUp(r)
        PROVE  UndamagedInv'
    BY <2>3, <2>4 DEF LookUp, logging, vars
  <2>5. ASSUME NEW ids, ListEntries(ids)
        PROVE  UndamagedInv'
    BY <2>3, <2>5 DEF ListEntries, logging, vars
  <2>6. ASSUME NEW i \in 1 .. MaxBatches, CheckGroup(i) \/ GroupUnreadable(i)
        PROVE  UndamagedInv'
    BY <2>3, <2>6 DEF CheckGroup, GroupUnreadable, NextBatch
  <2>7. CASE WrongChain \/ CheckTotal \/ TotalUnreadable
    BY <2>3, <2>7 DEF WrongChain, CheckTotal, TotalUnreadable, Finish
  <2>8. CASE UNCHANGED allVars
    BY <2>3, <2>8 DEF allVars, vars
  <2> QED
    BY <2>1, <2>2, <2>4, <2>5, <2>6, <2>7, <2>8 DEF VerifyNext
<1>3. UndamagedInv => NothingStrandedUndamaged
  BY WholeTagsStrandNothing DEF UndamagedInv, NothingStrandedUndamaged
<1> QED
  BY <1>1, <1>2, <1>3, PTL DEF VerifySpec

-----------------------------------------------------------------------------
(* What is in the store and on its way to the chain. *)

\* No two of these rows share an id.
Distinct(S) == \A r, s \in S : r.id = s.id => r = s

\* Ids are unique wherever rows are kept, and only recorded rows are held or tagged.
StoreInv ==
  /\ Distinct(rows)
  /\ \A tx \in pool : Distinct(tx.root)
  /\ \A i \in DOMAIN chain : Distinct(chain[i].root)
  /\ \A p \in Passes : held[p] \subseteq rows /\ (stage[p] = "idle" => held[p] = {})
  /\ \A r \in Rows : r \notin rows => tag[r] = Unbatched

(***************************************************************************)
(* A step of the logger adds at most one row and removes none.              *)
(***************************************************************************)
LEMMA NextRows == Next => rows' = rows \/ \E r \in Rows : rows' = rows \cup {r}
<1> SUFFICES ASSUME Next
             PROVE  rows' = rows \/ \E r \in Rows : rows' = rows \cup {r}
  OBVIOUS
<1>1. ASSUME NEW r \in Rows, Record(r)
      PROVE  rows' = rows \cup {r}
  BY <1>1 DEF Record
<1>2. ASSUME NEW p \in Passes, Pass(p) \/ CallFails(p) \/ ReadUnbatched(p)
      PROVE  rows' = rows
  BY <1>2 DEF Pass, CheckBatch, ReleaseBatch, SendCommit, NoReceipt, Reverted, MarkBatched,
              CallFails, ReadUnbatched, store
<1>3. ASSUME NEW p \in Ticks, StartTick(p)
      PROVE  rows' = rows
  BY <1>3 DEF StartTick, store
<1>4. ASSUME NEW tx \in pool, Mine(tx) \/ LoseCommit(tx)
      PROVE  rows' = rows
  BY <1>4 DEF Mine, LoseCommit, store
<1>5. ASSUME NEW n \in 0 .. MaxBatches, Reorg(n)
      PROVE  rows' = rows
  BY <1>5 DEF Reorg, store
<1>6. CASE AdvanceSafe \/ Crash
  BY <1>6 DEF AdvanceSafe, Crash, store
<1> QED
  BY <1>1, <1>2, <1>3, <1>4, <1>5, <1>6 DEF Next, Passes

(***************************************************************************)
(* A step of the logger leaves the chain, appends to it, or replaces its    *)
(* last blocks.                                                             *)
(***************************************************************************)
LEMMA NextChain ==
  ASSUME TypeOK, Next
  PROVE  \/ chain' = chain
         \/ \E tx \in pool : chain' = Append(chain, tx)
         \/ \E n \in Nat : n < Len(chain) /\ chain' = SubSeq(chain, 1, n)
<1>1. ASSUME NEW r \in Rows, Record(r)
      PROVE  chain' = chain
  BY <1>1 DEF Record, env
<1>2. ASSUME NEW p \in Passes, Pass(p) \/ CallFails(p) \/ ReadUnbatched(p)
      PROVE  chain' = chain
  BY <1>2 DEF Pass, CheckBatch, ReleaseBatch, SendCommit, NoReceipt, Reverted, MarkBatched,
              CallFails, ReadUnbatched, env
<1>3. ASSUME NEW p \in Ticks, StartTick(p)
      PROVE  chain' = chain
  BY <1>3 DEF StartTick, env
<1>4. ASSUME NEW tx \in pool, Mine(tx) \/ LoseCommit(tx)
      PROVE  chain' = chain \/ chain' = Append(chain, tx)
  BY <1>4 DEF Mine, LoseCommit
<1>5. ASSUME NEW n \in 0 .. MaxBatches, Reorg(n)
      PROVE  n \in Nat /\ n < Len(chain) /\ chain' = SubSeq(chain, 1, n)
  BY <1>5, LoggerAssumption DEF Reorg
<1>6. CASE AdvanceSafe \/ Crash
  BY <1>6 DEF AdvanceSafe, Crash
<1> QED
  BY <1>1, <1>2, <1>3, <1>4, <1>5, <1>6 DEF Next, Passes

(***************************************************************************)
(* Every root on chain or under way was read from rows with unique ids.     *)
(***************************************************************************)
LEMMA StoreInvStep ==
  ASSUME TypeOK, StoreInv, Next, Distinct(rows')
  PROVE  StoreInv'
<1> USE DEF TypeOK, StoreInv, Goto, store, passes, env
<1>e. Distinct({}) /\ \A S : \A T \in SUBSET S : Distinct(S) => Distinct(T)
  BY DEF Distinct
<1>1. ASSUME NEW r \in Rows, Record(r)
      PROVE  StoreInv'
  BY <1>1 DEF Record
<1>2. ASSUME NEW p \in Ticks, StartTick(p)
      PROVE  StoreInv'
  BY <1>2 DEF StartTick, MayStart, Passes
<1>3. ASSUME NEW p \in Passes, NEW batch \in agenda[p], CheckBatch(p, batch)
      PROVE  StoreInv'
  BY <1>3 DEF CheckBatch
<1>4. ASSUME NEW p \in Passes, ReleaseBatch(p)
      PROVE  StoreInv'
  BY <1>4 DEF ReleaseBatch
<1>5. ASSUME NEW p \in Passes, ReadUnbatched(p)
      PROVE  StoreInv'
  <2>1. UNCHANGED <<rows, tag, pool, chain>>
    BY <1>5 DEF ReadUnbatched
  <2>2. \/ held' = [held EXCEPT ![p] = {}] /\ stage' = [stage EXCEPT ![p] = "idle"]
        \/ held' = [held EXCEPT ![p] = Pending] /\ stage' = [stage EXCEPT ![p] = "loaded"]
    BY <1>5 DEF ReadUnbatched, End
  <2>3. Pending \subseteq rows
    BY DEF Pending
  <2>4. held'[p] \subseteq rows /\ (stage'[p] = "idle" => held'[p] = {})
    BY <2>2, <2>3
  <2>5. \A q \in Passes \ {p} : held'[q] = held[q] /\ stage'[q] = stage[q]
    BY <2>2
  <2> QED
    BY <2>1, <2>4, <2>5
<1>6. ASSUME NEW p \in Passes, SendCommit(p)
      PROVE  StoreInv'
  <2>1. UNCHANGED <<rows, tag, held, chain>> /\ stage' = [stage EXCEPT ![p] = "sent"]
    BY <1>6 DEF SendCommit
  <2>2. stage[p] = "loaded"
    BY <1>6 DEF SendCommit
  <2>3. Distinct(held[p])
    BY <1>e
  <2>4. \A tx \in pool' : tx \in pool \/ tx.root = held[p]
    BY <1>6 DEF SendCommit, Commit
  <2> QED
    BY <2>1, <2>2, <2>3, <2>4
<1>7. ASSUME NEW tx \in pool, Mine(tx)
      PROVE  StoreInv'
  <2>1. UNCHANGED <<rows, tag, held>> /\ pool' \subseteq pool
    BY <1>7 DEF Mine
  <2>2. \A q \in Passes : stage'[q] = "idle" => stage[q] = "idle"
    BY <1>7 DEF Mine
  <2>3. chain' = chain \/ chain' = Append(chain, tx)
    BY <1>7 DEF Mine
  <2>4. tx \in Commits /\ chain \in Seq(Commits)
    OBVIOUS
  <2>5. \A i \in DOMAIN chain' : Distinct(chain'[i].root)
    <3>1. CASE chain' = chain
      BY <3>1
    <3>2. CASE chain' = Append(chain, tx)
      <4>1. DOMAIN chain = 1 .. Len(chain) /\ Len(chain) \in Nat
        BY <2>4, LenProperties
      <4>2. chain' \in Seq(Commits) /\ Len(chain') = Len(chain) + 1
        BY <2>4, <3>2, AppendProperties
      <4>3. DOMAIN chain' = 1 .. Len(chain) + 1
        BY <4>2, LenProperties
      <4>4. /\ \A i \in 1 .. Len(chain) : chain'[i] = chain[i]
            /\ chain'[Len(chain) + 1] = tx
        BY <2>4, <3>2, AppendProperties
      <4>5. \A i \in DOMAIN chain' : i \in DOMAIN chain \/ i = Len(chain) + 1
        BY <4>1, <4>3
      <4>6. \A i \in DOMAIN chain : chain'[i] = chain[i]
        BY <4>1, <4>4
      <4> QED
        BY <4>4, <4>5, <4>6
    <3> QED
      BY <2>3, <3>1, <3>2
  <2> QED
    BY <2>1, <2>2, <2>5
<1>8. ASSUME NEW p \in Passes, NoReceipt(p) \/ Reverted(p) \/ CallFails(p)
      PROVE  StoreInv'
  <2>1. End(p) /\ UNCHANGED <<rows, tag, pool, chain>>
    BY <1>8 DEF NoReceipt, Reverted, CallFails
  <2>2. held' = [held EXCEPT ![p] = {}] /\ stage' = [stage EXCEPT ![p] = "idle"]
    BY <2>1 DEF End
  <2> QED
    BY <2>1, <2>2
<1>9. ASSUME NEW p \in Passes, MarkBatched(p)
      PROVE  StoreInv'
  <2>1. End(p) /\ UNCHANGED <<rows, pool, chain>>
    BY <1>9 DEF MarkBatched
  <2>2. held' = [held EXCEPT ![p] = {}] /\ stage' = [stage EXCEPT ![p] = "idle"]
    BY <2>1 DEF End
  <2>3. \A r \in Rows : r \notin held[p] => tag'[r] = tag[r]
    BY <1>9 DEF MarkBatched, RowsToMark
  <2> QED
    BY <2>1, <2>2, <2>3
<1>10. ASSUME NEW tx \in pool, LoseCommit(tx)
       PROVE  StoreInv'
  BY <1>10 DEF LoseCommit
<1>11. ASSUME NEW n \in 0 .. MaxBatches, Reorg(n)
       PROVE  StoreInv'
  <2>1. Len(chain) \in Nat /\ n < Len(chain) /\ n \in Nat /\ chain \in Seq(Commits)
    BY <1>11, LenProperties, LoggerAssumption DEF Reorg
  <2>2. chain' = SubSeq(chain, 1, n) /\ UNCHANGED <<rows, tag, stage, held>>
    BY <1>11 DEF Reorg
  <2>3. DOMAIN chain = 1 .. Len(chain)
    BY <2>1, LenProperties
  <2>4. Len(chain') = n /\ \A i \in 1 .. n : chain'[i] = chain[i]
    BY <2>1, <2>2, SubSeqProperties, ElementOfSeq
  <2>5. chain' \in Seq(Commits)
    BY TypeStep, <1>11 DEF Next
  <2>6. \A i \in DOMAIN chain' : i \in DOMAIN chain /\ chain'[i] = chain[i]
    BY <2>1, <2>3, <2>4, <2>5, LenProperties
  <2>7. PICK back \in SUBSET {chain[i] : i \in n + 1 .. Len(chain)} : pool' = pool \cup back
    BY <1>11 DEF Reorg
  <2>8. \A tx \in back : \E i \in DOMAIN chain : tx = chain[i]
    <3>1. n + 1 .. Len(chain) \subseteq 1 .. Len(chain)
      BY <2>1
    <3> QED
      BY <2>3, <2>7, <3>1
  <2> QED
    BY <2>2, <2>6, <2>7, <2>8
<1>12. CASE AdvanceSafe
  BY <1>12 DEF AdvanceSafe
<1>13. CASE Crash
  BY <1>13 DEF Crash
<1> QED
  BY <1>1, <1>2, <1>3, <1>4, <1>5, <1>6, <1>7, <1>8, <1>9, <1>10, <1>11, <1>12, <1>13
     DEF Next, Pass, Passes

-----------------------------------------------------------------------------
(* The command. *)

\* The state of the store, the chain and the command has its type.
VerifyTypeOK ==
  /\ TypeOK
  /\ look \in {"off", "grouping", "done"}
  /\ listed \subseteq Rows /\ unread \subseteq listed
  /\ group \in [Rows -> Nat] /\ unchecked \subseteq Nat
  /\ problem \in BOOLEAN /\ errored \in BOOLEAN

\* Before the command there is nothing listed; while it runs no listed row goes away.
CommandInv ==
  /\ VerifyTypeOK
  /\ StoreInv
  /\ look = "off" => /\ listed = {} /\ unchecked = {} /\ ~problem
                     /\ group = [r \in Rows |-> 0]
  /\ look = "grouping" => listed \subseteq rows

\* An edit changes no id.
LEMMA EditKeepsId ==
  ASSUME NEW r \in Rows, NEW s \in Rows, EditRow(r, s)
  PROVE  s.id = r.id
<1>1. PICK column \in {"contents", "hash", "time"} : s = [r EXCEPT ![column] = s[column]]
  BY DEF EditRow
<1>2. r \in [id : Ids, contents : {"recorded", "edited"},
             hash : {"recorded", "edited"}, time : {"recorded", "postdated"}]
  BY VerifyAssumption
<1> QED
  BY <1>1, <1>2

(***************************************************************************)
(* Damage to the store leaves the ids of the rows unique, and no tag on a   *)
(* row that is not there.                                                   *)
(***************************************************************************)
LEMMA DamageKeepsStore ==
  ASSUME TypeOK, StoreInv, NEW r \in Rows, NEW s \in Rows,
         NEW batch \in AnchoredBatches \cup {Unbatched},
         DeleteRow(r) \/ EditRow(r, s) \/ MoveRow(r, batch)
  PROVE  TypeOK' /\ StoreInv'
<1>0. UNCHANGED <<stage, agenda, stale, held, prevRoot, receipt, anchoring, pool, chain, safe,
                  orphaned, faults>>
  BY DEF DeleteRow, EditRow, MoveRow, Damage, passes, env
<1>1. \A p \in Passes : held[p] = {}
  BY DEF DeleteRow, EditRow, MoveRow, Damage, StoreInv
<1>2. batch \in BatchTag
  BY UnbatchedType DEF AnchoredBatches, Tagged, TypeOK
<1>3. CASE DeleteRow(r)
  <2>1. rows' = rows \ {r} /\ tag' = [tag EXCEPT ![r] = Unbatched]
    BY <1>3 DEF DeleteRow
  <2>2. TypeOK'
    BY <1>0, <2>1, UnbatchedType DEF TypeOK
  <2> QED
    BY <1>0, <1>1, <2>1, <2>2 DEF TypeOK, StoreInv, Distinct
<1>4. CASE EditRow(r, s)
  <2>1. /\ rows' = (rows \ {r}) \cup {s} /\ tag' = [tag EXCEPT ![s] = tag[r], ![r] = Unbatched]
        /\ r \in rows /\ s # r
    BY <1>4 DEF EditRow
  <2>2. s.id = r.id
    BY <1>4, EditKeepsId
  <2>3. TypeOK'
    BY <1>0, <2>1, UnbatchedType DEF TypeOK
  <2>4. Distinct(rows')
    BY <2>1, <2>2 DEF StoreInv, Distinct
  <2>5. \A q \in Rows : q \notin rows' => tag'[q] = Unbatched
    BY <2>1 DEF TypeOK, StoreInv
  <2> QED
    BY <1>0, <1>1, <2>3, <2>4, <2>5 DEF StoreInv
<1>5. CASE MoveRow(r, batch)
  <2>1. rows' = rows /\ tag' = [tag EXCEPT ![r] = batch] /\ r \in rows
    BY <1>5 DEF MoveRow
  <2>2. TypeOK'
    BY <1>0, <1>2, <2>1 DEF TypeOK
  <2> QED
    BY <1>0, <1>1, <2>1, <2>2 DEF TypeOK, StoreInv
<1> QED
  BY <1>3, <1>4, <1>5

(***************************************************************************)
(* The logger gives every row a new id.                                     *)
(***************************************************************************)
LEMMA LoggerKeepsStore ==
  ASSUME TypeOK, StoreInv, LoggerStep
  PROVE  TypeOK' /\ StoreInv' /\ rows \subseteq rows'
<1>1. TypeOK'
  BY TypeStep DEF LoggerStep
<1>2. rows' = rows \/ \E r \in Rows : rows' = rows \cup {r}
  BY NextRows DEF LoggerStep
<1>3. \A r \in rows' \ rows : \A s \in rows : r.id # s.id
  BY DEF LoggerStep
<1>4. Distinct(rows')
  BY <1>2, <1>3 DEF StoreInv, Distinct
<1>5. StoreInv'
  BY <1>4, StoreInvStep DEF LoggerStep
<1> QED
  BY <1>1, <1>2, <1>5

(***************************************************************************)
(* The command reads, and only reads.                                       *)
(***************************************************************************)
LEMMA ReadsOnly ==
  ASSUME TypeOK, StoreInv, UNCHANGED <<store, passes, env>>, faults' = faults \/ Fault
  PROVE  TypeOK' /\ StoreInv' /\ UNCHANGED <<rows, tag, chain>>
<1>1. UNCHANGED <<rows, tag, stage, agenda, stale, held, prevRoot, receipt, anchoring,
                  pool, chain, safe, orphaned>>
  BY DEF store, passes, env
<1>2. faults' \in Nat
  BY DEF Fault, TypeOK
<1>3. TypeOK'
  BY <1>1, <1>2 DEF TypeOK
<1>4. StoreInv'
  BY <1>1 DEF StoreInv
<1> QED
  BY <1>1, <1>3, <1>4

(***************************************************************************)
(* Every step keeps CommandInv.                                             *)
(***************************************************************************)
LEMMA CommandInit == VerifyInit => CommandInv
<1> SUFFICES ASSUME VerifyInit
             PROVE  CommandInv
  OBVIOUS
<1>1. TypeOK
  BY TypeInit DEF VerifyInit
<1>2. VerifyTypeOK
  BY <1>1 DEF VerifyInit, VerifyTypeOK
<1>3. StoreInv
  BY DEF VerifyInit, Init, StoreInv, Distinct
<1> QED
  BY <1>2, <1>3 DEF CommandInv, VerifyInit

\* The step by which it is kept.
LEMMA CommandStep == CommandInv /\ [VerifyNext]_allVars => CommandInv'
<1> SUFFICES ASSUME CommandInv, [VerifyNext]_allVars
             PROVE  CommandInv'
  OBVIOUS
<1> USE DEF CommandInv
<1>0. TypeOK /\ StoreInv
  BY DEF VerifyTypeOK
<1>1. CASE LoggerStep
  <2>1. TypeOK' /\ StoreInv' /\ rows \subseteq rows'
    BY <1>0, <1>1, LoggerKeepsStore
  <2>2. UNCHANGED <<look, listed, unread, group, unchecked, problem, errored>>
    BY <1>1 DEF LoggerStep
  <2> QED
    BY <2>1, <2>2 DEF VerifyTypeOK
<1>2. ASSUME NEW r \in Rows, NEW s \in Rows, NEW batch \in AnchoredBatches \cup {Unbatched},
             DeleteRow(r) \/ EditRow(r, s) \/ MoveRow(r, batch)
      PROVE  CommandInv'
  <2>1. TypeOK' /\ StoreInv'
    BY <1>0, <1>2, DamageKeepsStore
  <2>2. look = "off" /\ UNCHANGED <<look, listed, unread, group, unchecked, problem, errored>>
    BY <1>2 DEF DeleteRow, EditRow, MoveRow, Damage, verification
  <2> QED
    BY <2>1, <2>2 DEF VerifyTypeOK
<1>3. ASSUME NEW r \in Rows, LookUp(r)
      PROVE  CommandInv'
  <2>1. TypeOK' /\ StoreInv' /\ UNCHANGED <<rows, tag, chain>>
    BY <1>0, <1>3, ReadsOnly DEF LookUp, logging, vars
  <2>2. tag[r].index \in Nat
    BY <1>0 DEF TypeOK, BatchTag
  <2>3. group' \in [Rows -> Nat] /\ unchecked' \subseteq Nat /\ unread' \subseteq unread
    BY <1>3, <2>2 DEF LookUp, BatchIndex, VerifyTypeOK
  <2>4. look = "grouping" /\ UNCHANGED <<look, listed, problem, errored>>
    BY <1>3 DEF LookUp
  <2> QED
    BY <2>1, <2>3, <2>4 DEF VerifyTypeOK
<1>4. ASSUME NEW ids \in {Ids, AgentIds}, ListEntries(ids)
      PROVE  CommandInv'
  <2>1. TypeOK' /\ StoreInv' /\ UNCHANGED <<rows, tag, chain>>
    BY <1>0, <1>4, ReadsOnly DEF ListEntries, logging, vars
  <2>2. listed' \subseteq rows /\ unread' = listed' /\ look' \in {"grouping", "done"}
    BY <1>4 DEF ListEntries
  <2>3. UNCHANGED <<group, unchecked, problem, errored>>
    BY <1>4 DEF ListEntries
  <2> QED
    BY <2>1, <2>2, <2>3 DEF VerifyTypeOK, TypeOK
<1>5. ASSUME NEW i \in 1 .. MaxBatches, CheckGroup(i) \/ GroupUnreadable(i)
      PROVE  CommandInv'
  <2>1. TypeOK' /\ StoreInv' /\ UNCHANGED <<rows, tag, chain>>
    BY <1>0, <1>5, ReadsOnly DEF CheckGroup, GroupUnreadable, NextBatch
  <2>2. unchecked' \subseteq unchecked /\ look = "grouping" /\ UNCHANGED <<look, listed, unread, group>>
    BY <1>5 DEF CheckGroup, GroupUnreadable, NextBatch
  <2>3. problem' \in BOOLEAN /\ errored' \in BOOLEAN
    BY <1>5 DEF CheckGroup, GroupUnreadable, VerifyTypeOK
  <2> QED
    BY <2>1, <2>2, <2>3 DEF VerifyTypeOK
<1>6. CASE WrongChain \/ CheckTotal \/ TotalUnreadable
  <2>1. TypeOK' /\ StoreInv' /\ UNCHANGED <<rows, tag, chain>>
    BY <1>0, <1>6, ReadsOnly DEF WrongChain, CheckTotal, TotalUnreadable, Finish
  <2>2. look' = "done" /\ UNCHANGED <<listed, unread, group, unchecked, errored>>
    BY <1>6 DEF WrongChain, CheckTotal, TotalUnreadable, Finish
  <2>3. problem' \in BOOLEAN
    BY <1>6 DEF WrongChain, CheckTotal, TotalUnreadable, VerifyTypeOK
  <2> QED
    BY <2>1, <2>2, <2>3 DEF VerifyTypeOK
<1>7. CASE UNCHANGED allVars
  <2>1. UNCHANGED <<vars, look, listed, unread, group, unchecked, problem, errored>>
    BY <1>7 DEF allVars, verification
  <2>2. TypeOK' /\ StoreInv' /\ UNCHANGED <<rows, tag, chain>>
    BY <1>0, <2>1, ReadsOnly DEF vars
  <2> QED
    BY <2>1, <2>2 DEF VerifyTypeOK
<1> QED
  <2>1. Unbatched \in AnchoredBatches \cup {Unbatched}
    OBVIOUS
  <2> QED
    BY <1>1, <1>2, <1>3, <1>4, <1>5, <1>6, <1>7, <2>1 DEF VerifyNext

-----------------------------------------------------------------------------
(* Exit code 0: what was seen. *)

\* What the checks of a batch establish of one of its listed rows.
Vouched(r) ==
  /\ group[r] \in DOMAIN chain
  /\ Canonical(r) \in Leaves(chain[group[r]].root)
  /\ Leaves(chain[group[r]].root) \subseteq Leaves(rows)
  /\ StoredHashMatches(r) /\ r.time = "recorded"

\* As long as nothing was noted, every row looked up is vouched for or waits for its check.
SeenInv ==
  look = "grouping" /\ ~problem /\ ~errored /\ meanwhile # "replaced" =>
    \A r \in listed \ unread : group[r] # 0 => group[r] \in unchecked \/ Vouched(r)

(***************************************************************************)
(* A batch that passes all checks vouches for its rows: the row with the    *)
(* same id is the same row, and the local leaves are the committed ones.    *)
(***************************************************************************)
LEMMA CheckedRowVouched ==
  ASSUME CommandInv, look = "grouping", NEW i,
         ~BatchMismatch(i), ~RowMismatch(i), ~NoProof(i), NEW r \in Group(i)
  PROVE  Vouched(r)
<1>1. i \in DOMAIN chain /\ group[r] = i /\ r \in listed
  BY DEF BatchMismatch, Group
<1>2. PICK s \in EntriesInBatch(i) : s.id = r.id
  BY <1>1 DEF NoProof
<1>3. s \in rows /\ EntriesInBatch(i) \subseteq rows
  BY DEF EntriesInBatch, Tagged
<1>4. r \in rows
  BY <1>1 DEF CommandInv
<1>5. r = s
  BY <1>2, <1>3, <1>4 DEF CommandInv, StoreInv, Distinct
<1>6. Leaves(EntriesInBatch(i)) = Leaves(chain[i].root)
  BY <1>2 DEF BatchMismatch
<1>7. Canonical(r) \in Leaves(EntriesInBatch(i)) /\ Leaves(EntriesInBatch(i)) \subseteq Leaves(rows)
  BY <1>3, <1>5 DEF Leaves
<1>8. r.time # "postdated" /\ StoredHashMatches(r)
  BY <1>1, <1>5 DEF RowMismatch
<1>9. r.time \in {"recorded", "postdated"}
  BY <1>1, VerifyAssumption DEF CommandInv, VerifyTypeOK
<1> QED
  BY <1>1, <1>6, <1>7, <1>8, <1>9 DEF Vouched

(***************************************************************************)
(* Unless a block is replaced, the batches on chain stay, and the rows.     *)
(***************************************************************************)
LEMMA LoggerAppends ==
  ASSUME CommandInv, LoggerStep, look = "grouping", meanwhile' # "replaced"
  PROVE  /\ rows \subseteq rows'
         /\ \A i \in DOMAIN chain : i \in DOMAIN chain' /\ chain'[i] = chain[i]
         /\ meanwhile # "replaced"
<1>1. TypeOK /\ StoreInv
  BY DEF CommandInv, VerifyTypeOK
<1>2. chain \in Seq(Commits) /\ pool \subseteq Commits
  BY <1>1 DEF TypeOK
<1>3. meanwhile # "replaced" /\ ~(Len(chain') < Len(chain))
  BY DEF LoggerStep, Noticed
<1>4. chain' = chain \/ \E tx \in pool : chain' = Append(chain, tx)
  <2>1. ASSUME NEW n \in Nat, n < Len(chain), chain' = SubSeq(chain, 1, n)
        PROVE  FALSE
    <3>1. \A i \in 1 .. n : chain[i] \in Commits
      BY <1>2, <2>1, LenProperties, ElementOfSeq
    <3>2. Len(chain') = n
      BY <2>1, <3>1, SubSeqProperties
    <3> QED
      BY <1>3, <2>1, <3>2
  <2> QED
    BY <1>1, <2>1, NextChain DEF LoggerStep
<1>5. ASSUME NEW tx \in pool, chain' = Append(chain, tx), NEW i \in DOMAIN chain
      PROVE  i \in DOMAIN chain' /\ chain'[i] = chain[i]
  <2>1. DOMAIN chain = 1 .. Len(chain) /\ Len(chain) \in Nat
    BY <1>2, LenProperties
  <2>2. chain' \in Seq(Commits) /\ Len(chain') = Len(chain) + 1
    BY <1>2, <1>5, AppendProperties
  <2>3. DOMAIN chain' = 1 .. Len(chain) + 1
    BY <2>2, LenProperties
  <2>4. \A j \in 1 .. Len(chain) : chain'[j] = chain[j]
    BY <1>2, <1>5, AppendProperties
  <2> QED
    BY <2>1, <2>3, <2>4
<1>6. rows \subseteq rows'
  BY <1>1, LoggerKeepsStore
<1> QED
  BY <1>3, <1>4, <1>5, <1>6

(***************************************************************************)
(* Every step keeps SeenInv.                                                *)
(***************************************************************************)
LEMMA SeenStep == CommandInv /\ SeenInv /\ [VerifyNext]_allVars => SeenInv'
<1> SUFFICES ASSUME CommandInv, SeenInv, [VerifyNext]_allVars,
                    look' = "grouping", ~problem', ~errored', meanwhile' # "replaced",
                    NEW r \in listed' \ unread', group'[r] # 0
             PROVE  group'[r] \in unchecked' \/ Vouched(r)'
  BY DEF SeenInv
<1>1. CASE LoggerStep
  <2>1. UNCHANGED <<look, listed, unread, group, unchecked, problem, errored>>
    BY <1>1 DEF LoggerStep
  <2>2. /\ rows \subseteq rows' /\ meanwhile # "replaced"
        /\ \A i \in DOMAIN chain : i \in DOMAIN chain' /\ chain'[i] = chain[i]
    BY <1>1, <2>1, LoggerAppends
  <2>3. group[r] \in unchecked \/ Vouched(r)
    BY <2>1, <2>2 DEF SeenInv
  <2>4. Leaves(rows) \subseteq Leaves(rows')
    BY <2>2 DEF Leaves
  <2>5. ASSUME Vouched(r)
        PROVE  Vouched(r)'
    <3>1. group'[r] = group[r] /\ group[r] \in DOMAIN chain' /\ chain'[group[r]] = chain[group[r]]
      BY <2>1, <2>2, <2>5 DEF Vouched
    <3> QED
      BY <2>4, <2>5, <3>1 DEF Vouched, Leaves
  <2> QED
    BY <2>1, <2>3, <2>5
<1>2. ASSUME NEW q \in Rows, NEW s \in Rows, NEW batch,
             DeleteRow(q) \/ EditRow(q, s) \/ MoveRow(q, batch)
      PROVE  FALSE
  BY <1>2 DEF DeleteRow, EditRow, MoveRow, Damage, verification
<1>3. ASSUME NEW q \in Rows, LookUp(q)
      PROVE  group'[r] \in unchecked' \/ Vouched(r)'
  <2>1. /\ look = "grouping" /\ q \in unread /\ unread' = unread \ {q}
        /\ group' = [group EXCEPT ![q] = BatchIndex(q)]
        /\ unchecked' = unchecked \cup ({BatchIndex(q)} \ {0})
        /\ UNCHANGED <<rows, chain, listed, problem, errored, meanwhile>>
    BY <1>3 DEF LookUp, logging, vars, store, env
  <2>2. group \in [Rows -> Nat] /\ r \in Rows
    BY <2>1 DEF CommandInv, VerifyTypeOK
  <2>3. CASE r = q
    BY <2>1, <2>2, <2>3
  <2>4. CASE r # q
    <3>1. group'[r] = group[r] /\ r \in listed \ unread
      BY <2>1, <2>2, <2>4
    <3>2. group[r] \in unchecked \/ Vouched(r)
      BY <2>1, <3>1 DEF SeenInv
    <3> QED
      BY <2>1, <3>1, <3>2 DEF Vouched
  <2> QED
    BY <2>3, <2>4
<1>4. ASSUME NEW ids \in {Ids, AgentIds}, ListEntries(ids)
      PROVE  FALSE
  BY <1>4 DEF ListEntries
<1>5. ASSUME NEW i \in 1 .. MaxBatches, GroupUnreadable(i)
      PROVE  FALSE
  BY <1>5 DEF GroupUnreadable
<1>6. ASSUME NEW i \in 1 .. MaxBatches, CheckGroup(i)
      PROVE  group'[r] \in unchecked' \/ Vouched(r)'
  <2>1. /\ look = "grouping" /\ unchecked' = unchecked \ {i}
        /\ UNCHANGED <<rows, chain, listed, unread, group, meanwhile>>
    BY <1>6 DEF CheckGroup, NextBatch, store, env
  <2>2. ~problem /\ ~errored /\ ~BatchMismatch(i) /\ ~RowMismatch(i) /\ ~NoProof(i)
    BY <1>6 DEF CheckGroup
  <2>3. group[r] \in unchecked \/ Vouched(r)
    BY <2>1, <2>2 DEF SeenInv
  <2>4. ASSUME group[r] = i
        PROVE  Vouched(r)
    <3>1. r \in Group(i)
      BY <2>1, <2>4 DEF Group
    <3> QED
      BY <2>1, <2>2, <3>1, CheckedRowVouched
  <2>5. Vouched(r) => Vouched(r)'
    BY <2>1 DEF Vouched
  <2> QED
    BY <2>1, <2>3, <2>4, <2>5
<1>7. CASE WrongChain \/ CheckTotal \/ TotalUnreadable
  BY <1>7 DEF WrongChain, CheckTotal, TotalUnreadable, Finish
<1>8. CASE UNCHANGED allVars
  <2>1. UNCHANGED <<rows, chain, look, listed, unread, group, unchecked, problem, errored, meanwhile>>
    BY <1>8 DEF allVars, vars, store, env, verification
  <2> QED
    BY <2>1 DEF SeenInv, Vouched
<1> QED
  BY <1>1, <1>2, <1>3, <1>4, <1>5, <1>6, <1>7, <1>8 DEF VerifyNext

(***************************************************************************)
(* When the command ends with exit code 0, it has checked what it listed.   *)
(***************************************************************************)
LEMMA CleanReport ==
  ASSUME CommandInv, SeenInv, VerifyNext, Reports, ExitCode' = 0, meanwhile' # "replaced"
  PROVE  /\ \A r \in listed : group[r] # 0 => Vouched(r)
         /\ scope' = Ids /\ listed' # {} => ~CompletenessGap /\ look = "grouping"
<1>1. ~problem' /\ ~errored'
  BY DEF ExitCode
<1>2. CASE CheckTotal
  <2>1. /\ look = "grouping" /\ unread = {} /\ unchecked = {} /\ meanwhile' = meanwhile
        /\ scope' = scope /\ errored' = errored
        /\ problem' = (problem \/ (scope = Ids /\ CompletenessGap))
    BY <1>2 DEF CheckTotal, Finish
  <2> QED
    BY <1>1, <2>1 DEF SeenInv
<1>3. ASSUME NEW ids \in {Ids, AgentIds}, ListEntries(ids)
      PROVE  listed = {} /\ listed' = {}
  BY <1>3 DEF ListEntries, CommandInv, Reports
<1>4. ~WrongChain /\ ~TotalUnreadable
  BY <1>1 DEF WrongChain, TotalUnreadable
<1>5. CASE LoggerStep
  BY <1>5 DEF LoggerStep, Reports
<1>6. ASSUME NEW r \in Rows, NEW s \in Rows, NEW batch,
             DeleteRow(r) \/ EditRow(r, s) \/ MoveRow(r, batch) \/ LookUp(r)
      PROVE  FALSE
  BY <1>6 DEF DeleteRow, EditRow, MoveRow, Damage, verification, LookUp, Reports
<1>7. ASSUME NEW i \in 1 .. MaxBatches, CheckGroup(i) \/ GroupUnreadable(i)
      PROVE  FALSE
  BY <1>7 DEF CheckGroup, GroupUnreadable, NextBatch, Reports
<1> QED
  BY <1>2, <1>3, <1>4, <1>5, <1>6, <1>7 DEF VerifyNext

(***************************************************************************)
(* Exit code 0 of audit --verify, with or without --agent: what it saw as   *)
(* anchored is committed, with these contents and all its neighbours.       *)
(***************************************************************************)
THEOREM SeenIsCommitted == VerifySpec => SeenMeansCommitted
<1> DEFINE Seen == Reports /\ ExitCode' = 0 /\ meanwhile' # "replaced" =>
                     \A r \in listed : group[r] # 0 =>
                       /\ group[r] \in DOMAIN chain
                       /\ Canonical(r) \in Leaves(chain[group[r]].root)
                       /\ Leaves(chain[group[r]].root) \subseteq Leaves(rows)
<1>1. VerifyInit => CommandInv /\ SeenInv
  BY CommandInit DEF VerifyInit, SeenInv
<1>2. CommandInv /\ SeenInv /\ [VerifyNext]_allVars => (CommandInv /\ SeenInv)'
  BY CommandStep, SeenStep
<1>3. CommandInv /\ SeenInv /\ [VerifyNext]_allVars => [Seen]_allVars
  <2> SUFFICES ASSUME CommandInv, SeenInv, VerifyNext
               PROVE  Seen
    OBVIOUS
  <2> QED
    BY CleanReport DEF Vouched
<1>4. VerifySpec => [][Seen]_allVars
  BY <1>1, <1>2, <1>3, PTL DEF VerifySpec
<1> QED
  BY <1>4 DEF SeenMeansCommitted

-----------------------------------------------------------------------------
(* Exit code 0: the whole log. *)

\* The rows counted locally, the leaves counted on chain, and the leaf of a row.
Anchored  == {r \in listed : group[r] # 0}
Committed == UNION {{i} \X chain[i].root : i \in DOMAIN chain}
LeafOf(r) == CHOOSE x \in chain[group[r]].root : Canonical(x) = Canonical(r)
Place     == [r \in Anchored |-> <<group[r], LeafOf(r)>>]

\* The rows counted locally are in the batches they were looked up in.
InBatches ==
  \A r \in Anchored : group[r] \in DOMAIN chain /\ Canonical(r) \in Leaves(chain[group[r]].root)

\* A leaf tells the id of its row.
LEMMA LeafKeepsId ==
  ASSUME NEW r \in Rows, NEW s \in Rows, Canonical(r) = Canonical(s)
  PROVE  r.id = s.id
<1>1. r \in [id : Ids, contents : {"recorded", "edited"},
             hash : {"recorded", "edited"}, time : {"recorded", "postdated"}]
      /\ s \in [id : Ids, contents : {"recorded", "edited"},
             hash : {"recorded", "edited"}, time : {"recorded", "postdated"}]
  BY VerifyAssumption
<1>2. Canonical(r).id = r.id /\ Canonical(s).id = s.id
  BY <1>1 DEF Canonical
<1> QED
  BY <1>2

\* Both counts are counts of finite sets.
LEMMA CountsFinite ==
  ASSUME TypeOK, listed \subseteq Rows
  PROVE  /\ IsFiniteSet(Anchored) /\ IsFiniteSet(Committed)
         /\ \A i \in DOMAIN chain : chain[i].root \subseteq Rows
<1>1. chain \in Seq(Commits) /\ DOMAIN chain = 1 .. Len(chain) /\ Len(chain) \in Nat
  BY LenProperties DEF TypeOK
<1>2. \A i \in DOMAIN chain : chain[i].root \subseteq Rows
  <2>1. \A i \in DOMAIN chain : chain[i] \in Commits
    BY <1>1, ElementOfSeq
  <2> QED
    BY <2>1 DEF Commits
<1>3. Committed \subseteq (1 .. Len(chain)) \X Rows
  BY <1>1, <1>2 DEF Committed
<1>4. IsFiniteSet(1 .. Len(chain))
  BY <1>1, FS_Interval
<1>5. IsFiniteSet((1 .. Len(chain)) \X Rows)
  BY <1>4, FS_Product, LoggerAssumption
<1>6. IsFiniteSet(Committed)
  BY <1>3, <1>5, FS_Subset
<1>7. Anchored \subseteq Rows
  BY DEF Anchored
<1> QED
  BY <1>2, <1>6, <1>7, FS_Subset, LoggerAssumption

(***************************************************************************)
(* No two rows counted locally have the same place on chain.                *)
(***************************************************************************)
LEMMA PlacesDiffer ==
  ASSUME CommandInv, listed \subseteq rows, InBatches
  PROVE  /\ Place \in Injection(Anchored, Committed)
         /\ \A r \in Anchored : Canonical(LeafOf(r)) = Canonical(r)
                                /\ LeafOf(r) \in chain[group[r]].root
<1>1. TypeOK /\ Anchored \subseteq rows /\ Anchored \subseteq Rows
  BY DEF CommandInv, VerifyTypeOK, Anchored
<1>2. \A i \in DOMAIN chain : chain[i].root \subseteq Rows
  BY <1>1, CountsFinite DEF CommandInv, VerifyTypeOK
<1>3. ASSUME NEW r \in Anchored
      PROVE  Canonical(LeafOf(r)) = Canonical(r) /\ LeafOf(r) \in chain[group[r]].root
  <2>1. \E x \in chain[group[r]].root : Canonical(x) = Canonical(r)
    BY DEF InBatches, Leaves
  <2> QED
    BY <2>1 DEF LeafOf
<1>4. ASSUME NEW r \in Anchored
      PROVE  Place[r] \in Committed /\ Place[r] = <<group[r], LeafOf(r)>>
  <2>1. Place[r] = <<group[r], LeafOf(r)>> /\ group[r] \in DOMAIN chain
    BY DEF Place, InBatches
  <2> QED
    BY <1>3, <2>1 DEF Committed
<1>5. Place \in [Anchored -> Committed]
  BY <1>4 DEF Place
<1>6. ASSUME NEW r \in Anchored, NEW s \in Anchored, Place[r] = Place[s]
      PROVE  r = s
  <2>1. LeafOf(r) = LeafOf(s)
    BY <1>4, <1>6
  <2>2. Canonical(r) = Canonical(s)
    BY <1>3, <2>1
  <2>3. r.id = s.id
    BY <1>1, <2>2, LeafKeepsId
  <2> QED
    BY <1>1, <2>3 DEF CommandInv, StoreInv, Distinct
<1> QED
  BY <1>3, <1>5, <1>6 DEF Injection, IsInjective

(***************************************************************************)
(* Exit code 0 over the whole log: as many rows as committed leaves, each   *)
(* in its own place, leave no committed leaf without its row.               *)
(***************************************************************************)
LEMMA EqualCountsMatch ==
  ASSUME CommandInv, listed \subseteq rows, ~CompletenessGap,
         \A r \in listed : group[r] # 0 => Vouched(r)
  PROVE  ListingMatchesChain
<1>1. TypeOK /\ listed \subseteq Rows
  BY DEF CommandInv, VerifyTypeOK
<1>2. InBatches
  BY DEF InBatches, Anchored, Vouched
<1>3. /\ Place \in Injection(Anchored, Committed)
      /\ \A r \in Anchored : Canonical(LeafOf(r)) = Canonical(r)
  BY <1>2, PlacesDiffer
<1>4. Cardinality(Anchored) = Cardinality(Committed)
  BY DEF CompletenessGap, CommittedTotal, AnchoredLocally, Anchored, Committed
<1>5. Place \in Surjection(Anchored, Committed)
  BY <1>1, <1>3, <1>4, CountsFinite, FS_Injection
<1>6. ASSUME NEW i \in DOMAIN chain
      PROVE  /\ Leaves(Group(i)) = Leaves(chain[i].root)
             /\ \A r \in Group(i) : StoredHashMatches(r) /\ r.time = "recorded"
  <2>0. i # 0
    BY <1>1, LenProperties DEF TypeOK
  <2>1. \A r \in Group(i) : r \in listed /\ group[r] = i /\ Vouched(r)
    BY <2>0 DEF Group
  <2>2. Leaves(Group(i)) \subseteq Leaves(chain[i].root)
    BY <2>1 DEF Leaves, Vouched
  <2>3. ASSUME NEW x \in chain[i].root
        PROVE  \E r \in Group(i) : Canonical(x) = Canonical(r)
    <3>1. <<i, x>> \in Committed
      BY DEF Committed
    <3>2. PICK r \in Anchored : Place[r] = <<i, x>>
      BY <1>5, <3>1 DEF Surjection
    <3>3. group[r] = i /\ LeafOf(r) = x
      BY <3>2 DEF Place
    <3> QED
      BY <1>3, <3>2, <3>3 DEF Group, Anchored
  <2> QED
    BY <2>1, <2>2, <2>3 DEF Leaves, Vouched
<1> QED
  BY <1>6 DEF ListingMatchesChain, Vouched

(***************************************************************************)
(* audit --verify without --agent: exit code 0 with an entry in the log     *)
(* means that the log is what the chain has, batch by batch, untouched.     *)
(***************************************************************************)
THEOREM CleanIsIntact == VerifySpec => CleanMeansIntact
<1> DEFINE Clean == Reports /\ ExitCode' = 0 /\ scope' = Ids /\ listed' # {}
                      /\ meanwhile' # "replaced" => ListingMatchesChain
<1>1. VerifyInit => CommandInv /\ SeenInv
  BY CommandInit DEF VerifyInit, SeenInv
<1>2. CommandInv /\ SeenInv /\ [VerifyNext]_allVars => (CommandInv /\ SeenInv)'
  BY CommandStep, SeenStep
<1>3. CommandInv /\ SeenInv /\ [VerifyNext]_allVars => [Clean]_allVars
  <2> SUFFICES ASSUME CommandInv, SeenInv, VerifyNext, Reports, ExitCode' = 0, scope' = Ids,
                      listed' # {}, meanwhile' # "replaced"
               PROVE  ListingMatchesChain
    OBVIOUS
  <2>1. /\ ~CompletenessGap /\ look = "grouping"
        /\ \A r \in listed : group[r] # 0 => Vouched(r)
    BY CleanReport
  <2>2. listed \subseteq rows
    BY <2>1 DEF CommandInv
  <2> QED
    BY <2>1, <2>2, EqualCountsMatch
<1>4. VerifySpec => [][Clean]_allVars
  BY <1>1, <1>2, <1>3, PTL DEF VerifySpec
<1> QED
  BY <1>4 DEF CleanMeansIntact

-----------------------------------------------------------------------------
(* Exit code 2. *)

\* Rows with different ids have different leaves.
LEMMA LeafCount ==
  ASSUME NEW S \in SUBSET Rows, Distinct(S)
  PROVE  Cardinality(Leaves(S)) = Cardinality(S)
<1> DEFINE f == [r \in S |-> Canonical(r)]
<1>1. f \in Surjection(S, Leaves(S))
  BY DEF Surjection, Leaves
<1>2. \A r, s \in S : f[r] = f[s] => r = s
  BY LeafKeepsId DEF Distinct
<1>3. f \in [S -> Leaves(S)] /\ DOMAIN f = S
  BY DEF Leaves
<1>4. f \in Injection(S, Leaves(S))
  BY <1>2, <1>3 DEF Injection, IsInjective
<1>5. IsFiniteSet(S)
  BY FS_Subset, LoggerAssumption
<1> HIDE DEF f
<1> QED
  BY <1>1, <1>4, <1>5, FS_Surjection

(***************************************************************************)
(* Rows that are exactly what the chain has are as many as it has.          *)
(***************************************************************************)
LEMMA MatchMeansNoGap ==
  ASSUME CommandInv, listed \subseteq rows, ListingMatchesChain
  PROVE  ~CompletenessGap
<1>1. TypeOK /\ listed \subseteq Rows
  BY DEF CommandInv, VerifyTypeOK
<1>2. ASSUME NEW r \in Anchored
      PROVE  /\ group[r] \in DOMAIN chain
             /\ Canonical(r) \in Leaves(chain[group[r]].root)
  <2>1. group[r] \in DOMAIN chain /\ r \in Group(group[r])
    BY DEF ListingMatchesChain, Anchored, Group
  <2>2. Canonical(r) \in Leaves(Group(group[r]))
    BY <2>1 DEF Leaves
  <2> QED
    BY <2>1, <2>2 DEF ListingMatchesChain
<1>3. /\ Place \in Injection(Anchored, Committed)
      /\ \A r \in Anchored : /\ Canonical(LeafOf(r)) = Canonical(r)
                             /\ LeafOf(r) \in chain[group[r]].root
  BY <1>2, PlacesDiffer DEF InBatches
<1>4. ASSUME NEW place \in Committed
      PROVE  \E r \in Anchored : Place[r] = place
  <2>1. PICK i \in DOMAIN chain : place \in {i} \X chain[i].root
    BY DEF Committed
  <2>2. PICK x \in chain[i].root : place = <<i, x>>
    BY <2>1
  <2>3. i # 0 /\ chain[i].root \subseteq Rows
    BY <1>1, LenProperties, CountsFinite DEF TypeOK
  <2>4. Canonical(x) \in Leaves(Group(i))
    BY DEF ListingMatchesChain, Leaves
  <2>5. PICK r \in Group(i) : Canonical(r) = Canonical(x)
    BY <2>4 DEF Leaves
  <2>6. r \in Anchored /\ group[r] = i
    BY <2>3 DEF Group, Anchored
  <2>7. LeafOf(r) \in chain[i].root /\ Canonical(LeafOf(r)) = Canonical(x)
    BY <1>3, <2>5, <2>6
  <2>8. LeafOf(r) = x
    BY <2>3, <2>7, LeafKeepsId DEF CommandInv, StoreInv, Distinct
  <2> QED
    BY <2>2, <2>6, <2>8 DEF Place
<1>5. Place \in [Anchored -> Committed]
  BY <1>3 DEF Injection
<1>6. Place \in Surjection(Anchored, Committed)
  BY <1>4, <1>5 DEF Surjection
<1>7. Cardinality(Anchored) = Cardinality(Committed)
  BY <1>1, <1>3, <1>6, CountsFinite, FS_Injection
<1> QED
  BY <1>7 DEF CompletenessGap, CommittedTotal, AnchoredLocally, Anchored, Committed

\* While nothing moves, what was looked up is what the store says.
QuietInv ==
  look = "grouping" =>
    /\ 0 \notin unchecked
    /\ \A i \in unchecked : \E r \in listed \ unread : group[r] = i
    /\ meanwhile = "quiet" => \A r \in listed \ unread : group[r] = tag[r].index
    /\ meanwhile = "quiet" /\ scope = Ids => Tagged \subseteq listed

\* A problem is noted only for rows that are not what the chain has.
ProblemInv ==
  look = "grouping" /\ problem =>
    /\ unread = {}
    /\ meanwhile = "quiet" /\ scope = Ids => ~ListingMatchesChain

\* While the command sees no change there is none.
LEMMA LoggerQuiet ==
  ASSUME LoggerStep, look = "grouping", meanwhile' = "quiet"
  PROVE  meanwhile = "quiet" /\ chain' = chain /\ tag' = tag
BY DEF LoggerStep, Noticed

(***************************************************************************)
(* Every step keeps QuietInv.                                               *)
(***************************************************************************)
LEMMA QuietStep == CommandInv /\ QuietInv /\ [VerifyNext]_allVars => QuietInv'
<1> SUFFICES ASSUME CommandInv, QuietInv, [VerifyNext]_allVars, look' = "grouping"
             PROVE  QuietInv'
  BY DEF QuietInv
<1> USE DEF QuietInv
<1>1. CASE LoggerStep
  <2>1. UNCHANGED <<look, scope, listed, unread, group, unchecked>>
    BY <1>1 DEF LoggerStep
  <2>2. ASSUME meanwhile' = "quiet"
        PROVE  meanwhile = "quiet" /\ tag' = tag
    BY <1>1, <2>1, <2>2, LoggerQuiet
  <2>3. ASSUME meanwhile' = "quiet"
        PROVE  Tagged' \subseteq Tagged
    <3>1. rows' \subseteq Rows
      BY <1>1, LoggerKeepsStore DEF CommandInv, VerifyTypeOK, TypeOK
    <3> QED
      BY <2>2, <2>3, <3>1 DEF Tagged, CommandInv, StoreInv
  <2> QED
    BY <2>1, <2>2, <2>3
<1>2. ASSUME NEW q \in Rows, NEW s \in Rows, NEW batch,
             DeleteRow(q) \/ EditRow(q, s) \/ MoveRow(q, batch)
      PROVE  FALSE
  BY <1>2 DEF DeleteRow, EditRow, MoveRow, Damage, verification
<1>3. ASSUME NEW q \in Rows, LookUp(q)
      PROVE  QuietInv'
  <2>1. /\ look = "grouping" /\ q \in unread /\ unread' = unread \ {q}
        /\ group' = [group EXCEPT ![q] = tag[q].index]
        /\ unchecked' = unchecked \cup ({tag[q].index} \ {0})
        /\ UNCHANGED <<rows, tag, scope, listed, meanwhile>>
    BY <1>3 DEF LookUp, BatchIndex, logging, vars, store, env
  <2>2. group \in [Rows -> Nat] /\ listed \subseteq Rows /\ unread \subseteq listed
    BY DEF CommandInv, VerifyTypeOK
  <2>3. Tagged' = Tagged
    BY <2>1 DEF Tagged
  <2>4. group'[q] = tag[q].index /\ q \in listed' \ unread'
    BY <2>1, <2>2
  <2>5. \A r \in listed \ unread : group'[r] = group[r] /\ r \in listed' \ unread'
    BY <2>1, <2>2
  <2>6. \A r \in listed' \ unread' : r = q \/ r \in listed \ unread
    BY <2>1
  <2> QED
    BY <2>1, <2>3, <2>4, <2>5, <2>6
<1>4. ASSUME NEW ids \in {Ids, AgentIds}, ListEntries(ids)
      PROVE  QuietInv'
  <2>1. /\ look = "off" /\ unread' = listed' /\ unchecked' = unchecked
        /\ scope' = ids /\ listed' = {r \in rows : r.id \in ids}
        /\ UNCHANGED <<rows, tag>>
    BY <1>4 DEF ListEntries, logging, vars, store
  <2>2. unchecked = {} /\ rows \subseteq Rows
    BY <2>1 DEF CommandInv, VerifyTypeOK, TypeOK
  <2>3. ASSUME scope' = Ids
        PROVE  Tagged' \subseteq listed'
    BY <2>1, <2>2, <2>3 DEF Tagged, Ids
  <2> QED
    BY <2>1, <2>2, <2>3
<1>5. ASSUME NEW i \in 1 .. MaxBatches, CheckGroup(i) \/ GroupUnreadable(i)
      PROVE  QuietInv'
  <2>1. /\ look = "grouping" /\ unchecked' = unchecked \ {i}
        /\ UNCHANGED <<rows, tag, scope, listed, unread, group, meanwhile>>
    BY <1>5 DEF CheckGroup, GroupUnreadable, NextBatch, store
  <2> QED
    BY <2>1 DEF Tagged
<1>6. CASE WrongChain \/ CheckTotal \/ TotalUnreadable
  BY <1>6 DEF WrongChain, CheckTotal, TotalUnreadable, Finish
<1>7. CASE UNCHANGED allVars
  <2>1. UNCHANGED <<rows, tag, look, scope, listed, unread, group, unchecked, meanwhile>>
    BY <1>7 DEF allVars, vars, store, verification
  <2> QED
    BY <2>1 DEF Tagged
<1> QED
  BY <1>1, <1>2, <1>3, <1>4, <1>5, <1>6, <1>7 DEF VerifyNext

(***************************************************************************)
(* A check that raises the alarm while nothing moves has found a batch that *)
(* differs: the batch in the store is the group that was listed.            *)
(***************************************************************************)
LEMMA AlarmsAreReal ==
  ASSUME CommandInv, QuietInv, look = "grouping", unread = {}, meanwhile = "quiet", scope = Ids,
         NEW i \in unchecked, BatchMismatch(i) \/ RowMismatch(i)
  PROVE  ~ListingMatchesChain
<1> SUFFICES ASSUME ListingMatchesChain
             PROVE  FALSE
  OBVIOUS
<1>1. i # 0 /\ listed \subseteq rows /\ rows \subseteq Rows /\ TypeOK /\ StoreInv
  BY DEF QuietInv, CommandInv, VerifyTypeOK, TypeOK
<1>2. i \in DOMAIN chain
  BY <1>1 DEF QuietInv, ListingMatchesChain
<1>3. EntriesInBatch(i) = Group(i)
  <2>1. EntriesInBatch(i) \subseteq Group(i)
    BY DEF EntriesInBatch, Group, QuietInv
  <2>2. ASSUME NEW r \in Group(i)
        PROVE  r \in EntriesInBatch(i)
    <3>1. r \in rows /\ tag[r].index = i
      BY <1>1 DEF Group, QuietInv
    <3>2. tag[r] # Unbatched
      BY <1>1, <3>1 DEF Unbatched
    <3> QED
      BY <3>1, <3>2 DEF EntriesInBatch, Tagged
  <2> QED
    BY <2>1, <2>2
<1>4. Leaves(Group(i)) = Leaves(chain[i].root)
  BY <1>2 DEF ListingMatchesChain
<1>5. Group(i) \in SUBSET Rows /\ Distinct(Group(i))
  BY <1>1 DEF Group, StoreInv, Distinct
<1>6. chain[i].root \in SUBSET Rows /\ Distinct(chain[i].root)
  BY <1>1, <1>2, CountsFinite DEF StoreInv
<1>7. Cardinality(Group(i)) = EntryCount(i)
  BY <1>4, <1>5, <1>6, LeafCount DEF EntryCount
<1>8. RowMismatch(i)
  BY <1>2, <1>3, <1>4, <1>7 DEF BatchMismatch
<1>9. PICK r \in Group(i), s \in Group(i) :
        r.id = s.id /\ (r.time = "postdated" \/ ~StoredHashMatches(s))
  BY <1>3, <1>8 DEF RowMismatch
<1>10. r = s
  BY <1>5, <1>9 DEF Distinct
<1> QED
  BY <1>2, <1>9, <1>10 DEF ListingMatchesChain

(***************************************************************************)
(* Every step keeps ProblemInv.                                             *)
(***************************************************************************)
LEMMA ProblemStep == CommandInv /\ QuietInv /\ ProblemInv /\ [VerifyNext]_allVars => ProblemInv'
<1> SUFFICES ASSUME CommandInv, QuietInv, ProblemInv, [VerifyNext]_allVars,
                    look' = "grouping", problem'
             PROVE  /\ unread' = {}
                    /\ meanwhile' = "quiet" /\ scope' = Ids => ~ListingMatchesChain'
  BY DEF ProblemInv
<1>0. ASSUME UNCHANGED <<listed, group, chain>>
      PROVE  ListingMatchesChain' = ListingMatchesChain
  BY <1>0 DEF ListingMatchesChain, Leaves, Canonical, Group, StoredHashMatches
<1>1. CASE LoggerStep
  <2>1. UNCHANGED <<look, scope, listed, unread, group, problem>>
    BY <1>1 DEF LoggerStep
  <2>2. meanwhile' = "quiet" => meanwhile = "quiet" /\ chain' = chain
    BY <1>1, <2>1, LoggerQuiet
  <2> QED
    BY <1>0, <2>1, <2>2 DEF ProblemInv
<1>2. ASSUME NEW q \in Rows, NEW s \in Rows, NEW batch,
             DeleteRow(q) \/ EditRow(q, s) \/ MoveRow(q, batch)
      PROVE  FALSE
  BY <1>2 DEF DeleteRow, EditRow, MoveRow, Damage, verification
<1>3. ASSUME NEW q \in Rows, LookUp(q)
      PROVE  FALSE
  BY <1>3 DEF LookUp, ProblemInv
<1>4. ASSUME NEW ids \in {Ids, AgentIds}, ListEntries(ids)
      PROVE  FALSE
  BY <1>4 DEF ListEntries, CommandInv
<1>5. ASSUME NEW i \in 1 .. MaxBatches, CheckGroup(i) \/ GroupUnreadable(i)
      PROVE  /\ unread' = {}
             /\ meanwhile' = "quiet" /\ scope' = Ids => ~ListingMatchesChain'
  <2>1. /\ look = "grouping" /\ unread = {} /\ i \in unchecked
        /\ UNCHANGED <<chain, scope, listed, unread, group, meanwhile>>
    BY <1>5 DEF CheckGroup, GroupUnreadable, NextBatch, env
  <2>2. problem \/ BatchMismatch(i) \/ RowMismatch(i)
    BY <1>5 DEF CheckGroup, GroupUnreadable
  <2>3. meanwhile = "quiet" /\ scope = Ids => ~ListingMatchesChain
    BY <2>1, <2>2, AlarmsAreReal DEF ProblemInv
  <2> QED
    BY <1>0, <2>1, <2>3
<1>6. CASE WrongChain \/ CheckTotal \/ TotalUnreadable
  BY <1>6 DEF WrongChain, CheckTotal, TotalUnreadable, Finish
<1>7. CASE UNCHANGED allVars
  <2>1. UNCHANGED <<chain, look, scope, listed, unread, group, problem, meanwhile>>
    BY <1>7 DEF allVars, vars, env, verification
  <2> QED
    BY <1>0, <2>1 DEF ProblemInv
<1> QED
  BY <1>1, <1>2, <1>3, <1>4, <1>5, <1>6, <1>7 DEF VerifyNext

(***************************************************************************)
(* audit --verify over the whole log: while nothing moves, and when the     *)
(* right chain answers for its id and for the total, exit code 2 is given   *)
(* only for a log that differs from the chain.                              *)
(***************************************************************************)
THEOREM AlarmIsMismatch == VerifySpec => AlarmMeansMismatch
<1> DEFINE Inv == CommandInv /\ QuietInv /\ ProblemInv
           Alarm == Reports /\ ExitCode' = 2 /\ scope' = Ids /\ meanwhile' = "quiet"
                      /\ ~unanswered' => ~ListingMatchesChain
<1>1. VerifyInit => Inv
  BY CommandInit DEF VerifyInit, QuietInv, ProblemInv
<1>2. Inv /\ [VerifyNext]_allVars => Inv'
  BY CommandStep, QuietStep, ProblemStep
<1>3. Inv /\ [VerifyNext]_allVars => [Alarm]_allVars
  <2> SUFFICES ASSUME CommandInv, QuietInv, ProblemInv, VerifyNext, Reports, ExitCode' = 2,
                      scope' = Ids, meanwhile' = "quiet", ~unanswered'
               PROVE  ~ListingMatchesChain
    OBVIOUS
  <2>1. problem'
    BY DEF ExitCode
  <2>2. ASSUME NEW r \in Rows, NEW s \in Rows, NEW batch,
               DeleteRow(r) \/ EditRow(r, s) \/ MoveRow(r, batch) \/ LookUp(r)
        PROVE  FALSE
    BY <2>2 DEF DeleteRow, EditRow, MoveRow, Damage, verification, LookUp, Reports
  <2>3. ASSUME NEW ids \in {Ids, AgentIds}, ListEntries(ids)
        PROVE  FALSE
    BY <2>1, <2>3 DEF ListEntries, CommandInv
  <2>4. ASSUME NEW i \in 1 .. MaxBatches, CheckGroup(i) \/ GroupUnreadable(i)
        PROVE  FALSE
    BY <2>4 DEF CheckGroup, GroupUnreadable, NextBatch, Reports
  <2>5. ~WrongChain /\ ~TotalUnreadable /\ ~LoggerStep
    BY DEF WrongChain, TotalUnreadable, LoggerStep, Reports
  <2>6. CASE CheckTotal
    <3>1. /\ look = "grouping" /\ scope = Ids /\ meanwhile = "quiet"
          /\ problem \/ CompletenessGap
      BY <2>1, <2>6 DEF CheckTotal, Finish
    <3>2. listed \subseteq rows
      BY <3>1 DEF CommandInv
    <3> QED
      BY <3>1, <3>2, MatchMeansNoGap DEF ProblemInv
  <2> QED
    BY <2>2, <2>3, <2>4, <2>5, <2>6 DEF VerifyNext
<1>4. VerifySpec => [][Alarm]_allVars
  <2> HIDE DEF Inv, Alarm
  <2> QED
    BY <1>1, <1>2, <1>3, PTL DEF VerifySpec
<1> QED
  BY <1>4 DEF AlarmMeansMismatch
=============================================================================
