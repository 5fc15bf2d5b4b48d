---------------------------- MODULE AuditAnchor ----------------------------
(***************************************************************************)
(* The contract that keeps, per operator, a chain of Merkle roots over      *)
(* batches of audit entries.                                                *)
(*                                                                          *)
(* Source: contracts/src/AuditAnchor.sol.  A root is the set of leaves it   *)
(* commits to (keccak256 has no collisions, StandardMerkleTree sorts its    *)
(* leaves), so a Merkle proof is membership.  A transaction that reverts    *)
(* changes nothing and is no step.                                          *)
(*                                                                          *)
(* Whoever holds an operator's key commits under it: several processes may  *)
(* share a key, each naming the head it last read; and any root that is     *)
(* public can be committed again, by anybody, under its own key.            *)
(***************************************************************************)
EXTENDS Naturals, Sequences

CONSTANTS
  Operators,    \* addresses
  Committers,   \* processes that send commits
  KeyOf,        \* the operator whose key each of them holds
  Entries,      \* audit entries
  MaxCount,     \* largest entryCount anybody claims
  MaxBatches    \* bound on an operator's chain

ASSUME AnchorAssumption ==
  /\ KeyOf \in [Committers -> Operators]
  /\ MaxCount \in Nat
  /\ MaxBatches \in Nat

VARIABLES
  batches,      \* per operator, in order
  emitted,      \* the BatchCommitted events of each operator, in order
  head,         \* per operator, the root of its latest batch
  view,         \* the head each committer last read
  authored      \* history: the entries each operator itself put in a batch

vars == <<batches, emitted, head, view, authored>>

\* leafHash() binds the operator (and one chain id and contract) to the entry.
\* Mutant: the leaf names no operator.
BareLeaf(op, entry) == <<entry>>

LeafHash(op, entry) == <<op, entry>>
Root     == SUBSET {LeafHash(op, e) : op \in Operators, e \in Entries}
ZeroRoot == {}

\* The stored struct, without its block time, and the event, which alone
\* carries the root the sender named as the one before.
Batch == [merkleRoot : Root \ {ZeroRoot}, entryCount : Nat \ {0}]
Event == [merkleRoot : Root \ {ZeroRoot}, prevRoot : Root, entryCount : Nat \ {0}]

Init ==
  /\ batches = [op \in Operators |-> <<>>]
  /\ emitted = [op \in Operators |-> <<>>]
  /\ head = [op \in Operators |-> ZeroRoot]
  /\ view = [c \in Committers |-> ZeroRoot]
  /\ authored = [op \in Operators |-> {}]

ReadHead(c) ==
  /\ view' = [view EXCEPT ![c] = head[KeyOf[c]]]
  /\ UNCHANGED <<batches, emitted, head, authored>>

\* Mutants: no WrongPrevRoot check; no EmptyBatch check.
AcceptsForks(op, prev, root, count) == root # ZeroRoot /\ count # 0
AcceptsEmpty(op, prev, root, count) == root # ZeroRoot /\ prev = head[op]

Accepts(op, prev, root, count) == root # ZeroRoot /\ count # 0 /\ prev = head[op]

\* Mutant: the count is stored once per operator.
PushOneCount(history, batch) ==
  [i \in 1 .. Len(history) + 1 |->
     [Append(history, batch)[i] EXCEPT !.entryCount = batch.entryCount]]

Push(history, batch) == Append(history, batch)

\* commitBatch(view[c], root, count) with msg.sender = KeyOf[c].
CommitBatch(c, root, count) ==
  LET sender == KeyOf[c]
  IN  /\ Len(batches[sender]) < MaxBatches
      /\ Accepts(sender, view[c], root, count)
      /\ batches' = [batches EXCEPT ![sender] =
                       Push(@, [merkleRoot |-> root, entryCount |-> count])]
      /\ emitted' = [emitted EXCEPT ![sender] =
                       Append(@, [merkleRoot |-> root, prevRoot |-> view[c],
                                  entryCount |-> count])]
      /\ head' = [head EXCEPT ![sender] = root]
      /\ UNCHANGED view

\* An operator anchors entries of its own log.
CommitOwn(c, entries, count) ==
  /\ CommitBatch(c, {LeafHash(KeyOf[c], e) : e \in entries}, count)
  /\ authored' = [authored EXCEPT ![KeyOf[c]] = @ \cup entries]

\* Somebody commits a root that is already public.
Replay(c, op, i, count) ==
  /\ i \in DOMAIN batches[op]
  /\ CommitBatch(c, batches[op][i].merkleRoot, count)
  /\ UNCHANGED authored

Next ==
  \E c \in Committers :
    \/ ReadHead(c)
    \/ \E count \in 0 .. MaxCount :
         \/ \E entries \in SUBSET Entries : CommitOwn(c, entries, count)
         \/ \E op \in Operators, i \in 1 .. MaxBatches : Replay(c, op, i, count)

Spec == Init /\ [][Next]_vars

\* verifyEntry() with the right proof, if there is one.
VerifyEntry(op, i, entry) ==
  /\ i \in DOMAIN batches[op]
  /\ LeafHash(op, entry) \in batches[op][i].merkleRoot

-----------------------------------------------------------------------------
(***************************************************************************)
(* The storage of the contract and its events are well formed, and no       *)
(* degenerate batch, without a root or without entries, was ever stored     *)
(* (AuditAnchor.sol:83-84).                                                 *)
(***************************************************************************)
TypeOK ==
  /\ batches \in [Operators -> Seq(Batch)]
  /\ emitted \in [Operators -> Seq(Event)]
  /\ head \in [Operators -> Root]
  /\ view \in [Committers -> Root]
  /\ authored \in [Operators -> SUBSET Entries]

PrevOf(op, i) == IF i = 1 THEN ZeroRoot ELSE batches[op][i - 1].merkleRoot

(***************************************************************************)
(* An operator has one linear history, although several processes commit    *)
(* under its key from heads read at different times.  A reader who holds    *)
(* only the events can rebuild it: they tell what is stored, one for each   *)
(* batch, each names the root stored before it, and the last is the head.   *)
(***************************************************************************)
LinkedHistory ==
  \A op \in Operators :
    /\ Len(emitted[op]) = Len(batches[op])
    /\ \A i \in DOMAIN batches[op] :
         /\ emitted[op][i].merkleRoot = batches[op][i].merkleRoot
         /\ emitted[op][i].entryCount = batches[op][i].entryCount
         /\ emitted[op][i].prevRoot = PrevOf(op, i)
    /\ head[op] = PrevOf(op, Len(batches[op]) + 1)

(***************************************************************************)
(* No operator can pass off another one's entries as its own by committing  *)
(* a root that is public: what verifies under an operator, it has logged.   *)
(***************************************************************************)
NoBorrowedAuthorship ==
  \A op \in Operators, e \in Entries :
    \A i \in DOMAIN batches[op] : VerifyEntry(op, i, e) => e \in authored[op]

(***************************************************************************)
(* What was anchored stays anchored, at the index it was given, and a       *)
(* commit leaves the chains of all other operators alone.                   *)
(***************************************************************************)
HistoryKept ==
  [][ /\ \A op \in Operators : \A i \in DOMAIN batches[op] :
           i \in DOMAIN batches'[op] /\ batches'[op][i] = batches[op][i]
      /\ \A op, other \in Operators :
           op # other /\ batches'[op] # batches[op] => batches'[other] = batches[other]
    ]_vars
=============================================================================
