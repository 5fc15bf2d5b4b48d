------------------------- MODULE AuditAnchorProofs -------------------------
(***************************************************************************)
(* AuditAnchor.sol for every number of operators, committers, entries and   *)
(* batches: histories are linear, kept for good, and not to be borrowed.    *)
(***************************************************************************)
EXTENDS AuditAnchor, SequenceTheorems, TLAPS

(***************************************************************************)
(* What an accepted commit appends.                                         *)
(***************************************************************************)
LEMMA CommitAppends ==
  ASSUME TypeOK, NEW c \in Committers, NEW root \in Root, NEW count \in Nat,
         CommitBatch(c, root, count)
  PROVE  LET op  == KeyOf[c]
             old == batches[op]
             new == batches'[op]
         IN  /\ op \in Operators /\ Len(old) \in Nat
             /\ new \in Seq(Batch)
             /\ DOMAIN old = 1 .. Len(old) /\ DOMAIN new = 1 .. Len(old) + 1
             /\ Len(new) = Len(old) + 1
             /\ \A i \in DOMAIN old : new[i] = old[i]
             /\ new[Len(old) + 1].merkleRoot = root
             /\ new[Len(old) + 1].entryCount = count
<1> DEFINE op  == KeyOf[c]
           old == batches[op]
           b   == [merkleRoot |-> root, entryCount |-> count]
<1>1. op \in Operators
  BY AnchorAssumption
<1>2. old \in Seq(Batch) /\ b \in Batch
  BY <1>1 DEF TypeOK, Batch, CommitBatch, Accepts
<1>3. batches'[op] = Append(old, b)
  BY <1>1 DEF CommitBatch, Push, TypeOK
<1> HIDE DEF b
<1>4. /\ Append(old, b) \in Seq(Batch)
      /\ Len(Append(old, b)) = Len(old) + 1
      /\ \A i \in 1 .. Len(old) : Append(old, b)[i] = old[i]
      /\ Append(old, b)[Len(old) + 1] = b
  BY <1>2, AppendProperties
<1>5. /\ Len(old) \in Nat /\ DOMAIN old = 1 .. Len(old)
      /\ DOMAIN Append(old, b) = 1 .. Len(old) + 1
  BY <1>2, <1>4, LenProperties
<1>6. b.merkleRoot = root /\ b.entryCount = count
  BY DEF b
<1> QED
  BY <1>1, <1>3, <1>4, <1>5, <1>6

(***************************************************************************)
(* What an accepted commit emits.                                           *)
(***************************************************************************)
LEMMA CommitEmits ==
  ASSUME TypeOK, NEW c \in Committers, NEW root \in Root, NEW count \in Nat,
         CommitBatch(c, root, count)
  PROVE  LET op  == KeyOf[c]
             old == emitted[op]
             new == emitted'[op]
         IN  /\ op \in Operators /\ Len(old) \in Nat
             /\ new \in Seq(Event)
             /\ DOMAIN old = 1 .. Len(old) /\ DOMAIN new = 1 .. Len(old) + 1
             /\ Len(new) = Len(old) + 1
             /\ \A i \in DOMAIN old : new[i] = old[i]
             /\ new[Len(old) + 1].merkleRoot = root
             /\ new[Len(old) + 1].entryCount = count
             /\ new[Len(old) + 1].prevRoot = view[c]
<1> DEFINE op  == KeyOf[c]
           old == emitted[op]
           e   == [merkleRoot |-> root, prevRoot |-> view[c], entryCount |-> count]
<1>1. op \in Operators
  BY AnchorAssumption
<1>2. old \in Seq(Event) /\ e \in Event
  BY <1>1 DEF TypeOK, Event, CommitBatch, Accepts
<1>3. emitted'[op] = Append(old, e)
  BY <1>1 DEF CommitBatch, TypeOK
<1> HIDE DEF e
<1>4. /\ Append(old, e) \in Seq(Event)
      /\ Len(Append(old, e)) = Len(old) + 1
      /\ \A i \in 1 .. Len(old) : Append(old, e)[i] = old[i]
      /\ Append(old, e)[Len(old) + 1] = e
  BY <1>2, AppendProperties
<1>5. /\ Len(old) \in Nat /\ DOMAIN old = 1 .. Len(old)
      /\ DOMAIN Append(old, e) = 1 .. Len(old) + 1
  BY <1>2, <1>4, LenProperties
<1>6. e.merkleRoot = root /\ e.entryCount = count /\ e.prevRoot = view[c]
  BY DEF e
<1> QED
  BY <1>1, <1>3, <1>4, <1>5, <1>6

(***************************************************************************)
(* Both ways to commit are commits of a root over known leaves.             *)
(***************************************************************************)
LEMMA CommitType ==
  ASSUME TypeOK, NEW c \in Committers, NEW count \in Nat
  PROVE  /\ \A entries \in SUBSET Entries : {LeafHash(KeyOf[c], e) : e \in entries} \in Root
         /\ \A op \in Operators : \A i \in DOMAIN batches[op] :
              batches[op][i] \in Batch /\ batches[op][i].merkleRoot \in Root
<1>1. ASSUME NEW entries \in SUBSET Entries
      PROVE  {LeafHash(KeyOf[c], e) : e \in entries} \in Root
  <2>1. KeyOf[c] \in Operators
    BY AnchorAssumption
  <2> QED
    BY <2>1 DEF Root
<1>2. ASSUME NEW op \in Operators, NEW i \in DOMAIN batches[op]
      PROVE  batches[op][i] \in Batch /\ batches[op][i].merkleRoot \in Root
  <2>1. batches[op] \in Seq(Batch)
    BY DEF TypeOK
  <2>2. i \in 1 .. Len(batches[op])
    BY <2>1, LenProperties
  <2>3. batches[op][i] \in Batch
    BY <2>1, <2>2, ElementOfSeq
  <2> QED
    BY <2>3 DEF Batch
<1> QED
  BY <1>1, <1>2

(***************************************************************************)
(* A step reads a head, or commits a root over known leaves.                *)
(***************************************************************************)
LEMMA StepCases ==
  ASSUME TypeOK, [Next]_vars
  PROVE  \/ \E c \in Committers : ReadHead(c)
         \/ \E c \in Committers, root \in Root, count \in Nat :
              /\ CommitBatch(c, root, count)
              /\ \/ \E entries \in SUBSET Entries :
                      /\ root = {LeafHash(KeyOf[c], e) : e \in entries}
                      /\ authored' = [authored EXCEPT ![KeyOf[c]] = @ \cup entries]
                 \/ /\ \E op \in Operators : \E i \in DOMAIN batches[op] :
                         root = batches[op][i].merkleRoot
                    /\ authored' = authored
         \/ UNCHANGED vars
<1>1. ASSUME NEW c \in Committers, NEW count \in 0 .. MaxCount,
             NEW entries \in SUBSET Entries, CommitOwn(c, entries, count)
      PROVE  \E root \in Root :
               /\ CommitBatch(c, root, count)
               /\ root = {LeafHash(KeyOf[c], e) : e \in entries}
               /\ authored' = [authored EXCEPT ![KeyOf[c]] = @ \cup entries]
  BY <1>1, CommitType, AnchorAssumption DEF CommitOwn
<1>2. ASSUME NEW c \in Committers, NEW count \in 0 .. MaxCount,
             NEW op \in Operators, NEW i \in 1 .. MaxBatches, Replay(c, op, i, count)
      PROVE  \E root \in Root :
               /\ CommitBatch(c, root, count)
               /\ i \in DOMAIN batches[op] /\ root = batches[op][i].merkleRoot
               /\ authored' = authored
  BY <1>2, CommitType, AnchorAssumption DEF Replay
<1>3. 0 .. MaxCount \subseteq Nat
  BY AnchorAssumption
<1> SUFFICES ASSUME ~UNCHANGED vars, \A c \in Committers : ~ReadHead(c)
             PROVE  \E c \in Committers, root \in Root, count \in Nat :
                      /\ CommitBatch(c, root, count)
                      /\ \/ \E entries \in SUBSET Entries :
                              /\ root = {LeafHash(KeyOf[c], e) : e \in entries}
                              /\ authored' = [authored EXCEPT ![KeyOf[c]] = @ \cup entries]
                         \/ /\ \E op \in Operators : \E i \in DOMAIN batches[op] :
                                 root = batches[op][i].merkleRoot
                            /\ authored' = authored
  OBVIOUS
<1>4. PICK c \in Committers, count \in 0 .. MaxCount :
        \/ \E entries \in SUBSET Entries : CommitOwn(c, entries, count)
        \/ \E op \in Operators, i \in 1 .. MaxBatches : Replay(c, op, i, count)
  BY DEF Next
<1>5. CASE \E entries \in SUBSET Entries : CommitOwn(c, entries, count)
  BY <1>1, <1>3, <1>5
<1>6. CASE \E op \in Operators, i \in 1 .. MaxBatches : Replay(c, op, i, count)
  BY <1>2, <1>3, <1>6
<1> QED
  BY <1>4, <1>5, <1>6

(***************************************************************************)
(* Every step keeps the contract's storage well formed.                     *)
(***************************************************************************)
THEOREM AnchorTypeCorrect == Spec => []TypeOK
<1>1. Init => TypeOK
  BY EmptySeq DEF Init, TypeOK, Root, ZeroRoot
<1>2. TypeOK /\ [Next]_vars => TypeOK'
  <2> SUFFICES ASSUME TypeOK, [Next]_vars
               PROVE  TypeOK'
    OBVIOUS
  <2>1. ASSUME NEW c \in Committers, ReadHead(c)
        PROVE  TypeOK'
    BY <2>1, AnchorAssumption DEF ReadHead, TypeOK
  <2>2. ASSUME NEW c \in Committers, NEW root \in Root, NEW count \in Nat,
               CommitBatch(c, root, count), authored' \in [Operators -> SUBSET Entries]
        PROVE  TypeOK'
    <3>1. batches'[KeyOf[c]] \in Seq(Batch)
      BY <2>2, CommitAppends
    <3>2. batches' \in [Operators -> Seq(Batch)]
      BY <2>2, <3>1 DEF CommitBatch, TypeOK
    <3>3. emitted'[KeyOf[c]] \in Seq(Event)
      BY <2>2, CommitEmits
    <3>4. emitted' \in [Operators -> Seq(Event)]
      BY <2>2, <3>3 DEF CommitBatch, TypeOK
    <3> QED
      BY <2>2, <3>2, <3>4 DEF CommitBatch, TypeOK
  <2>3. CASE UNCHANGED vars
    BY <2>3 DEF vars, TypeOK
  <2>4. authored' \in [Operators -> SUBSET Entries]
    BY StepCases, AnchorAssumption DEF ReadHead, vars, TypeOK
  <2> QED
    BY <2>1, <2>2, <2>3, <2>4, StepCases
<1> QED
  BY <1>1, <1>2, PTL DEF Spec

(***************************************************************************)
(* commitBatch() accepts only what extends the head it stored last, and     *)
(* its events tell the whole of what it stored.                             *)
(***************************************************************************)
THEOREM HistoryIsLinked == Spec => []LinkedHistory
<1>1. Init => LinkedHistory
  <2> SUFFICES ASSUME Init, NEW op \in Operators
               PROVE  /\ Len(emitted[op]) = Len(batches[op])
                      /\ DOMAIN batches[op] = {}
                      /\ head[op] = PrevOf(op, Len(batches[op]) + 1)
    BY DEF LinkedHistory
  <2>1. batches[op] = <<>> /\ emitted[op] = <<>> /\ head[op] = ZeroRoot
    BY DEF Init
  <2>2. Len(batches[op]) = 0 /\ DOMAIN batches[op] = {}
    BY <2>1, EmptySeq
  <2> QED
    BY <2>1, <2>2 DEF PrevOf
<1>2. TypeOK /\ LinkedHistory /\ [Next]_vars => LinkedHistory'
  <2> SUFFICES ASSUME TypeOK, LinkedHistory, [Next]_vars
               PROVE  LinkedHistory'
    OBVIOUS
  <2>1. ASSUME NEW c \in Committers, ReadHead(c)
        PROVE  LinkedHistory'
    BY <2>1 DEF ReadHead, LinkedHistory, PrevOf
  <2>2. ASSUME NEW c \in Committers, NEW root \in Root, NEW count \in Nat,
               CommitBatch(c, root, count)
        PROVE  LinkedHistory'
    <3> DEFINE op    == KeyOf[c]
               old   == batches[op]
               new   == batches'[op]
               told  == emitted[op]
               tells == emitted'[op]
    <3>1. /\ op \in Operators /\ Len(old) \in Nat
          /\ DOMAIN old = 1 .. Len(old) /\ DOMAIN new = 1 .. Len(old) + 1
          /\ Len(new) = Len(old) + 1
          /\ \A i \in DOMAIN old : new[i] = old[i]
          /\ new[Len(old) + 1].merkleRoot = root
          /\ new[Len(old) + 1].entryCount = count
      BY <2>2, CommitAppends
    <3>2. /\ Len(told) = Len(old)
          /\ \A i \in DOMAIN old : /\ told[i].merkleRoot = old[i].merkleRoot
                                   /\ told[i].entryCount = old[i].entryCount
                                   /\ told[i].prevRoot = PrevOf(op, i)
          /\ head[op] = PrevOf(op, Len(old) + 1)
      BY <3>1 DEF LinkedHistory
    <3>3. /\ head'[op] = root /\ view[c] = head[op]
          /\ \A other \in Operators \ {op} :
               /\ batches'[other] = batches[other] /\ head'[other] = head[other]
               /\ emitted'[other] = emitted[other]
      BY <2>2, <3>1 DEF CommitBatch, Accepts, TypeOK
    <3>4. /\ Len(told) \in Nat /\ DOMAIN told = 1 .. Len(told)
          /\ DOMAIN tells = 1 .. Len(told) + 1 /\ Len(tells) = Len(told) + 1
          /\ \A i \in DOMAIN told : tells[i] = told[i]
          /\ tells[Len(told) + 1].merkleRoot = root
          /\ tells[Len(told) + 1].entryCount = count
          /\ tells[Len(told) + 1].prevRoot = view[c]
      BY <2>2, CommitEmits
    <3>5. Len(tells) = Len(new) /\ DOMAIN told = DOMAIN old
      BY <3>1, <3>2, <3>4
    <3>6. ASSUME NEW i \in 1 .. Len(old) + 1
          PROVE  PrevOf(op, i)' = PrevOf(op, i)
      <4>1. CASE i = 1
        BY <4>1 DEF PrevOf
      <4>2. CASE i # 1
        <5>1. i - 1 \in DOMAIN old
          BY <3>1, <4>2
        <5>2. batches'[op][i - 1] = batches[op][i - 1]
          BY <3>1, <5>1
        <5> QED
          BY <4>2, <5>2 DEF PrevOf
      <4> QED
        BY <4>1, <4>2
    <3> HIDE DEF op
    <3>7. \A i \in DOMAIN new : /\ tells[i].merkleRoot = new[i].merkleRoot
                                /\ tells[i].entryCount = new[i].entryCount
                                /\ tells[i].prevRoot = PrevOf(op, i)'
      <4> TAKE i \in DOMAIN new
      <4>1. CASE i \in DOMAIN old
        BY <3>1, <3>2, <3>4, <3>6, <4>1
      <4>2. CASE i = Len(old) + 1
        BY <3>1, <3>2, <3>3, <3>4, <3>5, <3>6, <4>2
      <4> QED
        BY <3>1, <4>1, <4>2
    <3>8. head'[op] = PrevOf(op, Len(batches[op]) + 1)'
      BY <3>1, <3>3 DEF PrevOf
    <3>9. ASSUME NEW other \in Operators \ {op}
          PROVE  /\ Len(emitted'[other]) = Len(batches'[other])
                 /\ \A i \in DOMAIN batches'[other] :
                      /\ emitted'[other][i].merkleRoot = batches'[other][i].merkleRoot
                      /\ emitted'[other][i].entryCount = batches'[other][i].entryCount
                      /\ emitted'[other][i].prevRoot = PrevOf(other, i)'
                 /\ head'[other] = PrevOf(other, Len(batches[other]) + 1)'
      BY <3>3 DEF LinkedHistory, PrevOf
    <3> QED
      BY <3>5, <3>7, <3>8, <3>9 DEF LinkedHistory
  <2>3. CASE UNCHANGED vars
    BY <2>3 DEF vars, LinkedHistory, PrevOf
  <2> QED
    BY <2>1, <2>2, <2>3, StepCases
<1> QED
  BY <1>1, <1>2, AnchorTypeCorrect, PTL DEF Spec

(***************************************************************************)
(* Every leaf in a committed root is an entry of the operator it names.     *)
(***************************************************************************)
LeavesAuthored ==
  \A op \in Operators : \A i \in DOMAIN batches[op] :
    \A o \in Operators, e \in Entries :
      LeafHash(o, e) \in batches[op][i].merkleRoot => e \in authored[o]

(***************************************************************************)
(* A public root committed under another key vouches for nothing there.     *)
(***************************************************************************)
THEOREM AuthorshipIsBound == Spec => []NoBorrowedAuthorship
<1>1. Init => LeavesAuthored
  BY DEF Init, LeavesAuthored
<1>2. TypeOK /\ LeavesAuthored /\ [Next]_vars => LeavesAuthored'
  <2> SUFFICES ASSUME TypeOK, LeavesAuthored, [Next]_vars
               PROVE  LeavesAuthored'
    OBVIOUS
  <2>1. ASSUME NEW c \in Committers, ReadHead(c)
        PROVE  LeavesAuthored'
    BY <2>1 DEF ReadHead, LeavesAuthored
  <2>2. ASSUME NEW c \in Committers, NEW root \in Root, NEW count \in Nat,
               CommitBatch(c, root, count),
               \A o \in Operators : authored[o] \subseteq authored'[o],
               \A o \in Operators, e \in Entries : LeafHash(o, e) \in root => e \in authored'[o]
        PROVE  LeavesAuthored'
    <3> DEFINE key == KeyOf[c]
    <3>1. /\ DOMAIN batches[key] = 1 .. Len(batches[key])
          /\ DOMAIN batches'[key] = 1 .. Len(batches[key]) + 1
          /\ Len(batches[key]) \in Nat /\ key \in Operators
          /\ \A i \in DOMAIN batches[key] : batches'[key][i] = batches[key][i]
          /\ batches'[key][Len(batches[key]) + 1].merkleRoot = root
      BY <2>2, CommitAppends
    <3>2. \A other \in Operators \ {key} : batches'[other] = batches[other]
      BY <2>2, <3>1 DEF CommitBatch, TypeOK
    <3>3. ASSUME NEW op \in Operators, NEW i \in DOMAIN batches'[op]
          PROVE  \/ i \in DOMAIN batches[op] /\ batches'[op][i] = batches[op][i]
                 \/ batches'[op][i].merkleRoot = root
      BY <3>1, <3>2
    <3> QED
      BY <2>2, <3>3 DEF LeavesAuthored
  <2>3. ASSUME NEW c \in Committers, NEW entries \in SUBSET Entries,
               authored' = [authored EXCEPT ![KeyOf[c]] = @ \cup entries]
        PROVE  /\ \A o \in Operators : authored[o] \subseteq authored'[o]
               /\ \A o \in Operators, e \in Entries :
                    LeafHash(o, e) \in {LeafHash(KeyOf[c], x) : x \in entries}
                      => e \in authored'[o]
    BY <2>3, AnchorAssumption DEF TypeOK, LeafHash
  <2>4. CASE UNCHANGED vars
    BY <2>4 DEF vars, LeavesAuthored
  <2>5. ASSUME NEW c \in Committers, NEW root \in Root, NEW count \in Nat,
               CommitBatch(c, root, count), authored' = authored,
               \E op \in Operators : \E i \in DOMAIN batches[op] : root = batches[op][i].merkleRoot
        PROVE  LeavesAuthored'
    BY <2>2, <2>5 DEF LeavesAuthored
  <2>6. ASSUME NEW c \in Committers, NEW root \in Root, NEW count \in Nat,
               CommitBatch(c, root, count),
               NEW entries \in SUBSET Entries,
               root = {LeafHash(KeyOf[c], e) : e \in entries},
               authored' = [authored EXCEPT ![KeyOf[c]] = @ \cup entries]
        PROVE  LeavesAuthored'
    BY <2>2, <2>3, <2>6
  <2> QED
    BY <2>1, <2>4, <2>5, <2>6, StepCases
<1>3. LeavesAuthored => NoBorrowedAuthorship
  BY DEF LeavesAuthored, NoBorrowedAuthorship, VerifyEntry
<1> QED
  BY <1>1, <1>2, <1>3, AnchorTypeCorrect, PTL DEF Spec

(***************************************************************************)
(* A batch never moves, changes or disappears, and no commit touches the    *)
(* chain of another operator.                                               *)
(***************************************************************************)
THEOREM HistoryIsKept == Spec => HistoryKept
<1> DEFINE Kept == /\ \A op \in Operators : \A i \in DOMAIN batches[op] :
                        i \in DOMAIN batches'[op] /\ batches'[op][i] = batches[op][i]
                   /\ \A op, other \in Operators :
                        op # other /\ batches'[op] # batches[op]
                          => batches'[other] = batches[other]
<1>1. TypeOK /\ [Next]_vars => Kept
  <2> SUFFICES ASSUME TypeOK, [Next]_vars
               PROVE  Kept
    OBVIOUS
  <2>1. ASSUME NEW c \in Committers, ReadHead(c)
        PROVE  Kept
    BY <2>1 DEF ReadHead
  <2>2. ASSUME NEW c \in Committers, NEW root \in Root, NEW count \in Nat,
               CommitBatch(c, root, count)
        PROVE  Kept
    <3> DEFINE key == KeyOf[c]
    <3>1. /\ DOMAIN batches[key] = 1 .. Len(batches[key])
          /\ DOMAIN batches'[key] = 1 .. Len(batches[key]) + 1
          /\ Len(batches[key]) \in Nat /\ key \in Operators
          /\ \A i \in DOMAIN batches[key] : batches'[key][i] = batches[key][i]
      BY <2>2, CommitAppends
    <3>2. \A other \in Operators \ {key} : batches'[other] = batches[other]
      BY <2>2, <3>1 DEF CommitBatch, TypeOK
    <3> QED
      BY <3>1, <3>2
  <2>3. CASE UNCHANGED vars
    BY <2>3 DEF vars
  <2> QED
    BY <2>1, <2>2, <2>3, StepCases
<1> QED
  BY <1>1, AnchorTypeCorrect, PTL DEF Spec, HistoryKept
=============================================================================
