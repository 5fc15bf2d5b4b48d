---------------------------- MODULE RulesProofs ----------------------------
(***************************************************************************)
(* What the proofs about the guard, the policy evaluator and the breaker    *)
(* share: finite sets, the total of a set of spend records, and the window  *)
(* and the replay of the circuit breaker.  No state machine is involved.    *)
(***************************************************************************)
EXTENDS PolicyRules, CircuitBreakerRules, FiniteSetTheorems, WellFoundedInduction, TLAPS

-----------------------------------------------------------------------------
(* Finite sets. *)

(***************************************************************************)
(* A bounded set of times has a latest one.                                 *)
(***************************************************************************)
LEMMA HasLatest ==
  ASSUME NEW m \in Nat, NEW S \in SUBSET (0..m), S # {}
  PROVE  \E t \in S : \A u \in S : u <= t
<1> DEFINE left == {m - t : t \in S}
           R == {pair \in Nat \X Nat : pair[1] < pair[2]}
<1>1. IsWellFoundedOn(R, Nat)
  BY NatLessThanWellFounded DEF OpToRel
<1>2. left \subseteq Nat /\ left # {}
  <2>1. \A t \in S : m - t \in Nat
    OBVIOUS
  <2> QED
    BY <2>1
<1>3. \E x \in left : \A y \in left : ~(<<y, x>> \in R)
  <2> HIDE DEF R, left
  <2> QED
    BY <1>1, <1>2, WFMin
<1>4. PICK t \in S : \A u \in S : ~(<<m - u, m - t>> \in R)
  BY <1>3
<1>5. ASSUME NEW u \in S
      PROVE  u <= t
  <2>1. ~(m - u < m - t)
    BY <1>2, <1>4
  <2> QED
    BY <2>1
<1> QED
  BY <1>5

(***************************************************************************)
(* A function has finitely many values on a finite set.                     *)
(***************************************************************************)
LEMMA FiniteImage ==
  ASSUME NEW S, IsFiniteSet(S), NEW f, f = [x \in S |-> f[x]]
  PROVE  IsFiniteSet({f[x] : x \in S})
<1> DEFINE T == {f[x] : x \in S}
<1>1. f \in [S -> T] /\ \A t \in T : \E x \in S : f[x] = t
  OBVIOUS
<1> HIDE DEF T
<1>2. f \in Surjection(S, T)
  BY <1>1 DEF Surjection
<1>3. IsFiniteSet(T)
  BY <1>2, FS_Surjection
<1> QED
  BY <1>3 DEF T

(***************************************************************************)
(* Among some subsets of a finite set there is one with no other of them    *)
(* inside it: what stands in for an induction on a finite set.              *)
(***************************************************************************)
LEMMA HasSmallest ==
  ASSUME NEW S, IsFiniteSet(S), NEW B \in SUBSET (SUBSET S), B # {}
  PROVE  \E T \in B : \A U \in B : U \subseteq T => U = T
<1> DEFINE R == StrictSubsetOrdering(S)
<1>1. IsWellFoundedOn(R, FiniteSubsetsOf(S))
  BY FS_StrictSubsetOrderingWellFounded
<1>2. FiniteSubsetsOf(S) = SUBSET S
  BY FS_FiniteSubsetsOfFinite
<1>3. \E T \in B : \A U \in B : ~(<<U, T>> \in R)
  <2> HIDE DEF R
  <2> QED
    BY <1>1, <1>2, WFMin
<1> QED
  BY <1>3 DEF StrictSubsetOrdering

-----------------------------------------------------------------------------
(***************************************************************************)
(* Total, the sum of the amounts of a set of spend records.  As defined it  *)
(* takes the records in the order of CHOOSE; first it is shown to take one  *)
(* record after the other, then not to depend on the order.                 *)
(***************************************************************************)
First(s) == CHOOSE x \in s : TRUE
Steps(S, f) == f = [s \in SUBSET S |-> IF s = {} THEN 0 ELSE First(s).amount + f[s \ {First(s)}]]
AddsFirst(s) == Total(s) = IF s = {} THEN 0 ELSE First(s).amount + Total(s \ {First(s)})

\* The total is a value of the function the definition recurs over.
LEMMA TotalIsStepped == \A S : Total(S) = (CHOOSE f : Steps(S, f))[S]
BY DEF Total, MapThenSumSet, MapThenFoldSet, Steps, First

\* The total of a finite set is that of its first record and of the rest.
LEMMA TotalStep ==
  ASSUME NEW S, IsFiniteSet(S)
  PROVE  AddsFirst(S)
<1> DEFINE Bad == {T \in SUBSET S : ~AddsFirst(T)}
<1> SUFFICES ASSUME Bad # {} PROVE FALSE
  OBVIOUS
<1>1. PICK T \in Bad : \A U \in Bad : U \subseteq T => U = T
  <2> HIDE DEF Bad
  <2>1. Bad \in SUBSET (SUBSET S)
    BY DEF Bad
  <2> QED
    BY <2>1, HasSmallest
<1>2. \A U \in SUBSET T : U # T => AddsFirst(U)
  BY <1>1
<1>3. \A s : s # {} => First(s) \in s
  BY DEF First
<1> DEFINE top == IF T = {} THEN 0 ELSE First(T).amount + Total(T \ {First(T)})
           g == [u \in SUBSET T |-> IF u = T THEN top ELSE Total(u)]
<1>4. Steps(T, g)
  <2>1. ASSUME NEW u \in SUBSET T
        PROVE  g[u] = IF u = {} THEN 0 ELSE First(u).amount + g[u \ {First(u)}]
    <3>1. u # {} => g[u \ {First(u)}] = Total(u \ {First(u)})
      <4>1. u # {} => u \ {First(u)} \in SUBSET T /\ u \ {First(u)} # T
        BY <1>3
      <4> QED
        BY <4>1
    <3>2. CASE u = T
      BY <3>1, <3>2
    <3>3. CASE u # T
      <4>1. g[u] = Total(u)
        BY <3>3
      <4> QED
        BY <4>1, <3>1, <3>3, <1>2 DEF AddsFirst
    <3> QED
      BY <3>2, <3>3
  <2>2. g = [u \in SUBSET T |-> g[u]]
    OBVIOUS
  <2> HIDE DEF g
  <2> QED
    BY <2>1, <2>2 DEF Steps
<1> DEFINE f == CHOOSE h : Steps(T, h)
<1>5. Steps(T, f)
  <2> HIDE DEF g
  <2> QED
    BY <1>4
<1>6. Total(T) = f[T]
  BY TotalIsStepped
<1> HIDE DEF f, g, top
<1>7. \A u \in SUBSET T : f[u] = IF u = {} THEN 0 ELSE First(u).amount + f[u \ {First(u)}]
  BY <1>5 DEF Steps
<1>8. \A u \in SUBSET T : u # T => f[u] = Total(u)
  <2> DEFINE Off == {u \in SUBSET T : u # T /\ f[u] # Total(u)}
  <2> SUFFICES ASSUME Off # {} PROVE FALSE
    OBVIOUS
  <2>1. PICK u \in Off : \A v \in Off : v \subseteq u => v = u
    <3> HIDE DEF Off
    <3>1. Off \in SUBSET (SUBSET T) /\ IsFiniteSet(T)
      BY FS_Subset DEF Off
    <3> QED
      BY <3>1, HasSmallest
  <2>2. AddsFirst(u)
    BY <2>1, <1>2
  <2>3. CASE u = {}
    BY <2>1, <2>2, <2>3, <1>7 DEF AddsFirst
  <2>4. CASE u # {}
    <3>1. f[u \ {First(u)}] = Total(u \ {First(u)})
      <4>1. u \ {First(u)} \in SUBSET T /\ u \ {First(u)} # T /\ u \ {First(u)} \subseteq u /\ u \ {First(u)} # u
        BY <2>4, <2>1, <1>3
      <4> HIDE DEF Off
      <4>2. u \ {First(u)} \notin Off
        BY <4>1, <2>1
      <4> QED
        BY <4>1, <4>2 DEF Off
    <3> QED
      BY <3>1, <2>1, <2>2, <2>4, <1>7 DEF AddsFirst
  <2> QED
    BY <2>3, <2>4
<1>9. AddsFirst(T)
  <2>1. CASE T = {}
    BY <2>1, <1>6, <1>7 DEF AddsFirst
  <2>2. CASE T # {}
    <3>1. T \ {First(T)} \in SUBSET T /\ T \ {First(T)} # T
      BY <2>2, <1>3
    <3> QED
      BY <3>1, <2>2, <1>6, <1>7, <1>8 DEF AddsFirst
  <2> QED
    BY <2>1, <2>2
<1> QED
  BY <1>1, <1>9

\* Every record of the set has an amount.
Amounts(S) == \A x \in S : x.amount \in Int

\* Nothing spent is a total of zero.
LEMMA TotalOfNone == Total({}) = 0
<1>1. AddsFirst({})
  BY FS_EmptySet, TotalStep
<1> QED
  BY <1>1 DEF AddsFirst

\* Totals are whole token units.
LEMMA TotalType ==
  ASSUME NEW S, IsFiniteSet(S), Amounts(S)
  PROVE  Total(S) \in Int
<1> DEFINE Bad == {T \in SUBSET S : Total(T) \notin Int}
<1> SUFFICES ASSUME Bad # {} PROVE FALSE
  OBVIOUS
<1>1. PICK T \in Bad : \A U \in Bad : U \subseteq T => U = T
  <2> HIDE DEF Bad
  <2>1. Bad \in SUBSET (SUBSET S)
    BY DEF Bad
  <2> QED
    BY <2>1, HasSmallest
<1>2. AddsFirst(T)
  <2>1. T \in SUBSET S
    BY <1>1
  <2>2. IsFiniteSet(T)
    BY <2>1, FS_Subset
  <2> QED
    BY <2>2, TotalStep
<1>3. T # {}
  <2> SUFFICES ASSUME T = {} PROVE FALSE
    OBVIOUS
  <2>1. Total(T) = 0
    BY TotalOfNone, Zenon
  <2> QED
    BY <1>1, <2>1
<1>4. First(T) \in T
  BY <1>3 DEF First
<1>5. Total(T \ {First(T)}) \in Int
  BY <1>1, <1>4
<1> QED
  BY <1>1, <1>2, <1>3, <1>4, <1>5 DEF AddsFirst, Amounts

(***************************************************************************)
(* Whichever record is left out, the total drops by its amount.             *)
(***************************************************************************)
LEMMA TotalWithout ==
  ASSUME NEW S, IsFiniteSet(S), Amounts(S), NEW x \in S
  PROVE  Total(S) = Total(S \ {x}) + x.amount
<1> DEFINE Fits(T) == \A y \in T : Total(T) = Total(T \ {y}) + y.amount
           Bad == {T \in SUBSET S : ~Fits(T)}
<1> SUFFICES ASSUME Bad # {} PROVE FALSE
  OBVIOUS
<1>1. PICK T \in Bad : \A U \in Bad : U \subseteq T => U = T
  <2> HIDE DEF Bad
  <2>1. Bad \in SUBSET (SUBSET S)
    BY DEF Bad
  <2> QED
    BY <2>1, HasSmallest
<1>2. \A U \in SUBSET T : U # T => Fits(U)
  BY <1>1
<1>3. PICK y \in T : Total(T) # Total(T \ {y}) + y.amount
  BY <1>1
<1>4. T \in SUBSET S
  BY <1>1
<1> DEFINE p == First(T)
<1>5. p \in T
  BY <1>3 DEF First
<1> HIDE DEF Fits, Bad
<1>6. \A U \in SUBSET S : AddsFirst(U) /\ Total(U) \in Int
  <2> TAKE U \in SUBSET S
  <2>1. IsFiniteSet(U) /\ Amounts(U)
    BY FS_Subset DEF Amounts
  <2> QED
    BY <2>1, TotalStep, TotalType
<1>7. Total(T) = p.amount + Total(T \ {p})
  BY <1>3, <1>4, <1>6 DEF AddsFirst
<1>8. /\ p.amount \in Int /\ y.amount \in Int
      /\ Total(T \ {p}) \in Int /\ Total((T \ {p}) \ {y}) \in Int
  BY <1>3, <1>4, <1>5, <1>6 DEF Amounts
<1> HIDE DEF p
<1>9. p # y
  <2> SUFFICES ASSUME p = y PROVE FALSE
    OBVIOUS
  <2>1. Total(T) = y.amount + Total(T \ {y}) /\ Total(T \ {y}) \in Int
    BY <1>7, <1>8, Zenon
  <2> QED
    BY <1>3, <1>8, <2>1
<1>10. Total(T \ {p}) = Total((T \ {p}) \ {y}) + y.amount
  <2>1. T \ {p} \in SUBSET T /\ T \ {p} # T /\ y \in T \ {p}
    BY <1>3, <1>5, <1>9
  <2> QED
    BY <1>2, <2>1 DEF Fits
<1>11. Total(T \ {y}) = Total((T \ {p}) \ {y}) + p.amount
  <2>1. T \ {y} \in SUBSET T /\ T \ {y} # T /\ p \in T \ {y}
    BY <1>3, <1>5, <1>9
  <2>2. (T \ {y}) \ {p} = (T \ {p}) \ {y}
    OBVIOUS
  <2> QED
    BY <1>2, <2>1, <2>2 DEF Fits
<1> QED
  BY <1>3, <1>7, <1>8, <1>10, <1>11

\* One record more adds its amount.
LEMMA TotalAdds ==
  ASSUME NEW S, IsFiniteSet(S), Amounts(S), NEW x, x \notin S, x.amount \in Int
  PROVE  Total(S \cup {x}) = Total(S) + x.amount
<1> DEFINE more == S \cup {x}
<1>1. IsFiniteSet(more)
  BY FS_AddElement
<1>2. Amounts(more)
  BY DEF Amounts
<1>3. more \ {x} = S /\ x \in more
  OBVIOUS
<1> HIDE DEF more
<1>4. Total(more) = Total(more \ {x}) + x.amount
  BY <1>1, <1>2, <1>3, TotalWithout
<1> QED
  BY <1>3, <1>4 DEF more

\* Records of no negative amount have no negative total.
LEMMA TotalNonNegative ==
  ASSUME NEW S, IsFiniteSet(S), Amounts(S), \A x \in S : x.amount >= 0
  PROVE  Total(S) >= 0
<1> DEFINE Bad == {T \in SUBSET S : ~(Total(T) >= 0)}
<1> SUFFICES ASSUME Bad # {} PROVE FALSE
  OBVIOUS
<1>1. PICK T \in Bad : \A U \in Bad : U \subseteq T => U = T
  <2> HIDE DEF Bad
  <2>1. Bad \in SUBSET (SUBSET S)
    BY DEF Bad
  <2> QED
    BY <2>1, HasSmallest
<1>2. T # {}
  <2> SUFFICES ASSUME T = {} PROVE FALSE
    OBVIOUS
  <2>1. Total(T) = 0
    BY TotalOfNone, Zenon
  <2> QED
    BY <1>1, <2>1
<1>3. PICK x \in T : TRUE
  BY <1>2
<1>4. T \in SUBSET S /\ T \ {x} \in SUBSET S
  BY <1>1
<1>5. IsFiniteSet(T) /\ Amounts(T) /\ IsFiniteSet(T \ {x}) /\ Amounts(T \ {x})
  BY <1>4, FS_Subset DEF Amounts
<1>6. Total(T) = Total(T \ {x}) + x.amount
  BY <1>3, <1>5, TotalWithout
<1>7. Total(T \ {x}) >= 0
  BY <1>1, <1>3, <1>4
<1>8. Total(T \ {x}) \in Int
  BY <1>5, TotalType
<1> QED
  BY <1>1, <1>3, <1>4, <1>6, <1>7, <1>8 DEF Amounts

(***************************************************************************)
(* Records that stand for others of the same amounts, one each, and the     *)
(* ones left over make up the whole.                                        *)
(***************************************************************************)
LEMMA TotalCarried ==
  ASSUME NEW S, IsFiniteSet(S), Amounts(S),
         NEW U, IsFiniteSet(U), Amounts(U),
         NEW f, \A x \in S : f[x] \in U /\ f[x].amount = x.amount,
         \A x, y \in S : f[x] = f[y] => x = y
  PROVE  Total(U) = Total(S) + Total(U \ {f[x] : x \in S})
<1> DEFINE Into(T) == {f[x] : x \in T}
           Rest(T) == U \ Into(T)
           Fits(T) == Total(T) + Total(Rest(T)) = Total(U)
           Bad == {T \in SUBSET S : ~Fits(T)}
<1>0. \A T \in SUBSET U : Total(T) \in Int /\ IsFiniteSet(T) /\ Amounts(T)
  <2> TAKE T \in SUBSET U
  <2>1. IsFiniteSet(T) /\ Amounts(T)
    BY FS_Subset DEF Amounts
  <2> QED
    BY <2>1, TotalType
<1>1. \A T \in SUBSET S : Total(T) \in Int /\ IsFiniteSet(T) /\ Amounts(T)
  <2> TAKE T \in SUBSET S
  <2>1. IsFiniteSet(T) /\ Amounts(T)
    BY FS_Subset DEF Amounts
  <2> QED
    BY <2>1, TotalType
<1>2. Bad = {}
  <2> SUFFICES ASSUME Bad # {} PROVE FALSE
    OBVIOUS
  <2>1. PICK T \in Bad : \A V \in Bad : V \subseteq T => V = T
    <3> HIDE DEF Bad
    <3>1. Bad \in SUBSET (SUBSET S)
      BY DEF Bad
    <3> QED
      BY <3>1, HasSmallest
  <2>2. T # {}
    <3>1. Fits({})
      <4>1. Rest({}) = U
        OBVIOUS
      <4> HIDE DEF Rest
      <4> QED
        BY <1>0, <4>1, TotalOfNone
    <3> QED
      BY <2>1, <3>1
  <2>3. PICK x \in T : TRUE
    BY <2>2
  <2>4. Fits(T \ {x})
    BY <2>1, <2>3
  <2>5. T \in SUBSET S /\ x \in S /\ f[x] \in U /\ f[x].amount = x.amount /\ x.amount \in Int
    BY <2>1, <2>3 DEF Amounts
  <2>6. Total(T) = Total(T \ {x}) + x.amount
    <3>1. IsFiniteSet(T) /\ Amounts(T)
      BY <1>1, <2>5
    <3> QED
      BY <2>3, <3>1, TotalWithout
  <2>7. Rest(T) = Rest(T \ {x}) \ {f[x]} /\ f[x] \in Rest(T \ {x})
    BY <2>3, <2>5
  <2>8. Rest(T) \in SUBSET U /\ Rest(T \ {x}) \in SUBSET U
    OBVIOUS
  <2> HIDE DEF Rest
  <2>9. Total(Rest(T \ {x})) = Total(Rest(T)) + x.amount
    <3>1. IsFiniteSet(Rest(T \ {x})) /\ Amounts(Rest(T \ {x}))
      BY <1>0, <2>8
    <3>2. Total(Rest(T \ {x})) = Total(Rest(T \ {x}) \ {f[x]}) + f[x].amount
      BY <2>7, <3>1, TotalWithout
    <3> QED
      BY <2>5, <2>7, <3>2
  <2>10. Fits(T)
    <3>1. /\ Total(T) \in Int /\ Total(T \ {x}) \in Int
          /\ Total(Rest(T)) \in Int /\ Total(Rest(T \ {x})) \in Int
      <4>1. T \ {x} \in SUBSET S
        BY <2>5
      <4> QED
        BY <1>0, <1>1, <2>5, <2>8, <4>1
    <3> QED
      BY <2>4, <2>5, <2>6, <2>9, <3>1
  <2> QED
    BY <2>1, <2>10
<1>3. Fits(S)
  BY <1>2
<1>4. Rest(S) \in SUBSET U
  OBVIOUS
<1>5. Total(Rest(S)) \in Int /\ Total(U) \in Int /\ Total(S) \in Int
  <2> HIDE DEF Rest
  <2> QED
    BY <1>0, <1>1, <1>4
<1> QED
  BY <1>3, <1>5

(***************************************************************************)
(* Records each counted by one of its own in another set total at most as   *)
(* much as that set.                                                        *)
(***************************************************************************)
LEMMA TotalAtMost ==
  ASSUME NEW S, IsFiniteSet(S), Amounts(S),
         NEW U, IsFiniteSet(U), Amounts(U), \A u \in U : u.amount >= 0,
         NEW f, \A x \in S : f[x] \in U /\ f[x].amount = x.amount,
         \A x, y \in S : f[x] = f[y] => x = y
  PROVE  Total(S) <= Total(U)
<1> DEFINE Rest == U \ {f[x] : x \in S}
<1>1. Total(U) = Total(S) + Total(Rest)
  BY TotalCarried
<1>2. Rest \in SUBSET U
  OBVIOUS
<1> HIDE DEF Rest
<1>3. IsFiniteSet(Rest) /\ Amounts(Rest) /\ \A x \in Rest : x.amount >= 0
  BY <1>2, FS_Subset DEF Amounts
<1>4. Total(Rest) >= 0 /\ Total(Rest) \in Int /\ Total(S) \in Int
  BY <1>3, TotalNonNegative, TotalType
<1> QED
  BY <1>1, <1>4

\* A part and the rest make up the whole.
LEMMA TotalSplit ==
  ASSUME NEW U, IsFiniteSet(U), Amounts(U), NEW S \in SUBSET U
  PROVE  Total(U) = Total(S) + Total(U \ S)
<1> DEFINE f == [x \in S |-> x]
<1>1. IsFiniteSet(S) /\ Amounts(S)
  BY FS_Subset DEF Amounts
<1>2. /\ \A x \in S : f[x] \in U /\ f[x].amount = x.amount
      /\ \A x, y \in S : f[x] = f[y] => x = y
      /\ {f[x] : x \in S} = S
  OBVIOUS
<1> HIDE DEF f
<1>3. Total(U) = Total(S) + Total(U \ {f[x] : x \in S})
  BY <1>1, <1>2, TotalCarried
<1> QED
  BY <1>2, <1>3

(***************************************************************************)
(* In k parts of at most m each there is at most k times m.                 *)
(***************************************************************************)
LEMMA TotalOfParts ==
  ASSUME NEW k \in Nat, NEW m \in Int, NEW S, IsFiniteSet(S), Amounts(S),
         NEW part, \A x \in S : part[x] \in 1..k,
         \A j \in 1..k : Total({x \in S : part[x] = j}) <= m
  PROVE  Total(S) <= k * m
<1> DEFINE Upto(n) == {x \in S : part[x] <= n}
           At(n) == {x \in S : part[x] = n}
           Off == {n \in 0..k : ~(Total(Upto(n)) <= n * m)}
<1>1. \A T \in SUBSET S : IsFiniteSet(T) /\ Amounts(T) /\ Total(T) \in Int
  <2> TAKE T \in SUBSET S
  <2>1. IsFiniteSet(T) /\ Amounts(T)
    BY FS_Subset DEF Amounts
  <2> QED
    BY <2>1, TotalType
<1>2. \A n : Upto(n) \in SUBSET S /\ At(n) \in SUBSET S
  OBVIOUS
<1>3. Off = {}
  <2> SUFFICES ASSUME Off # {} PROVE FALSE
    OBVIOUS
  <2> DEFINE R == {pair \in Nat \X Nat : pair[1] < pair[2]}
  <2>1. IsWellFoundedOn(R, Nat)
    BY NatLessThanWellFounded DEF OpToRel
  <2>2. \E n \in Off : \A i \in Off : ~(<<i, n>> \in R)
    <3>1. Off \subseteq Nat
      OBVIOUS
    <3> HIDE DEF R, Off
    <3> QED
      BY <2>1, <3>1, WFMin
  <2>3. PICK n \in Off : \A i \in Off : ~(i < n)
    <3>1. Off \subseteq Nat
      OBVIOUS
    <3> HIDE DEF Off
    <3> QED
      BY <2>2, <3>1
  <2>4. n # 0
    <3>1. Upto(0) = {}
      OBVIOUS
    <3>2. Total(Upto(0)) = 0
      BY <3>1, TotalOfNone, Zenon
    <3>3. 0 \notin Off
      BY <3>2
    <3> QED
      BY <2>3, <3>3
  <2>5. n \in 1..k /\ n - 1 \in 0..k
    BY <2>3, <2>4
  <2>6. Total(Upto(n - 1)) <= (n - 1) * m
    <3>1. n - 1 \notin Off
      <4> HIDE DEF Off
      <4> QED
        BY <2>3, <2>5
    <3> QED
      BY <2>5, <3>1
  <2>7. Upto(n) \ At(n) = Upto(n - 1) /\ At(n) \in SUBSET Upto(n)
    BY <2>5
  <2>8. Total(At(n)) <= m
    BY <2>5
  <2> HIDE DEF Upto, At
  <2>9. Total(Upto(n)) = Total(At(n)) + Total(Upto(n - 1))
    BY <1>1, <1>2, <2>7, TotalSplit
  <2>10. Total(Upto(n)) \in Int /\ Total(At(n)) \in Int /\ Total(Upto(n - 1)) \in Int
    BY <1>1, <1>2
  <2>11. (n - 1) * m + m = n * m /\ n * m \in Int /\ (n - 1) * m \in Int
    BY <2>5
  <2>12. Total(Upto(n)) <= n * m
    BY <2>6, <2>8, <2>9, <2>10, <2>11
  <2> QED
    BY <2>3, <2>12
<1>4. Upto(k) = S
  OBVIOUS
<1>5. Total(Upto(k)) <= k * m
  <2>1. k \notin Off /\ k \in 0..k
    <3> HIDE DEF Off
    <3> QED
      BY <1>3
  <2> QED
    BY <2>1
<1> HIDE DEF Upto
<1> QED
  BY <1>4, <1>5

-----------------------------------------------------------------------------
(* The rules of the policy. *)

\* Windows are whole numbers of ticks.
LEMMA DayLenType == DayLen \in Nat \ {0} /\ HourLen \in Nat \ {0} /\ HourLen <= DayLen
<1>1. \A a, b \in Nat \ {0} : a * b \in Nat \ {0} /\ a <= a * b
  <2> TAKE a, b \in Nat \ {0}
  <2>1. a * b = a * (b - 1) + a /\ a * (b - 1) \in Nat
    OBVIOUS
  <2> QED
    BY <2>1
<1> QED
  BY <1>1, PolicyAssumption DEF DayLen

(***************************************************************************)
(* evaluate() leaves out no rule: what one of them finds critical or wants  *)
(* a human for is in what the policy as a whole says.                       *)
(***************************************************************************)
LEMMA NoRuleSkipped ==
  ASSUME NEW rules, NEW ctx, NEW rule \in rules
  PROVE  /\ Dispatch(rule, ctx).severity = "critical" => EvaluateRules(rules, ctx).critical
         /\ Dispatch(rule, ctx).escalate => EvaluateRules(rules, ctx).escalate
BY DEF EvaluateRules

(***************************************************************************)
(* What a request that passes the policy adds to a window fits the cap.     *)
(***************************************************************************)
LEMMA CapChecked ==
  ASSUME NEW rules, NEW ctx, ~EvaluateRules(rules, ctx).critical, ctx.req.amount \in Int,
         NEW rule \in rules, WellFormed(rule),
         rule.type = "spend-cap", rule.token = ctx.req.token
  PROVE  /\ rule.window = "transaction" => ctx.req.amount <= rule.maxAmount
         /\ rule.window # "transaction"
              /\ WindowedSpend(ctx.spends, rule.window, rule.token, ctx.now) \in Int
            => WindowedSpend(ctx.spends, rule.window, rule.token, ctx.now) + ctx.req.amount
                 <= rule.maxAmount
<1> DEFINE prior == IF rule.window = "transaction" THEN 0
                    ELSE WindowedSpend(ctx.spends, rule.window, rule.token, ctx.now)
<1>1. Dispatch(rule, ctx) = CheckSpendCap(rule, ctx)
  BY DEF Dispatch
<1>2. Dispatch(rule, ctx).severity # "critical"
  BY NoRuleSkipped
<1>3. ~(prior + ctx.req.amount > rule.maxAmount)
  BY <1>1, <1>2 DEF CheckSpendCap, Fail
<1>4. rule.maxAmount \in Nat
  BY DEF WellFormed
<1> QED
  BY <1>3, <1>4

(***************************************************************************)
(* A request that passes the policy leaves room for itself in every rate.   *)
(***************************************************************************)
LEMMA RateChecked ==
  ASSUME NEW rules, NEW ctx, ~EvaluateRules(rules, ctx).critical,
         NEW rule \in rules, WellFormed(rule), rule.type = "rate-limit",
         NEW recent, recent = {s \in ctx.spends : s.ts > ctx.now - rule.windowLen},
         Cardinality(recent) \in Nat
  PROVE  Cardinality(recent) + 1 <= rule.maxPayments
<1>1. Dispatch(rule, ctx) = CheckRateLimit(rule, ctx)
  BY DEF Dispatch
<1>2. Dispatch(rule, ctx).severity # "critical"
  BY NoRuleSkipped
<1>3. ~(Cardinality(recent) + 1 > rule.maxPayments)
  BY <1>1, <1>2 DEF CheckRateLimit, Fail
<1>4. rule.maxPayments \in Nat
  BY DEF WellFormed
<1> QED
  BY <1>3, <1>4

-----------------------------------------------------------------------------
(* The circuit breaker. *)

(***************************************************************************)
(* The code accepts a threshold of zero, which trips on the first decision  *)
(* whatever it is, but leaves a breaker that saw none closed.               *)
(***************************************************************************)
ThresholdsPositive == 0 \notin {MaxBlocks, MaxEscalations, MaxAnomalies}

(***************************************************************************)
(* More events never stop a window from tripping.                           *)
(***************************************************************************)
LEMMA TripMonotone ==
  ASSUME NEW evs, IsFiniteSet(evs), NEW fewer \in SUBSET evs, ShouldTrip(fewer)
  PROVE  ShouldTrip(evs)
<1>1. /\ IsFiniteSet(Blocks(evs)) /\ IsFiniteSet(Blocks(fewer))
      /\ IsFiniteSet(Escalations(evs)) /\ IsFiniteSet(Escalations(fewer))
      /\ IsFiniteSet(Anomalies(evs)) /\ IsFiniteSet(Anomalies(fewer))
  <2>1. /\ Blocks(evs) \subseteq evs /\ Blocks(fewer) \subseteq evs
        /\ Escalations(evs) \subseteq evs /\ Escalations(fewer) \subseteq evs
        /\ Anomalies(evs) \subseteq evs /\ Anomalies(fewer) \subseteq evs
    BY DEF Blocks, Escalations, Anomalies
  <2> QED
    BY <2>1, FS_Subset
<1>2. /\ Cardinality(Blocks(fewer)) <= Cardinality(Blocks(evs))
      /\ Cardinality(Escalations(fewer)) <= Cardinality(Escalations(evs))
      /\ Cardinality(Anomalies(fewer)) <= Cardinality(Anomalies(evs))
  <2>1. /\ Blocks(fewer) \subseteq Blocks(evs)
        /\ Escalations(fewer) \subseteq Escalations(evs)
        /\ Anomalies(fewer) \subseteq Anomalies(evs)
    BY DEF Blocks, Escalations, Anomalies
  <2> QED
    BY <1>1, <2>1, FS_Subset
<1>3. /\ Cardinality(Blocks(fewer)) \in Nat /\ Cardinality(Blocks(evs)) \in Nat
      /\ Cardinality(Escalations(fewer)) \in Nat /\ Cardinality(Escalations(evs)) \in Nat
      /\ Cardinality(Anomalies(fewer)) \in Nat /\ Cardinality(Anomalies(evs)) \in Nat
  BY <1>1, FS_CardinalityType
<1>4. {MaxBlocks, MaxEscalations, MaxAnomalies} \subseteq Int
  BY BreakerAssumption DEF Unset
<1> QED
  BY <1>2, <1>3, <1>4 DEF ShouldTrip

(***************************************************************************)
(* An empty window trips nothing.                                           *)
(***************************************************************************)
LEMMA NothingTripsNothing ==
  ASSUME ThresholdsPositive
  PROVE  ~ShouldTrip({})
<1>1. Blocks({}) = {} /\ Escalations({}) = {} /\ Anomalies({}) = {}
  BY DEF Blocks, Escalations, Anomalies
<1>2. Cardinality({}) = 0
  BY FS_EmptySet
<1> QED
  BY <1>1, <1>2, BreakerAssumption DEF ShouldTrip, ThresholdsPositive, Unset

(***************************************************************************)
(* Pruning twice at one moment is pruning once.                             *)
(***************************************************************************)
LEMMA PruneOnce == \A evs, t : InWindow(InWindow(evs, t), t) = InWindow(evs, t)
BY DEF InWindow

(***************************************************************************)
(* Time only prunes more.                                                   *)
(***************************************************************************)
LEMMA PruneMore ==
  ASSUME NEW t \in Nat, NEW evs, \A e \in evs : e.ts \in Nat
  PROVE  InWindow(evs, t + 1) \subseteq InWindow(evs, t)
BY BreakerAssumption DEF InWindow

(***************************************************************************)
(* A replay in which some events trip the breaker leaves it open, since a   *)
(* moment no later than the last of them.                                   *)
(***************************************************************************)
LEMMA ReplayTrips ==
  ASSUME ThresholdsPositive,
         NEW m \in Nat, NEW evs, IsFiniteSet(evs), \A e \in evs : e.ts \in 0..m,
         NEW some \in SUBSET evs, ShouldTrip(some),
         NEW o \in ReplayedOpening(evs)
  PROVE  o # NotOpen /\ \E e \in some : o <= e.ts
<1> DEFINE tripping == {e \in evs : ShouldTrip(UpTo(evs, e.ts))}
<1>1. some # {}
  BY NothingTripsNothing
<1>2. PICK last \in some : \A e \in some : e.ts <= last.ts
  <2> DEFINE S == {e.ts : e \in some}
  <2>1. S \in SUBSET (0..m) /\ S # {}
    BY <1>1
  <2>2. \E t \in S : \A u \in S : u <= t
    <3> HIDE DEF S
    <3> QED
      BY <2>1, HasLatest
  <2> QED
    BY <2>2
<1>3. ShouldTrip(UpTo(evs, last.ts))
  <2>1. UpTo(evs, last.ts) \subseteq evs /\ some \subseteq UpTo(evs, last.ts)
    BY <1>2 DEF UpTo
  <2>2. IsFiniteSet(UpTo(evs, last.ts))
    BY <2>1, FS_Subset
  <2> QED
    BY <2>1, <2>2, TripMonotone
<1>4. last \in tripping
  BY <1>3
<1>5. o \in {t \in {e.ts : e \in tripping} : \A e \in tripping : t <= e.ts}
  <2>1. tripping # {}
    BY <1>4
  <2> QED
    BY <2>1 DEF ReplayedOpening
<1>6. o <= last.ts /\ o \in Nat
  BY <1>4, <1>5
<1> QED
  BY <1>6 DEF NotOpen
=============================================================================
