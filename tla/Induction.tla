----------------------------- MODULE Induction -----------------------------
(***************************************************************************)
(* Induction over the natural numbers in a form without operators as       *)
(* parameters: a property is the set of the numbers that have it.          *)
(***************************************************************************)
EXTENDS Integers, FiniteSetTheorems, WellFoundedInduction, TLAPS

(* Of some numbers one is the least.                                       *)
LEMMA Least ==
  ASSUME NEW T \in SUBSET Nat, T # {}
  PROVE  \E n \in T : \A m \in T : n <= m
<1> DEFINE R == {ss \in Nat \X Nat : ss[1] < ss[2]}
<1>1. IsWellFoundedOn(R, Nat)
  BY NatLessThanWellFounded, Zenon DEF OpToRel
<1>2. PICK n \in T : \A m \in T : ~ (<<m, n>> \in R)
  <2> HIDE DEF R
  <2> QED
    BY <1>1, WFMin, Zenon
<1>3. ASSUME NEW m \in T, m < n PROVE FALSE
  <2>1. <<m, n>> \in R
    BY <1>3
  <2> QED
    BY <1>2, <2>1
<1> QED
  BY <1>3

(* What holds of 0, and of n + 1 where it holds of n, holds of all.        *)
LEMMA InductionOn ==
  ASSUME NEW S, 0 \in S, \A n \in Nat : n \in S => n + 1 \in S
  PROVE  \A n \in Nat : n \in S
<1> SUFFICES ASSUME Nat \ S # {} PROVE FALSE
  OBVIOUS
<1>1. PICK n \in Nat \ S : \A m \in Nat \ S : n <= m
  BY Least
<1>2. n # 0 /\ n - 1 \in Nat /\ n - 1 \in S
  BY <1>1
<1> QED
  BY <1>1, <1>2

(* A sequence of numbers in their order.                                   *)
Increasing(at) == \A j, k \in DOMAIN at : j < k => at[j] < at[k]

(* It can be continued with a greater one.                                 *)
LEMMA AppendLast ==
  ASSUME NEW m \in Nat, NEW c \in Nat, NEW T \in SUBSET (1 .. m + 1), m + 1 \in T,
         NEW at \in [1 .. c -> T \ {m + 1}], Increasing(at)
  PROVE  \E bt \in [1 .. c + 1 -> T] : Increasing(bt)
<1> DEFINE bt == [k \in 1 .. c + 1 |-> IF k = c + 1 THEN m + 1 ELSE at[k]]
<1>1. \A k \in 1 .. c : at[k] \in T /\ at[k] \in Int /\ at[k] < m + 1
  <2>1. \A t \in T \ {m + 1} : t \in T /\ t \in Int /\ t < m + 1
    OBVIOUS
  <2> HIDE DEF bt
  <2>2. \A k \in 1 .. c : at[k] \in T \ {m + 1}
    OBVIOUS
  <2> QED
    BY <2>1, <2>2
<1>2. bt \in [1 .. c + 1 -> T]
  BY <1>1
<1>3. ASSUME NEW j \in 1 .. c + 1, NEW k \in 1 .. c + 1, j < k PROVE bt[j] < bt[k]
  BY <1>1, <1>3 DEF Increasing
<1>4. Increasing(bt)
  BY <1>3 DEF Increasing
<1> QED
  BY <1>2, <1>4

(* So can the numbers of any bounded set.                                  *)
LEMMA InOrderExists ==
  ASSUME NEW n \in Nat, NEW ids \in SUBSET (1 .. n)
  PROVE  /\ IsFiniteSet(ids) /\ Cardinality(ids) \in Nat
         /\ \E at \in [1 .. Cardinality(ids) -> ids] : Increasing(at)
<1> DEFINE Ordered(T) == /\ IsFiniteSet(T)
                         /\ \E at \in [1 .. Cardinality(T) -> T] : Increasing(at)
           S == {m \in Nat : \A T \in SUBSET (1 .. m) : Ordered(T)}
<1>1. 0 \in S
  <2>1. \A T \in SUBSET (1 .. 0) : T = {}
    OBVIOUS
  <2>2. IsFiniteSet({}) /\ Cardinality({}) = 0
    BY FS_EmptySet
  <2>3. [k \in 1 .. 0 |-> k] \in [1 .. 0 -> {}] /\ Increasing([k \in 1 .. 0 |-> k])
    BY DEF Increasing
  <2> QED
    BY <2>1, <2>2, <2>3
<1>2. ASSUME NEW m \in Nat, m \in S, NEW T \in SUBSET (1 .. m + 1) PROVE Ordered(T)
  <2> DEFINE U == T \ {m + 1}
  <2>1. Ordered(U)
    <3>1. U \in SUBSET (1 .. m)
      OBVIOUS
    <3> QED
      BY <1>2, <3>1
  <2>2. CASE m + 1 \notin T
    <3>1. U = T
      BY <2>2
    <3> QED
      BY <2>1, <3>1
  <2>3. CASE m + 1 \in T
    <3>1. IsFiniteSet(U) /\ Cardinality(U) \in Nat
      BY <2>1, FS_CardinalityType
    <3>2. T = U \cup {m + 1} /\ m + 1 \notin U
      BY <2>3
    <3>3. IsFiniteSet(T) /\ Cardinality(T) = Cardinality(U) + 1
      BY <3>1, <3>2, FS_AddElement
    <3>4. PICK at \in [1 .. Cardinality(U) -> U] : Increasing(at)
      BY <2>1
    <3>5. \E bt \in [1 .. Cardinality(U) + 1 -> T] : Increasing(bt)
      BY <2>3, <3>1, <3>4, AppendLast
    <3> QED
      BY <3>3, <3>5
  <2> QED
    BY <2>2, <2>3
<1>3. n \in S
  <2>1. \A m \in Nat : m \in S => m + 1 \in S
    BY <1>2
  <2> HIDE DEF S
  <2> QED
    BY <1>1, <2>1, InductionOn
<1>4. Ordered(ids)
  BY <1>3
<1> QED
  BY <1>4, FS_CardinalityType
(* The number of elements below one tells which one it is.                 *)
LEMMA RankOf ==
  ASSUME NEW c \in Nat, NEW T \in SUBSET Int, NEW at \in [1 .. c -> T], Increasing(at),
         \A i \in T : \E k \in 1 .. c : at[k] = i,
         NEW k \in 1 .. c
  PROVE  /\ Cardinality({j \in T : j < at[k]}) = k - 1
         /\ IsFiniteSet(T) /\ Cardinality(T) = c
<1> DEFINE Below(i) == {j \in T : j < i}
<1>1. ASSUME NEW m \in 1 .. c, NEW n \in 1 .. c PROVE (at[m] < at[n]) <=> (m < n)
  <2>1. DOMAIN at = 1 .. c /\ at[m] \in Int /\ at[n] \in Int
    OBVIOUS
  <2>2. m < n => at[m] < at[n]
    BY <2>1 DEF Increasing
  <2>3. n < m => at[n] < at[m]
    BY <2>1 DEF Increasing
  <2> QED
    BY <2>1, <2>2, <2>3
<1>2. ASSUME NEW m \in 1 .. c PROVE Cardinality(Below(at[m])) = m - 1
  <2> DEFINE f == [n \in 1 .. m - 1 |-> at[n]]
  <2>1. \A n \in 1 .. m - 1 : n \in 1 .. c /\ at[n] \in Below(at[m])
    BY <1>1
  <2>2. \A j \in Below(at[m]) : \E n \in 1 .. m - 1 : at[n] = j
    <3> TAKE j \in Below(at[m])
    <3>1. PICK n \in 1 .. c : at[n] = j
      OBVIOUS
    <3> QED
      BY <1>1, <3>1
  <2>3. \A p, q \in 1 .. m - 1 : at[p] = at[q] => p = q
    BY <1>1
  <2>4. f \in Bijection(1 .. m - 1, Below(at[m]))
    <3> HIDE DEF Below
    <3> QED
      BY <2>1, <2>2, <2>3 DEF Bijection, Injection, Surjection, IsInjective
  <2>5. ExistsBijection(1 .. m - 1, Below(at[m]))
    BY <2>4 DEF ExistsBijection
  <2> QED
    BY <2>5, FS_CountingElements
<1>4. at \in Bijection(1 .. c, T)
  BY <1>1 DEF Bijection, Injection, Surjection, IsInjective
<1>5. ExistsBijection(1 .. c, T)
  BY <1>4 DEF ExistsBijection
<1>6. IsFiniteSet(T) /\ Cardinality(T) = c
  BY <1>5, FS_CountingElements, FS_NatBijection
<1> QED
  BY <1>2, <1>6

(* So only one element has that many below it.                             *)
LEMMA RankIsUnique ==
  ASSUME NEW c \in Nat, NEW T \in SUBSET Int, NEW at \in [1 .. c -> T], Increasing(at),
         \A i \in T : \E k \in 1 .. c : at[k] = i,
         NEW k \in 1 .. c, NEW i \in T, Cardinality({j \in T : j < i}) = k - 1
  PROVE  i = at[k]
<1>1. PICK m \in 1 .. c : at[m] = i
  OBVIOUS
<1>2. Cardinality({j \in T : j < at[m]}) = m - 1
  BY RankOf
<1> QED
  BY <1>1, <1>2
-----------------------------------------------------------------------------
(* A function that is defined from one number to the next, as a step for   *)
(* each, exists.                                                           *)
IsDefinedBy(f, n, V, first, step) ==
  f \in [0 .. n -> V] /\ f[0] = first /\ \A k \in 1 .. n : f[k] = step[k][f[k - 1]]

(* Any first value and any steps define such a function.                   *)
LEMMA Recursion ==
  ASSUME NEW n \in Nat, NEW V, NEW first \in V, NEW step \in [1 .. n -> [V -> V]]
  PROVE  \E f : IsDefinedBy(f, n, V, first, step)
<1> DEFINE Is(f, m) == f[0] = first /\ \A k \in 1 .. m : f[k] = step[k][f[k - 1]]
           S == {m \in Nat : m <= n => \E f \in [0 .. m -> V] : Is(f, m)}
<1>1. 0 \in S
  <2> DEFINE f == [k \in 0 .. 0 |-> first]
  <2>1. f \in [0 .. 0 -> V] /\ Is(f, 0)
    OBVIOUS
  <2> QED
    BY <2>1
<1>2. ASSUME NEW m \in Nat, m \in S, m + 1 <= n
      PROVE  \E f \in [0 .. m + 1 -> V] : Is(f, m + 1)
  <2>1. PICK f \in [0 .. m -> V] : Is(f, m)
    BY <1>2
  <2> DEFINE g == [k \in 0 .. m + 1 |-> IF k <= m THEN f[k] ELSE step[k][f[m]]]
  <2>2. step[m + 1] \in [V -> V] /\ step[m + 1][f[m]] \in V
    BY <1>2
  <2>3. g \in [0 .. m + 1 -> V]
    BY <2>2
  <2>4. ASSUME NEW k \in 1 .. m + 1 PROVE g[k] = step[k][g[k - 1]]
    BY <2>1
  <2>5. g[0] = first
    BY <2>1
  <2> QED
    BY <2>3, <2>4, <2>5
<1>3. ASSUME NEW m \in Nat, m \in S PROVE m + 1 \in S
  <2> DEFINE Exists == \E f \in [0 .. m + 1 -> V] : Is(f, m + 1)
  <2>1. m + 1 <= n => Exists
    BY <1>2, <1>3
  <2> HIDE DEF Is
  <2>2. Exists => m + 1 \in S
    OBVIOUS
  <2>3. ~ (m + 1 <= n) => m + 1 \in S
    OBVIOUS
  <2> QED
    BY <2>1, <2>2, <2>3
<1> HIDE DEF S
<1>4. n \in S
  BY <1>1, <1>3, InductionOn
<1> QED
  BY <1>4 DEF S, IsDefinedBy

(* Multiples, and the division with remainder.                             *)
LEMMA Multiples ==
  ASSUME NEW a \in Int, NEW b \in Int, NEW r \in Nat, a <= b
  PROVE  a * r \in Int /\ b * r \in Int /\ a * r <= b * r
<1>1. (b - a) * r >= 0 /\ (b - a) * r = b * r - a * r
  OBVIOUS
<1>2. a * r \in Int /\ b * r \in Int
  OBVIOUS
<1> QED
  BY <1>1, <1>2

(* The remainder of a division is less than the divisor.                   *)
LEMMA Division ==
  ASSUME NEW n \in Nat, NEW r \in Nat \ {0}
  PROVE  n \div r \in Nat /\ (n \div r) * r <= n /\ n < (n \div r) * r + r
OBVIOUS

(* A number is its last digit, and ten times the others.                   *)
LEMMA LastDigit ==
  ASSUME NEW n \in Nat
  PROVE  /\ n \div 10 \in Nat /\ n % 10 \in 0 .. 9 /\ n = 10 * (n \div 10) + (n % 10)
         /\ n >= 10 => n \div 10 < n
OBVIOUS
=============================================================================
