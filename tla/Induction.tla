------------------------------- MODULE Induction -------------------------------
(* Induction over the natural numbers, stated about sets, and what it gives: a  *)
(* function that is defined by recursion towards a bound exists.                *)
EXTENDS Integers, TLAPS, FiniteSetTheorems, WellFoundedInduction

LEMMA SetInduction ==
  ASSUME NEW S, 0 \in S, \A n \in Nat : n \in S => n + 1 \in S
  PROVE  Nat \subseteq S
  <1> DEFINE T == {0 .. n : n \in Nat \ S}
             R == StrictSubsetOrdering(Nat)
  <1>1. SUFFICES ASSUME T # {} PROVE FALSE
    OBVIOUS
  <1>2. PICK A \in T : \A B \in T : ~(<<B, A>> \in R)
    <2>1. ASSUME NEW n \in Nat PROVE IsFiniteSet(0 .. n) /\ 0 .. n \subseteq Nat
      BY FS_Interval
    <2>2. T \subseteq FiniteSubsetsOf(Nat)
      BY <2>1 DEF FiniteSubsetsOf
    <2> HIDE DEF T
    <2>3. QED
      BY <1>1, <2>2, FS_StrictSubsetOrderingWellFounded, WFMin
  <1>3. PICK n \in Nat \ S : A = 0 .. n
    OBVIOUS
  <1>4. n - 1 \in Nat \ S
    OBVIOUS
  <1>5. <<0 .. (n - 1), 0 .. n>> \in R
    <2>1. n \in 0 .. n /\ n \notin 0 .. (n - 1)
      BY <1>4
    <2>2. 0 .. (n - 1) \subseteq 0 .. n /\ 0 .. n \subseteq Nat
      BY <1>4
    <2>3. QED
      BY <2>1, <2>2 DEF StrictSubsetOrdering
  <1>6. QED
    BY <1>2, <1>3, <1>4, <1>5

\* What holds at a number whenever it holds at all the smaller ones holds everywhere.
LEMMA StrongSetInduction ==
  ASSUME NEW S, \A n \in Nat : (\A m \in Nat : m < n => m \in S) => n \in S
  PROVE  Nat \subseteq S
  <1> DEFINE T == {n \in Nat : \A m \in Nat : m < n => m \in S}
  <1>1. 0 \in T
    OBVIOUS
  <1>2. ASSUME NEW n \in Nat, n \in T PROVE n + 1 \in T
    <2>1. n \in S
      BY <1>2
    <2>2. QED
      BY <1>2, <2>1
  <1>3. Nat \subseteq T
    <2> HIDE DEF T
    <2>1. QED
      BY <1>1, <1>2, SetInduction
  <1>4. QED
    BY <1>3

\* Downwards from a bound: what holds from m on, and at p whenever it holds at every
\* later number, holds everywhere.
LEMMA DownwardSetInduction ==
  ASSUME NEW S, NEW m \in Nat,
         \A p \in Nat : p >= m => p \in S,
         \A p \in Nat : (\A q \in Nat : q > p => q \in S) => p \in S
  PROVE  Nat \subseteq S
  <1> DEFINE K == {k \in Nat : \A p \in Nat : p + k >= m => p \in S}
  <1>1. 0 \in K
    OBVIOUS
  <1>2. ASSUME NEW k \in Nat, k \in K PROVE k + 1 \in K
    <2>1. ASSUME NEW p \in Nat, p + (k + 1) >= m PROVE p \in S
      <3>1. \A q \in Nat : q > p => q \in S
        BY <1>2, <2>1
      <3>2. QED
        BY <3>1
    <2>2. QED
      BY <2>1
  <1> HIDE DEF K
  <1>3. Nat \subseteq K
    BY <1>1, <1>2, SetInduction
  <1>4. QED
    BY <1>3 DEF K

--------------------------------------------------------------------------------
(* Recursion on later numbers, that ends at a bound: next[p] is the number after  *)
(* p, and step[p] gives the value at p from the one there, except where it ends.  *)

Recursion(m, V, next, last, step, ends) ==
  /\ m \in Nat /\ next \in [Nat -> Nat] /\ last \in [Nat -> V] /\ step \in [Nat -> [V -> V]]
  /\ \A p \in Nat : next[p] > p /\ (p >= m => p \in ends)

Equation(f, next, last, step, ends) ==
  \A p \in Nat : f[p] = IF p \in ends THEN last[p] ELSE step[p][f[next[p]]]

\* There is a function that such a recursion defines.
LEMMA ForwardRecursion ==
  ASSUME NEW m, NEW V, NEW next, NEW last, NEW step, NEW ends,
         Recursion(m, V, next, last, step, ends)
  PROVE  \E f \in [Nat -> V] : Equation(f, next, last, step, ends)
  <1> USE DEF Recursion
  <1> DEFINE Good(f, k) ==
               \A p \in Nat :
                  p + k >= m => f[p] = IF p \in ends THEN last[p] ELSE step[p][f[next[p]]]
             K == {k \in Nat : \E f \in [Nat -> V] : Good(f, k)}
  <1>1. 0 \in K
    BY DEF Good
  <1>2. ASSUME NEW k \in Nat, k \in K PROVE k + 1 \in K
    <2>1. PICK f \in [Nat -> V] : Good(f, k)
      BY <1>2
    <2> DEFINE g == [p \in Nat |-> IF p + k >= m THEN f[p]
                                   ELSE IF p \in ends THEN last[p] ELSE step[p][f[next[p]]]]
    <2>2. g \in [Nat -> V]
      OBVIOUS
    <2>3. ASSUME NEW p \in Nat, p + (k + 1) >= m
          PROVE  g[p] = IF p \in ends THEN last[p] ELSE step[p][g[next[p]]]
      <3>1. next[p] \in Nat /\ next[p] + k >= m
        BY <2>3
      <3>2. g[next[p]] = f[next[p]]
        BY <3>1
      <3>3. QED
        BY <2>1, <3>2
    <2> HIDE DEF g
    <2>4. QED
      BY <2>2, <2>3
  <1> HIDE DEF K
  <1>3. m \in K
    BY <1>1, <1>2, SetInduction
  <1>4. QED
    BY <1>3 DEF K, Equation

--------------------------------------------------------------------------------
(* Recursion on earlier numbers.                                                *)

Backwards(V, next, last, step, ends) ==
  /\ next \in [Nat -> Nat] /\ last \in [Nat -> V] /\ step \in [Nat -> [V -> V]]
  /\ \A p \in Nat \ ends : next[p] < p

\* A function that satisfies the equation below a number.
Below(f, k, V, next, last, step, ends) ==
  /\ f \in [Nat -> V]
  /\ \A p \in Nat : p < k => f[p] = IF p \in ends THEN last[p] ELSE step[p][f[next[p]]]

LEMMA OneFurther ==
  ASSUME NEW V, NEW next, NEW last, NEW step, NEW ends, Backwards(V, next, last, step, ends),
         NEW k \in Nat, NEW f, Below(f, k, V, next, last, step, ends)
  PROVE  \E g : Below(g, k + 1, V, next, last, step, ends)
  <1> USE DEF Backwards, Below
  <1> DEFINE v == IF k \in ends THEN last[k] ELSE step[k][f[next[k]]]
             g == [f EXCEPT ![k] = v]
  <1>1. v \in V
    OBVIOUS
  <1>2. g \in [Nat -> V] /\ g[k] = v /\ \A p \in Nat : p # k => g[p] = f[p]
    BY <1>1
  <1>3. ASSUME NEW p \in Nat, p < k + 1
        PROVE  g[p] = IF p \in ends THEN last[p] ELSE step[p][g[next[p]]]
    <2>1. p \notin ends => next[p] \in Nat /\ next[p] # k
      BY <1>3
    <2>2. p \notin ends => g[next[p]] = f[next[p]]
      BY <1>2, <2>1
    <2>3. CASE p = k
      BY <2>2, <2>3, <1>2
    <2>4. CASE p # k
      <3>1. p < k /\ g[p] = f[p]
        BY <2>4, <1>2, <1>3
      <3>2. f[p] = IF p \in ends THEN last[p] ELSE step[p][f[next[p]]]
        BY <3>1
      <3> HIDE DEF g
      <3>3. QED
        BY <2>2, <3>1, <3>2
    <2>5. QED
      BY <2>3, <2>4
  <1> HIDE DEF g
  <1>4. QED
    BY <1>2, <1>3

\* Such functions agree there.
LEMMA AgreeBelow ==
  ASSUME NEW V, NEW next, NEW last, NEW step, NEW ends, Backwards(V, next, last, step, ends),
         NEW f, NEW g
  PROVE  \A k \in Nat :
           Below(f, k, V, next, last, step, ends) /\ Below(g, k, V, next, last, step, ends)
             => \A p \in Nat : p < k => f[p] = g[p]
  <1> USE DEF Backwards
  <1> DEFINE A == {k \in Nat :
                     Below(f, k, V, next, last, step, ends) /\ Below(g, k, V, next, last, step, ends)
                       => \A p \in Nat : p < k => f[p] = g[p]}
  <1>1. 0 \in A
    OBVIOUS
  <1>2. ASSUME NEW k \in Nat, k \in A PROVE k + 1 \in A
    <2>1. ASSUME Below(f, k + 1, V, next, last, step, ends),
                 Below(g, k + 1, V, next, last, step, ends), NEW p \in Nat, p < k + 1
          PROVE  f[p] = g[p]
      <3>1. Below(f, k, V, next, last, step, ends) /\ Below(g, k, V, next, last, step, ends)
        BY <2>1 DEF Below
      <3>2. \A q \in Nat : q < k => f[q] = g[q]
        BY <3>1, <1>2
      <3>3. p \notin ends => next[p] \in Nat /\ next[p] < k
        BY <2>1
      <3>4. p \notin ends => f[next[p]] = g[next[p]]
        BY <3>2, <3>3
      <3>5. QED
        BY <3>4, <2>1 DEF Below
    <2>2. QED
      BY <2>1
  <1> HIDE DEF A
  <1>3. Nat \subseteq A
    BY <1>1, <1>2, SetInduction
  <1>4. QED
    BY <1>3 DEF A

\* There is a function that such a recursion defines.
LEMMA BackwardRecursion ==
  ASSUME NEW V, NEW next, NEW last, NEW step, NEW ends, Backwards(V, next, last, step, ends)
  PROVE  \E f \in [Nat -> V] : Equation(f, next, last, step, ends)
  <1> DEFINE Good(f, k) == Below(f, k, V, next, last, step, ends)
             K == {k \in Nat : \E f : Good(f, k)}
  <1>1. 0 \in K
    <2>1. Good(last, 0)
      BY DEF Backwards, Below
    <2> HIDE DEF Good
    <2>2. QED
      BY <2>1
  <1>2. ASSUME NEW k \in Nat, k \in K PROVE k + 1 \in K
    <2>1. PICK f : Good(f, k)
      BY <1>2
    <2>2. \E g : Good(g, k + 1)
      BY <2>1, OneFurther
    <2>3. QED
      BY <2>2
  <1>3. Nat \subseteq K
    <2> HIDE DEF K
    <2>1. QED
      BY <1>1, <1>2, SetInduction
  <1> DEFINE F == [k \in Nat |-> CHOOSE f : Good(f, k)]
             h == [p \in Nat |-> F[p + 1][p]]
  <1>4. ASSUME NEW k \in Nat PROVE Good(F[k], k)
    <2>1. \E f : Good(f, k)
      BY <1>3
    <2>2. F[k] = CHOOSE f : Good(f, k)
      OBVIOUS
    <2> HIDE DEF Good, F
    <2>3. QED
      BY <2>1, <2>2
  <1>5. h \in [Nat -> V]
    <2>1. ASSUME NEW p \in Nat PROVE F[p + 1][p] \in V
      <3>1. Good(F[p + 1], p + 1)
        <4> HIDE DEF Good, F
        <4>1. QED
          BY <1>4
      <3> HIDE DEF F
      <3>2. QED
        BY <3>1 DEF Below
    <2> HIDE DEF F
    <2>2. QED
      BY <2>1
  <1>6. ASSUME NEW p \in Nat PROVE h[p] = IF p \in ends THEN last[p] ELSE step[p][h[next[p]]]
    <2>1. Good(F[p + 1], p + 1)
      <3> HIDE DEF Good, F
      <3>1. QED
        BY <1>4
    <2>2. F[p + 1][p] = IF p \in ends THEN last[p] ELSE step[p][F[p + 1][next[p]]]
      <3> HIDE DEF F
      <3>1. QED
        BY <2>1 DEF Below
    <2>3. ASSUME p \notin ends PROVE h[next[p]] = F[p + 1][next[p]]
      <3> DEFINE q == next[p]
      <3>1. q \in Nat /\ q < p
        BY <2>3 DEF Backwards
      <3> HIDE DEF q
      <3>2. Good(F[q + 1], q + 1)
        <4> HIDE DEF Good, F
        <4>1. QED
          BY <1>4, <3>1
      <3> HIDE DEF F
      <3>3. Good(F[p + 1], q + 1)
        BY <3>1, <2>1 DEF Below
      <3>4. F[p + 1][q] = F[q + 1][q]
        <4> DEFINE x == F[p + 1]
                   y == F[q + 1]
        <4>1. Good(x, q + 1) /\ Good(y, q + 1)
          BY <3>2, <3>3
        <4> HIDE DEF x, y
        <4>2. \A k \in Nat : Good(x, k) /\ Good(y, k) => \A r \in Nat : r < k => x[r] = y[r]
          BY AgreeBelow
        <4> HIDE DEF Good
        <4>3. x[q] = y[q]
          BY <4>1, <4>2, <3>1
        <4>4. QED
          BY <4>3 DEF x, y
      <3>5. h[q] = F[q + 1][q]
        BY <3>1
      <3>6. QED
        BY <3>4, <3>5 DEF q
    <2>4. h[p] = F[p + 1][p]
      OBVIOUS
    <2> HIDE DEF h, F
    <2>5. QED
      BY <2>2, <2>3, <2>4
  <1> HIDE DEF h
  <1>7. QED
    BY <1>5, <1>6 DEF Equation

\* The values of a recursion along 0 .. n.
Along(f, n, first, step) ==
  /\ f = [i \in 0 .. n |-> f[i]] /\ f[0] = first
  /\ \A i \in 1 .. n : f[i] = step[i][f[i - 1]]

LEMMA PrefixRecursion ==
  ASSUME NEW n \in Nat, NEW V, NEW first \in V, NEW step \in [1 .. n -> [V -> V]]
  PROVE  \E f \in [0 .. n -> V] : Along(f, n, first, step)
  <1> DEFINE next == [p \in Nat |-> IF p = 0 THEN 0 ELSE p - 1]
             last == [p \in Nat |-> first]
             on   == [p \in Nat |-> IF p \in 1 .. n THEN step[p] ELSE [v \in V |-> v]]
  <1>1. Backwards(V, next, last, on, {0})
    BY DEF Backwards
  <1>2. PICK f \in [Nat -> V] : Equation(f, next, last, on, {0})
    <2> HIDE DEF next, last, on
    <2>1. QED
      BY <1>1, BackwardRecursion
  <1> DEFINE g == [i \in 0 .. n |-> f[i]]
  <1>3. f[0] = first
    <2>1. f[0] = last[0]
      <3> HIDE DEF last, next, on
      <3>1. QED
        BY <1>2 DEF Equation
    <2>2. QED
      BY <2>1
  <1>4. ASSUME NEW i \in 1 .. n PROVE f[i] = step[i][f[i - 1]]
    <2>1. f[i] = on[i][f[next[i]]]
      <3> HIDE DEF last, next, on
      <3>1. QED
        BY <1>2 DEF Equation
    <2>2. on[i] = step[i] /\ next[i] = i - 1
      OBVIOUS
    <2> HIDE DEF on, next
    <2>3. QED
      BY <2>1, <2>2
  <1>5. g \in [0 .. n -> V] /\ g[0] = first /\ \A i \in 1 .. n : g[i] = step[i][g[i - 1]]
    BY <1>3, <1>4
  <1> HIDE DEF g
  <1>6. QED
    BY <1>5 DEF Along

\* Induction along 0 .. n, for values that are in a set of their own at every number.
LEMMA FamilyInduction ==
  ASSUME NEW n \in Nat, NEW W, NEW p, p[0] \in W[0],
         \A i \in 1 .. n : p[i - 1] \in W[i - 1] => p[i] \in W[i]
  PROVE  \A i \in 0 .. n : p[i] \in W[i]
  <1> DEFINE S == {i \in Nat : i <= n => p[i] \in W[i]}
  <1>1. 0 \in S
    OBVIOUS
  <1>2. ASSUME NEW i \in Nat, i \in S PROVE i + 1 \in S
    <2>1. ASSUME i + 1 <= n PROVE p[i + 1] \in W[i + 1]
      <3> DEFINE j == i + 1
      <3>1. j \in 1 .. n /\ j - 1 = i
        BY <2>1
      <3> HIDE DEF j
      <3>2. p[j - 1] \in W[j - 1]
        BY <2>1, <3>1, <1>2
      <3>3. QED
        BY <3>1, <3>2 DEF j
    <2>2. QED
      BY <2>1
  <1>3. Nat \subseteq S
    <2> HIDE DEF S
    <2>1. QED
      BY <1>1, <1>2, SetInduction
  <1>4. QED
    BY <1>3

\* The same where the values after i steps are in a set of their own.
LEMMA FamilyRecursion ==
  ASSUME NEW n \in Nat, NEW W, NEW first \in W[0], NEW step,
         \A i \in 1 .. n : step[i] \in [W[i - 1] -> W[i]]
  PROVE  \E f : Along(f, n, first, step) /\ \A i \in 0 .. n : f[i] \in W[i]
  <1> DEFINE V  == UNION {W[i] : i \in 0 .. n}
             on == [i \in 1 .. n |-> [v \in V |-> IF v \in W[i - 1] THEN step[i][v] ELSE first]]
  <1>1. first \in V /\ \A i \in 0 .. n : W[i] \subseteq V
    OBVIOUS
  <1>2. on \in [1 .. n -> [V -> V]]
    <2>1. ASSUME NEW i \in 1 .. n, NEW v \in V
          PROVE  (IF v \in W[i - 1] THEN step[i][v] ELSE first) \in V
      <3>1. CASE v \in W[i - 1]
        <4>1. step[i][v] \in W[i]
          BY <3>1
        <4> HIDE DEF V
        <4>2. QED
          BY <3>1, <4>1, <1>1
      <3>2. QED
        BY <3>1, <1>1
    <2> HIDE DEF V
    <2>2. QED
      BY <2>1
  <1>3. PICK f : f \in [0 .. n -> V] /\ Along(f, n, first, on)
    <2> HIDE DEF V, on
    <2>1. QED
      BY <1>1, <1>2, PrefixRecursion
  <1>4. ASSUME NEW i \in 1 .. n, f[i - 1] \in W[i - 1] PROVE f[i] = step[i][f[i - 1]]
    <2>1. f[i - 1] \in V
      <3>1. i - 1 \in 0 .. n
        OBVIOUS
      <3> HIDE DEF V, on
      <3>2. QED
        BY <3>1, <1>3
    <2>2. on[i][f[i - 1]] = step[i][f[i - 1]]
      <3> HIDE DEF V
      <3>1. QED
        BY <2>1, <1>4
    <2> HIDE DEF V, on
    <2>3. QED
      BY <2>2, <1>3 DEF Along
  <1>5. f[0] \in W[0]
    <2> HIDE DEF V, on
    <2>1. QED
      BY <1>3 DEF Along
  <1>6. \A i \in 1 .. n : f[i - 1] \in W[i - 1] => f[i] \in W[i]
    <2> HIDE DEF V, on
    <2>1. QED
      BY <1>4
  <1>7. \A i \in 0 .. n : f[i] \in W[i]
    <2> HIDE DEF V, on
    <2>1. QED
      BY <1>5, <1>6, FamilyInduction
  <1>8. Along(f, n, first, step)
    <2>1. f = [i \in 0 .. n |-> f[i]] /\ f[0] = first
      <3> HIDE DEF V, on
      <3>1. QED
        BY <1>3 DEF Along
    <2>2. \A i \in 1 .. n : f[i] = step[i][f[i - 1]]
      BY <1>4, <1>7
    <2>3. QED
      BY <2>1, <2>2 DEF Along
  <1>9. QED
    BY <1>7, <1>8

--------------------------------------------------------------------------------
(* Division.                                                                    *)

LEMMA Division ==
  ASSUME NEW m \in Nat, m > 0, NEW a \in Int
  PROVE  a \div m \in Int /\ a % m \in 0 .. m - 1 /\ a = (a \div m) * m + (a % m)
  OBVIOUS

\* A number has one quotient and one remainder.
LEMMA DivisionIsUnique ==
  ASSUME NEW m \in Nat, m > 0, NEW q \in Int, NEW r \in 0 .. m - 1
  PROVE  (q * m + r) \div m = q /\ (q * m + r) % m = r
  <1> DEFINE a == q * m + r
             d == a \div m
             e == a % m
  <1>1. a \in Int /\ d \in Int /\ e \in 0 .. m - 1 /\ a = d * m + e
    BY Division
  <1>2. a = q * m + r
    OBVIOUS
  <1> HIDE DEF a, d, e
  <1>3. (q - d) * m = e - r
    BY <1>1, <1>2
  <1>4. q = d
    <2>1. CASE q >= d + 1
      <3>1. (q - d) * m >= m
        BY <2>1, <1>1
      <3>2. QED
        BY <3>1, <1>3, <1>1
    <2>2. CASE d >= q + 1
      <3>1. (d - q) * m >= m
        BY <2>2, <1>1
      <3>2. (q - d) * m = -((d - q) * m)
        BY <1>1
      <3>3. QED
        BY <3>1, <3>2, <1>3, <1>1
    <2>3. QED
      BY <2>1, <2>2, <1>1
  <1>5. QED
    BY <1>1, <1>2, <1>3, <1>4 DEF d, e, a

LEMMA SmallRemainder ==
  ASSUME NEW m \in Nat, m > 0, NEW v \in 0 .. m - 1
  PROVE  v % m = v /\ v \div m = 0
  <1>1. v = 0 * m + v
    OBVIOUS
  <1>2. QED
    BY <1>1, DivisionIsUnique
================================================================================
