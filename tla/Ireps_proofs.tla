------------------------------- MODULE Ireps_proofs ----------------------------
(* Proofs about Lines and Layout, for every number of values of a byte, every   *)
(* line table and every irep: the size passes of debug.rs and writer.rs count   *)
(* what is written, and the virtual machine finds the lines that were packed.   *)
(*                                                                              *)
(* Then about Ireps, for every client, every number of literals and symbols and *)
(* every depth of scopes: what is emitted, taken back, patched and shared is    *)
(* what the ireps say.                                                          *)
(*                                                                              *)
(* A scope is sound when its buffer, up to pc, is made of the instructions it   *)
(* was asked for, one after the other.  Sound ties the start of the last one to *)
(* lastpc, as a peephole takes it back by setting pc to it; it keeps the line   *)
(* table as long as the code, and says that no line is known for any byte while *)
(* the scope has none.  The finished ireps are in some set of ireps with what   *)
(* they were asked for that holds those nested in them as well.                 *)
EXTENDS Ireps, Induction, SequenceTheorems
LOCAL INSTANCE SequencesExt

LEMMA BaseType ==
  /\ Base \in Nat /\ Half \in Nat /\ Half >= 4 /\ Base = 2 * Half
  /\ Halfword \in Nat /\ Halfword > 0
  <1>1. Base \in Nat /\ Base >= 8 /\ Base % 2 = 0
    BY LinesAssumption
  <1>2. Half \in Nat /\ Half >= 4 /\ Base = 2 * Half
    BY <1>1 DEF Half
  <1>3. Base * Base >= Base
    BY <1>1
  <1>4. QED
    BY <1>1, <1>2, <1>3 DEF Halfword

--------------------------------------------------------------------------------
(* Packed numbers.                                                              *)

LEMMA Digits ==
  ASSUME NEW n \in Nat
  PROVE  /\ n \div Half \in Nat /\ n % Half \in 0 .. Half - 1
         /\ n = (n \div Half) * Half + (n % Half)
         /\ n >= Half => n \div Half < n
  <1> DEFINE d == n \div Half
             r == n % Half
  <1>1. d \in Int /\ r \in 0 .. Half - 1 /\ n = d * Half + r
    BY BaseType, Division
  <1> HIDE DEF d, r
  <1>2. d >= 0
    <2>1. CASE d <= -1
      <3>1. d * Half <= -Half
        BY <2>1, <1>1, BaseType
      <3>2. QED
        BY <3>1, <1>1, BaseType
    <2>2. QED
      BY <2>1, <1>1
  <1>3. ASSUME n >= Half PROVE d < n
    <2>1. d * Half >= d * 2
      BY <1>1, <1>2, BaseType
    <2>2. QED
      BY <2>1, <1>1, <1>2, <1>3, BaseType
  <1>4. QED
    BY <1>1, <1>2, <1>3 DEF d, r

LEMMA PackedIntEquation ==
  /\ PackedInt \in [Nat -> Seq(Nat)]
  /\ \A n \in Nat :
       PackedInt[n] = IF n < Half THEN <<n>> ELSE <<Half + (n % Half)>> \o PackedInt[n \div Half]
  <1> DEFINE V    == Seq(Nat)
             next == [n \in Nat |-> n \div Half]
             last == [n \in Nat |-> <<n>>]
             step == [n \in Nat |-> [v \in V |-> <<Half + (n % Half)>> \o v]]
             ends == 0 .. Half - 1
             Eq(f) == f = [n \in Nat |-> IF n < Half THEN <<n>>
                                         ELSE <<Half + (n % Half)>> \o f[n \div Half]]
  <1>1. \A n \in Nat : n \div Half \in Nat /\ Half + (n % Half) \in Nat /\ (n >= Half => n \div Half < n)
    BY Digits, BaseType
  <1>2. \A n \in Nat : <<n>> \in V
    OBVIOUS
  <1>3. \A n \in Nat, v \in V : <<Half + (n % Half)>> \o v \in V
    <2>1. ASSUME NEW n \in Nat, NEW v \in V PROVE <<Half + (n % Half)>> \o v \in V
      <3> DEFINE b == Half + (n % Half)
      <3>1. b \in Nat
        BY <1>1
      <3> HIDE DEF b
      <3>2. <<b>> \o v \in V
        BY <3>1
      <3>3. QED
        BY <3>2 DEF b
    <2>2. QED
      BY <2>1
  <1>4. Backwards(V, next, last, step, ends)
    <2>1. next \in [Nat -> Nat]
      BY <1>1
    <2>2. last \in [Nat -> V]
      BY <1>2
    <2>3. step \in [Nat -> [V -> V]]
      <3> HIDE DEF V
      <3>1. QED
        BY <1>3
    <2>4. \A p \in Nat \ ends : next[p] < p
      BY <1>1, BaseType
    <2> HIDE DEF V, next, last, step, ends
    <2>5. QED
      BY <2>1, <2>2, <2>3, <2>4 DEF Backwards
  <1>5. PICK f \in [Nat -> V] : Equation(f, next, last, step, ends)
    <2> HIDE DEF V, next, last, step, ends
    <2>1. QED
      BY <1>4, BackwardRecursion
  <1>6. \A n \in Nat : f[n] = IF n < Half THEN <<n>> ELSE <<Half + (n % Half)>> \o f[n \div Half]
    <2>1. TAKE n \in Nat
    <2>2. f[n] = IF n \in ends THEN last[n] ELSE step[n][f[next[n]]]
      <3> HIDE DEF V, next, last, step, ends
      <3>1. QED
        BY <1>5 DEF Equation
    <2>3. f[next[n]] \in V
      BY <1>1
    <2>4. step[n][f[next[n]]] = <<Half + (n % Half)>> \o f[n \div Half]
      <3> HIDE DEF V
      <3>1. QED
        BY <2>3
    <2>5. n \in ends <=> n < Half
      BY BaseType
    <2>6. QED
      BY <2>2, <2>4, <2>5
  <1>7. Eq(f)
    <2> HIDE DEF V
    <2>1. f = [n \in Nat |-> f[n]]
      OBVIOUS
    <2>2. QED
      BY <2>1, <1>6, Zenon
  <1> DEFINE g == CHOOSE h : Eq(h)
  <1>8. Eq(g)
    BY <1>7, Zenon
  <1>9. PackedInt = g
    BY Zenon DEF PackedInt
  <1> HIDE DEF g
  <1>10. \A n \in Nat : PackedInt[n] = IF n < Half THEN <<n>> ELSE <<Half + (n % Half)>> \o PackedInt[n \div Half]
    BY <1>8, <1>9, Zenon
  <1>11. PackedInt = [n \in Nat |-> PackedInt[n]]
    BY <1>8, <1>9
  <1> DEFINE T == {n \in Nat : PackedInt[n] \in Seq(Nat)}
  <1>12. ASSUME NEW n \in Nat, \A m \in Nat : m < n => m \in T PROVE n \in T
    <2>1. CASE n < Half
      <3>1. PackedInt[n] = <<n>>
        BY <1>10, <2>1
      <3>2. PackedInt[n] \in Seq(Nat)
        BY <3>1, <1>2
      <3>3. QED
        BY <3>2
    <2>2. CASE ~(n < Half)
      <3>1. n \div Half \in T
        <4>1. n \div Half \in Nat /\ n \div Half < n
          BY <1>1, <2>2, BaseType
        <4> HIDE DEF T
        <4>2. QED
          BY <4>1, <1>12
      <3>2. PackedInt[n] = <<Half + (n % Half)>> \o PackedInt[n \div Half]
        BY <1>10, <2>2
      <3>3. QED
        BY <3>1, <3>2, <1>3
    <2>3. QED
      BY <2>1, <2>2
  <1>13. Nat \subseteq T
    <2> HIDE DEF T
    <2>1. QED
      BY <1>12, StrongSetInduction
  <1>14. PackedInt \in [Nat -> Seq(Nat)]
    BY <1>11, <1>13
  <1>15. QED
    BY <1>10, <1>14

LEMMA PackedIntLenEquation ==
  /\ PackedIntLen \in [Nat -> Nat]
  /\ \A n \in Nat : PackedIntLen[n] = IF n < Half THEN 1 ELSE 1 + PackedIntLen[n \div Half]
  <1> DEFINE next == [n \in Nat |-> n \div Half]
             last == [n \in Nat |-> 1]
             step == [n \in Nat |-> [v \in Nat |-> 1 + v]]
             ends == 0 .. Half - 1
             Eq(f) == f = [n \in Nat |-> IF n < Half THEN 1 ELSE 1 + f[n \div Half]]
  <1>1. \A n \in Nat : n \div Half \in Nat /\ (n >= Half => n \div Half < n)
    BY Digits
  <1>2. Backwards(Nat, next, last, step, ends)
    BY <1>1, BaseType DEF Backwards
  <1>3. PICK f \in [Nat -> Nat] : Equation(f, next, last, step, ends)
    <2> HIDE DEF next, last, step, ends
    <2>1. QED
      BY <1>2, BackwardRecursion
  <1>4. \A n \in Nat : f[n] = IF n < Half THEN 1 ELSE 1 + f[n \div Half]
    <2>1. TAKE n \in Nat
    <2>2. f[n] = IF n \in ends THEN last[n] ELSE step[n][f[next[n]]]
      <3> HIDE DEF next, last, step, ends
      <3>1. QED
        BY <1>3 DEF Equation
    <2>3. CASE n < Half
      BY <2>2, <2>3, BaseType
    <2>4. CASE ~(n < Half)
      <3>1. n \notin ends
        BY <2>4, BaseType
      <3>2. next[n] = n \div Half /\ f[next[n]] \in Nat
        BY <1>1
      <3>3. step[n][f[next[n]]] = 1 + f[next[n]]
        BY <3>2
      <3>4. QED
        BY <2>2, <2>4, <3>1, <3>2, <3>3
    <2>5. QED
      BY <2>3, <2>4
  <1>5. Eq(f)
    <2>1. f = [n \in Nat |-> f[n]]
      OBVIOUS
    <2>2. QED
      BY <2>1, <1>4, Zenon
  <1> DEFINE g == CHOOSE h : Eq(h)
  <1>6. Eq(g)
    BY <1>5, Zenon
  <1>7. PackedIntLen = g
    BY Zenon DEF PackedIntLen
  <1> HIDE DEF g
  <1>8. /\ PackedIntLen = [n \in Nat |-> PackedIntLen[n]]
        /\ \A n \in Nat : PackedIntLen[n] = IF n < Half THEN 1 ELSE 1 + PackedIntLen[n \div Half]
    BY <1>6, <1>7
  <1> DEFINE T == {n \in Nat : PackedIntLen[n] \in Nat}
  <1>9. ASSUME NEW n \in Nat, \A m \in Nat : m < n => m \in T PROVE n \in T
    <2>1. CASE n < Half
      BY <2>1, <1>8
    <2>2. CASE ~(n < Half)
      <3> DEFINE d == n \div Half
      <3>1. d \in Nat /\ d < n
        BY <1>1, <2>2, BaseType
      <3>2. PackedIntLen[n] = 1 + PackedIntLen[d]
        BY <2>2, <1>8
      <3> HIDE DEF d
      <3>3. d \in T
        BY <3>1, <1>9
      <3>4. QED
        BY <3>2, <3>3
    <2>3. QED
      BY <2>1, <2>2
  <1>10. Nat \subseteq T
    <2> HIDE DEF T
    <2>1. QED
      BY <1>9, StrongSetInduction
  <1>11. QED
    BY <1>8, <1>10

\* packed_int_len counts the bytes of packed_int_encode.
LEMMA PackedIntFits ==
  ASSUME NEW n \in Nat
  PROVE  PackedInt[n] \in Seq(Nat) /\ Len(PackedInt[n]) = PackedIntLen[n] /\ PackedIntLen[n] >= 1
  <1> DEFINE T == {m \in Nat : Len(PackedInt[m]) = PackedIntLen[m] /\ PackedIntLen[m] >= 1}
  <1>1. ASSUME NEW m \in Nat, \A k \in Nat : k < m => k \in T PROVE m \in T
    <2>1. CASE m < Half
      <3>1. PackedInt[m] = <<m>>
        BY <2>1, PackedIntEquation
      <3>2. PackedIntLen[m] = 1
        BY <2>1, PackedIntLenEquation
      <3>3. Len(PackedInt[m]) = 1
        BY <3>1
      <3>4. PackedIntLen[m] >= 1
        BY <3>2
      <3>5. QED
        BY <3>2, <3>3, <3>4, Zenon
    <2>2. CASE ~(m < Half)
      <3> DEFINE d == m \div Half
                 b == Half + (m % Half)
      <3>1. d \in T /\ b \in Nat
        <4>1. d \in Nat /\ d < m /\ b \in Nat
          BY <2>2, BaseType, Digits
        <4> HIDE DEF d, T
        <4>2. QED
          BY <4>1, <1>1
      <3>2. PackedInt[m] = <<b>> \o PackedInt[d] /\ PackedIntLen[m] = 1 + PackedIntLen[d]
        BY <2>2, PackedIntEquation, PackedIntLenEquation
      <3> HIDE DEF d, b
      <3>3. PackedInt[d] \in Seq(Nat)
        BY <3>1, PackedIntEquation
      <3>4. Len(<<b>> \o PackedInt[d]) = 1 + Len(PackedInt[d])
        BY <3>1, <3>3
      <3>5. QED
        BY <3>1, <3>2, <3>3, <3>4
    <2>3. QED
      BY <2>1, <2>2
  <1>2. Nat \subseteq T
    <2> HIDE DEF T
    <2>1. QED
      BY <1>1, StrongSetInduction
  <1>3. QED
    BY <1>2, PackedIntEquation

--------------------------------------------------------------------------------
(* The two passes.                                                              *)

LineTable == Seq(0 .. Halfword - 1)

\* A difference that wraps, added again, wraps back.
LEMMA WrapsBack ==
  ASSUME NEW m \in Nat, m > 0, NEW a \in 0 .. m - 1, NEW b \in 0 .. m - 1
  PROVE  (b - a) % m \in Nat /\ (a + ((b - a) % m)) % m = b
  <1>1. CASE b >= a
    <2>1. (b - a) % m = b - a
      BY <1>1, SmallRemainder
    <2>2. a + (b - a) = b /\ b % m = b
      BY SmallRemainder
    <2>3. QED
      BY <1>1, <2>1, <2>2
  <1>2. CASE b < a
    <2> DEFINE c == b - a + m
    <2>1. c \in 0 .. m - 1 /\ b - a = (-1) * m + c
      BY <1>2
    <2> HIDE DEF c
    <2>2. (b - a) % m = c
      BY <2>1, DivisionIsUnique
    <2>3. a + c = 1 * m + b
      BY <2>1
    <2>4. (1 * m + b) % m = b
      BY DivisionIsUnique
    <2>5. QED
      BY <2>1, <2>2, <2>3, <2>4
  <1>3. QED
    BY <1>1, <1>2

LEMMA LineDeltaType ==
  ASSUME NEW lines \in LineTable, NEW i \in 1 .. Len(lines)
  PROVE  /\ lines[i] \in 0 .. Halfword - 1 /\ Before(lines, i) \in 0 .. Halfword - 1
         /\ LineDelta(lines, i) \in Nat
         /\ (Before(lines, i) + LineDelta(lines, i)) % Halfword = lines[i]
  <1> DEFINE a == Before(lines, i)
             b == lines[i]
             d == (b - a) % Halfword
  <1>1. \A j \in 1 .. Len(lines) : lines[j] \in 0 .. Halfword - 1
    BY ElementOfSeq DEF LineTable
  <1>2. a \in 0 .. Halfword - 1
    <2>1. CASE i = 1
      BY <2>1, BaseType DEF Before
    <2>2. CASE i # 1
      <3>1. i - 1 \in 1 .. Len(lines)
        <4>1. Len(lines) \in Nat
          BY DEF LineTable
        <4>2. QED
          BY <2>2, <4>1
      <3>2. lines[i - 1] \in 0 .. Halfword - 1
        BY <3>1, <1>1
      <3>3. QED
        BY <2>2, <3>2 DEF Before
    <2>3. QED
      BY <2>1, <2>2
  <1>3. LineDelta(lines, i) = d
    BY DEF LineDelta
  <1>4. (a + d) % Halfword = b /\ d \in Nat
    <2>1. b \in 0 .. Halfword - 1
      BY <1>1
    <2> HIDE DEF a, b
    <2>2. QED
      BY <2>1, <1>2, BaseType, WrapsBack
  <1>5. b \in 0 .. Halfword - 1
    BY <1>1
  <1> HIDE DEF d
  <1>6. QED
    BY <1>2, <1>3, <1>4, <1>5

\* What the passes may hold after i lines.
PackStates(start, i)  == [out : Seq(Nat), pc : 0 .. start + i]
CountStates(start, i) == [size : Nat, pc : 0 .. start + i]

LEMMA PackStepType ==
  ASSUME NEW start \in Nat, NEW lines \in LineTable, NEW i \in 1 .. Len(lines),
         NEW so \in PackStates(start, i - 1)
  PROVE  PackStep(start, lines, i, so) \in PackStates(start, i)
  <1> DEFINE pc == start + i - 1
             p  == PackedInt[pc - so.pc]
             q  == PackedInt[LineDelta(lines, i)]
  <1>1. so.out \in Seq(Nat) /\ so.pc \in 0 .. pc /\ pc \in 0 .. start + i
    BY DEF PackStates
  <1>2. p \in Seq(Nat) /\ q \in Seq(Nat)
    <2>1. pc - so.pc \in Nat /\ LineDelta(lines, i) \in Nat
      BY <1>1, LineDeltaType
    <2> HIDE DEF pc
    <2>2. QED
      BY <2>1, PackedIntEquation
  <1>3. CASE lines[i] = Before(lines, i)
    <2>1. PackStep(start, lines, i, so) = so
      BY <1>3 DEF PackStep
    <2>2. QED
      BY <2>1 DEF PackStates
  <1>4. CASE lines[i] # Before(lines, i)
    <2>1. PackStep(start, lines, i, so) = [out |-> so.out \o p \o q, pc |-> pc]
      BY <1>4 DEF PackStep
    <2> HIDE DEF p, q, pc
    <2>2. so.out \o p \o q \in Seq(Nat)
      BY <1>1, <1>2
    <2>3. QED
      BY <2>1, <2>2, <1>1 DEF PackStates
  <1>5. QED
    BY <1>3, <1>4

LEMMA CountStepType ==
  ASSUME NEW start \in Nat, NEW lines \in LineTable, NEW i \in 1 .. Len(lines),
         NEW so \in CountStates(start, i - 1)
  PROVE  CountStep(start, lines, i, so) \in CountStates(start, i)
  <1> DEFINE pc == start + i - 1
             p  == PackedIntLen[pc - so.pc]
             q  == PackedIntLen[LineDelta(lines, i)]
  <1>1. so.size \in Nat /\ so.pc \in 0 .. pc /\ pc \in 0 .. start + i
    BY DEF CountStates
  <1>2. p \in Nat /\ q \in Nat
    <2>1. pc - so.pc \in Nat /\ LineDelta(lines, i) \in Nat
      BY <1>1, LineDeltaType
    <2> HIDE DEF pc
    <2>2. QED
      BY <2>1, PackedIntLenEquation
  <1>3. CASE lines[i] = Before(lines, i)
    <2>1. CountStep(start, lines, i, so) = so
      BY <1>3 DEF CountStep
    <2>2. QED
      BY <2>1 DEF CountStates
  <1>4. CASE lines[i] # Before(lines, i)
    <2>1. CountStep(start, lines, i, so) = [size |-> so.size + p + q, pc |-> pc]
      BY <1>4 DEF CountStep
    <2> HIDE DEF p, q, pc
    <2>2. QED
      BY <2>1, <1>1, <1>2 DEF CountStates
  <1>5. QED
    BY <1>3, <1>4

LEMMA PackedEquation ==
  ASSUME NEW start \in Nat, NEW lines \in LineTable
  PROVE  /\ Packed(start, lines)[0] = [out |-> <<>>, pc |-> 0]
         /\ \A i \in 1 .. Len(lines) :
              Packed(start, lines)[i] = PackStep(start, lines, i, Packed(start, lines)[i - 1])
         /\ \A i \in 0 .. Len(lines) : Packed(start, lines)[i] \in PackStates(start, i)
  <1> DEFINE n     == Len(lines)
             first == [out |-> <<>>, pc |-> 0]
             W     == [i \in Nat |-> PackStates(start, i)]
             step  == [i \in 1 .. n |-> [so \in W[i - 1] |-> PackStep(start, lines, i, so)]]
             Eq(f) == f = [i \in 0 .. n |-> IF i = 0 THEN first ELSE PackStep(start, lines, i, f[i - 1])]
  <1>1. n \in Nat
    BY DEF LineTable
  <1>2. first \in W[0]
    BY DEF PackStates
  <1>3. \A i \in 1 .. n : step[i] \in [W[i - 1] -> W[i]]
    <2>1. ASSUME NEW i \in 1 .. n, NEW so \in W[i - 1]
          PROVE  PackStep(start, lines, i, so) \in W[i]
      BY <2>1, PackStepType
    <2> HIDE DEF W, n
    <2>2. QED
      BY <2>1
  <1>4. PICK f : Along(f, n, first, step) /\ \A i \in 0 .. n : f[i] \in W[i]
    <2> HIDE DEF n, first, W, step
    <2>1. QED
      BY <1>1, <1>2, <1>3, FamilyRecursion
  <1>5. f[0] = first /\ DOMAIN f = 0 .. n
    <2> HIDE DEF n, first, W, step
    <2>1. QED
      BY <1>4 DEF Along
  <1>6. ASSUME NEW i \in 1 .. n PROVE f[i] = PackStep(start, lines, i, f[i - 1])
    <2>1. f[i - 1] \in W[i - 1] /\ i - 1 \in 0 .. n
      <3>1. i - 1 \in 0 .. n
        BY <1>1
      <3> HIDE DEF n, W, step, first
      <3>2. QED
        BY <3>1, <1>4
    <2>2. f[i] = step[i][f[i - 1]]
      <3> HIDE DEF n, W, step, first
      <3>1. QED
        BY <1>4 DEF Along
    <2> HIDE DEF W, n, first
    <2>3. QED
      BY <2>1, <2>2
  <1>7. Eq(f)
    <2> HIDE DEF first, W, step
    <2>1. f = [i \in 0 .. n |-> f[i]]
      BY <1>4, Zenon DEF Along
    <2>2. \A i \in 0 .. n : f[i] = IF i = 0 THEN first ELSE PackStep(start, lines, i, f[i - 1])
      BY <1>1, <1>5, <1>6
    <2>3. QED
      BY <2>1, <2>2, Zenon
  <1> DEFINE g == CHOOSE h : Eq(h)
  <1>8. Eq(g)
    BY <1>7, Zenon
  <1>9. Packed(start, lines) = g
    BY Zenon DEF Packed
  <1> HIDE DEF g
  <1> DEFINE p == Packed(start, lines)
  <1>10. p[0] = first /\ \A i \in 1 .. n : p[i] = PackStep(start, lines, i, p[i - 1])
    <2> HIDE DEF first
    <2>1. \A i \in 0 .. n : p[i] = IF i = 0 THEN first ELSE PackStep(start, lines, i, p[i - 1])
      BY <1>8, <1>9, Zenon
    <2> HIDE DEF p, n
    <2>2. QED
      BY <2>1, <1>1
  <1>11. p[0] \in W[0] /\ \A i \in 1 .. n : p[i - 1] \in W[i - 1] => p[i] \in W[i]
    <2>1. ASSUME NEW i \in 1 .. n, p[i - 1] \in W[i - 1] PROVE p[i] \in W[i]
      <3>1. p[i - 1] \in PackStates(start, i - 1) /\ p[i] = PackStep(start, lines, i, p[i - 1])
        BY <2>1, <1>10
      <3> HIDE DEF p
      <3>2. p[i] \in PackStates(start, i)
        BY <3>1, PackStepType
      <3>3. QED
        BY <3>2
    <2> HIDE DEF p, W
    <2>2. QED
      BY <2>1, <1>2, <1>10
  <1>12. \A i \in 0 .. n : p[i] \in W[i]
    <2> HIDE DEF p, W, n
    <2>1. QED
      BY <1>1, <1>11, FamilyInduction
  <1>13. QED
    BY <1>10, <1>12

LEMMA CountedEquation ==
  ASSUME NEW start \in Nat, NEW lines \in LineTable
  PROVE  /\ Counted(start, lines)[0] = [size |-> 0, pc |-> 0]
         /\ \A i \in 1 .. Len(lines) :
              Counted(start, lines)[i] = CountStep(start, lines, i, Counted(start, lines)[i - 1])
         /\ \A i \in 0 .. Len(lines) : Counted(start, lines)[i] \in CountStates(start, i)
  <1> DEFINE n     == Len(lines)
             first == [size |-> 0, pc |-> 0]
             W     == [i \in Nat |-> CountStates(start, i)]
             step  == [i \in 1 .. n |-> [so \in W[i - 1] |-> CountStep(start, lines, i, so)]]
             Eq(f) == f = [i \in 0 .. n |-> IF i = 0 THEN first ELSE CountStep(start, lines, i, f[i - 1])]
  <1>1. n \in Nat
    BY DEF LineTable
  <1>2. first \in W[0]
    BY DEF CountStates
  <1>3. \A i \in 1 .. n : step[i] \in [W[i - 1] -> W[i]]
    <2>1. ASSUME NEW i \in 1 .. n, NEW so \in W[i - 1]
          PROVE  CountStep(start, lines, i, so) \in W[i]
      BY <2>1, CountStepType
    <2> HIDE DEF W, n
    <2>2. QED
      BY <2>1
  <1>4. PICK f : Along(f, n, first, step) /\ \A i \in 0 .. n : f[i] \in W[i]
    <2> HIDE DEF n, first, W, step
    <2>1. QED
      BY <1>1, <1>2, <1>3, FamilyRecursion
  <1>5. f[0] = first /\ DOMAIN f = 0 .. n
    <2> HIDE DEF n, first, W, step
    <2>1. QED
      BY <1>4 DEF Along
  <1>6. ASSUME NEW i \in 1 .. n PROVE f[i] = CountStep(start, lines, i, f[i - 1])
    <2>1. f[i - 1] \in W[i - 1] /\ i - 1 \in 0 .. n
      <3>1. i - 1 \in 0 .. n
        BY <1>1
      <3> HIDE DEF n, W, step, first
      <3>2. QED
        BY <3>1, <1>4
    <2>2. f[i] = step[i][f[i - 1]]
      <3> HIDE DEF n, W, step, first
      <3>1. QED
        BY <1>4 DEF Along
    <2> HIDE DEF W, n, first
    <2>3. QED
      BY <2>1, <2>2
  <1>7. Eq(f)
    <2> HIDE DEF first, W, step
    <2>1. f = [i \in 0 .. n |-> f[i]]
      BY <1>4, Zenon DEF Along
    <2>2. \A i \in 0 .. n : f[i] = IF i = 0 THEN first ELSE CountStep(start, lines, i, f[i - 1])
      BY <1>1, <1>5, <1>6
    <2>3. QED
      BY <2>1, <2>2, Zenon
  <1> DEFINE g == CHOOSE h : Eq(h)
  <1>8. Eq(g)
    BY <1>7, Zenon
  <1>9. Counted(start, lines) = g
    BY Zenon DEF Counted
  <1> HIDE DEF g
  <1> DEFINE p == Counted(start, lines)
  <1>10. p[0] = first /\ \A i \in 1 .. n : p[i] = CountStep(start, lines, i, p[i - 1])
    <2> HIDE DEF first
    <2>1. \A i \in 0 .. n : p[i] = IF i = 0 THEN first ELSE CountStep(start, lines, i, p[i - 1])
      BY <1>8, <1>9, Zenon
    <2> HIDE DEF p, n
    <2>2. QED
      BY <2>1, <1>1
  <1>11. p[0] \in W[0] /\ \A i \in 1 .. n : p[i - 1] \in W[i - 1] => p[i] \in W[i]
    <2>1. ASSUME NEW i \in 1 .. n, p[i - 1] \in W[i - 1] PROVE p[i] \in W[i]
      <3>1. p[i - 1] \in CountStates(start, i - 1) /\ p[i] = CountStep(start, lines, i, p[i - 1])
        BY <2>1, <1>10
      <3> HIDE DEF p
      <3>2. p[i] \in CountStates(start, i)
        BY <3>1, CountStepType
      <3>3. QED
        BY <3>2
    <2> HIDE DEF p, W
    <2>2. QED
      BY <2>1, <1>2, <1>10
  <1>12. \A i \in 0 .. n : p[i] \in W[i]
    <2> HIDE DEF p, W, n
    <2>1. QED
      BY <1>1, <1>11, FamilyInduction
  <1>13. QED
    BY <1>10, <1>12

\* The size the first pass counts is the length of what the second pass writes
\* (debug.rs pack_line_map, its debug assertion).
THEOREM LineMapsFit ==
  ASSUME NEW start \in Nat, NEW lines \in LineTable
  PROVE  Len(PackLineMap(start, lines)) = PackedSize(start, lines)
  <1> DEFINE n == Len(lines)
             P == Packed(start, lines)
             C == Counted(start, lines)
             p == [i \in 0 .. n |-> <<P[i], C[i]>>]
             W == [i \in 0 .. n |-> {z \in PackStates(start, i) \X CountStates(start, i) :
                                       Len(z[1].out) = z[2].size /\ z[1].pc = z[2].pc}]
  <1>1. n \in Nat
    BY DEF LineTable
  <1>2. /\ P[0] = [out |-> <<>>, pc |-> 0] /\ C[0] = [size |-> 0, pc |-> 0]
        /\ \A i \in 1 .. n : /\ P[i] = PackStep(start, lines, i, P[i - 1])
                             /\ C[i] = CountStep(start, lines, i, C[i - 1])
        /\ \A i \in 0 .. n : P[i] \in PackStates(start, i) /\ C[i] \in CountStates(start, i)
    BY PackedEquation, CountedEquation
  <1>3. p[0] \in W[0]
    <2> HIDE DEF P, C, n
    <2>1. p[0] = <<P[0], C[0]>> /\ 0 \in 0 .. n
      BY <1>1
    <2>2. Len(P[0].out) = C[0].size /\ P[0].pc = C[0].pc
      BY <1>2
    <2>3. QED
      BY <1>2, <2>1, <2>2
  <1>4. ASSUME NEW i \in 1 .. n, p[i - 1] \in W[i - 1] PROVE p[i] \in W[i]
    <2> DEFINE x == P[i - 1]
               y == C[i - 1]
    <2>1. i - 1 \in 0 .. n /\ i \in 0 .. n
      BY <1>1
    <2>2. x \in PackStates(start, i - 1) /\ y \in CountStates(start, i - 1)
      BY <1>2, <2>1
    <2>3. Len(x.out) = y.size /\ x.pc = y.pc
      BY <1>4, <2>1
    <2>4. P[i] = PackStep(start, lines, i, x) /\ C[i] = CountStep(start, lines, i, y)
      BY <1>2
    <2>5. Len(P[i].out) = C[i].size /\ P[i].pc = C[i].pc
      <3> HIDE DEF P, C, n, p, W, x, y
      <3>1. CASE lines[i] = Before(lines, i)
        BY <2>3, <2>4, <3>1 DEF PackStep, CountStep
      <3>2. CASE lines[i] # Before(lines, i)
        <4> DEFINE pc == start + i - 1
                   d  == pc - x.pc
                   l  == LineDelta(lines, i)
        <4>1. P[i] = [out |-> x.out \o PackedInt[d] \o PackedInt[l], pc |-> pc]
          BY <2>4, <3>2 DEF PackStep
        <4>2. C[i] = [size |-> y.size + PackedIntLen[d] + PackedIntLen[l], pc |-> pc]
          BY <2>3, <2>4, <3>2 DEF CountStep
        <4>3. d \in Nat /\ l \in Nat
          <5>1. l \in Nat
            BY LineDeltaType DEF n
          <5>2. QED
            BY <2>2, <5>1 DEF PackStates
        <4>4. x.out \in Seq(Nat)
          BY <2>2 DEF PackStates
        <4> HIDE DEF d, l, pc
        <4>5. /\ PackedInt[d] \in Seq(Nat) /\ Len(PackedInt[d]) = PackedIntLen[d]
              /\ PackedInt[l] \in Seq(Nat) /\ Len(PackedInt[l]) = PackedIntLen[l]
          BY <4>3, PackedIntFits
        <4> DEFINE o == x.out
                   u == PackedInt[d]
                   v == PackedInt[l]
        <4>6. Len(o \o u \o v) = Len(o) + Len(u) + Len(v)
          <5>1. o \in Seq(Nat) /\ u \in Seq(Nat) /\ v \in Seq(Nat)
            BY <4>4, <4>5
          <5> HIDE DEF o, u, v
          <5>2. o \o u \in Seq(Nat) /\ Len(o \o u) = Len(o) + Len(u)
            BY <5>1, ConcatProperties
          <5>3. Len((o \o u) \o v) = Len(o \o u) + Len(v)
            BY <5>1, <5>2, ConcatProperties
          <5>4. QED
            BY <5>1, <5>2, <5>3
        <4>7. P[i].out = o \o u \o v /\ P[i].pc = pc /\ C[i].pc = pc
          <5>1. P[i] = [out |-> o \o u \o v, pc |-> pc]
            BY <4>1, Zenon
          <5> HIDE DEF o, u, v
          <5>2. QED
            BY <5>1, <4>2
        <4>8. C[i].size = Len(o) + Len(u) + Len(v)
          BY <4>2, <4>5, <2>3
        <4> HIDE DEF o, u, v
        <4>9. QED
          BY <4>6, <4>7, <4>8
      <3>3. QED
        BY <3>1, <3>2
    <2> HIDE DEF P, C
    <2>6. QED
      BY <1>2, <2>1, <2>5
  <1>5. \A i \in 0 .. n : p[i] \in W[i]
    <2> HIDE DEF n, p, W
    <2>1. QED
      BY <1>1, <1>3, <1>4, FamilyInduction
  <1>6. Len(P[n].out) = C[n].size
    <2> HIDE DEF P, C, n
    <2>1. n \in 0 .. n
      BY <1>1
    <2>2. QED
      BY <1>5, <2>1
  <1>7. QED
    BY <1>6 DEF PackLineMap, PackedSize

--------------------------------------------------------------------------------
(* Reading.                                                                     *)

ScanStates == [pc : Nat, line : Nat, n : Nat, place : Nat, of : {"pc", "line"}]

LEMMA AdvanceType ==
  ASSUME NEW so \in ScanStates, NEW n \in Nat, NEW pos \in Nat
  PROVE  Advance(so, n, pos) \in ScanStates
  <1>1. (so.line + n) % Halfword \in Nat
    <2>1. so.line + n \in Nat
      BY DEF ScanStates
    <2> DEFINE a == so.line + n
    <2> HIDE DEF a
    <2>2. a \in Nat => a % Halfword \in Nat
      BY BaseType, Division
    <2>3. QED
      BY <2>1, <2>2 DEF a
  <1>2. CASE so.of = "pc"
    BY <1>2 DEF Advance, ScanState, ScanStates
  <1>3. CASE so.of = "line"
    BY <1>1, <1>3 DEF Advance, ScanState, ScanStates
  <1>4. QED
    BY <1>2, <1>3 DEF ScanStates

LEMMA ScanStepType ==
  ASSUME NEW packed \in Seq(Nat), NEW pos \in Nat, NEW i \in 1 .. Len(packed), NEW so \in ScanStates
  PROVE  ScanStep(packed, pos, i, so) \in ScanStates
  <1> DEFINE b == packed[i] % Half
             n == so.n + b * so.place
  <1>1. packed[i] \in Nat
    BY ElementOfSeq
  <1>2. b \in Nat
    BY <1>1, BaseType, Division
  <1>3. n \in Nat /\ so.place * Half \in Nat
    <2> HIDE DEF b
    <2>1. so.n \in Nat /\ so.place \in Nat
      BY DEF ScanStates
    <2>2. b * so.place \in Nat /\ so.place * Half \in Nat
      BY <2>1, <1>2, BaseType
    <2>3. QED
      BY <2>1, <2>2
  <1>4. CASE packed[i] < Half
    <2>1. ScanStep(packed, pos, i, so) = Advance(so, n, pos)
      BY <1>4 DEF ScanStep
    <2> HIDE DEF n
    <2>2. QED
      BY <2>1, <1>3, AdvanceType
  <1>5. CASE ~(packed[i] < Half)
    <2>1. ScanStep(packed, pos, i, so) = [so EXCEPT !.n = n, !.place = so.place * Half]
      BY <1>5 DEF ScanStep
    <2> HIDE DEF n
    <2>2. QED
      BY <2>1, <1>3 DEF ScanStates
  <1>6. QED
    BY <1>4, <1>5

LEMMA ScannedEquation ==
  ASSUME NEW packed \in Seq(Nat), NEW pos \in Nat
  PROVE  /\ Scanned(packed, pos)[0] = ScanState(0, 0, "pc")
         /\ \A i \in 1 .. Len(packed) :
              Scanned(packed, pos)[i] = ScanStep(packed, pos, i, Scanned(packed, pos)[i - 1])
         /\ \A i \in 0 .. Len(packed) : Scanned(packed, pos)[i] \in ScanStates
  <1> DEFINE n     == Len(packed)
             first == ScanState(0, 0, "pc")
             W     == [i \in Nat |-> ScanStates]
             step  == [i \in 1 .. n |-> [so \in W[i - 1] |-> ScanStep(packed, pos, i, so)]]
             Eq(f) == f = [i \in 0 .. n |-> IF i = 0 THEN first ELSE ScanStep(packed, pos, i, f[i - 1])]
  <1>1. n \in Nat
    OBVIOUS
  <1>2. first \in W[0]
    BY DEF ScanStates, ScanState
  <1>3. \A i \in 1 .. n : step[i] \in [W[i - 1] -> W[i]]
    <2>1. ASSUME NEW i \in 1 .. n, NEW so \in W[i - 1]
          PROVE  ScanStep(packed, pos, i, so) \in W[i]
      BY <2>1, ScanStepType
    <2> HIDE DEF W, n
    <2>2. QED
      BY <2>1
  <1>4. PICK f : Along(f, n, first, step) /\ \A i \in 0 .. n : f[i] \in W[i]
    <2> HIDE DEF n, first, W, step
    <2>1. QED
      BY <1>1, <1>2, <1>3, FamilyRecursion
  <1>5. f[0] = first /\ DOMAIN f = 0 .. n
    <2> HIDE DEF n, first, W, step
    <2>1. QED
      BY <1>4 DEF Along
  <1>6. ASSUME NEW i \in 1 .. n PROVE f[i] = ScanStep(packed, pos, i, f[i - 1])
    <2>1. f[i - 1] \in W[i - 1] /\ i - 1 \in 0 .. n
      <3>1. i - 1 \in 0 .. n
        BY <1>1
      <3> HIDE DEF n, W, step, first
      <3>2. QED
        BY <3>1, <1>4
    <2>2. f[i] = step[i][f[i - 1]]
      <3> HIDE DEF n, W, step, first
      <3>1. QED
        BY <1>4 DEF Along
    <2> HIDE DEF W, n, first
    <2>3. QED
      BY <2>1, <2>2
  <1>7. Eq(f)
    <2> HIDE DEF first, W, step
    <2>1. f = [i \in 0 .. n |-> f[i]]
      BY <1>4, Zenon DEF Along
    <2>2. \A i \in 0 .. n : f[i] = IF i = 0 THEN first ELSE ScanStep(packed, pos, i, f[i - 1])
      BY <1>1, <1>5, <1>6
    <2>3. QED
      BY <2>1, <2>2, Zenon
  <1> DEFINE g == CHOOSE h : Eq(h)
  <1>8. Eq(g)
    BY <1>7, Zenon
  <1>9. Scanned(packed, pos) = g
    BY Zenon DEF Scanned
  <1> HIDE DEF g
  <1> DEFINE p == Scanned(packed, pos)
  <1>10. p[0] = first /\ \A i \in 1 .. n : p[i] = ScanStep(packed, pos, i, p[i - 1])
    <2> HIDE DEF first
    <2>1. \A i \in 0 .. n : p[i] = IF i = 0 THEN first ELSE ScanStep(packed, pos, i, p[i - 1])
      BY <1>8, <1>9, Zenon
    <2> HIDE DEF p, n
    <2>2. QED
      BY <2>1, <1>1
  <1>11. p[0] \in W[0] /\ \A i \in 1 .. n : p[i - 1] \in W[i - 1] => p[i] \in W[i]
    <2>1. ASSUME NEW i \in 1 .. n, p[i - 1] \in W[i - 1] PROVE p[i] \in W[i]
      <3>1. p[i - 1] \in ScanStates /\ p[i] = ScanStep(packed, pos, i, p[i - 1])
        BY <2>1, <1>10
      <3> HIDE DEF p
      <3>2. p[i] \in ScanStates
        BY <3>1, ScanStepType
      <3>3. QED
        BY <3>2
    <2> HIDE DEF p, W
    <2>2. QED
      BY <2>1, <1>2, <1>10
  <1>12. \A i \in 0 .. n : p[i] \in W[i]
    <2> HIDE DEF p, W, n
    <2>1. QED
      BY <1>1, <1>11, FamilyInduction
  <1>13. QED
    BY <1>10, <1>12

\* The bytes of part stand behind the first j bytes.
Stands(bytes, j, part) ==
  j + Len(part) <= Len(bytes) /\ \A k \in 1 .. Len(part) : bytes[j + k] = part[k]

LEMMA JoinsThree ==
  ASSUME NEW a \in Seq(Nat), NEW b \in Seq(Nat), NEW c \in Seq(Nat)
  PROVE  (a \o b) \o c = a \o (b \o c)
  BY ConcatAssociative

\* What is read so far does not depend on what follows.
LEMMA PrefixScan ==
  ASSUME NEW a \in Seq(Nat), NEW b \in Seq(Nat), NEW pos \in Nat
  PROVE  Scanned(a \o b, pos)[Len(a)] = Scanned(a, pos)[Len(a)]
  <1> DEFINE n == Len(a)
             x == Scanned(a \o b, pos)
             y == Scanned(a, pos)
             W == [i \in 0 .. n |-> {y[i]}]
  <1>1. n \in Nat /\ a \o b \in Seq(Nat) /\ Len(a \o b) >= n /\ \A i \in 1 .. n : (a \o b)[i] = a[i]
    BY ConcatProperties
  <1>2. x[0] = y[0]
    BY <1>1, ScannedEquation
  <1>3. ASSUME NEW i \in 1 .. n, x[i - 1] = y[i - 1] PROVE x[i] = y[i]
    <2>1. x[i] = ScanStep(a \o b, pos, i, x[i - 1])
      <3> DEFINE ab == a \o b
      <3>1. ab \in Seq(Nat) /\ i \in 1 .. Len(ab)
        BY <1>1
      <3> HIDE DEF ab
      <3>2. Scanned(ab, pos)[i] = ScanStep(ab, pos, i, Scanned(ab, pos)[i - 1])
        BY <3>1, ScannedEquation
      <3>3. QED
        BY <3>2 DEF ab
    <2>2. y[i] = ScanStep(a, pos, i, y[i - 1])
      BY <1>1, ScannedEquation
    <2>3. (a \o b)[i] = a[i]
      BY <1>1
    <2> HIDE DEF x, y
    <2>4. QED
      BY <1>3, <2>1, <2>2, <2>3 DEF ScanStep
  <1> HIDE DEF x, y
  <1>4. n \in Nat
    BY <1>1
  <1> HIDE DEF n
  <1>5. x[0] \in W[0] /\ \A i \in 1 .. n : x[i - 1] \in W[i - 1] => x[i] \in W[i]
    <2>1. 0 \in 0 .. n /\ \A i \in 1 .. n : i \in 0 .. n /\ i - 1 \in 0 .. n
      BY <1>4
    <2>2. QED
      BY <1>2, <1>3, <2>1, Zenon
  <1>6. \A i \in 0 .. n : x[i] \in W[i]
    <2> HIDE DEF W
    <2>1. QED
      BY <1>4, <1>5, FamilyInduction
  <1>7. n \in 0 .. n
    BY <1>4
  <1>8. x[n] = y[n]
    BY <1>6, <1>7, Zenon
  <1>9. QED
    BY <1>8 DEF x, y, n

\* A packed number is read as the number, whatever is being read.
LEMMA ScanNumber ==
  ASSUME NEW bytes \in Seq(Nat), NEW pos \in Nat
  PROVE  \A n, j \in Nat :
           Stands(bytes, j, PackedInt[n]) =>
             Scanned(bytes, pos)[j + Len(PackedInt[n])]
               = Advance(Scanned(bytes, pos)[j],
                         Scanned(bytes, pos)[j].n + n * Scanned(bytes, pos)[j].place, pos)
  <1> DEFINE S == Scanned(bytes, pos)
             Reads(n, j) == Stands(bytes, j, PackedInt[n]) =>
                              S[j + Len(PackedInt[n])] = Advance(S[j], S[j].n + n * S[j].place, pos)
             T == {n \in Nat : \A j \in Nat : Reads(n, j)}
  <1>1. /\ \A i \in 1 .. Len(bytes) : S[i] = ScanStep(bytes, pos, i, S[i - 1])
        /\ \A i \in 0 .. Len(bytes) : S[i] \in ScanStates
    BY ScannedEquation
  <1> HIDE DEF S
  <1>2. ASSUME NEW n \in Nat, \A m \in Nat : m < n => m \in T, NEW j \in Nat,
               Stands(bytes, j, PackedInt[n])
        PROVE  S[j + Len(PackedInt[n])] = Advance(S[j], S[j].n + n * S[j].place, pos)
    <2> DEFINE so == S[j]
               p  == PackedInt[n]
    <2>1. p \in Seq(Nat) /\ Len(p) >= 1 /\ Len(p) \in Nat
      BY PackedIntFits, PackedIntLenEquation
    <2>2. j + 1 \in 1 .. Len(bytes) /\ j \in 0 .. Len(bytes) /\ bytes[j + 1] = p[1]
      <3>1. Len(bytes) \in Nat /\ j + Len(p) <= Len(bytes)
        BY <1>2 DEF Stands
      <3>2. 1 \in 1 .. Len(p)
        BY <2>1
      <3>3. bytes[j + 1] = p[1]
        BY <1>2, <3>2 DEF Stands
      <3> HIDE DEF p
      <3>4. QED
        BY <2>1, <3>1, <3>3
    <2>3. S[j + 1] = ScanStep(bytes, pos, j + 1, so) /\ so \in ScanStates
      <3> DEFINE i == j + 1
      <3>1. i - 1 = j
        OBVIOUS
      <3>2. S[i] = ScanStep(bytes, pos, i, S[i - 1])
        BY <2>2, <1>1
      <3>3. QED
        BY <3>1, <3>2, <2>2, <1>1
    <2>4. so.n \in Nat /\ so.place \in Nat
      BY <2>3 DEF ScanStates
    <2>5. CASE n < Half
      <3>1. p = <<n>>
        BY <2>5, PackedIntEquation
      <3>2. Len(p) = 1 /\ p[1] = n
        BY <3>1
      <3>3. bytes[j + 1] = n /\ n % Half = n
        BY <2>2, <2>5, <3>2, BaseType, SmallRemainder
      <3>4. ScanStep(bytes, pos, j + 1, so) = Advance(so, so.n + n * so.place, pos)
        BY <2>5, <3>3 DEF ScanStep
      <3> HIDE DEF so, p
      <3>5. QED
        BY <2>3, <3>2, <3>4 DEF p, so
    <2>6. CASE ~(n < Half)
      <3> DEFINE d == n \div Half
                 r == n % Half
                 q == PackedInt[d]
                 t == S[j + 1]
      <3>1. d \in Nat /\ r \in 0 .. Half - 1 /\ n = d * Half + r /\ d < n
        <4>1. n >= Half
          BY <2>6, BaseType
        <4>2. QED
          BY <4>1, Digits
      <3>2. p = <<Half + r>> \o q
        BY <2>6, PackedIntEquation
      <3>3. q \in Seq(Nat) /\ Len(q) \in Nat
        <4> HIDE DEF d
        <4>1. QED
          BY <3>1, PackedIntFits, PackedIntLenEquation
      <3> HIDE DEF d, r, q, p, so, t
      <3>4. Len(p) = 1 + Len(q) /\ p[1] = Half + r /\ \A k \in 1 .. Len(q) : p[k + 1] = q[k]
        <4> DEFINE b == Half + r
        <4>1. b \in Nat
          BY <3>1, BaseType
        <4> HIDE DEF b
        <4>2. p = <<b>> \o q
          BY <3>2 DEF b
        <4>3. QED
          BY <4>1, <4>2, <3>3 DEF b
      <3>5. Stands(bytes, j + 1, q)
        <4>1. j + Len(p) <= Len(bytes) /\ \A k \in 1 .. Len(p) : bytes[j + k] = p[k]
          BY <1>2 DEF Stands, p
        <4>2. ASSUME NEW k \in 1 .. Len(q) PROVE bytes[j + 1 + k] = q[k]
          <5>1. k + 1 \in 1 .. Len(p) /\ j + 1 + k = j + (k + 1)
            BY <3>3, <3>4
          <5>2. bytes[j + (k + 1)] = p[k + 1]
            BY <4>1, <5>1
          <5>3. QED
            BY <5>1, <5>2, <3>4
        <4>3. j + 1 + Len(q) <= Len(bytes)
          BY <4>1, <3>3, <3>4
        <4>4. QED
          BY <4>2, <4>3 DEF Stands
      <3>6. t = [so EXCEPT !.n = so.n + r * so.place, !.place = so.place * Half]
        <4>1. bytes[j + 1] = Half + r /\ (Half + r) % Half = r /\ ~(Half + r < Half)
          <5>1. Half + r = 1 * Half + r
            BY <3>1, BaseType
          <5>2. (1 * Half + r) % Half = r
            BY <3>1, BaseType, DivisionIsUnique
          <5>3. QED
            BY <5>1, <5>2, <2>2, <3>1, <3>4, BaseType
        <4> DEFINE b == Half + r
        <4>2. bytes[j + 1] = b /\ b % Half = r /\ ~(b < Half)
          BY <4>1
        <4> HIDE DEF b
        <4>3. t = ScanStep(bytes, pos, j + 1, so)
          BY <2>3 DEF t
        <4>4. QED
          BY <4>2, <4>3 DEF ScanStep
      <3>7. t.pc = so.pc /\ t.line = so.line /\ t.of = so.of
        BY <2>3, <3>6 DEF ScanStates
      <3>8. t.n + d * t.place = so.n + n * so.place
        <4>1. t.n = so.n + r * so.place /\ t.place = so.place * Half
          BY <2>3, <3>6 DEF ScanStates
        <4>2. n * so.place = (d * Half) * so.place + r * so.place
          BY <3>1, <2>4, BaseType
        <4>3. d * (so.place * Half) = (d * Half) * so.place
          BY <3>1, <2>4, BaseType
        <4> DEFINE x == r * so.place
                   y == (d * Half) * so.place
        <4>4. x \in Int /\ y \in Int
          BY <3>1, <2>4, BaseType
        <4>5. n * so.place = y + x /\ d * t.place = y /\ t.n = so.n + x
          BY <4>1, <4>2, <4>3
        <4> HIDE DEF x, y
        <4>6. QED
          BY <4>4, <4>5, <2>4
      <3>9. Reads(d, j + 1)
        <4>1. d \in T /\ j + 1 \in Nat
          <5> HIDE DEF T
          <5>1. QED
            BY <1>2, <3>1
        <4> HIDE DEF Reads
        <4>2. QED
          BY <4>1
      <3>10. S[j + 1 + Len(q)] = Advance(t, t.n + d * t.place, pos)
        BY <3>5, <3>9 DEF q, t
      <3>11. Advance(t, t.n + d * t.place, pos) = Advance(so, so.n + n * so.place, pos)
        BY <3>7, <3>8 DEF Advance
      <3>12. j + 1 + Len(q) = j + Len(p)
        BY <3>3, <3>4
      <3>13. QED
        BY <3>10, <3>11, <3>12 DEF p, so
    <2>7. QED
      BY <2>5, <2>6
  <1>3. ASSUME NEW n \in Nat, \A m \in Nat : m < n => m \in T PROVE n \in T
    <2>1. \A j \in Nat : Reads(n, j)
      <3> HIDE DEF T
      <3>1. QED
        BY <1>2, <1>3
    <2> HIDE DEF Reads
    <2>2. QED
      BY <2>1
  <1>4. Nat \subseteq T
    <2> HIDE DEF T
    <2>1. QED
      BY <1>3, StrongSetInduction
  <1>5. \A n, j \in Nat : Reads(n, j)
    <2> HIDE DEF Reads
    <2>1. QED
      BY <1>4
  <1>6. QED
    BY <1>5 DEF S

--------------------------------------------------------------------------------
(* The lines that were packed are read.                                         *)

\* The line of a position as far as the first i bytes say it.
LineOf(start, lines, i, pos) ==
  IF i = 0 THEN 0 ELSE IF pos - start < i THEN lines[pos - start + 1] ELSE lines[i]

LEMMA LineOfNext ==
  ASSUME NEW start \in Nat, NEW lines \in LineTable, NEW i \in 1 .. Len(lines),
         NEW pos \in Nat, pos >= start
  PROVE  /\ lines[i] = Before(lines, i) =>
              LineOf(start, lines, i, pos) = LineOf(start, lines, i - 1, pos)
         /\ LineOf(start, lines, i, pos) =
              IF pos < start + i - 1 THEN LineOf(start, lines, i - 1, pos)
              ELSE (LineOf(start, lines, i - 1, pos) + LineDelta(lines, i)) % Halfword
  <1>1. Len(lines) \in Nat /\ i \in Nat /\ i >= 1
    BY DEF LineTable
  <1>2. CASE pos < start + i - 1
    <2>1. i # 1 /\ pos - start < i - 1 /\ pos - start < i
      BY <1>1, <1>2
    <2>2. QED
      BY <1>1, <1>2, <2>1 DEF LineOf
  <1>3. CASE ~(pos < start + i - 1)
    <2>1. LineOf(start, lines, i - 1, pos) = Before(lines, i)
      <3>1. i # 1 => ~(pos - start < i - 1)
        BY <1>1, <1>3
      <3>2. QED
        BY <1>1, <3>1 DEF LineOf, Before
    <2>2. LineOf(start, lines, i, pos) = lines[i]
      <3>1. pos - start < i => pos - start + 1 = i
        BY <1>1, <1>3
      <3>2. QED
        BY <1>1, <3>1 DEF LineOf
    <2>3. QED
      BY <1>3, <2>1, <2>2, LineDeltaType
  <1>4. QED
    BY <1>2, <1>3

\* What the machine has after the bytes for the first i lines.
ReadSoFar(start, lines, pos, i) ==
  LET so == Packed(start, lines)[i] IN
    Scanned(so.out, pos)[Len(so.out)] = ScanState(so.pc, LineOf(start, lines, i, pos), "pc")

LEMMA ReadsOneMore ==
  ASSUME NEW start \in Nat, NEW lines \in LineTable, NEW i \in 1 .. Len(lines),
         NEW pos \in Nat, pos >= start, ReadSoFar(start, lines, pos, i - 1)
  PROVE  ReadSoFar(start, lines, pos, i)
  <1> DEFINE so == Packed(start, lines)[i - 1]
             o  == so.out
             pc == start + i - 1
             l1 == LineOf(start, lines, i - 1, pos)
             l2 == LineOf(start, lines, i, pos)
  <1>1. i - 1 \in 0 .. Len(lines) /\ Len(lines) \in Nat /\ i \in Nat
    BY DEF LineTable
  <1>2. Packed(start, lines)[i] = PackStep(start, lines, i, so)
    BY PackedEquation
  <1>3. so \in PackStates(start, i - 1)
    BY <1>1, PackedEquation
  <1>4. Scanned(o, pos)[Len(o)] = ScanState(so.pc, l1, "pc")
    BY DEF ReadSoFar
  <1>5. CASE lines[i] = Before(lines, i)
    <2>1. Packed(start, lines)[i] = so
      BY <1>2, <1>5 DEF PackStep
    <2>2. l2 = l1
      BY <1>5, LineOfNext
    <2>3. QED
      BY <1>4, <2>1, <2>2 DEF ReadSoFar
  <1>6. CASE lines[i] # Before(lines, i)
    <2> DEFINE d == pc - so.pc
               l == LineDelta(lines, i)
               u == PackedInt[d]
               v == PackedInt[l]
               w == o \o u \o v
    <2>1. Packed(start, lines)[i] = [out |-> w, pc |-> pc]
      BY <1>2, <1>6 DEF PackStep
    <2>2. d \in Nat /\ l \in Nat /\ so.pc \in Nat /\ so.pc + d = pc
      <3>1. l \in Nat
        BY LineDeltaType
      <3>2. QED
        BY <1>1, <1>3, <3>1 DEF PackStates
    <2>3. o \in Seq(Nat)
      BY <1>3 DEF PackStates
    <2>4. u \in Seq(Nat) /\ v \in Seq(Nat)
      <3> HIDE DEF d, l
      <3>1. QED
        BY <2>2, PackedIntFits
    <2> DEFINE S == Scanned(w, pos)
               j == Len(o)
               k == j + Len(u)
    <2>5. /\ w \in Seq(Nat) /\ Len(w) = k + Len(v) /\ j \in Nat /\ k \in Nat
          /\ Stands(w, j, u) /\ Stands(w, k, v) /\ w = o \o (u \o v)
      <3> HIDE DEF o, u, v
      <3>1. w \in Seq(Nat) /\ Len(w) = Len(o) + Len(u) + Len(v) /\ w = o \o (u \o v)
        <4>1. w = o \o (u \o v)
          <5>1. (o \o u) \o v = o \o (u \o v)
            BY <2>3, <2>4, JoinsThree, Zenon
          <5>2. w = (o \o u) \o v
            OBVIOUS
          <5> HIDE DEF w
          <5>3. QED
            BY <5>1, <5>2, Zenon
        <4>2. w \in Seq(Nat)
          BY <2>3, <2>4
        <4>3. Len(w) = Len(o) + Len(u) + Len(v)
          BY <2>3, <2>4
        <4>4. QED
          BY <4>1, <4>2, <4>3, Zenon
      <3>2. Len(o) \in Nat /\ Len(u) \in Nat /\ Len(v) \in Nat
        BY <2>3, <2>4
      <3>3. \A m \in 1 .. Len(u) : w[Len(o) + m] = u[m]
        BY <2>3, <2>4
      <3>4. \A m \in 1 .. Len(v) : w[Len(o) + Len(u) + m] = v[m]
        BY <2>3, <2>4
      <3> HIDE DEF w
      <3>5. j \in Nat /\ k \in Nat /\ Len(w) = k + Len(v) /\ j + Len(u) <= Len(w) /\ k + Len(v) <= Len(w)
        BY <3>1, <3>2
      <3>6. Stands(w, j, u)
        BY <3>3, <3>5 DEF Stands
      <3>7. Stands(w, k, v)
        BY <3>4, <3>5 DEF Stands
      <3>8. QED
        BY <3>1, <3>5, <3>6, <3>7
    <2>6. S[j] = ScanState(so.pc, l1, "pc")
      <3> DEFINE uv == u \o v
      <3> HIDE DEF w, o, u, v
      <3>1. uv \in Seq(Nat) /\ w = o \o uv
        <4>1. uv \in Seq(Nat)
          BY <2>4
        <4>2. QED
          BY <2>5, <4>1, Zenon
      <3> HIDE DEF uv
      <3>2. Scanned(o \o uv, pos)[Len(o)] = Scanned(o, pos)[Len(o)]
        BY <2>3, <3>1, PrefixScan
      <3>3. QED
        BY <1>4, <3>1, <3>2
    <2>7. S[k] = ScanState(pc, l1, "line")
      <3>1. S[k] = Advance(S[j], S[j].n + d * S[j].place, pos)
        <4> HIDE DEF w, d, j, S
        <4>1. \A x, y \in Nat : Stands(w, y, PackedInt[x]) =>
                S[y + Len(PackedInt[x])] = Advance(S[y], S[y].n + x * S[y].place, pos)
          BY <2>5, ScanNumber DEF S
        <4>2. QED
          BY <2>2, <2>5, <4>1
      <3>2. S[j].n = 0 /\ S[j].place = 1 /\ S[j].of = "pc" /\ S[j].pc = so.pc /\ S[j].line = l1
        BY <2>6 DEF ScanState
      <3> HIDE DEF S, j, d, pc, l1, k
      <3>3. S[j].n + d * S[j].place = d
        BY <2>2, <3>2
      <3>4. QED
        BY <2>2, <3>1, <3>2, <3>3 DEF Advance
    <2>8. S[Len(w)] = ScanState(pc, l2, "pc")
      <3>1. S[k + Len(v)] = Advance(S[k], S[k].n + l * S[k].place, pos)
        <4> HIDE DEF w, l, k, S
        <4>1. \A x, y \in Nat : Stands(w, y, PackedInt[x]) =>
                S[y + Len(PackedInt[x])] = Advance(S[y], S[y].n + x * S[y].place, pos)
          BY <2>5, ScanNumber DEF S
        <4>2. QED
          BY <2>2, <2>5, <4>1
      <3>2. S[k].n = 0 /\ S[k].place = 1 /\ S[k].of = "line" /\ S[k].pc = pc /\ S[k].line = l1
        BY <2>7 DEF ScanState
      <3>3. l2 = IF pos < pc THEN l1 ELSE (l1 + l) % Halfword
        BY LineOfNext
      <3> HIDE DEF S, j, d, pc, l1, l2, k, l, w, v
      <3>4. S[k].n + l * S[k].place = l
        BY <2>2, <3>2
      <3>5. QED
        BY <2>5, <3>1, <3>2, <3>3, <3>4 DEF Advance
    <2> HIDE DEF w, S
    <2>9. QED
      BY <2>1, <2>8 DEF ReadSoFar, S
  <1>7. QED
    BY <1>5, <1>6

\* The virtual machine finds the line of every byte in the packed map of the lines,
\* however they go up and down and around (debug.rs pack_line_map, packed_int_encode).
THEOREM LinesReadBack ==
  ASSUME NEW start \in Nat, NEW lines \in LineTable, NEW i \in 1 .. Len(lines)
  PROVE  LineAt(PackLineMap(start, lines), start + i - 1) = lines[i]
  <1> DEFINE n   == Len(lines)
             pos == start + i - 1
  <1>1. n \in Nat /\ pos \in Nat /\ pos >= start
    BY DEF LineTable
  <1>2. ReadSoFar(start, lines, pos, 0)
    <2> DEFINE e == <<>>
    <2>1. Packed(start, lines)[0] = [out |-> <<>>, pc |-> 0]
      BY PackedEquation
    <2>2. e \in Seq(Nat) /\ Len(e) = 0
      OBVIOUS
    <2>3. Scanned(e, pos)[0] = ScanState(0, 0, "pc")
      BY <1>1, <2>2, ScannedEquation
    <2>4. QED
      BY <2>1, <2>2, <2>3 DEF ReadSoFar, LineOf
  <1>3. ASSUME NEW k \in 1 .. n, ReadSoFar(start, lines, pos, k - 1)
        PROVE  ReadSoFar(start, lines, pos, k)
    <2> HIDE DEF pos
    <2>1. QED
      BY <1>1, <1>3, ReadsOneMore
  <1> DEFINE S == {k \in Nat : k <= n => ReadSoFar(start, lines, pos, k)}
  <1>4. ASSUME NEW k \in Nat, k \in S PROVE k + 1 \in S
    <2> HIDE DEF pos
    <2>1. ASSUME k + 1 <= n PROVE ReadSoFar(start, lines, pos, k + 1)
      <3> DEFINE m == k + 1
      <3>1. m \in 1 .. n /\ m - 1 = k
        BY <1>1, <2>1
      <3> HIDE DEF m, n
      <3>2. ReadSoFar(start, lines, pos, k)
        <4>1. k <= n
          BY <1>1, <2>1
        <4>2. QED
          BY <1>4, <4>1
      <3>3. ReadSoFar(start, lines, pos, m)
        BY <1>3, <3>1, <3>2
      <3>4. QED
        BY <3>3 DEF m
    <2>2. QED
      BY <2>1
  <1>5. Nat \subseteq S
    <2>1. 0 \in S
      BY <1>2
    <2> HIDE DEF S
    <2>2. QED
      BY <1>4, <2>1, SetInduction
  <1>6. ReadSoFar(start, lines, pos, n)
    <2> HIDE DEF pos
    <2>1. QED
      BY <1>1, <1>5
  <1>7. LineOf(start, lines, n, pos) = lines[i]
    <2>1. n # 0 /\ pos - start < n /\ pos - start + 1 = i
      BY <1>1
    <2>2. QED
      BY <2>1 DEF LineOf
  <1>8. QED
    BY <1>6, <1>7 DEF ReadSoFar, LineAt, PackLineMap, ScanState

--------------------------------------------------------------------------------
(* Sums.                                                                        *)

LEMMA SumsOfInts ==
  ASSUME NEW numbers \in Seq(Int)
  PROVE  /\ Sums(numbers)[0] = 0
         /\ \A i \in 1 .. Len(numbers) : Sums(numbers)[i] = Sums(numbers)[i - 1] + numbers[i]
         /\ \A i \in 0 .. Len(numbers) : Sums(numbers)[i] \in Int
  <1> DEFINE n     == Len(numbers)
             W     == [i \in Nat |-> Int]
             step  == [i \in 1 .. n |-> [v \in Int |-> v + numbers[i]]]
             Eq(f) == f = [i \in 0 .. n |-> IF i = 0 THEN 0 ELSE f[i - 1] + numbers[i]]
  <1>1. n \in Nat /\ \A i \in 1 .. n : numbers[i] \in Int
    OBVIOUS
  <1> HIDE DEF n
  <1>2. step \in [1 .. n -> [Int -> Int]]
    BY <1>1
  <1>3. PICK f \in [0 .. n -> Int] : Along(f, n, 0, step)
    <2>1. 0 \in Int
      OBVIOUS
    <2> HIDE DEF step
    <2>2. QED
      BY <1>1, <1>2, <2>1, PrefixRecursion, Zenon
  <1>4. Eq(f)
    <2>1. f = [i \in 0 .. n |-> f[i]] /\ f[0] = 0
      BY <1>3, Zenon DEF Along
    <2>2. ASSUME NEW i \in 1 .. n PROVE f[i] = f[i - 1] + numbers[i]
      <3>1. f[i] = step[i][f[i - 1]]
        BY <1>3, Zenon DEF Along
      <3>2. f[i - 1] \in Int
        BY <1>1, <1>3
      <3>3. QED
        BY <3>1, <3>2
    <2>3. \A i \in 0 .. n : f[i] = IF i = 0 THEN 0 ELSE f[i - 1] + numbers[i]
      <3> HIDE DEF step, W
      <3>1. SUFFICES ASSUME NEW i \in 0 .. n, i # 0 PROVE i \in 1 .. n
        BY <2>1, <2>2
      <3>2. QED
        BY <3>1, <1>1
    <2>4. QED
      BY <2>1, <2>3, Zenon
  <1> DEFINE g == CHOOSE h : Eq(h)
  <1>5. Eq(g)
    BY <1>4, Zenon
  <1>6. Sums(numbers) = g
    BY Zenon DEF Sums, n
  <1> HIDE DEF g
  <1> DEFINE p == Sums(numbers)
  <1>7. p[0] = 0 /\ \A i \in 1 .. n : p[i] = p[i - 1] + numbers[i]
    <2>1. \A i \in 0 .. n : p[i] = IF i = 0 THEN 0 ELSE p[i - 1] + numbers[i]
      BY <1>5, <1>6, Zenon
    <2> HIDE DEF p
    <2>2. QED
      BY <2>1, <1>1
  <1>8. \A i \in 0 .. n : p[i] \in Int
    <2>1. p[0] \in W[0] /\ \A i \in 1 .. n : p[i - 1] \in W[i - 1] => p[i] \in W[i]
      <3> HIDE DEF p, step
      <3>1. ASSUME NEW i \in 1 .. n, p[i - 1] \in Int PROVE p[i] \in Int
        <4>1. p[i] = p[i - 1] + numbers[i] /\ numbers[i] \in Int
          BY <1>1, <1>7
        <4>2. QED
          BY <3>1, <4>1
      <3>2. QED
        BY <1>1, <1>7, <3>1
    <2> HIDE DEF p, W
    <2>2. \A i \in 0 .. n : p[i] \in W[i]
      BY <1>1, <2>1, FamilyInduction
    <2>3. QED
      BY <2>2, <1>1 DEF W
  <1>9. QED
    BY <1>7, <1>8 DEF n

LEMMA SumsEquation ==
  ASSUME NEW numbers \in Seq(Nat)
  PROVE  /\ Sums(numbers)[0] = 0
         /\ \A i \in 1 .. Len(numbers) : Sums(numbers)[i] = Sums(numbers)[i - 1] + numbers[i]
         /\ \A i \in 0 .. Len(numbers) : Sums(numbers)[i] \in Nat
  <1> DEFINE n == Len(numbers)
             p == Sums(numbers)
             W == [i \in Nat |-> Nat]
  <1>1. numbers \in Seq(Int) /\ n \in Nat /\ \A i \in 1 .. n : numbers[i] \in Nat
    OBVIOUS
  <1>2. p[0] = 0 /\ \A i \in 1 .. n : p[i] = p[i - 1] + numbers[i]
    BY <1>1, SumsOfInts
  <1> HIDE DEF n, p
  <1>3. p[0] \in W[0] /\ \A i \in 1 .. n : p[i - 1] \in W[i - 1] => p[i] \in W[i]
    BY <1>1, <1>2
  <1> HIDE DEF W
  <1>4. \A i \in 0 .. n : p[i] \in W[i]
    BY <1>1, <1>3, FamilyInduction
  <1>5. \A i \in 0 .. n : p[i] \in Nat
    BY <1>1, <1>4 DEF W
  <1>6. QED
    BY <1>2, <1>5 DEF n, p

\* The first sums of a sequence do not depend on the rest of it.
LEMMA SumsAgree ==
  ASSUME NEW a \in Seq(Nat), NEW b \in Seq(Nat), NEW n \in Nat, n <= Len(a), n <= Len(b),
         \A i \in 1 .. n : a[i] = b[i]
  PROVE  \A i \in 0 .. n : Sums(a)[i] = Sums(b)[i]
  <1> DEFINE p == Sums(a)
             q == Sums(b)
             W == [i \in Nat |-> IF i <= n THEN {q[i]} ELSE {}]
  <1>1. p[0] = 0 /\ \A i \in 1 .. n : p[i] = p[i - 1] + a[i]
    <2>1. p[0] = 0 /\ \A i \in 1 .. Len(a) : p[i] = p[i - 1] + a[i]
      BY SumsEquation
    <2> HIDE DEF p
    <2>2. QED
      BY <2>1
  <1>2. q[0] = 0 /\ \A i \in 1 .. n : q[i] = q[i - 1] + b[i]
    <2>1. q[0] = 0 /\ \A i \in 1 .. Len(b) : q[i] = q[i - 1] + b[i]
      BY SumsEquation
    <2> HIDE DEF q
    <2>2. QED
      BY <2>1
  <1> HIDE DEF p, q
  <1>3. p[0] \in W[0]
    BY <1>1, <1>2
  <1>4. ASSUME NEW i \in 1 .. n, p[i - 1] \in W[i - 1] PROVE p[i] \in W[i]
    <2>1. i \in Nat /\ i - 1 \in Nat /\ i <= n /\ i - 1 <= n
      OBVIOUS
    <2>2. p[i - 1] = q[i - 1]
      BY <1>4, <2>1
    <2>3. p[i] = q[i]
      BY <2>2, <1>1, <1>2
    <2>4. QED
      BY <2>1, <2>3
  <1>5. \A i \in 0 .. n : p[i] \in W[i]
    <2> HIDE DEF W
    <2>1. QED
      BY <1>3, <1>4, FamilyInduction
  <1>6. QED
    BY <1>5 DEF p, q

\* Sums only grow, by at least the numbers in between.
LEMMA SumsGrow ==
  ASSUME NEW a \in Seq(Nat), NEW i \in 1 .. Len(a)
  PROVE  \A j \in i .. Len(a) : Sums(a)[i - 1] + a[i] <= Sums(a)[j]
  <1> DEFINE p == Sums(a)
             n == Len(a)
             low == p[i - 1] + a[i]
             W == [j \in Nat |-> IF j < i THEN Nat ELSE {v \in Nat : low <= v}]
  <1>1. n \in Nat /\ (\A j \in 1 .. n : p[j] = p[j - 1] + a[j]) /\ \A j \in 0 .. n : p[j] \in Nat
    BY SumsEquation
  <1>2. \A j \in 1 .. n : a[j] \in Nat
    OBVIOUS
  <1> HIDE DEF p, n
  <1>3. i \in 1 .. n /\ i - 1 \in 0 .. n
    BY <1>1 DEF n
  <1>4. low \in Nat /\ p[i] = low
    BY <1>1, <1>2, <1>3
  <1> HIDE DEF low
  <1>5. p[0] \in W[0]
    BY <1>1, <1>3
  <1>6. ASSUME NEW j \in 1 .. n, p[j - 1] \in W[j - 1] PROVE p[j] \in W[j]
    <2>1. j \in Nat /\ j - 1 \in Nat /\ p[j] \in Nat /\ p[j - 1] \in Nat /\ a[j] \in Nat
          /\ p[j] = p[j - 1] + a[j]
      BY <1>1, <1>2, <1>6
    <2>2. CASE j < i
      BY <2>1, <2>2
    <2>3. CASE j = i
      BY <2>1, <2>3, <1>4
    <2>4. CASE j > i
      <3>1. low <= p[j - 1]
        BY <1>6, <2>1, <2>4, <1>3
      <3>2. low <= p[j]
        BY <3>1, <2>1, <1>4
      <3>3. QED
        BY <3>2, <2>1, <2>4, <1>3
    <2>5. QED
      BY <2>1, <2>2, <2>3, <2>4, <1>3
  <1>7. \A j \in 0 .. n : p[j] \in W[j]
    <2> HIDE DEF W
    <2>1. QED
      BY <1>1, <1>5, <1>6, FamilyInduction
  <1>8. ASSUME NEW j \in i .. n PROVE low <= p[j]
    <2>1. j \in Nat /\ j \in 0 .. n /\ ~(j < i)
      BY <1>1, <1>3
    <2>2. QED
      BY <2>1, <1>7
  <1>9. QED
    BY <1>8 DEF p, n, low

--------------------------------------------------------------------------------
(* Sequences joined.                                                            *)

\* Sequences with their lengths: joined, they are as long as all of them together.
Lengths(seqs) == [i \in DOMAIN seqs |-> Len(seqs[i])]

LEMMA FlattenEquation ==
  ASSUME NEW S, NEW seqs \in Seq(Seq(S)), seqs # <<>>
  PROVE  \E f \in [1 .. Len(seqs) -> Seq(S)] :
            /\ FlattenSeq(seqs) = f[Len(seqs)]
            /\ f[1] = seqs[1]
            /\ \A i \in 2 .. Len(seqs) : f[i] = f[i - 1] \o seqs[i]
  <1> DEFINE n     == Len(seqs)
             step  == [i \in 1 .. n |-> [v \in Seq(S) |-> v \o seqs[i]]]
             Eq(f) == f = [i \in 1 .. n |-> IF i = 1 THEN seqs[i] ELSE f[i - 1] \o seqs[i]]
  <1>1. n \in Nat /\ n >= 1 /\ \A i \in 1 .. n : seqs[i] \in Seq(S)
    OBVIOUS
  <1>2. <<>> \in Seq(S) /\ step \in [1 .. n -> [Seq(S) -> Seq(S)]]
    <2>1. ASSUME NEW i \in 1 .. n, NEW v \in Seq(S) PROVE v \o seqs[i] \in Seq(S)
      BY <1>1
    <2> HIDE DEF n
    <2>2. QED
      BY <2>1
  <1> HIDE DEF n
  <1>3. PICK f \in [0 .. n -> Seq(S)] : Along(f, n, <<>>, step)
    <2> HIDE DEF step
    <2>1. QED
      BY <1>1, <1>2, PrefixRecursion
  <1>4. f[0] = <<>>
    BY <1>3, Zenon DEF Along
  <1>5. ASSUME NEW i \in 1 .. n PROVE f[i] = f[i - 1] \o seqs[i]
    <2>1. f[i] = step[i][f[i - 1]]
      BY <1>3, Zenon DEF Along
    <2>2. f[i - 1] \in Seq(S)
      BY <1>1, <1>3
    <2>3. QED
      BY <2>1, <2>2
  <1> HIDE DEF step
  <1>6. f[1] = seqs[1]
    <2>1. f[1] = f[0] \o seqs[1] /\ seqs[1] \in Seq(S)
      <3>1. 1 \in 1 .. n /\ 1 - 1 = 0
        BY <1>1
      <3>2. f[1] = f[1 - 1] \o seqs[1] /\ seqs[1] \in Seq(S)
        BY <3>1, <1>1, <1>5, Zenon
      <3>3. QED
        BY <3>1, <3>2, Zenon
    <2>2. QED
      BY <2>1, <1>4
  <1> DEFINE h == [i \in 1 .. n |-> f[i]]
  <1>7. h \in [1 .. n -> Seq(S)]
    BY <1>1, <1>3
  <1>8. Eq(h)
    <2>1. \A i \in 1 .. n : h[i] = f[i]
      OBVIOUS
    <2>2. ASSUME NEW i \in 1 .. n, i # 1 PROVE h[i] = h[i - 1] \o seqs[i]
      <3>1. i - 1 \in 1 .. n
        BY <2>2, <1>1
      <3>2. QED
        BY <3>1, <1>5
    <2>3. h[1] = seqs[1]
      BY <1>1, <1>6
    <2>4. \A i \in 1 .. n : h[i] = IF i = 1 THEN seqs[i] ELSE h[i - 1] \o seqs[i]
      <3> HIDE DEF h
      <3>1. QED
        BY <2>2, <2>3
    <2>5. h = [i \in 1 .. n |-> h[i]]
      BY Zenon
    <2> HIDE DEF h
    <2>6. QED
      BY <2>4, <2>5, Zenon
  <1> HIDE DEF h
  <1> DEFINE g == CHOOSE e : Eq(e)
  <1>9. Eq(g)
    BY <1>8, Zenon
  <1>10. FlattenSeq(seqs) = g[n]
    <2>1. Len(seqs) # 0
      BY <1>1 DEF n
    <2>2. QED
      BY <2>1, Zenon DEF FlattenSeq, n
  <1> HIDE DEF g
  <1>11. g = [i \in 1 .. n |-> g[i]] /\ g[1] = seqs[1]
         /\ \A i \in 2 .. n : g[i] = g[i - 1] \o seqs[i]
    <2>1. \A i \in 1 .. n : g[i] = IF i = 1 THEN seqs[i] ELSE g[i - 1] \o seqs[i]
      BY <1>9, Zenon
    <2>2. g = [i \in 1 .. n |-> g[i]]
      BY <1>9, Zenon
    <2>3. g[1] = seqs[1]
      BY <2>1, <1>1
    <2>4. ASSUME NEW i \in 2 .. n PROVE g[i] = g[i - 1] \o seqs[i]
      <3>1. i \in 1 .. n /\ i # 1
        BY <1>1
      <3>2. QED
        BY <2>1, <3>1, Zenon
    <2>5. QED
      BY <2>2, <2>3, <2>4
  <1>12. \A i \in 1 .. n : g[i] \in Seq(S)
    <2> DEFINE W == [i \in Nat |-> IF i = 0 THEN {0} ELSE Seq(S)]
               p == [i \in 0 .. n |-> IF i = 0 THEN 0 ELSE g[i]]
    <2>1. p[0] \in W[0]
      BY <1>1
    <2>2. ASSUME NEW i \in 1 .. n, p[i - 1] \in W[i - 1] PROVE p[i] \in W[i]
      <3>1. CASE i = 1
        BY <3>1, <1>1, <1>11
      <3>2. CASE i # 1
        <4>1. i \in 2 .. n /\ i - 1 \in 1 .. n /\ i - 1 \in Nat /\ i - 1 # 0 /\ i # 0
          BY <3>2, <1>1
        <4>2. g[i - 1] \in Seq(S)
          BY <4>1, <2>2
        <4>3. g[i] = g[i - 1] \o seqs[i] /\ seqs[i] \in Seq(S)
          BY <4>1, <1>1, <1>11
        <4>4. g[i] \in Seq(S)
          BY <4>2, <4>3
        <4>5. QED
          BY <4>1, <4>4
      <3>3. QED
        BY <3>1, <3>2
    <2>3. \A i \in 0 .. n : p[i] \in W[i]
      <3> HIDE DEF p, W
      <3>1. QED
        BY <1>1, <2>1, <2>2, FamilyInduction
    <2>4. QED
      BY <1>1, <2>3
  <1>13. g \in [1 .. n -> Seq(S)]
    BY <1>11, <1>12, Zenon
  <1>14. QED
    BY <1>10, <1>11, <1>13 DEF n

LEMMA FlattenLength ==
  ASSUME NEW S, NEW seqs \in Seq(Seq(S))
  PROVE  FlattenSeq(seqs) \in Seq(S) /\ Len(FlattenSeq(seqs)) = Total(Lengths(seqs))
  <1> DEFINE a == Lengths(seqs)
             n == Len(seqs)
  <1>1. a \in Seq(Nat) /\ Len(a) = n /\ n \in Nat /\ \A i \in 1 .. n : a[i] = Len(seqs[i])
    BY DEF Lengths
  <1> DEFINE p == Sums(a)
  <1>2. p[0] = 0 /\ (\A i \in 1 .. n : p[i] = p[i - 1] + a[i]) /\ \A i \in 0 .. n : p[i] \in Nat
    BY <1>1, SumsEquation
  <1>3. Total(a) = p[n]
    BY <1>1 DEF Total
  <1> HIDE DEF a, p
  <1>4. CASE seqs = <<>>
    <2>1. n = 0 /\ FlattenSeq(seqs) = <<>>
      BY <1>4 DEF FlattenSeq
    <2>2. QED
      BY <2>1, <1>2, <1>3 DEF a
  <1>5. CASE seqs # <<>>
    <2>1. PICK f \in [1 .. n -> Seq(S)] :
            /\ FlattenSeq(seqs) = f[n]
            /\ f[1] = seqs[1]
            /\ \A i \in 2 .. n : f[i] = f[i - 1] \o seqs[i]
      BY <1>5, FlattenEquation
    <2>2. n >= 1 /\ \A i \in 1 .. n : seqs[i] \in Seq(S)
      BY <1>5
    <2> HIDE DEF n
    <2> DEFINE W == [i \in Nat |-> IF i = 0 THEN {0} ELSE {v \in Seq(S) : Len(v) = p[i]}]
               q == [i \in 0 .. n |-> IF i = 0 THEN 0 ELSE f[i]]
    <2>3. q[0] \in W[0]
      BY <1>1
    <2>4. ASSUME NEW i \in 1 .. n, q[i - 1] \in W[i - 1] PROVE q[i] \in W[i]
      <3>1. CASE i = 1
        <4>1. p[1] = Len(seqs[1])
          <5>1. p[1] = p[0] + a[1] /\ a[1] = Len(seqs[1]) /\ p[0] = 0 /\ p[1] \in Nat
            BY <1>1, <1>2, <2>2
          <5>2. Len(seqs[1]) \in Nat
            BY <2>2
          <5>3. QED
            BY <5>1, <5>2
        <4>2. QED
          BY <3>1, <4>1, <2>1, <2>2
      <3>2. CASE i # 1
        <4>1. i \in 2 .. n /\ i - 1 \in 1 .. n /\ i - 1 \in Nat /\ i - 1 # 0 /\ i # 0
          BY <3>2, <1>1
        <4>2. f[i - 1] \in Seq(S) /\ Len(f[i - 1]) = p[i - 1]
          BY <4>1, <2>4
        <4>3. f[i] = f[i - 1] \o seqs[i] /\ seqs[i] \in Seq(S) /\ p[i] = p[i - 1] + Len(seqs[i])
          BY <4>1, <1>1, <1>2, <2>1, <2>2
        <4>4. f[i] \in Seq(S) /\ Len(f[i]) = p[i]
          <5> DEFINE u == f[i - 1]
                     v == seqs[i]
                     x == p[i - 1]
          <5>1. u \in Seq(S) /\ v \in Seq(S) /\ Len(u) = x /\ f[i] = u \o v /\ p[i] = x + Len(v)
            BY <4>2, <4>3, Zenon
          <5> HIDE DEF W, q, u, v, x
          <5>2. u \o v \in Seq(S) /\ Len(u \o v) = Len(u) + Len(v)
            BY <5>1, ConcatProperties, Zenon
          <5>3. QED
            BY <5>1, <5>2, Zenon
        <4>5. QED
          BY <4>1, <4>4
      <3>3. QED
        BY <3>1, <3>2
    <2>5. \A i \in 0 .. n : q[i] \in W[i]
      <3> HIDE DEF q, W
      <3>1. QED
        BY <1>1, <2>3, <2>4, FamilyInduction
    <2>6. n \in 0 .. n /\ n # 0 /\ n \in Nat
      BY <1>1, <2>2
    <2>7. q[n] \in W[n]
      BY <2>5, <2>6
    <2>8. f[n] \in Seq(S) /\ Len(f[n]) = p[n]
      BY <2>6, <2>7
    <2>9. QED
      BY <2>1, <2>8, <1>3 DEF a
  <1>6. QED
    BY <1>4, <1>5

\* A sequence, whatever it holds.
IsSequence(s) == \E S : s \in Seq(S)

LEMMA JoinsTwo ==
  ASSUME NEW u, NEW v, IsSequence(u), IsSequence(v)
  PROVE  IsSequence(u \o v) /\ Len(u \o v) = Len(u) + Len(v) /\ Len(u) \in Nat /\ Len(v) \in Nat
  <1>1. PICK S : u \in Seq(S)
    BY DEF IsSequence
  <1>2. PICK T : v \in Seq(T)
    BY DEF IsSequence
  <1>3. u \in Seq(S \cup T) /\ v \in Seq(S \cup T)
    BY <1>1, <1>2
  <1>4. u \o v \in Seq(S \cup T) /\ Len(u \o v) = Len(u) + Len(v)
    BY <1>3, ConcatProperties, Zenon
  <1>5. Len(u) \in Nat /\ Len(v) \in Nat
    BY <1>3
  <1>6. QED
    BY <1>4, <1>5, Zenon DEF IsSequence

\* What a part of the file is, when its size has been counted before.
Fits(s, size) == IsSequence(s) /\ Len(s) = size /\ size \in Nat

LEMMA FitsTogether ==
  ASSUME NEW u, NEW v, NEW m, NEW n, Fits(u, m), Fits(v, n)
  PROVE  Fits(u \o v, m + n)
  <1>1. IsSequence(u \o v) /\ Len(u \o v) = Len(u) + Len(v)
    BY JoinsTwo DEF Fits
  <1>2. QED
    BY <1>1 DEF Fits

\* A number of that many bytes, and a sequence given by its elements.
LEMMA ListFits ==
  ASSUME NEW n \in Nat, NEW S, NEW s \in [1 .. n -> S]
  PROVE  Fits(s, n)
  <1>1. s \in Seq(S) /\ Len(s) = n
    OBVIOUS
  <1>2. QED
    BY <1>1, Zenon DEF Fits, IsSequence

\* Numbers of one, two, four and eight bytes.
LEMMA SmallNumbers ==
  ASSUME NEW v
  PROVE  Fits(U8(v), 1) /\ Fits(U16(v), 2) /\ Fits(U32(v), 4) /\ Fits(U64(v), 8)
  <1>1. ASSUME NEW w PROVE Fits(U8(w), 1)
    <2>1. U8(w) \in [1 .. 1 -> {w % Base}]
      BY DEF U8
    <2>2. QED
      BY <2>1, ListFits
  <1>2. ASSUME NEW w PROVE Fits(U16(w), 2)
    <2>1. Fits(U8(w \div Base), 1) /\ Fits(U8(w), 1)
      BY <1>1
    <2>2. Fits(U16(w), 1 + 1)
      BY <2>1, FitsTogether, Zenon DEF U16
    <2>3. QED
      BY <2>2
  <1>3. ASSUME NEW w PROVE Fits(U32(w), 4)
    <2>1. Fits(U16(w \div Halfword), 2) /\ Fits(U16(w), 2)
      BY <1>2
    <2>2. Fits(U32(w), 2 + 2)
      BY <2>1, FitsTogether, Zenon DEF U32
    <2>3. QED
      BY <2>2
  <1>4. Fits(U64(v), 8)
    <2>1. Fits(U32(v \div Word), 4) /\ Fits(U32(v), 4)
      BY <1>3
    <2>2. Fits(U64(v), 4 + 4)
      BY <2>1, FitsTogether, Zenon DEF U64
    <2>3. QED
      BY <2>2
  <1>5. QED
    BY <1>1, <1>2, <1>3, <1>4

\* The parts of a sequence of parts, and all of them together.
LEMMA JoinedFits ==
  ASSUME NEW n \in Nat, NEW parts, parts = [i \in 1 .. n |-> parts[i]], NEW sizes \in [1 .. n -> Nat],
         \A i \in 1 .. n : Fits(parts[i], sizes[i])
  PROVE  Fits(FlattenSeq(parts), Total(sizes))
  <1> DEFINE T == [i \in 1 .. n |-> CHOOSE S : parts[i] \in Seq(S)]
             U == UNION {T[i] : i \in 1 .. n}
  <1>1. ASSUME NEW i \in 1 .. n PROVE parts[i] \in Seq(U)
    <2>1. parts[i] \in Seq(T[i])
      BY DEF Fits, IsSequence
    <2>2. T[i] \subseteq U
      BY Zenon
    <2> HIDE DEF T, U
    <2>3. QED
      BY <2>1, <2>2
  <1> HIDE DEF T, U
  <1>2. parts \in [1 .. n -> Seq(U)]
    BY <1>1, Zenon
  <1>3. parts \in Seq(Seq(U)) /\ DOMAIN parts = 1 .. n
    BY <1>2
  <1>4. FlattenSeq(parts) \in Seq(U) /\ Len(FlattenSeq(parts)) = Total(Lengths(parts))
    BY <1>3, FlattenLength
  <1>5. Lengths(parts) = sizes
    <2>1. \A i \in 1 .. n : Len(parts[i]) = sizes[i]
      BY DEF Fits
    <2>2. sizes = [i \in 1 .. n |-> sizes[i]]
      OBVIOUS
    <2>3. QED
      BY <1>3, <2>1, <2>2, Zenon DEF Lengths
  <1>6. Total(sizes) \in Nat
    <2>1. sizes \in Seq(Nat) /\ Len(sizes) \in 0 .. Len(sizes)
      OBVIOUS
    <2>2. QED
      BY <2>1, SumsEquation DEF Total
  <1>7. QED
    BY <1>4, <1>5, <1>6 DEF Fits, IsSequence

\* Parts that all have one size.
LEMMA TotalOfSame ==
  ASSUME NEW n \in Nat, NEW c \in Nat
  PROVE  Total([i \in 1 .. n |-> c]) = c * n
  <1> DEFINE a == [i \in 1 .. n |-> c]
             p == Sums(a)
             W == [i \in Nat |-> {c * i}]
  <1>1. a \in Seq(Nat) /\ Len(a) = n /\ \A i \in 1 .. n : a[i] = c
    OBVIOUS
  <1> HIDE DEF a
  <1>2. p[0] = 0 /\ \A i \in 1 .. n : p[i] = p[i - 1] + c
    BY <1>1, SumsEquation
  <1> HIDE DEF p
  <1>3. p[0] \in W[0] /\ \A i \in 1 .. n : p[i - 1] \in W[i - 1] => p[i] \in W[i]
    <2>1. ASSUME NEW i \in 1 .. n, p[i - 1] \in W[i - 1] PROVE p[i] \in W[i]
      <3>1. p[i - 1] = c * (i - 1) /\ p[i] = p[i - 1] + c
        BY <2>1, <1>2
      <3>2. c * (i - 1) + c = c * i
        OBVIOUS
      <3>3. QED
        BY <3>1, <3>2
    <2>2. QED
      BY <1>2, <2>1
  <1>4. \A i \in 0 .. n : p[i] \in W[i]
    <2> HIDE DEF W
    <2>1. QED
      BY <1>3, FamilyInduction
  <1>5. p[n] = c * n
    BY <1>4
  <1>6. QED
    BY <1>1, <1>5 DEF Total, a, p

--------------------------------------------------------------------------------
(* The record.                                                                  *)

\* Literals and symbols as the generator makes them: a float is eight bytes.
IsEntry(entry) ==
  \/ entry.type \in {"Int32", "Int64"}
  \/ entry.type = "Float" /\ Fits(entry.data, 8)
  \/ entry.type \in {"BigInt", "Str", "SStr"} /\ IsSequence(entry.data)
IsSym(name) == name = <<>> \/ IsSequence(name[1])

LEMMA LengthType ==
  ASSUME NEW s, IsSequence(s)
  PROVE  Fits(s, Len(s)) /\ Len(s) \in Nat /\ DOMAIN s = 1 .. Len(s) /\ s = [i \in 1 .. Len(s) |-> s[i]]
  <1>1. PICK S : s \in Seq(S)
    BY DEF IsSequence
  <1>2. Len(s) \in Nat /\ DOMAIN s = 1 .. Len(s) /\ s = [i \in 1 .. Len(s) |-> s[i]]
    BY <1>1
  <1>3. QED
    BY <1>2, Zenon DEF Fits

LEMMA EntryFits ==
  ASSUME NEW entry, IsEntry(entry)
  PROVE  Fits(PoolEntry(entry), PoolEntrySize(entry))
  <1>1. CASE entry.type = "Int32" \/ (entry.type = "Int64" /\ FitsInt32(entry.data[1]))
    <2>1. PoolEntry(entry) = U8(1) \o U32(entry.data[1])
      <3>1. CASE entry.type = "Int32"
        BY <3>1 DEF PoolEntry
      <3>2. CASE entry.type = "Int64" /\ FitsInt32(entry.data[1])
        BY <3>2 DEF PoolEntry
      <3>3. QED
        BY <1>1, <3>1, <3>2
    <2>2. PoolEntrySize(entry) = 1 + 4
      BY <1>1 DEF PoolEntrySize
    <2>3. QED
      BY <2>1, <2>2, SmallNumbers, FitsTogether
  <1>2. CASE entry.type = "Int64" /\ ~FitsInt32(entry.data[1])
    <2>1. PoolEntry(entry) = U8(3) \o U64(entry.data[1]) /\ PoolEntrySize(entry) = 1 + 8
      BY <1>2 DEF PoolEntry, PoolEntrySize
    <2>2. Fits(U64(entry.data[1]), 8)
      BY SmallNumbers
    <2>3. QED
      BY <2>1, <2>2, SmallNumbers, FitsTogether
  <1>3. CASE entry.type = "Float" /\ Fits(entry.data, 8)
    <2>1. PoolEntry(entry) = U8(5) \o entry.data /\ PoolEntrySize(entry) = 1 + 8
      BY <1>3 DEF PoolEntry, PoolEntrySize
    <2>2. QED
      BY <1>3, <2>1, SmallNumbers, FitsTogether
  <1>4. CASE entry.type = "BigInt" /\ IsSequence(entry.data)
    <2>1. PoolEntry(entry) = U8(7) \o entry.data /\ PoolEntrySize(entry) = 1 + Len(entry.data)
      BY <1>4 DEF PoolEntry, PoolEntrySize
    <2>2. Fits(entry.data, Len(entry.data))
      BY <1>4, LengthType
    <2>3. QED
      BY <2>1, <2>2, SmallNumbers, FitsTogether
  <1>5. CASE entry.type \in {"Str", "SStr"} /\ IsSequence(entry.data)
    <2> DEFINE n == Len(entry.data)
    <2>1. PICK t : PoolEntry(entry) = U8(t) \o U16(n) \o entry.data \o U8(0)
      <3>1. CASE entry.type = "Str"
        BY <3>1 DEF PoolEntry
      <3>2. CASE entry.type = "SStr"
        BY <3>2 DEF PoolEntry
      <3>3. QED
        BY <1>5, <3>1, <3>2
    <2>2. PoolEntrySize(entry) = 4 + n
      BY <1>5 DEF PoolEntrySize
    <2>3. Fits(entry.data, n) /\ n \in Nat
      BY <1>5, LengthType
    <2>4. Fits(U8(t) \o U16(n), 1 + 2)
      BY SmallNumbers, FitsTogether
    <2>5. Fits(U8(t) \o U16(n) \o entry.data, 1 + 2 + n)
      BY <2>3, <2>4, FitsTogether
    <2>6. Fits(U8(t) \o U16(n) \o entry.data \o U8(0), 1 + 2 + n + 1)
      BY <2>5, SmallNumbers, FitsTogether
    <2>7. 1 + 2 + n + 1 = 4 + n
      BY <2>3
    <2>8. QED
      BY <2>1, <2>2, <2>6, <2>7
  <1>6. CASE entry.type = "Int32" \/ entry.type = "Int64"
    <2>1. CASE FitsInt32(entry.data[1])
      BY <1>1, <1>6, <2>1, Zenon
    <2>2. CASE ~FitsInt32(entry.data[1])
      BY <1>1, <1>2, <1>6, <2>2, Zenon
    <2>3. QED
      BY <2>1, <2>2
  <1>7. QED
    BY <1>3, <1>4, <1>5, <1>6 DEF IsEntry

LEMMA SymFits ==
  ASSUME NEW name, IsSym(name)
  PROVE  Fits(Sym(name), SymSize(name))
  <1>1. CASE name = <<>>
    BY <1>1, SmallNumbers DEF Sym, SymSize
  <1>2. CASE name # <<>>
    <2> DEFINE n == Len(name[1])
    <2>1. Sym(name) = U16(n) \o name[1] \o U8(0) /\ SymSize(name) = 3 + n
      BY <1>2 DEF Sym, SymSize
    <2>2. Fits(name[1], n) /\ n \in Nat
      BY <1>2, LengthType DEF IsSym
    <2>3. Fits(U16(n) \o name[1], 2 + n)
      BY <2>2, SmallNumbers, FitsTogether
    <2>4. Fits(U16(n) \o name[1] \o U8(0), 2 + n + 1)
      BY <2>3, SmallNumbers, FitsTogether
    <2>5. 2 + n + 1 = 3 + n
      BY <2>2
    <2>6. QED
      BY <2>1, <2>4, <2>5
  <1>3. QED
    BY <1>1, <1>2

LEMMA HandlerFits ==
  ASSUME NEW h
  PROVE  Fits(Handler(h), 13)
  <1>1. Fits(U8(h.kind) \o U32(h.begin), 1 + 4)
    BY SmallNumbers, FitsTogether
  <1>2. Fits(U8(h.kind) \o U32(h.begin) \o U32(h.end), 1 + 4 + 4)
    BY <1>1, SmallNumbers, FitsTogether
  <1>3. Fits(Handler(h), 1 + 4 + 4 + 4)
    BY <1>2, SmallNumbers, FitsTogether DEF Handler
  <1>4. QED
    BY <1>3

\* What an irep holds, as far as its size is about it.
IsIrep(irep) ==
  /\ IsSequence(irep.iseq) /\ IsSequence(irep.handlers)
  /\ IsSequence(irep.pool) /\ \A i \in DOMAIN irep.pool : IsEntry(irep.pool[i])
  /\ IsSequence(irep.syms) /\ \A i \in DOMAIN irep.syms : IsSym(irep.syms[i])

\* irep_own_size counts what write_irep_record writes for an irep itself, whatever literals,
\* symbols, catch handlers and instructions it has (writer.rs irep_own_size, write_irep_record).
THEOREM RecordsFit ==
  ASSUME NEW irep, IsIrep(irep)
  PROVE  Len(Own(irep)) = OwnSize(irep)
  <1> USE DEF IsIrep
  <1> DEFINE code == Len(irep.iseq)
             hs   == Len(irep.handlers)
             ps   == Len(irep.pool)
             ss   == Len(irep.syms)
             pool == Total(Each(PoolEntrySize, irep.pool))
             syms == Total(Each(SymSize, irep.syms))
  <1>1. Fits(irep.iseq, code) /\ code \in Nat
    BY LengthType
  <1>2. Fits(Joined(Handler, irep.handlers), 13 * hs) /\ hs \in Nat
    <2> DEFINE parts == Each(Handler, irep.handlers)
               sizes == [i \in 1 .. hs |-> 13]
    <2>1. hs \in Nat /\ DOMAIN irep.handlers = 1 .. hs
      BY LengthType
    <2>2. parts = [i \in 1 .. hs |-> Handler(irep.handlers[i])]
      BY <2>1, Zenon DEF Each
    <2> HIDE DEF parts
    <2>3. parts = [i \in 1 .. hs |-> parts[i]] /\ \A i \in 1 .. hs : parts[i] = Handler(irep.handlers[i])
      BY <2>2, Zenon
    <2>4. sizes \in [1 .. hs -> Nat] /\ \A i \in 1 .. hs : sizes[i] = 13
      OBVIOUS
    <2>5. Total(sizes) = 13 * hs
      BY <2>1, TotalOfSame
    <2> HIDE DEF sizes
    <2>6. \A i \in 1 .. hs : Fits(parts[i], sizes[i])
      BY <2>3, <2>4, HandlerFits, Zenon
    <2>7. Fits(FlattenSeq(parts), Total(sizes))
      BY <2>1, <2>3, <2>4, <2>6, JoinedFits
    <2>8. QED
      BY <2>1, <2>5, <2>7, Zenon DEF Joined, parts
  <1>3. Fits(Joined(PoolEntry, irep.pool), pool)
    <2> DEFINE parts == Each(PoolEntry, irep.pool)
               sizes == Each(PoolEntrySize, irep.pool)
    <2>1. ps \in Nat /\ DOMAIN irep.pool = 1 .. ps
      BY LengthType
    <2>2. parts = [i \in 1 .. ps |-> PoolEntry(irep.pool[i])]
          /\ sizes = [i \in 1 .. ps |-> PoolEntrySize(irep.pool[i])]
      BY <2>1, Zenon DEF Each
    <2> HIDE DEF parts, sizes
    <2>3. /\ parts = [i \in 1 .. ps |-> parts[i]] /\ sizes = [i \in 1 .. ps |-> sizes[i]]
          /\ \A i \in 1 .. ps : Fits(parts[i], sizes[i])
      BY <2>1, <2>2, EntryFits, Zenon
    <2>4. sizes \in [1 .. ps -> Nat]
      BY <2>3, Zenon DEF Fits
    <2>5. Fits(FlattenSeq(parts), Total(sizes))
      BY <2>1, <2>3, <2>4, JoinedFits
    <2>6. QED
      BY <2>5, Zenon DEF Joined, parts, sizes
  <1>4. Fits(Joined(Sym, irep.syms), syms)
    <2> DEFINE parts == Each(Sym, irep.syms)
               sizes == Each(SymSize, irep.syms)
    <2>1. ss \in Nat /\ DOMAIN irep.syms = 1 .. ss
      BY LengthType
    <2>2. parts = [i \in 1 .. ss |-> Sym(irep.syms[i])]
          /\ sizes = [i \in 1 .. ss |-> SymSize(irep.syms[i])]
      BY <2>1, Zenon DEF Each
    <2> HIDE DEF parts, sizes
    <2>3. /\ parts = [i \in 1 .. ss |-> parts[i]] /\ sizes = [i \in 1 .. ss |-> sizes[i]]
          /\ \A i \in 1 .. ss : Fits(parts[i], sizes[i])
      BY <2>1, <2>2, SymFits, Zenon
    <2>4. sizes \in [1 .. ss -> Nat]
      BY <2>3, Zenon DEF Fits
    <2>5. Fits(FlattenSeq(parts), Total(sizes))
      BY <2>1, <2>3, <2>4, JoinedFits
    <2>6. QED
      BY <2>5, Zenon DEF Joined, parts, sizes
  <1>5. pool \in Nat /\ syms \in Nat
    BY <1>3, <1>4, Zenon DEF Fits
  <1> DEFINE a1 == U32(OwnSize(irep)) \o U16(irep.nlocals)
             a2 == a1 \o U16(irep.nregs)
             a3 == a2 \o U16(Len(irep.reps))
             a4 == a3 \o U16(hs)
             a5 == a4 \o U32(code)
             a6 == a5 \o irep.iseq
             a7 == a6 \o Joined(Handler, irep.handlers)
             a8 == a7 \o U16(ps)
             a9 == a8 \o Joined(PoolEntry, irep.pool)
             a10 == a9 \o U16(ss)
  <1>6. Own(irep) = a10 \o Joined(Sym, irep.syms)
    BY Zenon DEF Own
  <1>7. Fits(a1, 4 + 2)
    BY SmallNumbers, FitsTogether, Zenon
  <1> HIDE DEF a1
  <1>8. Fits(a2, 4 + 2 + 2)
    BY <1>7, SmallNumbers, FitsTogether, Zenon
  <1> HIDE DEF a2
  <1>9. Fits(a3, 4 + 2 + 2 + 2)
    BY <1>8, SmallNumbers, FitsTogether, Zenon
  <1> HIDE DEF a3
  <1>10. Fits(a4, 4 + 2 + 2 + 2 + 2)
    BY <1>9, SmallNumbers, FitsTogether, Zenon
  <1> HIDE DEF a4
  <1>11. Fits(a5, 4 + 2 + 2 + 2 + 2 + 4)
    BY <1>10, SmallNumbers, FitsTogether, Zenon
  <1> HIDE DEF a5
  <1>12. Fits(a6, 4 + 2 + 2 + 2 + 2 + 4 + code)
    BY <1>1, <1>11, FitsTogether, Zenon
  <1> HIDE DEF a6
  <1>13. Fits(a7, 4 + 2 + 2 + 2 + 2 + 4 + code + 13 * hs)
    BY <1>2, <1>12, FitsTogether, Zenon
  <1> HIDE DEF a7
  <1>14. Fits(a8, 4 + 2 + 2 + 2 + 2 + 4 + code + 13 * hs + 2)
    BY <1>13, SmallNumbers, FitsTogether, Zenon
  <1> HIDE DEF a8
  <1>15. Fits(a9, 4 + 2 + 2 + 2 + 2 + 4 + code + 13 * hs + 2 + pool)
    BY <1>3, <1>14, FitsTogether, Zenon
  <1> HIDE DEF a9
  <1>16. Fits(a10, 4 + 2 + 2 + 2 + 2 + 4 + code + 13 * hs + 2 + pool + 2)
    BY <1>15, SmallNumbers, FitsTogether, Zenon
  <1> HIDE DEF a10
  <1>17. Fits(Own(irep), 4 + 2 + 2 + 2 + 2 + 4 + code + 13 * hs + 2 + pool + 2 + syms)
    BY <1>4, <1>6, <1>16, FitsTogether, Zenon
  <1>18. OwnSize(irep) = 10 + (6 + code + 13 * hs) + (2 + pool) + (2 + syms)
    BY Zenon DEF OwnSize
  <1> HIDE DEF code, hs, pool, syms
  <1>19. 4 + 2 + 2 + 2 + 2 + 4 + code + 13 * hs + 2 + pool + 2 + syms
           = 10 + (6 + code + 13 * hs) + (2 + pool) + (2 + syms)
    BY <1>1, <1>2, <1>5
  <1>20. QED
    BY <1>17, <1>18, <1>19, Zenon DEF Fits

--------------------------------------------------------------------------------
(* The debug record.                                                            *)

LEMMA MapIsSequence ==
  ASSUME NEW start \in Nat, NEW lines \in LineTable
  PROVE  IsSequence(PackLineMap(start, lines))
  <1> DEFINE n == Len(lines)
  <1>1. n \in 0 .. n
    BY DEF LineTable
  <1>2. Packed(start, lines)[n] \in PackStates(start, n)
    BY <1>1, PackedEquation
  <1> DEFINE r == Packed(start, lines)[n]
  <1>3. PackLineMap(start, lines) = r.out
    BY Zenon DEF PackLineMap
  <1>4. r.out \in Seq(Nat)
    <2> HIDE DEF r
    <2>1. QED
      BY <1>2 DEF PackStates, r
  <1>5. QED
    BY <1>3, <1>4, Zenon DEF IsSequence

LEMMA DebugEntryFits ==
  ASSUME NEW file, NEW packed, NEW table, IsSequence(packed)
  PROVE  Fits(DebugEntry(file, packed, table), 11 + Len(packed))
  <1> DEFINE n  == Len(packed)
             b1 == U32(file.start) \o U16(FileIndex(table, file.filename))
             b2 == b1 \o U32(n)
             b3 == b2 \o U8(2)
  <1>1. Fits(packed, n) /\ n \in Nat
    BY LengthType
  <1>2. Fits(b1, 4 + 2)
    BY SmallNumbers, FitsTogether, Zenon
  <1>3. DebugEntry(file, packed, table) = b3 \o packed
    BY Zenon DEF DebugEntry
  <1> HIDE DEF b1
  <1>4. Fits(b2, 4 + 2 + 4)
    BY <1>2, SmallNumbers, FitsTogether, Zenon
  <1> HIDE DEF b2
  <1>5. Fits(b3, 4 + 2 + 4 + 1)
    BY <1>4, SmallNumbers, FitsTogether, Zenon
  <1> HIDE DEF b3
  <1>6. Fits(b3 \o packed, 4 + 2 + 4 + 1 + n)
    BY <1>1, <1>5, FitsTogether, Zenon
  <1>7. 4 + 2 + 4 + 1 + n = 11 + n
    BY <1>1
  <1>8. QED
    BY <1>3, <1>6, <1>7, Zenon

\* record_own_size counts what write_record writes for an irep itself, whatever its line
\* tables are, packed before (debug.rs record_own_size, write_record).
THEOREM DebugRecordsFit ==
  ASSUME NEW irep, NEW table, IsSequence(irep.debug[1].files),
         \A i \in DOMAIN irep.debug[1].files :
           /\ irep.debug[1].files[i].start \in Nat
           /\ irep.debug[1].files[i].lines \in LineTable
  PROVE  Len(OwnDebug(irep, table)) = DebugSize(Maps(irep))
  <1> DEFINE files == irep.debug[1].files
             n     == Len(files)
             maps  == Maps(irep)
             parts == [i \in DOMAIN maps |-> DebugEntry(files[i], maps[i], table)]
             sizes == Each(LAMBDA packed : 11 + Len(packed), maps)
  <1>1. n \in Nat /\ DOMAIN files = 1 .. n
    BY LengthType
  <1>2. maps = [i \in 1 .. n |-> PackLineMap(files[i].start, files[i].lines)]
    BY <1>1, Zenon DEF Maps, Each
  <1>3. ASSUME NEW i \in 1 .. n PROVE IsSequence(maps[i])
    <2>1. maps[i] = PackLineMap(files[i].start, files[i].lines)
      BY <1>2, Zenon
    <2>2. files[i].start \in Nat /\ files[i].lines \in LineTable
      BY <1>1
    <2>3. QED
      BY <2>1, <2>2, MapIsSequence
  <1>4. DOMAIN maps = 1 .. n
    BY <1>2, Zenon
  <1>5. sizes = [i \in 1 .. n |-> 11 + Len(maps[i])]
    BY <1>4, Zenon DEF Each
  <1>6. OwnDebug(irep, table) = U32(DebugSize(maps)) \o U16(Len(maps)) \o FlattenSeq(parts)
        /\ DebugSize(maps) = 6 + Total(sizes)
    BY Zenon DEF OwnDebug, DebugSize
  <1>7. parts = [i \in 1 .. n |-> DebugEntry(files[i], maps[i], table)]
    BY <1>4, Zenon
  <1> HIDE DEF files, n, maps, sizes, parts
  <1>8. /\ parts = [i \in 1 .. n |-> parts[i]] /\ sizes = [i \in 1 .. n |-> sizes[i]]
        /\ \A i \in 1 .. n : Fits(parts[i], sizes[i])
    BY <1>3, <1>5, <1>7, DebugEntryFits, Zenon
  <1>9. sizes \in [1 .. n -> Nat]
    BY <1>8, Zenon DEF Fits
  <1>10. Fits(FlattenSeq(parts), Total(sizes))
    BY <1>1, <1>8, <1>9, JoinedFits
  <1>11. Fits(U32(DebugSize(maps)) \o U16(Len(maps)), 4 + 2)
    BY SmallNumbers, FitsTogether, Zenon
  <1>12. Fits(OwnDebug(irep, table), 4 + 2 + Total(sizes))
    BY <1>6, <1>10, <1>11, FitsTogether, Zenon
  <1>13. 4 + 2 + Total(sizes) = 6 + Total(sizes)
    BY <1>10, SMT DEF Fits
  <1>14. QED
    BY <1>6, <1>12, <1>13, Zenon DEF Fits, maps

--------------------------------------------------------------------------------
(* What the scopes and the finished ireps say.                                  *)

Literals == UNION {c.literals : c \in Clients}
Symbols  == UNION {c.symbols : c \in Clients}
LineType == 0 .. Halfword - 1
Whats    == {<<Plain>>} \cup ({Lit} \X Literals) \cup ({Symb} \X Symbols) \cup ({Jmp} \X Nat)
Insns    == [what : Whats, line : LineType]

ScopeFields == {"iseq", "lines", "pc", "lastpc", "line", "pool", "syms", "cap", "reps", "handlers",
            "lv", "asked"}
\* A scope has a line for each byte of its buffer.
Buffered(s) ==
  /\ DOMAIN s = ScopeFields /\ DOMAIN s.asked = {"locals", "code", "handlers", "reps"}
  /\ s.iseq \in Seq(Nat) /\ s.lines \in LineTable /\ Len(s.lines) = Len(s.iseq)
  /\ s.pc \in 0 .. Len(s.iseq) /\ s.lastpc \in 0 .. s.pc /\ s.line \in LineType
Spelled(s) ==
  /\ IsSequence(s.pool) /\ IsSequence(s.syms)
  /\ s.asked.code \in Seq(Insns) /\ s.pc = Ends(s.asked.code)[Len(s.asked.code)]
  /\ CodeSays(s.asked.code, s.iseq, s.lines, s.pool, Present(s.syms))
Unlined(s) == s.line = 0 => \A k \in 1 .. s.pc : s.lines[k] = 0
Sound(s) ==
  /\ Buffered(s) /\ Spelled(s)
  /\ s.lastpc < s.pc /\ s.asked.code # <<>>
       => s.lastpc = Ends(s.asked.code)[Len(s.asked.code) - 1]
  /\ Unlined(s)
  /\ s.lv \in Seq(Names) /\ s.asked.locals = s.lv /\ s.asked.handlers = s.handlers
  /\ IsSequence(s.reps) /\ IsSequence(s.asked.reps) /\ Len(s.reps) = Len(s.asked.reps)

\* The names of the locals of a scope are in the table of the file, where they have one.
InTable(name, names) == name = <<>> \/ \E m \in DOMAIN names : names[m] = name
Named(s, names) == \A k \in DOMAIN s.lv : InTable(s.lv[k], names)

\* Ireps that say what they were asked for, with all that are nested in them.
WithNested(S) == \A p \in S : Matched(p[1].reps, p[2].reps) \subseteq S
Say(S, names) == \A p \in S : IrepSays(p[1], p[2], names)

Inv ==
  /\ client \in Clients /\ lvarNames \in Seq(Names) /\ IsSequence(stack)
  /\ \A i \in DOMAIN stack : Sound(stack[i]) /\ Named(stack[i], lvarNames)
  /\ \E S : Finished \subseteq S /\ WithNested(S) /\ Say(S, lvarNames)

--------------------------------------------------------------------------------
(* Sequences.                                                                   *)

Extends(p, q) == \A k \in DOMAIN p : k \in DOMAIN q /\ q[k] = p[k]

LEMMA AppendsOne ==
  ASSUME NEW s, IsSequence(s), NEW e
  PROVE  /\ IsSequence(Append(s, e)) /\ Len(s) \in Nat /\ Len(Append(s, e)) = Len(s) + 1
         /\ DOMAIN s = 1 .. Len(s) /\ DOMAIN Append(s, e) = 1 .. Len(s) + 1
         /\ Extends(s, Append(s, e)) /\ Append(s, e)[Len(s) + 1] = e
  <1>1. PICK S : s \in Seq(S)
    BY DEF IsSequence
  <1> DEFINE T == S \cup {e}
  <1>2. s \in Seq(T) /\ e \in T
    BY <1>1
  <1> HIDE DEF T
  <1>3. /\ Append(s, e) \in Seq(T) /\ Len(s) \in Nat /\ Len(Append(s, e)) = Len(s) + 1
        /\ DOMAIN s = 1 .. Len(s) /\ DOMAIN Append(s, e) = 1 .. Len(s) + 1
        /\ Append(s, e)[Len(s) + 1] = e
    BY <1>2
  <1>4. \A k \in 1 .. Len(s) : k \in 1 .. Len(s) + 1 /\ Append(s, e)[k] = s[k]
    BY <1>2
  <1>5. Extends(s, Append(s, e))
    BY <1>3, <1>4, Zenon DEF Extends
  <1>6. QED
    BY <1>3, <1>5, Zenon DEF IsSequence

\* The front of a sequence, and all of it but the last element.
LEMMA FrontOf ==
  ASSUME NEW S, NEW s \in Seq(S), NEW n \in 0 .. Len(s)
  PROVE  /\ SubSeq(s, 1, n) \in Seq(S) /\ Len(SubSeq(s, 1, n)) = n /\ DOMAIN SubSeq(s, 1, n) = 1 .. n
         /\ \A k \in 1 .. n : SubSeq(s, 1, n)[k] = s[k]
  <1>1. n \in Int /\ 1 \in Int /\ \A i \in 1 .. n : s[i] \in S
    OBVIOUS
  <1>2. /\ SubSeq(s, 1, n) \in Seq(S)
        /\ Len(SubSeq(s, 1, n)) = IF 1 <= n THEN n - 1 + 1 ELSE 0
        /\ \A i \in 1 .. n - 1 + 1 : SubSeq(s, 1, n)[i] = s[1 + i - 1]
    BY <1>1, SubSeqProperties
  <1> DEFINE f == SubSeq(s, 1, n)
  <1> HIDE DEF f
  <1>3. Len(f) = n
    BY <1>2 DEF f
  <1>4. ASSUME NEW k \in 1 .. n PROVE f[k] = s[k]
    <2>1. k \in 1 .. n - 1 + 1 /\ 1 + k - 1 = k
      OBVIOUS
    <2>2. f[k] = s[1 + k - 1]
      BY <1>2, <2>1, Zenon DEF f
    <2>3. QED
      BY <2>1, <2>2, Zenon
  <1>5. f \in Seq(S)
    BY <1>2, Zenon DEF f
  <1>6. DOMAIN f = 1 .. n
    BY <1>3, <1>5
  <1>7. QED
    BY <1>3, <1>4, <1>5, <1>6 DEF f

LEMMA DropsOne ==
  ASSUME NEW s, IsSequence(s), s # <<>>
  PROVE  /\ Len(s) \in Nat \ {0}
         /\ IsSequence(SubSeq(s, 1, Len(s) - 1)) /\ Len(SubSeq(s, 1, Len(s) - 1)) = Len(s) - 1
         /\ DOMAIN SubSeq(s, 1, Len(s) - 1) = 1 .. Len(s) - 1
         /\ \A k \in 1 .. Len(s) - 1 : SubSeq(s, 1, Len(s) - 1)[k] = s[k]
  <1>1. PICK S : s \in Seq(S)
    BY DEF IsSequence
  <1> DEFINE n == Len(s) - 1
  <1>2. Len(s) \in Nat \ {0} /\ n \in 0 .. Len(s)
    BY <1>1
  <1>3. /\ SubSeq(s, 1, n) \in Seq(S) /\ Len(SubSeq(s, 1, n)) = n
        /\ DOMAIN SubSeq(s, 1, n) = 1 .. n
        /\ \A k \in 1 .. n : SubSeq(s, 1, n)[k] = s[k]
    <2> HIDE DEF n
    <2>1. QED
      BY <1>1, <1>2, FrontOf
  <1>4. QED
    BY <1>2, <1>3, Zenon DEF IsSequence

LEMMA LeastPlace ==
  ASSUME NEW n \in Nat, NEW I, I \subseteq 1 .. n, I # {}
  PROVE  Min(I) \in I
  <1> DEFINE S == {m \in Nat : m \notin I}
  <1>1. \E m \in I : \A k \in I : m <= k
    <2>1. SUFFICES ASSUME \A m \in I : \E k \in I : ~(m <= k) PROVE FALSE
      OBVIOUS
    <2>2. \A m \in Nat : (\A k \in Nat : k < m => k \in S) => m \in S
      BY <2>1
    <2>3. Nat \subseteq S
      <3> HIDE DEF S
      <3>1. QED
        BY <2>2, StrongSetInduction
    <2>4. PICK m : m \in I
      BY Zenon
    <2>5. m \in S
      BY <2>3, <2>4
    <2>6. QED
      BY <2>4, <2>5
  <1>2. QED
    BY <1>1, Zenon DEF Min

\* Where a literal is, a symbol, and the name of a local.
LEMMA LitPlaced ==
  ASSUME NEW s, IsSequence(s.pool), NEW literal
  PROVE  /\ LitPlace(s, literal) \in 0 .. Len(s.pool)
         /\ LitPlace(s, literal) # 0 => Same(s.pool[LitPlace(s, literal)], literal)
         /\ (\E k \in 1 .. Len(s.pool) : Same(s.pool[k], literal)) => LitPlace(s, literal) # 0
  <1> DEFINE I == {k \in 1 .. Len(s.pool) : Same(s.pool[k], literal)}
  <1>1. LitPlace(s, literal) = IF I # {} THEN Min(I) ELSE 0
    BY Zenon DEF LitPlace, SelectInSeq
  <1>2. Len(s.pool) \in Nat
    BY LengthType
  <1>3. CASE I = {}
    <2>1. LitPlace(s, literal) = 0 /\ ~\E k \in 1 .. Len(s.pool) : Same(s.pool[k], literal)
      BY <1>1, <1>3, Zenon
    <2>2. QED
      BY <1>2, <2>1
  <1>4. CASE I # {}
    <2>1. Min(I) \in I
      BY <1>2, <1>4, LeastPlace
    <2>2. LitPlace(s, literal) \in 1 .. Len(s.pool) /\ Same(s.pool[LitPlace(s, literal)], literal)
      BY <1>1, <1>4, <2>1, Zenon
    <2>3. QED
      BY <1>2, <2>2
  <1>5. QED
    BY <1>3, <1>4

LEMMA SymPlaced ==
  ASSUME NEW s, IsSequence(s.syms), NEW name
  PROVE  /\ SymPlace(s, name) \in 0 .. Len(s.syms)
         /\ SymPlace(s, name) # 0 => s.syms[SymPlace(s, name)] = name
         /\ (\E k \in 1 .. Len(s.syms) : s.syms[k] = name) => SymPlace(s, name) # 0
  <1> DEFINE I == {k \in 1 .. Len(s.syms) : s.syms[k] = name}
  <1>1. SymPlace(s, name) = IF I # {} THEN Min(I) ELSE 0
    BY Zenon DEF SymPlace, SelectInSeq
  <1>2. Len(s.syms) \in Nat
    BY LengthType
  <1>3. CASE I = {}
    <2>1. SymPlace(s, name) = 0 /\ ~\E k \in 1 .. Len(s.syms) : s.syms[k] = name
      BY <1>1, <1>3, Zenon
    <2>2. QED
      BY <1>2, <2>1
  <1>4. CASE I # {}
    <2>1. Min(I) \in I
      BY <1>2, <1>4, LeastPlace
    <2>2. SymPlace(s, name) \in 1 .. Len(s.syms) /\ s.syms[SymPlace(s, name)] = name
      BY <1>1, <1>4, <2>1, Zenon
    <2>3. QED
      BY <1>2, <2>2
  <1>5. QED
    BY <1>3, <1>4

LEMMA LvarPlaced ==
  ASSUME IsSequence(lvarNames), NEW name, \E m \in DOMAIN lvarNames : lvarNames[m] = name
  PROVE  /\ LvarIndex(name) + 1 \in DOMAIN lvarNames /\ lvarNames[LvarIndex(name) + 1] = name
         /\ LvarIndex(name) \in Nat
  <1> DEFINE I == {k \in 1 .. Len(lvarNames) : lvarNames[k] = name}
             place == IF I # {} THEN Min(I) ELSE 0
  <1>1. LvarIndex(name) = place - 1
    BY Zenon DEF LvarIndex, SelectInSeq
  <1>2. Len(lvarNames) \in Nat /\ DOMAIN lvarNames = 1 .. Len(lvarNames)
    BY LengthType
  <1>3. I # {}
    BY <1>2
  <1>4. place \in I
    BY <1>2, <1>3, LeastPlace
  <1>5. place \in 1 .. Len(lvarNames) /\ lvarNames[place] = name
    BY <1>4
  <1> HIDE DEF place, I
  <1>6. (place - 1) + 1 = place /\ place - 1 \in Nat
    BY <1>2, <1>5
  <1>7. QED
    BY <1>1, <1>2, <1>5, <1>6, Zenon

--------------------------------------------------------------------------------
(* Where instructions end.                                                      *)

Shaped(what) ==
  /\ Len(what) \in {1, 2} /\ what[1] \in {Plain, Lit, Symb, Jmp}
  /\ what[1] # Plain => Len(what) = 2
LEMMA WhatShape ==
  ASSUME NEW insn \in Insns
  PROVE  insn.line \in LineType /\ Shaped(insn.what)
  <1>1. insn.line \in LineType /\ insn.what \in Whats
    BY DEF Insns
  <1>2. Shaped(<<Plain>>)
    BY DEF Shaped
  <1>3. ASSUME NEW k, NEW S, NEW what \in {k} \X S PROVE Len(what) = 2 /\ what[1] = k
    OBVIOUS
  <1>4. \A what \in {Lit} \X Literals : Shaped(what)
    BY <1>3 DEF Shaped
  <1>5. \A what \in {Symb} \X Symbols : Shaped(what)
    BY <1>3 DEF Shaped
  <1>6. \A what \in {Jmp} \X Nat : Shaped(what)
    BY <1>3 DEF Shaped
  <1>7. QED
    BY <1>1, <1>2, <1>4, <1>5, <1>6, Zenon DEF Whats

Sizes(code) == Each(LAMBDA insn : Len(insn.what), code)
LEMMA SizesType ==
  ASSUME NEW code \in Seq(Insns)
  PROVE  /\ Sizes(code) \in Seq(Nat) /\ Len(Sizes(code)) = Len(code) /\ Len(code) \in Nat
         /\ \A i \in 1 .. Len(code) : /\ Sizes(code)[i] = Len(code[i].what)
                                     /\ Len(code[i].what) \in {1, 2}
         /\ Ends(code) = Sums(Sizes(code))
  <1> DEFINE n == Len(code)
  <1>1. n \in Nat /\ DOMAIN code = 1 .. n
    OBVIOUS
  <1>2. ASSUME NEW i \in 1 .. n PROVE Len(code[i].what) \in {1, 2}
    <2>1. code[i] \in Insns
      OBVIOUS
    <2>2. QED
      BY <2>1, WhatShape DEF Shaped
  <1> DEFINE s == Sizes(code)
  <1>3. s = [i \in 1 .. n |-> Len(code[i].what)]
    BY <1>1, Zenon DEF Sizes, Each
  <1>4. Ends(code) = Sums(s)
    BY Zenon DEF Ends, Sizes
  <1> HIDE DEF s, n
  <1>5. \A i \in 1 .. n : s[i] = Len(code[i].what)
    BY <1>3
  <1>6. s \in [1 .. n -> Nat]
    <2>1. \A i \in 1 .. n : s[i] \in Nat
      BY <1>2, <1>5
    <2>2. QED
      BY <1>3, <2>1
  <1>7. s \in Seq(Nat) /\ Len(s) = n
    BY <1>1, <1>6
  <1>8. QED
    BY <1>1, <1>2, <1>4, <1>5, <1>7 DEF s, n

LEMMA EndsEquation ==
  ASSUME NEW code \in Seq(Insns)
  PROVE  /\ Len(code) \in Nat /\ Ends(code)[0] = 0
         /\ \A i \in 1 .. Len(code) : /\ Ends(code)[i] = Ends(code)[i - 1] + Len(code[i].what)
                                     /\ Len(code[i].what) \in {1, 2}
         /\ \A i \in 0 .. Len(code) : Ends(code)[i] \in Nat
         /\ \A i \in 1 .. Len(code) : \A j \in i .. Len(code) : Ends(code)[i] <= Ends(code)[j]
  <1> DEFINE s == Sizes(code)
             n == Len(code)
             e == Ends(code)
  <1>1. /\ s \in Seq(Nat) /\ Len(s) = n /\ n \in Nat
        /\ \A i \in 1 .. n : s[i] = Len(code[i].what) /\ Len(code[i].what) \in {1, 2}
        /\ e = Sums(s)
    BY SizesType
  <1> HIDE DEF s, n, e
  <1>2. /\ e[0] = 0 /\ (\A i \in 1 .. n : e[i] = e[i - 1] + s[i])
        /\ \A i \in 0 .. n : e[i] \in Nat
    BY <1>1, SumsEquation
  <1>3. ASSUME NEW i \in 1 .. n PROVE \A j \in i .. n : e[i] <= e[j]
    <2>1. \A j \in i .. n : e[i - 1] + s[i] <= e[j]
      BY <1>1, SumsGrow
    <2>2. QED
      BY <1>2, <2>1
  <1>4. \A i \in 1 .. n : e[i] = e[i - 1] + Len(code[i].what) /\ Len(code[i].what) \in {1, 2}
    BY <1>1, <1>2
  <1>5. QED
    BY <1>1, <1>2, <1>3, <1>4 DEF n, e

\* The ends of the first instructions depend on their lengths alone.
LEMMA EndsAgree ==
  ASSUME NEW code \in Seq(Insns), NEW other \in Seq(Insns), NEW n \in Nat,
         n <= Len(code), n <= Len(other),
         \A i \in 1 .. n : Len(code[i].what) = Len(other[i].what)
  PROVE  \A i \in 0 .. n : Ends(code)[i] = Ends(other)[i]
  <1> DEFINE a == Sizes(code)
             b == Sizes(other)
  <1>1. a \in Seq(Nat) /\ Len(a) = Len(code) /\ Len(code) \in Nat /\ Ends(code) = Sums(a)
        /\ \A i \in 1 .. Len(code) : a[i] = Len(code[i].what)
    BY SizesType
  <1>2. b \in Seq(Nat) /\ Len(b) = Len(other) /\ Len(other) \in Nat /\ Ends(other) = Sums(b)
        /\ \A i \in 1 .. Len(other) : b[i] = Len(other[i].what)
    BY SizesType
  <1> HIDE DEF a, b
  <1>3. \A i \in 1 .. n : a[i] = b[i]
    <2> TAKE i \in 1 .. n
    <2>1. i \in 1 .. Len(code) /\ i \in 1 .. Len(other)
      BY <1>1, <1>2
    <2>2. QED
      BY <1>1, <1>2, <2>1, Zenon
  <1>4. \A i \in 0 .. n : Sums(a)[i] = Sums(b)[i]
    BY <1>1, <1>2, <1>3, SumsAgree
  <1>5. QED
    BY <1>1, <1>2, <1>4, Zenon

--------------------------------------------------------------------------------
(* The buffer.                                                                  *)

\* The fields of a scope that have nothing to do with its buffer.
Untouched(s, t) ==
  /\ DOMAIN t = ScopeFields /\ t.line = s.line /\ t.pool = s.pool /\ t.syms = s.syms
  /\ t.cap = s.cap /\ t.reps = s.reps /\ t.handlers = s.handlers /\ t.lv = s.lv /\ t.asked = s.asked

LEMMA PaddedLength ==
  ASSUME NEW S, 0 \in S, NEW seq \in Seq(S), NEW n \in Nat, Len(seq) <= n
  PROVE  LET padded == seq \o [i \in 1 .. n - Len(seq) |-> 0] IN
           /\ padded \in Seq(S) /\ Len(padded) = n
           /\ \A k \in 1 .. Len(seq) : padded[k] = seq[k]
  <1> DEFINE m   == n - Len(seq)
             pad == [i \in 1 .. m |-> 0]
  <1>1. m \in Nat /\ Len(seq) \in Nat /\ Len(seq) + m = n
    OBVIOUS
  <1> HIDE DEF m
  <1>2. pad \in Seq(S) /\ Len(pad) = m
    BY <1>1
  <1> HIDE DEF pad
  <1>3. /\ seq \o pad \in Seq(S) /\ Len(seq \o pad) = Len(seq) + Len(pad)
        /\ \A k \in 1 .. Len(seq) + Len(pad) :
              (seq \o pad)[k] = IF k <= Len(seq) THEN seq[k] ELSE pad[k - Len(seq)]
    BY <1>2, ConcatProperties
  <1>4. \A k \in 1 .. Len(seq) : (seq \o pad)[k] = seq[k]
    <2> TAKE k \in 1 .. Len(seq)
    <2>1. k \in 1 .. Len(seq) + Len(pad) /\ k <= Len(seq)
      BY <1>1, <1>2
    <2>2. QED
      BY <1>3, <2>1, Zenon
  <1>5. Len(seq \o pad) = n
    BY <1>1, <1>2, <1>3
  <1>6. QED
    BY <1>3, <1>4, <1>5, Zenon DEF pad, m

LEMMA GrownEffect ==
  ASSUME NEW s, Buffered(s), NEW pos \in 0 .. Len(s.iseq)
  PROVE  LET g == Grown(s, pos) IN
           /\ Untouched(s, g) /\ g.pc = s.pc /\ g.lastpc = s.lastpc
           /\ g.iseq \in Seq(Nat) /\ g.lines \in LineTable /\ Len(g.lines) = Len(g.iseq)
           /\ Len(s.iseq) <= Len(g.iseq) /\ pos < Len(g.iseq) /\ Len(g.iseq) \in Nat
           /\ \A k \in 1 .. Len(s.iseq) : g.iseq[k] = s.iseq[k] /\ g.lines[k] = s.lines[k]
  <1> DEFINE n      == Len(s.iseq)
             double == 2 * (IF s.iseq = <<>> THEN 1 ELSE n)
             size   == IF pos < n THEN n ELSE IF double > pos + 1 THEN double ELSE pos + 1
             a      == s.iseq \o [i \in 1 .. size - n |-> 0]
             b      == s.lines \o [i \in 1 .. size - Len(s.lines) |-> 0]
             g      == [s EXCEPT !.iseq = a, !.lines = b]
  <1>1. /\ DOMAIN s = ScopeFields /\ s.iseq \in Seq(Nat) /\ s.lines \in Seq(LineType)
        /\ Len(s.lines) = n /\ n \in Nat
    BY DEF Buffered, LineTable, LineType
  <1>2. Grown(s, pos) = g
    BY Zenon DEF Grown
  <1>3. size \in Nat /\ n <= size /\ pos < size
    <2>1. s.iseq = <<>> => n = 0
      OBVIOUS
    <2>2. double \in Nat /\ double >= n
      BY <1>1, <2>1
    <2> HIDE DEF double, n
    <2>3. QED
      BY <1>1, <2>2 DEF n
  <1> HIDE DEF size, n
  <1>4. a \in Seq(Nat) /\ Len(a) = size /\ \A k \in 1 .. n : a[k] = s.iseq[k]
    BY <1>1, <1>3, PaddedLength DEF n
  <1>5. b \in Seq(LineType) /\ Len(b) = size /\ \A k \in 1 .. n : b[k] = s.lines[k]
    <2>1. 0 \in LineType
      BY BaseType DEF LineType
    <2>2. QED
      BY <1>1, <1>3, <2>1, PaddedLength
  <1> HIDE DEF a, b
  <1>6. Untouched(s, g) /\ g.pc = s.pc /\ g.lastpc = s.lastpc /\ g.iseq = a /\ g.lines = b
    BY <1>1 DEF Untouched, ScopeFields
  <1> HIDE DEF g
  <1>7. QED
    BY <1>2, <1>3, <1>4, <1>5, <1>6, Zenon DEF LineTable, LineType, n

LEMMA PokeBEffect ==
  ASSUME NEW s, Buffered(s), NEW pos \in 0 .. Len(s.iseq), NEW byte \in Nat
  PROVE  LET t == PokeB(s, pos, byte) IN
           /\ Untouched(s, t) /\ t.pc = s.pc /\ t.lastpc = s.lastpc
           /\ t.iseq \in Seq(Nat) /\ t.lines \in LineTable /\ Len(t.lines) = Len(t.iseq)
           /\ Len(s.iseq) <= Len(t.iseq) /\ pos < Len(t.iseq) /\ Len(t.iseq) \in Nat
           /\ t.iseq[pos + 1] = byte
           /\ \A k \in 1 .. Len(s.iseq) : (k # pos + 1 => t.iseq[k] = s.iseq[k]) /\ t.lines[k] = s.lines[k]
  <1> DEFINE g == Grown(s, pos)
             a == g.iseq
             b == [a EXCEPT ![pos + 1] = byte]
             t == [g EXCEPT !.iseq = b]
  <1>1. /\ Untouched(s, g) /\ g.pc = s.pc /\ g.lastpc = s.lastpc
        /\ a \in Seq(Nat) /\ g.lines \in LineTable /\ Len(g.lines) = Len(a)
        /\ Len(s.iseq) <= Len(a) /\ pos < Len(a) /\ Len(a) \in Nat
        /\ \A k \in 1 .. Len(s.iseq) : a[k] = s.iseq[k] /\ g.lines[k] = s.lines[k]
    BY GrownEffect
  <1>2. PokeB(s, pos, byte) = t
    BY Zenon DEF PokeB
  <1>3. pos \in Nat /\ Len(s.iseq) \in Nat
    BY DEF Buffered
  <1> DEFINE old == g
  <1>4. b \in Seq(Nat) /\ Len(b) = Len(a) /\ b[pos + 1] = byte
        /\ \A k \in 1 .. Len(a) : k # pos + 1 => b[k] = a[k]
    <2> HIDE DEF a
    <2>1. pos + 1 \in 1 .. Len(a)
      BY <1>1, <1>3
    <2>2. QED
      BY <1>1, <2>1, ExceptSeq
  <1>5. \A k \in 1 .. Len(s.iseq) : k # pos + 1 => b[k] = s.iseq[k]
    <2> HIDE DEF a, b
    <2> TAKE k \in 1 .. Len(s.iseq)
    <2>1. k \in 1 .. Len(a)
      BY <1>1, <1>3
    <2>2. QED
      BY <1>1, <1>4, <2>1, Zenon
  <1> HIDE DEF b
  <1>6. DOMAIN g = ScopeFields
    BY <1>1 DEF Untouched
  <1>7. t.iseq = b /\ t.lines = g.lines /\ Untouched(g, t) /\ t.pc = g.pc /\ t.lastpc = g.lastpc
    <2> HIDE DEF g
    <2>1. QED
      BY <1>6 DEF Untouched, ScopeFields
  <1> HIDE DEF t
  <1>8. Untouched(s, t)
    BY <1>1, <1>7, Zenon DEF Untouched
  <1> HIDE DEF g
  <1>9. QED
    BY <1>1, <1>2, <1>4, <1>5, <1>7, <1>8, Zenon

LEMMA EmitBEffect ==
  ASSUME NEW s, Buffered(s), Unlined(s), NEW byte \in Nat
  PROVE  LET t == EmitB(s, byte) IN
           /\ Untouched(s, t) /\ Buffered(t) /\ Unlined(t)
           /\ t.pc = s.pc + 1 /\ t.lastpc = s.lastpc
           /\ t.iseq[s.pc + 1] = byte /\ t.lines[s.pc + 1] = s.line
           /\ \A k \in 1 .. s.pc : t.iseq[k] = s.iseq[k] /\ t.lines[k] = s.lines[k]
  <1> DEFINE p    == PokeB(s, s.pc, byte)
             line == IF s.line > 0 \/ s.pc = 0 THEN s.line ELSE p.lines[s.pc]
             b    == [p.lines EXCEPT ![s.pc + 1] = line]
             t    == [p EXCEPT !.lines = b, !.pc = s.pc + 1]
             pc   == s.pc
             n    == Len(s.iseq)
  <1>1. /\ pc \in 0 .. n /\ n \in Nat /\ s.line \in LineType /\ s.lastpc \in 0 .. pc
        /\ DOMAIN s.asked = {"locals", "code", "handlers", "reps"}
    BY DEF Buffered
  <1>2. /\ Untouched(s, p) /\ p.pc = pc /\ p.lastpc = s.lastpc
        /\ p.iseq \in Seq(Nat) /\ p.lines \in LineTable /\ Len(p.lines) = Len(p.iseq)
        /\ n <= Len(p.iseq) /\ pc < Len(p.iseq) /\ Len(p.iseq) \in Nat
        /\ p.iseq[pc + 1] = byte
        /\ \A k \in 1 .. n : (k # pc + 1 => p.iseq[k] = s.iseq[k]) /\ p.lines[k] = s.lines[k]
    BY <1>1, PokeBEffect
  <1>3. EmitB(s, byte) = t
    BY Zenon DEF EmitB
  <1> HIDE DEF p, n
  <1>4. line = s.line
    <2>1. CASE s.line > 0 \/ pc = 0
      BY <2>1
    <2>2. CASE ~(s.line > 0 \/ pc = 0)
      <3>1. s.line = 0 /\ pc \in 1 .. pc /\ pc \in 1 .. n
        BY <1>1, <2>2, BaseType DEF LineType
      <3>2. p.lines[pc] = s.lines[pc] /\ s.lines[pc] = 0
        BY <1>2, <3>1 DEF Unlined
      <3>3. QED
        BY <2>2, <3>1, <3>2
    <2>3. QED
      BY <2>1, <2>2
  <1> HIDE DEF line
  <1>5. b \in LineTable /\ Len(b) = Len(p.lines) /\ b[pc + 1] = line
        /\ \A k \in 1 .. Len(p.lines) : k # pc + 1 => b[k] = p.lines[k]
    <2>1. pc + 1 \in 1 .. Len(p.lines) /\ p.lines \in Seq(LineType) /\ line \in LineType
      BY <1>1, <1>2, <1>4 DEF LineTable, LineType
    <2> HIDE DEF pc
    <2>2. [p.lines EXCEPT ![pc + 1] = line] \in Seq(LineType)
          /\ Len([p.lines EXCEPT ![pc + 1] = line]) = Len(p.lines)
          /\ \A k \in 1 .. Len(p.lines) :
                [p.lines EXCEPT ![pc + 1] = line][k] = IF k = pc + 1 THEN line ELSE p.lines[k]
      BY <2>1, ExceptSeq
    <2>3. b \in Seq(LineType) /\ Len(b) = Len(p.lines)
          /\ \A k \in 1 .. Len(p.lines) : b[k] = IF k = pc + 1 THEN line ELSE p.lines[k]
      BY <2>2, Zenon DEF pc
    <2> HIDE DEF b
    <2>4. QED
      BY <2>1, <2>3 DEF LineTable, LineType
  <1>6. \A k \in 1 .. pc : b[k] = s.lines[k] /\ p.iseq[k] = s.iseq[k]
    <2> HIDE DEF b
    <2> TAKE k \in 1 .. pc
    <2>1. k \in 1 .. Len(p.lines) /\ k # pc + 1 /\ k \in 1 .. n
      BY <1>1, <1>2
    <2>2. QED
      BY <1>2, <1>5, <2>1, Zenon
  <1> HIDE DEF b
  <1>7. t.iseq = p.iseq /\ t.lines = b /\ t.pc = pc + 1 /\ t.lastpc = s.lastpc /\ Untouched(p, t)
    BY <1>2 DEF Untouched, ScopeFields
  <1> HIDE DEF t
  <1>8. Untouched(s, t)
    BY <1>2, <1>7, Zenon DEF Untouched
  <1>9. Buffered(t)
    <2>1. t.asked = s.asked /\ t.line = s.line /\ DOMAIN t = ScopeFields
      BY <1>8 DEF Untouched
    <2>2. t.pc \in 0 .. Len(t.iseq) /\ t.lastpc \in 0 .. t.pc /\ Len(t.lines) = Len(t.iseq)
          /\ t.iseq \in Seq(Nat) /\ t.lines \in LineTable
      BY <1>1, <1>2, <1>5, <1>7
    <2>3. QED
      BY <1>1, <2>1, <2>2 DEF Buffered
  <1>10. Unlined(t)
    <2>1. SUFFICES ASSUME t.line = 0, NEW k \in 1 .. t.pc PROVE t.lines[k] = 0
      BY DEF Unlined
    <2>2. s.line = 0
      BY <1>8, <2>1 DEF Untouched
    <2>3. CASE k = pc + 1
      BY <1>4, <1>5, <1>7, <2>2, <2>3
    <2>4. CASE k # pc + 1
      <3>1. k \in 1 .. pc
        BY <1>1, <1>7, <2>4
      <3>2. QED
        BY <1>6, <1>7, <2>2, <3>1 DEF Unlined
    <2>5. QED
      BY <2>3, <2>4
  <1>11. QED
    BY <1>2, <1>3, <1>4, <1>5, <1>6, <1>7, <1>8, <1>9, <1>10, Zenon

--------------------------------------------------------------------------------
(* What the code says.                                                          *)

LEMMA InsnStays ==
  ASSUME NEW insn \in Insns, NEW at, NEW iseq, NEW lines, NEW pool, NEW syms,
         InsnSays(insn, at, iseq, lines, pool, syms),
         NEW iseq2, NEW lines2, NEW pool2, NEW syms2,
         \A k \in 1 .. Len(insn.what) : iseq2[at + k] = iseq[at + k] /\ lines2[at + k] = lines[at + k],
         Extends(pool, pool2), Extends(syms, syms2)
  PROVE  InsnSays(insn, at, iseq2, lines2, pool2, syms2)
  <1> DEFINE what == insn.what
             x == iseq[at + 2]
             y == iseq2[at + 2]
  <1>1. Shaped(what)
    BY WhatShape
  <1>2. Len(what) \in {1, 2} /\ (what[1] # Plain => Len(what) = 2)
    BY <1>1 DEF Shaped
  <1>3. iseq2[at + 1] = iseq[at + 1]
    <2>1. 1 \in 1 .. Len(what)
      BY <1>2
    <2>2. QED
      BY <2>1, Zenon
  <1>4. what[1] # Plain => y = x
    <2>1. what[1] # Plain => 2 \in 1 .. Len(what)
      BY <1>2
    <2>2. QED
      BY <2>1, Zenon
  <1>5. /\ iseq[at + 1] = what[1]
        /\ what[1] = Lit  => x + 1 \in DOMAIN pool /\ Same(pool[x + 1], what[2])
        /\ what[1] = Symb => x + 1 \in DOMAIN syms /\ syms[x + 1] = <<what[2]>>
        /\ what[1] = Jmp  => x = what[2]
        /\ \A k \in 1 .. Len(what) : lines[at + k] = insn.line
    BY Zenon DEF InsnSays
  <1>6. what[1] = Lit => y + 1 \in DOMAIN pool2 /\ Same(pool2[y + 1], what[2])
    <2>1. SUFFICES ASSUME what[1] = Lit PROVE y + 1 \in DOMAIN pool2 /\ Same(pool2[y + 1], what[2])
      OBVIOUS
    <2>2. what[1] # Plain
      BY <2>1 DEF Lit, Plain
    <2>3. y = x /\ x + 1 \in DOMAIN pool /\ Same(pool[x + 1], what[2])
      BY <1>4, <1>5, <2>1, <2>2, Zenon
    <2>4. x + 1 \in DOMAIN pool2 /\ pool2[x + 1] = pool[x + 1]
      BY <2>3, Zenon DEF Extends
    <2>5. Same(pool2[x + 1], what[2])
      BY <2>3, <2>4, Zenon
    <2> HIDE DEF x, y
    <2>6. QED
      BY <2>3, <2>4, <2>5, Zenon
  <1>7. what[1] = Symb => y + 1 \in DOMAIN syms2 /\ syms2[y + 1] = <<what[2]>>
    <2>1. SUFFICES ASSUME what[1] = Symb PROVE y + 1 \in DOMAIN syms2 /\ syms2[y + 1] = <<what[2]>>
      OBVIOUS
    <2>2. what[1] # Plain
      BY <2>1 DEF Symb, Plain
    <2>3. y = x /\ x + 1 \in DOMAIN syms /\ syms[x + 1] = <<what[2]>>
      BY <1>4, <1>5, <2>1, <2>2, Zenon
    <2>4. QED
      BY <2>3, Zenon DEF Extends
  <1>8. what[1] = Jmp => y = what[2]
    <2>1. what[1] = Jmp => what[1] # Plain
      BY DEF Jmp, Plain
    <2>2. QED
      BY <1>4, <1>5, <2>1, Zenon
  <1>9. \A k \in 1 .. Len(what) : lines2[at + k] = insn.line
    BY <1>5, Zenon
  <1>10. QED
    BY <1>3, <1>5, <1>6, <1>7, <1>8, <1>9, Zenon DEF InsnSays

\* The bytes of an instruction are before the end of the code.
LEMMA InsnInside ==
  ASSUME NEW code \in Seq(Insns), NEW i \in 1 .. Len(code), NEW k \in 1 .. Len(code[i].what)
  PROVE  /\ Ends(code)[i - 1] + k \in 1 .. Ends(code)[Len(code)]
         /\ Ends(code)[i - 1] + k <= Ends(code)[i] /\ Ends(code)[i - 1] \in Nat
  <1> DEFINE n == Len(code)
             e == Ends(code)
             m == Len(code[i].what)
             j == i - 1
  <1>1. /\ n \in Nat /\ (\A h \in 1 .. n : e[h] = e[h - 1] + Len(code[h].what) /\ Len(code[h].what) \in {1, 2})
        /\ (\A h \in 0 .. n : e[h] \in Nat) /\ \A h \in 1 .. n : \A g \in h .. n : e[h] <= e[g]
    BY EndsEquation
  <1> HIDE DEF e
  <1>2. e[i] = e[j] + m /\ m \in {1, 2}
    BY <1>1
  <1>3. e[i] <= e[n] /\ n \in 0 .. n /\ j \in 0 .. n /\ i \in 0 .. n
    <2>1. n \in i .. n
      BY <1>1
    <2>2. QED
      BY <1>1, <2>1
  <1>4. e[i] \in Nat /\ e[j] \in Nat /\ e[n] \in Nat
    BY <1>1, <1>3
  <1>5. k \in 1 .. m
    OBVIOUS
  <1> HIDE DEF m, n, j
  <1>6. e[j] + k \in 1 .. e[n] /\ e[j] + k <= e[i]
    BY <1>2, <1>3, <1>4, <1>5
  <1>7. QED
    BY <1>4, <1>6 DEF n, e, j

LEMMA CodeStays ==
  ASSUME NEW code \in Seq(Insns), NEW other \in Seq(Insns), Len(other) <= Len(code),
         \A i \in 1 .. Len(other) : other[i] = code[i],
         NEW iseq, NEW lines, NEW pool, NEW syms, CodeSays(code, iseq, lines, pool, syms),
         NEW iseq2, NEW lines2, NEW pool2, NEW syms2,
         \A k \in 1 .. Ends(other)[Len(other)] : iseq2[k] = iseq[k] /\ lines2[k] = lines[k],
         Extends(pool, pool2), Extends(syms, syms2)
  PROVE  /\ CodeSays(other, iseq2, lines2, pool2, syms2)
         /\ \A i \in 0 .. Len(other) : Ends(other)[i] = Ends(code)[i]
  <1> DEFINE n == Len(other)
  <1>1. n \in Nat /\ Len(code) \in Nat /\ DOMAIN other = 1 .. n /\ DOMAIN code = 1 .. Len(code)
    OBVIOUS
  <1>2. \A i \in 0 .. n : Ends(other)[i] = Ends(code)[i]
    <2>1. n <= Len(code) /\ n <= Len(other) /\ \A i \in 1 .. n : Len(other[i].what) = Len(code[i].what)
      BY <1>1
    <2>2. QED
      BY <1>1, <2>1, EndsAgree
  <1>3. ASSUME NEW i \in 1 .. n PROVE InsnSays(other[i], Ends(other)[i - 1], iseq2, lines2, pool2, syms2)
    <2> DEFINE at == Ends(other)[i - 1]
    <2>1. other[i] \in Insns /\ other[i] = code[i] /\ i \in DOMAIN code /\ i - 1 \in 0 .. n
      BY <1>1
    <2>2. at = Ends(code)[i - 1]
      BY <1>2, <2>1
    <2>3. InsnSays(other[i], at, iseq, lines, pool, syms)
      BY <2>1, <2>2, Zenon DEF CodeSays
    <2>4. ASSUME NEW k \in 1 .. Len(other[i].what)
          PROVE  iseq2[at + k] = iseq[at + k] /\ lines2[at + k] = lines[at + k]
      <3>1. at + k \in 1 .. Ends(other)[n]
        BY InsnInside
      <3> HIDE DEF at
      <3>2. QED
        BY <3>1, Zenon
    <2> HIDE DEF at
    <2>5. QED
      BY <2>1, <2>3, <2>4, InsnStays DEF at
  <1>4. QED
    BY <1>1, <1>2, <1>3, Zenon DEF CodeSays

\* Code says the same in another buffer that holds the same bytes and lines.
LEMMA CodeCopied ==
  ASSUME NEW code \in Seq(Insns), NEW iseq, NEW lines, NEW pool, NEW syms,
         CodeSays(code, iseq, lines, pool, syms), NEW iseq2, NEW lines2,
         \A k \in 1 .. Ends(code)[Len(code)] : iseq2[k] = iseq[k] /\ lines2[k] = lines[k]
  PROVE  CodeSays(code, iseq2, lines2, pool, syms)
  <1>1. Len(code) <= Len(code) /\ \A i \in 1 .. Len(code) : code[i] = code[i]
    OBVIOUS
  <1>2. Extends(pool, pool) /\ Extends(syms, syms)
    BY Zenon DEF Extends
  <1>3. QED
    BY <1>1, <1>2, CodeStays

LEMMA CodeGrows ==
  ASSUME NEW code \in Seq(Insns), NEW insn \in Insns, NEW iseq, NEW lines, NEW pool, NEW syms,
         CodeSays(code, iseq, lines, pool, syms),
         InsnSays(insn, Ends(code)[Len(code)], iseq, lines, pool, syms)
  PROVE  LET more == Append(code, insn)
             n    == Len(code)
         IN  /\ CodeSays(more, iseq, lines, pool, syms) /\ more \in Seq(Insns) /\ Len(more) = n + 1
             /\ Ends(more)[n] = Ends(code)[n] /\ Ends(more)[n + 1] = Ends(code)[n] + Len(insn.what)
             /\ n \in Nat
  <1> DEFINE more == Append(code, insn)
             n    == Len(code)
  <1>1. /\ more \in Seq(Insns) /\ Len(more) = n + 1 /\ n \in Nat /\ more[n + 1] = insn
        /\ DOMAIN more = 1 .. n + 1 /\ DOMAIN code = 1 .. n /\ \A i \in 1 .. n : more[i] = code[i]
    OBVIOUS
  <1> HIDE DEF more
  <1>2. \A i \in 0 .. n : Ends(more)[i] = Ends(code)[i]
    <2>1. n <= Len(more) /\ n <= Len(code) /\ \A i \in 1 .. n : Len(more[i].what) = Len(code[i].what)
      BY <1>1
    <2>2. QED
      BY <1>1, <2>1, EndsAgree
  <1>3. Ends(more)[n + 1] = Ends(more)[n] + Len(insn.what)
    <2>1. \A i \in 1 .. Len(more) : Ends(more)[i] = Ends(more)[i - 1] + Len(more[i].what)
      BY <1>1, EndsEquation
    <2>2. n + 1 \in 1 .. Len(more) /\ (n + 1) - 1 = n
      BY <1>1
    <2>3. Ends(more)[n + 1] = Ends(more)[(n + 1) - 1] + Len(more[n + 1].what)
      BY <2>1, <2>2, Zenon
    <2>4. QED
      BY <1>1, <2>2, <2>3, Zenon
  <1>4. ASSUME NEW i \in 1 .. n + 1 PROVE InsnSays(more[i], Ends(more)[i - 1], iseq, lines, pool, syms)
    <2>1. CASE i \in 1 .. n
      <3>1. i - 1 \in 0 .. n
        BY <1>1, <2>1
      <3>2. Ends(more)[i - 1] = Ends(code)[i - 1] /\ more[i] = code[i] /\ i \in DOMAIN code
        BY <1>1, <1>2, <2>1, <3>1
      <3>3. QED
        BY <3>2, Zenon DEF CodeSays
    <2>2. CASE i = n + 1
      <3>1. i - 1 = n /\ n \in 0 .. n
        BY <1>1, <2>2
      <3>2. Ends(more)[i - 1] = Ends(code)[n] /\ more[i] = insn
        BY <1>1, <1>2, <2>2, <3>1, Zenon
      <3>3. QED
        BY <3>2, Zenon
    <2>3. QED
      BY <1>1, <2>1, <2>2
  <1>5. Ends(more)[n] = Ends(code)[n]
    BY <1>1, <1>2
  <1>6. QED
    BY <1>1, <1>3, <1>4, <1>5, Zenon DEF CodeSays, more

--------------------------------------------------------------------------------
(* Instructions.                                                                *)

\* The fields that only opening and closing a scope is about.
Kin(s, t) == t.lv = s.lv /\ t.reps = s.reps /\ t.asked.reps = s.asked.reps

LEMMA AskEffect ==
  ASSUME NEW u, Buffered(u), NEW what
  PROVE  LET t == Ask(u, what) IN
           /\ DOMAIN t = ScopeFields /\ t.iseq = u.iseq /\ t.lines = u.lines /\ t.pc = u.pc
           /\ t.lastpc = u.lastpc /\ t.line = u.line /\ t.pool = u.pool /\ t.syms = u.syms
           /\ t.reps = u.reps /\ t.handlers = u.handlers /\ t.lv = u.lv
           /\ DOMAIN t.asked = DOMAIN u.asked
           /\ t.asked.code = Append(u.asked.code, [what |-> what, line |-> u.line])
           /\ t.asked.locals = u.asked.locals /\ t.asked.handlers = u.asked.handlers
           /\ t.asked.reps = u.asked.reps
  <1> DEFINE insn  == [what |-> what, line |-> u.line]
             asked == [u.asked EXCEPT !.code = Append(u.asked.code, insn)]
             t     == [u EXCEPT !.asked = asked]
  <1>1. DOMAIN u = ScopeFields /\ DOMAIN u.asked = {"locals", "code", "handlers", "reps"}
    BY DEF Buffered
  <1>2. Ask(u, what) = t
    BY Zenon DEF Ask
  <1> HIDE DEF insn
  <1>3. /\ DOMAIN asked = DOMAIN u.asked /\ asked.code = Append(u.asked.code, insn)
        /\ asked.locals = u.asked.locals /\ asked.handlers = u.asked.handlers
        /\ asked.reps = u.asked.reps
    BY <1>1
  <1> HIDE DEF asked
  <1>4. /\ DOMAIN t = ScopeFields /\ t.iseq = u.iseq /\ t.lines = u.lines /\ t.pc = u.pc
        /\ t.lastpc = u.lastpc /\ t.line = u.line /\ t.pool = u.pool /\ t.syms = u.syms
        /\ t.reps = u.reps /\ t.handlers = u.handlers /\ t.lv = u.lv /\ t.asked = asked
    BY <1>1 DEF ScopeFields
  <1> HIDE DEF t
  <1>5. QED
    BY <1>2, <1>3, <1>4, Zenon DEF insn

LEMMA PresentIs ==
  ASSUME NEW names, IsSequence(names)
  PROVE  DOMAIN Present(names) = 1 .. Len(names) /\ \A k \in 1 .. Len(names) : Present(names)[k] = <<names[k]>>
  <1>1. DOMAIN names = 1 .. Len(names)
    BY LengthType
  <1>2. Present(names) = [k \in 1 .. Len(names) |-> <<names[k]>>]
    BY <1>1, Zenon DEF Present, Each
  <1> DEFINE p == Present(names)
  <1> HIDE DEF p
  <1>3. DOMAIN p = 1 .. Len(names) /\ \A k \in 1 .. Len(names) : p[k] = <<names[k]>>
    BY <1>2, Zenon DEF p
  <1>4. QED
    BY <1>3 DEF p

LEMMA ExtendsItself ==
  ASSUME NEW p
  PROVE  Extends(p, p)
  BY Zenon DEF Extends

\* An instruction added at the end of sound code, whose bytes say what it is for.
LEMMA InsnSound ==
  ASSUME NEW s, Sound(s), NEW u, Untouched(s, u), Buffered(u), Unlined(u), NEW what \in Whats,
         u.lastpc = s.pc, u.pc = s.pc + Len(what),
         \A k \in 1 .. s.pc : u.iseq[k] = s.iseq[k] /\ u.lines[k] = s.lines[k],
         InsnSays([what |-> what, line |-> s.line], s.pc, u.iseq, u.lines, s.pool, Present(s.syms))
  PROVE  Sound(Ask(u, what)) /\ Kin(s, Ask(u, what))
  <1> DEFINE t    == Ask(u, what)
             insn == [what |-> what, line |-> s.line]
             code == s.asked.code
             more == Append(code, insn)
             n    == Len(code)
  <1>1. /\ DOMAIN t = ScopeFields /\ t.iseq = u.iseq /\ t.lines = u.lines /\ t.pc = u.pc
        /\ t.lastpc = u.lastpc /\ t.line = s.line /\ t.pool = s.pool /\ t.syms = s.syms
        /\ t.reps = s.reps /\ t.handlers = s.handlers /\ t.lv = s.lv
        /\ DOMAIN t.asked = DOMAIN u.asked /\ t.asked.code = more
        /\ t.asked.locals = s.asked.locals /\ t.asked.handlers = s.asked.handlers
        /\ t.asked.reps = s.asked.reps
    BY AskEffect DEF Untouched
  <1> HIDE DEF t
  <1>2. /\ Buffered(s) /\ IsSequence(s.pool) /\ IsSequence(s.syms)
        /\ code \in Seq(Insns) /\ s.pc = Ends(code)[n]
        /\ CodeSays(code, s.iseq, s.lines, s.pool, Present(s.syms))
        /\ s.lv \in Seq(Names) /\ s.asked.locals = s.lv /\ s.asked.handlers = s.handlers
        /\ IsSequence(s.reps) /\ IsSequence(s.asked.reps) /\ Len(s.reps) = Len(s.asked.reps)
    BY Zenon DEF Sound, Spelled
  <1>3. insn \in Insns /\ insn.what = what
    BY <1>2 DEF Insns, Buffered
  <1> HIDE DEF insn, code, n
  <1>4. CodeSays(code, u.iseq, u.lines, s.pool, Present(s.syms))
    <2>1. \A k \in 1 .. Ends(code)[Len(code)] : u.iseq[k] = s.iseq[k] /\ u.lines[k] = s.lines[k]
      BY <1>2, Zenon DEF n
    <2>2. code \in Seq(Insns) /\ CodeSays(code, s.iseq, s.lines, s.pool, Present(s.syms))
      BY <1>2, Zenon
    <2>3. QED
      BY <2>1, <2>2, CodeCopied
  <1>5. InsnSays(insn, Ends(code)[n], u.iseq, u.lines, s.pool, Present(s.syms))
    BY <1>2, Zenon DEF insn
  <1>6. /\ CodeSays(more, u.iseq, u.lines, s.pool, Present(s.syms))
        /\ more \in Seq(Insns) /\ Len(more) = n + 1 /\ n \in Nat
        /\ Ends(more)[n] = s.pc /\ Ends(more)[n + 1] = s.pc + Len(what)
    BY <1>2, <1>3, <1>4, <1>5, CodeGrows DEF n
  <1> HIDE DEF more
  <1>7. Buffered(t)
    BY <1>1 DEF Buffered, Untouched
  <1>8. Spelled(t)
    <2>1. t.pc = Ends(more)[Len(more)]
      BY <1>1, <1>6 DEF Untouched
    <2>2. QED
      BY <1>1, <1>2, <1>6, <2>1, Zenon DEF Spelled
  <1>9. Unlined(t)
    BY <1>1 DEF Unlined, Untouched
  <1>10. t.lastpc = Ends(t.asked.code)[Len(t.asked.code) - 1]
    <2>1. Len(more) - 1 = n
      BY <1>6
    <2>2. QED
      BY <1>1, <1>6, <2>1, Zenon
  <1>11. Sound(t)
    BY <1>1, <1>2, <1>7, <1>8, <1>9, <1>10, Zenon DEF Sound
  <1>12. Kin(s, t)
    BY <1>1, Zenon DEF Kin
  <1>13. QED
    BY <1>11, <1>12, Zenon DEF t

\* An instruction starts by marking its place.
LEMMA MarkEffect ==
  ASSUME NEW s, Sound(s)
  PROVE  LET r == [s EXCEPT !.lastpc = s.pc] IN
           /\ Untouched(s, r) /\ Buffered(r) /\ Unlined(r)
           /\ r.pc = s.pc /\ r.lastpc = s.pc /\ r.iseq = s.iseq /\ r.lines = s.lines
  <1> DEFINE r == [s EXCEPT !.lastpc = s.pc]
  <1>1. Buffered(s) /\ Unlined(s)
    BY Zenon DEF Sound
  <1>2. /\ Untouched(s, r) /\ r.pc = s.pc /\ r.lastpc = s.pc /\ r.iseq = s.iseq /\ r.lines = s.lines
    BY <1>1 DEF Buffered, Untouched, ScopeFields
  <1> HIDE DEF r
  <1>3. Buffered(r)
    <2>1. r.lastpc \in 0 .. r.pc /\ r.pc \in 0 .. Len(r.iseq)
      BY <1>1, <1>2 DEF Buffered
    <2>2. QED
      BY <1>1, <1>2, <2>1 DEF Buffered, Untouched
  <1>4. Unlined(r)
    BY <1>1, <1>2 DEF Unlined, Untouched
  <1>5. QED
    BY <1>2, <1>3, <1>4, Zenon DEF r

LEMMA PlainSound ==
  ASSUME NEW s, Sound(s)
  PROVE  Sound(Insn0(s, Plain, <<Plain>>)) /\ Kin(s, Insn0(s, Plain, <<Plain>>))
  <1> DEFINE r == [s EXCEPT !.lastpc = s.pc]
             u == EmitB(r, Plain)
             what == <<Plain>>
             insn == [what |-> what, line |-> s.line]
  <1>1. Insn0(s, Plain, <<Plain>>) = Ask(u, what)
    BY Zenon DEF Insn0
  <1>2. /\ Untouched(s, r) /\ Buffered(r) /\ Unlined(r)
        /\ r.pc = s.pc /\ r.lastpc = s.pc /\ r.iseq = s.iseq /\ r.lines = s.lines
    BY MarkEffect
  <1> HIDE DEF r
  <1>3. /\ Untouched(r, u) /\ Buffered(u) /\ Unlined(u) /\ u.pc = r.pc + 1 /\ u.lastpc = r.lastpc
        /\ u.iseq[r.pc + 1] = Plain /\ u.lines[r.pc + 1] = r.line
        /\ \A k \in 1 .. r.pc : u.iseq[k] = r.iseq[k] /\ u.lines[k] = r.lines[k]
    <2>1. Buffered(r) /\ Unlined(r) /\ Plain \in Nat
      BY <1>2 DEF Plain
    <2>2. QED
      BY <2>1, EmitBEffect, Zenon
  <1> HIDE DEF u
  <1>4. Len(what) = 1 /\ what[1] = Plain /\ what \in Whats
    BY DEF Whats
  <1> HIDE DEF what
  <1>5. insn.what = what /\ insn.line = s.line
    OBVIOUS
  <1> HIDE DEF insn
  <1>6. u.lines[s.pc + 1] = s.line /\ u.iseq[s.pc + 1] = Plain
    BY <1>2, <1>3 DEF Untouched
  <1>7. InsnSays(insn, s.pc, u.iseq, u.lines, s.pool, Present(s.syms))
    <2>1. \A k \in 1 .. Len(what) : k = 1
      BY <1>4
    <2>2. \A k \in 1 .. Len(what) : u.lines[s.pc + k] = s.line
      BY <1>6, <2>1, Zenon
    <2>3. Plain # Lit /\ Plain # Symb /\ Plain # Jmp
      BY DEF Plain, Lit, Symb, Jmp
    <2>4. QED
      BY <1>4, <1>5, <1>6, <2>2, <2>3, Zenon DEF InsnSays
  <1>8. Untouched(s, u)
    BY <1>2, <1>3, Zenon DEF Untouched
  <1>9. u.lastpc = s.pc /\ u.pc = s.pc + Len(what)
        /\ \A k \in 1 .. s.pc : u.iseq[k] = s.iseq[k] /\ u.lines[k] = s.lines[k]
    BY <1>2, <1>3, <1>4
  <1>10. Sound(Ask(u, what)) /\ Kin(s, Ask(u, what))
    BY <1>3, <1>4, <1>7, <1>8, <1>9, InsnSound DEF insn
  <1>11. QED
    BY <1>1, <1>10, Zenon

LEMMA OperandSound ==
  ASSUME NEW s, Sound(s), NEW kind \in {Lit, Symb, Jmp}, NEW operand \in Nat,
         NEW what \in Whats, what[1] = kind,
         kind = Lit  => operand + 1 \in DOMAIN s.pool /\ Same(s.pool[operand + 1], what[2]),
         kind = Symb => operand + 1 \in DOMAIN s.syms /\ s.syms[operand + 1] = what[2],
         kind = Jmp  => operand = what[2]
  PROVE  Sound(Insn1(s, kind, operand, what)) /\ Kin(s, Insn1(s, kind, operand, what))
  <1> DEFINE r == [s EXCEPT !.lastpc = s.pc]
             v == EmitB(r, kind)
             u == EmitB(v, operand)
             insn == [what |-> what, line |-> s.line]
  <1>1. Insn1(s, kind, operand, what) = Ask(u, what)
    BY Zenon DEF Insn1
  <1>2. /\ Untouched(s, r) /\ Buffered(r) /\ Unlined(r)
        /\ r.pc = s.pc /\ r.lastpc = s.pc /\ r.iseq = s.iseq /\ r.lines = s.lines
    BY MarkEffect
  <1> HIDE DEF r
  <1>3. kind \in Nat /\ kind # Plain
    BY DEF Plain, Lit, Symb, Jmp
  <1>4. /\ Untouched(r, v) /\ Buffered(v) /\ Unlined(v) /\ v.pc = r.pc + 1 /\ v.lastpc = r.lastpc
        /\ v.iseq[r.pc + 1] = kind /\ v.lines[r.pc + 1] = r.line
        /\ \A k \in 1 .. r.pc : v.iseq[k] = r.iseq[k] /\ v.lines[k] = r.lines[k]
    <2>1. Buffered(r) /\ Unlined(r) /\ kind \in Nat
      BY <1>2, <1>3, Zenon
    <2>2. QED
      BY <2>1, EmitBEffect, Zenon
  <1> HIDE DEF v
  <1>5. /\ Untouched(v, u) /\ Buffered(u) /\ Unlined(u) /\ u.pc = v.pc + 1 /\ u.lastpc = v.lastpc
        /\ u.iseq[v.pc + 1] = operand /\ u.lines[v.pc + 1] = v.line
        /\ \A k \in 1 .. v.pc : u.iseq[k] = v.iseq[k] /\ u.lines[k] = v.lines[k]
    <2>1. Buffered(v) /\ Unlined(v) /\ operand \in Nat
      BY <1>4, Zenon
    <2>2. QED
      BY <2>1, EmitBEffect, Zenon
  <1> HIDE DEF u
  <1>6. s.pc \in Nat /\ IsSequence(s.pool) /\ IsSequence(s.syms) /\ s.line \in LineType
    <2>1. Buffered(s) /\ Spelled(s)
      BY Zenon DEF Sound
    <2>2. QED
      BY <2>1 DEF Buffered, Spelled
  <1>7. Len(what) = 2 /\ insn.what = what /\ insn.line = s.line
    <2>1. insn \in Insns
      BY <1>6 DEF Insns
    <2>2. QED
      BY <1>3, <2>1, WhatShape DEF Shaped
  <1> HIDE DEF insn
  <1>8. v.pc = s.pc + 1 /\ u.pc = s.pc + 2 /\ u.lastpc = s.pc
    BY <1>2, <1>4, <1>5, <1>6
  <1>9. /\ u.iseq[s.pc + 1] = kind /\ u.lines[s.pc + 1] = s.line
        /\ u.iseq[s.pc + 2] = operand /\ u.lines[s.pc + 2] = s.line
    <2>1. s.pc + 1 \in 1 .. v.pc /\ v.pc + 1 = s.pc + 2
      BY <1>6, <1>8
    <2>2. v.iseq[s.pc + 1] = kind /\ v.lines[s.pc + 1] = s.line /\ v.line = s.line
      BY <1>2, <1>4, Zenon DEF Untouched
    <2>3. QED
      BY <1>5, <2>1, <2>2, Zenon
  <1>10. \A k \in 1 .. s.pc : u.iseq[k] = s.iseq[k] /\ u.lines[k] = s.lines[k]
    <2> TAKE k \in 1 .. s.pc
    <2>1. k \in 1 .. v.pc /\ k \in 1 .. r.pc
      BY <1>2, <1>6, <1>8
    <2>2. QED
      BY <1>2, <1>4, <1>5, <2>1, Zenon
  <1>11. InsnSays(insn, s.pc, u.iseq, u.lines, s.pool, Present(s.syms))
    <2>1. \A k \in 1 .. Len(what) : k = 1 \/ k = 2
      BY <1>7
    <2>2. \A k \in 1 .. Len(what) : u.lines[s.pc + k] = s.line
      BY <1>9, <2>1, Zenon
    <2>3. kind = Symb => /\ operand + 1 \in DOMAIN Present(s.syms)
                         /\ Present(s.syms)[operand + 1] = <<what[2]>>
      <3>1. SUFFICES ASSUME kind = Symb
                     PROVE  /\ operand + 1 \in DOMAIN Present(s.syms)
                            /\ Present(s.syms)[operand + 1] = <<what[2]>>
        OBVIOUS
      <3>2. operand + 1 \in DOMAIN s.syms /\ s.syms[operand + 1] = what[2]
        BY <3>1
      <3>3. DOMAIN s.syms = 1 .. Len(s.syms)
        BY <1>6, LengthType
      <3>4. /\ DOMAIN Present(s.syms) = 1 .. Len(s.syms)
            /\ \A k \in 1 .. Len(s.syms) : Present(s.syms)[k] = <<s.syms[k]>>
        BY <1>6, PresentIs
      <3> DEFINE j == operand + 1
      <3>5. j \in 1 .. Len(s.syms) /\ s.syms[j] = what[2]
        BY <3>2, <3>3, Zenon
      <3> HIDE DEF j
      <3>6. j \in DOMAIN Present(s.syms) /\ Present(s.syms)[j] = <<what[2]>>
        BY <3>4, <3>5, Zenon
      <3>7. QED
        BY <3>6, Zenon DEF j
    <2>4. QED
      BY <1>7, <1>9, <2>2, <2>3, Zenon DEF InsnSays
  <1>12. Untouched(s, u)
    BY <1>2, <1>4, <1>5, Zenon DEF Untouched
  <1>13. Sound(Ask(u, what)) /\ Kin(s, Ask(u, what))
    BY <1>5, <1>7, <1>8, <1>10, <1>11, <1>12, InsnSound DEF insn
  <1>14. QED
    BY <1>1, <1>13, Zenon

\* New literals and symbols leave the places of the others alone.
LEMMA NewLitSound ==
  ASSUME NEW s, Sound(s), NEW literal
  PROVE  LET t     == NewLit(s, literal)
             place == LitPlace(t, literal)
         IN  /\ Sound(t) /\ Kin(s, t)
             /\ place \in DOMAIN t.pool /\ place - 1 \in Nat /\ Same(t.pool[place], literal)
  <1> DEFINE entry == PoolValue(IF literal.type = "Int" THEN "Int64" ELSE literal.type, literal.data)
             pool  == Append(s.pool, entry)
             u     == [s EXCEPT !.pool = pool]
             t     == NewLit(s, literal)
             place == LitPlace(t, literal)
  <1>1. /\ Buffered(s) /\ Spelled(s) /\ Unlined(s) /\ IsSequence(s.pool) /\ IsSequence(s.syms)
        /\ s.asked.code \in Seq(Insns) /\ s.pc = Ends(s.asked.code)[Len(s.asked.code)]
        /\ CodeSays(s.asked.code, s.iseq, s.lines, s.pool, Present(s.syms))
    BY Zenon DEF Sound, Spelled
  <1>2. CASE LitPlace(s, literal) # 0
    <2>1. t = s
      BY <1>2, Zenon DEF NewLit
    <2>2. /\ LitPlace(s, literal) \in 0 .. Len(s.pool)
          /\ Same(s.pool[LitPlace(s, literal)], literal)
          /\ DOMAIN s.pool = 1 .. Len(s.pool) /\ Len(s.pool) \in Nat
      BY <1>1, <1>2, LitPlaced, LengthType
    <2>3. LitPlace(s, literal) \in DOMAIN s.pool /\ LitPlace(s, literal) - 1 \in Nat
      BY <1>2, <2>2
    <2>4. QED
      BY <2>1, <2>2, <2>3, Zenon DEF Kin
  <1>3. CASE LitPlace(s, literal) = 0
    <2>1. t = u
      BY <1>3, Zenon DEF NewLit
    <2>2. Same(entry, literal)
      BY DEF Same, PoolValue
    <2> HIDE DEF entry, place, t
    <2>3. /\ IsSequence(pool) /\ Len(s.pool) \in Nat /\ Len(pool) = Len(s.pool) + 1
          /\ Extends(s.pool, pool) /\ pool[Len(s.pool) + 1] = entry
          /\ DOMAIN pool = 1 .. Len(s.pool) + 1
      BY <1>1, AppendsOne
    <2> HIDE DEF pool
    <2>4. /\ DOMAIN u = ScopeFields /\ u.pool = pool /\ u.iseq = s.iseq /\ u.lines = s.lines
          /\ u.pc = s.pc /\ u.lastpc = s.lastpc /\ u.line = s.line /\ u.syms = s.syms
          /\ u.reps = s.reps /\ u.handlers = s.handlers /\ u.lv = s.lv /\ u.asked = s.asked
      BY <1>1 DEF Buffered, ScopeFields
    <2> HIDE DEF u
    <2>5. CodeSays(s.asked.code, s.iseq, s.lines, pool, Present(s.syms))
      <3>1. Len(s.asked.code) <= Len(s.asked.code)
        BY <1>1
      <3>2. QED
        BY <1>1, <2>3, <3>1, ExtendsItself, CodeStays
    <2>6. Sound(u)
      <3>1. Buffered(u)
        BY <1>1, <2>4 DEF Buffered
      <3>2. Spelled(u)
        BY <1>1, <2>3, <2>4, <2>5, Zenon DEF Spelled
      <3>3. Unlined(u)
        BY <1>1, <2>4, Zenon DEF Unlined
      <3>4. QED
        BY <2>4, <3>1, <3>2, <3>3, Zenon DEF Sound
    <2>7. Kin(s, u)
      BY <2>4, Zenon DEF Kin
    <2>8. place \in 0 .. Len(u.pool) /\ (place # 0 => Same(u.pool[place], literal)) /\ place # 0
      <3>1. \E k \in 1 .. Len(u.pool) : Same(u.pool[k], literal)
        <4>1. Len(s.pool) + 1 \in 1 .. Len(u.pool)
          BY <2>3, <2>4
        <4>2. Same(u.pool[Len(s.pool) + 1], literal)
          BY <2>2, <2>3, <2>4, Zenon
        <4>3. QED
          BY <4>1, <4>2, Zenon
      <3>2. IsSequence(u.pool)
        BY <2>3, <2>4, Zenon
      <3>3. QED
        BY <2>1, <3>1, <3>2, LitPlaced DEF place
    <2>9. place \in DOMAIN u.pool /\ place - 1 \in Nat
      BY <2>3, <2>4, <2>8
    <2>10. QED
      BY <2>1, <2>6, <2>7, <2>8, <2>9, Zenon DEF place, t
  <1>4. QED
    BY <1>2, <1>3, Zenon

LEMMA NewSymSound ==
  ASSUME NEW s, Sound(s), NEW name
  PROVE  LET t     == NewSym(s, name)
             place == SymPlace(t, name)
         IN  /\ Sound(t) /\ Kin(s, t)
             /\ place \in DOMAIN t.syms /\ place - 1 \in Nat /\ t.syms[place] = name
  <1> DEFINE syms  == Append(s.syms, name)
             cap   == IF SymsFull(s) THEN 2 * s.cap ELSE s.cap
             u     == [s EXCEPT !.syms = syms, !.cap = cap]
             t     == NewSym(s, name)
             place == SymPlace(t, name)
  <1>1. /\ Buffered(s) /\ Spelled(s) /\ Unlined(s) /\ IsSequence(s.pool) /\ IsSequence(s.syms)
        /\ s.asked.code \in Seq(Insns) /\ s.pc = Ends(s.asked.code)[Len(s.asked.code)]
        /\ CodeSays(s.asked.code, s.iseq, s.lines, s.pool, Present(s.syms))
    BY Zenon DEF Sound, Spelled
  <1>2. CASE SymPlace(s, name) # 0
    <2>1. t = s
      BY <1>2, Zenon DEF NewSym
    <2>2. /\ SymPlace(s, name) \in 0 .. Len(s.syms)
          /\ s.syms[SymPlace(s, name)] = name
          /\ DOMAIN s.syms = 1 .. Len(s.syms) /\ Len(s.syms) \in Nat
      BY <1>1, <1>2, SymPlaced, LengthType
    <2>3. SymPlace(s, name) \in DOMAIN s.syms /\ SymPlace(s, name) - 1 \in Nat
      BY <1>2, <2>2
    <2>4. QED
      BY <2>1, <2>2, <2>3, Zenon DEF Kin
  <1>3. CASE SymPlace(s, name) = 0
    <2>1. t = u
      BY <1>3, Zenon DEF NewSym
    <2> HIDE DEF place, t, cap
    <2>2. /\ IsSequence(syms) /\ Len(s.syms) \in Nat /\ Len(syms) = Len(s.syms) + 1
          /\ Extends(s.syms, syms) /\ syms[Len(s.syms) + 1] = name
          /\ DOMAIN syms = 1 .. Len(s.syms) + 1
      BY <1>1, AppendsOne
    <2> HIDE DEF syms
    <2>3. /\ DOMAIN u = ScopeFields /\ u.syms = syms /\ u.iseq = s.iseq /\ u.lines = s.lines
          /\ u.pc = s.pc /\ u.lastpc = s.lastpc /\ u.line = s.line /\ u.pool = s.pool
          /\ u.reps = s.reps /\ u.handlers = s.handlers /\ u.lv = s.lv /\ u.asked = s.asked
      BY <1>1 DEF Buffered, ScopeFields
    <2> HIDE DEF u
    <2>4. Extends(Present(s.syms), Present(syms))
      <3>1. /\ DOMAIN Present(s.syms) = 1 .. Len(s.syms)
            /\ \A k \in 1 .. Len(s.syms) : Present(s.syms)[k] = <<s.syms[k]>>
        BY <1>1, PresentIs
      <3>2. /\ DOMAIN Present(syms) = 1 .. Len(syms)
            /\ \A k \in 1 .. Len(syms) : Present(syms)[k] = <<syms[k]>>
        BY <2>2, PresentIs
      <3>3. \A k \in 1 .. Len(s.syms) : k \in 1 .. Len(syms) /\ syms[k] = s.syms[k]
        <4>1. DOMAIN s.syms = 1 .. Len(s.syms)
          BY <1>1, LengthType
        <4>2. QED
          BY <2>2, <4>1 DEF Extends
      <3>4. QED
        BY <3>1, <3>2, <3>3, Zenon DEF Extends
    <2>5. CodeSays(s.asked.code, s.iseq, s.lines, s.pool, Present(syms))
      <3>1. Len(s.asked.code) <= Len(s.asked.code)
        BY <1>1
      <3>2. QED
        BY <1>1, <2>4, <3>1, ExtendsItself, CodeStays
    <2>6. Sound(u)
      <3>1. Buffered(u)
        BY <1>1, <2>3 DEF Buffered
      <3>2. Spelled(u)
        BY <1>1, <2>2, <2>3, <2>5, Zenon DEF Spelled
      <3>3. Unlined(u)
        BY <1>1, <2>3, Zenon DEF Unlined
      <3>4. QED
        BY <2>3, <3>1, <3>2, <3>3, Zenon DEF Sound
    <2>7. Kin(s, u)
      BY <2>3, Zenon DEF Kin
    <2>8. place \in 0 .. Len(u.syms) /\ (place # 0 => u.syms[place] = name) /\ place # 0
      <3>1. \E k \in 1 .. Len(u.syms) : u.syms[k] = name
        <4>1. Len(s.syms) + 1 \in 1 .. Len(u.syms)
          BY <2>2, <2>3
        <4>2. u.syms[Len(s.syms) + 1] = name
          BY <2>2, <2>3, Zenon
        <4>3. QED
          BY <4>1, <4>2, Zenon
      <3>2. IsSequence(u.syms)
        BY <2>2, <2>3, Zenon
      <3>3. QED
        BY <2>1, <3>1, <3>2, SymPlaced DEF place
    <2>9. place \in DOMAIN u.syms /\ place - 1 \in Nat
      BY <2>2, <2>3, <2>8
    <2>10. QED
      BY <2>1, <2>6, <2>7, <2>8, <2>9, Zenon DEF place, t
  <1>4. QED
    BY <1>2, <1>3, Zenon

LEMMA VisitSound ==
  ASSUME NEW s, Sound(s), NEW line \in 1 .. Halfword - 1
  PROVE  Sound([s EXCEPT !.line = line]) /\ Kin(s, [s EXCEPT !.line = line])
  <1> DEFINE t == [s EXCEPT !.line = line]
  <1>1. Buffered(s) /\ Spelled(s)
    BY Zenon DEF Sound
  <1>2. /\ DOMAIN t = ScopeFields /\ t.line = line /\ t.iseq = s.iseq /\ t.lines = s.lines
        /\ t.pc = s.pc /\ t.lastpc = s.lastpc /\ t.pool = s.pool /\ t.syms = s.syms
        /\ t.reps = s.reps /\ t.handlers = s.handlers /\ t.lv = s.lv /\ t.asked = s.asked
    BY <1>1 DEF Buffered, ScopeFields
  <1> HIDE DEF t
  <1>3. Buffered(t)
    <2>1. line \in LineType
      BY BaseType DEF LineType
    <2>2. QED
      BY <1>1, <1>2, <2>1 DEF Buffered
  <1>4. Spelled(t)
    BY <1>1, <1>2, Zenon DEF Spelled
  <1>5. Unlined(t)
    BY <1>2 DEF Unlined
  <1>6. Sound(t)
    BY <1>2, <1>3, <1>4, <1>5, Zenon DEF Sound
  <1>7. Kin(s, t)
    BY <1>2, Zenon DEF Kin
  <1>8. QED
    BY <1>6, <1>7, Zenon DEF t

LEMMA CatchSound ==
  ASSUME NEW s, Sound(s), NEW handler
  PROVE  LET t == [s EXCEPT !.handlers = Append(@, handler), !.asked.handlers = Append(@, handler)]
         IN  Sound(t) /\ Kin(s, t)
  <1> DEFINE hs    == Append(s.handlers, handler)
             asked == [s.asked EXCEPT !.handlers = Append(s.asked.handlers, handler)]
             t     == [s EXCEPT !.handlers = hs, !.asked = asked]
             old   == [s EXCEPT !.handlers = Append(@, handler), !.asked.handlers = Append(@, handler)]
  <1>1. Buffered(s) /\ Spelled(s) /\ s.asked.handlers = s.handlers /\ Unlined(s)
    BY Zenon DEF Sound
  <1>2. old = t
    BY Zenon
  <1>3. /\ DOMAIN asked = DOMAIN s.asked /\ asked.handlers = hs /\ asked.code = s.asked.code
        /\ asked.locals = s.asked.locals /\ asked.reps = s.asked.reps
    BY <1>1 DEF Buffered
  <1> HIDE DEF hs, asked
  <1>4. /\ DOMAIN t = ScopeFields /\ t.line = s.line /\ t.iseq = s.iseq /\ t.lines = s.lines
        /\ t.pc = s.pc /\ t.lastpc = s.lastpc /\ t.pool = s.pool /\ t.syms = s.syms
        /\ t.reps = s.reps /\ t.handlers = hs /\ t.lv = s.lv /\ t.asked = asked
    BY <1>1 DEF Buffered, ScopeFields
  <1> HIDE DEF t, old
  <1>5. Buffered(t)
    BY <1>1, <1>3, <1>4 DEF Buffered
  <1>6. Spelled(t)
    BY <1>1, <1>3, <1>4, Zenon DEF Spelled
  <1>7. Unlined(t)
    BY <1>1, <1>4, Zenon DEF Unlined
  <1>8. Sound(t)
    BY <1>3, <1>4, <1>5, <1>6, <1>7, Zenon DEF Sound
  <1>9. Kin(s, t)
    BY <1>3, <1>4, Zenon DEF Kin
  <1>10. QED
    BY <1>2, <1>8, <1>9, Zenon DEF old

\* Taking the last instruction back leaves the others, as lastpc is where it started.
LEMMA TakeBackSound ==
  ASSUME NEW s, Sound(s), s.lastpc < s.pc, s.asked.code # <<>>
  PROVE  LET t == [s EXCEPT !.pc = s.lastpc, !.asked.code = SubSeq(@, 1, Len(@) - 1)]
         IN  Sound(t) /\ Kin(s, t)
  <1> DEFINE code  == s.asked.code
             n     == Len(code) - 1
             less  == SubSeq(code, 1, n)
             asked == [s.asked EXCEPT !.code = less]
             t     == [s EXCEPT !.pc = s.lastpc, !.asked = asked]
             old   == [s EXCEPT !.pc = s.lastpc, !.asked.code = SubSeq(@, 1, Len(@) - 1)]
  <1>1. /\ Buffered(s) /\ IsSequence(s.pool) /\ IsSequence(s.syms) /\ Unlined(s)
        /\ code \in Seq(Insns) /\ s.lastpc = Ends(code)[n]
        /\ CodeSays(code, s.iseq, s.lines, s.pool, Present(s.syms))
    BY Zenon DEF Sound, Spelled
  <1>2. old = t
    BY Zenon
  <1>3. /\ less \in Seq(Insns) /\ Len(less) = n /\ n \in Nat /\ n <= Len(code)
        /\ \A i \in 1 .. n : less[i] = code[i]
    <2>1. n \in 0 .. Len(code) /\ n \in Nat
      BY <1>1
    <2> HIDE DEF n
    <2>2. QED
      BY <1>1, <2>1, FrontOf
  <1> HIDE DEF less
  <1>4. Ends(less)[n] = Ends(code)[n]
    <2>1. n <= Len(less) /\ n \in 0 .. n /\ \A i \in 1 .. n : Len(less[i].what) = Len(code[i].what)
      BY <1>3
    <2> HIDE DEF n, code
    <2>2. QED
      BY <1>1, <1>3, <2>1, EndsAgree
  <1>5. CodeSays(less, s.iseq, s.lines, s.pool, Present(s.syms))
    <2>1. Len(less) <= Len(code) /\ \A i \in 1 .. Len(less) : less[i] = code[i]
      BY <1>3
    <2> HIDE DEF code
    <2>2. QED
      BY <1>1, <1>3, <2>1, ExtendsItself, CodeStays
  <1>6. /\ DOMAIN asked = DOMAIN s.asked /\ asked.handlers = s.asked.handlers /\ asked.code = less
        /\ asked.locals = s.asked.locals /\ asked.reps = s.asked.reps
    BY <1>1 DEF Buffered
  <1> HIDE DEF asked
  <1>7. /\ DOMAIN t = ScopeFields /\ t.line = s.line /\ t.iseq = s.iseq /\ t.lines = s.lines
        /\ t.pc = s.lastpc /\ t.lastpc = s.lastpc /\ t.pool = s.pool /\ t.syms = s.syms
        /\ t.reps = s.reps /\ t.handlers = s.handlers /\ t.lv = s.lv /\ t.asked = asked
    BY <1>1 DEF Buffered, ScopeFields
  <1> HIDE DEF t, old
  <1>8. Buffered(t)
    <2>1. t.pc \in 0 .. Len(t.iseq) /\ t.lastpc \in 0 .. t.pc
      BY <1>1, <1>7 DEF Buffered
    <2>2. QED
      BY <1>1, <1>6, <1>7, <2>1 DEF Buffered
  <1>9. Spelled(t)
    <2>1. t.pc = Ends(t.asked.code)[Len(t.asked.code)]
      BY <1>1, <1>3, <1>4, <1>6, <1>7, Zenon
    <2> HIDE DEF n
    <2>2. QED
      BY <1>1, <1>3, <1>5, <1>6, <1>7, <2>1, Zenon DEF Spelled
  <1>10. Unlined(t)
    <2>1. \A k \in 1 .. s.lastpc : k \in 1 .. s.pc
      BY <1>1 DEF Buffered
    <2>2. QED
      BY <1>1, <1>7, <2>1, Zenon DEF Unlined
  <1>11. ~(t.lastpc < t.pc)
    BY <1>1, <1>7 DEF Buffered
  <1>12. Sound(t)
    <2>1. /\ s.lv \in Seq(Names) /\ s.asked.locals = s.lv /\ s.asked.handlers = s.handlers
          /\ IsSequence(s.reps) /\ IsSequence(s.asked.reps) /\ Len(s.reps) = Len(s.asked.reps)
      BY Zenon DEF Sound
    <2>2. QED
      BY <1>6, <1>7, <1>8, <1>9, <1>10, <1>11, <2>1, Zenon DEF Sound
  <1>13. Kin(s, t)
    BY <1>6, <1>7, Zenon DEF Kin
  <1>14. QED
    BY <1>2, <1>12, <1>13, Zenon DEF old

\* Patching a jump changes its operand, and no byte of another instruction.
LEMMA PatchSound ==
  ASSUME NEW s, Sound(s), NEW i \in DOMAIN s.asked.code, s.asked.code[i].what = <<Jmp, 0>>
  PROVE  LET p == PokeB(s, Ends(s.asked.code)[i - 1] + 1, s.pc)
             t == [p EXCEPT !.asked.code[i].what = <<Jmp, s.pc>>]
         IN  Sound(t) /\ Kin(s, t)
  <1> DEFINE code  == s.asked.code
             n     == Len(code)
             e     == Ends(code)
             at    == e[i - 1]
             p     == PokeB(s, at + 1, s.pc)
             insn  == [code[i] EXCEPT !.what = <<Jmp, s.pc>>]
             fixed == [code EXCEPT ![i] = insn]
             asked == [s.asked EXCEPT !.code = fixed]
             t     == [p EXCEPT !.asked = asked]
             old   == [p EXCEPT !.asked.code[i].what = <<Jmp, s.pc>>]
  <1>1. /\ Buffered(s) /\ IsSequence(s.pool) /\ IsSequence(s.syms) /\ Unlined(s)
        /\ code \in Seq(Insns) /\ s.pc = e[n]
        /\ (s.lastpc < s.pc /\ code # <<>> => s.lastpc = e[n - 1])
        /\ CodeSays(code, s.iseq, s.lines, s.pool, Present(s.syms))
    BY Zenon DEF Sound, Spelled
  <1>2. /\ s.pc \in Nat /\ s.pc \in 0 .. Len(s.iseq) /\ Len(s.iseq) \in Nat
        /\ DOMAIN s = ScopeFields /\ DOMAIN s.asked = {"locals", "code", "handlers", "reps"}
    BY <1>1 DEF Buffered
  <1>3. i \in 1 .. n /\ n \in Nat /\ code[i] \in Insns /\ DOMAIN code = 1 .. n
    BY <1>1
  <1>4. Len(code[i].what) = 2 /\ code[i].what[1] = Jmp
    OBVIOUS
  <1> HIDE DEF code, n, e
  <1>5. at + 2 \in 1 .. s.pc /\ at \in Nat
    <2>1. 2 \in 1 .. Len(code[i].what)
      BY <1>4
    <2>2. at + 2 \in 1 .. e[n] /\ at \in Nat
      BY <1>1, <1>3, <2>1, InsnInside DEF e, n
    <2>3. QED
      BY <1>1, <2>2
  <1>6. at + 1 \in 0 .. Len(s.iseq) /\ (at + 1) + 1 = at + 2
    <2> HIDE DEF at
    <2>1. QED
      BY <1>2, <1>5
  <1>7. /\ Untouched(s, p) /\ p.pc = s.pc /\ p.lastpc = s.lastpc
        /\ p.iseq \in Seq(Nat) /\ p.lines \in LineTable /\ Len(p.lines) = Len(p.iseq)
        /\ Len(s.iseq) <= Len(p.iseq) /\ Len(p.iseq) \in Nat
        /\ p.iseq[at + 2] = s.pc
        /\ \A k \in 1 .. Len(s.iseq) : (k # at + 2 => p.iseq[k] = s.iseq[k]) /\ p.lines[k] = s.lines[k]
    <2> HIDE DEF at
    <2> DEFINE q == at + 1
    <2>1. q \in 0 .. Len(s.iseq) /\ q + 1 = at + 2
      BY <1>6
    <2> HIDE DEF q
    <2>2. /\ Untouched(s, PokeB(s, q, s.pc)) /\ PokeB(s, q, s.pc).pc = s.pc
          /\ PokeB(s, q, s.pc).lastpc = s.lastpc
          /\ PokeB(s, q, s.pc).iseq \in Seq(Nat) /\ PokeB(s, q, s.pc).lines \in LineTable
          /\ Len(PokeB(s, q, s.pc).lines) = Len(PokeB(s, q, s.pc).iseq)
          /\ Len(s.iseq) <= Len(PokeB(s, q, s.pc).iseq) /\ Len(PokeB(s, q, s.pc).iseq) \in Nat
          /\ PokeB(s, q, s.pc).iseq[q + 1] = s.pc
          /\ \A k \in 1 .. Len(s.iseq) :
                /\ (k # q + 1 => PokeB(s, q, s.pc).iseq[k] = s.iseq[k])
                /\ PokeB(s, q, s.pc).lines[k] = s.lines[k]
      BY <1>1, <1>2, <2>1, PokeBEffect
    <2>3. p = PokeB(s, q, s.pc)
      BY Zenon DEF q
    <2> HIDE DEF p
    <2>4. QED
      BY <2>1, <2>2, <2>3, Zenon
  <1>8. DOMAIN p = ScopeFields /\ p.asked = s.asked
    BY <1>7 DEF Untouched
  <1>9. old = t
    BY <1>8, Zenon DEF code
  <1> HIDE DEF p, at
  <1>10. insn \in Insns /\ insn.what = <<Jmp, s.pc>> /\ insn.line = code[i].line
    <2>1. <<Jmp, s.pc>> \in Whats
      BY <1>2 DEF Whats
    <2>2. QED
      BY <1>3, <2>1 DEF Insns
  <1>11. Len(insn.what) = 2 /\ insn.what[1] = Jmp /\ insn.what[2] = s.pc
    BY <1>10
  <1> HIDE DEF insn
  <1>12. /\ fixed \in Seq(Insns) /\ Len(fixed) = n /\ DOMAIN fixed = 1 .. n
         /\ \A j \in 1 .. n : fixed[j] = IF j = i THEN insn ELSE code[j]
    <2>1. /\ [code EXCEPT ![i] = insn] \in Seq(Insns) /\ Len([code EXCEPT ![i] = insn]) = Len(code)
          /\ \A j \in 1 .. Len(code) : [code EXCEPT ![i] = insn][j] = IF j = i THEN insn ELSE code[j]
      BY <1>1, <1>3, <1>10, ExceptSeq DEF n
    <2>2. DOMAIN [code EXCEPT ![i] = insn] = 1 .. n
      BY <1>3
    <2>3. QED
      BY <2>1, <2>2, Zenon DEF n
  <1> HIDE DEF fixed
  <1>13. \A j \in 0 .. n : Ends(fixed)[j] = e[j]
    <2>1. \A j \in 1 .. n : Len(fixed[j].what) = Len(code[j].what)
      BY <1>4, <1>11, <1>12
    <2>2. n <= Len(fixed) /\ n <= Len(code)
      BY <1>3, <1>12 DEF n
    <2>3. QED
      BY <1>1, <1>3, <1>12, <2>1, <2>2, EndsAgree DEF e
  <1>14. CodeSays(fixed, p.iseq, p.lines, s.pool, Present(s.syms))
    <2>1. ASSUME NEW j \in 1 .. n
          PROVE  InsnSays(fixed[j], Ends(fixed)[j - 1], p.iseq, p.lines, s.pool, Present(s.syms))
      <3>1. j - 1 \in 0 .. n /\ i - 1 \in 0 .. n
        BY <1>3
      <3>2. Ends(fixed)[j - 1] = e[j - 1]
        BY <1>13, <3>1
      <3>3. InsnSays(code[j], e[j - 1], s.iseq, s.lines, s.pool, Present(s.syms))
        BY <1>1, <1>3, Zenon DEF CodeSays, e
      <3>4. ASSUME NEW k \in 1 .. Len(code[j].what)
            PROVE  /\ e[j - 1] + k \in 1 .. Len(s.iseq) /\ e[j - 1] + k <= e[j] /\ e[j - 1] \in Nat
        <4>1. e[j - 1] + k \in 1 .. e[n] /\ e[j - 1] + k <= e[j] /\ e[j - 1] \in Nat
          BY <1>1, InsnInside DEF e, n
        <4>2. QED
          BY <1>1, <1>2, <4>1
      <3>5. CASE j = i
        <4>1. InsnSays(code[i], at, s.iseq, s.lines, s.pool, Present(s.syms))
          BY <3>3, <3>5, Zenon DEF at
        <4>2. s.iseq[at + 1] = Jmp /\ \A k \in 1 .. 2 : s.lines[at + k] = code[i].line
          BY <1>4, <4>1, Zenon DEF InsnSays
        <4>3. p.iseq[at + 1] = Jmp
          <5>1. at + 1 \in 1 .. Len(s.iseq) /\ at + 1 # at + 2
            BY <1>2, <1>5
          <5>2. QED
            BY <1>7, <4>2, <5>1, Zenon
        <4>4. \A k \in 1 .. 2 : p.lines[at + k] = code[i].line
          <5> TAKE k \in 1 .. 2
          <5>1. at + k \in 1 .. Len(s.iseq)
            BY <1>2, <1>5
          <5>2. QED
            BY <1>7, <4>2, <5>1, Zenon
        <4>5. Jmp # Lit /\ Jmp # Symb
          BY DEF Jmp, Lit, Symb
        <4>6. InsnSays(insn, at, p.iseq, p.lines, s.pool, Present(s.syms))
          BY <1>7, <1>10, <1>11, <4>3, <4>4, <4>5, Zenon DEF InsnSays
        <4>7. fixed[j] = insn /\ Ends(fixed)[j - 1] = at
          BY <1>12, <3>2, <3>5, Zenon DEF at
        <4>8. QED
          BY <4>6, <4>7, Zenon
      <3>6. CASE j # i
        <4>1. fixed[j] = code[j] /\ code[j] \in Insns
          BY <1>1, <1>3, <1>12, <3>6 DEF n
        <4>2. ASSUME NEW k \in 1 .. Len(code[j].what) PROVE e[j - 1] + k # at + 2
          <5>1. /\ (\A h \in 1 .. n : e[h] = e[h - 1] + Len(code[h].what) /\ Len(code[h].what) \in {1, 2})
                /\ (\A h \in 0 .. n : e[h] \in Nat) /\ \A h \in 1 .. n : \A g \in h .. n : e[h] <= e[g]
            BY <1>1, EndsEquation DEF e, n
          <5>2. e[i] = at + 2 /\ e[j - 1] + k <= e[j] /\ e[j - 1] \in Nat /\ e[j] \in Nat /\ k >= 1
            <6>1. e[i] = e[i - 1] + Len(code[i].what)
              BY <1>3, <5>1, Zenon
            <6>2. e[i] = at + 2
              BY <1>4, <6>1, Zenon DEF at
            <6>3. e[j - 1] + k <= e[j] /\ e[j - 1] \in Nat
              BY <3>4, Zenon
            <6>4. k >= 1 /\ j \in 0 .. n
              BY <1>3
            <6>5. QED
              BY <5>1, <6>2, <6>3, <6>4, Zenon
          <5>3. CASE j < i
            <6>1. i - 1 \in j .. n
              BY <1>3, <5>3
            <6>2. e[j] <= at
              BY <5>1, <6>1, Zenon DEF at
            <6>3. QED
              BY <1>5, <5>2, <6>2
          <5>4. CASE j > i
            <6>1. j - 1 \in i .. n
              BY <1>3, <5>4
            <6>2. e[i] <= e[j - 1]
              BY <1>3, <5>1, <6>1, Zenon
            <6> DEFINE x == e[j - 1]
            <6>3. x \in Nat /\ at + 2 <= x /\ k \in Nat /\ k >= 1
              BY <5>2, <6>2
            <6> HIDE DEF x
            <6>4. x + k # at + 2
              BY <1>5, <6>3
            <6>5. QED
              BY <6>4, Zenon DEF x
          <5>5. QED
            BY <1>3, <3>6, <5>3, <5>4
        <4>3. \A k \in 1 .. Len(code[j].what) :
                 /\ p.iseq[e[j - 1] + k] = s.iseq[e[j - 1] + k]
                 /\ p.lines[e[j - 1] + k] = s.lines[e[j - 1] + k]
          BY <1>7, <3>4, <4>2, Zenon
        <4>4. InsnSays(code[j], e[j - 1], p.iseq, p.lines, s.pool, Present(s.syms))
          BY <3>3, <4>1, <4>3, ExtendsItself, InsnStays
        <4>5. QED
          BY <3>2, <4>1, <4>4, Zenon
      <3>7. QED
        BY <3>5, <3>6
    <2>2. QED
      BY <1>12, <2>1, Zenon DEF CodeSays
  <1>15. /\ DOMAIN asked = DOMAIN s.asked /\ asked.handlers = s.asked.handlers /\ asked.code = fixed
         /\ asked.locals = s.asked.locals /\ asked.reps = s.asked.reps
    BY <1>2
  <1> HIDE DEF asked
  <1>16. /\ DOMAIN t = ScopeFields /\ t.line = s.line /\ t.iseq = p.iseq /\ t.lines = p.lines
         /\ t.pc = s.pc /\ t.lastpc = s.lastpc /\ t.pool = s.pool /\ t.syms = s.syms
         /\ t.reps = s.reps /\ t.handlers = s.handlers /\ t.lv = s.lv /\ t.asked = asked
    <2>1. /\ DOMAIN t = ScopeFields /\ t.line = p.line /\ t.iseq = p.iseq /\ t.lines = p.lines
          /\ t.pc = p.pc /\ t.lastpc = p.lastpc /\ t.pool = p.pool /\ t.syms = p.syms
          /\ t.reps = p.reps /\ t.handlers = p.handlers /\ t.lv = p.lv /\ t.asked = asked
      BY <1>8 DEF ScopeFields
    <2> HIDE DEF t
    <2>2. QED
      BY <1>7, <2>1, Zenon DEF Untouched
  <1> HIDE DEF t, old
  <1>17. Buffered(t)
    <2>1. t.pc \in 0 .. Len(t.iseq) /\ t.lastpc \in 0 .. t.pc /\ t.line \in LineType
      BY <1>1, <1>2, <1>7, <1>16 DEF Buffered
    <2>2. QED
      BY <1>2, <1>7, <1>15, <1>16, <2>1, Zenon DEF Buffered
  <1>18. n \in 0 .. n /\ n - 1 \in 0 .. n
    BY <1>3
  <1>19. Spelled(t)
    <2>1. t.pc = Ends(t.asked.code)[Len(t.asked.code)]
      BY <1>1, <1>12, <1>13, <1>15, <1>16, <1>18, Zenon
    <2>2. QED
      BY <1>1, <1>12, <1>14, <1>15, <1>16, <2>1, Zenon DEF Spelled
  <1>20. Unlined(t)
    <2>1. \A k \in 1 .. s.pc : k \in 1 .. Len(s.iseq)
      BY <1>2
    <2>2. QED
      BY <1>1, <1>7, <1>16, <2>1, Zenon DEF Unlined
  <1>21. t.lastpc < t.pc => t.lastpc = Ends(t.asked.code)[Len(t.asked.code) - 1]
    <2>1. code # <<>>
      BY <1>3 DEF n
    <2>2. QED
      BY <1>1, <1>12, <1>13, <1>15, <1>16, <1>18, <2>1, Zenon
  <1>22. Sound(t)
    <2>1. /\ s.lv \in Seq(Names) /\ s.asked.locals = s.lv /\ s.asked.handlers = s.handlers
          /\ IsSequence(s.reps) /\ IsSequence(s.asked.reps) /\ Len(s.reps) = Len(s.asked.reps)
      BY Zenon DEF Sound
    <2>2. QED
      BY <1>15, <1>16, <1>17, <1>19, <1>20, <1>21, <2>1, Zenon DEF Sound
  <1>23. Kin(s, t)
    BY <1>15, <1>16, Zenon DEF Kin
  <1>24. QED
    BY <1>9, <1>22, <1>23, Zenon DEF old, p, at, e, code

--------------------------------------------------------------------------------
(* Opening and finishing a scope.                                               *)

LEMMA InTableStill ==
  ASSUME NEW name, NEW names, NEW more, InTable(name, names), Extends(names, more)
  PROVE  InTable(name, more)
  BY Zenon DEF InTable, Extends

LEMMA RegisteredEffect ==
  ASSUME NEW names \in Seq(Names), NEW name \in Names
  PROVE  /\ Registered(names, name) \in Seq(Names)
         /\ Extends(names, Registered(names, name)) /\ InTable(name, Registered(names, name))
  <1> DEFINE r == Registered(names, name)
  <1>1. CASE name = <<>> \/ Contains(names, name)
    <2>1. r = names
      BY <1>1, Zenon DEF Registered
    <2>2. InTable(name, names)
      <3>1. CASE name = <<>>
        BY <3>1, Zenon DEF InTable
      <3>2. CASE Contains(names, name)
        BY <3>2 DEF Contains, InTable
      <3>3. QED
        BY <1>1, <3>1, <3>2
    <2>3. QED
      BY <2>1, <2>2, ExtendsItself, Zenon
  <1>2. CASE ~(name = <<>> \/ Contains(names, name))
    <2>1. r = Append(names, name)
      BY <1>2, Zenon DEF Registered
    <2>2. IsSequence(names)
      BY Zenon DEF IsSequence
    <2>3. /\ Extends(names, Append(names, name)) /\ DOMAIN Append(names, name) = 1 .. Len(names) + 1
          /\ Append(names, name)[Len(names) + 1] = name /\ Len(names) \in Nat
      BY <2>2, AppendsOne
    <2>4. Len(names) + 1 \in DOMAIN Append(names, name)
      BY <2>3
    <2>5. Append(names, name) \in Seq(Names)
      OBVIOUS
    <2>6. QED
      BY <2>1, <2>3, <2>4, <2>5, Zenon DEF InTable
  <1>3. QED
    BY <1>1, <1>2

LEMMA RegisterEffect ==
  ASSUME NEW names \in Seq(Names), NEW locals \in Seq(Names)
  PROVE  /\ Register(names, locals) \in Seq(Names) /\ Extends(names, Register(names, locals))
         /\ \A k \in DOMAIN locals : InTable(locals[k], Register(names, locals))
  <1> DEFINE n     == Len(locals)
             V     == Seq(Names)
             step  == [i \in 1 .. n |-> [v \in V |-> Registered(v, locals[i])]]
             Eq(f) == f = [i \in 0 .. n |-> IF i = 0 THEN names ELSE Registered(f[i - 1], locals[i])]
  <1>1. n \in Nat /\ DOMAIN locals = 1 .. n /\ \A i \in 1 .. n : locals[i] \in Names
    <2>1. \A S : locals \in Seq(S) => \A i \in 1 .. Len(locals) : locals[i] \in S
      OBVIOUS
    <2>2. \A i \in 1 .. n : locals[i] \in Names
      BY <2>1, Zenon
    <2>3. QED
      BY <2>2
  <1> HIDE DEF n
  <1>2. step \in [1 .. n -> [V -> V]]
    <2>1. \A i \in 1 .. n : \A v \in V : Registered(v, locals[i]) \in V
      BY <1>1, RegisteredEffect
    <2> HIDE DEF V
    <2>2. QED
      BY <2>1
  <1>3. PICK f \in [0 .. n -> V] : Along(f, n, names, step)
    <2> HIDE DEF step, V
    <2>1. names \in V
      BY DEF V
    <2>2. QED
      BY <1>1, <1>2, <2>1, PrefixRecursion
  <1>4. f = [i \in 0 .. n |-> f[i]] /\ f[0] = names
    BY <1>3, Zenon DEF Along
  <1>5. ASSUME NEW i \in 1 .. n PROVE f[i] = Registered(f[i - 1], locals[i])
    <2>1. f[i] = step[i][f[i - 1]]
      BY <1>3, Zenon DEF Along
    <2>2. f[i - 1] \in V
      <3> HIDE DEF step, V
      <3>1. i - 1 \in 0 .. n
        BY <1>1
      <3>2. QED
        BY <3>1, Zenon
    <2>3. QED
      BY <2>1, <2>2, Zenon
  <1> HIDE DEF step, V
  <1>6. Eq(f)
    <2>1. \A i \in 0 .. n : f[i] = IF i = 0 THEN names ELSE Registered(f[i - 1], locals[i])
      <3>1. SUFFICES ASSUME NEW i \in 0 .. n, i # 0 PROVE i \in 1 .. n
        BY <1>4, <1>5
      <3>2. QED
        BY <3>1, <1>1
    <2>2. QED
      BY <1>4, <2>1, Zenon
  <1> DEFINE g == CHOOSE h : Eq(h)
  <1>7. Eq(g)
    BY <1>6, Zenon
  <1>8. Register(names, locals) = g[n]
    BY Zenon DEF Register, n
  <1> HIDE DEF g
  <1>9. g[0] = names /\ \A i \in 1 .. n : g[i] = Registered(g[i - 1], locals[i])
    <2>1. \A i \in 0 .. n : g[i] = IF i = 0 THEN names ELSE Registered(g[i - 1], locals[i])
      BY <1>7, Zenon
    <2>2. 0 \in 0 .. n /\ \A i \in 1 .. n : i \in 0 .. n /\ i # 0
      BY <1>1
    <2>3. QED
      BY <2>1, <2>2, Zenon
  <1> DEFINE Good(i, v) == /\ v \in V /\ Extends(names, v)
                           /\ \A k \in 1 .. n : k <= i => InTable(locals[k], v)
             W == [i \in Nat |-> {v \in V : Good(i, v)}]
  <1>10. Good(0, g[0])
    <2>1. \A k \in 1 .. n : ~(k <= 0)
      BY <1>1
    <2>2. QED
      BY <1>9, <2>1, ExtendsItself, Zenon DEF V
  <1>11. ASSUME NEW i \in 1 .. n, Good(i - 1, g[i - 1]) PROVE Good(i, g[i])
    <2> DEFINE v == g[i - 1]
               u == g[i]
    <2>1. u = Registered(v, locals[i]) /\ locals[i] \in Names /\ v \in Seq(Names)
      BY <1>1, <1>9, <1>11, Zenon DEF V
    <2> HIDE DEF v, u
    <2>2. u \in Seq(Names) /\ Extends(v, u) /\ InTable(locals[i], u)
      BY <2>1, RegisteredEffect
    <2>3. Extends(names, v) /\ \A k \in 1 .. n : k <= i - 1 => InTable(locals[k], v)
      BY <1>11, Zenon DEF v
    <2>4. Extends(names, u)
      BY <2>2, <2>3, Zenon DEF Extends
    <2>5. ASSUME NEW k \in 1 .. n, k <= i PROVE InTable(locals[k], u)
      <3>1. CASE k = i
        BY <2>2, <3>1, Zenon
      <3>2. CASE k # i
        <4>1. k <= i - 1
          BY <1>1, <2>5, <3>2
        <4>2. QED
          BY <2>2, <2>3, <4>1, InTableStill
      <3>3. QED
        BY <3>1, <3>2
    <2>6. QED
      BY <2>2, <2>4, <2>5, Zenon DEF u, V
  <1> HIDE DEF Good
  <1>12. \A i \in 0 .. n : g[i] \in W[i]
    <2>1. \A i \in Nat : \A v : v \in W[i] <=> v \in V /\ Good(i, v)
      BY Zenon
    <2>2. \A i \in Nat : \A v : Good(i, v) => v \in V
      BY Zenon DEF Good
    <2>3. \A i \in 1 .. n : i \in Nat /\ i - 1 \in Nat
      BY <1>1
    <2>4. g[0] \in W[0]
      BY <1>10, <2>1, <2>2, Zenon
    <2>5. \A i \in 1 .. n : g[i - 1] \in W[i - 1] => g[i] \in W[i]
      BY <1>11, <2>1, <2>2, <2>3, Zenon
    <2> HIDE DEF W
    <2>6. QED
      BY <1>1, <2>4, <2>5, FamilyInduction
  <1>13. n \in Nat /\ n \in 0 .. n /\ \A k \in 1 .. n : k <= n
    BY <1>1
  <1>14. Good(n, g[n])
    BY <1>12, <1>13, Zenon
  <1>15. QED
    BY <1>1, <1>8, <1>13, <1>14, Zenon DEF Good, V

LEMMA ScopeSound ==
  ASSUME NEW parent, parent.line \in LineType, NEW locals \in Seq(Names)
  PROVE  LET s == Scope(parent, locals) IN
           Sound(s) /\ s.lv = locals /\ s.reps = <<>> /\ s.asked.reps = <<>>
  <1> DEFINE s == Scope(parent, locals)
             empty == <<>>
  <1>1. /\ DOMAIN s = ScopeFields /\ s.iseq = empty /\ s.lines = empty /\ s.pc = 0 /\ s.lastpc = 0
        /\ s.line = parent.line /\ s.pool = empty /\ s.syms = empty /\ s.reps = empty
        /\ s.handlers = empty /\ s.lv = locals /\ s.asked = Body(locals)
    BY DEF Scope, ScopeFields
  <1>2. /\ DOMAIN s.asked = {"locals", "code", "handlers", "reps"} /\ s.asked.locals = locals
        /\ s.asked.code = empty /\ s.asked.handlers = empty /\ s.asked.reps = empty
    <2>1. /\ DOMAIN Body(locals) = {"locals", "code", "handlers", "reps"}
          /\ Body(locals).locals = locals /\ Body(locals).code = empty
          /\ Body(locals).handlers = empty /\ Body(locals).reps = empty
      BY DEF Body
    <2> HIDE DEF s, empty
    <2>2. QED
      BY <1>1, <2>1, Zenon
  <1>3. /\ Len(empty) = 0 /\ empty \in Seq(Insns) /\ empty \in Seq(Nat) /\ empty \in Seq(LineType)
        /\ DOMAIN empty = {}
    OBVIOUS
  <1> HIDE DEF s, empty
  <1>4. IsSequence(empty)
    BY <1>3, Zenon DEF IsSequence
  <1>5. Buffered(s)
    <2>1. 0 \in 0 .. 0
      OBVIOUS
    <2>2. QED
      BY <1>1, <1>2, <1>3, <2>1, Zenon DEF Buffered, LineTable, LineType
  <1>6. Spelled(s)
    <2>1. Ends(empty)[0] = 0
      BY <1>3, EndsEquation
    <2>2. CodeSays(empty, empty, empty, empty, Present(empty))
      BY <1>3, Zenon DEF CodeSays
    <2>3. QED
      BY <1>1, <1>2, <1>3, <1>4, <2>1, <2>2, Zenon DEF Spelled
  <1>7. Unlined(s)
    <2>1. \A k \in 1 .. 0 : FALSE
      OBVIOUS
    <2>2. QED
      BY <1>1, <2>1, Zenon DEF Unlined
  <1>8. Sound(s)
    <2>1. ~(0 < 0)
      OBVIOUS
    <2>2. QED
      BY <1>1, <1>2, <1>4, <1>5, <1>6, <1>7, <2>1, Zenon DEF Sound
  <1>9. QED
    BY <1>1, <1>2, <1>8, Zenon DEF s, empty

\* A finished scope says what it was asked for: the virtual machine finds the line of each
\* byte in its packed map, and the names of its locals are where it says.
LEMMA FinishSays ==
  ASSUME NEW s, Sound(s), Named(s, lvarNames), lvarNames \in Seq(Names), NEW temps
  PROVE  IrepSays(Finish(s, temps), s.asked, lvarNames) /\ Finish(s, temps).reps = s.reps
  <1> DEFINE irep  == Finish(s, temps)
             pc    == s.pc
             code  == s.asked.code
             iseq  == SubSeq(s.iseq, 1, pc)
             lines == SubSeq(s.lines, 1, pc)
             files == IF pc > 0 THEN <<DebugFile(0, Filename, lines)>> ELSE <<>>
             slot(name) == IF name = <<>> THEN Null ELSE LvarIndex(name)
             lv    == Each(slot, s.lv)
  <1>1. /\ Buffered(s) /\ IsSequence(s.pool) /\ IsSequence(s.syms)
        /\ code \in Seq(Insns) /\ pc = Ends(code)[Len(code)]
        /\ CodeSays(code, s.iseq, s.lines, s.pool, Present(s.syms))
        /\ s.lv \in Seq(Names) /\ s.asked.locals = s.lv /\ s.asked.handlers = s.handlers
        /\ Len(s.reps) = Len(s.asked.reps)
    BY Zenon DEF Sound, Spelled
  <1>2. irep = Irep(Len(s.lv) + 1, Len(s.lv) + 1 + temps, iseq, s.handlers, s.pool, Present(s.syms),
                    s.reps, lv, <<[files |-> files]>>)
    BY Zenon DEF Finish, Emitted
  <1> HIDE DEF iseq, lines, lv, files
  <1>3. /\ irep.nlocals = Len(s.lv) + 1 /\ irep.iseq = iseq /\ irep.handlers = s.handlers
        /\ irep.pool = s.pool /\ irep.syms = Present(s.syms) /\ irep.reps = s.reps /\ irep.lv = lv
        /\ irep.debug[1].files = files
    <2> HIDE DEF irep
    <2>1. QED
      BY <1>2 DEF Irep
  <1> HIDE DEF irep
  <1>4. pc \in Nat /\ pc \in 0 .. Len(s.iseq) /\ pc \in 0 .. Len(s.lines) /\ s.lines \in Seq(LineType)
        /\ s.iseq \in Seq(Nat)
    BY <1>1 DEF Buffered, LineTable, LineType
  <1>5. /\ iseq \in Seq(Nat) /\ Len(iseq) = pc /\ DOMAIN iseq = 1 .. pc
        /\ \A k \in 1 .. pc : iseq[k] = s.iseq[k]
    BY <1>4, FrontOf DEF iseq
  <1>6. /\ lines \in Seq(LineType) /\ Len(lines) = pc /\ \A k \in 1 .. pc : lines[k] = s.lines[k]
    BY <1>4, FrontOf DEF lines
  <1>7. ASSUME NEW k \in 1 .. pc PROVE LinesOf(irep)[k] = s.lines[k]
    <2>1. pc > 0
      BY <1>4
    <2>2. files[1] = DebugFile(0, Filename, lines)
      BY <2>1 DEF files
    <2>3. files[1].start = 0 /\ files[1].lines = lines
      BY <2>2 DEF DebugFile
    <2>4. LinesOf(irep)[k] = LineAt(PackLineMap(0, lines), k - 1)
      BY <1>3, <1>5, <2>3, Zenon DEF LinesOf
    <2>5. LineAt(PackLineMap(0, lines), 0 + k - 1) = lines[k]
      <3>1. 0 \in Nat /\ lines \in LineTable /\ k \in 1 .. Len(lines)
        BY <1>6 DEF LineTable, LineType
      <3>2. QED
        BY <3>1, LinesReadBack
    <2>6. 0 + k - 1 = k - 1
      BY <1>4
    <2>7. QED
      BY <1>6, <2>4, <2>5, <2>6, Zenon
  <1>8. CodeSays(code, iseq, LinesOf(irep), s.pool, Present(s.syms))
    <2>1. \A k \in 1 .. Ends(code)[Len(code)] : iseq[k] = s.iseq[k] /\ LinesOf(irep)[k] = s.lines[k]
      BY <1>1, <1>5, <1>7, Zenon
    <2>2. QED
      BY <1>1, <2>1, CodeCopied, Zenon
  <1>9. DOMAIN lv = DOMAIN s.lv /\ \A k \in DOMAIN s.lv : lv[k] = slot(s.lv[k])
    <2>1. lv = [k \in DOMAIN s.lv |-> slot(s.lv[k])]
      BY Zenon DEF lv, Each
    <2>2. QED
      BY <2>1, Zenon
  <1>10. ASSUME NEW k \in DOMAIN s.lv
         PROVE  IF s.lv[k] = <<>> THEN lv[k] = Null
                ELSE lv[k] + 1 \in DOMAIN lvarNames /\ lvarNames[lv[k] + 1] = s.lv[k]
    <2>1. CASE s.lv[k] = <<>>
      BY <1>9, <2>1, Zenon
    <2>2. CASE s.lv[k] # <<>>
      <3>1. lv[k] = LvarIndex(s.lv[k])
        BY <1>9, <2>2, Zenon
      <3>2. \E m \in DOMAIN lvarNames : lvarNames[m] = s.lv[k]
        BY <2>2, Zenon DEF Named, InTable
      <3>3. IsSequence(lvarNames)
        BY Zenon DEF IsSequence
      <3>4. LvarIndex(s.lv[k]) + 1 \in DOMAIN lvarNames /\ lvarNames[LvarIndex(s.lv[k]) + 1] = s.lv[k]
        BY <3>2, <3>3, LvarPlaced
      <3>5. QED
        BY <2>2, <3>1, <3>4, Zenon
    <2>3. QED
      BY <2>1, <2>2, Zenon
  <1>11. IrepSays(irep, s.asked, lvarNames)
    BY <1>1, <1>3, <1>5, <1>8, <1>9, <1>10, Zenon DEF IrepSays
  <1>12. QED
    BY <1>3, <1>11, Zenon DEF irep

\* An irep says the same when the table of names has grown.
LEMMA IrepSaysStill ==
  ASSUME NEW irep, NEW body, NEW names, NEW more, IrepSays(irep, body, names), Extends(names, more)
  PROVE  IrepSays(irep, body, more)
  <1>1. /\ Len(irep.iseq) = Ends(body.code)[Len(body.code)]
        /\ CodeSays(body.code, irep.iseq, LinesOf(irep), irep.pool, irep.syms)
        /\ DOMAIN irep.lv = DOMAIN body.locals /\ irep.nlocals = Len(body.locals) + 1
        /\ irep.handlers = body.handlers /\ Len(irep.reps) = Len(body.reps)
    BY Zenon DEF IrepSays
  <1>2. ASSUME NEW i \in DOMAIN irep.lv
        PROVE  IF body.locals[i] = <<>> THEN irep.lv[i] = Null
               ELSE irep.lv[i] + 1 \in DOMAIN more /\ more[irep.lv[i] + 1] = body.locals[i]
    <2>1. IF body.locals[i] = <<>> THEN irep.lv[i] = Null
          ELSE irep.lv[i] + 1 \in DOMAIN names /\ names[irep.lv[i] + 1] = body.locals[i]
      BY Zenon DEF IrepSays
    <2>2. QED
      BY <2>1, Zenon DEF Extends
  <1>3. QED
    BY <1>1, <1>2, Zenon DEF IrepSays

--------------------------------------------------------------------------------
(* Nested ireps, and the invariant.                                             *)

\* The ireps nested in those of a closed set, at any depth, are in it.
LEMMA LevelsInside ==
  ASSUME NEW S, WithNested(S), NEW pairs \in SUBSET S
  PROVE  \A h \in Nat : Levels(pairs)[h] \subseteq S
  <1> DEFINE V     == SUBSET S
             next  == [p \in Nat |-> IF p = 0 THEN 0 ELSE p - 1]
             last  == [p \in Nat |-> pairs]
             step  == [p \in Nat |-> [v \in V |-> Within(v)]]
             Eq(f) == f = [h \in Nat |-> IF h = 0 THEN pairs ELSE Within(f[h - 1])]
  <1>1. \A v \in V : Within(v) \in V
    BY Zenon DEF Within, WithNested
  <1> HIDE DEF V
  <1>2. pairs \in V
    BY DEF V
  <1>3. Backwards(V, next, last, step, {0})
    BY <1>1, <1>2 DEF Backwards
  <1>4. PICK f \in [Nat -> V] : Equation(f, next, last, step, {0})
    <2> HIDE DEF next, last, step
    <2>1. QED
      BY <1>3, BackwardRecursion
  <1>5. Eq(f)
    <2>1. f = [h \in Nat |-> f[h]] /\ f[0] = pairs
      BY <1>4 DEF Equation
    <2>2. ASSUME NEW h \in Nat, h # 0 PROVE f[h] = Within(f[h - 1])
      <3>1. h \notin {0} /\ next[h] = h - 1 /\ h - 1 \in Nat
        BY <2>2
      <3>2. f[h] = step[h][f[next[h]]]
        BY <1>4, <3>1, Zenon DEF Equation
      <3>3. f[h - 1] \in V
        BY <1>4, <3>1, Zenon
      <3>4. QED
        BY <3>1, <3>2, <3>3, Zenon
    <2>3. QED
      BY <2>1, <2>2, Zenon
  <1> DEFINE g == CHOOSE f2 : Eq(f2)
  <1>6. Eq(g)
    BY <1>5, Zenon
  <1>7. Levels(pairs) = g
    BY Zenon DEF Levels
  <1> HIDE DEF g
  <1>8. g[0] = pairs /\ \A h \in Nat : g[h + 1] = Within(g[h])
    <2>1. ASSUME NEW h \in Nat PROVE g[h + 1] = Within(g[h])
      <3>1. h + 1 \in Nat /\ h + 1 # 0 /\ (h + 1) - 1 = h
        OBVIOUS
      <3>2. g[h + 1] = Within(g[(h + 1) - 1])
        BY <1>6, <3>1, Zenon
      <3>3. QED
        BY <3>1, <3>2, Zenon
    <2>2. g[0] = pairs
      BY <1>6, Zenon
    <2>3. QED
      BY <2>1, <2>2, Zenon
  <1> DEFINE I == {h \in Nat : g[h] \in V}
  <1>9. 0 \in I
    BY <1>2, <1>8
  <1>10. \A h \in Nat : h \in I => h + 1 \in I
    BY <1>1, <1>8
  <1>11. Nat \subseteq I
    <2> HIDE DEF I
    <2>1. QED
      BY <1>9, <1>10, SetInduction
  <1>12. QED
    BY <1>7, <1>11, Zenon DEF V

\* The innermost scope replaced.
LEMMA ReplacesInner ==
  ASSUME NEW scopes, IsSequence(scopes), scopes # <<>>, NEW t
  PROVE  LET more == Append(SubSeq(scopes, 1, Len(scopes) - 1), t) IN
           /\ IsSequence(more) /\ DOMAIN more = DOMAIN scopes /\ Len(scopes) \in DOMAIN scopes
           /\ more[Len(scopes)] = t /\ \A k \in DOMAIN scopes : k # Len(scopes) => more[k] = scopes[k]
  <1> DEFINE n    == Len(scopes)
             less == SubSeq(scopes, 1, n - 1)
             more == Append(less, t)
  <1>1. /\ n \in Nat \ {0} /\ IsSequence(less) /\ Len(less) = n - 1 /\ DOMAIN less = 1 .. n - 1
        /\ \A k \in 1 .. n - 1 : less[k] = scopes[k]
    BY DropsOne
  <1>2. DOMAIN scopes = 1 .. n
    BY LengthType
  <1> HIDE DEF less, n
  <1>3. /\ IsSequence(more) /\ DOMAIN more = 1 .. Len(less) + 1 /\ Extends(less, more)
        /\ more[Len(less) + 1] = t
    BY <1>1, AppendsOne
  <1>4. Len(less) + 1 = n /\ n \in 1 .. n
    BY <1>1
  <1> HIDE DEF more
  <1>5. ASSUME NEW k \in 1 .. n, k # n PROVE more[k] = scopes[k]
    <2>1. k \in 1 .. n - 1
      BY <1>1, <1>5
    <2>2. QED
      BY <1>1, <1>3, <2>1, Zenon DEF Extends
  <1>6. QED
    BY <1>2, <1>3, <1>4, <1>5, Zenon DEF more, less, n

\* What handlers do in the innermost scope keeps the invariant, where it keeps the scope sound.
LEMMA DoesKeeps ==
  ASSUME Inv, stack # <<>>, NEW t, Sound(t), Kin(Inner, t), Does(t)
  PROVE  Inv'
  <1> DEFINE n == Len(stack)
  <1>1. /\ IsSequence(stack) /\ (\A i \in DOMAIN stack : Sound(stack[i]) /\ Named(stack[i], lvarNames))
        /\ client \in Clients /\ lvarNames \in Seq(Names)
    BY Zenon DEF Inv
  <1>2. PICK S : Finished \subseteq S /\ WithNested(S) /\ Say(S, lvarNames)
    BY Zenon DEF Inv
  <1>3. /\ client' = client /\ lvarNames' = lvarNames /\ root' = root /\ wanted' = wanted
        /\ stack' = Append(Outer, t)
    BY Zenon DEF Does
  <1>4. /\ IsSequence(stack') /\ DOMAIN stack' = DOMAIN stack /\ n \in DOMAIN stack
        /\ stack'[n] = t /\ \A k \in DOMAIN stack : k # n => stack'[k] = stack[k]
    BY <1>1, <1>3, ReplacesInner, Zenon DEF Outer
  <1> HIDE DEF n
  <1>5. t.lv = stack[n].lv /\ t.reps = stack[n].reps /\ t.asked.reps = stack[n].asked.reps
    BY Zenon DEF Kin, Inner, n
  <1>6. ASSUME NEW i \in DOMAIN stack
        PROVE  /\ Sound(stack'[i]) /\ Named(stack'[i], lvarNames)
               /\ stack'[i].reps = stack[i].reps /\ stack'[i].asked.reps = stack[i].asked.reps
    <2>1. CASE i = n
      BY <1>1, <1>4, <1>5, <2>1, Zenon DEF Named
    <2>2. CASE i # n
      BY <1>1, <1>4, <2>2, Zenon
    <2>3. QED
      BY <2>1, <2>2, Zenon
  <1>7. Finished' = Finished
    <2>1. \A i \in DOMAIN stack : Matched(stack'[i].reps, stack'[i].asked.reps)
                                   = Matched(stack[i].reps, stack[i].asked.reps)
      BY <1>6, Zenon
    <2>2. UNION {Matched(stack'[i].reps, stack'[i].asked.reps) : i \in DOMAIN stack'}
            = UNION {Matched(stack[i].reps, stack[i].asked.reps) : i \in DOMAIN stack}
      BY <1>4, <2>1, Zenon
    <2>3. QED
      BY <1>3, <2>2, Zenon DEF Finished
  <1>8. \E S2 : Finished' \subseteq S2 /\ WithNested(S2) /\ Say(S2, lvarNames)
    BY <1>2, <1>7, Zenon
  <1>9. QED
    BY <1>1, <1>3, <1>4, <1>6, <1>8, Zenon DEF Inv

LEMMA OpenKeeps ==
  ASSUME Inv, NEW locals \in Seq(Names), Open(locals)
  PROVE  Inv'
  <1> DEFINE n == Len(stack)
             t == Scope(Inner, locals)
             more == Register(lvarNames, locals)
  <1>1. /\ IsSequence(stack) /\ (\A i \in DOMAIN stack : Sound(stack[i]) /\ Named(stack[i], lvarNames))
        /\ client \in Clients /\ lvarNames \in Seq(Names)
    BY Zenon DEF Inv
  <1>2. PICK S : Finished \subseteq S /\ WithNested(S) /\ Say(S, lvarNames)
    BY Zenon DEF Inv
  <1>3. /\ client' = client /\ lvarNames' = more /\ root' = root /\ wanted' = wanted
        /\ stack' = Append(stack, t) /\ stack # <<>>
    BY Zenon DEF Open
  <1>4. /\ more \in Seq(Names) /\ Extends(lvarNames, more)
        /\ \A k \in DOMAIN locals : InTable(locals[k], more)
    BY <1>1, RegisterEffect
  <1>5. n \in DOMAIN stack
    <2>1. n \in Nat \ {0}
      BY <1>1, <1>3, DropsOne
    <2>2. DOMAIN stack = 1 .. n
      BY <1>1, LengthType
    <2>3. QED
      BY <2>1, <2>2
  <1>6. Sound(t) /\ t.lv = locals /\ t.reps = <<>> /\ t.asked.reps = <<>>
    <2>1. Inner.line \in LineType
      BY <1>1, <1>5, Zenon DEF Inner, Sound, Buffered
    <2>2. QED
      BY <2>1, ScopeSound
  <1> HIDE DEF t, more
  <1>7. /\ IsSequence(stack') /\ n \in Nat /\ DOMAIN stack = 1 .. n /\ DOMAIN stack' = 1 .. n + 1
        /\ Extends(stack, stack') /\ stack'[n + 1] = t
    BY <1>1, <1>3, AppendsOne
  <1> HIDE DEF n
  <1>8. ASSUME NEW i \in 1 .. n + 1 PROVE i \in 1 .. n \/ i = n + 1
    BY <1>7
  <1>9. ASSUME NEW i \in DOMAIN stack' PROVE Sound(stack'[i]) /\ Named(stack'[i], more)
    <2>1. CASE i \in 1 .. n
      <3>1. i \in DOMAIN stack /\ stack'[i] = stack[i]
        BY <1>7, <2>1, Zenon DEF Extends
      <3>2. Named(stack[i], more)
        BY <1>1, <1>4, <3>1, InTableStill, Zenon DEF Named
      <3>3. QED
        BY <1>1, <3>1, <3>2, Zenon
    <2>2. CASE i = n + 1
      BY <1>4, <1>6, <1>7, <2>2, Zenon DEF Named
    <2>3. QED
      BY <1>7, <1>8, <2>1, <2>2, Zenon
  <1>10. Finished' \subseteq Finished
    <2>1. ASSUME NEW i \in DOMAIN stack', NEW p \in Matched(stack'[i].reps, stack'[i].asked.reps)
          PROVE  p \in Finished
      <3>1. CASE i \in 1 .. n
        <4>1. i \in DOMAIN stack /\ stack'[i] = stack[i]
          BY <1>7, <3>1, Zenon DEF Extends
        <4>2. p \in Matched(stack[i].reps, stack[i].asked.reps)
          BY <2>1, <4>1, Zenon
        <4>3. QED
          BY <4>1, <4>2, Zenon DEF Finished
      <3>2. CASE i = n + 1
        <4>1. stack'[i].reps = <<>>
          BY <1>6, <1>7, <3>2, Zenon
        <4>2. DOMAIN stack'[i].reps = {}
          BY <4>1
        <4>3. QED
          BY <2>1, <4>2, Zenon DEF Matched
      <3>3. QED
        BY <1>7, <1>8, <3>1, <3>2, Zenon
    <2> DEFINE rest == UNION {Matched(stack'[i].reps, stack'[i].asked.reps) : i \in DOMAIN stack'}
    <2>2. rest \subseteq Finished
      BY <2>1, Zenon
    <2>3. Matched(root, wanted) \subseteq Finished
      BY Zenon DEF Finished
    <2>4. Finished' = Matched(root, wanted) \cup rest
      BY <1>3, Zenon DEF Finished
    <2> HIDE DEF rest
    <2>5. QED
      BY <2>2, <2>3, <2>4, Zenon
  <1>11. Say(S, more)
    BY <1>2, <1>4, IrepSaysStill, Zenon DEF Say
  <1>12. \E S2 : Finished' \subseteq S2 /\ WithNested(S2) /\ Say(S2, more)
    <2>1. Finished' \subseteq S
      BY <1>2, <1>10, Zenon
    <2>2. QED
      BY <1>2, <1>11, <2>1, Zenon
  <1>13. QED
    BY <1>1, <1>3, <1>4, <1>7, <1>9, <1>12, Zenon DEF Inv

\* A parent takes a finished irep, beside what it was asked for.
LEMMA TakesRep ==
  ASSUME NEW s, Sound(s), NEW irep, NEW body
  PROVE  LET t == [s EXCEPT !.reps = Append(@, irep), !.asked.reps = Append(@, body)]
         IN  /\ Sound(t) /\ t.lv = s.lv
             /\ Matched(t.reps, t.asked.reps) \subseteq Matched(s.reps, s.asked.reps) \cup {<<irep, body>>}
  <1> DEFINE reps   == Append(s.reps, irep)
             bodies == Append(s.asked.reps, body)
             asked  == [s.asked EXCEPT !.reps = bodies]
             t      == [s EXCEPT !.reps = reps, !.asked = asked]
             old    == [s EXCEPT !.reps = Append(@, irep), !.asked.reps = Append(@, body)]
  <1>1. /\ Buffered(s) /\ Spelled(s) /\ Unlined(s) /\ IsSequence(s.reps) /\ IsSequence(s.asked.reps)
        /\ Len(s.reps) = Len(s.asked.reps)
    BY Zenon DEF Sound
  <1>2. /\ IsSequence(reps) /\ Len(reps) = Len(s.reps) + 1 /\ Len(s.reps) \in Nat
        /\ DOMAIN s.reps = 1 .. Len(s.reps) /\ DOMAIN reps = 1 .. Len(s.reps) + 1
        /\ Extends(s.reps, reps) /\ reps[Len(s.reps) + 1] = irep
    BY <1>1, AppendsOne
  <1>3. /\ IsSequence(bodies) /\ Len(bodies) = Len(s.asked.reps) + 1
        /\ DOMAIN s.asked.reps = 1 .. Len(s.asked.reps)
        /\ Extends(s.asked.reps, bodies) /\ bodies[Len(s.asked.reps) + 1] = body
    BY <1>1, AppendsOne
  <1>4. old = t
    BY Zenon
  <1> HIDE DEF reps, bodies, old
  <1>5. /\ DOMAIN asked = {"locals", "code", "handlers", "reps"} /\ asked.reps = bodies
        /\ asked.locals = s.asked.locals /\ asked.code = s.asked.code
        /\ asked.handlers = s.asked.handlers
    BY <1>1 DEF Buffered
  <1> HIDE DEF asked
  <1>6. /\ DOMAIN t = ScopeFields /\ t.line = s.line /\ t.iseq = s.iseq /\ t.lines = s.lines
        /\ t.pc = s.pc /\ t.lastpc = s.lastpc /\ t.pool = s.pool /\ t.syms = s.syms
        /\ t.reps = reps /\ t.handlers = s.handlers /\ t.lv = s.lv /\ t.asked = asked
    BY <1>1 DEF Buffered, ScopeFields
  <1> HIDE DEF t
  <1>7. Buffered(t) /\ Spelled(t) /\ Unlined(t)
    <2>1. Buffered(t)
      BY <1>1, <1>5, <1>6, Zenon DEF Buffered
    <2>2. Spelled(t)
      BY <1>1, <1>5, <1>6, Zenon DEF Spelled
    <2>3. Unlined(t)
      BY <1>1, <1>6, Zenon DEF Unlined
    <2>4. QED
      BY <2>1, <2>2, <2>3, Zenon
  <1>8. Sound(t)
    <2>1. Len(reps) = Len(bodies)
      BY <1>1, <1>2, <1>3, Zenon
    <2>2. /\ s.lastpc < s.pc /\ s.asked.code # <<>>
               => s.lastpc = Ends(s.asked.code)[Len(s.asked.code) - 1]
          /\ s.lv \in Seq(Names) /\ s.asked.locals = s.lv /\ s.asked.handlers = s.handlers
      BY Zenon DEF Sound
    <2>3. QED
      BY <1>2, <1>3, <1>5, <1>6, <1>7, <2>1, <2>2, Zenon DEF Sound
  <1>9. Matched(reps, bodies) \subseteq Matched(s.reps, s.asked.reps) \cup {<<irep, body>>}
    <2>1. ASSUME NEW k \in DOMAIN reps
          PROVE  <<reps[k], bodies[k]>> \in Matched(s.reps, s.asked.reps) \cup {<<irep, body>>}
      <3>1. k \in 1 .. Len(s.reps) \/ k = Len(s.reps) + 1
        BY <1>2
      <3>2. CASE k \in 1 .. Len(s.reps)
        <4>1. k \in DOMAIN s.reps /\ k \in DOMAIN s.asked.reps
          BY <1>1, <1>2, <1>3, <3>2, Zenon
        <4>2. reps[k] = s.reps[k] /\ bodies[k] = s.asked.reps[k]
          BY <1>2, <1>3, <4>1, Zenon DEF Extends
        <4>3. QED
          BY <4>1, <4>2, Zenon DEF Matched
      <3>3. CASE k = Len(s.reps) + 1
        BY <1>1, <1>2, <1>3, <3>3, Zenon
      <3>4. QED
        BY <3>1, <3>2, <3>3, Zenon
    <2>2. QED
      BY <2>1, Zenon DEF Matched
  <1>10. /\ Sound(t) /\ t.lv = s.lv
         /\ Matched(t.reps, t.asked.reps) \subseteq Matched(s.reps, s.asked.reps) \cup {<<irep, body>>}
    BY <1>5, <1>6, <1>8, <1>9, Zenon
  <1>11. QED
    BY <1>4, <1>10, Zenon DEF old

\* The irep of a finished scope joins those that say what they were asked for.
LEMMA JoinsFinished ==
  ASSUME Inv, stack # <<>>, NEW temps,
         NEW S, Finished \subseteq S, WithNested(S), Say(S, lvarNames)
  PROVE  LET more == S \cup {<<Finish(Inner, temps), Inner.asked>>}
         IN  WithNested(more) /\ Say(more, lvarNames)
  <1> DEFINE n    == Len(stack)
             irep == Finish(Inner, temps)
             body == Inner.asked
             more == S \cup {<<irep, body>>}
  <1>1. /\ IsSequence(stack) /\ (\A i \in DOMAIN stack : Sound(stack[i]) /\ Named(stack[i], lvarNames))
        /\ lvarNames \in Seq(Names)
    BY Zenon DEF Inv
  <1>2. n \in DOMAIN stack /\ Inner = stack[n]
    BY <1>1, ReplacesInner, Zenon DEF Inner
  <1>3. IrepSays(irep, body, lvarNames) /\ irep.reps = Inner.reps
    BY <1>1, <1>2, FinishSays
  <1>4. Matched(irep.reps, body.reps) \subseteq S
    <2>1. Matched(stack[n].reps, stack[n].asked.reps) \subseteq Finished
      BY <1>2, Zenon DEF Finished
    <2>2. QED
      BY <1>2, <1>3, <2>1, Zenon
  <1> HIDE DEF irep, body
  <1>5. ASSUME NEW p \in more
        PROVE  IrepSays(p[1], p[2], lvarNames) /\ Matched(p[1].reps, p[2].reps) \subseteq more
    <2>1. CASE p \in S
      BY <2>1, Zenon DEF WithNested, Say
    <2>2. CASE p = <<irep, body>>
      <3>1. p[1] = irep /\ p[2] = body
        BY <2>2
      <3>2. QED
        BY <1>3, <1>4, <3>1, Zenon
    <2>3. QED
      BY <2>1, <2>2, Zenon
  <1>6. WithNested(more) /\ Say(more, lvarNames)
    BY <1>5, Zenon DEF WithNested, Say
  <1>7. QED
    BY <1>6, Zenon DEF irep, body

LEMMA CloseKeeps ==
  ASSUME Inv, NEW temps, Close(temps)
  PROVE  Inv'
  <1> DEFINE n    == Len(stack)
             irep == Finish(Inner, temps)
             pair == <<irep, Inner.asked>>
  <1>1. /\ IsSequence(stack) /\ (\A i \in DOMAIN stack : Sound(stack[i]) /\ Named(stack[i], lvarNames))
        /\ client \in Clients /\ lvarNames \in Seq(Names)
    BY Zenon DEF Inv
  <1>2. PICK S : Finished \subseteq S /\ WithNested(S) /\ Say(S, lvarNames)
    BY Zenon DEF Inv
  <1>3. client' = client /\ lvarNames' = lvarNames /\ stack # <<>>
    BY Zenon DEF Close
  <1> DEFINE more == S \cup {pair}
  <1>4. WithNested(more) /\ Say(more, lvarNames)
    BY <1>2, <1>3, JoinsFinished
  <1>5. SUFFICES /\ IsSequence(stack') /\ (\A i \in DOMAIN stack' : Sound(stack'[i]) /\ Named(stack'[i], lvarNames))
                 /\ Finished' \subseteq more
    <2> HIDE DEF more
    <2>1. QED
      BY <1>1, <1>3, <1>4, <1>5, Zenon DEF Inv
  <1>6. /\ n \in Nat \ {0} /\ DOMAIN stack = 1 .. n /\ IsSequence(Outer) /\ Len(Outer) = n - 1
        /\ DOMAIN Outer = 1 .. n - 1 /\ \A k \in 1 .. n - 1 : Outer[k] = stack[k]
    <2>1. DOMAIN stack = 1 .. n
      BY <1>1, LengthType
    <2>2. QED
      BY <1>1, <1>3, <2>1, DropsOne DEF Outer
  <1> HIDE DEF n
  <1>7. CASE Outer = <<>>
    <2>1. stack' = <<>> /\ root' = <<irep>> /\ wanted' = <<Inner.asked>>
      BY <1>7, Zenon DEF Close
    <2> HIDE DEF irep
    <2>2. DOMAIN stack' = {} /\ IsSequence(stack')
      <3>1. stack' \in Seq({}) /\ DOMAIN stack' = {}
        BY <2>1
      <3>2. QED
        BY <3>1, Zenon DEF IsSequence
    <2>3. Matched(root', wanted') = {pair}
      <3> DEFINE asked == Inner.asked
      <3>1. DOMAIN root' = {1} /\ root'[1] = irep /\ wanted'[1] = asked
        <4> HIDE DEF asked
        <4>1. root' = <<irep>> /\ wanted' = <<asked>>
          BY <2>1 DEF asked
        <4>2. QED
          BY <4>1
      <3>2. QED
        BY <3>1, Zenon DEF Matched
    <2>4. Finished' \subseteq {pair}
      <3> HIDE DEF pair
      <3>1. UNION {Matched(stack'[i].reps, stack'[i].asked.reps) : i \in DOMAIN stack'} = {}
        BY <2>2, Zenon
      <3>2. Finished' = Matched(root', wanted')
                         \cup UNION {Matched(stack'[i].reps, stack'[i].asked.reps) : i \in DOMAIN stack'}
        BY Zenon DEF Finished
      <3>3. QED
        BY <2>3, <3>1, <3>2, Zenon
    <2>5. QED
      BY <2>2, <2>4, Zenon
  <1>8. CASE Outer # <<>>
    <2> DEFINE m == n - 1
               p == stack[m]
               q == [p EXCEPT !.reps = Append(@, irep), !.asked.reps = Append(@, Inner.asked)]
    <2>1. m \in 1 .. n - 1 /\ m \in 1 .. n
      <3>1. n - 1 # 0
        BY <1>6, <1>8, DropsOne
      <3>2. QED
        BY <1>6, <3>1
    <2>2. m \in DOMAIN stack /\ m \in DOMAIN Outer /\ Outer[m] = p /\ Len(Outer) = m
      BY <1>6, <2>1, Zenon
    <2> HIDE DEF m
    <2>3. /\ stack' = [Outer EXCEPT ![m].reps = Append(@, irep), ![m].asked.reps = Append(@, Inner.asked)]
          /\ root' = root /\ wanted' = wanted
      BY <1>8, <2>2, Zenon DEF Close
    <2>4. /\ Sound(q) /\ q.lv = p.lv
          /\ Matched(q.reps, q.asked.reps) \subseteq Matched(p.reps, p.asked.reps) \cup {pair}
      <3>1. Sound(p)
        BY <1>1, <2>2, Zenon
      <3> HIDE DEF irep, p
      <3>2. QED
        BY <3>1, TakesRep
    <2> HIDE DEF irep
    <2>5. stack' = [Outer EXCEPT ![m] = q]
      <3> HIDE DEF p
      <3>1. QED
        BY <2>2, <2>3, Zenon
    <2> HIDE DEF q
    <2>6. /\ DOMAIN stack' = DOMAIN Outer /\ stack'[m] = q
          /\ \A k \in DOMAIN Outer : k # m => stack'[k] = Outer[k]
      BY <2>2, <2>5, Zenon
    <2>7. IsSequence(stack')
      <3>1. PICK T : Outer \in Seq(T)
        BY <1>6, Zenon DEF IsSequence
      <3>2. stack' \in Seq(T \cup {q})
        <4>1. Outer \in Seq(T \cup {q}) /\ q \in T \cup {q}
          BY <3>1
        <4> DEFINE U == T \cup {q}
        <4> HIDE DEF U
        <4>2. Outer \in Seq(U) /\ q \in U
          BY <4>1 DEF U
        <4>3. stack' \in Seq(U)
          BY <2>2, <2>5, <4>2
        <4>4. QED
          BY <4>3 DEF U
      <3>3. QED
        BY <3>2, Zenon DEF IsSequence
    <2>8. ASSUME NEW i \in DOMAIN stack'
          PROVE  /\ Sound(stack'[i]) /\ Named(stack'[i], lvarNames)
                 /\ Matched(stack'[i].reps, stack'[i].asked.reps) \subseteq Finished \cup {pair}
      <3> HIDE DEF pair
      <3>1. i \in DOMAIN Outer /\ i \in DOMAIN stack /\ Outer[i] = stack[i]
        <4>1. i \in 1 .. n - 1
          BY <1>6, <2>6, Zenon
        <4>2. i \in 1 .. n
          BY <1>6, <4>1
        <4>3. QED
          BY <1>6, <4>1, <4>2, Zenon
      <3>2. Matched(stack[i].reps, stack[i].asked.reps) \subseteq Finished
        BY <3>1, Zenon DEF Finished
      <3>3. CASE i = m
        <4>1. Named(q, lvarNames)
          BY <1>1, <2>2, <2>4, Zenon DEF Named
        <4>2. Matched(q.reps, q.asked.reps) \subseteq Finished \cup {pair}
          BY <2>4, <3>2, <3>3, Zenon
        <4>3. QED
          BY <2>4, <2>6, <3>3, <4>1, <4>2, Zenon
      <3>4. CASE i # m
        <4>1. stack'[i] = stack[i]
          BY <2>6, <3>1, <3>4, Zenon
        <4>2. QED
          BY <1>1, <3>1, <3>2, <4>1, Zenon
      <3>5. QED
        BY <3>3, <3>4, Zenon
    <2>9. Finished' \subseteq Finished \cup {pair}
      <3> HIDE DEF pair
      <3> DEFINE rest == UNION {Matched(stack'[i].reps, stack'[i].asked.reps) : i \in DOMAIN stack'}
      <3>1. rest \subseteq Finished \cup {pair}
        BY <2>8, Zenon
      <3>2. Matched(root, wanted) \subseteq Finished
        BY Zenon DEF Finished
      <3>3. Finished' = Matched(root, wanted) \cup rest
        BY <2>3, Zenon DEF Finished
      <3> HIDE DEF rest
      <3>4. QED
        BY <3>1, <3>2, <3>3, Zenon
    <2>10. Finished' \subseteq more
      <3> HIDE DEF pair
      <3>1. QED
        BY <1>2, <2>9, Zenon
    <2>11. QED
      BY <2>7, <2>8, <2>10, Zenon
  <1>9. QED
    BY <1>7, <1>8, Zenon

LEMMA InvOpened ==
  ASSUME Opened
  PROVE  Inv
  <1> DEFINE top   == Scope(TopScope, client.locals)
             names == Register(<<>>, client.locals)
  <1>1. /\ client \in Clients /\ stack = <<top>> /\ lvarNames = names /\ root = <<>>
    BY Zenon DEF Opened
  <1>2. client.locals \in Seq(Names)
    BY <1>1, IrepsAssumption, Zenon
  <1>3. Sound(top) /\ top.lv = client.locals /\ top.reps = <<>>
    <2>1. TopScope.line \in LineType
      BY LinesAssumption DEF TopScope, LineType, Halfword
    <2>2. QED
      BY <1>2, <2>1, ScopeSound
  <1>4. names \in Seq(Names) /\ \A k \in DOMAIN client.locals : InTable(client.locals[k], names)
    <2>1. <<>> \in Seq(Names)
      OBVIOUS
    <2> DEFINE empty == <<>>
    <2> HIDE DEF empty
    <2>2. empty \in Seq(Names)
      BY <2>1 DEF empty
    <2>3. /\ Register(empty, client.locals) \in Seq(Names)
          /\ \A k \in DOMAIN client.locals : InTable(client.locals[k], Register(empty, client.locals))
      BY <1>2, <2>2, RegisterEffect
    <2>4. QED
      BY <2>3 DEF empty
  <1> HIDE DEF top, names
  <1>5. DOMAIN stack = {1} /\ stack[1] = top /\ stack \in Seq({top})
    BY <1>1
  <1>6. Named(top, names)
    BY <1>3, <1>4, Zenon DEF Named
  <1>7. Finished \subseteq {}
    <2>1. DOMAIN root = {} /\ DOMAIN top.reps = {}
      BY <1>1, <1>3
    <2>2. Matched(root, wanted) = {} /\ Matched(top.reps, top.asked.reps) = {}
      BY <2>1, Zenon DEF Matched
    <2>3. UNION {Matched(stack[i].reps, stack[i].asked.reps) : i \in DOMAIN stack} = {}
      BY <1>5, <2>2, Zenon
    <2>4. QED
      BY <2>2, <2>3, Zenon DEF Finished
  <1>8. \E S : Finished \subseteq S /\ WithNested(S) /\ Say(S, names)
    BY <1>7, Zenon DEF WithNested, Say
  <1>9. IsSequence(stack)
    BY <1>5, Zenon DEF IsSequence
  <1>10. QED
    BY <1>1, <1>3, <1>4, <1>5, <1>6, <1>8, <1>9, Zenon DEF Inv

LEMMA InvStep ==
  ASSUME Inv, [Works]_generator
  PROVE  Inv'
  <1> DEFINE n == Len(stack)
  <1>1. client \in Clients /\ IsSequence(stack) /\ \A i \in DOMAIN stack : Sound(stack[i])
    BY Zenon DEF Inv
  <1>2. ASSUME stack # <<>> PROVE Sound(Inner)
    BY <1>1, <1>2, ReplacesInner, Zenon DEF Inner
  <1>3. ASSUME NEW line \in client.lines, Visit(line) PROVE Inv'
    <2>1. line \in 1 .. Halfword - 1
      BY <1>1, IrepsAssumption, Zenon
    <2>2. stack # <<>> /\ Does([Inner EXCEPT !.line = line])
      BY <1>3, Zenon DEF Visit
    <2>3. Sound([Inner EXCEPT !.line = line]) /\ Kin(Inner, [Inner EXCEPT !.line = line])
      BY <1>2, <2>1, <2>2, VisitSound
    <2>4. QED
      BY <2>2, <2>3, DoesKeeps, Zenon
  <1>4. ASSUME EmitPlain PROVE Inv'
    <2>1. stack # <<>> /\ Does(Insn0(Inner, Plain, <<Plain>>))
      BY <1>4, Zenon DEF EmitPlain, HasRoom
    <2>2. Sound(Insn0(Inner, Plain, <<Plain>>)) /\ Kin(Inner, Insn0(Inner, Plain, <<Plain>>))
      BY <1>2, <2>1, PlainSound
    <2>3. QED
      BY <2>1, <2>2, DoesKeeps, Zenon
  <1>5. ASSUME NEW literal \in client.literals, EmitLit(literal) PROVE Inv'
    <2> DEFINE s == NewLit(Inner, literal)
               place == LitPlace(s, literal)
               what == <<Lit, literal>>
               t == Insn1(s, Lit, place - 1, what)
    <2>1. stack # <<>> /\ Does(t)
      BY <1>5, Zenon DEF EmitLit, HasRoom
    <2>2. /\ Sound(s) /\ Kin(Inner, s) /\ place \in DOMAIN s.pool /\ place - 1 \in Nat
          /\ Same(s.pool[place], literal)
      BY <1>2, <2>1, NewLitSound
    <2>3. what \in Whats /\ what[1] = Lit /\ what[2] = literal
      <3>1. literal \in Literals
        BY <1>1, Zenon DEF Literals
      <3>2. QED
        BY <3>1 DEF Whats
    <2> DEFINE operand == place - 1
    <2>4. operand + 1 = place
      <3>1. DOMAIN s.pool = 1 .. Len(s.pool)
        BY <2>2, LengthType, Zenon DEF Sound, Spelled
      <3> HIDE DEF s, place
      <3>2. QED
        BY <2>2, <3>1
    <2> HIDE DEF s, what, place
    <2>5. Sound(Insn1(s, Lit, operand, what)) /\ Kin(s, Insn1(s, Lit, operand, what))
      <3>1. operand \in Nat /\ operand + 1 \in DOMAIN s.pool /\ Same(s.pool[operand + 1], what[2])
        BY <2>2, <2>3, <2>4, Zenon
      <3>2. Lit \in {Lit, Symb, Jmp} /\ Lit # Symb /\ Lit # Jmp
        BY DEF Lit, Symb, Jmp
      <3> HIDE DEF operand
      <3>3. QED
        BY <2>2, <2>3, <3>1, <3>2, OperandSound
    <2>6. Sound(t) /\ Kin(Inner, t)
      BY <2>2, <2>5, Zenon DEF Kin
    <2> HIDE DEF t
    <2>7. QED
      BY <2>1, <2>6, DoesKeeps, Zenon
  <1>6. ASSUME NEW name \in client.symbols, EmitSym(name) PROVE Inv'
    <2> DEFINE s == NewSym(Inner, name)
               place == SymPlace(s, name)
               what == <<Symb, name>>
               t == Insn1(s, Symb, place - 1, what)
    <2>1. stack # <<>> /\ Does(t)
      BY <1>6, Zenon DEF EmitSym, HasRoom
    <2>2. /\ Sound(s) /\ Kin(Inner, s) /\ place \in DOMAIN s.syms /\ place - 1 \in Nat
          /\ s.syms[place] = name
      BY <1>2, <2>1, NewSymSound
    <2>3. what \in Whats /\ what[1] = Symb /\ what[2] = name
      <3>1. name \in Symbols
        BY <1>1, Zenon DEF Symbols
      <3>2. QED
        BY <3>1 DEF Whats
    <2> DEFINE operand == place - 1
    <2>4. operand + 1 = place
      <3>1. DOMAIN s.syms = 1 .. Len(s.syms)
        BY <2>2, LengthType, Zenon DEF Sound, Spelled
      <3> HIDE DEF s, place
      <3>2. QED
        BY <2>2, <3>1
    <2> HIDE DEF s, what, place
    <2>5. Sound(Insn1(s, Symb, operand, what)) /\ Kin(s, Insn1(s, Symb, operand, what))
      <3>1. operand \in Nat /\ operand + 1 \in DOMAIN s.syms /\ s.syms[operand + 1] = what[2]
        BY <2>2, <2>3, <2>4, Zenon
      <3>2. Symb \in {Lit, Symb, Jmp} /\ Symb # Lit /\ Symb # Jmp
        BY DEF Lit, Symb, Jmp
      <3> HIDE DEF operand
      <3>3. QED
        BY <2>2, <2>3, <3>1, <3>2, OperandSound
    <2>6. Sound(t) /\ Kin(Inner, t)
      BY <2>2, <2>5, Zenon DEF Kin
    <2> HIDE DEF t
    <2>7. QED
      BY <2>1, <2>6, DoesKeeps, Zenon
  <1>7. ASSUME EmitJump PROVE Inv'
    <2> DEFINE what == <<Jmp, 0>>
               t == Insn1(Inner, Jmp, 0, what)
    <2>1. stack # <<>> /\ Does(t)
      BY <1>7, Zenon DEF EmitJump, HasRoom
    <2>2. what \in Whats /\ what[1] = Jmp /\ what[2] = 0
      BY DEF Whats
    <2>3. Jmp \in {Lit, Symb, Jmp} /\ Jmp # Lit /\ Jmp # Symb /\ 0 \in Nat
      BY DEF Lit, Symb, Jmp
    <2> HIDE DEF what
    <2>4. Sound(t) /\ Kin(Inner, t)
      BY <1>2, <2>1, <2>2, <2>3, OperandSound
    <2> HIDE DEF t
    <2>5. QED
      BY <2>1, <2>4, DoesKeeps, Zenon
  <1>8. ASSUME NEW i, Patch(i) PROVE Inv'
    <2> DEFINE p == PokeB(Inner, Ends(Inner.asked.code)[i - 1] + 1, Inner.pc)
               t == [p EXCEPT !.asked.code[i].what = <<Jmp, Inner.pc>>]
    <2>1. /\ stack # <<>> /\ i \in DOMAIN Inner.asked.code /\ Inner.asked.code[i].what = <<Jmp, 0>>
          /\ Does(t)
      BY <1>8, Zenon DEF Patch
    <2>2. Sound(t) /\ Kin(Inner, t)
      BY <1>2, <2>1, PatchSound
    <2> HIDE DEF t
    <2>3. QED
      BY <2>1, <2>2, DoesKeeps, Zenon
  <1>9. ASSUME TakeBack PROVE Inv'
    <2> DEFINE t == [Inner EXCEPT !.pc = Inner.lastpc, !.asked.code = SubSeq(@, 1, Len(@) - 1)]
    <2>1. stack # <<>> /\ Inner.lastpc < Inner.pc /\ Inner.asked.code # <<>> /\ Does(t)
      BY <1>9, Zenon DEF TakeBack
    <2>2. Sound(t) /\ Kin(Inner, t)
      BY <1>2, <2>1, TakeBackSound
    <2> HIDE DEF t
    <2>3. QED
      BY <2>1, <2>2, DoesKeeps, Zenon
  <1>10. ASSUME NEW handler, Catch(handler) PROVE Inv'
    <2> DEFINE t == [Inner EXCEPT !.handlers = Append(@, handler), !.asked.handlers = Append(@, handler)]
    <2>1. stack # <<>> /\ Does(t)
      BY <1>10, Zenon DEF Catch
    <2>2. Sound(t) /\ Kin(Inner, t)
      BY <1>2, <2>1, CatchSound
    <2> HIDE DEF t
    <2>3. QED
      BY <2>1, <2>2, DoesKeeps, Zenon
  <1>11. ASSUME NEW locals \in client.scopes, Open(locals) PROVE Inv'
    <2>1. locals \in Seq(Names)
      BY <1>1, IrepsAssumption, Zenon
    <2>2. QED
      BY <1>11, <2>1, OpenKeeps
  <1>12. ASSUME NEW temps, Close(temps) PROVE Inv'
    BY <1>12, CloseKeeps
  <1>13. ASSUME UNCHANGED generator PROVE Inv'
    <2>1. /\ client' = client /\ stack' = stack /\ lvarNames' = lvarNames /\ root' = root
          /\ wanted' = wanted
      BY <1>13 DEF generator
    <2>2. Finished' = Finished
      BY <2>1, Zenon DEF Finished
    <2>3. QED
      BY <2>1, <2>2, Zenon DEF Inv
  <1>14. QED
    BY <1>3, <1>4, <1>5, <1>6, <1>7, <1>8, <1>9, <1>10, <1>11, <1>12, <1>13, Zenon DEF Works

LEMMA InvSays ==
  ASSUME Inv
  PROVE  IrepsSayWhatWasAsked
  <1>1. client \in Clients /\ \A i \in DOMAIN stack : Sound(stack[i])
    BY Zenon DEF Inv
  <1>2. PICK S : Finished \subseteq S /\ WithNested(S) /\ Say(S, lvarNames)
    BY Zenon DEF Inv
  <1>3. \A i \in DOMAIN stack :
          CodeSays(stack[i].asked.code, stack[i].iseq, stack[i].lines, stack[i].pool,
                   Present(stack[i].syms))
    BY <1>1, Zenon DEF Sound, Spelled
  <1>4. ASSUME NEW h \in 0 .. client.depth, NEW p \in Levels(Finished)[h]
        PROVE  IrepSays(p[1], p[2], lvarNames)
    <2>1. client.depth \in Nat
      <3>1. client.depth \in 1 .. Depth
        BY <1>1, IrepsAssumption, Zenon
      <3>2. QED
        BY <3>1, LayoutAssumption
    <2>2. h \in Nat
      BY <2>1
    <2>3. Levels(Finished)[h] \subseteq S
      BY <1>2, <2>2, LevelsInside
    <2>4. QED
      BY <1>2, <1>4, <2>3, Zenon DEF Say
  <1>5. QED
    BY <1>3, <1>4, Zenon DEF IrepsSayWhatWasAsked

\* Whatever handlers emit, take back, patch, catch and share, in scopes opened and closed in
\* any order and to any depth, every irep that the generator finishes, and the code of every
\* scope that is still open, says what was asked of it: each operand names the literal or
\* the symbol it was emitted for or the target it was patched to, each byte has the line
\* that was active, and each local its name (codegen.rs, pack_line_map in debug.rs).
THEOREM IrepsSay == Generates => []IrepsSayWhatWasAsked
  <1>1. Opened => Inv
    BY InvOpened
  <1>2. Inv /\ [Works]_generator => Inv'
    BY InvStep
  <1>3. Inv => IrepsSayWhatWasAsked
    BY InvSays
  <1>4. QED
    BY <1>1, <1>2, <1>3, PTL DEF Generates
================================================================================
