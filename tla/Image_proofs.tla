------------------------------ MODULE Image_proofs -----------------------------
(* Proofs about Image, for every number of values of a byte and whatever the    *)
(* clients ask for: its inductive invariant, and then that the buffer of bytes  *)
(* does what it is asked for and implements Listing.                            *)
EXTENDS Image, Bytes_proofs, FiniteSetTheorems

--------------------------------------------------------------------------------
(* Code that is laid out: instructions start at st, each where the one before   *)
(* ends, and prev_pc agrees.                                                    *)

\* Where instruction i starts; the end of the code is where the next one will.
At(st, pc, i) == IF i <= Len(st) THEN st[i] ELSE pc

Sound(t, pos) ==
  LET decoded == DecodeAt(t.iseq, pos)
      insn    == decoded.insn
  IN  /\ SizeAt(t.iseq, pos) = decoded.next - pos
      /\ insn.op \in IntLoads \cup {"MOVE"} => insn.b \in 0 .. Word - 1 /\ insn.c \in 0 .. Word - 1
      /\ insn.op = "LOADL" => insn.b + 1 \in 1 .. Len(t.pool)

Laid(t, st) ==
  /\ Whole(t) /\ st \in Seq(Nat) /\ At(st, t.pc, 1) = 0
  /\ \A i \in 1 .. Len(st) :
       DecodeAt(t.iseq, st[i]).next = At(st, t.pc, i + 1) /\ Sound(t, st[i])

LEMMA LaidTypes ==
  ASSUME NEW t, NEW st, Laid(t, st)
  PROVE  /\ t.pc \in Nat /\ Len(st) \in Nat /\ t \in Buffers
         /\ \A i \in 1 .. Len(st) + 1 : At(st, t.pc, i) \in Nat
         /\ \A i \in 1 .. Len(st) : st[i] \in Nat /\ At(st, t.pc, i) = st[i]
         /\ At(st, t.pc, Len(st) + 1) = t.pc
  <1>1. t.pc \in Nat /\ t \in Buffers
    BY BufferFields DEF Laid, Whole
  <1>2. Len(st) \in Nat /\ \A i \in 1 .. Len(st) : st[i] \in Nat
    BY DEF Laid
  <1>3. QED
    BY <1>1, <1>2 DEF At

\* Instructions start one behind the other.
LEMMA LaidOrder ==
  ASSUME NEW t, NEW st, Laid(t, st)
  PROVE  \A i, j \in 1 .. Len(st) + 1 : i < j => At(st, t.pc, i) < At(st, t.pc, j)
  <1> DEFINE n == Len(st)
             at(i) == At(st, t.pc, i)
             S == {k \in Nat : \A i \in 1 .. n : i + k <= n => at(i) < at(i + k + 1)}
  <1>1. n \in Nat /\ \A i \in 1 .. n + 1 : at(i) \in Nat
    BY LaidTypes
  <1>2. \A i \in 1 .. n : at(i) < at(i + 1)
    <2>1. TAKE i \in 1 .. n
    <2>2. st[i] \in Nat /\ at(i) = st[i] /\ DecodeAt(t.iseq, st[i]).next = at(i + 1)
      BY LaidTypes DEF Laid
    <2>3. DecodeAt(t.iseq, st[i]).next > st[i]
      BY <2>2, DecodeNext
    <2>4. at(i + 1) \in Nat
      BY <1>1
    <2> HIDE DEF at
    <2>5. QED
      BY <2>2, <2>3, <2>4
  <1> HIDE DEF at, n
  <1>3. 0 \in S
    BY <1>1, <1>2
  <1>4. ASSUME NEW k \in Nat, k \in S PROVE k + 1 \in S
    <2>1. ASSUME NEW i \in 1 .. n, i + (k + 1) <= n PROVE at(i) < at(i + (k + 1) + 1)
      <3> DEFINE j == i + k + 1
      <3>1. j \in 1 .. n /\ i + (k + 1) = j /\ i + k <= n
        BY <1>1, <2>1
      <3>2. at(i) < at(j)
        BY <1>4, <3>1
      <3> HIDE DEF j
      <3>3. at(j) < at(j + 1)
        BY <1>2, <3>1
      <3>4. at(i) \in Nat /\ at(j) \in Nat /\ at(j + 1) \in Nat
        BY <1>1, <3>1
      <3>5. at(i) < at(j + 1)
        BY <3>2, <3>3, <3>4
      <3>6. QED
        BY <3>1, <3>5
    <2>2. QED
      BY <2>1
  <1> HIDE DEF S
  <1>5. Nat \subseteq S
    BY <1>3, <1>4, SetInduction
  <1>6. ASSUME NEW i \in 1 .. n + 1, NEW j \in 1 .. n + 1, i < j PROVE at(i) < at(j)
    <2> DEFINE k == j - i - 1
    <2>1. k \in Nat /\ i \in 1 .. n /\ i + k <= n /\ i + k + 1 = j
      BY <1>1, <1>6
    <2> HIDE DEF k
    <2>2. k \in S
      BY <1>5, <2>1
    <2>3. at(i) < at(i + k + 1)
      BY <2>1, <2>2 DEF S
    <2>4. QED
      BY <2>1, <2>3
  <1>7. QED
    BY <1>6 DEF at, n

--------------------------------------------------------------------------------
(* What the two searches from the start of the code find.                       *)

LEMMA StartsEquation ==
  ASSUME NEW iseq, NEW pc \in Nat
  PROVE  \E f : /\ Starts(iseq, pc) = f[0]
                /\ \A p \in Nat :
                     f[p] = IF p >= pc THEN <<>> ELSE <<p>> \o f[DecodeAt(iseq, p).next]
  <1> DEFINE V    == Seq(Nat)
             next == [p \in Nat |-> DecodeAt(iseq, p).next]
             last == [p \in Nat |-> <<>>]
             step == [p \in Nat |-> [v \in V |-> <<p>> \o v]]
             ends == {p \in Nat : p >= pc}
             Eq(f) == f = [p \in Nat |-> IF p >= pc THEN <<>> ELSE <<p>> \o f[DecodeAt(iseq, p).next]]
  <1>1. \A p \in Nat : DecodeAt(iseq, p).next \in Nat /\ DecodeAt(iseq, p).next > p
    BY DecodeNext
  <1>2. <<>> \in V /\ \A p \in Nat, v \in V : <<p>> \o v \in V
    OBVIOUS
  <1>3. next \in [Nat -> Nat] /\ last \in [Nat -> V] /\ \A p \in Nat : next[p] > p
    BY <1>1, <1>2
  <1>4. step \in [Nat -> [V -> V]]
    <2> HIDE DEF V
    <2>1. QED
      BY <1>2
  <1>5. \A p \in Nat : p >= pc => p \in ends
    OBVIOUS
  <1>6. Recursion(pc, V, next, last, step, ends)
    <2> HIDE DEF V, next, last, step, ends
    <2>1. QED
      BY <1>3, <1>4, <1>5 DEF Recursion
  <1>7. PICK f \in [Nat -> V] : Equation(f, next, last, step, ends)
    <2> HIDE DEF V, next, last, step, ends
    <2>1. QED
      BY <1>6, ForwardRecursion, Zenon
  <1>8. \A p \in Nat : f[p] = IF p >= pc THEN <<>> ELSE <<p>> \o f[DecodeAt(iseq, p).next]
    <2>1. TAKE p \in Nat
    <2>2. f[p] = IF p \in ends THEN last[p] ELSE step[p][f[next[p]]]
      BY <1>7 DEF Equation
    <2>3. next[p] \in Nat /\ f[next[p]] \in V
      BY <1>3
    <2> HIDE DEF V
    <2>4. step[p][f[next[p]]] = <<p>> \o f[next[p]]
      BY <2>3
    <2>5. QED
      BY <2>2, <2>4
  <1>9. Eq(f)
    <2> HIDE DEF V
    <2>1. f \in [Nat -> V]
      OBVIOUS
    <2>2. f = [p \in Nat |-> f[p]]
      BY <2>1
    <2>3. QED
      BY <2>2, <1>8, Zenon
  <1> DEFINE g == CHOOSE h : Eq(h)
  <1>10. Eq(g)
    BY <1>9, Zenon
  <1>11. Starts(iseq, pc) = g[0]
    BY Zenon DEF Starts
  <1> HIDE DEF g
  <1>12. \A p \in Nat : g[p] = IF p >= pc THEN <<>> ELSE <<p>> \o g[DecodeAt(iseq, p).next]
    BY <1>10, Zenon
  <1>13. QED
    BY <1>11, <1>12

LEMMA FromNextOn ==
  ASSUME NEW st \in Seq(Nat), NEW i \in 1 .. Len(st)
  PROVE  SubSeq(st, i, Len(st)) = <<st[i]>> \o SubSeq(st, i + 1, Len(st))
  <1> DEFINE n == Len(st)
             s == SubSeq(st, i, n)
             r == SubSeq(st, i + 1, n)
             t == <<st[i]>> \o r
  <1>1. n \in Nat /\ \A j \in 1 .. n : st[j] \in Nat
    BY LenProperties
  <1>2. s \in Seq(Nat) /\ Len(s) = n - i + 1 /\ \A k \in 1 .. n - i + 1 : s[k] = st[i + k - 1]
    <2>1. \A j \in i .. n : st[j] \in Nat
      BY <1>1
    <2>2. s \in Seq(Nat)
      BY <1>1, <2>1, SubSeqProperties
    <2>3. Len(s) = n - i + 1
      BY <1>1, <2>1, SubSeqProperties
    <2>4. \A k \in 1 .. n - i + 1 : s[k] = st[i + k - 1]
      BY <1>1, <2>1, SubSeqProperties
    <2>5. QED
      BY <2>2, <2>3, <2>4
  <1>3. r \in Seq(Nat) /\ Len(r) = n - i /\ \A k \in 1 .. n - i : r[k] = st[i + k]
    <2>1. \A j \in i + 1 .. n : st[j] \in Nat
      BY <1>1
    <2>2. r \in Seq(Nat)
      BY <1>1, <2>1, SubSeqProperties
    <2>3. Len(r) = n - i
      BY <1>1, <2>1, SubSeqProperties
    <2>4. \A k \in 1 .. n - i : r[k] = st[i + k]
      BY <1>1, <2>1, SubSeqProperties
    <2>5. QED
      BY <2>2, <2>3, <2>4
  <1>4. <<st[i]>> \in Seq(Nat) /\ Len(<<st[i]>>) = 1 /\ <<st[i]>>[1] = st[i]
    BY <1>1
  <1> DEFINE u == <<st[i]>>
  <1> HIDE DEF s, r, u, n
  <1>5. /\ t \in Seq(Nat) /\ Len(t) = Len(u) + Len(r)
        /\ \A k \in 1 .. Len(u) + Len(r) : t[k] = IF k <= Len(u) THEN u[k] ELSE r[k - Len(u)]
    <2>1. u \in Seq(Nat) /\ r \in Seq(Nat) /\ t = u \o r
      BY <1>3, <1>4 DEF u
    <2> HIDE DEF t
    <2>2. QED
      BY <2>1, ConcatOf
  <1>6. Len(u) = 1 /\ u[1] = st[i]
    BY <1>4 DEF u
  <1> HIDE DEF t
  <1>7. ASSUME NEW k \in 1 .. n - i + 1 PROVE s[k] = t[k]
    <2>1. CASE k = 1
      BY <2>1, <1>1, <1>2, <1>3, <1>5, <1>6
    <2>2. CASE k # 1
      <3>1. k - 1 \in 1 .. n - i /\ ~(k <= 1) /\ i + (k - 1) = i + k - 1 /\ k \in 1 .. 1 + (n - i)
        BY <2>2, <1>1
      <3>2. t[k] = r[k - 1]
        BY <3>1, <1>3, <1>5, <1>6
      <3>3. r[k - 1] = st[i + (k - 1)]
        BY <3>1, <1>3
      <3>4. QED
        BY <3>1, <3>2, <3>3, <1>2
    <2>3. QED
      BY <2>1, <2>2
  <1>8. Len(t) = n - i + 1
    BY <1>1, <1>3, <1>5, <1>6
  <1>9. s = t
    BY <1>2, <1>5, <1>7, <1>8, SeqEqual
  <1>10. QED
    BY <1>9 DEF s, t, r, n

\* There is one way to read the code.
LEMMA StartsOfLaid ==
  ASSUME NEW t, NEW st, Laid(t, st)
  PROVE  Starts(t.iseq, t.pc) = st
  <1> DEFINE n == Len(st)
             at(i) == At(st, t.pc, i)
  <1>1. /\ t.pc \in Nat /\ n \in Nat /\ at(n + 1) = t.pc
        /\ \A i \in 1 .. n + 1 : at(i) \in Nat
        /\ \A i \in 1 .. n : st[i] \in Nat /\ at(i) = st[i]
    BY LaidTypes
  <1>2. st \in Seq(Nat) /\ at(1) = 0 /\ \A i \in 1 .. n : DecodeAt(t.iseq, st[i]).next = at(i + 1)
    BY DEF Laid
  <1>3. \A i, j \in 1 .. n + 1 : i < j => at(i) < at(j)
    BY LaidOrder
  <1>4. PICK f : /\ Starts(t.iseq, t.pc) = f[0]
                 /\ \A p \in Nat :
                      f[p] = IF p >= t.pc THEN <<>> ELSE <<p>> \o f[DecodeAt(t.iseq, p).next]
    BY <1>1, StartsEquation
  <1>a. ASSUME NEW p \in Nat, p >= t.pc PROVE f[p] = <<>>
    BY <1>4, <1>a
  <1>b. ASSUME NEW p \in Nat, ~(p >= t.pc) PROVE f[p] = <<p>> \o f[DecodeAt(t.iseq, p).next]
    BY <1>4, <1>b
  <1> DEFINE S == {k \in Nat : k <= n => f[at(n + 1 - k)] = SubSeq(st, n + 1 - k, n)}
  <1> HIDE DEF at, n
  <1>5. 0 \in S
    <2>1. n + 1 - 0 = n + 1
      BY <1>1
    <2>2. f[at(n + 1)] = <<>>
      <3>1. t.pc \in Nat /\ t.pc >= t.pc
        BY <1>1
      <3>2. f[t.pc] = <<>>
        BY <3>1, <1>a
      <3>3. QED
        BY <3>2, <1>1
    <2>3. SubSeq(st, n + 1, n) = <<>>
      BY <1>1, SubSeqEmpty
    <2>4. QED
      BY <2>1, <2>2, <2>3
  <1>6. ASSUME NEW k \in Nat, k \in S PROVE k + 1 \in S
    <2>1. ASSUME k + 1 <= n PROVE f[at(n + 1 - (k + 1))] = SubSeq(st, n + 1 - (k + 1), n)
      <3> DEFINE i == n - k
      <3>1. i \in 1 .. n /\ i \in 1 .. n + 1 /\ n + 1 - (k + 1) = i /\ n + 1 - k = i + 1
            /\ i < n + 1 /\ n + 1 \in 1 .. n + 1
        BY <1>1, <2>1
      <3>2. f[at(i + 1)] = SubSeq(st, i + 1, n)
        BY <1>1, <1>6, <2>1, <3>1
      <3> HIDE DEF i
      <3>3. at(i) < at(n + 1)
        BY <1>3, <3>1
      <3>4. st[i] \in Nat /\ at(i) = st[i] /\ DecodeAt(t.iseq, st[i]).next = at(i + 1)
        BY <1>1, <1>2, <3>1
      <3>5. f[st[i]] = <<st[i]>> \o f[DecodeAt(t.iseq, st[i]).next]
        <4>1. st[i] \in Nat /\ ~(st[i] >= t.pc)
          BY <1>1, <3>3, <3>4
        <4>2. QED
          BY <4>1, <1>b
      <3>6. SubSeq(st, i, n) = <<st[i]>> \o SubSeq(st, i + 1, n)
        BY <1>2, <3>1, FromNextOn DEF n
      <3>7. f[at(i)] = SubSeq(st, i, n)
        BY <3>2, <3>4, <3>5, <3>6
      <3>8. QED
        BY <3>1, <3>7
    <2>2. QED
      BY <2>1
  <1> HIDE DEF S
  <1>7. n \in S
    BY <1>1, <1>5, <1>6, SetInduction
  <1>8. f[at(1)] = SubSeq(st, 1, n)
    <2>1. n + 1 - n = 1
      BY <1>1
    <2>2. QED
      BY <2>1, <1>1, <1>7 DEF S
  <1>9. SubSeq(st, 1, n) = st
    <2>1. SubSeq(st, 1, n) \in Seq(Nat)
      BY <1>1, SubSeqProperties
    <2>2. Len(SubSeq(st, 1, n)) = n
      BY <1>1, SubSeqProperties
    <2>3. \A i \in 1 .. n : SubSeq(st, 1, n)[i] = st[i]
      BY <1>1, SubSeqProperties
    <2> DEFINE r == SubSeq(st, 1, n)
    <2> HIDE DEF r
    <2>4. r = st
      BY <2>1, <2>2, <2>3, <1>2, SeqEqual DEF n, r
    <2>5. QED
      BY <2>4 DEF r
  <1>10. QED
    BY <1>2, <1>4, <1>8, <1>9

LEMMA PrevEquation ==
  ASSUME NEW t, NEW pc \in Nat \ {0},
         \A p \in Nat : SizeAt(t.iseq, p) \in Nat /\ SizeAt(t.iseq, p) > 0
  PROVE  \E f : /\ PrevPc(t, pc) = f[0]
                /\ \A p \in Nat :
                     f[p] = IF p + SizeAt(t.iseq, p) >= pc THEN p ELSE f[p + SizeAt(t.iseq, p)]
  <1> DEFINE next == [p \in Nat |-> p + SizeAt(t.iseq, p)]
             last == [p \in Nat |-> p]
             step == [p \in Nat |-> [v \in Nat |-> v]]
             ends == {p \in Nat : p + SizeAt(t.iseq, p) >= pc}
             Eq(f) == f = [p \in Nat |-> IF p + SizeAt(t.iseq, p) >= pc THEN p
                                         ELSE f[p + SizeAt(t.iseq, p)]]
  <1>1. next \in [Nat -> Nat] /\ last \in [Nat -> Nat] /\ \A p \in Nat : next[p] > p
    OBVIOUS
  <1>2. step \in [Nat -> [Nat -> Nat]]
    OBVIOUS
  <1>3. \A p \in Nat : p >= pc => p \in ends
    OBVIOUS
  <1>4. Recursion(pc, Nat, next, last, step, ends)
    <2> HIDE DEF next, last, step, ends
    <2>1. QED
      BY <1>1, <1>2, <1>3 DEF Recursion
  <1>5. PICK f \in [Nat -> Nat] : Equation(f, next, last, step, ends)
    <2> HIDE DEF next, last, step, ends
    <2>1. QED
      BY <1>4, ForwardRecursion, Zenon
  <1>6. \A p \in Nat : f[p] = IF p + SizeAt(t.iseq, p) >= pc THEN p ELSE f[p + SizeAt(t.iseq, p)]
    <2>1. TAKE p \in Nat
    <2>2. f[p] = IF p \in ends THEN last[p] ELSE step[p][f[next[p]]]
      BY <1>5 DEF Equation
    <2>3. next[p] \in Nat /\ f[next[p]] \in Nat
      BY <1>1
    <2>4. step[p][f[next[p]]] = f[next[p]]
      BY <2>3
    <2>5. QED
      BY <2>2, <2>4
  <1>7. Eq(f)
    <2>1. f = [p \in Nat |-> f[p]]
      OBVIOUS
    <2>2. QED
      BY <2>1, <1>6, Zenon
  <1> DEFINE g == CHOOSE h : Eq(h)
  <1>8. Eq(g)
    BY <1>7, Zenon
  <1>9. PrevPc(t, pc) = g[0]
    BY Zenon DEF PrevPc
  <1> HIDE DEF g
  <1>10. \A p \in Nat : g[p] = IF p + SizeAt(t.iseq, p) >= pc THEN p ELSE g[p + SizeAt(t.iseq, p)]
    BY <1>8, Zenon
  <1>11. QED
    BY <1>9, <1>10

LEMMA SizeType ==
  ASSUME NEW iseq, NEW pos \in Nat
  PROVE  SizeAt(iseq, pos) \in Nat /\ SizeAt(iseq, pos) > 0
  <1>1. ASSUME NEW op, NEW ext \in 0 .. 3
        PROVE  InsnSize(op, ext) \in Nat /\ InsnSize(op, ext) > 0
    BY ShapeFoundType DEF InsnSize, ShapeFound
  <1>2. ExtOf(OpAt(iseq, pos)) \in 0 .. 3
    BY ExtType DEF ExtAt
  <1>3. QED
    BY <1>1, <1>2 DEF SizeAt

LEMMA PrevOfLaid ==
  ASSUME NEW t, NEW st, Laid(t, st), NEW i \in 1 .. Len(st)
  PROVE  PrevPc(t, At(st, t.pc, i + 1)) = st[i]
  <1> DEFINE n == Len(st)
             at(j) == At(st, t.pc, j)
             pc == at(i + 1)
  <1>1. /\ n \in Nat /\ i \in 1 .. n /\ \A j \in 1 .. n + 1 : at(j) \in Nat
        /\ \A j \in 1 .. n : st[j] \in Nat /\ at(j) = st[j]
    BY LaidTypes
  <1>2. /\ at(1) = 0
        /\ \A j \in 1 .. n : SizeAt(t.iseq, st[j]) = DecodeAt(t.iseq, st[j]).next - st[j]
                             /\ DecodeAt(t.iseq, st[j]).next = at(j + 1)
    BY DEF Laid, Sound
  <1>3. \A j, k \in 1 .. n + 1 : j < k => at(j) < at(k)
    BY LaidOrder
  <1> HIDE DEF at, n
  <1>4. pc \in Nat \ {0}
    <2>1. 1 \in 1 .. n + 1 /\ i + 1 \in 1 .. n + 1 /\ 1 < i + 1
      BY <1>1
    <2>2. QED
      BY <2>1, <1>1, <1>2, <1>3
  <1>5. PICK f : /\ PrevPc(t, pc) = f[0]
                 /\ \A p \in Nat :
                      f[p] = IF p + SizeAt(t.iseq, p) >= pc THEN p ELSE f[p + SizeAt(t.iseq, p)]
    BY <1>4, SizeType, PrevEquation
  <1> DEFINE S == {k \in Nat : k < i => f[at(i - k)] = st[i]}
  <1> HIDE DEF pc
  <1>6. \A j \in 1 .. n : st[j] + SizeAt(t.iseq, st[j]) = at(j + 1)
    <2>1. TAKE j \in 1 .. n
    <2>2. j + 1 \in 1 .. n + 1
      BY <1>1
    <2>3. st[j] \in Nat /\ at(j + 1) \in Nat
      BY <1>1, <2>2
    <2>4. SizeAt(t.iseq, st[j]) = at(j + 1) - st[j]
      BY <1>2
    <2>5. QED
      BY <2>3, <2>4
  <1>7. 0 \in S
    <2>1. i - 0 = i /\ at(i) = st[i] /\ st[i] \in Nat
      BY <1>1
    <2>2. st[i] + SizeAt(t.iseq, st[i]) >= pc
      BY <1>1, <1>4, <1>6 DEF pc
    <2>3. f[st[i]] = st[i]
      BY <1>5, <2>1, <2>2
    <2>4. QED
      BY <2>1, <2>3
  <1>8. ASSUME NEW k \in Nat, k \in S PROVE k + 1 \in S
    <2>1. ASSUME k + 1 < i PROVE f[at(i - (k + 1))] = st[i]
      <3> DEFINE j == i - (k + 1)
      <3>1. j \in 1 .. n /\ i - k = j + 1 /\ j + 1 < i + 1 /\ j + 1 \in 1 .. n + 1
            /\ i + 1 \in 1 .. n + 1
        BY <1>1, <2>1
      <3>2. f[at(j + 1)] = st[i]
        BY <1>1, <1>8, <2>1, <3>1
      <3> HIDE DEF j
      <3>3. at(j + 1) < pc /\ at(j + 1) \in Nat
        BY <1>1, <1>3, <3>1 DEF pc
      <3>4. st[j] + SizeAt(t.iseq, st[j]) = at(j + 1) /\ at(j) = st[j] /\ st[j] \in Nat
        BY <1>1, <1>6, <3>1
      <3>5. ~(st[j] + SizeAt(t.iseq, st[j]) >= pc)
        BY <1>4, <3>3, <3>4
      <3>6. f[st[j]] = f[st[j] + SizeAt(t.iseq, st[j])]
        BY <1>5, <3>4, <3>5
      <3>7. f[at(j)] = st[i]
        BY <3>2, <3>4, <3>6
      <3>8. QED
        BY <3>7 DEF j
    <2>2. QED
      BY <2>1
  <1> HIDE DEF S
  <1>9. i - 1 \in S
    <2>1. i - 1 \in Nat
      BY <1>1
    <2>2. Nat \subseteq S
      BY <1>7, <1>8, SetInduction
    <2>3. QED
      BY <2>1, <2>2
  <1>10. f[at(1)] = st[i]
    <2>1. i - 1 < i /\ i - (i - 1) = 1
      BY <1>1
    <2>2. f[at(i - (i - 1))] = st[i]
      BY <2>1, <1>9 DEF S
    <2>3. QED
      BY <2>1, <2>2
  <1>11. QED
    BY <1>2, <1>5, <1>10 DEF pc, at

--------------------------------------------------------------------------------
(* Code that is laid out, after a step.                                         *)

LEMMA SentLocal ==
  ASSUME NEW iseq, NEW jseq, NEW from \in Nat, NEW to \in Nat, Same(iseq, jseq, from, to),
         NEW slot \in Nat, slot >= from, slot + 2 <= to
  PROVE  SentTo(jseq, slot) = SentTo(iseq, slot)
  <1>1. WordAt(jseq, slot) = WordAt(iseq, slot)
    BY OperandLocal
  <1>2. QED
    BY <1>1 DEF SentTo

\* What instructions that stay as they are read as.
LEMMA Kept ==
  ASSUME NEW t, NEW st, Laid(t, st), NEW u, NEW k \in 0 .. Len(st),
         Same(t.iseq, u.iseq, 0, At(st, t.pc, k + 1)), NEW i \in 1 .. k
  PROVE  /\ DecodeAt(u.iseq, st[i]) = DecodeAt(t.iseq, st[i])
         /\ SizeAt(u.iseq, st[i]) = SizeAt(t.iseq, st[i])
         /\ DecodeAt(t.iseq, st[i]).insn.op \in JumpOps =>
              SentTo(u.iseq, DecodeAt(t.iseq, st[i]).next - 2)
                = SentTo(t.iseq, DecodeAt(t.iseq, st[i]).next - 2)
  <1> DEFINE n == Len(st)
             to == At(st, t.pc, k + 1)
             next == DecodeAt(t.iseq, st[i]).next
  <1>1. n \in Nat /\ i \in 1 .. n /\ k \in Nat /\ st[i] \in Nat /\ to \in Nat
        /\ At(st, t.pc, i + 1) \in Nat /\ next = At(st, t.pc, i + 1)
    BY LaidTypes DEF Laid
  <1>2. next \in Nat /\ next <= to
    <2>1. CASE i = k
      BY <1>1, <2>1
    <2>2. CASE i # k
      <3>1. i + 1 \in 1 .. n + 1 /\ k + 1 \in 1 .. n + 1 /\ i + 1 < k + 1
        BY <1>1, <2>2
      <3>2. At(st, t.pc, i + 1) < to
        BY <3>1, LaidOrder
      <3>3. QED
        BY <1>1, <3>2
    <2>3. QED
      BY <2>1, <2>2
  <1> HIDE DEF to
  <1>3. Same(t.iseq, u.iseq, st[i], next)
    BY <1>1, <1>2 DEF Same, to
  <1>4. /\ DecodeAt(u.iseq, st[i]) = DecodeAt(t.iseq, st[i])
        /\ SizeAt(u.iseq, st[i]) = SizeAt(t.iseq, st[i])
    BY <1>1, <1>3, DecodeLocal
  <1>5. ASSUME DecodeAt(t.iseq, st[i]).insn.op \in JumpOps
        PROVE  SentTo(u.iseq, next - 2) = SentTo(t.iseq, next - 2)
    <2>1. next - 2 > OpPlace(t.iseq, st[i]) /\ OpPlace(t.iseq, st[i]) \in Nat
          /\ OpPlace(t.iseq, st[i]) >= st[i]
      BY <1>1, <1>5, DecodeNext
    <2> DEFINE slot == next - 2
    <2>2. slot \in Nat /\ slot >= st[i] /\ slot + 2 <= next
      BY <1>1, <1>2, <2>1
    <2> HIDE DEF slot, next
    <2>3. st[i] \in Nat /\ next \in Nat
      BY <1>1, <1>2
    <2>4. SentTo(u.iseq, slot) = SentTo(t.iseq, slot)
      BY <1>3, <2>2, <2>3, SentLocal
    <2>5. QED
      BY <2>4 DEF slot
  <1>6. QED
    BY <1>4, <1>5

LEMMA FrontOf ==
  ASSUME NEW S, NEW s \in Seq(S), NEW k \in 0 .. Len(s)
  PROVE  /\ SubSeq(s, 1, k) \in Seq(S) /\ Len(SubSeq(s, 1, k)) = k
         /\ \A i \in 1 .. k : SubSeq(s, 1, k)[i] = s[i]
  <1>1. \A i \in 1 .. k : s[i] \in S
    BY LenProperties
  <1>2. k \in Nat /\ Len(s) \in Nat
    OBVIOUS
  <1>3. SubSeq(s, 1, k) \in Seq(S)
    BY <1>1, <1>2, SubSeqProperties
  <1>4. Len(SubSeq(s, 1, k)) = k
    BY <1>1, <1>2, SubSeqProperties
  <1>5. \A i \in 1 .. k : SubSeq(s, 1, k)[i] = s[i]
    BY <1>1, <1>2, SubSeqProperties
  <1>6. QED
    BY <1>3, <1>4, <1>5

\* Where instructions start when only the first k are left, and when one is added.
Front(st, k)   == SubSeq(st, 1, k)
Longer(st, pos) == Append(st, pos)

\* Taking back the instructions behind the first k.
LEMMA LaidCut ==
  ASSUME NEW t, NEW st, Laid(t, st), NEW k \in 0 .. Len(st), NEW u,
         Cut(t, u, At(st, t.pc, k + 1)), NEW su, su = Front(st, k)
  PROVE  /\ Laid(u, su) /\ Len(su) = k /\ Same(t.iseq, u.iseq, 0, At(st, t.pc, k + 1))
         /\ \A i \in 1 .. k + 1 : At(su, u.pc, i) = At(st, t.pc, i)
         /\ \A i \in 1 .. k : su[i] = st[i]
  <1> DEFINE n == Len(st)
             to == At(st, t.pc, k + 1)
  <1>1. n \in Nat /\ k \in Nat /\ to \in Nat /\ st \in Seq(Nat)
    BY LaidTypes DEF Laid
  <1>2. su \in Seq(Nat) /\ Len(su) = k /\ \A i \in 1 .. k : su[i] = st[i]
    BY <1>1, FrontOf DEF Front
  <1>3. Same(t.iseq, u.iseq, 0, to)
    BY <1>1 DEF Same, Cut
  <1>4. \A i \in 1 .. k + 1 : At(su, u.pc, i) = At(st, t.pc, i)
    BY <1>1, <1>2 DEF At, Cut
  <1>5. ASSUME NEW i \in 1 .. k
        PROVE  DecodeAt(u.iseq, su[i]).next = At(su, u.pc, i + 1) /\ Sound(u, su[i])
    <2>1. /\ DecodeAt(u.iseq, st[i]) = DecodeAt(t.iseq, st[i])
          /\ SizeAt(u.iseq, st[i]) = SizeAt(t.iseq, st[i])
      BY <1>3, Kept
    <2>2. su[i] = st[i] /\ u.pool = t.pool /\ i \in 1 .. n /\ i + 1 \in 1 .. k + 1
      BY <1>1, <1>2 DEF Cut
    <2>3. DecodeAt(t.iseq, st[i]).next = At(st, t.pc, i + 1) /\ Sound(t, st[i])
      BY <2>2 DEF Laid
    <2>4. Sound(u, st[i])
      BY <2>1, <2>2, <2>3 DEF Sound
    <2>5. QED
      BY <1>4, <2>1, <2>2, <2>3, <2>4
  <1>6. Whole(u) /\ At(su, u.pc, 1) = 0
    BY <1>1, <1>4 DEF Cut, Laid
  <1>7. QED
    BY <1>2, <1>3, <1>4, <1>5, <1>6 DEF Laid

\* One more instruction at the end.
Continues(t, u, insn) ==
  /\ Whole(u) /\ u.pc > t.pc /\ u.lastlabel = t.lastlabel /\ PoolKept(t, u)
  /\ Same(t.iseq, u.iseq, 0, t.pc)
  /\ DecodeAt(u.iseq, t.pc) = [insn |-> insn, next |-> u.pc] /\ Sound(u, t.pc)

LEMMA LaidMore ==
  ASSUME NEW t, NEW st, Laid(t, st), NEW u, NEW insn, Continues(t, u, insn),
         NEW su, su = Longer(st, t.pc)
  PROVE  /\ Laid(u, su) /\ Len(su) = Len(st) + 1 /\ su[Len(st) + 1] = t.pc
         /\ \A i \in 1 .. Len(st) : su[i] = st[i]
         /\ \A i \in 1 .. Len(st) + 1 : At(su, u.pc, i) = At(st, t.pc, i)
         /\ At(su, u.pc, Len(st) + 2) = u.pc
  <1> DEFINE n == Len(st)
  <1>1. n \in Nat /\ t.pc \in Nat /\ st \in Seq(Nat) /\ At(st, t.pc, n + 1) = t.pc
    BY LaidTypes DEF Laid
  <1>2. su \in Seq(Nat) /\ Len(su) = n + 1 /\ su[n + 1] = t.pc /\ \A i \in 1 .. n : su[i] = st[i]
    BY <1>1, AppendProperties DEF Longer
  <1>3. /\ \A i \in 1 .. n + 1 : At(su, u.pc, i) = At(st, t.pc, i)
        /\ At(su, u.pc, n + 2) = u.pc
    BY <1>1, <1>2 DEF At
  <1>4. ASSUME NEW i \in 1 .. n
        PROVE  DecodeAt(u.iseq, su[i]).next = At(su, u.pc, i + 1) /\ Sound(u, su[i])
    <2>1. n \in 0 .. n /\ Same(t.iseq, u.iseq, 0, At(st, t.pc, n + 1))
      BY <1>1 DEF Continues
    <2>2. /\ DecodeAt(u.iseq, st[i]) = DecodeAt(t.iseq, st[i])
          /\ SizeAt(u.iseq, st[i]) = SizeAt(t.iseq, st[i])
      BY <2>1, Kept
    <2>3. DecodeAt(t.iseq, st[i]).next = At(st, t.pc, i + 1) /\ Sound(t, st[i])
      BY DEF Laid
    <2>4. Len(u.pool) >= Len(t.pool) /\ Len(u.pool) \in Nat /\ Len(t.pool) \in Nat
      BY DEF Continues, PoolKept, Laid, Whole, Buffers
    <2>5. Sound(u, st[i])
      BY <2>2, <2>3, <2>4 DEF Sound
    <2>6. su[i] = st[i]
      BY <1>2
    <2>7. i + 1 \in 1 .. n + 1
      BY <1>1
    <2>8. At(su, u.pc, i + 1) = At(st, t.pc, i + 1)
      BY <1>3, <2>7
    <2>9. QED
      BY <2>2, <2>3, <2>5, <2>6, <2>8
  <1>5. DecodeAt(u.iseq, su[n + 1]).next = At(su, u.pc, n + 2) /\ Sound(u, su[n + 1])
    BY <1>2, <1>3 DEF Continues
  <1>6. \A i \in 1 .. n + 1 : DecodeAt(u.iseq, su[i]).next = At(su, u.pc, i + 1) /\ Sound(u, su[i])
    <2>1. TAKE i \in 1 .. n + 1
    <2>2. CASE i \in 1 .. n
      BY <1>4, <2>2
    <2>3. CASE i = n + 1
      <3>1. i + 1 = n + 2
        BY <1>1, <2>3
      <3>2. QED
        BY <1>5, <2>3, <3>1
    <2>4. QED
      BY <1>1, <2>2, <2>3
  <1>7. Whole(u) /\ At(su, u.pc, 1) = 0
    BY <1>1, <1>3 DEF Continues, Laid
  <1>8. QED
    BY <1>2, <1>3, <1>6, <1>7 DEF Laid

--------------------------------------------------------------------------------
(* Chains of jumps: J are the jumps, slot[i] is where the offset of a jump is,  *)
(* and sent[i] where that leads.                                                *)

Ends(J, slot) == {0} \cup {slot[i] : i \in J}

\* Slots are in the order of their jumps, and no slot is a label.
Placing(J, slot, marks) ==
  /\ J \subseteq Nat
  /\ \A i \in J : slot[i] \in Nat /\ slot[i] # 0 /\ slot[i] \notin marks
  /\ \A i, j \in J : i < j => slot[i] < slot[j]

Linked(J, slot, sent, marks, links) ==
  /\ \A i \in J : sent[i] \in marks \cup Ends(J, slot)
  /\ \A link \in links : \E i \in J : link = slot[i] /\ sent[i] \in Ends(J, slot)
  /\ \A i, j \in J :
       sent[i] = slot[j] => j < i /\ sent[j] \in Ends(J, slot) /\ slot[j] \notin links
  /\ \A i, j \in J : sent[i] = sent[j] /\ sent[i] \in {slot[k] : k \in J} => i = j

LEMMA SlotsDiffer ==
  ASSUME NEW J, NEW slot, NEW marks, Placing(J, slot, marks)
  PROVE  \A i, j \in J : slot[i] = slot[j] => i = j
  <1>1. TAKE i \in J, j \in J
  <1>2. i \in Nat /\ j \in Nat /\ slot[i] \in Nat /\ slot[j] \in Nat
    BY DEF Placing
  <1>3. (i < j => slot[i] < slot[j]) /\ (j < i => slot[j] < slot[i])
    BY DEF Placing
  <1>4. QED
    BY <1>2, <1>3

\* One more jump, to a label or at the head of a chain.
LEMMA LinkedJump ==
  ASSUME NEW J, NEW slot, NEW sent, NEW marks, NEW links,
         Placing(J, slot, marks), Linked(J, slot, sent, marks, links),
         NEW m \in Nat, \A i \in J : i < m,
         NEW K, K = J \cup {m}, NEW slot2, NEW sent2, Placing(K, slot2, marks),
         \A i \in J : slot2[i] = slot[i] /\ sent2[i] = sent[i],
         sent2[m] \in marks \cup links \cup {0},
         NEW links2,
         \/ sent2[m] \in marks /\ links2 = links
         \/ sent2[m] \notin marks \ {0} /\ links2 = (links \ {sent2[m]}) \cup {slot2[m]}
  PROVE  Linked(K, slot2, sent2, marks, links2)
  <1>1. \A i, j \in K : slot2[i] = slot2[j] => i = j
    BY SlotsDiffer
  <1>2. \A i \in J : slot2[i] # slot2[m] /\ i # m /\ ~(m < i)
    BY DEF Placing
  <1>3. \A link \in links : \E i \in J : link = slot2[i] /\ sent2[i] \in Ends(J, slot)
    BY DEF Linked
  <1>4. Ends(J, slot) \subseteq Ends(K, slot2)
    BY DEF Ends
  <1>5. \A i \in J : sent2[i] # slot2[m]
    BY <1>2 DEF Linked, Ends, Placing
  <1>6. \A i \in K : sent2[i] \in marks \cup Ends(K, slot2)
    BY <1>3, <1>4 DEF Linked, Ends
  <1>7. sent2[m] # slot2[m]
    BY <1>1, <1>2, <1>3 DEF Placing
  <1>8. \A link \in links2 : \E i \in K : link = slot2[i] /\ sent2[i] \in Ends(K, slot2)
    <2>1. TAKE link \in links2
    <2>2. CASE link \in links
      BY <1>3, <1>4, <2>2
    <2>3. CASE link \notin links
      <3>1. link = slot2[m] /\ sent2[m] \notin marks \ {0}
        BY <2>3
      <3>2. sent2[m] \in Ends(K, slot2)
        BY <1>6, <3>1 DEF Ends
      <3>3. QED
        BY <3>1, <3>2
    <2>4. QED
      BY <2>2, <2>3
  <1>9. \A i, j \in K :
          sent2[i] = slot2[j] => j < i /\ sent2[j] \in Ends(K, slot2) /\ slot2[j] \notin links2
    <2>1. SUFFICES ASSUME NEW i \in K, NEW j \in K, sent2[i] = slot2[j]
                   PROVE  j < i /\ sent2[j] \in Ends(K, slot2) /\ slot2[j] \notin links2
      OBVIOUS
    <2>2. j \in J
      BY <1>5, <1>7, <2>1
    <2>3. CASE i \in J
      <3>1. j < i /\ sent2[j] \in Ends(J, slot) /\ slot2[j] \notin links
        BY <2>1, <2>2, <2>3 DEF Linked
      <3>2. slot2[j] # slot2[m]
        BY <1>2, <2>2
      <3>3. QED
        BY <1>4, <3>1, <3>2
    <2>4. CASE i = m
      <3>1. sent2[m] \in links /\ sent2[m] \notin marks
        BY <2>1, <2>4 DEF Placing
      <3>2. PICK k \in J : sent2[m] = slot2[k] /\ sent2[k] \in Ends(J, slot)
        BY <1>3, <3>1
      <3>3. k = j
        BY <1>1, <2>1, <2>4, <3>2
      <3>4. slot2[j] \notin links2
        BY <1>2, <2>1, <2>2, <2>4, <3>1
      <3>5. QED
        BY <1>4, <2>2, <2>4, <3>2, <3>3, <3>4
    <2>5. QED
      BY <2>3, <2>4
  <1>10. \A i, j \in K : sent2[i] = sent2[j] /\ sent2[i] \in {slot2[k] : k \in K} => i = j
    <2>1. ASSUME NEW i \in J, sent2[i] = sent2[m], NEW k \in K, sent2[m] = slot2[k] PROVE FALSE
      <3>1. sent2[m] \in links
        BY <2>1 DEF Placing
      <3>2. k \in J
        BY <1>7, <2>1
      <3>3. slot[k] \notin links
        BY <2>1, <3>2 DEF Linked
      <3>4. QED
        BY <2>1, <3>1, <3>2, <3>3
    <2>2. ASSUME NEW i \in J, NEW j \in J, sent2[i] = sent2[j], NEW k \in K, sent2[i] = slot2[k]
          PROVE  i = j
      <3>1. k \in J
        BY <1>5, <2>2
      <3>2. sent[i] = sent[j] /\ sent[i] \in {slot[l] : l \in J}
        BY <2>2, <3>1
      <3>3. QED
        BY <3>2 DEF Linked
    <2>3. QED
      BY <2>1, <2>2
  <1>11. QED
    BY <1>6, <1>8, <1>9, <1>10 DEF Linked

\* The head of a chain is sent to a new label, and the rest is links.
Sends(J, sent, sent2, j, here) ==
  j \in J /\ sent2[j] = here /\ \A i \in J \ {j} : sent2[i] = sent[i]

LEMMA LinkedLand ==
  ASSUME NEW J, NEW slot, NEW sent, NEW marks, NEW links,
         Linked(J, slot, sent, marks, links),
         NEW sent2, NEW j, NEW here, Sends(J, sent, sent2, j, here), slot[j] \in links,
         Placing(J, slot, marks \cup {here}), here # 0
  PROVE  Linked(J, slot, sent2, marks \cup {here},
                (links \ {slot[j]}) \cup ({sent[j]} \ {0}))
  <1> DEFINE link    == slot[j]
             labels2 == marks \cup {here}
             links2   == (links \ {link}) \cup ({sent[j]} \ {0})
  <1>0. j \in J /\ link \in links /\ sent2[j] = here /\ \A i \in J \ {j} : sent2[i] = sent[i]
    BY DEF Sends
  <1>1. \A i, k \in J : slot[i] = slot[k] => i = k
    BY SlotsDiffer
  <1>2. \A i \in J : sent2[i] \in labels2 \cup Ends(J, slot)
    BY <1>0 DEF Linked
  <1>3. here \notin Ends(J, slot)
    BY DEF Ends, Placing
  <1>4. \A l \in links : \E i \in J : l = slot[i] /\ sent[i] \in Ends(J, slot)
    BY DEF Linked
  <1>5. sent[j] \in Ends(J, slot)
    BY <1>0, <1>1, <1>4
  <1>6. \A i \in J : sent[i] # link
    BY <1>0 DEF Linked
  <1>7. \A i, k \in J : sent[i] = slot[k] => k < i /\ sent[k] \in Ends(J, slot) /\ slot[k] \notin links
    BY DEF Linked
  <1>8. ASSUME NEW i \in J, sent[i] = slot[j] PROVE FALSE
    BY <1>6, <1>8
  <1>9. \A l \in links2 : \E i \in J : l = slot[i] /\ sent2[i] \in Ends(J, slot)
    <2>1. TAKE l \in links2
    <2>2. CASE l \in links /\ l # link
      <3>1. PICK i \in J : l = slot[i] /\ sent[i] \in Ends(J, slot)
        BY <1>4, <2>2
      <3>2. i # j
        BY <2>2, <3>1
      <3>3. QED
        BY <1>0, <3>1, <3>2
    <2>3. CASE ~(l \in links /\ l # link)
      <3>1. l = sent[j] /\ l # 0
        BY <2>3
      <3>2. PICK i \in J : l = slot[i]
        BY <1>5, <3>1 DEF Ends
      <3>3. sent[i] \in Ends(J, slot) /\ i # j
        <4>1. sent[j] = slot[i]
          BY <3>1, <3>2
        <4>2. sent[i] \in Ends(J, slot)
          BY <1>0, <4>1, <1>7
        <4>3. i # j
          BY <1>0, <4>1, <1>8
        <4>4. QED
          BY <4>2, <4>3
      <3>4. QED
        BY <1>0, <3>2, <3>3
    <2>4. QED
      BY <2>2, <2>3
  <1>10. \A i, k \in J :
           sent2[i] = slot[k] => k < i /\ sent2[k] \in Ends(J, slot) /\ slot[k] \notin links2
    <2>1. SUFFICES ASSUME NEW i \in J, NEW k \in J, sent2[i] = slot[k]
                   PROVE  k < i /\ sent2[k] \in Ends(J, slot) /\ slot[k] \notin links2
      OBVIOUS
    <2>2. i # j
      BY <1>0, <1>3, <2>1 DEF Ends
    <2>3. sent[i] = slot[k]
      BY <1>0, <2>1, <2>2
    <2>4. k < i /\ sent[k] \in Ends(J, slot) /\ slot[k] \notin links /\ k # j
      BY <1>7, <1>8, <2>3
    <2>5. slot[k] # sent[j] \/ sent[j] = 0
      BY <1>0, <2>2, <2>3 DEF Linked
    <2>6. QED
      BY <1>0, <2>4, <2>5
  <1>11. \A i, k \in J : sent2[i] = sent2[k] /\ sent2[i] \in {slot[l] : l \in J} => i = k
    <2>1. SUFFICES ASSUME NEW i \in J, NEW k \in J, sent2[i] = sent2[k],
                          sent2[i] \in {slot[l] : l \in J}
                   PROVE  i = k
      OBVIOUS
    <2>2. i # j /\ k # j
      BY <1>0, <1>3, <2>1 DEF Ends
    <2>3. sent[i] = sent[k] /\ sent[i] \in {slot[l] : l \in J}
      BY <1>0, <2>1, <2>2
    <2>4. QED
      BY <2>3 DEF Linked
  <1>12. QED
    BY <1>2, <1>9, <1>10, <1>11 DEF Linked

--------------------------------------------------------------------------------
(* The jumps of a laid out listing, and its labels.                             *)

SlotAt(t, pos)   == DecodeAt(t.iseq, pos).next - 2
JumpsOf(t, st)   == {i \in 1 .. Len(st) : DecodeAt(t.iseq, st[i]).insn.op \in JumpOps}
SlotsOf(t, st)   == [i \in JumpsOf(t, st) |-> SlotAt(t, st[i])]
SentFrom(t, st)  == [i \in JumpsOf(t, st) |-> SentTo(t.iseq, SlotAt(t, st[i]))]
Bounds(st, pc)   == {At(st, pc, i) : i \in 1 .. Len(st) + 1}

Marked(t, st, marks) ==
  /\ t.lastlabel \in Bounds(st, t.pc) /\ marks \subseteq Bounds(st, t.pc)
  /\ \A pos \in marks : pos <= t.lastlabel

Good(t, st, marks, links) ==
  /\ Laid(t, st) /\ Len(t.pool) <= PoolMax
  /\ Marked(t, st, marks)
  /\ Linked(JumpsOf(t, st), SlotsOf(t, st), SentFrom(t, st), marks, links)

\* A slot is strictly inside of its jump.
LEMMA SlotInside ==
  ASSUME NEW t, NEW st, Laid(t, st), NEW i \in JumpsOf(t, st)
  PROVE  /\ i \in 1 .. Len(st) /\ SlotAt(t, st[i]) \in Nat
         /\ At(st, t.pc, i) < SlotAt(t, st[i])
         /\ SlotAt(t, st[i]) + 2 = At(st, t.pc, i + 1)
         /\ OpPlace(t.iseq, st[i]) < SlotAt(t, st[i])
         /\ OpPlace(t.iseq, st[i]) \in Nat /\ st[i] \in Nat /\ OpPlace(t.iseq, st[i]) >= st[i]
         /\ SlotsOf(t, st)[i] = SlotAt(t, st[i])
         /\ SentFrom(t, st)[i] = SentTo(t.iseq, SlotAt(t, st[i]))
         /\ DecodeAt(t.iseq, st[i]).insn.op \in JumpOps
  <1>1. i \in 1 .. Len(st) /\ DecodeAt(t.iseq, st[i]).insn.op \in JumpOps
    BY DEF JumpsOf
  <1>2. st[i] \in Nat /\ At(st, t.pc, i) = st[i] /\ DecodeAt(t.iseq, st[i]).next = At(st, t.pc, i + 1)
        /\ At(st, t.pc, i + 1) \in Nat
    <2>1. i + 1 \in 1 .. Len(st) + 1
      BY <1>1, LaidTypes
    <2>2. QED
      BY <1>1, <2>1, LaidTypes DEF Laid
  <1> DEFINE next == DecodeAt(t.iseq, st[i]).next
             place == OpPlace(t.iseq, st[i])
  <1>3. next \in Nat /\ next - 2 > place /\ place \in Nat /\ place >= st[i]
    BY <1>1, <1>2, DecodeNext
  <1> HIDE DEF place, next
  <1>4. next - 2 \in Nat /\ st[i] < next - 2 /\ next - 2 + 2 = next
    BY <1>2, <1>3
  <1>5. QED
    BY <1>1, <1>2, <1>3, <1>4 DEF SlotAt, SlotsOf, SentFrom, next, place

LEMMA BoundsOf ==
  ASSUME NEW t, NEW st, Laid(t, st)
  PROVE  /\ Bounds(st, t.pc) \subseteq Nat /\ t.pc \in Bounds(st, t.pc)
         /\ \A pos \in Bounds(st, t.pc) : pos <= t.pc
         /\ \A k \in 0 .. Len(st), pos \in Bounds(st, t.pc) :
              pos <= At(st, t.pc, k + 1) => \E i \in 1 .. k + 1 : pos = At(st, t.pc, i)
  <1> DEFINE n == Len(st)
             at(i) == At(st, t.pc, i)
  <1>1. n \in Nat /\ at(n + 1) = t.pc /\ \A i \in 1 .. n + 1 : at(i) \in Nat
    BY LaidTypes
  <1>2. \A i, j \in 1 .. n + 1 : i < j => at(i) < at(j)
    BY LaidOrder
  <1>3. Bounds(st, t.pc) = {at(i) : i \in 1 .. n + 1}
    BY DEF Bounds
  <1> HIDE DEF at, n
  <1>4. t.pc \in Bounds(st, t.pc) /\ Bounds(st, t.pc) \subseteq Nat
    BY <1>1, <1>3
  <1>5. \A i \in 1 .. n + 1 : at(i) <= t.pc
    <2>1. TAKE i \in 1 .. n + 1
    <2>2. CASE i = n + 1
      BY <1>1, <2>2
    <2>3. CASE i # n + 1
      <3>1. i < n + 1 /\ n + 1 \in 1 .. n + 1
        BY <1>1, <2>3
      <3>2. QED
        BY <1>1, <1>2, <3>1
    <2>4. QED
      BY <2>2, <2>3
  <1>6. ASSUME NEW k \in 0 .. n, NEW i \in 1 .. n + 1, at(i) <= at(k + 1)
        PROVE  i \in 1 .. k + 1
    <2>1. k + 1 \in 1 .. n + 1
      BY <1>1
    <2>2. ~(k + 1 < i)
      BY <1>1, <1>2, <1>6, <2>1
    <2>3. QED
      BY <1>1, <2>2
  <1>7. \A k \in 0 .. n, pos \in Bounds(st, t.pc) :
          pos <= at(k + 1) => \E i \in 1 .. k + 1 : pos = at(i)
    BY <1>3, <1>6
  <1>8. QED
    BY <1>3, <1>4, <1>5, <1>7 DEF at, n

LEMMA PlacingOf ==
  ASSUME NEW t, NEW st, Laid(t, st), NEW marks, marks \subseteq Bounds(st, t.pc)
  PROVE  Placing(JumpsOf(t, st), SlotsOf(t, st), marks)
  <1> DEFINE n == Len(st)
             at(i) == At(st, t.pc, i)
             J == JumpsOf(t, st)
             slot == SlotsOf(t, st)
  <1>1. n \in Nat /\ at(n + 1) = t.pc /\ \A i \in 1 .. n + 1 : at(i) \in Nat
    BY LaidTypes
  <1>2. \A i, j \in 1 .. n + 1 : i < j => at(i) < at(j)
    BY LaidOrder
  <1>3. Bounds(st, t.pc) = {at(i) : i \in 1 .. n + 1}
    BY DEF Bounds
  <1>4. \A i \in J : i \in 1 .. n /\ slot[i] \in Nat /\ at(i) < slot[i] /\ slot[i] + 2 = at(i + 1)
    BY SlotInside
  <1> HIDE DEF at, n, J, slot
  <1>5. ASSUME NEW i \in J, NEW j \in 1 .. n + 1 PROVE slot[i] # at(j)
    <2>1. i \in 1 .. n + 1 /\ i + 1 \in 1 .. n + 1 /\ i \in Nat
      BY <1>1, <1>4
    <2>2. CASE j <= i
      <3>1. at(j) <= at(i)
        BY <1>1, <1>2, <2>1, <2>2
      <3>2. QED
        BY <1>1, <1>4, <2>1, <3>1
    <2>3. CASE j >= i + 1
      <3>1. at(j) >= at(i + 1)
        BY <1>1, <1>2, <2>1, <2>3
      <3>2. QED
        BY <1>1, <1>4, <2>1, <3>1
    <2>4. QED
      BY <1>1, <2>1, <2>2, <2>3
  <1>6. ASSUME NEW i \in J, NEW j \in J, i < j PROVE slot[i] < slot[j]
    <2>1. i \in 1 .. n /\ j \in 1 .. n /\ i + 1 \in 1 .. n + 1 /\ j \in 1 .. n + 1 /\ i + 1 <= j
      BY <1>1, <1>4, <1>6
    <2>2. at(i + 1) <= at(j)
      BY <1>1, <1>2, <2>1
    <2>3. at(i + 1) \in Nat /\ at(j) \in Nat /\ slot[i] \in Nat /\ slot[j] \in Nat
      BY <1>1, <1>4, <2>1
    <2>4. slot[i] + 2 = at(i + 1) /\ at(j) < slot[j]
      BY <1>4
    <2>5. QED
      BY <2>2, <2>3, <2>4
  <1>7. \A i \in J : slot[i] \in Nat /\ slot[i] # 0 /\ slot[i] \notin marks
    <2>1. TAKE i \in J
    <2>2. slot[i] \in Nat /\ at(i) < slot[i] /\ at(i) \in Nat
      BY <1>1, <1>4
    <2>3. slot[i] \notin marks
      BY <1>3, <1>5
    <2>4. QED
      BY <2>2, <2>3
  <1>8. J \subseteq Nat
    BY <1>1, <1>4
  <1>9. QED
    BY <1>6, <1>7, <1>8 DEF Placing, J, slot

--------------------------------------------------------------------------------
(* What each kind of step leaves of the jumps.                                  *)

\* Instructions that are kept have the same jumps, with the same slots and targets.
LEMMA SameJumps ==
  ASSUME NEW t, NEW st, NEW u, NEW su, NEW k \in 0 .. Len(st), Laid(t, st),
         Same(t.iseq, u.iseq, 0, At(st, t.pc, k + 1)), \A i \in 1 .. k : su[i] = st[i],
         NEW i \in 1 .. k
  PROVE  /\ DecodeAt(u.iseq, su[i]) = DecodeAt(t.iseq, st[i])
         /\ SlotAt(u, su[i]) = SlotAt(t, st[i])
         /\ DecodeAt(t.iseq, st[i]).insn.op \in JumpOps =>
              SentTo(u.iseq, SlotAt(u, su[i])) = SentTo(t.iseq, SlotAt(t, st[i]))
  <1>1. su[i] = st[i]
    OBVIOUS
  <1>2. /\ DecodeAt(u.iseq, st[i]) = DecodeAt(t.iseq, st[i])
        /\ DecodeAt(t.iseq, st[i]).insn.op \in JumpOps =>
             SentTo(u.iseq, DecodeAt(t.iseq, st[i]).next - 2)
               = SentTo(t.iseq, DecodeAt(t.iseq, st[i]).next - 2)
    BY Kept
  <1>3. QED
    BY <1>1, <1>2 DEF SlotAt

LEMMA GoodCut ==
  ASSUME NEW t, NEW st, NEW marks, NEW links, Good(t, st, marks, links),
         NEW k \in 0 .. Len(st), \A i \in JumpsOf(t, st) : i <= k,
         t.lastlabel <= At(st, t.pc, k + 1),
         NEW u, Cut(t, u, At(st, t.pc, k + 1)), NEW su, su = Front(st, k)
  PROVE  Good(u, su, marks, links)
  <1> DEFINE n == Len(st)
             at(i) == At(st, t.pc, i)
  <1>1. Laid(t, st) /\ n \in Nat /\ k \in Nat /\ \A i \in 1 .. n + 1 : at(i) \in Nat
    BY LaidTypes DEF Good
  <1>2. /\ Laid(u, su) /\ Len(su) = k /\ Same(t.iseq, u.iseq, 0, at(k + 1))
        /\ \A i \in 1 .. k + 1 : At(su, u.pc, i) = at(i)
        /\ \A i \in 1 .. k : su[i] = st[i]
    BY <1>1, LaidCut
  <1>3. \A i \in 1 .. k :
          /\ DecodeAt(u.iseq, su[i]) = DecodeAt(t.iseq, st[i])
          /\ SlotAt(u, su[i]) = SlotAt(t, st[i])
          /\ DecodeAt(t.iseq, st[i]).insn.op \in JumpOps =>
               SentTo(u.iseq, SlotAt(u, su[i])) = SentTo(t.iseq, SlotAt(t, st[i]))
    BY <1>1, <1>2, SameJumps
  <1>4. JumpsOf(u, su) = JumpsOf(t, st)
    <2>1. \A i \in JumpsOf(t, st) : i \in 1 .. k
      BY <1>1 DEF JumpsOf
    <2>2. QED
      BY <1>1, <1>2, <1>3, <2>1 DEF JumpsOf
  <1>5. SlotsOf(u, su) = SlotsOf(t, st) /\ SentFrom(u, su) = SentFrom(t, st)
    <2>1. \A i \in JumpsOf(u, su) : i \in 1 .. k /\ DecodeAt(t.iseq, st[i]).insn.op \in JumpOps
      BY <1>2, <1>3 DEF JumpsOf
    <2>2. \A i \in JumpsOf(u, su) :
            /\ SlotAt(u, su[i]) = SlotAt(t, st[i])
            /\ SentTo(u.iseq, SlotAt(u, su[i])) = SentTo(t.iseq, SlotAt(t, st[i]))
      BY <1>3, <2>1
    <2>3. QED
      BY <1>4, <2>2 DEF SlotsOf, SentFrom
  <1>6. u.lastlabel = t.lastlabel /\ u.pool = t.pool
    BY DEF Cut
  <1>7. Marked(u, su, marks)
    <2>1. /\ t.lastlabel \in Bounds(st, t.pc) /\ marks \subseteq Bounds(st, t.pc)
          /\ \A pos \in marks : pos <= t.lastlabel
      BY DEF Good, Marked
    <2>2. Bounds(st, t.pc) \subseteq Nat
      BY <1>1, BoundsOf
    <2>3. \A pos \in Bounds(st, t.pc) : pos <= at(k + 1) => \E i \in 1 .. k + 1 : pos = at(i)
      BY <1>1, BoundsOf
    <2>4. \A pos \in Bounds(st, t.pc) : pos <= at(k + 1) => pos \in Bounds(su, u.pc)
      BY <1>2, <2>3 DEF Bounds
    <2>5. at(k + 1) \in Nat
      BY <1>1
    <2> HIDE DEF at
    <2>6. \A pos \in marks : pos <= at(k + 1)
      BY <2>1, <2>2, <2>5 DEF at
    <2>7. QED
      BY <1>6, <2>1, <2>4, <2>6 DEF Marked, at
  <1>8. QED
    BY <1>2, <1>4, <1>5, <1>6, <1>7 DEF Good

\* What one more instruction leaves of the others.
LEMMA MoreKeeps ==
  ASSUME NEW t, NEW st, NEW marks, NEW links, Good(t, st, marks, links),
         NEW u, NEW insn, Continues(t, u, insn), NEW su, su = Longer(st, t.pc)
  PROVE  /\ Laid(u, su) /\ Marked(u, su, marks) /\ Len(su) = Len(st) + 1
         /\ \A i \in 1 .. Len(st) : i \in JumpsOf(u, su) <=> i \in JumpsOf(t, st)
         /\ \A i \in JumpsOf(t, st) :
              /\ SlotAt(u, su[i]) = SlotAt(t, st[i])
              /\ SentTo(u.iseq, SlotAt(u, su[i])) = SentTo(t.iseq, SlotAt(t, st[i]))
         /\ Len(su) \in JumpsOf(u, su) <=> insn.op \in JumpOps
         /\ SlotAt(u, su[Len(su)]) = u.pc - 2
  <1> DEFINE n == Len(st)
  <1>1. Laid(t, st) /\ n \in Nat /\ n \in 0 .. n /\ At(st, t.pc, n + 1) = t.pc
    BY LaidTypes DEF Good
  <1>2. /\ Laid(u, su) /\ Len(su) = n + 1 /\ su[n + 1] = t.pc
        /\ \A i \in 1 .. n : su[i] = st[i]
        /\ \A i \in 1 .. n + 1 : At(su, u.pc, i) = At(st, t.pc, i)
    BY <1>1, LaidMore
  <1>3. Same(t.iseq, u.iseq, 0, At(st, t.pc, n + 1))
    BY <1>1 DEF Continues
  <1>4. \A i \in 1 .. n :
          /\ DecodeAt(u.iseq, su[i]) = DecodeAt(t.iseq, st[i])
          /\ SlotAt(u, su[i]) = SlotAt(t, st[i])
          /\ DecodeAt(t.iseq, st[i]).insn.op \in JumpOps =>
               SentTo(u.iseq, SlotAt(u, su[i])) = SentTo(t.iseq, SlotAt(t, st[i]))
    BY <1>1, <1>2, <1>3, SameJumps
  <1>5. \A i \in 1 .. n : i \in JumpsOf(u, su) <=> i \in JumpsOf(t, st)
    <2>1. \A i \in 1 .. n : i \in 1 .. n + 1
      BY <1>1
    <2>2. QED
      BY <1>2, <1>4, <2>1 DEF JumpsOf
  <1>6. \A i \in JumpsOf(t, st) : i \in 1 .. n /\ DecodeAt(t.iseq, st[i]).insn.op \in JumpOps
    BY DEF JumpsOf
  <1>7. DecodeAt(u.iseq, su[n + 1]) = [insn |-> insn, next |-> u.pc]
    BY <1>2 DEF Continues
  <1>8. n + 1 \in JumpsOf(u, su) <=> insn.op \in JumpOps
    BY <1>1, <1>2, <1>7 DEF JumpsOf
  <1>9. SlotAt(u, su[n + 1]) = u.pc - 2
    BY <1>7 DEF SlotAt
  <1>10. Marked(u, su, marks)
    <2>1. /\ t.lastlabel \in Bounds(st, t.pc) /\ marks \subseteq Bounds(st, t.pc)
          /\ \A pos \in marks : pos <= t.lastlabel
      BY DEF Good, Marked
    <2>2. \A pos \in Bounds(st, t.pc) : pos \in Bounds(su, u.pc)
      <3>1. \A i \in 1 .. n + 1 : i \in 1 .. n + 1 + 1
        BY <1>1
      <3>2. QED
        BY <1>2, <3>1 DEF Bounds
    <2>3. u.lastlabel = t.lastlabel
      BY DEF Continues
    <2>4. QED
      BY <2>1, <2>2, <2>3 DEF Marked
  <1>11. QED
    BY <1>2, <1>4, <1>5, <1>6, <1>8, <1>9, <1>10

LEMMA GoodMore ==
  ASSUME NEW t, NEW st, NEW marks, NEW links, Good(t, st, marks, links),
         NEW u, NEW insn, Continues(t, u, insn), insn.op \notin JumpOps, Len(u.pool) <= PoolMax,
         NEW su, su = Longer(st, t.pc)
  PROVE  Good(u, su, marks, links)
  <1>1. /\ Laid(u, su) /\ Marked(u, su, marks) /\ Len(su) = Len(st) + 1
        /\ \A i \in 1 .. Len(st) : i \in JumpsOf(u, su) <=> i \in JumpsOf(t, st)
        /\ Len(su) \notin JumpsOf(u, su)
    BY MoreKeeps
  <1>2. \A i \in JumpsOf(t, st) :
          /\ SlotAt(u, su[i]) = SlotAt(t, st[i])
          /\ SentTo(u.iseq, SlotAt(u, su[i])) = SentTo(t.iseq, SlotAt(t, st[i]))
    BY MoreKeeps
  <1>3. Len(st) \in Nat
    BY LaidTypes DEF Good
  <1>4. JumpsOf(u, su) = JumpsOf(t, st)
    <2>1. \A i \in JumpsOf(u, su) : i \in 1 .. Len(st)
      <3>1. \A i \in JumpsOf(u, su) : i \in 1 .. Len(su)
        BY DEF JumpsOf
      <3>2. QED
        BY <1>1, <1>3, <3>1
    <2>2. \A i \in JumpsOf(t, st) : i \in 1 .. Len(st)
      BY DEF JumpsOf
    <2>3. QED
      BY <1>1, <2>1, <2>2
  <1>5. SlotsOf(u, su) = SlotsOf(t, st) /\ SentFrom(u, su) = SentFrom(t, st)
    BY <1>2, <1>4 DEF SlotsOf, SentFrom
  <1>6. QED
    BY <1>1, <1>4, <1>5 DEF Good

LEMMA GoodJump ==
  ASSUME NEW t, NEW st, NEW marks, NEW links, Good(t, st, marks, links),
         NEW u, NEW insn, Continues(t, u, insn), insn.op \in JumpOps, Len(u.pool) <= PoolMax,
         NEW su, su = Longer(st, t.pc), NEW dest, dest = SentTo(u.iseq, u.pc - 2),
         dest \in marks \cup links \cup {0}, NEW links2,
         \/ dest \in marks /\ links2 = links
         \/ dest \notin marks \ {0} /\ links2 = (links \ {dest}) \cup {u.pc - 2}
  PROVE  Good(u, su, marks, links2)
  <1> DEFINE J == JumpsOf(t, st)
             K == JumpsOf(u, su)
             m == Len(su)
             slot == SlotsOf(t, st)
             sent == SentFrom(t, st)
             slot2 == SlotsOf(u, su)
             sent2 == SentFrom(u, su)
  <1>1. /\ Laid(u, su) /\ Marked(u, su, marks) /\ m = Len(st) + 1
        /\ \A i \in 1 .. Len(st) : i \in K <=> i \in J
        /\ m \in K /\ SlotAt(u, su[m]) = u.pc - 2
    BY MoreKeeps
  <1>2. \A i \in J :
          /\ SlotAt(u, su[i]) = SlotAt(t, st[i])
          /\ SentTo(u.iseq, SlotAt(u, su[i])) = SentTo(t.iseq, SlotAt(t, st[i]))
    BY MoreKeeps
  <1>3. Len(st) \in Nat /\ Laid(t, st)
    BY LaidTypes DEF Good
  <1>4. (\A i \in J : i \in 1 .. Len(st)) /\ (\A i \in K : i \in 1 .. m)
    BY DEF JumpsOf
  <1>5. K = J \cup {m} /\ m \in Nat /\ \A i \in J : i < m
    <2> DEFINE n == Len(st)
    <2>1. n \in Nat /\ m = n + 1 /\ m \in K /\ \A i \in 1 .. n : i \in K <=> i \in J
      BY <1>1, <1>3
    <2>2. (\A i \in J : i \in 1 .. n) /\ (\A i \in K : i \in 1 .. m)
      BY <1>4
    <2> HIDE DEF J, K, m, n
    <2>3. \A i \in K : i \in J \cup {m}
      <3>1. TAKE i \in K
      <3>2. i \in 1 .. n \/ i = m
        BY <2>1, <2>2
      <3>3. QED
        BY <2>1, <3>2
    <2>4. \A i \in J : i \in K /\ i < m
      <3>1. TAKE i \in J
      <3>2. i \in 1 .. n
        BY <2>2
      <3>3. QED
        BY <2>1, <3>2
    <2>5. K = J \cup {m}
      BY <2>1, <2>3, <2>4
    <2>6. m \in Nat
      BY <2>1
    <2>7. QED
      BY <2>4, <2>5, <2>6
  <1>6. slot2[m] = u.pc - 2 /\ sent2[m] = dest
    BY <1>1 DEF SlotsOf, SentFrom
  <1>7. \A i \in J : slot2[i] = slot[i] /\ sent2[i] = sent[i]
    BY <1>2, <1>5 DEF SlotsOf, SentFrom
  <1>8. Placing(J, slot, marks) /\ Placing(K, slot2, marks)
    <2>1. marks \subseteq Bounds(st, t.pc) /\ marks \subseteq Bounds(su, u.pc)
      BY <1>1 DEF Good, Marked
    <2>2. QED
      BY <1>1, <1>3, <2>1, PlacingOf
  <1>9. Linked(J, slot, sent, marks, links)
    BY DEF Good
  <1> HIDE DEF J, K, m, slot, sent, slot2, sent2
  <1>10. \/ sent2[m] \in marks /\ links2 = links
         \/ sent2[m] \notin marks \ {0} /\ links2 = (links \ {sent2[m]}) \cup {slot2[m]}
    BY <1>6
  <1>11. sent2[m] \in marks \cup links \cup {0}
    BY <1>6
  <1>12. Linked(K, slot2, sent2, marks, links2)
    BY <1>5, <1>7, <1>8, <1>9, <1>10, <1>11, LinkedJump
  <1>13. QED
    BY <1>1, <1>12 DEF Good, K, slot2, sent2

\* Patching the slot of one jump leaves every other instruction as it was.
Patches(t, st, u, j, w) ==
  j \in JumpsOf(t, st) /\ w \in Int /\ Patched(t, u, SlotAt(t, st[j]), w)

LEMMA PatchKeeps ==
  ASSUME NEW t, NEW st, Laid(t, st), NEW u, NEW j, NEW w, Patches(t, st, u, j, w),
         NEW i \in 1 .. Len(st), i # j
  PROVE  /\ DecodeAt(u.iseq, st[i]) = DecodeAt(t.iseq, st[i])
         /\ SizeAt(u.iseq, st[i]) = SizeAt(t.iseq, st[i])
         /\ SlotAt(u, st[i]) = SlotAt(t, st[i])
         /\ DecodeAt(t.iseq, st[i]).insn.op \in JumpOps =>
              SentTo(u.iseq, SlotAt(t, st[i])) = SentTo(t.iseq, SlotAt(t, st[i]))
  <1> DEFINE link == SlotAt(t, st[j])
             n == Len(st)
             at(k) == At(st, t.pc, k)
             next == DecodeAt(t.iseq, st[i]).next
  <1>0. j \in JumpsOf(t, st) /\ Patched(t, u, link, w)
    BY DEF Patches
  <1>1. n \in Nat /\ (\A k \in 1 .. n + 1 : at(k) \in Nat) /\ st[i] \in Nat /\ at(i) = st[i]
        /\ next = at(i + 1)
    BY LaidTypes DEF Laid
  <1>2. \A k, l \in 1 .. n + 1 : k < l => at(k) < at(l)
    BY LaidOrder
  <1>3. j \in 1 .. n /\ at(j) < link /\ link + 2 = at(j + 1) /\ link \in Nat
    BY <1>0, SlotInside
  <1> HIDE DEF at, next, n, link
  <1>4. next \in Nat /\ i \in Nat /\ j \in Nat /\ i + 1 \in 1 .. n + 1 /\ j + 1 \in 1 .. n + 1
        /\ i \in 1 .. n + 1 /\ j \in 1 .. n + 1
    BY <1>1, <1>3 DEF n
  <1>5. next <= link \/ st[i] >= link + 2
    <2>1. CASE i < j
      <3>1. at(i + 1) <= at(j)
        <4>1. CASE i + 1 = j
          BY <1>1, <1>4, <4>1
        <4>2. CASE i + 1 # j
          <5>1. i + 1 < j
            BY <1>4, <2>1, <4>2
          <5>2. at(i + 1) < at(j)
            BY <5>1, <1>2, <1>4
          <5>3. QED
            BY <1>1, <1>4, <5>2
        <4>3. QED
          BY <4>1, <4>2
      <3>2. at(i + 1) \in Nat /\ at(j) \in Nat
        BY <1>1, <1>4
      <3>3. QED
        BY <1>1, <1>3, <3>1, <3>2
    <2>2. CASE i > j
      <3>1. at(j + 1) <= at(i)
        <4>1. CASE j + 1 = i
          BY <1>1, <1>4, <4>1
        <4>2. CASE j + 1 # i
          <5>1. j + 1 < i
            BY <1>4, <2>2, <4>2
          <5>2. at(j + 1) < at(i)
            BY <5>1, <1>2, <1>4
          <5>3. QED
            BY <1>1, <1>4, <5>2
        <4>3. QED
          BY <4>1, <4>2
      <3>2. at(j + 1) \in Nat /\ at(i) \in Nat
        BY <1>1, <1>4
      <3>3. QED
        BY <1>1, <1>3, <3>1, <3>2
    <2>3. QED
      BY <1>4, <2>1, <2>2
  <1>6. Same(t.iseq, u.iseq, st[i], next)
    <2>1. \A q \in Nat \ {link, link + 1} : Cell(u.iseq, q) = Cell(t.iseq, q)
      BY <1>0 DEF Patched
    <2>2. ASSUME NEW q \in Nat, q >= st[i], q < next PROVE q # link /\ q # link + 1
      BY <1>1, <1>3, <1>4, <1>5, <2>2
    <2>3. QED
      BY <2>1, <2>2 DEF Same
  <1>7. DecodeAt(u.iseq, st[i]) = DecodeAt(t.iseq, st[i]) /\ SizeAt(u.iseq, st[i]) = SizeAt(t.iseq, st[i])
    BY <1>1, <1>6, DecodeLocal DEF next
  <1>8. ASSUME DecodeAt(t.iseq, st[i]).insn.op \in JumpOps
        PROVE  SentTo(u.iseq, SlotAt(t, st[i])) = SentTo(t.iseq, SlotAt(t, st[i]))
    <2>1. i \in JumpsOf(t, st)
      BY <1>8 DEF JumpsOf
    <2> DEFINE slot == SlotAt(t, st[i])
    <2>2. slot \in Nat /\ at(i) < slot /\ slot + 2 = at(i + 1)
      BY <2>1, SlotInside DEF at
    <2> HIDE DEF slot
    <2>3. slot >= st[i] /\ slot + 2 <= next
      BY <1>1, <1>4, <2>2
    <2>4. st[i] \in Nat /\ next \in Nat
      BY <1>1, <1>4
    <2>5. SentTo(u.iseq, slot) = SentTo(t.iseq, slot)
      BY <1>6, <2>2, <2>3, <2>4, SentLocal
    <2>6. QED
      BY <2>5 DEF slot
  <1>9. SlotAt(u, st[i]) = SlotAt(t, st[i])
    BY <1>7 DEF SlotAt
  <1>10. QED
    BY <1>7, <1>8, <1>9

\* And that jump keeps its operation and its register.
LEMMA PatchedJump ==
  ASSUME NEW t, NEW st, Laid(t, st), NEW u, NEW j, NEW w, Patches(t, st, u, j, w)
  PROVE  LET d == DecodeAt(t.iseq, st[j])
             e == DecodeAt(u.iseq, st[j])
         IN  /\ e.next = d.next /\ e.insn.op = d.insn.op
             /\ d.insn.op \in CondOps => e.insn.a = d.insn.a
             /\ SizeAt(u.iseq, st[j]) = SizeAt(t.iseq, st[j])
             /\ SlotAt(u, st[j]) = SlotAt(t, st[j])
             /\ WordAt(u.iseq, SlotAt(t, st[j])) = w % Word
  <1> DEFINE link == SlotAt(t, st[j])
  <1>0. j \in JumpsOf(t, st) /\ w \in Int /\ Patched(t, u, link, w)
    BY DEF Patches
  <1>1. st[j] \in Nat /\ link \in Nat /\ DecodeAt(t.iseq, st[j]).insn.op \in JumpOps
    BY <1>0, SlotInside
  <1>2. link = DecodeAt(t.iseq, st[j]).next - 2
    BY DEF SlotAt
  <1> HIDE DEF link
  <1>3. Same(t.iseq, u.iseq, st[j], DecodeAt(t.iseq, st[j]).next - 2)
    <2>1. \A q \in Nat \ {link, link + 1} : Cell(u.iseq, q) = Cell(t.iseq, q)
      BY <1>0 DEF Patched
    <2>2. Same(t.iseq, u.iseq, st[j], link)
      BY <1>1, <2>1 DEF Same
    <2>3. QED
      BY <1>2, <2>2
  <1>4. LET d == DecodeAt(t.iseq, st[j])
            e == DecodeAt(u.iseq, st[j])
        IN  /\ e.next = d.next /\ e.insn.op = d.insn.op
            /\ d.insn.op \in CondOps => e.insn.a = d.insn.a
            /\ SizeAt(u.iseq, st[j]) = SizeAt(t.iseq, st[j])
    BY <1>1, <1>3, JumpLocal
  <1>5. SlotAt(u, st[j]) = link
    BY <1>2, <1>4 DEF SlotAt
  <1>6. WordAt(u.iseq, link) = w % Word
    BY <1>0, <1>1, WordRead DEF Patched
  <1>7. QED
    BY <1>4, <1>5, <1>6 DEF link

LEMMA LaidPatch ==
  ASSUME NEW t, NEW st, Laid(t, st), NEW u, NEW j, NEW w, Patches(t, st, u, j, w)
  PROVE  Laid(u, st) /\ u.pc = t.pc /\ JumpsOf(u, st) = JumpsOf(t, st)
  <1>1. Whole(u) /\ u.pc = t.pc /\ u.pool = t.pool
    BY DEF Patches, Patched
  <1>2. ASSUME NEW i \in 1 .. Len(st)
        PROVE  /\ DecodeAt(u.iseq, st[i]).next = DecodeAt(t.iseq, st[i]).next
               /\ DecodeAt(u.iseq, st[i]).insn.op = DecodeAt(t.iseq, st[i]).insn.op
               /\ Sound(u, st[i])
    <2>1. Sound(t, st[i])
      BY DEF Laid
    <2>2. CASE i # j
      <3>1. /\ DecodeAt(u.iseq, st[i]) = DecodeAt(t.iseq, st[i])
            /\ SizeAt(u.iseq, st[i]) = SizeAt(t.iseq, st[i])
        BY <2>2, PatchKeeps
      <3>2. QED
        BY <1>1, <2>1, <3>1 DEF Sound
    <2>3. CASE i = j
      <3>1. /\ DecodeAt(u.iseq, st[j]).next = DecodeAt(t.iseq, st[j]).next
            /\ DecodeAt(u.iseq, st[j]).insn.op = DecodeAt(t.iseq, st[j]).insn.op
            /\ SizeAt(u.iseq, st[j]) = SizeAt(t.iseq, st[j])
        BY PatchedJump
      <3>2. DecodeAt(t.iseq, st[j]).insn.op \in JumpOps
        BY SlotInside DEF Patches
      <3>3. \A op \in JumpOps : op \notin IntLoads \cup {"MOVE"} /\ op # "LOADL"
        BY IntLoadsUsed DEF JumpOps
      <3>4. QED
        BY <1>1, <2>1, <2>3, <3>1, <3>2, <3>3 DEF Sound
    <2>4. QED
      BY <2>2, <2>3
  <1>3. Laid(u, st)
    BY <1>1, <1>2 DEF Laid
  <1>4. JumpsOf(u, st) = JumpsOf(t, st)
    BY <1>2 DEF JumpsOf
  <1>5. QED
    BY <1>1, <1>3, <1>4

LEMMA Landing ==
  ASSUME NEW t, NEW st, Laid(t, st), NEW j \in JumpsOf(t, st), NEW link, link = SlotAt(t, st[j]),
         ~DispatchTooFar(t, link), NEW u, Patched(t, u, link, t.pc - (link + 2))
  PROVE  SentTo(u.iseq, link) = t.pc
  <1> DEFINE w == t.pc - (link + 2)
  <1>1. link \in Nat /\ link + 2 <= t.pc /\ t.pc \in Nat
    <2>1. j \in 1 .. Len(st) /\ link \in Nat /\ link + 2 = At(st, t.pc, j + 1)
      BY SlotInside
    <2>2. At(st, t.pc, j + 1) \in Bounds(st, t.pc)
      <3>1. j + 1 \in 1 .. Len(st) + 1
        BY <2>1, LaidTypes
      <3>2. QED
        BY <3>1 DEF Bounds
    <2>3. At(st, t.pc, j + 1) <= t.pc
      BY <2>2, BoundsOf
    <2>4. QED
      BY <2>1, <2>3, LaidTypes
  <1>2. w \in Int /\ w >= 0 /\ w <= MaxShort
    BY <1>1, Ranges DEF DispatchTooFar
  <1>3. WordAt(u.iseq, link) = w % Word
    <2>1. Patches(t, st, u, j, w)
      BY <1>2 DEF Patches
    <2>2. WordAt(u.iseq, SlotAt(t, st[j])) = w % Word
      BY <2>1, PatchedJump
    <2>3. QED
      BY <2>2
  <1>4. MinShort <= w
    BY <1>2, Ranges, BaseType
  <1> HIDE DEF w
  <1>5. Signed(w % Word, Word) = w
    BY <1>2, <1>4, LoadedWord
  <1>6. SentTo(u.iseq, link) = link + 2 + w
    BY <1>3, <1>5 DEF SentTo
  <1>7. QED
    BY <1>1, <1>6 DEF w

LEMMA GoodLand ==
  ASSUME NEW t, NEW st, NEW marks, NEW links, Good(t, st, marks, links),
         NEW link \in links, ~DispatchTooFar(t, link),
         NEW u, Patched(t, u, link, t.pc - (link + 2)), u.lastlabel = t.pc,
         NEW marks2, marks2 = marks \cup {t.pc},
         NEW links2, links2 = (links \ {link}) \cup ({NextLink(t, link)} \ {0})
  PROVE  Good(u, st, marks2, links2)
  <1> DEFINE J == JumpsOf(t, st)
             slot == SlotsOf(t, st)
             sent == SentFrom(t, st)
             sent2 == SentFrom(u, st)
  <1>1. Laid(t, st) /\ Linked(J, slot, sent, marks, links) /\ Marked(t, st, marks)
    BY DEF Good
  <1>2. PICK j \in J : link = slot[j] /\ sent[j] \in Ends(J, slot)
    BY <1>1 DEF Linked
  <1>3. link = SlotAt(t, st[j]) /\ sent[j] = SentTo(t.iseq, link) /\ link \in Nat
        /\ link + 2 = At(st, t.pc, j + 1) /\ j \in 1 .. Len(st)
    BY <1>1, <1>2, SlotInside
  <1>4. t.pc - (link + 2) \in Int /\ t.pc \in Nat
    BY <1>1, <1>3, LaidTypes
  <1> DEFINE w == t.pc - (link + 2)
  <1>a. Patches(t, st, u, j, w)
    BY <1>2, <1>3, <1>4 DEF Patches
  <1>5. Laid(u, st) /\ u.pc = t.pc /\ JumpsOf(u, st) = J
    BY <1>1, <1>a, LaidPatch
  <1>6. \A i \in J \ {j} : SlotAt(u, st[i]) = SlotAt(t, st[i])
                           /\ SentTo(u.iseq, SlotAt(t, st[i])) = SentTo(t.iseq, SlotAt(t, st[i]))
    <2>1. \A i \in J : i \in 1 .. Len(st) /\ DecodeAt(t.iseq, st[i]).insn.op \in JumpOps
      BY DEF JumpsOf
    <2>2. ASSUME NEW i \in J, i # j
          PROVE  /\ SlotAt(u, st[i]) = SlotAt(t, st[i])
                 /\ SentTo(u.iseq, SlotAt(t, st[i])) = SentTo(t.iseq, SlotAt(t, st[i]))
      <3>1. i \in 1 .. Len(st) /\ DecodeAt(t.iseq, st[i]).insn.op \in JumpOps
        BY <2>1
      <3>2. QED
        BY <1>1, <1>a, <2>2, <3>1, PatchKeeps
    <2>3. QED
      BY <2>2
  <1>7. SlotAt(u, st[j]) = link
    BY <1>1, <1>3, <1>a, PatchedJump
  <1>8. SentTo(u.iseq, link) = t.pc
    BY <1>1, <1>3, Landing
  <1>9. SlotsOf(u, st) = slot
    BY <1>3, <1>5, <1>6, <1>7 DEF SlotsOf
  <1>10. sent2[j] = t.pc /\ \A i \in J \ {j} : sent2[i] = sent[i]
    BY <1>5, <1>6, <1>7, <1>8 DEF SentFrom
  <1>11. t.pc \in Bounds(st, t.pc) /\ Bounds(st, t.pc) \subseteq Nat
         /\ \A pos \in Bounds(st, t.pc) : pos <= t.pc
    BY <1>1, BoundsOf
  <1>12. marks2 \subseteq Bounds(st, t.pc) /\ Marked(u, st, marks2)
    BY <1>1, <1>5, <1>11 DEF Marked
  <1>13. Placing(J, slot, marks2)
    BY <1>1, <1>12, PlacingOf
  <1>14. NextLink(t, link) = sent[j]
    <2>1. link + 2 \in Bounds(st, t.pc) /\ link + 2 # 0
      <3>1. j + 1 \in 1 .. Len(st) + 1
        BY <1>1, <1>3, LaidTypes
      <3>2. QED
        BY <1>3, <3>1 DEF Bounds
    <2>2. Placing(J, slot, Bounds(st, t.pc))
      BY <1>1, PlacingOf
    <2>3. sent[j] # link + 2
      BY <1>2, <2>1, <2>2 DEF Placing, Ends
    <2>4. sent[j] = link + 2 + Signed(WordAt(t.iseq, link), Word)
      BY <1>3 DEF SentTo
    <2>5. Signed(WordAt(t.iseq, link), Word) # 0
      BY <1>3, <2>3, <2>4
    <2>6. QED
      BY <2>4, <2>5 DEF NextLink
  <1>15. t.pc # 0
    <2>1. link + 2 \in Bounds(st, t.pc)
      <3>1. j + 1 \in 1 .. Len(st) + 1
        BY <1>1, <1>3, LaidTypes
      <3>2. QED
        BY <1>3, <3>1 DEF Bounds
    <2>2. QED
      BY <1>3, <1>4, <1>11, <2>1
  <1> HIDE DEF J, slot, sent, sent2
  <1>16. Linked(J, slot, sent2, marks2, links2)
    <2>1. links2 = (links \ {slot[j]}) \cup ({sent[j]} \ {0})
      BY <1>2, <1>14
    <2>2. slot[j] \in links /\ Sends(J, sent, sent2, j, t.pc)
      BY <1>2, <1>10 DEF Sends
    <2>3. Linked(J, slot, sent, marks, links) /\ Placing(J, slot, marks \cup {t.pc})
      BY <1>1, <1>13
    <2>4. Linked(J, slot, sent2, marks \cup {t.pc}, (links \ {slot[j]}) \cup ({sent[j]} \ {0}))
      BY <1>15, <2>2, <2>3, LinkedLand
    <2>5. QED
      BY <2>1, <2>4
  <1>17. Len(u.pool) <= PoolMax
    BY DEF Good, Patched
  <1>18. QED
    BY <1>5, <1>9, <1>12, <1>16, <1>17 DEF Good, J, slot, sent2

LEMMA GoodLabel ==
  ASSUME NEW t, NEW st, NEW marks, NEW links, Good(t, st, marks, links),
         NEW u, u = [t EXCEPT !.lastlabel = t.pc], NEW marks2, marks2 = marks \cup {t.pc}
  PROVE  Good(u, st, marks2, links)
  <1>1. Laid(t, st) /\ t \in Buffers /\ Whole(t)
    BY LaidTypes DEF Good, Laid
  <1>2. u = BufferOf(t.iseq, t.pc, t.lastpc, t.pc, t.pool)
    BY <1>1, WithLastlabel
  <1>3. /\ u \in Buffers /\ u.iseq = t.iseq /\ u.pc = t.pc /\ u.lastpc = t.lastpc
        /\ u.lastlabel = t.pc /\ u.pool = t.pool
    <2>1. t.iseq \in Seq(Cells) /\ t.pc \in Nat /\ t.lastpc \in Nat /\ t.pool \in Seq(Int)
      BY <1>1, BufferFields
    <2>2. QED
      BY <1>2, <2>1, MadeBuffer
  <1>4. Laid(u, st)
    BY <1>1, <1>3 DEF Laid, Whole, Sound
  <1>5. JumpsOf(u, st) = JumpsOf(t, st) /\ \A i \in 1 .. Len(st) : SlotAt(u, st[i]) = SlotAt(t, st[i])
    BY <1>3 DEF JumpsOf, SlotAt
  <1>6. SlotsOf(u, st) = SlotsOf(t, st) /\ SentFrom(u, st) = SentFrom(t, st)
    BY <1>3 DEF SlotsOf, SentFrom, JumpsOf, SlotAt
  <1> DEFINE J == JumpsOf(t, st)
             slot == SlotsOf(t, st)
             sent == SentFrom(t, st)
  <1>7. Linked(J, slot, sent, marks2, links)
    BY DEF Good, Linked
  <1>8. t.pc \in Bounds(st, t.pc) /\ \A pos \in Bounds(st, t.pc) : pos <= t.pc
    BY <1>1, BoundsOf
  <1>9. Marked(u, st, marks2)
    BY <1>3, <1>8 DEF Good, Marked
  <1>10. QED
    BY <1>3, <1>4, <1>5, <1>6, <1>7, <1>9 DEF Good

--------------------------------------------------------------------------------
(* The emitters, on code that is laid out.                                      *)

LEMMA ContinuesEmits ==
  ASSUME NEW t, NEW u, NEW s, NEW insn, Whole(t), Whole(s), s.iseq = t.iseq, s.pc = t.pc,
         s.lastlabel = t.lastlabel, PoolKept(t, s), Emits(s, u, insn),
         insn.op \in IntLoads \cup {"MOVE"} => insn.b \in 0 .. Word - 1 /\ insn.c \in 0 .. Word - 1,
         insn.op = "LOADL" => insn.b + 1 \in 1 .. Len(u.pool)
  PROVE  Continues(t, u, insn)
  <1>1. Grown(s, u) /\ u.pc > s.pc /\ DecodeAt(u.iseq, s.pc) = [insn |-> insn, next |-> u.pc]
        /\ SizeAt(u.iseq, s.pc) = u.pc - s.pc
    BY DEF Emits
  <1>2. Whole(u) /\ u.lastlabel = t.lastlabel /\ PoolKept(t, u)
    BY <1>1 DEF Grown, PoolKept
  <1>3. Same(t.iseq, u.iseq, 0, t.pc)
    <2>1. t.pc \in Nat
      BY BufferFields DEF Whole
    <2>2. \A q \in 0 .. t.pc - 1 : Cell(u.iseq, q) = Cell(t.iseq, q)
      BY <1>1 DEF Grown
    <2>3. QED
      BY <2>1, <2>2 DEF Same
  <1>4. Sound(u, t.pc)
    BY <1>1 DEF Sound
  <1>5. QED
    BY <1>1, <1>2, <1>3, <1>4 DEF Continues

LEMMA PoolKeptSame ==
  ASSUME NEW t, NEW s, s.pool = t.pool, Whole(t)
  PROVE  PoolKept(t, s)
  <1>1. Len(t.pool) \in Nat
    BY DEF Whole, Buffers
  <1>2. QED
    BY <1>1 DEF PoolKept

\* An instruction of a client.
LEMMA GoodEncode ==
  ASSUME NEW t, NEW st, NEW marks, NEW links, Good(t, st, marks, links),
         NEW insn, Writable(insn), insn.op \notin IntLoads, insn.op \notin JumpOps,
         NEW u, u = Encode(t, insn), NEW su, su = Longer(st, t.pc)
  PROVE  Continues(t, u, insn) /\ Good(u, su, marks, links) /\ u.lastpc = t.pc
  <1>1. Whole(t) /\ Len(t.pool) <= PoolMax
    BY DEF Good, Laid
  <1>2. Emits(t, u, insn) /\ u.lastpc = t.pc
    BY <1>1, EncodeReadsBack
  <1>3. Base > 1 /\ Base \in Nat /\ Word \in Nat /\ Word > 0
    BY BaseType
  <1>4. insn.op = "MOVE" => insn.b \in 0 .. Word - 1 /\ insn.c \in 0 .. Word - 1
    <2>1. ASSUME insn.op = "MOVE"
          PROVE  insn.b \in 0 .. Word - 1 /\ insn.c \in 0 .. Word - 1
      <3>1. Shape[insn.op] = "Bb"
        BY <2>1, ShapesUsed
      <3>2. insn.b \in 0 .. Word - 1 /\ insn.c = 0
        BY <3>1 DEF Writable
      <3>3. QED
        BY <1>3, <3>2
    <2>2. QED
      BY <2>1
  <1>5. insn.op # "LOADL"
    BY IntLoadsUsed
  <1>6. Continues(t, u, insn)
    BY <1>1, <1>2, <1>4, <1>5, ContinuesEmits, PoolKeptSame
  <1>7. Len(u.pool) <= PoolMax
    BY <1>1, <1>2 DEF Emits, Grown
  <1>8. QED
    BY <1>2, <1>6, <1>7, GoodMore

\* An integer load.
LEMMA GoodInt ==
  ASSUME NEW t, NEW st, NEW marks, NEW links, Good(t, st, marks, links),
         NEW dst \in 0 .. Word - 1, NEW v \in Int, Long(v) => ~PoolFull(t, v),
         NEW u, u = GenInt(t, dst, v), NEW su, su = Longer(st, t.pc)
  PROVE  /\ \E insn : /\ Continues(t, u, insn) /\ insn.op \in IntLoads /\ insn.a = dst
                      /\ IntOperand(u, insn) = v
         /\ Good(u, su, marks, links) /\ u.lastpc = t.pc
  <1>1. Whole(t) /\ Len(t.pool) <= PoolMax
    BY DEF Good, Laid
  <1>2. Loads(t, u, dst, v) /\ u.lastpc = t.pc /\ Len(u.pool) <= PoolMax
    BY <1>1, GenIntReadsBack
  <1> DEFINE s == IF Long(v) THEN Intern(t, v) ELSE t
  <1>3. PICK insn :
          /\ insn.op \in IntLoads /\ insn.a = dst /\ IntOperand(u, insn) = v
          /\ insn.b \in 0 .. Word - 1 /\ insn.c \in 0 .. Word - 1
          /\ insn.op = "LOADL" => insn.b + 1 \in 1 .. Len(u.pool)
          /\ Emits(s, u, insn)
    BY <1>2 DEF Loads
  <1>4. Whole(s) /\ s.iseq = t.iseq /\ s.pc = t.pc /\ s.lastlabel = t.lastlabel /\ PoolKept(t, s)
    <2>1. CASE Long(v)
      <3> DEFINE r == Intern(t, v)
      <3>1. Whole(r) /\ r.iseq = t.iseq /\ r.pc = t.pc /\ r.lastlabel = t.lastlabel /\ PoolKept(t, r)
        BY <1>1, <2>1, InternFields
      <3>2. s = r
        BY <2>1
      <3> HIDE DEF r, s
      <3>3. QED
        BY <3>1, <3>2
    <2>2. CASE ~Long(v)
      <3>1. s = t
        BY <2>2
      <3>2. PoolKept(t, t)
        BY <1>1, PoolKeptSame
      <3> HIDE DEF s
      <3>3. QED
        BY <1>1, <3>1, <3>2
    <2>3. QED
      BY <2>1, <2>2
  <1> HIDE DEF s
  <1>5. Continues(t, u, insn)
    BY <1>1, <1>3, <1>4, ContinuesEmits
  <1>6. insn.op \notin JumpOps
    BY <1>3, IntLoadsUsed
  <1>7. Good(u, su, marks, links)
    BY <1>2, <1>5, <1>6, GoodMore
  <1>8. QED
    BY <1>2, <1>3, <1>5, <1>7

DestOf(dest) == IF dest = JMPLINK_START THEN 0 ELSE dest

LEMMA SentJump ==
  ASSUME NEW b1, NEW u, NEW op, NEW a, NEW dest \in Nat \cup {JMPLINK_START},
         EmitsJump(b1, u, op, a, dest), Whole(u), ~JumpTooFar(Link(u), dest)
  PROVE  SentTo(u.iseq, u.pc - 2) = DestOf(dest)
  <1> DEFINE slot == u.pc - 2
             off == JmpOffset(slot, dest)
  <1>1. slot \in Nat /\ HoldsWord(u.iseq, slot, off)
    BY DEF EmitsJump
  <1> HIDE DEF slot
  <1>2. off \in Int /\ off + slot + 2 = DestOf(dest)
    BY <1>1 DEF JmpOffset, DestOf, JMPLINK_START
  <1>3. MinShort <= off /\ off <= MaxShort
    BY <1>2, Ranges DEF JumpTooFar, Link, slot
  <1> HIDE DEF off
  <1>4. Signed(off % Word, Word) = off
    BY <1>2, <1>3, LoadedWord
  <1>5. WordAt(u.iseq, slot) = off % Word
    BY <1>1, <1>2, WordRead
  <1>6. SentTo(u.iseq, slot) = DestOf(dest)
    BY <1>1, <1>2, <1>4, <1>5 DEF SentTo
  <1>7. QED
    BY <1>6 DEF slot

LinksAfter(links, marks, dest, link) ==
  IF dest \in marks THEN links ELSE (links \ {dest}) \cup {link}

\* A jump, to a label or at the head of a chain.
LEMMA GoodJumps ==
  ASSUME NEW t, NEW st, NEW marks, NEW links, Good(t, st, marks, links),
         NEW op \in JumpOps, NEW a, NEW dest \in marks \cup links \cup {JMPLINK_START},
         NEW u, EmitsJump(t, u, op, a, dest), ~JumpTooFar(Link(u), dest)
  PROVE  /\ \E insn : /\ Continues(t, u, insn) /\ insn.op = op
                      /\ op \in CondOps => insn.a = a
         /\ SentTo(u.iseq, u.pc - 2) = DestOf(dest)
         /\ Good(u, Longer(st, t.pc), marks, LinksAfter(links, marks, dest, Link(u)))
  <1> DEFINE links2 == LinksAfter(links, marks, dest, Link(u))
             su == Longer(st, t.pc)
  <1>1. Whole(t) /\ Len(t.pool) <= PoolMax /\ Laid(t, st)
    BY DEF Good, Laid
  <1>2. marks \subseteq Nat
    <2>1. marks \subseteq Bounds(st, t.pc)
      BY DEF Good, Marked
    <2>2. QED
      BY <1>1, <2>1, BoundsOf
  <1>3. \A link \in links : link \in Nat /\ link # 0
    <2>1. \A link \in links : \E i \in JumpsOf(t, st) : link = SlotsOf(t, st)[i]
      BY DEF Good, Linked
    <2>2. marks \subseteq Bounds(st, t.pc)
      BY DEF Good, Marked
    <2>3. Placing(JumpsOf(t, st), SlotsOf(t, st), marks)
      BY <1>1, <2>2, PlacingOf
    <2>4. QED
      BY <2>1, <2>3 DEF Placing
  <1>4. dest \in Nat \cup {JMPLINK_START}
    BY <1>2, <1>3
  <1> DEFINE off == JmpOffset(u.pc - 2, dest) % Word
             insn == IF op \in CondOps THEN Instr(op, a, off, 0) ELSE Instr(op, off, 0, 0)
  <1>5. Emits(t, u, insn)
    BY DEF EmitsJump
  <1>6. insn.op = op /\ (op \in CondOps => insn.a = a)
    BY DEF Instr
  <1> HIDE DEF insn, off
  <1>7. op \notin IntLoads \cup {"MOVE"} /\ op # "LOADL"
    BY IntLoadsUsed DEF JumpOps
  <1>8. Continues(t, u, insn)
    BY <1>1, <1>5, <1>6, <1>7, ContinuesEmits, PoolKeptSame
  <1>9. Whole(u) /\ Len(u.pool) <= PoolMax
    BY <1>1, <1>5 DEF Emits, Grown
  <1>10. SentTo(u.iseq, u.pc - 2) = DestOf(dest)
    BY <1>4, <1>9, SentJump
  <1>11. DestOf(dest) \in marks \cup links \cup {0}
    BY DEF DestOf
  <1>12. \/ DestOf(dest) \in marks /\ links2 = links
         \/ DestOf(dest) \notin marks \ {0} /\ links2 = (links \ {DestOf(dest)}) \cup {u.pc - 2}
    <2>1. CASE dest = JMPLINK_START
      <3>1. dest \notin marks /\ dest \notin links /\ 0 \notin links /\ DestOf(dest) = 0
        BY <1>2, <1>3, <2>1 DEF JMPLINK_START, DestOf
      <3>2. links2 = links \cup {u.pc - 2}
        BY <3>1 DEF Link, LinksAfter
      <3>3. QED
        BY <3>1, <3>2
    <2>2. CASE dest # JMPLINK_START
      BY <2>2 DEF DestOf, Link, LinksAfter
    <2>3. QED
      BY <2>1, <2>2
  <1> HIDE DEF links2
  <1>13. Good(u, su, marks, links2)
    BY <1>6, <1>8, <1>9, <1>10, <1>11, <1>12, GoodJump
  <1>14. QED
    BY <1>6, <1>8, <1>10, <1>13 DEF links2

--------------------------------------------------------------------------------
(* What a peephole sees.                                                        *)

\* lastpc is where the last instruction starts, or behind the prefix of a jump that
\* has one; or it is the end of the code, and then nobody looks.
LastKnown(t, st) ==
  \/ t.lastpc = t.pc
  \/ Len(st) # 0 /\ t.lastpc = st[Len(st)]
  \/ /\ Len(st) # 0 /\ t.lastpc = st[Len(st)] + 1
     /\ OpAt(t.iseq, st[Len(st)]) = "EXT1" /\ OpAt(t.iseq, t.lastpc) \in JumpOps

LEMMA JumpNoPrefix ==
  ASSUME NEW iseq, NEW pos \in Nat, OpAt(iseq, pos) \in JumpOps
  PROVE  DecodeAt(iseq, pos).insn.op \in JumpOps
  <1>1. ExtAt(iseq, pos) = 0
    BY DEF ExtAt, ExtOf, JumpOps
  <1>2. OpFound(iseq, pos) = OpAt(iseq, pos)
    BY <1>1 DEF OpFound, OpPlace
  <1>3. QED
    BY <1>2, DecodeNext

LEMMA LastOne ==
  ASSUME NEW t, NEW st, NEW marks, NEW links, Good(t, st, marks, links), LastKnown(t, st),
         ~NoPeephole(t), ~IsJump(LastInsn(t))
  PROVE  /\ Len(st) \in 1 .. Len(st) /\ t.lastpc = st[Len(st)]
         /\ Len(st) \notin JumpsOf(t, st)
         /\ t.lastlabel <= At(st, t.pc, Len(st))
         /\ LastInsn(t) = DecodeAt(t.iseq, st[Len(st)]).insn
  <1> DEFINE n == Len(st)
  <1>1. Laid(t, st) /\ n \in Nat
    BY LaidTypes DEF Good
  <1>2. t.lastlabel # t.pc /\ t.pc # 0 /\ t.pc # t.lastpc
        /\ LastInsn(t) = DecodeAt(t.iseq, t.lastpc).insn
    BY DEF NoPeephole, LastInsn
  <1>3. n # 0 /\ n \in 1 .. n
    BY <1>1, <1>2 DEF LastKnown
  <1>4. st[n] \in Nat
    BY <1>1, <1>3, LaidTypes
  <1>5. t.lastpc = st[n]
    <2>1. ASSUME t.lastpc = st[n] + 1, OpAt(t.iseq, t.lastpc) \in JumpOps PROVE FALSE
      <3>1. t.lastpc \in Nat
        BY <1>4, <2>1
      <3>2. DecodeAt(t.iseq, t.lastpc).insn.op \in JumpOps
        BY <2>1, <3>1, JumpNoPrefix
      <3>3. QED
        BY <1>2, <3>2 DEF IsJump
    <2>2. QED
      BY <1>2, <2>1 DEF LastKnown
  <1>6. n \notin JumpsOf(t, st)
    BY <1>2, <1>5 DEF JumpsOf, IsJump
  <1>7. t.lastlabel <= At(st, t.pc, n)
    <2>1. t.lastlabel \in Bounds(st, t.pc)
      BY DEF Good, Marked
    <2>2. PICK i \in 1 .. n + 1 : t.lastlabel = At(st, t.pc, i)
      BY <2>1 DEF Bounds
    <2>3. i # n + 1
      BY <1>1, <1>2, <2>2, LaidTypes
    <2>4. CASE i = n
      <3>1. At(st, t.pc, n) \in Nat
        BY <1>4 DEF At
      <3>2. QED
        BY <2>2, <2>4, <3>1
    <2>5. CASE i # n
      <3>1. i < n /\ n \in 1 .. n + 1
        BY <1>1, <1>3, <2>3, <2>5
      <3>2. At(st, t.pc, i) < At(st, t.pc, n)
        BY <1>1, <3>1, LaidOrder
      <3>3. At(st, t.pc, i) \in Nat /\ At(st, t.pc, n) \in Nat
        BY <1>1, <3>1, LaidTypes
      <3>4. QED
        BY <2>2, <3>2, <3>3
    <2>6. QED
      BY <2>4, <2>5
  <1>8. QED
    BY <1>2, <1>3, <1>5, <1>6, <1>7

LEMMA LastTwo ==
  ASSUME NEW t, NEW st, NEW marks, NEW links, Good(t, st, marks, links), LastKnown(t, st),
         ~NoPeephole(t), ~IsJump(LastInsn(t)), t.lastpc # t.lastlabel, t.lastpc # 0,
         ~IsJump(DecodeAt(t.iseq, PrevPc(t, t.lastpc)).insn)
  PROVE  /\ Len(st) - 1 \in 1 .. Len(st) /\ PrevPc(t, t.lastpc) = st[Len(st) - 1]
         /\ Len(st) - 1 \notin JumpsOf(t, st)
         /\ t.lastlabel <= At(st, t.pc, Len(st) - 1)
  <1> DEFINE n == Len(st)
             m == n - 1
  <1>1. Laid(t, st) /\ n \in Nat /\ n \in 1 .. n /\ t.lastpc = st[n]
        /\ t.lastlabel <= At(st, t.pc, n)
    BY LaidTypes, LastOne DEF Good
  <1>2. n # 1
    <2>1. At(st, t.pc, 1) = 0
      BY <1>1 DEF Laid
    <2>2. QED
      BY <1>1, <2>1 DEF At
  <1>3. m \in 1 .. n /\ m + 1 = n /\ m < n
    <2> HIDE DEF n
    <2>1. n \in Nat /\ n \in 1 .. n
      BY <1>1
    <2>2. QED
      BY <1>2, <2>1
  <1>4. PrevPc(t, t.lastpc) = st[m]
    <2>1. At(st, t.pc, m + 1) = t.lastpc
      BY <1>1, <1>3 DEF At
    <2> HIDE DEF m
    <2>2. PrevPc(t, At(st, t.pc, m + 1)) = st[m]
      BY <1>1, <1>3, PrevOfLaid
    <2>3. QED
      BY <2>1, <2>2
  <1>5. m \notin JumpsOf(t, st)
    BY <1>4 DEF JumpsOf, IsJump
  <1>6. t.lastlabel <= At(st, t.pc, m)
    <2>1. t.lastlabel \in Bounds(st, t.pc)
      BY DEF Good, Marked
    <2>2. PICK i \in 1 .. n + 1 : t.lastlabel = At(st, t.pc, i)
      BY <2>1 DEF Bounds
    <2>3. /\ n \in 1 .. n + 1 /\ m \in 1 .. n + 1 /\ At(st, t.pc, i) \in Nat
          /\ At(st, t.pc, n) \in Nat /\ At(st, t.pc, m) \in Nat
      BY <1>1, <1>3, <2>2, LaidTypes
    <2>4. At(st, t.pc, n) = t.lastpc
      BY <1>1 DEF At
    <2>5. ~(n < i)
      <3>1. n < i => At(st, t.pc, n) < At(st, t.pc, i)
        BY <1>1, <2>3, LaidOrder
      <3>2. QED
        BY <1>1, <2>2, <2>3, <3>1
    <2>6. i # n
      BY <2>2, <2>4
    <2>7. CASE i = m
      BY <2>2, <2>3, <2>7
    <2>8. CASE i # m
      <3>1. i < m
        <4> HIDE DEF n
        <4>1. n \in Nat /\ i \in 1 .. n + 1
          BY <1>1, <2>2
        <4>2. QED
          BY <2>5, <2>6, <2>8, <4>1
      <3>2. At(st, t.pc, i) < At(st, t.pc, m)
        BY <1>1, <2>3, <3>1, LaidOrder
      <3>3. QED
        BY <2>2, <2>3, <3>2
    <2>9. QED
      BY <2>7, <2>8
  <1>7. QED
    BY <1>3, <1>4, <1>5, <1>6

\* The last n instructions may be taken back when the model says so.
LEMMA TakenBack ==
  ASSUME NEW st, Good(b, st, labels, held), LastKnown(b, st), NEW n \in 0 .. 2, Free(n),
         NEW k, k = Len(st) - n, NEW su, su = Front(st, k)
  PROVE  /\ k \in 0 .. Len(st) /\ \A i \in JumpsOf(b, st) : i <= k
         /\ n > 0 => b.lastlabel <= At(st, b.pc, k + 1)
         /\ n > 0 => Cut(b, Back(n), At(st, b.pc, k + 1))
         /\ n = 0 => Back(n) = b /\ su = st
         /\ Good(Back(n), su, labels, held)
         /\ Back(n).pc = At(st, b.pc, k + 1)
  <1> DEFINE m == Len(st)
  <1>1. Laid(b, st) /\ m \in Nat /\ Whole(b) /\ st \in Seq(Nat)
    BY LaidTypes DEF Good, Laid
  <1>2. \A i \in JumpsOf(b, st) : i \in 1 .. m
    BY DEF JumpsOf
  <1>3. CASE n = 0
    <2>1. k = m /\ Back(n) = b
      BY <1>1, <1>3 DEF Back
    <2>2. su = st
      <3>1. su \in Seq(Nat) /\ Len(su) = m /\ \A i \in 1 .. m : su[i] = st[i]
        BY <1>1, <2>1, FrontOf DEF Front
      <3>2. QED
        BY <1>1, <3>1, SeqEqual
    <2>3. At(st, b.pc, k + 1) = b.pc
      BY <1>1, <2>1, LaidTypes
    <2>4. QED
      BY <1>1, <1>2, <1>3, <2>1, <2>2, <2>3
  <1>4. CASE n = 1
    <2>1. ~NoPeephole(b) /\ ~IsJump(LastInsn(b))
      BY <1>4 DEF Free
    <2>2. /\ m \in 1 .. m /\ b.lastpc = st[m] /\ m \notin JumpsOf(b, st)
          /\ b.lastlabel <= At(st, b.pc, m)
      BY <2>1, LastOne
    <2>3. k \in 0 .. m /\ k + 1 = m /\ \A i \in JumpsOf(b, st) : i <= k
      BY <1>1, <1>2, <1>4, <2>2
    <2>4. At(st, b.pc, k + 1) = b.lastpc /\ b.lastpc \in Nat
      BY <1>1, <2>2, <2>3, LaidTypes
    <2>5. Back(n) = Rewind(b, b.lastpc)
      BY <1>4 DEF Back
    <2>6. b.lastpc <= b.pc
      <3>1. At(st, b.pc, m) < At(st, b.pc, m + 1) /\ At(st, b.pc, m + 1) = b.pc /\ b.pc \in Nat
        <4>1. m \in 1 .. m + 1 /\ m + 1 \in 1 .. m + 1 /\ m < m + 1
          BY <1>1, <2>2
        <4>2. QED
          BY <1>1, <4>1, LaidTypes, LaidOrder
      <3>2. QED
        BY <2>3, <2>4, <3>1
    <2>7. Cut(b, Back(n), At(st, b.pc, k + 1))
      BY <1>1, <2>4, <2>5, <2>6, RewindFields
    <2>8. b.lastlabel <= At(st, b.pc, k + 1)
      BY <2>2, <2>3
    <2>9. Good(Back(n), su, labels, held)
      BY <2>3, <2>7, <2>8, GoodCut
    <2>10. QED
      BY <1>4, <2>3, <2>7, <2>8, <2>9 DEF Cut
  <1>5. CASE n = 2
    <2>1. /\ ~NoPeephole(b) /\ ~IsJump(LastInsn(b)) /\ b.lastpc # b.lastlabel /\ b.lastpc # 0
          /\ ~IsJump(DecodeAt(b.iseq, PrevPc(b, b.lastpc)).insn)
      BY <1>5 DEF Free
    <2>2. /\ m - 1 \in 1 .. m /\ PrevPc(b, b.lastpc) = st[m - 1]
          /\ m - 1 \notin JumpsOf(b, st) /\ b.lastlabel <= At(st, b.pc, m - 1)
      BY <2>1, LastTwo
    <2>3. m \notin JumpsOf(b, st)
      BY <2>1, LastOne
    <2>4. k \in 0 .. m /\ k + 1 = m - 1 /\ \A i \in JumpsOf(b, st) : i <= k
      BY <1>1, <1>2, <1>5, <2>2, <2>3
    <2>5. At(st, b.pc, k + 1) = st[m - 1] /\ st[m - 1] \in Nat
      BY <1>1, <2>2, <2>4, LaidTypes
    <2>6. Back(n) = Rewind(b, st[m - 1])
      BY <1>5, <2>2 DEF Back
    <2>7. st[m - 1] <= b.pc
      <3>1. At(st, b.pc, m - 1) < At(st, b.pc, m + 1) /\ At(st, b.pc, m + 1) = b.pc /\ b.pc \in Nat
        <4>1. m - 1 \in 1 .. m + 1 /\ m + 1 \in 1 .. m + 1 /\ m - 1 < m + 1
          BY <1>1, <2>2
        <4>2. QED
          BY <1>1, <4>1, LaidTypes, LaidOrder
      <3>2. QED
        BY <2>4, <2>5, <3>1
    <2>8. Cut(b, Back(n), At(st, b.pc, k + 1))
      BY <1>1, <2>5, <2>6, <2>7, RewindFields
    <2>9. b.lastlabel <= At(st, b.pc, k + 1)
      BY <2>2, <2>4
    <2>10. Good(Back(n), su, labels, held)
      BY <2>4, <2>8, <2>9, GoodCut
    <2>11. QED
      BY <1>5, <2>4, <2>8, <2>9, <2>10 DEF Cut
  <1>6. QED
    BY <1>3, <1>4, <1>5

--------------------------------------------------------------------------------
(* What clients ask for, and what each request leaves.                          *)

LEMMA AsksForWritable ==
  ASSUME client \in Clients, NEW insn \in client.insns
  PROVE  Writable(insn) /\ insn.op \notin IntLoads /\ insn.op \notin JumpOps
  <1>1. /\ insn = Instr(insn.op, insn.a, insn.b, insn.c) /\ insn.op \in Plain
        /\ <<insn.a, insn.b, insn.c>> \in Operands[Shape[insn.op]]
    BY ClientsAssumption
  <1>2. insn.op \in Operations \ Prefixes /\ insn.op \notin IntLoads /\ insn.op \notin JumpOps
    BY <1>1 DEF Plain, Prefixes
  <1>3. Shape[insn.op] \in {"Z", "B", "Bb", "Bbb", "Bs", "Bss", "S", "W"}
    BY <1>2, ShapeType, ShapeNames
  <1> DEFINE shape == Shape[insn.op]
  <1>4. /\ shape = "Z" => insn.a = 0 /\ insn.b = 0 /\ insn.c = 0
        /\ shape = "B" => insn.a \in 0 .. Word - 1 /\ insn.b = 0 /\ insn.c = 0
        /\ shape = "Bb" => insn.a \in 0 .. Word - 1 /\ insn.b \in 0 .. Word - 1 /\ insn.c = 0
        /\ shape = "Bbb" => /\ insn.a \in 0 .. Word - 1 /\ insn.b \in 0 .. Word - 1
                            /\ insn.c \in 0 .. Base - 1
        /\ shape = "Bs" => insn.a \in 0 .. Word - 1 /\ insn.b \in 0 .. Word - 1 /\ insn.c = 0
        /\ shape # "Bss" /\ shape # "S"
        /\ shape = "W" => insn.a \in 0 .. Word * Base - 1 /\ insn.b = 0 /\ insn.c = 0
    <2> HIDE DEF shape
    <2>1. <<insn.a, insn.b, insn.c>> \in Operands[shape]
      BY <1>1 DEF shape
    <2>2. QED
      BY <2>1 DEF Operands
  <1> HIDE DEF shape
  <1>5. Writable(insn)
    BY <1>1, <1>2, <1>3, <1>4 DEF Writable, shape
  <1>6. QED
    BY <1>2, <1>5

\* The code that is left when n instructions are taken back, and one more.
After(st, n)     == Front(st, Len(st) - n)
Instead(st, n)   == Longer(After(st, n), Back(n).pc)

LEMMA LastOfLonger ==
  ASSUME NEW t, NEW st, Laid(t, st), NEW su, su = Longer(st, t.pc)
  PROVE  Len(su) = Len(st) + 1 /\ Len(su) # 0 /\ su[Len(su)] = t.pc
  <1>1. t.pc \in Nat /\ st \in Seq(Nat) /\ Len(st) \in Nat
    BY LaidTypes DEF Laid
  <1>2. Len(su) = Len(st) + 1 /\ su[Len(st) + 1] = t.pc
    BY <1>1, AppendProperties DEF Longer
  <1>3. QED
    BY <1>1, <1>2

LEMMA GoodAfter ==
  ASSUME NEW st, Good(b, st, labels, held), LastKnown(b, st), NEW n \in 0 .. 2, Free(n)
  PROVE  Good(Back(n), After(st, n), labels, held)
  <1> DEFINE k == Len(st) - n
             su == Front(st, k)
  <1>1. Good(Back(n), su, labels, held)
    BY TakenBack
  <1>2. QED
    BY <1>1 DEF After

LEMMA WriteGood ==
  ASSUME NEW st, Good(b, st, labels, held), LastKnown(b, st), NEW n \in 0 .. 2, Free(n),
         NEW insn, Writable(insn), insn.op \notin IntLoads, insn.op \notin JumpOps,
         NEW u, u = Encode(Back(n), insn)
  PROVE  /\ Good(u, Instead(st, n), labels, held) /\ LastKnown(u, Instead(st, n))
         /\ Continues(Back(n), u, insn)
  <1> DEFINE t == Back(n)
             left == After(st, n)
             su == Longer(left, t.pc)
  <1>1. Good(t, left, labels, held)
    BY GoodAfter
  <1>2. su = Instead(st, n)
    BY DEF Instead
  <1> HIDE DEF t, left
  <1>3. u = Encode(t, insn)
    BY DEF t
  <1>4. Continues(t, u, insn) /\ Good(u, su, labels, held) /\ u.lastpc = t.pc
    BY <1>1, <1>3, GoodEncode
  <1>5. Len(su) # 0 /\ su[Len(su)] = t.pc
    BY <1>1, LastOfLonger DEF Good
  <1>6. LastKnown(u, su)
    BY <1>4, <1>5 DEF LastKnown
  <1>7. QED
    BY <1>2, <1>4, <1>6 DEF t

LEMMA IntGood ==
  ASSUME NEW st, Good(b, st, labels, held), LastKnown(b, st), NEW n \in 0 .. 2, Free(n),
         NEW dst \in 0 .. Word - 1, NEW v \in Int, Long(v) => ~PoolFull(b, v),
         NEW u, u = GenInt(Back(n), dst, v)
  PROVE  /\ Good(u, Instead(st, n), labels, held) /\ LastKnown(u, Instead(st, n))
         /\ \E insn : /\ Continues(Back(n), u, insn) /\ insn.op \in IntLoads /\ insn.a = dst
                      /\ IntOperand(u, insn) = v
  <1> DEFINE t == Back(n)
             left == After(st, n)
             su == Longer(left, t.pc)
  <1>1. Good(t, left, labels, held)
    BY GoodAfter
  <1>2. su = Instead(st, n)
    BY DEF Instead
  <1>3. t.pool = b.pool
    <2> DEFINE k == Len(st) - n
               cut == Front(st, k)
    <2>1. (n > 0 => Cut(b, t, At(st, b.pc, k + 1))) /\ (n = 0 => t = b /\ cut = st)
      BY TakenBack
    <2>2. QED
      BY <2>1 DEF Cut
  <1> HIDE DEF t, left
  <1>4. u = GenInt(t, dst, v) /\ (Long(v) => ~PoolFull(t, v))
    BY <1>3 DEF t, PoolFull
  <1>5. /\ \E insn : /\ Continues(t, u, insn) /\ insn.op \in IntLoads /\ insn.a = dst
                     /\ IntOperand(u, insn) = v
        /\ Good(u, su, labels, held) /\ u.lastpc = t.pc
    BY <1>1, <1>4, GoodInt
  <1>6. Len(su) # 0 /\ su[Len(su)] = t.pc
    BY <1>1, LastOfLonger DEF Good
  <1>7. LastKnown(u, su)
    BY <1>5, <1>6 DEF LastKnown
  <1>8. QED
    BY <1>2, <1>5, <1>7 DEF t

LEMMA JumpGood ==
  ASSUME NEW st, Good(b, st, labels, held), LastKnown(b, st), NEW n \in 0 .. 2, Free(n),
         NEW op \in JumpOps, NEW a, NEW dest \in Dests, NEW u,
         EmitsJump(Back(n), u, op, a, dest), ~JumpTooFar(Link(u), dest),
         \/ u.lastpc = Back(n).pc
         \/ u.lastpc = Back(n).pc + 1 /\ OpAt(u.iseq, Back(n).pc) = "EXT1" /\ OpAt(u.iseq, u.lastpc) = op
  PROVE  /\ Good(u, Instead(st, n), labels, LinksAfter(held, labels, dest, Link(u))) /\ LastKnown(u, Instead(st, n))
         /\ \E insn : /\ Continues(Back(n), u, insn) /\ insn.op = op
                      /\ op \in CondOps => insn.a = a
         /\ SentTo(u.iseq, u.pc - 2) = DestOf(dest)
  <1> DEFINE t == Back(n)
             left == After(st, n)
             su == Longer(left, t.pc)
  <1>1. Good(t, left, labels, held)
    BY GoodAfter
  <1>2. su = Instead(st, n)
    BY DEF Instead
  <1>3. dest \in labels \cup held \cup {JMPLINK_START}
    BY DEF Dests
  <1> HIDE DEF t, left
  <1>4. /\ EmitsJump(t, u, op, a, dest)
        /\ \/ u.lastpc = t.pc
           \/ u.lastpc = t.pc + 1 /\ OpAt(u.iseq, t.pc) = "EXT1" /\ OpAt(u.iseq, u.lastpc) = op
    BY DEF t
  <1>5. /\ \E insn : /\ Continues(t, u, insn) /\ insn.op = op
                     /\ op \in CondOps => insn.a = a
        /\ SentTo(u.iseq, u.pc - 2) = DestOf(dest)
        /\ Good(u, su, labels, LinksAfter(held, labels, dest, Link(u)))
    BY <1>1, <1>3, <1>4, GoodJumps
  <1>6. Len(su) # 0 /\ su[Len(su)] = t.pc
    BY <1>1, LastOfLonger DEF Good
  <1>7. LastKnown(u, su)
    BY <1>4, <1>6 DEF LastKnown
  <1>8. QED
    BY <1>2, <1>5, <1>7 DEF t

LEMMA LastpcMade ==
  ASSUME NEW t \in Buffers, NEW pos \in Nat, NEW u,
         u = BufferOf(t.iseq, t.pc, pos, t.lastlabel, t.pool)
  PROVE  /\ u \in Buffers /\ u.iseq = t.iseq /\ u.pc = t.pc /\ u.lastpc = pos
         /\ u.lastlabel = t.lastlabel /\ u.pool = t.pool
  <1> DEFINE iseq == t.iseq
             pc == t.pc
             label == t.lastlabel
             pool == t.pool
  <1>1. iseq \in Seq(Cells) /\ pc \in Nat /\ label \in Nat /\ pool \in Seq(Int)
    BY BufferFields
  <1>2. u = BufferOf(iseq, pc, pos, label, pool)
    OBVIOUS
  <1> HIDE DEF iseq, pc, label, pool
  <1>3. /\ u \in Buffers /\ u.iseq = iseq /\ u.pc = pc /\ u.lastpc = pos
        /\ u.lastlabel = label /\ u.pool = pool
    BY <1>1, <1>2, MadeBuffer
  <1>4. QED
    BY <1>3 DEF iseq, pc, label, pool

LEMMA GoodLastpc ==
  ASSUME NEW t, NEW st, NEW marks, NEW links, Good(t, st, marks, links), NEW pos \in Nat,
         NEW u, u = [t EXCEPT !.lastpc = pos]
  PROVE  /\ Good(u, st, marks, links) /\ u.lastpc = pos /\ u.pc = t.pc /\ u.iseq = t.iseq
         /\ u.pool = t.pool /\ u.lastlabel = t.lastlabel
  <1>1. Laid(t, st) /\ t \in Buffers /\ Whole(t)
    BY LaidTypes DEF Good, Laid
  <1>2. u = BufferOf(t.iseq, t.pc, pos, t.lastlabel, t.pool)
    BY <1>1, WithLastpc
  <1>3. /\ u \in Buffers /\ u.iseq = t.iseq /\ u.pc = t.pc /\ u.lastpc = pos
        /\ u.lastlabel = t.lastlabel /\ u.pool = t.pool
    BY <1>1, <1>2, LastpcMade
  <1>4. Laid(u, st)
    BY <1>1, <1>3 DEF Laid, Whole, Sound
  <1>5. JumpsOf(u, st) = JumpsOf(t, st) /\ \A i \in 1 .. Len(st) : SlotAt(u, st[i]) = SlotAt(t, st[i])
    BY <1>3 DEF JumpsOf, SlotAt
  <1>6. SlotsOf(u, st) = SlotsOf(t, st) /\ SentFrom(u, st) = SentFrom(t, st)
    BY <1>3 DEF SlotsOf, SentFrom, JumpsOf, SlotAt
  <1>7. Marked(u, st, marks)
    BY <1>3 DEF Good, Marked
  <1>8. QED
    BY <1>3, <1>4, <1>5, <1>6, <1>7 DEF Good

LEMMA DropGood ==
  ASSUME NEW st, Good(b, st, labels, held), LastKnown(b, st), Free(1), NEW u, u = Dropped
  PROVE  Good(u, After(st, 1), labels, held) /\ LastKnown(u, After(st, 1))
         /\ u.iseq = Back(1).iseq /\ u.pc = Back(1).pc /\ u.pool = Back(1).pool
         /\ u.lastlabel = Back(1).lastlabel
  <1> DEFINE m == Len(st)
             t == Back(1)
             prev == PrevPc(b, b.lastpc)
             left == After(st, 1)
  <1>1. Laid(b, st) /\ m \in Nat /\ st \in Seq(Nat)
    BY LaidTypes DEF Good, Laid
  <1>2. Good(t, left, labels, held)
    BY GoodAfter
  <1>3. m \in 1 .. m /\ b.lastpc = st[m]
    BY LastOne DEF Free
  <1>4. t.pc = st[m]
    <2> DEFINE k == m - 1
               cut == Front(st, k)
    <2>1. t.pc = At(st, b.pc, k + 1)
      BY TakenBack
    <2>2. k + 1 = m
      <3> HIDE DEF m
      <3>1. QED
        BY <1>1
    <2>3. QED
      BY <1>3, <2>1, <2>2 DEF At
  <1>5. \/ m = 1 /\ prev = 0 /\ t.pc = 0
        \/ m # 1 /\ m - 1 \in 1 .. m /\ prev = st[m - 1]
    <2>1. CASE m = 1
      <3>1. st[1] = 0
        BY <1>1, <1>3, <2>1 DEF Laid, At
      <3>2. b.lastpc = 0
        BY <1>3, <2>1, <3>1
      <3>3. prev = 0
        BY <3>2 DEF PrevPc
      <3>4. QED
        BY <1>4, <2>1, <3>1, <3>3
    <2>2. CASE m # 1
      <3> DEFINE i == m - 1
      <3>1. i \in 1 .. m /\ i + 1 = m
        <4> HIDE DEF m
        <4>1. QED
          BY <1>1, <1>3, <2>2
      <3>2. At(st, b.pc, i + 1) = b.lastpc
        BY <1>3, <3>1 DEF At
      <3> HIDE DEF i
      <3>3. PrevPc(b, At(st, b.pc, i + 1)) = st[i]
        BY <1>1, <3>1, PrevOfLaid
      <3>4. prev = st[i]
        BY <3>2, <3>3
      <3>5. QED
        BY <2>2, <3>1, <3>4 DEF i
    <2>3. QED
      BY <2>1, <2>2
  <1>6. prev \in Nat
    BY <1>1, <1>5
  <1>7. u = [t EXCEPT !.lastpc = prev]
    BY DEF Dropped, Back
  <1>8. Len(left) = m - 1 /\ \A i \in 1 .. m - 1 : left[i] = st[i]
    <2> DEFINE k == m - 1
    <2>1. k \in 0 .. m
      <3> HIDE DEF m
      <3>1. QED
        BY <1>1, <1>3
    <2>2. left = SubSeq(st, 1, k)
      BY DEF After, Front
    <2> HIDE DEF k
    <2>3. Len(left) = k /\ \A i \in 1 .. k : left[i] = st[i]
      BY <1>1, <2>1, <2>2, FrontOf
    <2>4. QED
      BY <2>3 DEF k
  <1> HIDE DEF t, prev, left, m
  <1>9. /\ Good(u, left, labels, held) /\ u.lastpc = prev /\ u.pc = t.pc /\ u.iseq = t.iseq
        /\ u.pool = t.pool /\ u.lastlabel = t.lastlabel
    BY <1>2, <1>6, <1>7, GoodLastpc
  <1>10. LastKnown(u, left)
    <2>1. CASE m = 1
      BY <1>5, <1>9, <2>1 DEF LastKnown
    <2>2. CASE m # 1
      <3>1. Len(left) # 0 /\ left[Len(left)] = st[m - 1] /\ prev = st[m - 1]
        BY <1>1, <1>3, <1>5, <1>8, <2>2
      <3>2. QED
        BY <1>9, <3>1 DEF LastKnown
    <2>3. QED
      BY <2>1, <2>2
  <1>11. QED
    BY <1>9, <1>10 DEF t, left

\* What a link that is held is, for dispatch.
LEMMA HeldLink ==
  ASSUME NEW st, Good(b, st, labels, held), NEW link \in held
  PROVE  /\ link \in Nat /\ link + 2 <= b.pc
         /\ \E i \in JumpsOf(b, st) : link = SlotAt(b, st[i])
  <1>1. Laid(b, st)
    BY DEF Good
  <1>2. PICK i \in JumpsOf(b, st) : link = SlotsOf(b, st)[i]
    BY DEF Good, Linked
  <1>3. link \in Nat /\ link = SlotAt(b, st[i]) /\ link + 2 = At(st, b.pc, i + 1)
        /\ i \in 1 .. Len(st)
    BY <1>1, <1>2, SlotInside
  <1>4. At(st, b.pc, i + 1) \in Bounds(st, b.pc)
    <2>1. i + 1 \in 1 .. Len(st) + 1
      BY <1>1, <1>3, LaidTypes
    <2>2. QED
      BY <2>1 DEF Bounds
  <1>5. At(st, b.pc, i + 1) <= b.pc
    BY <1>1, <1>4, BoundsOf
  <1>6. QED
    BY <1>3, <1>5

LEMMA LandGood ==
  ASSUME NEW st, Good(b, st, labels, held), LastKnown(b, st), NEW link \in held,
         ~DispatchTooFar(b, link), NEW u, u = Dispatch(b, link)
  PROVE  /\ Good(u, st, labels \cup {b.pc}, (held \ {link}) \cup ({NextLink(b, link)} \ {0}))
         /\ LastKnown(u, st)
         /\ Patched(b, u, link, b.pc - (link + 2)) /\ u.lastlabel = b.pc
  <1>1. link \in Nat /\ link + 2 <= b.pc /\ Whole(b) /\ Laid(b, st)
    BY HeldLink DEF Good, Laid
  <1>2. Patched(b, u, link, b.pc - (link + 2)) /\ u.lastlabel = b.pc
    BY <1>1, DispatchFields
  <1> DEFINE marks2 == labels \cup {b.pc}
             links2 == (held \ {link}) \cup ({NextLink(b, link)} \ {0})
  <1>3. Good(u, st, marks2, links2)
    BY <1>2, GoodLand
  <1>4. u.pc = b.pc /\ u.lastpc = b.lastpc
    BY <1>2 DEF Patched
  <1> DEFINE n == Len(st)
  <1>5. ASSUME n # 0, b.lastpc = st[n] + 1, OpAt(b.iseq, st[n]) = "EXT1",
               OpAt(b.iseq, b.lastpc) \in JumpOps
        PROVE  OpAt(u.iseq, st[n]) = OpAt(b.iseq, st[n])
               /\ OpAt(u.iseq, b.lastpc) = OpAt(b.iseq, b.lastpc)
    <2>1. n \in 1 .. n /\ st[n] \in Nat /\ At(st, b.pc, n) = st[n]
          /\ \A i \in 1 .. n + 1 : At(st, b.pc, i) \in Nat
      <3>1. n \in Nat
        BY <1>1, LaidTypes
      <3>2. n \in 1 .. n
        BY <1>5, <3>1
      <3>3. QED
        BY <1>1, <3>2, LaidTypes
    <2>2. PICK j \in JumpsOf(b, st) : link = SlotAt(b, st[j])
      BY HeldLink
    <2>3. j \in 1 .. n /\ link + 2 = At(st, b.pc, j + 1) /\ OpPlace(b.iseq, st[j]) < link
      BY <1>1, <2>2, SlotInside
    <2>4. \A q \in {st[n], st[n] + 1} : q \in Nat \ {link, link + 1}
      <3>1. CASE j = n
        <4>1. OpPlace(b.iseq, st[n]) = st[n] + 1
          BY <1>5 DEF OpPlace, ExtAt, ExtOf
        <4>2. st[n] + 1 < link
          BY <2>3, <3>1, <4>1
        <4>3. QED
          BY <1>1, <2>1, <4>2
      <3>2. CASE j # n
        <4>1. j + 1 \in 1 .. n + 1 /\ n \in 1 .. n + 1 /\ (j + 1 = n \/ j + 1 < n)
          <5> HIDE DEF n
          <5>1. QED
            BY <2>1, <2>3, <3>2
        <4>2. At(st, b.pc, j + 1) <= At(st, b.pc, n)
          <5>1. At(st, b.pc, j + 1) \in Nat /\ At(st, b.pc, n) \in Nat
            BY <2>1, <4>1
          <5>2. j + 1 < n => At(st, b.pc, j + 1) < At(st, b.pc, n)
            BY <1>1, <4>1, LaidOrder
          <5>3. QED
            BY <4>1, <5>1, <5>2
        <4>3. link + 2 <= st[n]
          BY <2>1, <2>3, <4>2
        <4>4. QED
          BY <1>1, <2>1, <4>3
      <3>3. QED
        BY <3>1, <3>2
    <2>5. \A q \in {st[n], st[n] + 1} : Cell(u.iseq, q) = Cell(b.iseq, q)
      BY <1>2, <2>4 DEF Patched
    <2>6. \A q \in {st[n], st[n] + 1} : OpAt(u.iseq, q) = OpAt(b.iseq, q)
      BY <2>5 DEF OpAt
    <2>7. QED
      BY <1>5, <2>6
  <1>6. LastKnown(u, st)
    BY <1>4, <1>5 DEF LastKnown
  <1>7. QED
    BY <1>2, <1>3, <1>6

--------------------------------------------------------------------------------
(* The inductive invariant.                                                     *)

\* The code is laid out in the instructions of the listing, its jumps make chains,
\* and lastpc is where the last instruction is.
IInv ==
  /\ client \in Clients /\ listing = ListingOf(b)
  /\ Good(b, listing.starts, labels, held) /\ LastKnown(b, listing.starts)

LEMMA ListingStarts ==
  ASSUME NEW t, NEW st, Good(t, st, labels, held)
  PROVE  ListingOf(t).starts = st
  <1>1. Starts(t.iseq, t.pc) = st
    BY StartsOfLaid DEF Good
  <1>2. QED
    BY <1>1 DEF ListingOf

LEMMA InitGood ==
  ASSUME Init
  PROVE  IInv
  <1> DEFINE t == NewBuffer
             st == <<>>
  <1>1. t = BufferOf(<<>>, 0, 0, 0, <<>>)
    BY DEF NewBuffer, BufferOf
  <1>2. /\ t \in Buffers /\ t.iseq = <<>> /\ t.pc = 0 /\ t.lastpc = 0
        /\ t.lastlabel = 0 /\ t.pool = <<>>
    <2> DEFINE cells == <<>>
               ints == <<>>
               zero == 0
    <2>1. cells \in Seq(Cells) /\ ints \in Seq(Int) /\ zero \in Nat
      OBVIOUS
    <2>2. t = BufferOf(cells, zero, zero, zero, ints)
      BY <1>1
    <2> HIDE DEF t, cells, ints, zero
    <2>3. /\ t \in Buffers /\ t.iseq = cells /\ t.pc = zero /\ t.lastpc = zero
          /\ t.lastlabel = zero /\ t.pool = ints
      BY <2>1, <2>2, MadeBuffer
    <2>4. QED
      BY <2>3 DEF cells, ints, zero
  <1> HIDE DEF t
  <1>3. Len(st) = 0 /\ st \in Seq(Nat)
    OBVIOUS
  <1> HIDE DEF st
  <1>4. Laid(t, st)
    BY <1>2, <1>3 DEF Laid, Whole, At
  <1>5. Len(t.pool) <= PoolMax
    BY <1>2, BytesAssumption
  <1>6. Marked(t, st, {})
    BY <1>2, <1>3 DEF Marked, Bounds, At
  <1>7. Linked(JumpsOf(t, st), SlotsOf(t, st), SentFrom(t, st), {}, {})
    <2>1. JumpsOf(t, st) = {}
      BY <1>3 DEF JumpsOf
    <2>2. QED
      BY <2>1 DEF Linked
  <1>8. Good(t, st, labels, held) /\ LastKnown(t, st)
    BY <1>2, <1>4, <1>5, <1>6, <1>7 DEF Good, LastKnown, Init
  <1>9. listing = ListingOf(t) /\ b = t /\ client \in Clients
    BY DEF Init, t
  <1>10. listing.starts = st
    BY <1>8, <1>9, ListingStarts
  <1>11. QED
    BY <1>8, <1>9, <1>10 DEF IInv

\* What the code is after a step, for one listing or another.
StillGood == \E st : Good(b', st, labels', held') /\ LastKnown(b', st)

LEMMA PeepFree ==
  ASSUME Peeps(FALSE), LastInsn(b).op \notin JumpOps
  PROVE  Free(1)
  BY DEF Peeps, Free, IsJump

LEMMA StepWrite ==
  ASSUME IInv, NEW n \in client.back, NEW insn \in client.insns, Write(n, insn)
  PROVE  StillGood
  <1> DEFINE st == listing.starts
  <1>1. Good(b, st, labels, held) /\ LastKnown(b, st) /\ client \in Clients
    BY DEF IInv
  <1>2. n \in 0 .. 2 /\ Writable(insn) /\ insn.op \notin IntLoads /\ insn.op \notin JumpOps
    BY <1>1, ClientsAssumption, AsksForWritable
  <1>3. Free(n) /\ b' = Encode(Back(n), insn) /\ labels' = labels /\ held' = held
    BY DEF Write, Asks
  <1> HIDE DEF st
  <1>4. Good(b', Instead(st, n), labels, held) /\ LastKnown(b', Instead(st, n))
    BY <1>1, <1>2, <1>3, WriteGood
  <1>5. QED
    BY <1>3, <1>4 DEF StillGood

LEMMA StepDrop ==
  ASSUME IInv, Drop
  PROVE  StillGood
  <1> DEFINE st == listing.starts
  <1>1. Good(b, st, labels, held) /\ LastKnown(b, st)
    BY DEF IInv
  <1>2. Free(1) /\ b' = Dropped /\ labels' = labels /\ held' = held
    BY DEF Drop, Asks
  <1> HIDE DEF st
  <1>3. Good(b', After(st, 1), labels, held) /\ LastKnown(b', After(st, 1))
    BY <1>1, <1>2, DropGood
  <1>4. QED
    BY <1>2, <1>3 DEF StillGood

LEMMA StepInt ==
  ASSUME IInv, NEW dst \in client.dsts, NEW v \in client.ints, LoadInt(dst, v)
  PROVE  StillGood
  <1> DEFINE st == listing.starts
  <1>1. Good(b, st, labels, held) /\ LastKnown(b, st) /\ client \in Clients
    BY DEF IInv
  <1>2. dst \in 0 .. Word - 1 /\ v \in Int /\ 0 \in 0 .. 2
    BY <1>1, ClientsAssumption
  <1>3. /\ Long(v) => ~PoolFull(b, v)
        /\ b' = GenInt(b, dst, v) /\ labels' = labels /\ held' = held
    BY DEF LoadInt, Asks
  <1>4. Free(0) /\ b' = GenInt(Back(0), dst, v)
    BY <1>3 DEF Free, Back
  <1> HIDE DEF st
  <1>5. Good(b', Instead(st, 0), labels, held) /\ LastKnown(b', Instead(st, 0))
    BY <1>1, <1>2, <1>3, <1>4, IntGood
  <1>6. QED
    BY <1>3, <1>5 DEF StillGood

\* What a load of an integer loads is an integer.
LEMMA IntOperandType ==
  ASSUME NEW t, Whole(t), NEW insn, insn.op \in IntLoads,
         insn.b \in 0 .. Word - 1, insn.c \in 0 .. Word - 1,
         insn.op = "LOADL" => insn.b + 1 \in 1 .. Len(t.pool)
  PROVE  IntOperand(t, insn) \in Int
  <1>1. Base \in Nat /\ Word \in Nat /\ Word * Word \in Nat
    BY BaseType
  <1>2. CASE insn.op = "LOADL"
    <2>1. t.pool \in Seq(Int)
      BY BufferFields DEF Whole
    <2> DEFINE pool == t.pool
               i == insn.b + 1
    <2>2. i \in 1 .. Len(pool) /\ pool \in Seq(Int)
      BY <1>2, <2>1
    <2> HIDE DEF pool, i
    <2>3. pool[i] \in Int
      BY <2>2
    <2>4. IntOperand(t, insn) = pool[i]
      BY <1>2 DEF IntOperand, pool, i
    <2>5. QED
      BY <2>3, <2>4
  <1>3. CASE insn.op \in {"LOADI__1", "LOADINEG", "LOADI8", "LOADI16", "LOADI32"}
    <2>1. \A w \in Int, m \in Nat : Signed(w, m) \in Int
      BY DEF Signed
    <2>2. insn.b \in Int /\ insn.b * Word + insn.c \in Int
      BY <1>1
    <2>3. Signed(insn.b, Word) \in Int /\ Signed(insn.b * Word + insn.c, Word * Word) \in Int
      BY <1>1, <2>1, <2>2
    <2>4. QED
      BY <1>3, <2>2, <2>3 DEF IntOperand
  <1>4. CASE insn.op \in {InlineLoads[i] : i \in DOMAIN InlineLoads}
    <2>1. PICK i \in DOMAIN InlineLoads : insn.op = InlineLoads[i]
      BY <1>4
    <2>2. i \in 1 .. 8
      BY <2>1 DEF InlineLoads
    <2>3. IntOperand(t, insn) = i - 1
      <3>1. i - 1 \in 0 .. 7 /\ InlineLoads[(i - 1) + 1] = insn.op
        BY <2>1, <2>2
      <3> DEFINE v == i - 1
      <3>2. v \in 0 .. 7 /\ insn.op = InlineLoads[v + 1]
        BY <3>1
      <3> HIDE DEF v
      <3>3. IntOperand(t, insn) = v
        BY <3>2, InlineValue
      <3>4. QED
        BY <3>3 DEF v
    <2>4. QED
      BY <2>2, <2>3
  <1>5. QED
    BY <1>2, <1>3, <1>4 DEF IntLoads

LEMMA LastLoad ==
  ASSUME NEW st, Good(b, st, labels, held), LastKnown(b, st), ~NoPeephole(b),
         IsIntOperand(LastInsn(b))
  PROVE  /\ Free(1) /\ IntOperand(b, LastInsn(b)) \in Int
         /\ LastInsn(b) = DecodeAt(b.iseq, st[Len(st)]).insn
  <1>1. LastInsn(b).op \in IntLoads /\ ~IsJump(LastInsn(b))
    BY IntLoadsUsed DEF IsIntOperand, IsJump
  <1>2. Len(st) \in 1 .. Len(st) /\ LastInsn(b) = DecodeAt(b.iseq, st[Len(st)]).insn
    BY <1>1, LastOne
  <1>3. Sound(b, st[Len(st)]) /\ Whole(b)
    BY <1>2 DEF Good, Laid
  <1>4. IntOperand(b, LastInsn(b)) \in Int
    <2> DEFINE insn == LastInsn(b)
    <2>1. /\ insn.op \in IntLoads /\ insn.b \in 0 .. Word - 1 /\ insn.c \in 0 .. Word - 1
          /\ insn.op = "LOADL" => insn.b + 1 \in 1 .. Len(b.pool)
      BY <1>1, <1>2, <1>3 DEF Sound
    <2> HIDE DEF insn
    <2>2. IntOperand(b, insn) \in Int
      BY <1>3, <2>1, IntOperandType
    <2>3. QED
      BY <2>2 DEF insn
  <1>5. QED
    BY <1>1, <1>2, <1>4 DEF Free

LEMMA StepUniop ==
  ASSUME IInv, NEW dst \in client.dsts, NEW minus \in BOOLEAN, Uniop(minus, dst)
  PROVE  StillGood
  <1> DEFINE st == listing.starts
             v == UniopValue(b, minus)
  <1>1. Good(b, st, labels, held) /\ LastKnown(b, st) /\ client \in Clients
    BY DEF IInv
  <1>2. dst \in 0 .. Word - 1 /\ 1 \in 0 .. 2
    BY <1>1, ClientsAssumption
  <1>3. /\ UniopFolds(b, minus) /\ (Long(v) => ~PoolFull(b, v))
        /\ b' = GenUniop(b, minus, dst) /\ labels' = labels /\ held' = held
    BY DEF Uniop, Asks
  <1>4. Free(1) /\ IntOperand(b, LastInsn(b)) \in Int
    BY <1>1, <1>3, LastLoad DEF UniopFolds
  <1>5. v \in Int
    BY <1>4 DEF UniopValue, Negated
  <1>6. b' = GenInt(Back(1), dst, v)
    BY <1>3 DEF GenUniop, Back
  <1> HIDE DEF st, v
  <1>7. Good(b', Instead(st, 1), labels, held) /\ LastKnown(b', Instead(st, 1))
    BY <1>1, <1>2, <1>3, <1>4, <1>5, <1>6, IntGood
  <1>8. QED
    BY <1>3, <1>7 DEF StillGood

LEMMA StepLabel ==
  ASSUME IInv, Label
  PROVE  StillGood
  <1> DEFINE st == listing.starts
  <1>1. Good(b, st, labels, held) /\ LastKnown(b, st)
    BY DEF IInv
  <1>2. b' = [b EXCEPT !.lastlabel = b.pc] /\ labels' = labels \cup {b.pc} /\ held' = held
    BY DEF Label
  <1> HIDE DEF st
  <1>3. Good(b', st, labels', held')
    BY <1>1, <1>2, GoodLabel
  <1>4. b'.pc = b.pc /\ b'.lastpc = b.lastpc /\ b'.iseq = b.iseq
    <2>1. b \in Buffers
      BY <1>1 DEF Good, Laid, Whole
    <2>2. QED
      BY <1>2, <2>1, WithLastlabel DEF BufferOf
  <1>5. LastKnown(b', st)
    BY <1>1, <1>4 DEF LastKnown
  <1>6. QED
    BY <1>3, <1>5 DEF StillGood

LEMMA StepLand ==
  ASSUME IInv, NEW link \in held, Land(link)
  PROVE  StillGood
  <1> DEFINE st == listing.starts
  <1>1. Good(b, st, labels, held) /\ LastKnown(b, st)
    BY DEF IInv
  <1>2. /\ ~DispatchTooFar(b, link) /\ b' = Dispatch(b, link)
        /\ labels' = labels \cup {b.pc}
        /\ held' = (held \ {link}) \cup ({NextLink(b, link)} \ {0})
    BY DEF Land
  <1> HIDE DEF st
  <1>3. /\ Good(b', st, labels \cup {b.pc}, (held \ {link}) \cup ({NextLink(b, link)} \ {0}))
        /\ LastKnown(b', st)
    BY <1>1, <1>2, LandGood
  <1>4. QED
    BY <1>2, <1>3 DEF StillGood

\* The places a jump may be sent to are numbers.
LEMMA DestTypes ==
  ASSUME NEW st, Good(b, st, labels, held), NEW dest \in Dests
  PROVE  dest \in Nat \cup {JMPLINK_START}
  <1>1. CASE dest \in labels
    <2>1. dest \in Bounds(st, b.pc) /\ Laid(b, st)
      BY <1>1 DEF Good, Marked
    <2>2. QED
      BY <2>1, BoundsOf
  <1>2. CASE dest \in held
    BY <1>2, HeldLink
  <1>3. QED
    BY <1>1, <1>2 DEF Dests

\* A step that sends a jump, whatever instruction it takes back for it.
LEMMA StepJumps ==
  ASSUME NEW st, Good(b, st, labels, held), LastKnown(b, st), NEW n \in 0 .. 2, Free(n),
         NEW op \in JumpOps, NEW a, NEW dest \in Dests, NEW t, EmitsJump(Back(n), t, op, a, dest),
         \/ t.lastpc = Back(n).pc
         \/ t.lastpc = Back(n).pc + 1 /\ OpAt(t.iseq, Back(n).pc) = "EXT1" /\ OpAt(t.iseq, t.lastpc) = op,
         NEW insn, insn.b = dest, Jumps(n, insn, t)
  PROVE  StillGood
  <1>1. /\ ~JumpTooFar(Link(t), dest) /\ b' = t /\ labels' = labels
        /\ held' = LinksAfter(held, labels, dest, Link(t))
    BY DEF Jumps, LinksAfter
  <1>2. /\ Good(t, Instead(st, n), labels, LinksAfter(held, labels, dest, Link(t)))
        /\ LastKnown(t, Instead(st, n))
    BY <1>1, JumpGood
  <1>3. QED
    BY <1>1, <1>2 DEF StillGood

LEMMA StepJump ==
  ASSUME IInv, NEW op \in {"JMP", "JMPUW"}, NEW dest \in Dests, Jump(op, dest)
  PROVE  StillGood
  <1> DEFINE st == listing.starts
             t == Genjmp(b, op, dest)
             insn == Instr(op, 0, dest, 0)
  <1>1. Good(b, st, labels, held) /\ LastKnown(b, st)
    BY DEF IInv
  <1>2. Jumps(0, insn, t) /\ insn.b = dest
    BY DEF Jump, Instr
  <1> HIDE DEF st, insn
  <1>3. dest \in Nat \cup {JMPLINK_START} /\ Whole(b)
    BY <1>1, DestTypes DEF Good, Laid
  <1>4. EmitsJump(b, t, op, 0, dest) /\ t.lastpc = b.pc
    BY <1>3, EmitsJmp
  <1> HIDE DEF t
  <1>5. Back(0) = b /\ Free(0) /\ op \in JumpOps /\ 0 \in 0 .. 2
    BY JumpShapes DEF Back, Free
  <1>6. QED
    BY <1>1, <1>2, <1>4, <1>5, StepJumps

\* What genjmp2 finds when it may look at the last instruction and that is no jump.
LEMMA PeepedGood ==
  ASSUME NEW st, Good(b, st, labels, held), LastKnown(b, st), NEW val, Peeps(val),
         LastInsn(b).op \notin JumpOps
  PROVE  /\ Free(1) /\ Whole(Back(1)) /\ Back(1) = Rewind(b, b.lastpc)
         /\ Back(1).lastpc = Back(1).pc
         /\ LastInsn(b).op = "MOVE" => LastInsn(b).b \in 0 .. Word - 1
  <1>1. ~NoPeephole(b) /\ ~IsJump(LastInsn(b)) /\ Free(1)
    BY DEF Peeps, Free, IsJump
  <1>2. Whole(Back(1))
    <2>1. Good(Back(1), After(st, 1), labels, held)
      BY <1>1, GoodAfter
    <2>2. QED
      BY <2>1 DEF Good, Laid
  <1>3. Len(st) \in 1 .. Len(st) /\ LastInsn(b) = DecodeAt(b.iseq, st[Len(st)]).insn
    BY <1>1, LastOne
  <1>4. Sound(b, st[Len(st)])
    BY <1>3 DEF Good, Laid
  <1>5. Back(1).lastpc = Back(1).pc
    <2> DEFINE m == Len(st)
               k == m - 1
               su == Front(st, k)
    <2>1. m \in Nat /\ m \in 1 .. m /\ b.lastpc = st[m]
      BY <1>1, LastOne, LaidTypes DEF Good, Free
    <2>2. Cut(b, Back(1), At(st, b.pc, k + 1))
      BY <1>1, TakenBack
    <2> HIDE DEF m
    <2>3. k + 1 = m
      BY <2>1
    <2>4. At(st, b.pc, m) = b.lastpc
      BY <2>1 DEF At, m
    <2>5. QED
      BY <2>2, <2>3, <2>4 DEF Cut
  <1>6. QED
    BY <1>1, <1>2, <1>3, <1>4, <1>5 DEF Sound, Back

LEMMA StepCond ==
  ASSUME IInv, NEW op \in CondOps, NEW a \in client.conds, NEW dest \in Dests,
         NEW val \in client.vals, CondJump(op, a, dest, val)
  PROVE  StillGood
  <1> DEFINE st == listing.starts
  <1>1. Good(b, st, labels, held) /\ LastKnown(b, st) /\ client \in Clients
    BY DEF IInv
  <1>2. a \in 0 .. Word - 1
    BY <1>1, ClientsAssumption
  <1> HIDE DEF st
  <1>3. dest \in Nat \cup {JMPLINK_START} /\ Whole(b) /\ op \in JumpOps
    BY <1>1, DestTypes DEF Good, Laid, CondOps
  <1>4. \A i \in {0, 1} : i \in 0 .. 2
    OBVIOUS
  <1>5. CASE /\ Peeps(val) /\ CondMoves(b, a, client.nlocals)
             /\ Jumps(1, Instr(op, LastInsn(b).b, dest, 0),
                      PlainCond(Rewind(b, b.lastpc), op, LastInsn(b).b, dest))
    <2> DEFINE x == LastInsn(b).b
               t == PlainCond(Back(1), op, x, dest)
               insn == Instr(op, x, dest, 0)
    <2>1. LastInsn(b).op = "MOVE" /\ LastInsn(b).op \notin JumpOps
      BY <1>5 DEF CondMoves, JumpOps
    <2>2. Free(1) /\ Whole(Back(1)) /\ Back(1) = Rewind(b, b.lastpc) /\ x \in 0 .. Word - 1
      BY <1>1, <1>5, <2>1, PeepedGood
    <2>3. Jumps(1, insn, t) /\ insn.b = dest
      BY <1>5, <2>2 DEF Instr
    <2> HIDE DEF x, insn
    <2>4. /\ EmitsJump(Back(1), t, op, x, dest)
          /\ \/ t.lastpc = Back(1).pc
             \/ /\ t.lastpc = Back(1).pc + 1
                /\ OpAt(t.iseq, Back(1).pc) = "EXT1" /\ OpAt(t.iseq, t.lastpc) = op
      BY <1>3, <2>2, EmitsCond
    <2> HIDE DEF t
    <2>5. QED
      BY <1>1, <1>3, <1>4, <2>2, <2>3, <2>4, StepJumps
  <1>6. CASE /\ Peeps(val) /\ CondDecided(b, a, client.nlocals)
             /\ \/ Jumps(1, Instr("JMP", 0, dest, 0), Genjmp(Rewind(b, b.lastpc), "JMP", dest))
                \/ Asks(<<"drop">>, Rewind(b, b.lastpc))
    <2>1. LastInsn(b).op \notin JumpOps
      <3>1. \A o \in {"LOADNIL", "LOADFALSE", "LOADTRUE"} \cup ShortIntLoads : o \notin JumpOps
        BY IntLoadsUsed DEF ShortIntLoads, IntLoads, JumpOps
      <3>2. QED
        BY <1>6, <3>1 DEF CondDecided
    <2>2. Free(1) /\ Whole(Back(1)) /\ Back(1) = Rewind(b, b.lastpc)
      BY <1>1, <1>6, <2>1, PeepedGood
    <2>3. CASE Jumps(1, Instr("JMP", 0, dest, 0), Genjmp(Rewind(b, b.lastpc), "JMP", dest))
      <3> DEFINE t == Genjmp(Back(1), "JMP", dest)
                 insn == Instr("JMP", 0, dest, 0)
      <3>1. Jumps(1, insn, t) /\ insn.b = dest
        BY <2>2, <2>3 DEF Instr
      <3> HIDE DEF insn
      <3>2. EmitsJump(Back(1), t, "JMP", 0, dest) /\ t.lastpc = Back(1).pc
        BY <1>3, <2>2, EmitsJmp
      <3> HIDE DEF t
      <3>3. "JMP" \in JumpOps
        BY JumpShapes
      <3>4. QED
        BY <1>1, <1>3, <1>4, <2>2, <3>1, <3>2, <3>3, StepJumps
    <2>4. CASE Asks(<<"drop">>, Rewind(b, b.lastpc))
      <3>1. b' = Back(1) /\ labels' = labels /\ held' = held
        BY <2>2, <2>4 DEF Asks
      <3>2. Good(b', After(st, 1), labels, held)
        BY <1>1, <1>4, <2>2, <3>1, GoodAfter
      <3>3. b'.lastpc = b'.pc
        BY <1>1, <1>6, <2>1, <3>1, PeepedGood
      <3>4. LastKnown(b', After(st, 1))
        BY <3>3 DEF LastKnown
      <3>5. Good(b', After(st, 1), labels', held')
        BY <3>1, <3>2
      <3>6. QED
        BY <3>4, <3>5 DEF StillGood
    <2>5. QED
      BY <1>6, <2>3, <2>4
  <1>7. CASE Jumps(0, Instr(op, a, dest, 0), PlainCond(b, op, a, dest))
    <2> DEFINE t == PlainCond(b, op, a, dest)
               insn == Instr(op, a, dest, 0)
    <2>1. Jumps(0, insn, t) /\ insn.b = dest
      BY <1>7 DEF Instr
    <2> HIDE DEF insn
    <2>2. /\ EmitsJump(b, t, op, a, dest)
          /\ \/ t.lastpc = b.pc
             \/ /\ t.lastpc = b.pc + 1
                /\ OpAt(t.iseq, b.pc) = "EXT1" /\ OpAt(t.iseq, t.lastpc) = op
      BY <1>2, <1>3, EmitsCond
    <2> HIDE DEF t
    <2>3. Back(0) = b /\ Free(0)
      BY DEF Back, Free
    <2>4. QED
      BY <1>1, <1>3, <1>4, <2>1, <2>2, <2>3, StepJumps
  <1>8. QED
    BY <1>5, <1>6, <1>7 DEF CondJump

LEMMA StepRequest ==
  ASSUME IInv, Request
  PROVE  StillGood
  <1>1. client \in Clients
    BY DEF IInv
  <1>2. CASE \E n \in client.back, insn \in client.insns : Write(n, insn)
    BY <1>2, StepWrite
  <1>3. CASE Drop
    BY <1>3, StepDrop
  <1>4. CASE \E dst \in client.dsts, v \in client.ints : LoadInt(dst, v)
    BY <1>4, StepInt
  <1>5. CASE \E dst \in client.dsts, minus \in BOOLEAN : Uniop(minus, dst)
    BY <1>5, StepUniop
  <1>6. CASE Label
    BY <1>6, StepLabel
  <1>7. CASE \E op \in client.jumps \cap {"JMP", "JMPUW"}, dest \in Dests : Jump(op, dest)
    BY <1>7, StepJump
  <1>8. CASE \E op \in client.jumps \ {"JMP", "JMPUW"}, a \in client.conds, dest \in Dests,
               val \in client.vals : CondJump(op, a, dest, val)
    <2>1. client.jumps \ {"JMP", "JMPUW"} \subseteq CondOps
      BY <1>1, ClientsAssumption DEF CondOps
    <2>2. QED
      BY <1>8, <2>1, StepCond
  <1>9. CASE \E link \in held : Land(link)
    BY <1>9, StepLand
  <1>10. QED
    BY <1>2, <1>3, <1>4, <1>5, <1>6, <1>7, <1>8, <1>9 DEF Request

LEMMA SameClient ==
  ASSUME IInv, Request
  PROVE  client' \in Clients
  <1>1. client' = client
    BY DEF Request, Write, Drop, LoadInt, Uniop, Label, Jump, CondJump, Jumps, Land, Asks
  <1>2. QED
    BY <1>1 DEF IInv

LEMMA NextGood ==
  ASSUME IInv, Next
  PROVE  IInv'
  <1>1. Request /\ listing' = ListingOf(b')
    BY DEF Next
  <1>2. PICK st : Good(b', st, labels', held') /\ LastKnown(b', st)
    BY <1>1, StepRequest DEF StillGood
  <1>3. Starts(b'.iseq, b'.pc) = st
    BY <1>2, StartsOfLaid DEF Good
  <1>4. listing'.starts = st
    BY <1>1, <1>3 DEF ListingOf
  <1>5. client' \in Clients
    BY <1>1, SameClient
  <1>6. QED
    BY <1>1, <1>2, <1>4, <1>5 DEF IInv

\* The inductive invariant: the buffer is whole and laid out as the listing says, every
\* position that was given out is where an instruction starts or the end, the chains of
\* pending jumps are sound, and lastpc is known (codegen.rs genop_0, rewind_pc, new_label,
\* genjmp, dispatch).
THEOREM ListingFollowsBuffer == Spec => []IInv
  <1>1. Init => IInv
    BY InitGood
  <1>2. IInv /\ [Next]_vars => IInv'
    <2>1. IInv /\ Next => IInv'
      BY NextGood
    <2>2. IInv /\ UNCHANGED vars => IInv'
      BY DEF IInv, vars
    <2>3. QED
      BY <2>1, <2>2
  <1>3. QED
    BY <1>1, <1>2, PTL DEF Spec

--------------------------------------------------------------------------------
(* What the invariant says of the buffer.                                       *)

\* Positions are inside the code: lastpc, lastlabel, the positions labels were put at and
\* the slots of pending jumps (codegen.rs genop_0, new_label, dispatch).
THEOREM PositionsInside == Spec => []TypeOK
  <1>1. IInv => TypeOK
    <2> SUFFICES ASSUME IInv PROVE TypeOK
      OBVIOUS
    <2> DEFINE st == listing.starts
               m == Len(st)
    <2>1. Good(b, st, labels, held) /\ LastKnown(b, st) /\ Laid(b, st)
      BY DEF IInv, Good
    <2>2. b.pc \in Nat /\ b.lastpc \in Nat /\ Len(b.iseq) = b.pc /\ st \in Seq(Nat) /\ m \in Nat
      BY <2>1, BufferFields, LaidTypes DEF Laid, Whole
    <2> HIDE DEF st
    <2>3. m # 0 => st[m] < b.pc
      <3> SUFFICES ASSUME m # 0 PROVE st[m] < b.pc
        OBVIOUS
      <3>1. m \in 1 .. m + 1 /\ m + 1 \in 1 .. m + 1 /\ m + 1 > m
        <4> HIDE DEF m
        <4>1. QED
          BY <2>2
      <3>2. At(st, b.pc, m) < At(st, b.pc, m + 1) /\ At(st, b.pc, m) = st[m]
        BY <2>1, <3>1, LaidOrder DEF At
      <3>3. At(st, b.pc, m + 1) = b.pc
        <4>1. ~(m + 1 <= m)
          <5> HIDE DEF m
          <5>1. QED
            BY <2>2
        <4>2. QED
          BY <4>1 DEF At
      <3>4. QED
        BY <3>2, <3>3
    <2>4. b.lastpc <= b.pc
      <3>1. m # 0 => st[m] \in Nat
        BY <2>2
      <3> HIDE DEF m
      <3>2. QED
        BY <2>1, <2>2, <2>3, <3>1 DEF LastKnown, m
    <2>5. b.lastlabel <= b.pc /\ \A pos \in labels : pos <= b.pc
      BY <2>1, BoundsOf DEF Good, Marked
    <2>6. \A link \in held : link + 2 <= b.pc
      BY <2>1, HeldLink
    <2>7. QED
      BY <2>2, <2>4, <2>5, <2>6 DEF TypeOK
  <1>2. QED
    BY <1>1, ListingFollowsBuffer, PTL

\* A peephole that may look finds the last instruction at lastpc, or a prefixed jump
\* behind its prefix (codegen.rs last_insn, no_peephole, genop_0; handlers.rs genjmp2).
THEOREM PeepholesSeeLast == Spec => []LastInsnDecodes
  <1>1. IInv => LastInsnDecodes
    <2> SUFFICES ASSUME IInv, ~NoPeephole(b) PROVE LastInsnDecodes
      BY DEF LastInsnDecodes
    <2> DEFINE st == listing.starts
    <2>1. LastKnown(b, st) /\ b.lastpc # b.pc
      BY DEF IInv, NoPeephole
    <2>2. QED
      BY <2>1 DEF LastKnown, LastInsnDecodes
  <1>2. QED
    BY <1>1, ListingFollowsBuffer, PTL

--------------------------------------------------------------------------------
(* Sequences.                                                                   *)

LEMMA SequenceOf ==
  ASSUME NEW n \in Nat, NEW S, NEW f \in [1 .. n -> S]
  PROVE  f \in Seq(S) /\ Len(f) = n
  OBVIOUS

\* A sequence that agrees with the beginning of another one and has one element more.
LEMMA OneMore ==
  ASSUME NEW S, NEW s \in Seq(S), NEW k \in 0 .. Len(s), NEW r \in Seq(S), Len(r) = k + 1,
         \A i \in 1 .. k : r[i] = s[i]
  PROVE  r = Append(SubSeq(s, 1, k), r[k + 1])
  <1> DEFINE front == SubSeq(s, 1, k)
             x == r[k + 1]
             a == Append(front, x)
  <1>1. front \in Seq(S) /\ Len(front) = k /\ \A i \in 1 .. k : front[i] = s[i]
    BY FrontOf
  <1>2. x \in S /\ k \in Nat
    OBVIOUS
  <1> HIDE DEF front, x
  <1>3. /\ a \in Seq(S) /\ Len(a) = k + 1 /\ a[k + 1] = x
        /\ \A i \in 1 .. k : a[i] = front[i]
    BY <1>1, <1>2, AppendProperties
  <1> HIDE DEF a
  <1>4. \A i \in 1 .. k + 1 : r[i] = a[i]
    <2>1. TAKE i \in 1 .. k + 1
    <2>2. CASE i = k + 1
      BY <1>3, <2>2 DEF x
    <2>3. CASE i # k + 1
      BY <1>1, <1>2, <1>3, <2>3
    <2>4. QED
      BY <2>2, <2>3
  <1>5. r = a
    BY <1>3, <1>4
  <1>6. QED
    BY <1>5 DEF a, front, x

LEMMA SameSequence ==
  ASSUME NEW S, NEW s \in Seq(S), NEW r \in Seq(S), Len(r) = Len(s),
         \A i \in 1 .. Len(s) : r[i] = s[i]
  PROVE  r = s
  OBVIOUS

--------------------------------------------------------------------------------
(* Places in the listing.                                                       *)

\* As many instructions start before a position as end before the next one starts.
LEMMA IndexOf ==
  ASSUME NEW t, NEW st, Laid(t, st), NEW j \in 0 .. Len(st), NEW pos \in Int,
         pos <= At(st, t.pc, j + 1), j # 0 => At(st, t.pc, j) < pos
  PROVE  Index(st, pos) = j
  <1> DEFINE n == Len(st)
             before == {i \in DOMAIN st : st[i] < pos}
  <1>1. /\ n \in Nat /\ DOMAIN st = 1 .. n
        /\ \A i \in 1 .. n + 1 : At(st, t.pc, i) \in Nat
        /\ \A i \in 1 .. n : At(st, t.pc, i) = st[i]
    BY LaidTypes DEF Laid
  <1>2. \A i, m \in 1 .. n + 1 : i < m => At(st, t.pc, i) < At(st, t.pc, m)
    BY LaidOrder
  <1> DEFINE at(i) == At(st, t.pc, i)
  <1>a. pos <= at(j + 1) /\ (j # 0 => at(j) < pos)
    OBVIOUS
  <1> HIDE DEF n, at
  <1>3. ASSUME NEW i \in 1 .. n PROVE st[i] < pos <=> i <= j
    <2>1. /\ i \in 1 .. n + 1 /\ j + 1 \in 1 .. n + 1 /\ j \in Nat
          /\ j # 0 => j \in 1 .. n + 1
      BY <1>1 DEF n
    <2>2. at(i) \in Nat /\ at(j + 1) \in Nat /\ (j # 0 => at(j) \in Nat) /\ st[i] = at(i)
      BY <1>1, <2>1 DEF at
    <2>3. /\ i < j => at(i) < at(j)
          /\ j + 1 < i => at(j + 1) < at(i)
      BY <1>1, <1>2, <2>1 DEF at
    <2>4. CASE i <= j
      BY <1>a, <2>1, <2>2, <2>3, <2>4
    <2>5. CASE i > j
      BY <1>a, <2>1, <2>2, <2>3, <2>5
    <2>6. QED
      BY <2>1, <2>4, <2>5
  <1>4. before = 1 .. j
    BY <1>1, <1>3 DEF n
  <1>5. Cardinality(1 .. j) = j
    BY FS_Interval
  <1>6. QED
    BY <1>4, <1>5 DEF Index

\* A position where an instruction starts or the code ends has those before it in front.
LEMMA IndexOfBound ==
  ASSUME NEW t, NEW st, Laid(t, st), NEW i \in 1 .. Len(st) + 1
  PROVE  Index(st, At(st, t.pc, i)) = i - 1
  <1> DEFINE n == Len(st)
             j == i - 1
  <1>1. /\ n \in Nat /\ \A m \in 1 .. n + 1 : At(st, t.pc, m) \in Nat
    BY LaidTypes
  <1>2. j \in 0 .. n /\ j + 1 = i /\ (j # 0 => j \in 1 .. n + 1)
    BY <1>1
  <1>3. j # 0 => At(st, t.pc, j) < At(st, t.pc, i)
    BY <1>2, LaidOrder
  <1> DEFINE pos == At(st, t.pc, i)
  <1>4. pos \in Int /\ pos <= pos
    BY <1>1
  <1> HIDE DEF j
  <1>5. pos = At(st, t.pc, j + 1)
    BY <1>2
  <1> HIDE DEF pos
  <1>6. Index(st, pos) = j
    BY <1>2, <1>3, <1>4, <1>5, IndexOf DEF pos
  <1>7. QED
    BY <1>6 DEF pos, j

\* The slot of a jump has the jump in front.
LEMMA IndexOfSlot ==
  ASSUME NEW t, NEW st, Laid(t, st), NEW j \in JumpsOf(t, st)
  PROVE  Index(st, SlotAt(t, st[j])) = j
  <1> DEFINE slot == SlotAt(t, st[j])
             next == At(st, t.pc, j + 1)
  <1>1. j \in 1 .. Len(st) /\ slot \in Nat /\ At(st, t.pc, j) < slot /\ slot + 2 = next
    BY SlotInside
  <1>2. next \in Nat /\ j \in 0 .. Len(st)
    BY <1>1, LaidTypes
  <1> HIDE DEF slot
  <1>3. slot <= next
    <2> HIDE DEF next
    <2>1. QED
      BY <1>1, <1>2
  <1>4. Index(st, slot) = j
    BY <1>1, <1>2, <1>3, IndexOf
  <1>5. QED
    BY <1>4 DEF slot

--------------------------------------------------------------------------------
(* Where jumps lead.                                                            *)

LEMMA TargetOfBound ==
  ASSUME NEW t, NEW st, Laid(t, st), NEW i \in 1 .. Len(st) + 1, NEW slot,
         SentTo(t.iseq, slot) = At(st, t.pc, i)
  PROVE  Target(t, st, slot) = i - 1
  <1>1. At(st, t.pc, i) \in {0, t.pc} \cup Range(st)
    <2>1. DOMAIN st = 1 .. Len(st) /\ Len(st) \in Nat
      BY LaidTypes DEF Laid
    <2>2. QED
      BY <2>1 DEF At, Range
  <1>2. Index(st, At(st, t.pc, i)) = i - 1
    BY IndexOfBound
  <1>3. QED
    BY <1>1, <1>2 DEF Target

LEMMA SlotNoBound ==
  ASSUME NEW t, NEW st, Laid(t, st), NEW j \in JumpsOf(t, st)
  PROVE  SlotAt(t, st[j]) \notin {0, t.pc} \cup Range(st)
  <1> DEFINE marks == Bounds(st, t.pc)
             slot == SlotAt(t, st[j])
  <1>1. Placing(JumpsOf(t, st), SlotsOf(t, st), marks)
    BY PlacingOf
  <1>2. SlotsOf(t, st)[j] = slot
    BY SlotInside
  <1>3. slot # 0 /\ slot \notin marks
    BY <1>1, <1>2 DEF Placing
  <1>4. t.pc \in marks
    BY BoundsOf
  <1>5. Range(st) \subseteq marks
    <2>1. DOMAIN st = 1 .. Len(st) /\ Len(st) \in Nat
      BY LaidTypes DEF Laid
    <2>2. \A i \in 1 .. Len(st) : i \in 1 .. Len(st) + 1 /\ st[i] = At(st, t.pc, i)
      BY <2>1 DEF At
    <2>3. QED
      BY <2>1, <2>2 DEF Range, Bounds
  <1>6. QED
    BY <1>3, <1>4, <1>5

LEMMA TargetOfSlot ==
  ASSUME NEW t, NEW st, Laid(t, st), NEW j \in JumpsOf(t, st), NEW slot,
         SentTo(t.iseq, slot) = SlotAt(t, st[j])
  PROVE  Target(t, st, slot) = -j
  <1>1. SlotAt(t, st[j]) \notin {0, t.pc} \cup Range(st)
    BY SlotNoBound
  <1>2. Index(st, SlotAt(t, st[j])) = j
    BY IndexOfSlot
  <1>3. QED
    BY <1>1, <1>2 DEF Target

--------------------------------------------------------------------------------
(* What the listing says of an instruction.                                     *)

ListedAs(insn, value, target) ==
  IF insn.op \in IntLoads THEN Instr("LOADI", insn.a, value, 0)
  ELSE IF insn.op \in JumpOps
       THEN Instr(insn.op, IF Shape[insn.op] = "S" THEN 0 ELSE insn.a, target, 0)
       ELSE insn

LEMMA ListedIs ==
  ASSUME NEW t, NEW st, Laid(t, st), NEW i \in 1 .. Len(st),
         NEW insn, insn = DecodeAt(t.iseq, st[i]).insn
  PROVE  Listed(t, st, i) = ListedAs(insn, IntOperand(t, insn), Target(t, st, SlotAt(t, st[i])))
  <1> DEFINE next == DecodeAt(t.iseq, st[i]).next
  <1>1. i + 1 \in 1 .. Len(st) + 1 /\ t.pc \in Nat /\ Len(st) \in Nat
    BY LaidTypes
  <1>2. next = At(st, t.pc, i + 1)
    BY DEF Laid
  <1>3. next \in Bounds(st, t.pc)
    BY <1>1, <1>2 DEF Bounds
  <1>4. next <= t.pc /\ next \in Nat
    BY <1>3, BoundsOf
  <1>5. ~(next > t.pc)
    <2> HIDE DEF next
    <2>1. QED
      BY <1>1, <1>4
  <1>6. insn.op \in IntLoads => insn.op \notin JumpOps
    BY IntLoadsUsed DEF JumpOps
  <1>7. SlotAt(t, st[i]) = next - 2
    BY DEF SlotAt
  <1> HIDE DEF next
  <1>8. QED
    BY <1>4, <1>5, <1>6, <1>7 DEF Listed, ListedAs, next

\* t and u agree on where the first k instructions start.
Kin(t, st, u, su, k) ==
  /\ k \in 0 .. Len(st) /\ k \in 0 .. Len(su)
  /\ \A i \in 1 .. k + 1 : At(su, u.pc, i) = At(st, t.pc, i)
  /\ \A i \in 1 .. k : su[i] = st[i]

\* A position that the first k instructions have in front, or the slot of one of them.
Reached(t, st, u, su, k, pos) ==
  \/ \E m \in 1 .. k + 1 : pos = At(st, t.pc, m)
  \/ \E m \in JumpsOf(t, st) : /\ m \in JumpsOf(u, su) /\ pos = SlotAt(t, st[m])
                               /\ SlotAt(u, su[m]) = pos

LEMMA TargetSame ==
  ASSUME NEW t, NEW st, NEW u, NEW su, NEW k, Laid(t, st), Laid(u, su), Kin(t, st, u, su, k),
         NEW slot, SentTo(u.iseq, slot) = SentTo(t.iseq, slot),
         Reached(t, st, u, su, k, SentTo(t.iseq, slot))
  PROVE  Target(u, su, slot) = Target(t, st, slot)
  <1> DEFINE pos == SentTo(t.iseq, slot)
  <1>0. Len(st) \in Nat /\ Len(su) \in Nat
    BY LaidTypes
  <1>1. CASE \E m \in 1 .. k + 1 : pos = At(st, t.pc, m)
    <2>1. PICK m \in 1 .. k + 1 : pos = At(st, t.pc, m)
      BY <1>1
    <2>2. m \in 1 .. Len(st) + 1 /\ m \in 1 .. Len(su) + 1
      BY <1>0 DEF Kin
    <2>3. pos = At(su, u.pc, m)
      BY <2>1 DEF Kin
    <2>4. Target(t, st, slot) = m - 1
      BY <2>1, <2>2, TargetOfBound
    <2>5. Target(u, su, slot) = m - 1
      BY <2>2, <2>3, TargetOfBound
    <2>6. QED
      BY <2>4, <2>5
  <1>2. CASE \E m \in JumpsOf(t, st) : /\ m \in JumpsOf(u, su) /\ pos = SlotAt(t, st[m])
                                       /\ SlotAt(u, su[m]) = pos
    <2>1. PICK m \in JumpsOf(t, st) : /\ m \in JumpsOf(u, su) /\ pos = SlotAt(t, st[m])
                                      /\ SlotAt(u, su[m]) = pos
      BY <1>2
    <2>2. Target(t, st, slot) = -m
      BY <2>1, TargetOfSlot
    <2>3. Target(u, su, slot) = -m
      BY <2>1, TargetOfSlot
    <2>4. QED
      BY <2>2, <2>3
  <1>3. QED
    BY <1>1, <1>2 DEF Reached

\* Where jumps may lead is reached, when nothing but code behind it differs.
LEMMA SentReached ==
  ASSUME NEW t, NEW st, NEW marks, NEW links, Good(t, st, marks, links),
         NEW u, NEW su, NEW k, Laid(u, su), Kin(t, st, u, su, k),
         \A i \in JumpsOf(t, st) : i <= k /\ i \in JumpsOf(u, su) /\ SlotAt(u, su[i]) = SlotAt(t, st[i]),
         NEW pos,
         \/ pos = 0
         \/ pos \in marks /\ pos <= At(st, t.pc, k + 1)
         \/ \E m \in JumpsOf(t, st) : pos = SlotAt(t, st[m])
  PROVE  Reached(t, st, u, su, k, pos)
  <1>1. Laid(t, st) /\ marks \subseteq Bounds(st, t.pc) /\ Len(st) \in Nat /\ k \in 0 .. Len(st)
    BY LaidTypes DEF Good, Marked, Kin
  <1>2. CASE pos = 0
    <2>1. 1 \in 1 .. k + 1 /\ At(st, t.pc, 1) = 0
      BY <1>1 DEF Laid
    <2>2. QED
      BY <1>2, <2>1 DEF Reached
  <1>3. CASE pos \in marks /\ pos <= At(st, t.pc, k + 1)
    <2>1. \E m \in 1 .. k + 1 : pos = At(st, t.pc, m)
      BY <1>1, <1>3, BoundsOf
    <2>2. QED
      BY <2>1 DEF Reached
  <1>4. CASE \E m \in JumpsOf(t, st) : pos = SlotAt(t, st[m])
    BY <1>4 DEF Reached
  <1>5. QED
    BY <1>2, <1>3, <1>4

\* Where the jumps in the code lead.
LEMMA SentWhere ==
  ASSUME NEW t, NEW st, NEW marks, NEW links, Good(t, st, marks, links),
         NEW i \in JumpsOf(t, st), NEW pos, pos = SentTo(t.iseq, SlotAt(t, st[i]))
  PROVE  pos = 0 \/ pos \in marks \/ \E m \in JumpsOf(t, st) : pos = SlotAt(t, st[m])
  <1>1. Laid(t, st)
    BY DEF Good
  <1>2. SentFrom(t, st)[i] = pos
    BY <1>1, SlotInside
  <1>3. pos \in marks \cup Ends(JumpsOf(t, st), SlotsOf(t, st))
    BY <1>2 DEF Good, Linked
  <1>4. \A m \in JumpsOf(t, st) : SlotsOf(t, st)[m] = SlotAt(t, st[m])
    BY <1>1, SlotInside
  <1>5. QED
    BY <1>3, <1>4 DEF Ends

LEMMA IntSame ==
  ASSUME NEW t, NEW u, PoolKept(t, u), NEW insn,
         insn.op = "LOADL" => insn.b + 1 \in 1 .. Len(t.pool)
  PROVE  IntOperand(u, insn) = IntOperand(t, insn)
  BY DEF IntOperand, PoolKept

\* What is written behind the first k instructions leaves their listing alone.
LEMMA PrefixSame ==
  ASSUME NEW t, NEW st, NEW marks, NEW links, Good(t, st, marks, links),
         NEW u, NEW su, NEW k, Laid(u, su), Kin(t, st, u, su, k),
         Same(t.iseq, u.iseq, 0, At(st, t.pc, k + 1)), PoolKept(t, u),
         \A i \in JumpsOf(t, st) : i <= k, \A pos \in marks : pos <= At(st, t.pc, k + 1),
         NEW i \in 1 .. k
  PROVE  Listed(u, su, i) = Listed(t, st, i)
  <1> DEFINE insn == DecodeAt(t.iseq, st[i]).insn
             slot == SlotAt(t, st[i])
  <1>1. Laid(t, st) /\ Len(st) \in Nat /\ Len(su) \in Nat /\ k \in 0 .. Len(st) /\ k \in 0 .. Len(su)
    BY LaidTypes DEF Good, Kin
  <1>2. i \in 1 .. Len(st) /\ i \in 1 .. Len(su)
    BY <1>1
  <1>3. \A m \in 1 .. k : su[m] = st[m]
    BY DEF Kin
  <1>4. /\ DecodeAt(u.iseq, su[i]) = DecodeAt(t.iseq, st[i]) /\ SlotAt(u, su[i]) = slot
        /\ insn.op \in JumpOps => SentTo(u.iseq, slot) = SentTo(t.iseq, slot)
    BY <1>1, <1>3, SameJumps
  <1>5. \A m \in JumpsOf(t, st) :
           m <= k /\ m \in JumpsOf(u, su) /\ SlotAt(u, su[m]) = SlotAt(t, st[m])
    <2>1. TAKE m \in JumpsOf(t, st)
    <2>2. m \in 1 .. Len(st) /\ DecodeAt(t.iseq, st[m]).insn.op \in JumpOps /\ m <= k
      BY <1>1, SlotInside
    <2>3. m \in 1 .. k /\ m \in 1 .. Len(su)
      BY <1>1, <2>2
    <2>4. DecodeAt(u.iseq, su[m]) = DecodeAt(t.iseq, st[m]) /\ SlotAt(u, su[m]) = SlotAt(t, st[m])
      BY <1>1, <1>3, <2>3, SameJumps
    <2>5. QED
      BY <2>2, <2>3, <2>4 DEF JumpsOf
  <1>6. insn.op \in JumpOps => Target(u, su, slot) = Target(t, st, slot)
    <2> SUFFICES ASSUME insn.op \in JumpOps PROVE Target(u, su, slot) = Target(t, st, slot)
      OBVIOUS
    <2>1. i \in JumpsOf(t, st)
      BY <1>2 DEF JumpsOf
    <2> DEFINE pos == SentTo(t.iseq, slot)
    <2>2. pos = 0 \/ pos \in marks \/ \E m \in JumpsOf(t, st) : pos = SlotAt(t, st[m])
      BY <2>1, SentWhere
    <2>3. Reached(t, st, u, su, k, pos)
      <3> HIDE DEF pos
      <3>1. QED
        BY <1>1, <1>5, <2>2, SentReached
    <2>4. SentTo(u.iseq, slot) = SentTo(t.iseq, slot)
      BY <1>4
    <2> HIDE DEF slot
    <2>5. QED
      BY <1>1, <2>3, <2>4, TargetSame
  <1>7. insn.op \in IntLoads => IntOperand(u, insn) = IntOperand(t, insn)
    <2>1. Sound(t, st[i])
      BY <1>1, <1>2 DEF Laid
    <2>2. insn.op = "LOADL" => insn.b + 1 \in 1 .. Len(t.pool)
      BY <2>1 DEF Sound
    <2> HIDE DEF insn
    <2>3. QED
      BY <2>2, IntSame
  <1>8. Listed(t, st, i) = ListedAs(insn, IntOperand(t, insn), Target(t, st, slot))
    BY <1>1, <1>2, ListedIs
  <1>9. Listed(u, su, i) = ListedAs(insn, IntOperand(u, insn), Target(u, su, slot))
    BY <1>2, <1>4, ListedIs
  <1> HIDE DEF insn, slot
  <1>10. QED
    BY <1>6, <1>7, <1>8, <1>9 DEF ListedAs

\* The label that came last has its place in the listing.
LEMMA LabelIndex ==
  ASSUME NEW t, NEW st, Laid(t, st), NEW u, NEW su, NEW k, Laid(u, su), Kin(t, st, u, su, k),
         NEW pos \in Bounds(st, t.pc), pos <= At(st, t.pc, k + 1)
  PROVE  Index(su, pos) = Index(st, pos) /\ Index(st, pos) <= k /\ Index(st, pos) \in Nat
  <1>1. Len(st) \in Nat /\ Len(su) \in Nat /\ k \in 0 .. Len(st) /\ k \in 0 .. Len(su)
    BY LaidTypes DEF Kin
  <1>2. PICK m \in 1 .. k + 1 : pos = At(st, t.pc, m)
    BY <1>1, BoundsOf
  <1>3. m \in 1 .. Len(st) + 1 /\ m \in 1 .. Len(su) + 1 /\ pos = At(su, u.pc, m)
    BY <1>1, <1>2 DEF Kin
  <1>4. Index(st, pos) = m - 1
    BY <1>2, <1>3, IndexOfBound
  <1>5. Index(su, pos) = m - 1
    BY <1>3, IndexOfBound
  <1>6. QED
    BY <1>1, <1>4, <1>5

\* The code of the listing as a sequence.
Texts(t, st) == {Listed(t, st, i) : i \in 1 .. Len(st)}

LEMMA ListingIs ==
  ASSUME NEW t, NEW st, Laid(t, st), NEW S, Texts(t, st) \subseteq S
  PROVE  /\ ListingOf(t).starts = st /\ ListingOf(t).lastlabel = Index(st, t.lastlabel)
         /\ ListingOf(t).code \in Seq(S) /\ Len(ListingOf(t).code) = Len(st)
         /\ \A i \in 1 .. Len(st) : ListingOf(t).code[i] = Listed(t, st, i)
  <1> DEFINE n == Len(st)
             code == [i \in 1 .. n |-> Listed(t, st, i)]
  <1>1. Starts(t.iseq, t.pc) = st
    BY StartsOfLaid
  <1>2. DOMAIN st = 1 .. n /\ n \in Nat
    BY LaidTypes DEF Laid
  <1>3. /\ ListingOf(t).starts = st /\ ListingOf(t).lastlabel = Index(st, t.lastlabel)
        /\ ListingOf(t).code = code
    BY <1>1, <1>2 DEF ListingOf
  <1>4. code \in [1 .. n -> S]
    BY DEF Texts
  <1>5. \A i \in 1 .. n : code[i] = Listed(t, st, i)
    OBVIOUS
  <1> HIDE DEF n, code
  <1>6. code \in Seq(S) /\ Len(code) = n
    BY <1>2, <1>4, SequenceOf
  <1>7. QED
    BY <1>3, <1>5, <1>6 DEF n

LEMMA JumpListed ==
  ASSUME NEW t, NEW st, Laid(t, st), NEW i \in 1 .. Len(st)
  PROVE  Listed(t, st, i).op \in JumpOps <=> i \in JumpsOf(t, st)
  <1> DEFINE insn == DecodeAt(t.iseq, st[i]).insn
             value == IntOperand(t, insn)
             target == Target(t, st, SlotAt(t, st[i]))
  <1>1. Listed(t, st, i) = ListedAs(insn, value, target)
    BY ListedIs
  <1>2. insn.op \in JumpOps <=> i \in JumpsOf(t, st)
    BY DEF JumpsOf
  <1>3. "LOADI" \notin JumpOps /\ \A op \in IntLoads : op \notin JumpOps
    BY IntLoadsUsed DEF JumpOps
  <1> HIDE DEF insn, value, target
  <1>4. QED
    BY <1>1, <1>2, <1>3 DEF ListedAs, Instr

--------------------------------------------------------------------------------
(* What taking back and writing leave of the code.                              *)

\* u has the first k instructions of t, and what their operands refer to.
Keeps(t, st, u, su, k) ==
  /\ Laid(u, su) /\ Kin(t, st, u, su, k)
  /\ Same(t.iseq, u.iseq, 0, At(st, t.pc, k + 1)) /\ PoolKept(t, u)
  /\ u.lastlabel = t.lastlabel

\* Neither jumps nor labels are behind the first k instructions.
Spared(t, st, marks, k) ==
  /\ k \in 0 .. Len(st)
  /\ \A i \in JumpsOf(t, st) : i <= k
  /\ \A pos \in marks : pos <= At(st, t.pc, k + 1)
  /\ t.lastlabel <= At(st, t.pc, k + 1)

LEMMA BackKeeps ==
  ASSUME NEW st, Good(b, st, labels, held), LastKnown(b, st), NEW n \in 0 .. 2, Free(n),
         NEW k, k = Len(st) - n
  PROVE  /\ Keeps(b, st, Back(n), After(st, n), k) /\ Spared(b, st, labels, k)
         /\ Len(After(st, n)) = k /\ Back(n).pc = At(st, b.pc, k + 1)
  <1> DEFINE su == Front(st, k)
             t == Back(n)
  <1>1. su = After(st, n)
    BY DEF After
  <1>2. /\ k \in 0 .. Len(st) /\ \A i \in JumpsOf(b, st) : i <= k
        /\ n > 0 => b.lastlabel <= At(st, b.pc, k + 1)
        /\ n > 0 => Cut(b, t, At(st, b.pc, k + 1))
        /\ n = 0 => t = b /\ su = st
        /\ t.pc = At(st, b.pc, k + 1)
    BY TakenBack
  <1>3. Laid(b, st) /\ Marked(b, st, labels) /\ Len(st) \in Nat /\ b \in Buffers /\ b.pc \in Nat
    BY LaidTypes DEF Good
  <1>4. b.lastlabel <= At(st, b.pc, k + 1)
    <2>1. CASE n = 0
      <3>1. At(st, b.pc, k + 1) = b.pc
        BY <1>2, <2>1
      <3>2. b.lastlabel <= b.pc
        BY <1>3, BoundsOf DEF Marked
      <3>3. QED
        BY <3>1, <3>2
    <2>2. CASE n # 0
      BY <1>2, <2>2
    <2>3. QED
      BY <2>1, <2>2
  <1>5. \A pos \in labels : pos <= At(st, b.pc, k + 1)
    <2>1. k + 1 \in 1 .. Len(st) + 1
      BY <1>2, <1>3
    <2>2. At(st, b.pc, k + 1) \in Nat /\ b.lastlabel \in Nat
      BY <1>3, <2>1, LaidTypes, BufferFields
    <2>3. labels \subseteq Nat /\ \A pos \in labels : pos <= b.lastlabel
      BY <1>3, BoundsOf DEF Marked
    <2>4. QED
      BY <1>4, <2>2, <2>3
  <1>6. Spared(b, st, labels, k)
    BY <1>2, <1>4, <1>5 DEF Spared
  <1> HIDE DEF su, t
  <1>7. Keeps(b, st, t, su, k) /\ Len(su) = k
    <2>1. CASE n = 0
      <3>1. k = Len(st) /\ t = b /\ su = st
        BY <1>2, <1>3, <2>1
      <3>2. Kin(b, st, b, st, k)
        BY <1>2 DEF Kin
      <3>3. Same(b.iseq, b.iseq, 0, At(st, b.pc, k + 1)) /\ PoolKept(b, b)
        <4>1. Len(b.pool) \in Nat
          BY <1>3 DEF Buffers
        <4>2. QED
          BY <4>1 DEF Same, PoolKept
      <3>4. QED
        BY <1>3, <3>1, <3>2, <3>3 DEF Keeps
    <2>2. CASE n # 0
      <3>1. Cut(b, t, At(st, b.pc, k + 1))
        BY <1>2, <2>2
      <3>2. /\ Laid(t, su) /\ Len(su) = k /\ Same(b.iseq, t.iseq, 0, At(st, b.pc, k + 1))
            /\ \A i \in 1 .. k + 1 : At(su, t.pc, i) = At(st, b.pc, i)
            /\ \A i \in 1 .. k : su[i] = st[i]
        BY <1>2, <1>3, <3>1, LaidCut DEF su
      <3>3. k \in 0 .. Len(su)
        BY <1>2, <1>3, <3>2
      <3>4. Kin(b, st, t, su, k)
        BY <1>2, <3>2, <3>3 DEF Kin
      <3>5. PoolKept(b, t) /\ t.lastlabel = b.lastlabel
        <4>1. Len(b.pool) \in Nat
          BY <1>3 DEF Buffers
        <4>2. QED
          BY <3>1, <4>1 DEF Cut, PoolKept
      <3>6. QED
        BY <3>2, <3>4, <3>5 DEF Keeps
    <2>3. QED
      BY <2>1, <2>2
  <1>8. QED
    BY <1>1, <1>2, <1>6, <1>7 DEF t

LEMMA PoolLength ==
  ASSUME NEW t, NEW st, Laid(t, st)
  PROVE  Len(t.pool) \in Nat
  BY LaidTypes DEF Buffers

LEMMA KeepsMore ==
  ASSUME NEW t, NEW st, NEW u, NEW su, NEW k, Laid(t, st), Keeps(t, st, u, su, k), Len(su) = k,
         u.pc = At(st, t.pc, k + 1), NEW v, NEW insn, Continues(u, v, insn), NEW sv, sv = Longer(su, u.pc)
  PROVE  Keeps(t, st, v, sv, k) /\ Len(sv) = k + 1 /\ sv[k + 1] = u.pc
  <1>1. Laid(u, su) /\ Kin(t, st, u, su, k) /\ k \in 0 .. Len(st) /\ Len(st) \in Nat
    BY LaidTypes DEF Keeps, Kin
  <1>2. /\ Laid(v, sv) /\ Len(sv) = k + 1 /\ sv[k + 1] = u.pc
        /\ \A i \in 1 .. k : sv[i] = su[i]
        /\ \A i \in 1 .. k + 1 : At(sv, v.pc, i) = At(su, u.pc, i)
    <2> DEFINE n == Len(su)
    <2>1. /\ Laid(v, sv) /\ Len(sv) = n + 1 /\ sv[n + 1] = u.pc
          /\ \A i \in 1 .. n : sv[i] = su[i]
          /\ \A i \in 1 .. n + 1 : At(sv, v.pc, i) = At(su, u.pc, i)
      BY <1>1, LaidMore
    <2>2. n = k
      OBVIOUS
    <2> HIDE DEF n
    <2>3. QED
      BY <2>1, <2>2
  <1>3. Kin(t, st, v, sv, k)
    <2>1. k \in 0 .. Len(sv)
      BY <1>1, <1>2
    <2>2. \A i \in 1 .. k + 1 : At(sv, v.pc, i) = At(st, t.pc, i)
      BY <1>1, <1>2 DEF Kin
    <2>3. \A i \in 1 .. k : sv[i] = st[i]
      BY <1>1, <1>2 DEF Kin
    <2>4. QED
      BY <1>1, <2>1, <2>2, <2>3 DEF Kin
  <1>4. Same(t.iseq, v.iseq, 0, At(st, t.pc, k + 1))
    BY DEF Keeps, Continues, Same
  <1>5. PoolKept(t, v) /\ v.lastlabel = t.lastlabel
    <2>1. Len(t.pool) \in Nat /\ Len(u.pool) \in Nat /\ Len(v.pool) \in Nat
      BY <1>1, <1>2, PoolLength
    <2>2. PoolKept(t, u) /\ PoolKept(u, v)
      BY DEF Keeps, Continues
    <2>3. PoolKept(t, v)
      BY <2>1, <2>2 DEF PoolKept
    <2>4. QED
      BY <2>3 DEF Keeps, Continues
  <1>6. QED
    BY <1>2, <1>3, <1>4, <1>5 DEF Keeps

--------------------------------------------------------------------------------
(* Steps of the listing.                                                        *)

LEMMA FreeListed ==
  ASSUME IInv, NEW n \in 0 .. 2, NEW k, k = Len(listing.starts) - n,
         Spared(b, listing.starts, labels, k)
  PROVE  Buffer!Free(n) /\ n \in 0 .. Len(listing.code)
  <1> DEFINE st == listing.starts
             S == Texts(b, st)
             code == listing.code
             m == Len(st)
  <1>1. Good(b, st, labels, held) /\ Laid(b, st) /\ listing = ListingOf(b)
    BY DEF IInv, Good
  <1>2. /\ listing.lastlabel = Index(st, b.lastlabel) /\ Len(code) = m
        /\ \A i \in 1 .. m : code[i] = Listed(b, st, i)
    <2> HIDE DEF S
    <2>1. Texts(b, st) \subseteq S
      BY DEF S
    <2>2. QED
      BY <1>1, <2>1, ListingIs
  <1>3. m \in Nat /\ k \in 0 .. m /\ b.lastlabel \in Bounds(st, b.pc)
    BY <1>1, LaidTypes DEF Good, Marked, Spared
  <1>4. Index(st, b.lastlabel) <= k
    <2>1. Kin(b, st, b, st, k) /\ b.lastlabel <= At(st, b.pc, k + 1)
      BY <1>3 DEF Kin, Spared
    <2>2. QED
      BY <1>1, <1>3, <2>1, LabelIndex
  <1>5. \A i \in JumpsOf(b, st) : i <= k
    BY DEF Spared
  <1>6. \A i \in 1 .. m : code[i].op \in JumpOps <=> i \in JumpsOf(b, st)
    BY <1>1, <1>2, JumpListed
  <1>7. k = m - n
    OBVIOUS
  <1> HIDE DEF st, S, code, m
  <1>8. n <= Len(code) /\ (n > 0 => listing.lastlabel <= Len(code) - n) /\ n \in 0 .. Len(code)
    BY <1>2, <1>3, <1>4, <1>7
  <1>9. ASSUME NEW i \in Len(code) - n + 1 .. Len(code) PROVE ~(code[i].op \in JumpOps)
    <2>1. i \in 1 .. m /\ ~(i <= k)
      BY <1>2, <1>3, <1>7
    <2>2. QED
      BY <1>5, <1>6, <2>1
  <1>10. QED
    BY <1>8, <1>9 DEF Buffer!Free, Buffer!IsJump, code

\* The first k instructions are listed as they were, and so is the label.
LEMMA KeptListed ==
  ASSUME IInv, NEW k, Spared(b, listing.starts, labels, k), NEW u, NEW su,
         Keeps(b, listing.starts, u, su, k)
  PROVE  /\ \A i \in 1 .. k : Listed(u, su, i) = Listed(b, listing.starts, i)
         /\ Index(su, u.lastlabel) = Index(listing.starts, b.lastlabel)
  <1> DEFINE st == listing.starts
  <1>1. Good(b, st, labels, held) /\ Laid(b, st) /\ b.lastlabel \in Bounds(st, b.pc)
    BY DEF IInv, Good, Marked
  <1>2. /\ Laid(u, su) /\ Kin(b, st, u, su, k) /\ Same(b.iseq, u.iseq, 0, At(st, b.pc, k + 1))
        /\ PoolKept(b, u) /\ u.lastlabel = b.lastlabel
    BY DEF Keeps
  <1>3. /\ \A i \in JumpsOf(b, st) : i <= k
        /\ \A pos \in labels : pos <= At(st, b.pc, k + 1)
        /\ b.lastlabel <= At(st, b.pc, k + 1)
    BY DEF Spared
  <1> HIDE DEF st
  <1>4. \A i \in 1 .. k : Listed(u, su, i) = Listed(b, st, i)
    BY <1>1, <1>2, <1>3, PrefixSame
  <1>5. Index(su, b.lastlabel) = Index(st, b.lastlabel)
    BY <1>1, <1>2, <1>3, LabelIndex
  <1>6. QED
    BY <1>2, <1>4, <1>5 DEF st

LEMMA WriteListed ==
  ASSUME IInv, NEW n \in 0 .. 2, NEW k, k = Len(listing.starts) - n,
         Spared(b, listing.starts, labels, k), listing' = ListingOf(b'),
         NEW su, Keeps(b, listing.starts, b', su, k), Len(su) = k + 1,
         NEW insn, insn = Listed(b', su, k + 1)
  PROVE  /\ Buffer!Write(n, insn) /\ n \in 0 .. Len(listing.code)
         /\ Len(listing'.code) = k + 1 /\ listing'.code[k + 1] = insn
  <1> DEFINE st == listing.starts
             S == Texts(b, st) \cup Texts(b', su)
             s == listing.code
             r == listing'.code
  <1>1. Laid(b, st) /\ listing = ListingOf(b) /\ Laid(b', su)
    BY DEF IInv, Good, Keeps
  <1>2. Buffer!Free(n) /\ n \in 0 .. Len(s) /\ k \in 0 .. Len(st) /\ Len(st) \in Nat
    BY <1>1, FreeListed, LaidTypes DEF Spared
  <1>3. /\ \A i \in 1 .. k : Listed(b', su, i) = Listed(b, st, i)
        /\ Index(su, b'.lastlabel) = Index(st, b.lastlabel)
    BY KeptListed
  <1>4. /\ listing.lastlabel = Index(st, b.lastlabel) /\ Len(s) = Len(st) /\ s \in Seq(S)
        /\ \A i \in 1 .. Len(st) : s[i] = Listed(b, st, i)
    <2>1. Texts(b, st) \subseteq S
      OBVIOUS
    <2> HIDE DEF S
    <2>2. QED
      BY <1>1, <2>1, ListingIs
  <1>5. /\ listing'.lastlabel = Index(su, b'.lastlabel) /\ Len(r) = k + 1 /\ r \in Seq(S)
        /\ \A i \in 1 .. k + 1 : r[i] = Listed(b', su, i)
    <2>1. Texts(b', su) \subseteq S
      OBVIOUS
    <2> HIDE DEF S
    <2>2. QED
      BY <1>1, <2>1, ListingIs
  <1>6. k = Len(s) - n /\ k \in 0 .. Len(s) /\ k + 1 \in 1 .. k + 1
    BY <1>2, <1>4
  <1> HIDE DEF S
  <1>7. \A i \in 1 .. k : r[i] = s[i]
    <2>1. TAKE i \in 1 .. k
    <2>2. i \in 1 .. k + 1 /\ i \in 1 .. Len(st)
      BY <1>2
    <2>3. QED
      BY <1>3, <1>4, <1>5, <2>2
  <1>8. r[k + 1] = insn
    BY <1>5, <1>6
  <1>a. listing'.lastlabel = listing.lastlabel
    BY <1>3, <1>4, <1>5
  <1> HIDE DEF st, s, r
  <1>9. r = Append(SubSeq(s, 1, k), r[k + 1])
    BY <1>4, <1>5, <1>6, <1>7, OneMore
  <1>10. r = Append(SubSeq(s, 1, Len(s) - n), insn)
    BY <1>6, <1>8, <1>9
  <1>11. Buffer!Write(n, insn)
    BY <1>2, <1>10, <1>a DEF Buffer!Write, Buffer!Without, s, r
  <1>12. QED
    BY <1>2, <1>5, <1>8, <1>11 DEF s, r

LEMMA DropListed ==
  ASSUME IInv, NEW k, k = Len(listing.starts) - 1,
         Spared(b, listing.starts, labels, k), listing' = ListingOf(b'),
         NEW su, Keeps(b, listing.starts, b', su, k), Len(su) = k
  PROVE  Buffer!Drop
  <1> DEFINE st == listing.starts
             S == Texts(b, st) \cup Texts(b', su)
             s == listing.code
             r == listing'.code
             n == 1
  <1>1. Laid(b, st) /\ listing = ListingOf(b) /\ Laid(b', su)
    BY DEF IInv, Good, Keeps
  <1>2. Buffer!Free(n) /\ n \in 0 .. Len(s) /\ k \in 0 .. Len(st) /\ Len(st) \in Nat
    BY <1>1, FreeListed, LaidTypes DEF Spared
  <1>3. /\ \A i \in 1 .. k : Listed(b', su, i) = Listed(b, st, i)
        /\ Index(su, b'.lastlabel) = Index(st, b.lastlabel)
    BY KeptListed
  <1>4. /\ listing.lastlabel = Index(st, b.lastlabel) /\ Len(s) = Len(st) /\ s \in Seq(S)
        /\ \A i \in 1 .. Len(st) : s[i] = Listed(b, st, i)
    <2>1. Texts(b, st) \subseteq S
      OBVIOUS
    <2> HIDE DEF S
    <2>2. QED
      BY <1>1, <2>1, ListingIs
  <1>5. /\ listing'.lastlabel = Index(su, b'.lastlabel) /\ Len(r) = k /\ r \in Seq(S)
        /\ \A i \in 1 .. k : r[i] = Listed(b', su, i)
    <2>1. Texts(b', su) \subseteq S
      OBVIOUS
    <2> HIDE DEF S
    <2>2. QED
      BY <1>1, <2>1, ListingIs
  <1>6. k = Len(s) - 1 /\ k \in 0 .. Len(s)
    BY <1>2, <1>4
  <1> HIDE DEF S
  <1>7. \A i \in 1 .. k : r[i] = s[i]
    <2>1. TAKE i \in 1 .. k
    <2>2. i \in 1 .. Len(st)
      BY <1>2
    <2>3. QED
      BY <1>3, <1>4, <1>5, <2>2
  <1>8. listing'.lastlabel = listing.lastlabel
    BY <1>3, <1>4, <1>5
  <1> DEFINE front == SubSeq(s, 1, k)
  <1> HIDE DEF st, s, r
  <1>9. front \in Seq(S) /\ Len(front) = k /\ \A i \in 1 .. k : front[i] = s[i]
    BY <1>4, <1>6, FrontOf
  <1> HIDE DEF front
  <1>10. r = front
    BY <1>5, <1>7, <1>9, SameSequence
  <1>11. r = SubSeq(s, 1, Len(s) - 1)
    BY <1>6, <1>10 DEF front
  <1>12. QED
    BY <1>2, <1>8, <1>11 DEF Buffer!Drop, Buffer!Without, s, r

--------------------------------------------------------------------------------
(* What every step answers.                                                     *)

\* Whenever the listing is what the invariant says, its jumps and slots are.
LEMMA ChainsSeen ==
  ASSUME IInv
  PROVE  ChainsKept
  <1> DEFINE st == listing.starts
             J == JumpsOf(b, st)
             slot == SlotsOf(b, st)
             sent == SentFrom(b, st)
             S == Texts(b, st)
  <1>1. Laid(b, st) /\ listing = ListingOf(b) /\ Linked(J, slot, sent, labels, held)
    BY DEF IInv, Good
  <1>2. /\ Len(listing.code) = Len(st) /\ listing.code \in Seq(S)
        /\ \A i \in 1 .. Len(st) : listing.code[i] = Listed(b, st, i)
    <2>1. Texts(b, st) \subseteq S
      OBVIOUS
    <2> HIDE DEF S
    <2>2. QED
      BY <1>1, <2>1, ListingIs
  <1>3. DOMAIN listing.code = 1 .. Len(st) /\ Len(st) \in Nat
    BY <1>1, <1>2, LaidTypes
  <1>4. \A i \in 1 .. Len(st) : IsJump(listing.code[i]) <=> i \in J
    BY <1>1, <1>2, JumpListed DEF IsJump
  <1>5. J \subseteq 1 .. Len(st)
    BY DEF JumpsOf
  <1>6. JumpsIn = J
    BY <1>3, <1>4, <1>5 DEF JumpsIn
  <1>7. \A i \in J : slot[i] = Slot(i) /\ sent[i] = Sent(i)
    <2>1. TAKE i \in J
    <2>2. i \in 1 .. Len(st) /\ slot[i] = SlotAt(b, st[i]) /\ sent[i] = SentTo(b.iseq, SlotAt(b, st[i]))
      BY <1>1, SlotInside
    <2>3. DecodeAt(b.iseq, st[i]).next = At(st, b.pc, i + 1)
      BY <1>1, <2>2 DEF Laid
    <2>4. i + 1 <= Len(st) <=> i < Len(st)
      BY <1>3, <2>2
    <2>5. SlotAt(b, st[i]) = Slot(i)
      BY <2>3, <2>4 DEF SlotAt, Slot, At
    <2>6. QED
      BY <2>2, <2>5 DEF Sent
  <1> DEFINE slots == {Slot(i) : i \in JumpsIn}
             waits(i) == Sent(i) \in {0} \cup slots
  <1>8. slots = {slot[i] : i \in J}
    BY <1>6, <1>7
  <1> HIDE DEF J, slot, sent, slots
  <1>9. \A i \in J : waits(i) <=> sent[i] \in Ends(J, slot)
    BY <1>7, <1>8 DEF Ends
  <1> HIDE DEF waits
  <1>10. \A link \in held : \E i \in J : link = Slot(i) /\ waits(i)
    BY <1>1, <1>7, <1>9 DEF Linked
  <1>11. \A i, j \in J : Sent(i) = Slot(j) => j < i /\ waits(j) /\ Slot(j) \notin held
    BY <1>1, <1>7, <1>9 DEF Linked
  <1>12. \A i, j \in J : Sent(i) = Sent(j) /\ Sent(i) \in slots => i = j
    BY <1>1, <1>7, <1>8 DEF Linked
  <1>13. QED
    BY <1>6, <1>10, <1>11, <1>12 DEF ChainsKept, waits, slots

\* Pending jumps form chains from their heads back to address 0 that never meet, so that
\* each is patched once (codegen.rs genjmp, gen_jmpdst, dispatch, dispatch_linked).
THEOREM PendingChainsKept == Spec => []ChainsKept
  BY ChainsSeen, ListingFollowsBuffer, PTL

\* What each kind of call is answered with.
LEMMA WriteAnswer ==
  ASSUME NEW n, NEW insn, call' = <<"write", n, insn>>, Buffer!Write(n, Placed(insn))
  PROVE  Answers(call')
  BY DEF Answers

LEMMA DropAnswer ==
  ASSUME call' = <<"drop">>, Buffer!Drop
  PROVE  Answers(call')
  BY DEF Answers

LEMMA IntAnswer ==
  ASSUME NEW dst, NEW v, call' = <<"int", dst, v>>, Buffer!Write(0, Loaded(dst, v))
  PROVE  Answers(call')
  BY DEF Answers

LEMMA UniopAnswer ==
  ASSUME NEW minus, NEW dst, call' = <<"uniop", minus, dst>>,
         Buffer!Write(1, Loaded(dst, IF minus THEN -LastLoaded ELSE LastLoaded))
  PROVE  Answers(call')
  BY DEF Answers

LEMMA LabelAnswer ==
  ASSUME call' = <<"label">>, Buffer!Label
  PROVE  Answers(call')
  BY DEF Answers

LEMMA LandAnswer ==
  ASSUME NEW link, call' = <<"land", link>>, Buffer!Land(Index(listing.starts, link))
  PROVE  Answers(call')
  BY DEF Answers

\* The jumps that are kept keep their slots.
LEMMA KeptJumps ==
  ASSUME NEW t, NEW st, NEW marks, Laid(t, st), NEW k, Spared(t, st, marks, k),
         NEW u, NEW su, Keeps(t, st, u, su, k), NEW m \in JumpsOf(t, st)
  PROVE  m <= k /\ m \in JumpsOf(u, su) /\ SlotAt(u, su[m]) = SlotAt(t, st[m])
  <1>1. Laid(u, su) /\ Len(st) \in Nat /\ Len(su) \in Nat /\ k \in 0 .. Len(st) /\ k \in 0 .. Len(su)
    BY LaidTypes DEF Keeps, Kin
  <1>2. m \in 1 .. Len(st) /\ DecodeAt(t.iseq, st[m]).insn.op \in JumpOps /\ m <= k
    BY SlotInside DEF Spared
  <1>3. m \in 1 .. k /\ m \in 1 .. Len(su)
    BY <1>1, <1>2
  <1>4. Same(t.iseq, u.iseq, 0, At(st, t.pc, k + 1)) /\ \A i \in 1 .. k : su[i] = st[i]
    BY DEF Keeps, Kin
  <1>5. DecodeAt(u.iseq, su[m]) = DecodeAt(t.iseq, st[m]) /\ SlotAt(u, su[m]) = SlotAt(t, st[m])
    BY <1>1, <1>3, <1>4, SameJumps
  <1>6. QED
    BY <1>2, <1>3, <1>5 DEF JumpsOf

\* A jump that was sent somewhere is listed with that place.
LEMMA PlaceIs ==
  ASSUME IInv, NEW k, Spared(b, listing.starts, labels, k), NEW u, NEW su,
         Keeps(b, listing.starts, u, su, k), NEW dest \in Dests,
         NEW slot, SentTo(u.iseq, slot) = DestOf(dest)
  PROVE  Target(u, su, slot) = Place(listing.starts, dest)
  <1> DEFINE st == listing.starts
  <1>1. Good(b, st, labels, held) /\ Laid(b, st) /\ labels \subseteq Bounds(st, b.pc)
    BY DEF IInv, Good, Marked
  <1>2. /\ Laid(u, su) /\ Kin(b, st, u, su, k) /\ k \in 0 .. Len(st) /\ k \in 0 .. Len(su)
        /\ Len(st) \in Nat /\ Len(su) \in Nat
    BY <1>1, LaidTypes DEF Keeps, Kin
  <1>3. JMPLINK_START \notin labels
    <2>1. labels \subseteq Nat
      BY <1>1, BoundsOf
    <2>2. QED
      BY <2>1 DEF JMPLINK_START
  <1> HIDE DEF st
  <1>4. CASE dest = JMPLINK_START
    <2>1. 1 \in 1 .. Len(su) + 1 /\ At(su, u.pc, 1) = 0
      BY <1>2 DEF Laid
    <2>2. SentTo(u.iseq, slot) = At(su, u.pc, 1)
      BY <1>4, <2>1 DEF DestOf
    <2>3. Target(u, su, slot) = 1 - 1
      BY <1>2, <2>1, <2>2, TargetOfBound
    <2>4. QED
      BY <1>3, <1>4, <2>3 DEF Place, st
  <1>5. CASE dest \in labels
    <2>1. dest \in Bounds(st, b.pc) /\ dest <= At(st, b.pc, k + 1) /\ DestOf(dest) = dest
      BY <1>1, <1>3, <1>5 DEF Spared, DestOf, st
    <2>2. PICK m \in 1 .. k + 1 : dest = At(st, b.pc, m)
      BY <1>1, <1>2, <2>1, BoundsOf
    <2>3. m \in 1 .. Len(st) + 1 /\ m \in 1 .. Len(su) + 1
      BY <1>2
    <2>4. SentTo(u.iseq, slot) = At(su, u.pc, m)
      BY <1>2, <2>1, <2>2 DEF Kin
    <2>5. Target(u, su, slot) = m - 1
      BY <1>2, <2>3, <2>4, TargetOfBound
    <2>6. Index(st, dest) = m - 1
      BY <1>1, <2>2, <2>3, IndexOfBound
    <2>7. QED
      BY <1>3, <1>5, <2>5, <2>6 DEF Place, st
  <1>6. CASE dest \notin labels /\ dest # JMPLINK_START
    <2>1. dest \in held
      BY <1>6 DEF Dests
    <2>2. PICK m \in JumpsOf(b, st) : dest = SlotAt(b, st[m])
      BY <1>1, <2>1, HeldLink
    <2>3. m \in JumpsOf(u, su) /\ SlotAt(u, su[m]) = SlotAt(b, st[m])
      BY <1>1, <2>2, KeptJumps DEF st
    <2>4. SentTo(u.iseq, slot) = SlotAt(u, su[m])
      BY <1>6, <2>2, <2>3 DEF DestOf
    <2>5. Target(u, su, slot) = -m
      BY <1>2, <2>3, <2>4, TargetOfSlot
    <2>6. Index(st, dest) = m
      BY <1>1, <2>2, IndexOfSlot
    <2>7. QED
      BY <1>6, <2>5, <2>6 DEF Place, st
  <1>7. QED
    BY <1>4, <1>5, <1>6

\* An emitter that takes back n instructions and writes one makes a listing of that.
LEMMA EmitListed ==
  ASSUME IInv, NEW n \in 0 .. 2, Free(n), NEW insn, Continues(Back(n), b', insn),
         listing' = ListingOf(b'), NEW k, k = Len(listing.starts) - n,
         NEW su, su = Instead(listing.starts, n),
         NEW text, text = ListedAs(insn, IntOperand(b', insn), Target(b', su, b'.pc - 2))
  PROVE  /\ Buffer!Write(n, text) /\ n \in 0 .. Len(listing.code)
         /\ Len(listing'.code) = k + 1 /\ listing'.code[k + 1] = text
         /\ Spared(b, listing.starts, labels, k) /\ Keeps(b, listing.starts, b', su, k)
  <1> DEFINE st == listing.starts
             t == Back(n)
             left == After(st, n)
  <1>1. Good(b, st, labels, held) /\ LastKnown(b, st) /\ Laid(b, st)
    BY DEF IInv, Good
  <1> HIDE DEF st
  <1>2. /\ Keeps(b, st, t, left, k) /\ Spared(b, st, labels, k)
        /\ Len(left) = k /\ t.pc = At(st, b.pc, k + 1)
    BY <1>1, BackKeeps DEF st
  <1>3. su = Longer(left, t.pc)
    BY DEF Instead, st
  <1>4. Continues(t, b', insn)
    OBVIOUS
  <1> HIDE DEF t, left
  <1>5. Keeps(b, st, b', su, k) /\ Len(su) = k + 1 /\ su[k + 1] = t.pc
    BY <1>1, <1>2, <1>3, <1>4, KeepsMore
  <1>6. Laid(b', su) /\ k + 1 \in 1 .. Len(su)
    <2>1. k \in 0 .. Len(st) /\ Len(st) \in Nat
      BY <1>1, <1>2, LaidTypes DEF Spared
    <2>2. QED
      BY <1>5, <2>1 DEF Keeps
  <1>7. DecodeAt(b'.iseq, su[k + 1]).insn = insn /\ DecodeAt(b'.iseq, su[k + 1]).next = b'.pc
    BY <1>4, <1>5 DEF Continues
  <1>8. SlotAt(b', su[k + 1]) = b'.pc - 2
    BY <1>7 DEF SlotAt
  <1> DEFINE i == k + 1
  <1>a. i \in 1 .. Len(su) /\ insn = DecodeAt(b'.iseq, su[i]).insn /\ SlotAt(b', su[i]) = b'.pc - 2
    BY <1>6, <1>7, <1>8
  <1> HIDE DEF i
  <1>9. Listed(b', su, i) = text
    BY <1>6, <1>a, ListedIs
  <1>10. /\ Buffer!Write(n, text) /\ n \in 0 .. Len(listing.code)
         /\ Len(listing'.code) = k + 1 /\ listing'.code[k + 1] = text
    <2>1. text = Listed(b', su, k + 1)
      BY <1>9 DEF i
    <2>2. QED
      BY <1>2, <1>5, <2>1, WriteListed DEF st
  <1>11. QED
    BY <1>2, <1>5, <1>10 DEF st

--------------------------------------------------------------------------------
(* The steps.                                                                   *)

\* A step does what was asked for, and one of the things a listing may do.
Done == Answers(call') /\ Buffer!Next

LEMMA NextWrites ==
  ASSUME NEW n \in 0 .. Len(listing.code), NEW text, Buffer!Write(n, text), NEW k \in Nat,
         Len(listing'.code) = k + 1, listing'.code[k + 1] = text
  PROVE  Buffer!Next
  <1>1. listing'.code # <<>>
    <2>1. k + 1 # 0
      OBVIOUS
    <2>2. QED
      BY <2>1
  <1>2. listing'.code[Len(listing'.code)] = text
    OBVIOUS
  <1>3. QED
    BY <1>1, <1>2 DEF Buffer!Next

\* A step that writes what it says.
LEMMA EmitDone ==
  ASSUME IInv, NEW n \in 0 .. 2, Free(n), NEW insn, Continues(Back(n), b', insn),
         listing' = ListingOf(b'), NEW su, su = Instead(listing.starts, n),
         NEW text, text = ListedAs(insn, IntOperand(b', insn), Target(b', su, b'.pc - 2)),
         Buffer!Write(n, text) => Answers(call')
  PROVE  Done
  <1> DEFINE k == Len(listing.starts) - n
  <1> HIDE DEF k
  <1>1. k = Len(listing.starts) - n
    BY DEF k
  <1>2. /\ Buffer!Write(n, text) /\ n \in 0 .. Len(listing.code)
        /\ Len(listing'.code) = k + 1 /\ listing'.code[k + 1] = text
        /\ Spared(b, listing.starts, labels, k)
    BY <1>1, EmitListed
  <1>3. k \in Nat
    <2>1. Laid(b, listing.starts)
      BY DEF IInv, Good
    <2>2. QED
      BY <1>2, <2>1, LaidTypes DEF Spared
  <1>4. Buffer!Next
    BY <1>2, <1>3, NextWrites
  <1>5. QED
    BY <1>2, <1>4 DEF Done

LEMMA DoneWrite ==
  ASSUME IInv, NEW n \in client.back, NEW insn \in client.insns, Write(n, insn),
         listing' = ListingOf(b')
  PROVE  Done
  <1> DEFINE st == listing.starts
             su == Instead(st, n)
             text == ListedAs(insn, IntOperand(b', insn), Target(b', su, b'.pc - 2))
  <1>1. Good(b, st, labels, held) /\ LastKnown(b, st) /\ client \in Clients
    BY DEF IInv
  <1>2. n \in 0 .. 2 /\ Writable(insn) /\ insn.op \notin IntLoads /\ insn.op \notin JumpOps
    BY <1>1, ClientsAssumption, AsksForWritable
  <1>3. Free(n) /\ b' = Encode(Back(n), insn) /\ call' = <<"write", n, insn>>
    BY DEF Write, Asks
  <1>4. Continues(Back(n), b', insn)
    <2> HIDE DEF st
    <2>1. QED
      BY <1>1, <1>2, <1>3, WriteGood
  <1>5. text = insn /\ Placed(insn) = insn
    BY <1>2 DEF ListedAs, Placed
  <1>6. Buffer!Write(n, text) => Answers(call')
    <2> HIDE DEF text
    <2>1. QED
      BY <1>3, <1>5, WriteAnswer
  <1> HIDE DEF text, su
  <1>7. QED
    BY <1>2, <1>3, <1>4, <1>6, EmitDone DEF text, su

LEMMA DoneInt ==
  ASSUME IInv, NEW dst \in client.dsts, NEW v \in client.ints, LoadInt(dst, v),
         listing' = ListingOf(b')
  PROVE  Done
  <1> DEFINE st == listing.starts
             su == Instead(st, 0)
  <1>1. Good(b, st, labels, held) /\ LastKnown(b, st) /\ client \in Clients
    BY DEF IInv
  <1>2. dst \in 0 .. Word - 1 /\ v \in Int /\ 0 \in 0 .. 2
    BY <1>1, ClientsAssumption
  <1>3. (Long(v) => ~PoolFull(b, v)) /\ b' = GenInt(b, dst, v) /\ call' = <<"int", dst, v>>
    BY DEF LoadInt, Asks
  <1>4. Free(0) /\ b' = GenInt(Back(0), dst, v)
    BY <1>3 DEF Free, Back
  <1>5. PICK insn : /\ Continues(Back(0), b', insn) /\ insn.op \in IntLoads /\ insn.a = dst
                    /\ IntOperand(b', insn) = v
    <2> HIDE DEF st
    <2>1. QED
      BY <1>1, <1>2, <1>3, <1>4, IntGood
  <1> DEFINE text == ListedAs(insn, IntOperand(b', insn), Target(b', su, b'.pc - 2))
  <1>6. text = Loaded(dst, v)
    BY <1>5 DEF ListedAs, Loaded
  <1>7. Buffer!Write(0, text) => Answers(call')
    <2> HIDE DEF text
    <2>1. QED
      BY <1>3, <1>6, IntAnswer
  <1> HIDE DEF text, su
  <1>8. QED
    BY <1>2, <1>4, <1>5, <1>7, EmitDone DEF text, su

LEMMA DoneUniop ==
  ASSUME IInv, NEW dst \in client.dsts, NEW minus \in BOOLEAN, Uniop(minus, dst),
         listing' = ListingOf(b')
  PROVE  Done
  <1> DEFINE st == listing.starts
             su == Instead(st, 1)
             v == UniopValue(b, minus)
             w == IntOperand(b, LastInsn(b))
  <1>1. Good(b, st, labels, held) /\ LastKnown(b, st) /\ client \in Clients /\ listing = ListingOf(b)
    BY DEF IInv
  <1>2. dst \in 0 .. Word - 1 /\ 1 \in 0 .. 2
    BY <1>1, ClientsAssumption
  <1>3. /\ UniopFolds(b, minus) /\ (Long(v) => ~PoolFull(b, v))
        /\ b' = GenUniop(b, minus, dst) /\ call' = <<"uniop", minus, dst>>
    BY DEF Uniop, Asks
  <1>4. /\ Free(1) /\ w \in Int /\ LastInsn(b) = DecodeAt(b.iseq, st[Len(st)]).insn
        /\ LastInsn(b).op \in IntLoads
    BY <1>1, <1>3, LastLoad DEF UniopFolds, IsIntOperand
  <1>5. v = IF minus THEN -w ELSE w
    <2>1. minus => w # MinLong
      BY <1>3 DEF UniopFolds
    <2>2. QED
      BY <2>1 DEF UniopValue, Negated
  <1>6. v \in Int
    BY <1>4 DEF UniopValue, Negated
  <1>7. b' = GenInt(Back(1), dst, v)
    BY <1>3 DEF GenUniop, Back
  <1>8. PICK insn : /\ Continues(Back(1), b', insn) /\ insn.op \in IntLoads /\ insn.a = dst
                    /\ IntOperand(b', insn) = v
    <2> HIDE DEF st, v
    <2>1. QED
      BY <1>1, <1>2, <1>3, <1>4, <1>6, <1>7, IntGood
  <1>9. LastLoaded = w
    <2> DEFINE m == Len(st)
               S == Texts(b, st)
    <2>1. Laid(b, st) /\ m \in 1 .. m
      <3>1. ~NoPeephole(b) /\ ~IsJump(LastInsn(b))
        BY <1>4 DEF Free
      <3>2. QED
        BY <1>1, <3>1, LastOne DEF Good
    <2>2. Len(listing.code) = m /\ \A i \in 1 .. m : listing.code[i] = Listed(b, st, i)
      <3>1. Texts(b, st) \subseteq S
        OBVIOUS
      <3> HIDE DEF S
      <3>2. QED
        BY <1>1, <2>1, <3>1, ListingIs
    <2> DEFINE last == LastInsn(b)
    <2>3. Listed(b, st, m) = ListedAs(last, IntOperand(b, last), Target(b, st, SlotAt(b, st[m])))
      BY <1>4, <2>1, ListedIs
    <2>4. Listed(b, st, m).b = w
      BY <1>4, <2>3 DEF ListedAs, Instr
    <2>5. QED
      BY <2>1, <2>2, <2>4 DEF LastLoaded
  <1> DEFINE text == ListedAs(insn, IntOperand(b', insn), Target(b', su, b'.pc - 2))
  <1>10. text = Loaded(dst, v)
    <2> HIDE DEF v
    <2>1. QED
      BY <1>8 DEF ListedAs, Loaded
  <1>11. text = Loaded(dst, IF minus THEN -LastLoaded ELSE LastLoaded)
    BY <1>5, <1>9, <1>10
  <1>12. Buffer!Write(1, text) => Answers(call')
    <2> HIDE DEF text
    <2>1. QED
      BY <1>3, <1>11, UniopAnswer
  <1> HIDE DEF text, su, v, w
  <1>13. QED
    BY <1>2, <1>4, <1>8, <1>12, EmitDone DEF text, su

LEMMA DropDone ==
  ASSUME IInv, NEW k, k = Len(listing.starts) - 1, Spared(b, listing.starts, labels, k),
         listing' = ListingOf(b'), NEW su, Keeps(b, listing.starts, b', su, k), Len(su) = k,
         call' = <<"drop">>
  PROVE  Done
  <1>1. Buffer!Drop
    BY DropListed
  <1>2. Answers(call')
    BY <1>1, DropAnswer
  <1>3. QED
    BY <1>1, <1>2 DEF Done, Buffer!Next

\* What is kept does not depend on lastpc.
LEMMA KeepsFields ==
  ASSUME NEW t, NEW st, NEW u, NEW su, NEW k, Keeps(t, st, u, su, k), NEW v, Laid(v, su),
         v.iseq = u.iseq, v.pc = u.pc, v.pool = u.pool, v.lastlabel = u.lastlabel
  PROVE  Keeps(t, st, v, su, k)
  <1>1. Kin(t, st, v, su, k)
    BY DEF Keeps, Kin
  <1>2. Same(t.iseq, v.iseq, 0, At(st, t.pc, k + 1)) /\ PoolKept(t, v) /\ v.lastlabel = t.lastlabel
    BY DEF Keeps, PoolKept
  <1>3. QED
    BY <1>1, <1>2 DEF Keeps

LEMMA DoneDrop ==
  ASSUME IInv, Drop, listing' = ListingOf(b')
  PROVE  Done
  <1> DEFINE st == listing.starts
             k == Len(st) - 1
             t == Back(1)
             left == After(st, 1)
  <1>1. Good(b, st, labels, held) /\ LastKnown(b, st)
    BY DEF IInv
  <1>2. Free(1) /\ b' = Dropped /\ call' = <<"drop">> /\ 1 \in 0 .. 2
    BY DEF Drop, Asks
  <1>3. k = Len(st) - 1
    OBVIOUS
  <1> HIDE DEF st, k
  <1>4. Keeps(b, st, t, left, k) /\ Spared(b, st, labels, k) /\ Len(left) = k
    BY <1>1, <1>2, <1>3, BackKeeps
  <1>5. /\ Good(b', left, labels, held) /\ b'.iseq = t.iseq /\ b'.pc = t.pc
        /\ b'.pool = t.pool /\ b'.lastlabel = t.lastlabel
    BY <1>1, <1>2, DropGood
  <1> HIDE DEF left, t
  <1>6. Keeps(b, st, b', left, k)
    BY <1>4, <1>5, KeepsFields DEF Good
  <1>7. QED
    BY <1>2, <1>3, <1>4, <1>6, DropDone DEF st

\* A step that sends a jump, whatever instruction it takes back for it.
LEMMA JumpsDone ==
  ASSUME IInv, NEW n \in 0 .. 2, Free(n), NEW op \in JumpOps, NEW a, NEW dest \in Dests, NEW t,
         EmitsJump(Back(n), t, op, a, dest),
         \/ t.lastpc = Back(n).pc
         \/ t.lastpc = Back(n).pc + 1 /\ OpAt(t.iseq, Back(n).pc) = "EXT1" /\ OpAt(t.iseq, t.lastpc) = op,
         NEW insn, insn = Instr(op, IF op \in CondOps THEN a ELSE 0, dest, 0),
         Jumps(n, insn, t), listing' = ListingOf(b')
  PROVE  Done
  <1> DEFINE st == listing.starts
             k == Len(st) - n
             su == Instead(st, n)
             place == Place(st, dest)
  <1>1. Good(b, st, labels, held) /\ LastKnown(b, st)
    BY DEF IInv
  <1>2. b' = t /\ call' = <<"write", n, insn>> /\ ~JumpTooFar(Link(t), dest)
    <2>1. insn.b = dest
      BY DEF Instr
    <2>2. QED
      BY <2>1 DEF Jumps
  <1>3. /\ \E x : /\ Continues(Back(n), t, x) /\ x.op = op
                  /\ op \in CondOps => x.a = a
        /\ SentTo(t.iseq, t.pc - 2) = DestOf(dest)
    <2> HIDE DEF st
    <2>1. QED
      BY <1>1, <1>2, JumpGood
  <1>4. PICK x : /\ Continues(Back(n), b', x) /\ x.op = op
                 /\ op \in CondOps => x.a = a
    BY <1>2, <1>3
  <1>5. SentTo(b'.iseq, b'.pc - 2) = DestOf(dest)
    BY <1>2, <1>3
  <1> DEFINE target == Target(b', su, b'.pc - 2)
             text == ListedAs(x, IntOperand(b', x), target)
  <1>6. target = place
    <2>1. Spared(b, st, labels, k) /\ Keeps(b, st, b', su, k)
      <3>1. k = Len(st) - n /\ su = Instead(st, n) /\ text = text
        OBVIOUS
      <3> HIDE DEF text, su, k
      <3>2. QED
        BY <1>4, <3>1, EmitListed DEF text
    <2> HIDE DEF su, k
    <2>2. QED
      BY <1>5, <2>1, PlaceIs
  <1>7. Placed(insn) = Instr(op, IF op \in CondOps THEN a ELSE 0, place, 0)
    <2>1. insn.op \in JumpOps /\ insn.b = dest
      BY DEF Instr
    <2> HIDE DEF place
    <2>2. QED
      BY <2>1 DEF Placed, Instr, place
  <1>8. text = Placed(insn)
    <2>1. op \notin IntLoads
      BY IntLoadsUsed DEF JumpOps
    <2>2. Shape[op] = "S" <=> op \notin CondOps
      BY JumpShapes
    <2> HIDE DEF target, place
    <2>3. text = Instr(op, IF op \in CondOps THEN a ELSE 0, target, 0)
      BY <1>4, <2>1, <2>2 DEF ListedAs
    <2>4. QED
      BY <1>6, <1>7, <2>3
  <1>9. Buffer!Write(n, text) => Answers(call')
    <2> HIDE DEF text
    <2>1. QED
      BY <1>2, <1>8, WriteAnswer
  <1> HIDE DEF text, su
  <1>10. QED
    BY <1>4, <1>9, EmitDone DEF text, su, target

LEMMA DoneJump ==
  ASSUME IInv, NEW op \in {"JMP", "JMPUW"}, NEW dest \in Dests, Jump(op, dest),
         listing' = ListingOf(b')
  PROVE  Done
  <1> DEFINE t == Genjmp(b, op, dest)
             insn == Instr(op, 0, dest, 0)
  <1>1. Good(b, listing.starts, labels, held)
    BY DEF IInv
  <1>2. Jumps(0, insn, t)
    BY DEF Jump
  <1>3. insn = Instr(op, IF op \in CondOps THEN 0 ELSE 0, dest, 0)
    OBVIOUS
  <1> HIDE DEF insn
  <1>4. dest \in Nat \cup {JMPLINK_START} /\ Whole(b)
    BY <1>1, DestTypes DEF Good, Laid
  <1>5. EmitsJump(b, t, op, 0, dest) /\ t.lastpc = b.pc
    BY <1>4, EmitsJmp
  <1> HIDE DEF t
  <1>6. Back(0) = b /\ Free(0) /\ op \in JumpOps /\ 0 \in 0 .. 2
    BY JumpShapes DEF Back, Free
  <1>7. QED
    BY <1>2, <1>3, <1>5, <1>6, JumpsDone

LEMMA DoneCond ==
  ASSUME IInv, NEW op \in CondOps, NEW a \in client.conds, NEW dest \in Dests,
         NEW val \in client.vals, CondJump(op, a, dest, val), listing' = ListingOf(b')
  PROVE  Done
  <1> DEFINE st == listing.starts
  <1>1. Good(b, st, labels, held) /\ LastKnown(b, st) /\ client \in Clients
    BY DEF IInv
  <1>2. a \in 0 .. Word - 1
    BY <1>1, ClientsAssumption
  <1>3. dest \in Nat \cup {JMPLINK_START} /\ Whole(b) /\ op \in JumpOps
    BY <1>1, DestTypes DEF Good, Laid, CondOps
  <1>4. \A i \in {0, 1} : i \in 0 .. 2
    OBVIOUS
  <1>5. CASE /\ Peeps(val) /\ CondMoves(b, a, client.nlocals)
             /\ Jumps(1, Instr(op, LastInsn(b).b, dest, 0),
                      PlainCond(Rewind(b, b.lastpc), op, LastInsn(b).b, dest))
    <2> DEFINE x == LastInsn(b).b
               t == PlainCond(Back(1), op, x, dest)
               insn == Instr(op, x, dest, 0)
    <2>1. LastInsn(b).op = "MOVE" /\ LastInsn(b).op \notin JumpOps
      BY <1>5 DEF CondMoves, JumpOps
    <2>2. Free(1) /\ Whole(Back(1)) /\ Back(1) = Rewind(b, b.lastpc) /\ x \in 0 .. Word - 1
      BY <1>1, <1>5, <2>1, PeepedGood
    <2>3. Jumps(1, insn, t) /\ insn = Instr(op, IF op \in CondOps THEN x ELSE 0, dest, 0)
      BY <1>5, <2>2
    <2> HIDE DEF x, insn, st
    <2>4. /\ EmitsJump(Back(1), t, op, x, dest)
          /\ \/ t.lastpc = Back(1).pc
             \/ /\ t.lastpc = Back(1).pc + 1
                /\ OpAt(t.iseq, Back(1).pc) = "EXT1" /\ OpAt(t.iseq, t.lastpc) = op
      BY <1>3, <2>2, EmitsCond
    <2> HIDE DEF t
    <2>5. QED
      BY <1>3, <1>4, <2>2, <2>3, <2>4, JumpsDone
  <1>6. CASE /\ Peeps(val) /\ CondDecided(b, a, client.nlocals)
             /\ \/ Jumps(1, Instr("JMP", 0, dest, 0), Genjmp(Rewind(b, b.lastpc), "JMP", dest))
                \/ Asks(<<"drop">>, Rewind(b, b.lastpc))
    <2>1. LastInsn(b).op \notin JumpOps
      <3>1. \A o \in {"LOADNIL", "LOADFALSE", "LOADTRUE"} \cup ShortIntLoads : o \notin JumpOps
        BY IntLoadsUsed DEF ShortIntLoads, IntLoads, JumpOps
      <3>2. QED
        BY <1>6, <3>1 DEF CondDecided
    <2>2. Free(1) /\ Whole(Back(1)) /\ Back(1) = Rewind(b, b.lastpc)
      BY <1>1, <1>6, <2>1, PeepedGood
    <2>3. CASE Jumps(1, Instr("JMP", 0, dest, 0), Genjmp(Rewind(b, b.lastpc), "JMP", dest))
      <3> DEFINE t == Genjmp(Back(1), "JMP", dest)
                 insn == Instr("JMP", 0, dest, 0)
                 o == "JMP"
      <3>1. Jumps(1, insn, t) /\ insn = Instr(o, IF o \in CondOps THEN 0 ELSE 0, dest, 0)
        BY <2>2, <2>3
      <3> HIDE DEF insn
      <3>2. EmitsJump(Back(1), t, "JMP", 0, dest) /\ t.lastpc = Back(1).pc
        BY <1>3, <2>2, EmitsJmp
      <3>3. "JMP" \in JumpOps
        BY JumpShapes
      <3>4. EmitsJump(Back(1), t, o, 0, dest) /\ t.lastpc = Back(1).pc /\ o \in JumpOps
        BY <3>2, <3>3
      <3> HIDE DEF t, o, st
      <3>5. QED
        BY <1>4, <2>2, <3>1, <3>4, JumpsDone
    <2>4. CASE Asks(<<"drop">>, Rewind(b, b.lastpc))
      <3> DEFINE k == Len(st) - 1
      <3>1. b' = Back(1) /\ call' = <<"drop">> /\ k = Len(st) - 1
        BY <2>2, <2>4 DEF Asks
      <3> HIDE DEF k, st
      <3>2. /\ Keeps(b, st, Back(1), After(st, 1), k) /\ Spared(b, st, labels, k)
            /\ Len(After(st, 1)) = k
        BY <1>1, <1>4, <2>2, <3>1, BackKeeps
      <3>3. Keeps(b, st, b', After(st, 1), k)
        BY <3>1, <3>2
      <3> DEFINE left == After(st, 1)
      <3> HIDE DEF left
      <3>4. Keeps(b, listing.starts, b', left, k) /\ Spared(b, listing.starts, labels, k)
            /\ Len(left) = k /\ k = Len(listing.starts) - 1
        BY <3>1, <3>2, <3>3 DEF left, st
      <3>5. QED
        BY <3>1, <3>4, DropDone
    <2>5. QED
      BY <1>6, <2>3, <2>4
  <1>7. CASE Jumps(0, Instr(op, a, dest, 0), PlainCond(b, op, a, dest))
    <2> DEFINE t == PlainCond(b, op, a, dest)
               insn == Instr(op, a, dest, 0)
    <2>1. Jumps(0, insn, t) /\ insn = Instr(op, IF op \in CondOps THEN a ELSE 0, dest, 0)
      BY <1>7
    <2> HIDE DEF insn, st
    <2>2. /\ EmitsJump(b, t, op, a, dest)
          /\ \/ t.lastpc = b.pc
             \/ /\ t.lastpc = b.pc + 1
                /\ OpAt(t.iseq, b.pc) = "EXT1" /\ OpAt(t.iseq, t.lastpc) = op
      BY <1>2, <1>3, EmitsCond
    <2> HIDE DEF t
    <2>3. Back(0) = b /\ Free(0)
      BY DEF Back, Free
    <2>4. QED
      BY <1>3, <1>4, <2>1, <2>2, <2>3, JumpsDone
  <1>8. QED
    BY <1>5, <1>6, <1>7 DEF CondJump

LEMMA DoneLabel ==
  ASSUME IInv, Label, listing' = ListingOf(b')
  PROVE  Done
  <1> DEFINE st == listing.starts
             n == Len(st)
             S == Texts(b, st) \cup Texts(b', st)
             s == listing.code
             r == listing'.code
  <1>1. Good(b, st, labels, held) /\ LastKnown(b, st) /\ Laid(b, st) /\ listing = ListingOf(b)
    BY DEF IInv, Good
  <1>2. b' = [b EXCEPT !.lastlabel = b.pc] /\ labels' = labels \cup {b.pc} /\ call' = <<"label">>
    BY DEF Label
  <1> DEFINE marks == labels \cup {b.pc}
  <1>3. Laid(b', st)
    <2>1. marks = labels \cup {b.pc}
      OBVIOUS
    <2> HIDE DEF st, marks
    <2>2. Good(b', st, marks, held)
      BY <1>1, <1>2, <2>1, GoodLabel
    <2>3. QED
      BY <2>2 DEF Good
  <1>4. b'.iseq = b.iseq /\ b'.pc = b.pc /\ b'.pool = b.pool /\ b'.lastlabel = b.pc
    <2>1. b \in Buffers
      BY <1>1, LaidTypes
    <2>2. b' = BufferOf(b.iseq, b.pc, b.lastpc, b.pc, b.pool)
      BY <1>2, <2>1, WithLastlabel
    <2>3. QED
      BY <2>2 DEF BufferOf
  <1>5. \A i \in 1 .. n : Listed(b', st, i) = Listed(b, st, i)
    BY <1>4 DEF Listed, Target, IntOperand
  <1>6. n \in Nat /\ n + 1 \in 1 .. n + 1 /\ At(st, b.pc, n + 1) = b.pc
    BY <1>1, LaidTypes
  <1>7. Index(st, b.pc) = n
    <2> DEFINE i == n + 1
    <2>1. i \in 1 .. Len(st) + 1 /\ At(st, b.pc, i) = b.pc /\ i - 1 = n
      BY <1>6
    <2> HIDE DEF i, n, st
    <2>2. Index(st, At(st, b.pc, i)) = i - 1
      BY <1>1, <2>1, IndexOfBound
    <2>3. QED
      BY <2>1, <2>2
  <1>8. Len(s) = n /\ s \in Seq(S) /\ \A i \in 1 .. n : s[i] = Listed(b, st, i)
    <2>1. Texts(b, st) \subseteq S
      OBVIOUS
    <2> HIDE DEF S
    <2>2. QED
      BY <1>1, <2>1, ListingIs
  <1>9. /\ listing'.lastlabel = Index(st, b'.lastlabel) /\ Len(r) = n /\ r \in Seq(S)
        /\ \A i \in 1 .. n : r[i] = Listed(b', st, i)
    <2>1. Texts(b', st) \subseteq S
      OBVIOUS
    <2> HIDE DEF S
    <2>2. QED
      BY <1>3, <2>1, ListingIs
  <1> HIDE DEF S
  <1>10. \A i \in 1 .. Len(s) : r[i] = s[i]
    BY <1>5, <1>8, <1>9
  <1>11. listing'.lastlabel = Len(s)
    BY <1>4, <1>7, <1>8, <1>9
  <1> HIDE DEF s, r
  <1>12. r = s
    BY <1>8, <1>9, <1>10, SameSequence
  <1>13. Buffer!Label
    BY <1>11, <1>12 DEF Buffer!Label, s, r
  <1>14. QED
    BY <1>2, <1>13, LabelAnswer DEF Done, Buffer!Next

\* What dispatching a link leaves of the listing: the jump in front of the link leads to
\* the end of the code, and nothing else changes.
Lands(t, st, j, link, u) ==
  /\ j \in JumpsOf(t, st) /\ link = SlotAt(t, st[j])
  /\ ~DispatchTooFar(t, link) /\ Patched(t, u, link, t.pc - (link + 2))

LEMMA LandLeaves ==
  ASSUME NEW t, NEW st, NEW marks, NEW links, Good(t, st, marks, links), NEW j, NEW link, NEW u,
         Lands(t, st, j, link, u), NEW i \in 1 .. Len(st)
  PROVE  Listed(u, st, i) = IF i = j THEN [Listed(t, st, j) EXCEPT !.b = Len(st)] ELSE Listed(t, st, i)
  <1>0. /\ j \in JumpsOf(t, st) /\ link = SlotAt(t, st[j])
        /\ ~DispatchTooFar(t, link) /\ Patched(t, u, link, t.pc - (link + 2))
    BY DEF Lands
  <1> USE <1>0
  <1> DEFINE n == Len(st)
             w == t.pc - (link + 2)
  <1>1. Laid(t, st) /\ n \in Nat /\ t.pc \in Nat /\ At(st, t.pc, n + 1) = t.pc
    BY LaidTypes DEF Good
  <1>2. link \in Nat /\ j \in 1 .. n /\ DecodeAt(t.iseq, st[j]).insn.op \in JumpOps
    BY <1>1, SlotInside
  <1>3. Patches(t, st, u, j, w)
    <2>1. w \in Int
      BY <1>1, <1>2
    <2>2. QED
      BY <2>1 DEF Patches
  <1>4. u.pc = t.pc /\ u.pool = t.pool
    BY DEF Patched
  <1>5. SentTo(u.iseq, link) = t.pc
    BY <1>1, Landing
  <1> HIDE DEF w
  <1>6. Laid(u, st) /\ JumpsOf(u, st) = JumpsOf(t, st)
    BY <1>1, <1>3, LaidPatch
  <1>7. \A m \in 1 .. n : SlotAt(u, st[m]) = SlotAt(t, st[m])
    <2>1. TAKE m \in 1 .. n
    <2>2. CASE m = j
      <3>1. SlotAt(u, st[j]) = SlotAt(t, st[j])
        BY <1>1, <1>3, PatchedJump
      <3>2. QED
        BY <2>2, <3>1
    <2>3. CASE m # j
      BY <1>1, <1>3, <2>3, PatchKeeps
    <2>4. QED
      BY <2>2, <2>3
  <1>8. CASE i # j
    <2> DEFINE insn == DecodeAt(t.iseq, st[i]).insn
               slot == SlotAt(t, st[i])
    <2>1. /\ DecodeAt(u.iseq, st[i]) = DecodeAt(t.iseq, st[i]) /\ SlotAt(u, st[i]) = slot
          /\ insn.op \in JumpOps => SentTo(u.iseq, slot) = SentTo(t.iseq, slot)
      BY <1>1, <1>3, <1>8, PatchKeeps
    <2>2. insn.op \in JumpOps => Target(u, st, slot) = Target(t, st, slot)
      <3> SUFFICES ASSUME insn.op \in JumpOps PROVE Target(u, st, slot) = Target(t, st, slot)
        OBVIOUS
      <3>1. i \in JumpsOf(t, st)
        BY DEF JumpsOf
      <3> DEFINE pos == SentTo(t.iseq, slot)
                 k == n
      <3>2. pos = 0 \/ pos \in marks \/ \E m \in JumpsOf(t, st) : pos = SlotAt(t, st[m])
        BY <3>1, SentWhere
      <3>3. Kin(t, st, u, st, k)
        BY <1>1, <1>4 DEF Kin
      <3>4. \A m \in JumpsOf(t, st) :
               m <= k /\ m \in JumpsOf(u, st) /\ SlotAt(u, st[m]) = SlotAt(t, st[m])
        <4>1. TAKE m \in JumpsOf(t, st)
        <4>2. m \in 1 .. n
          BY DEF JumpsOf
        <4>3. QED
          BY <1>1, <1>6, <1>7, <4>2
      <3>5. pos \in marks => pos <= At(st, t.pc, k + 1)
        <4>1. marks \subseteq Bounds(st, t.pc)
          BY DEF Good, Marked
        <4>2. \A p \in Bounds(st, t.pc) : p <= t.pc
          BY <1>1, BoundsOf
        <4>3. QED
          BY <1>1, <4>1, <4>2
      <3> HIDE DEF pos, k
      <3>6. Reached(t, st, u, st, k, pos)
        BY <1>6, <3>2, <3>3, <3>4, <3>5, SentReached
      <3>7. SentTo(u.iseq, slot) = SentTo(t.iseq, slot)
        BY <2>1
      <3> HIDE DEF slot
      <3>8. Reached(t, st, u, st, k, SentTo(t.iseq, slot))
        BY <3>6 DEF pos
      <3>9. QED
        BY <1>1, <1>6, <3>3, <3>7, <3>8, TargetSame
    <2>3. IntOperand(u, insn) = IntOperand(t, insn)
      BY <1>4 DEF IntOperand
    <2>4. Listed(t, st, i) = ListedAs(insn, IntOperand(t, insn), Target(t, st, slot))
      BY <1>1, ListedIs
    <2>5. Listed(u, st, i) = ListedAs(insn, IntOperand(u, insn), Target(u, st, slot))
      BY <1>6, <2>1, ListedIs
    <2> HIDE DEF insn, slot
    <2>6. Listed(u, st, i) = Listed(t, st, i)
      BY <2>2, <2>3, <2>4, <2>5 DEF ListedAs
    <2>7. QED
      BY <1>8, <2>6
  <1>9. CASE i = j
    <2> DEFINE x == DecodeAt(t.iseq, st[j]).insn
               y == DecodeAt(u.iseq, st[j]).insn
    <2>1. y.op = x.op /\ (x.op \in CondOps => y.a = x.a) /\ x.op \in JumpOps
      BY <1>1, <1>2, <1>3, PatchedJump
    <2>2. SlotAt(u, st[j]) = link
      BY <1>2, <1>7
    <2>3. Target(u, st, link) = n
      <3> DEFINE m == n + 1
      <3>1. m \in 1 .. Len(st) + 1 /\ SentTo(u.iseq, link) = At(st, u.pc, m) /\ m - 1 = n
        BY <1>1, <1>4, <1>5
      <3> HIDE DEF m, n
      <3>2. QED
        BY <1>6, <3>1, TargetOfBound
    <2>4. Listed(t, st, j) = ListedAs(x, IntOperand(t, x), Target(t, st, link))
      BY <1>1, <1>2, ListedIs
    <2>5. Listed(u, st, j) = ListedAs(y, IntOperand(u, y), Target(u, st, link))
      BY <1>2, <1>6, <2>2, ListedIs
    <2>6. x.op \notin IntLoads /\ (Shape[x.op] = "S" <=> x.op \notin CondOps)
      <3>1. x.op \notin IntLoads
        BY <2>1, IntLoadsUsed DEF JumpOps
      <3>2. QED
        BY <2>1, <3>1, JumpShapes
    <2> HIDE DEF x, y
    <2>7. Listed(t, st, j) = Instr(x.op, IF x.op \in CondOps THEN x.a ELSE 0, Target(t, st, link), 0)
      BY <2>1, <2>4, <2>6 DEF ListedAs
    <2>8. Listed(u, st, j) = Instr(x.op, IF x.op \in CondOps THEN x.a ELSE 0, n, 0)
      BY <2>1, <2>3, <2>5, <2>6 DEF ListedAs
    <2>9. Listed(u, st, j) = [Listed(t, st, j) EXCEPT !.b = n]
      BY <2>7, <2>8 DEF Instr
    <2>10. QED
      BY <1>9, <2>9
  <1>10. QED
    BY <1>8, <1>9

LEMMA ChangedAt ==
  ASSUME NEW S, NEW s \in Seq(S), NEW j \in 1 .. Len(s), NEW y \in S
  PROVE  /\ [s EXCEPT ![j] = y] \in Seq(S) /\ Len([s EXCEPT ![j] = y]) = Len(s)
         /\ \A i \in 1 .. Len(s) : [s EXCEPT ![j] = y][i] = IF i = j THEN y ELSE s[i]
  OBVIOUS

LEMMA DoneLand ==
  ASSUME IInv, NEW link \in held, Land(link), listing' = ListingOf(b')
  PROVE  Done
  <1> DEFINE st == listing.starts
             n == Len(st)
             S == Texts(b, st) \cup Texts(b', st)
             s == listing.code
             r == listing'.code
             J == JumpsOf(b, st)
  <1>1. Good(b, st, labels, held) /\ LastKnown(b, st) /\ Laid(b, st) /\ listing = ListingOf(b)
    BY DEF IInv, Good
  <1>2. ~DispatchTooFar(b, link) /\ b' = Dispatch(b, link) /\ call' = <<"land", link>>
    BY DEF Land
  <1>3. Laid(b', st) /\ Patched(b, b', link, b.pc - (link + 2)) /\ b'.lastlabel = b.pc
    <2> HIDE DEF st
    <2>1. QED
      BY <1>1, <1>2, LandGood DEF Good
  <1>4. PICK j \in J : /\ link = SlotAt(b, st[j])
                       /\ \/ SentTo(b.iseq, link) = 0
                          \/ \E m \in J : SentTo(b.iseq, link) = SlotAt(b, st[m])
    <2>1. PICK j \in J : link = SlotsOf(b, st)[j] /\ SentFrom(b, st)[j] \in Ends(J, SlotsOf(b, st))
      BY <1>1 DEF Good, Linked
    <2>2. \A m \in J : SlotsOf(b, st)[m] = SlotAt(b, st[m])
      BY <1>1, SlotInside
    <2>3. SentFrom(b, st)[j] = SentTo(b.iseq, SlotAt(b, st[j]))
      BY <1>1, SlotInside
    <2>4. QED
      BY <2>1, <2>2, <2>3 DEF Ends
  <1>5. /\ n \in Nat /\ n + 1 \in 1 .. n + 1 /\ At(st, b.pc, n + 1) = b.pc /\ j \in 1 .. n
        /\ J \subseteq 1 .. n
    BY <1>1, LaidTypes DEF JumpsOf
  <1>6. Index(st, link) = j
    BY <1>1, <1>4, IndexOfSlot
  <1>7. Index(st, b.pc) = n
    <2> DEFINE i == n + 1
    <2>1. i \in 1 .. Len(st) + 1 /\ At(st, b.pc, i) = b.pc /\ i - 1 = n
      BY <1>5
    <2> HIDE DEF i, n, st
    <2>2. Index(st, At(st, b.pc, i)) = i - 1
      BY <1>1, <2>1, IndexOfBound
    <2>3. QED
      BY <2>1, <2>2
  <1>8. Target(b, st, link) <= 0
    <2>1. CASE SentTo(b.iseq, link) = 0
      <3>1. 1 \in 1 .. Len(st) + 1 /\ At(st, b.pc, 1) = 0
        BY <1>1, <1>5 DEF Laid
      <3>2. Target(b, st, link) = 1 - 1
        <4>1. SentTo(b.iseq, link) = At(st, b.pc, 1)
          BY <2>1, <3>1
        <4> HIDE DEF st
        <4>2. QED
          BY <1>1, <3>1, <4>1, TargetOfBound
      <3>3. QED
        BY <3>2
    <2>2. CASE \E m \in J : SentTo(b.iseq, link) = SlotAt(b, st[m])
      <3>1. PICK m \in J : SentTo(b.iseq, link) = SlotAt(b, st[m])
        BY <2>2
      <3>2. Target(b, st, link) = -m
        BY <1>1, <3>1, TargetOfSlot
      <3>3. m \in 1 .. n
        BY <1>5
      <3>4. QED
        BY <1>5, <3>2, <3>3
    <2>3. QED
      BY <1>4, <2>1, <2>2
  <1>9. Len(s) = n /\ s \in Seq(S) /\ \A i \in 1 .. n : s[i] = Listed(b, st, i)
    <2>1. Texts(b, st) \subseteq S
      OBVIOUS
    <2> HIDE DEF S
    <2>2. QED
      BY <1>1, <2>1, ListingIs
  <1>10. /\ listing'.lastlabel = Index(st, b'.lastlabel) /\ Len(r) = n /\ r \in Seq(S)
         /\ \A i \in 1 .. n : r[i] = Listed(b', st, i)
    <2>1. Texts(b', st) \subseteq S
      OBVIOUS
    <2> HIDE DEF S
    <2>2. QED
      BY <1>3, <2>1, ListingIs
  <1>11. s[j].op \in JumpOps /\ s[j].b <= 0
    <2> DEFINE x == DecodeAt(b.iseq, st[j]).insn
    <2>1. x.op \in JumpOps /\ x.op \notin IntLoads
      <3>1. x.op \in JumpOps
        BY <1>4 DEF JumpsOf
      <3>2. QED
        BY <3>1, IntLoadsUsed DEF JumpOps
    <2>2. s[j] = ListedAs(x, IntOperand(b, x), Target(b, st, link))
      BY <1>1, <1>4, <1>5, <1>9, ListedIs
    <2> HIDE DEF x, S, s
    <2>3. s[j].op = x.op /\ s[j].b = Target(b, st, link)
      BY <2>1, <2>2 DEF ListedAs, Instr
    <2>4. QED
      BY <1>8, <2>1, <2>3
  <1> DEFINE y == [s[j] EXCEPT !.b = n]
  <1>12. \A i \in 1 .. n : r[i] = IF i = j THEN y ELSE s[i]
    <2>1. TAKE i \in 1 .. n
    <2>2. Listed(b', st, i) = IF i = j THEN [Listed(b, st, j) EXCEPT !.b = Len(st)] ELSE Listed(b, st, i)
      <3>1. Lands(b, st, j, link, b') /\ i \in 1 .. Len(st)
        BY <1>2, <1>3, <1>4 DEF Lands
      <3> HIDE DEF st, J, n, S, s, r
      <3>2. QED
        BY <1>1, <3>1, LandLeaves
    <2>3. r[i] = Listed(b', st, i) /\ s[i] = Listed(b, st, i) /\ s[j] = Listed(b, st, j)
      BY <1>5, <1>9, <1>10
    <2> HIDE DEF s, r
    <2>4. QED
      BY <2>2, <2>3
  <1>13. listing'.lastlabel = n
    BY <1>3, <1>7, <1>10
  <1> HIDE DEF S, s, r, st, J
  <1>14. r = [s EXCEPT ![j] = y]
    <2> DEFINE e == [s EXCEPT ![j] = y]
    <2>1. y \in S
      <3>1. r[j] \in S
        BY <1>5, <1>10
      <3>2. QED
        BY <1>5, <1>12, <3>1
    <2>a. j \in 1 .. Len(s)
      BY <1>5, <1>9
    <2> HIDE DEF y, n
    <2>2. e \in Seq(S) /\ Len(e) = Len(s) /\ \A i \in 1 .. Len(s) : e[i] = IF i = j THEN y ELSE s[i]
      BY <1>9, <2>1, <2>a, ChangedAt
    <2> HIDE DEF e
    <2>3. Len(r) = Len(e) /\ \A i \in 1 .. Len(e) : r[i] = e[i]
      BY <1>9, <1>10, <1>12, <2>2
    <2>4. r = e
      BY <1>10, <2>2, <2>3, SameSequence
    <2>5. QED
      BY <2>4 DEF e
  <1>15. r = [s EXCEPT ![j].b = Len(s)]
    <2>1. n = Len(s)
      BY <1>9
    <2>2. QED
      BY <1>14, <2>1
  <1>16. Buffer!Land(j)
    <2>1. listing'.lastlabel = Len(s)
      BY <1>9, <1>13
    <2>2. QED
      BY <1>11, <1>15, <2>1 DEF Buffer!Land, Buffer!Pending, Buffer!IsJump, s, r
  <1>17. j \in DOMAIN s
    <2>1. DOMAIN s = 1 .. n
      BY <1>9
    <2>2. QED
      BY <1>5, <2>1
  <1>18. Answers(call')
    <2>1. Buffer!Land(Index(listing.starts, link))
      BY <1>6, <1>16 DEF st
    <2>2. QED
      BY <1>2, <2>1, LandAnswer
  <1>19. QED
    BY <1>16, <1>17, <1>18 DEF Done, Buffer!Next, s

LEMMA NextDone ==
  ASSUME IInv, Next
  PROVE  Done
  <1>1. client \in Clients /\ Request /\ listing' = ListingOf(b')
    BY DEF IInv, Next
  <1>2. CASE \E n \in client.back, insn \in client.insns : Write(n, insn)
    BY <1>1, <1>2, DoneWrite
  <1>3. CASE Drop
    BY <1>1, <1>3, DoneDrop
  <1>4. CASE \E dst \in client.dsts, v \in client.ints : LoadInt(dst, v)
    BY <1>1, <1>4, DoneInt
  <1>5. CASE \E dst \in client.dsts, minus \in BOOLEAN : Uniop(minus, dst)
    BY <1>1, <1>5, DoneUniop
  <1>6. CASE Label
    BY <1>1, <1>6, DoneLabel
  <1>7. CASE \E op \in client.jumps \cap {"JMP", "JMPUW"}, dest \in Dests : Jump(op, dest)
    BY <1>1, <1>7, DoneJump
  <1>8. CASE \E op \in client.jumps \ {"JMP", "JMPUW"}, a \in client.conds, dest \in Dests,
               val \in client.vals : CondJump(op, a, dest, val)
    <2>1. client.jumps \ {"JMP", "JMPUW"} \subseteq CondOps
      BY <1>1, ClientsAssumption DEF CondOps
    <2>2. QED
      BY <1>1, <1>8, <2>1, DoneCond
  <1>9. CASE \E link \in held : Land(link)
    BY <1>1, <1>9, DoneLand
  <1>10. QED
    BY <1>1, <1>2, <1>3, <1>4, <1>5, <1>6, <1>7, <1>8, <1>9 DEF Request

--------------------------------------------------------------------------------
(* What follows for every behaviour.                                            *)

\* Every step changes the listing as the handler asked: the instruction read back has the
\* operands it was given, the integer loaded is the one meant, a jump goes where it was
\* sent, and patching a link completes that jump and no other (codegen.rs genop_2, gen_int,
\* gen_jmpdst, dispatch; handlers.rs gen_uniop).
THEOREM HandlersAreAnswered == Spec => DoesAsAsked
  <1>1. IInv /\ [Next]_vars => [Answers(call')]_vars
    <2>1. ASSUME IInv, Next PROVE Answers(call')
      BY <2>1, NextDone DEF Done
    <2>2. QED
      BY <2>1
  <1>2. QED
    BY <1>1, ListingFollowsBuffer, PTL DEF Spec, DoesAsAsked

\* The bytes of a scope implement the list of instructions the node handlers count on:
\* whatever is emitted, taken back or patched, what the bytes decode to starts out empty
\* and changes only as Listing lets it (codegen.rs Codegen, genop_0 to dispatch).
THEOREM BytesImplementListing == Spec => ImplementsListing
  <1>1. Init => Buffer!Init
    <2> SUFFICES ASSUME Init PROVE Buffer!Init
      OBVIOUS
    <2> DEFINE st == listing.starts
               S == Texts(b, st)
    <2>1. IInv
      BY InitGood
    <2>2. Laid(b, st) /\ listing = ListingOf(b) /\ b.pc = 0 /\ b.lastlabel = 0
      BY <2>1 DEF IInv, Good, Init, NewBuffer
    <2>3. Len(st) = 0
      <3> DEFINE n == Len(st)
      <3>1. n \in Nat /\ At(st, b.pc, 1) = 0 /\ At(st, b.pc, n + 1) = b.pc
        BY <2>2, LaidTypes DEF Laid
      <3>2. n # 0 => At(st, b.pc, 1) < At(st, b.pc, n + 1)
        <4>1. n # 0 => 1 \in 1 .. n + 1 /\ n + 1 \in 1 .. n + 1 /\ 1 < n + 1
          <5> HIDE DEF n
          <5>1. QED
            BY <3>1
        <4>2. QED
          BY <2>2, <4>1, LaidOrder
      <3> HIDE DEF n
      <3>3. n = 0
        BY <2>2, <3>1, <3>2
      <3>4. QED
        BY <3>3 DEF n
    <2>4. Texts(b, st) \subseteq S
      OBVIOUS
    <2> HIDE DEF S
    <2>5. /\ listing.lastlabel = Index(st, b.lastlabel)
          /\ listing.code \in Seq(S) /\ Len(listing.code) = Len(st)
      BY <2>2, <2>4, ListingIs
    <2>6. Index(st, b.lastlabel) = 0
      <3>1. 1 \in 1 .. Len(st) + 1 /\ At(st, b.pc, 1) = b.lastlabel
        BY <2>2, <2>3 DEF Laid
      <3> HIDE DEF st
      <3>2. Index(st, At(st, b.pc, 1)) = 1 - 1
        BY <2>2, <3>1, IndexOfBound
      <3>3. QED
        BY <3>1, <3>2
    <2>7. listing.code = <<>>
      BY <2>3, <2>5
    <2>8. QED
      BY <2>5, <2>6, <2>7 DEF Buffer!Init
  <1>2. IInv /\ [Next]_vars => [Buffer!Next]_Buffer!list
    <2>1. ASSUME IInv, Next PROVE Buffer!Next
      BY <2>1, NextDone DEF Done
    <2>2. UNCHANGED vars => UNCHANGED Buffer!list
      BY DEF vars, Buffer!list
    <2>3. QED
      BY <2>1, <2>2
  <1>3. QED
    BY <1>1, <1>2, ListingFollowsBuffer, PTL DEF Spec, ImplementsListing, Buffer!Spec
================================================================================
