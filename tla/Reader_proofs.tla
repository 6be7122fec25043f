----------------------------- MODULE Reader_proofs -----------------------------
(* Proofs that the reader of RITE files takes what the writer has written, for  *)
(* trees of ireps of any shape up to Depth and any bytes in them.               *)
(*                                                                              *)
(* A part stands in a file at a position (Stands); a reader of such a part, with *)
(* its cursor there, ends behind the part and holds its value.  First comes what *)
(* a cursor does (AtFields and what follows it), then readers one after the     *)
(* other (InTurnAt), the fields and lists of a record, the record of one irep,  *)
(* the records of a tree (RecordAt) and the names of its locals (AssignedAt).   *)
EXTENDS Rite_proofs
LOCAL INSTANCE SequencesExt

--------------------------------------------------------------------------------
(* Reading what stands in a file.                                               *)

\* A cursor at a position, where all was well so far.
At(b, p, v) == [in |-> b, pos |-> p, val |-> v, ok |-> TRUE]

IsAt(c, b, p, v) ==
  /\ c = [x \in {"in", "pos", "val", "ok"} |-> c[x]]
  /\ c.in = b /\ c.pos = p /\ c.val = v /\ c.ok = TRUE

LEMMA AtIs ==
  ASSUME NEW b, NEW p, NEW v
  PROVE  IsAt(At(b, p, v), b, p, v)
  BY DEF At, IsAt

LEMMA EqualAt ==
  ASSUME NEW b, NEW p, NEW v, NEW c, IsAt(c, b, p, v)
  PROVE  c = At(b, p, v)
  <1> DEFINE d == At(b, p, v)
             F == {"in", "pos", "val", "ok"}
  <1>1. IsAt(d, b, p, v)
    BY AtIs
  <1> HIDE DEF d
  <1>2. \A x \in F : c[x] = d[x]
    BY <1>1 DEF IsAt
  <1>3. c = [x \in F |-> c[x]] /\ d = [x \in F |-> d[x]]
    BY <1>1, Zenon DEF IsAt
  <1>4. c = d
    BY <1>2, <1>3, Zenon
  <1>5. QED
    BY <1>4, Zenon DEF d

LEMMA AtFields ==
  ASSUME NEW b, NEW p, NEW v
  PROVE  /\ At(b, p, v).in = b /\ At(b, p, v).pos = p /\ At(b, p, v).val = v /\ At(b, p, v).ok
         /\ Left(At(b, p, v)) = Len(b) - p
  <1> DEFINE c == At(b, p, v)
  <1>1. IsAt(c, b, p, v)
    BY AtIs
  <1> HIDE DEF c
  <1>2. c.in = b /\ c.pos = p /\ c.val = v /\ c.ok
    BY <1>1 DEF IsAt
  <1>3. Left(c) = Len(b) - p
    BY <1>2, Zenon DEF Left
  <1>4. QED
    BY <1>2, <1>3, Zenon DEF c

LEMMA CursorAt ==
  ASSUME NEW b
  PROVE  Cursor(b) = At(b, 0, <<>>)
  BY Zenon DEF Cursor, At

\* Cursors moved, and with another value.
Moved(c, q)      == [c EXCEPT !.pos = q]
Holding(c, w)    == [c EXCEPT !.val = w]
Onto(c, q, w)    == [c EXCEPT !.pos = q, !.val = w]

LEMMA AtExcept ==
  ASSUME NEW b, NEW p, NEW v, NEW q, NEW w
  PROVE  /\ Moved(At(b, p, v), q) = At(b, q, v) /\ Holding(At(b, p, v), w) = At(b, p, w)
         /\ Onto(At(b, p, v), q, w) = At(b, q, w)
  <1> DEFINE c  == At(b, p, v)
             F  == {"in", "pos", "val", "ok"}
             d1 == [c EXCEPT !.pos = q]
             d2 == [c EXCEPT !.val = w]
             d3 == [c EXCEPT !.pos = q, !.val = w]
  <1>1. IsAt(c, b, p, v)
    BY AtIs
  <1> HIDE DEF c
  <1>2. DOMAIN c = F
    BY <1>1, Zenon DEF IsAt
  <1>3. d1 = [x \in F |-> d1[x]] /\ d2 = [x \in F |-> d2[x]] /\ d3 = [x \in F |-> d3[x]]
    BY <1>2, Zenon
  <1>4. d1.in = b /\ d1.pos = q /\ d1.val = v /\ d1.ok = TRUE
    BY <1>1, <1>2 DEF IsAt
  <1>5. d2.in = b /\ d2.pos = p /\ d2.val = w /\ d2.ok = TRUE
    BY <1>1, <1>2 DEF IsAt
  <1>6. d3.in = b /\ d3.pos = q /\ d3.val = w /\ d3.ok = TRUE
    BY <1>1, <1>2 DEF IsAt
  <1> HIDE DEF d1, d2, d3
  <1>7. IsAt(d1, b, q, v) /\ IsAt(d2, b, p, w) /\ IsAt(d3, b, q, w)
    BY <1>3, <1>4, <1>5, <1>6, Zenon DEF IsAt
  <1>8. d1 = At(b, q, v) /\ d2 = At(b, p, w) /\ d3 = At(b, q, w)
    BY <1>7, EqualAt
  <1>9. QED
    BY <1>8, Zenon DEF d1, d2, d3, c, Moved, Holding, Onto

LEMMA AtMoved ==
  ASSUME NEW b, NEW p, NEW v, NEW q
  PROVE  Moved(At(b, p, v), q) = At(b, q, v)
  <1>1. Moved(At(b, p, v), q) = At(b, q, v) /\ Onto(At(b, p, v), q, v) = At(b, q, v)
    BY AtExcept
  <1>2. QED
    BY <1>1

LEMMA AtHolds ==
  ASSUME NEW b, NEW p, NEW v, NEW w
  PROVE  With(At(b, p, v), w) = At(b, p, w)
  <1>1. At(b, p, v).ok
    BY AtFields
  <1>2. Holding(At(b, p, v), w) = At(b, p, w)
    BY AtExcept
  <1>3. QED
    BY <1>1, <1>2, Zenon DEF With, Holding

LEMMA CheckAt ==
  ASSUME NEW b, NEW p, NEW v, NEW condition, condition
  PROVE  Check(At(b, p, v), condition) = At(b, p, v)
  BY AtFields, Zenon DEF Check

LEMMA StandsJoin ==
  ASSUME NEW b \in Seq(Nat), NEW p \in Nat, NEW x \in Seq(Nat), NEW y \in Seq(Nat), Stands(b, p, x \o y)
  PROVE  Stands(b, p, x) /\ Stands(b, p + Len(x), y)
  <1> DEFINE m == Len(x)
             n == Len(y)
             z == x \o y
  <1>1. /\ m \in Nat /\ n \in Nat /\ Len(z) = m + n /\ Len(b) \in Nat
        /\ (\A k \in 1 .. m : z[k] = x[k]) /\ \A k \in 1 .. n : z[m + k] = y[k]
    OBVIOUS
  <1>2. p + (m + n) <= Len(b) /\ \A k \in 1 .. m + n : b[p + k] = z[k]
    BY <1>1, Zenon DEF Stands
  <1> HIDE DEF m, n, z
  <1>3. p + m <= Len(b) /\ \A k \in 1 .. m : b[p + k] = x[k]
    BY <1>1, <1>2
  <1>4. (p + m) + n <= Len(b) /\ \A k \in 1 .. n : b[(p + m) + k] = y[k]
    <2>1. ASSUME NEW k \in 1 .. n PROVE b[(p + m) + k] = y[k]
      <3>1. m + k \in 1 .. m + n /\ (p + m) + k = p + (m + k)
        BY <1>1
      <3>2. QED
        BY <1>1, <1>2, <3>1, Zenon
    <2>2. QED
      BY <1>1, <1>2, <2>1
  <1>5. QED
    BY <1>3, <1>4, Zenon DEF Stands, m, n

LEMMA StandsInside ==
  ASSUME NEW b \in Seq(Nat), NEW p \in Nat, NEW x \in Seq(Nat), NEW j \in Nat, NEW y \in Seq(Nat),
         Stands(b, p, x), Stands(x, j, y)
  PROVE  Stands(b, p + j, y)
  <1> DEFINE m == Len(x)
             n == Len(y)
             l == Len(b)
  <1>1. m \in Nat /\ n \in Nat /\ l \in Nat
    OBVIOUS
  <1>2. /\ p + m <= l /\ \A k \in 1 .. m : b[p + k] = x[k]
        /\ j + n <= m /\ \A k \in 1 .. n : x[j + k] = y[k]
    BY Zenon DEF Stands
  <1> HIDE DEF m, n, l
  <1>3. ASSUME NEW k \in 1 .. n PROVE b[(p + j) + k] = y[k]
    <2>1. j + k \in 1 .. m /\ (p + j) + k = p + (j + k)
      BY <1>1, <1>2
    <2>2. QED
      BY <1>2, <2>1, Zenon
  <1>4. (p + j) + n <= l
    BY <1>1, <1>2
  <1>5. QED
    BY <1>3, <1>4, Zenon DEF Stands, n, l

LEMMA StandsItself ==
  ASSUME NEW x \in Seq(Nat)
  PROVE  Stands(x, 0, x)
  BY DEF Stands

LEMMA Sliced ==
  ASSUME NEW b \in Seq(Nat), NEW p \in Nat, NEW part \in Seq(Nat), Stands(b, p, part)
  PROVE  SubSeq(b, p + 1, p + Len(part)) = part
  <1> DEFINE n == Len(part)
             s == SubSeq(b, p + 1, p + n)
  <1>1. n \in Nat /\ Len(b) \in Nat
    OBVIOUS
  <1>2. p + n <= Len(b) /\ \A k \in 1 .. n : b[p + k] = part[k]
    BY Zenon DEF Stands
  <1>3. s \in Seq(Nat) /\ Len(s) = n /\ \A k \in 1 .. n : s[k] = b[p + k]
    <2> HIDE DEF n
    <2>1. p + 1 \in Int /\ p + n \in Int /\ \A i \in p + 1 .. p + n : b[i] \in Nat
      BY <1>1, <1>2
    <2> HIDE DEF s
    <2>2. /\ s \in Seq(Nat) /\ Len(s) = (IF p + 1 <= p + n THEN (p + n) - (p + 1) + 1 ELSE 0)
          /\ \A i \in 1 .. (p + n) - (p + 1) + 1 : s[i] = b[p + 1 + i - 1]
      BY <2>1, SubSeqProperties DEF s
    <2>3. (p + n) - (p + 1) + 1 = n /\ (p + 1 <= p + n <=> n >= 1)
      BY <1>1
    <2>4. Len(s) = n
      BY <1>1, <2>2, <2>3
    <2>5. \A k \in 1 .. n : p + 1 + k - 1 = p + k
      BY <1>1
    <2>6. \A k \in 1 .. n : s[k] = b[p + k]
      BY <2>2, <2>3, <2>5, Zenon
    <2>7. QED
      BY <2>2, <2>4, <2>6, Zenon
  <1> HIDE DEF s
  <1>4. \A k \in 1 .. n : s[k] = part[k]
    BY <1>2, <1>3, Zenon
  <1>5. s = part
    BY <1>3, <1>4, SeqEqual, Zenon DEF n
  <1>6. QED
    BY <1>5, Zenon DEF s, n

LEMMA TakeAt ==
  ASSUME NEW b \in Seq(Nat), NEW p \in Nat, NEW v, NEW part \in Seq(Nat), Stands(b, p, part)
  PROVE  /\ Take(At(b, p, v), Len(part)) = At(b, p + Len(part), part)
         /\ Num(At(b, p, v), Len(part)) = At(b, p + Len(part), Number(part))
  <1> DEFINE n == Len(part)
             c == At(b, p, v)
  <1>1. n \in Nat /\ Len(b) \in Nat /\ p + n <= Len(b)
    BY DEF Stands
  <1>2. SubSeq(b, p + 1, p + n) = part
    BY Sliced
  <1> HIDE DEF n
  <1>3. n <= Len(b) - p
    BY <1>1
  <1>4. c.in = b /\ c.pos = p /\ c.ok /\ Left(c) = Len(b) - p
    BY AtFields
  <1>5. Onto(c, p + n, part) = At(b, p + n, part)
    BY AtExcept
  <1> HIDE DEF c
  <1>6. Take(c, n) = Onto(c, p + n, part)
    BY <1>2, <1>3, <1>4, Zenon DEF Take, Onto
  <1>7. Take(c, n) = At(b, p + n, part)
    BY <1>5, <1>6, Zenon
  <1> DEFINE d == At(b, p + n, part)
  <1>8. d.val = part /\ With(d, Number(part)) = At(b, p + n, Number(part))
    BY AtFields, AtHolds
  <1> HIDE DEF d
  <1>9. Num(c, n) = With(d, Number(d.val))
    BY <1>7, Zenon DEF Num, d
  <1>10. QED
    BY <1>7, <1>8, <1>9, Zenon DEF c, n

\* The i-th item reads the i-th value, from one position to the next.
Turns(b, n, P, vals, items) ==
  /\ IsSequence(vals) /\ Len(vals) = n /\ Len(items) = n
  /\ \A i \in 1 .. n : items[i][P[i - 1]] = At(b, P[i], vals[i])

\* So one after the other they read all of them, from here to there.
TurnsFrom(b, p, q, vals, items) ==
  \E n \in Nat : \E P : Turns(b, n, P, vals, items) /\ P[0] = p /\ P[n] = q

LEMMA InTurnAt ==
  ASSUME NEW b, NEW p, NEW q, NEW vals, NEW items, NEW v, TurnsFrom(b, p, q, vals, items)
  PROVE  InTurn(At(b, p, v), items) = At(b, q, vals)
  <1>a. PICK n \in Nat : \E P : Turns(b, n, P, vals, items) /\ P[0] = p /\ P[n] = q
    BY Zenon DEF TurnsFrom
  <1>b. PICK P : Turns(b, n, P, vals, items) /\ P[0] = p /\ P[n] = q
    BY <1>a, Zenon
  <1> DEFINE c     == At(b, P[0], v)
             g     == [i \in 0 .. n |-> At(b, P[i], SubSeq(vals, 1, i))]
             Eq(f) == f = [i \in 0 .. Len(items) |->
                             IF i = 0 THEN With(c, <<>>) ELSE Onward(f[i - 1], items[i])]
  <1>0. /\ IsSequence(vals) /\ Len(vals) = n /\ Len(items) = n
        /\ \A i \in 1 .. n : items[i][P[i - 1]] = At(b, P[i], vals[i])
    BY <1>b, Zenon DEF Turns
  <1>1. PICK S : vals \in Seq(S)
    BY <1>0, Zenon DEF IsSequence
  <1>2. /\ SubSeq(vals, 1, 0) = <<>> /\ SubSeq(vals, 1, n) = vals
        /\ \A i \in 1 .. n : SubSeq(vals, 1, i) = Append(SubSeq(vals, 1, i - 1), vals[i])
    <2>1. SubSeq(vals, 1, 0) = <<>>
      BY <1>1
    <2>2. SubSeq(vals, 1, n) = vals
      BY <1>0, <1>1
    <2>3. ASSUME NEW i \in 1 .. n PROVE SubSeq(vals, 1, i) = Append(SubSeq(vals, 1, i - 1), vals[i])
      BY <1>0, <1>1
    <2>4. QED
      BY <2>1, <2>2, <2>3, Zenon
  <1>3. g[0] = With(c, <<>>)
    <2>1. With(c, <<>>) = At(b, P[0], <<>>)
      BY AtHolds, Zenon
    <2>2. g[0] = At(b, P[0], SubSeq(vals, 1, 0))
      OBVIOUS
    <2>3. QED
      BY <1>2, <2>1, <2>2, Zenon
  <1>4. ASSUME NEW i \in 1 .. n PROVE g[i] = Onward(g[i - 1], items[i])
    <2> DEFINE s == SubSeq(vals, 1, i - 1)
               d == At(b, P[i - 1], s)
               e == At(b, P[i], vals[i])
    <2>1. g[i - 1] = d /\ g[i] = At(b, P[i], SubSeq(vals, 1, i))
      OBVIOUS
    <2> HIDE DEF g, s
    <2>2. /\ d.pos = P[i - 1] /\ d.ok /\ d.val = s /\ e.val = vals[i]
          /\ With(e, Append(s, vals[i])) = At(b, P[i], Append(s, vals[i]))
      BY AtFields, AtHolds
    <2> HIDE DEF d
    <2>3. items[i][d.pos] = e
      BY <1>0, <2>2, Zenon
    <2> HIDE DEF e
    <2>4. Onward(d, items[i]) = At(b, P[i], Append(s, vals[i]))
      BY <2>2, <2>3, Zenon DEF Onward, Kept
    <2>5. QED
      BY <1>2, <2>1, <2>4, Zenon DEF s
  <1>5. Eq(g)
    <2>1. ASSUME NEW i \in 0 .. n
          PROVE  g[i] = IF i = 0 THEN With(c, <<>>) ELSE Onward(g[i - 1], items[i])
      <3>1. CASE i = 0
        BY <1>3, <3>1, Zenon
      <3>2. CASE i # 0
        <4>1. i \in 1 .. n
          BY <3>2
        <4>2. QED
          BY <1>4, <3>2, <4>1, Zenon
      <3>3. QED
        BY <3>1, <3>2, Zenon
    <2>2. g = [i \in 0 .. n |-> g[i]]
      BY Zenon
    <2> HIDE DEF g, c
    <2>3. QED
      BY <1>0, <2>1, <2>2, Zenon
  <1> DEFINE h == CHOOSE f : Eq(f)
  <1>6. Eq(h)
    <2> HIDE DEF Eq, g
    <2>1. QED
      BY <1>5, Zenon
  <1>7. /\ h[0] = With(c, <<>>) /\ \A i \in 1 .. n : h[i] = Onward(h[i - 1], items[i])
    <2> HIDE DEF h, c
    <2>1. h = [i \in 0 .. n |-> IF i = 0 THEN With(c, <<>>) ELSE Onward(h[i - 1], items[i])]
      BY <1>0, <1>6, Zenon
    <2> DEFINE w == With(c, <<>>)
    <2> HIDE DEF w
    <2>2. h = [i \in 0 .. n |-> IF i = 0 THEN w ELSE Onward(h[i - 1], items[i])]
      BY <1>0, <2>1, Zenon DEF w
    <2>3. h[0] = w /\ \A i \in 1 .. n : h[i] = Onward(h[i - 1], items[i])
      BY <2>2
    <2>4. QED
      BY <2>3, Zenon DEF w
  <1>8. InTurn(c, items) = h[n]
    <2>1. c.ok
      BY AtFields
    <2> HIDE DEF c
    <2>2. QED
      BY <1>0, <2>1, Zenon DEF InTurn
  <1> DEFINE W == [i \in Nat |-> {g[i]}]
  <1>9. \A i \in 0 .. n : h[i] \in W[i]
    <2> HIDE DEF h, g, c
    <2>1. h[0] \in W[0]
      BY <1>3, <1>7
    <2>2. ASSUME NEW i \in 1 .. n, h[i - 1] \in W[i - 1] PROVE h[i] \in W[i]
      <3>1. h[i - 1] = g[i - 1]
        BY <2>2
      <3>2. h[i] = g[i]
        BY <1>4, <1>7, <3>1, Zenon
      <3>3. QED
        BY <3>2
    <2> HIDE DEF W
    <2>3. QED
      BY <2>1, <2>2, FamilyInduction
  <1>10. h[n] = g[n]
    <2> HIDE DEF h, g
    <2>1. n \in 0 .. n
      OBVIOUS
    <2>2. h[n] \in W[n]
      BY <1>9, <2>1, Zenon
    <2>3. QED
      BY <2>2
  <1>11. g[n] = At(b, P[n], vals)
    <2>1. g[n] = At(b, P[n], SubSeq(vals, 1, n))
      OBVIOUS
    <2>2. QED
      BY <1>2, <2>1, Zenon
  <1>12. QED
    BY <1>b, <1>8, <1>10, <1>11, Zenon

--------------------------------------------------------------------------------
(* Numbers.                                                                     *)

LEMMA NumberEquation ==
  ASSUME NEW bytes \in Seq(Nat)
  PROVE  \E p : /\ Number(bytes) = p[Len(bytes)] /\ p[0] = 0
                /\ \A i \in 1 .. Len(bytes) : p[i] = p[i - 1] * Base + bytes[i]
                /\ \A i \in 0 .. Len(bytes) : p[i] \in Nat
  <1> DEFINE n     == Len(bytes)
             step  == [i \in 1 .. n |-> [v \in Nat |-> v * Base + bytes[i]]]
             Eq(f) == f = [i \in 0 .. n |-> IF i = 0 THEN 0 ELSE f[i - 1] * Base + bytes[i]]
  <1>1. n \in Nat /\ (\A i \in 1 .. n : bytes[i] \in Nat) /\ Base \in Nat
    BY BaseType
  <1> HIDE DEF n
  <1>2. step \in [1 .. n -> [Nat -> Nat]]
    BY <1>1
  <1>3. PICK f \in [0 .. n -> Nat] : Along(f, n, 0, step)
    <2>1. 0 \in Nat
      OBVIOUS
    <2> HIDE DEF step
    <2>2. QED
      BY <1>1, <1>2, <2>1, PrefixRecursion, Zenon
  <1>4. Eq(f)
    <2>1. f = [i \in 0 .. n |-> f[i]] /\ f[0] = 0
      BY <1>3, Zenon DEF Along
    <2>2. ASSUME NEW i \in 1 .. n PROVE f[i] = f[i - 1] * Base + bytes[i]
      <3>1. f[i] = step[i][f[i - 1]]
        BY <1>3, Zenon DEF Along
      <3>2. f[i - 1] \in Nat
        BY <1>1, <1>3
      <3>3. QED
        BY <3>1, <3>2
    <2>3. \A i \in 0 .. n : f[i] = IF i = 0 THEN 0 ELSE f[i - 1] * Base + bytes[i]
      <3> HIDE DEF step
      <3>1. SUFFICES ASSUME NEW i \in 0 .. n, i # 0 PROVE i \in 1 .. n
        BY <2>1, <2>2
      <3>2. QED
        BY <3>1, <1>1
    <2>4. QED
      BY <2>1, <2>3, Zenon
  <1> DEFINE g == CHOOSE h : Eq(h)
  <1>5. Eq(g)
    BY <1>4, Zenon
  <1>6. Number(bytes) = g[n]
    BY Zenon DEF Number, n
  <1> HIDE DEF g
  <1>7. \A i \in 0 .. n : g[i] = IF i = 0 THEN 0 ELSE g[i - 1] * Base + bytes[i]
    BY <1>5, Zenon
  <1>8. g[0] = 0 /\ \A i \in 1 .. n : g[i] = g[i - 1] * Base + bytes[i]
    BY <1>1, <1>7
  <1>9. \A i \in 0 .. n : g[i] \in Nat
    <2> DEFINE W == [i \in Nat |-> Nat]
    <2>1. g[0] \in W[0] /\ \A i \in 1 .. n : g[i - 1] \in W[i - 1] => g[i] \in W[i]
      <3>1. ASSUME NEW i \in 1 .. n, g[i - 1] \in Nat PROVE g[i] \in Nat
        <4> DEFINE x == g[i - 1]
                   e == bytes[i]
        <4>1. g[i] = x * Base + e /\ e \in Nat /\ Base \in Nat
          BY <1>1, <1>8, Zenon
        <4>2. x \in Nat
          BY <3>1, Zenon
        <4> HIDE DEF x, e, g
        <4>3. QED
          BY <4>1, <4>2
      <3>2. QED
        BY <1>1, <1>8, <3>1
    <2> HIDE DEF W
    <2>2. \A i \in 0 .. n : g[i] \in W[i]
      BY <1>1, <2>1, FamilyInduction
    <2>3. QED
      BY <2>2, <1>1 DEF W
  <1>10. QED
    BY <1>6, <1>8, <1>9, Zenon DEF n

LEMMA NumberMore ==
  ASSUME NEW x \in Seq(Nat), NEW e \in Nat
  PROVE  Number(<<>>) = 0 /\ Number(x) \in Nat /\ Number(Append(x, e)) = Number(x) * Base + e
  <1> DEFINE y == Append(x, e)
             n == Len(x)
  <1>1. /\ n \in Nat /\ y \in Seq(Nat) /\ Len(y) = n + 1 /\ y[n + 1] = e
        /\ \A i \in 1 .. n : y[i] = x[i]
    OBVIOUS
  <1>2. Number(<<>>) = 0
    <2>1. <<>> \in Seq(Nat) /\ Len(<<>>) = 0
      OBVIOUS
    <2>2. QED
      BY <2>1, NumberEquation
  <1>3. PICK p : /\ Number(x) = p[n] /\ p[0] = 0
                 /\ \A i \in 1 .. n : p[i] = p[i - 1] * Base + x[i]
                 /\ \A i \in 0 .. n : p[i] \in Nat
    BY NumberEquation
  <1> HIDE DEF y
  <1>4. PICK q : /\ Number(y) = q[n + 1] /\ q[0] = 0
                 /\ \A i \in 1 .. n + 1 : q[i] = q[i - 1] * Base + y[i]
    BY <1>1, NumberEquation
  <1> HIDE DEF n
  <1> DEFINE W == [i \in Nat |-> {p[i]}]
  <1>5. q[0] \in W[0]
    BY <1>3, <1>4
  <1>6. ASSUME NEW i \in 1 .. n, q[i - 1] \in W[i - 1] PROVE q[i] \in W[i]
    <2>1. i \in Nat /\ i - 1 \in Nat /\ i \in 1 .. n + 1
      BY <1>1
    <2>2. q[i - 1] = p[i - 1]
      BY <1>6, <2>1
    <2>3. q[i] = q[i - 1] * Base + y[i] /\ p[i] = p[i - 1] * Base + x[i] /\ y[i] = x[i]
      BY <1>1, <1>3, <1>4, <2>1
    <2>4. q[i] = p[i]
      BY <2>2, <2>3, Zenon
    <2>5. QED
      BY <2>1, <2>4
  <1>7. \A i \in 0 .. n : q[i] \in W[i]
    <2> HIDE DEF W
    <2>1. QED
      BY <1>1, <1>5, <1>6, FamilyInduction
  <1>8. q[n] = p[n] /\ p[n] \in Nat
    BY <1>1, <1>3, <1>7
  <1>9. q[n + 1] = q[n] * Base + e
    <2>1. n + 1 \in 1 .. n + 1 /\ (n + 1) - 1 = n
      BY <1>1
    <2>2. q[n + 1] = q[(n + 1) - 1] * Base + y[n + 1]
      BY <1>4, <2>1, Zenon
    <2>3. QED
      BY <1>1, <2>1, <2>2, Zenon
  <1>10. QED
    BY <1>2, <1>3, <1>4, <1>8, <1>9, Zenon DEF y

\* The last digits of a number, and those in front of them.
LEMMA SplitNumber ==
  ASSUME NEW m \in Nat, m > 0, NEW k \in Nat, k > 0, NEW v \in Int
  PROVE  k * m \in Nat /\ k * m > 0 /\ ((v \div m) % k) * m + (v % m) = v % (k * m)
  <1> DEFINE a == v \div m
             r == v % m
             q == a \div k
             s == a % k
             w == k * m
             x == s * m + r
  <1>1. a \in Int /\ r \in 0 .. m - 1 /\ v = a * m + r
    BY Division
  <1>2. q \in Int /\ s \in 0 .. k - 1 /\ a = q * k + s
    BY <1>1, Division
  <1> HIDE DEF a, r, q, s
  <1>3. w \in Nat /\ w > 0
    BY DEF w
  <1>4. x \in 0 .. w - 1
    <2>1. s * m \in Nat /\ s * m <= (k - 1) * m /\ (k - 1) * m = w - m
      BY <1>2
    <2>2. x \in Nat /\ x <= (w - m) + (m - 1)
      BY <1>1, <1>3, <2>1
    <2>3. QED
      BY <1>3, <2>2
  <1>5. v = q * w + x
    BY <1>1, <1>2
  <1> HIDE DEF w, x
  <1>6. v % w = x
    BY <1>2, <1>3, <1>4, <1>5, DivisionIsUnique
  <1>7. QED
    BY <1>3, <1>6, Zenon DEF w, x, s, r, a

LEMMA Widths ==
  /\ Base \in Nat /\ Base > 0 /\ Halfword \in Nat /\ Halfword > 0 /\ Word \in Nat /\ Word > 0
  /\ Longword \in Nat /\ Longword > 0
  /\ Halfword = Base * Base /\ Word = Halfword * Halfword /\ Longword = Word * Word
  <1>1. Base \in Nat /\ Base > 0
    BY BaseType
  <1>2. Halfword \in Nat /\ Halfword > 0
    BY BaseType
  <1>3. Word \in Nat /\ Word > 0
    BY <1>2 DEF Word
  <1>4. Longword \in Nat /\ Longword > 0
    BY <1>3 DEF Longword
  <1>5. QED
    BY <1>1, <1>2, <1>3, <1>4, Zenon DEF Halfword, Word, Longword

LEMMA DivisionType ==
  ASSUME NEW m \in Nat, m > 0, NEW v \in Int
  PROVE  v \div m \in Int /\ v % m \in Nat /\ v % m \in Int
  <1>1. v \div m \in Int /\ v % m \in 0 .. m - 1
    BY Division
  <1>2. QED
    BY <1>1

LEMMA NumberWide ==
  ASSUME NEW x \in Seq(Nat), NEW v \in Int
  PROVE  /\ Number(x \o U8(v)) = Number(x) * Base + (v % Base)
         /\ Number(x \o U16(v)) = Number(x) * Halfword + (v % Halfword)
         /\ Number(x \o U32(v)) = Number(x) * Word + (v % Word)
         /\ Number(x \o U64(v)) = Number(x) * Longword + (v % Longword)
  <1>1. ASSUME NEW y \in Seq(Nat), NEW w \in Int
        PROVE  Number(y) \in Nat /\ Number(y \o U8(w)) = Number(y) * Base + (w % Base)
    <2>1. w % Base \in Nat
      BY Widths, DivisionType, Zenon
    <2>2. y \o U8(w) = Append(y, w % Base)
      BY <2>1 DEF U8
    <2>3. QED
      BY <2>1, <2>2, NumberMore
  <1>2. ASSUME NEW N \in Nat, NEW m \in Nat, m > 0, NEW w \in Int
        PROVE  (N * m + ((w \div m) % m)) * m + (w % m) = N * (m * m) + (w % (m * m))
    <2> DEFINE a == (w \div m) % m
               r == w % m
               t == w % (m * m)
    <2>1. a * m + r = t
      BY <1>2, SplitNumber, Zenon
    <2>2. a \in Int /\ r \in Int
      <3>1. w \div m \in Int /\ r \in Int
        BY <1>2, DivisionType, Zenon
      <3>2. QED
        BY <1>2, <3>1, DivisionType, Zenon
    <2> HIDE DEF a, r, t
    <2>3. (N * m + a) * m + r = N * (m * m) + (a * m + r)
      BY <2>2
    <2>4. QED
      BY <2>1, <2>3, Zenon DEF a, r, t
  <1>3. ASSUME NEW y \in Seq(Nat), NEW w \in Int
        PROVE  Number(y \o U16(w)) = Number(y) * Halfword + (w % Halfword)
    <2>1. w \div Base \in Int
      BY Widths, DivisionType, Zenon
    <2> DEFINE z == y \o U8(w \div Base)
    <2>2. U8(w \div Base) \in Seq(Nat) /\ U8(w) \in Seq(Nat)
      BY <2>1, NumberBytes
    <2>3. z \in Seq(Nat) /\ y \o U16(w) = z \o U8(w)
      <3>1. z \in Seq(Nat)
        BY <2>2, ConcatProperties, Zenon
      <3>2. y \o (U8(w \div Base) \o U8(w)) = z \o U8(w)
        BY <2>2, JoinsThree, Zenon
      <3>3. QED
        BY <3>1, <3>2, Zenon DEF U16
    <2>4. Number(z) = Number(y) * Base + ((w \div Base) % Base)
      BY <1>1, <2>1
    <2>5. Number(z \o U8(w)) = Number(z) * Base + (w % Base)
      BY <1>1, <2>3
    <2> HIDE DEF z
    <2>6. Number(z \o U8(w)) = (Number(y) * Base + ((w \div Base) % Base)) * Base + (w % Base)
      BY <2>4, <2>5, Zenon
    <2>7. (Number(y) * Base + ((w \div Base) % Base)) * Base + (w % Base)
            = Number(y) * (Base * Base) + (w % (Base * Base))
      <3>1. Number(y) \in Nat /\ Base \in Nat /\ Base > 0
        BY <1>1, NumberMore, Widths
      <3>2. QED
        BY <1>2, <3>1, Zenon
    <2>8. Halfword = Base * Base
      BY Widths, Zenon
    <2>9. QED
      BY <2>3, <2>6, <2>7, <2>8, Zenon
  <1>4. ASSUME NEW y \in Seq(Nat), NEW w \in Int
        PROVE  Number(y \o U32(w)) = Number(y) * Word + (w % Word)
    <2>1. w \div Halfword \in Int
      BY Widths, DivisionType, Zenon
    <2> DEFINE z == y \o U16(w \div Halfword)
    <2>2. U16(w \div Halfword) \in Seq(Nat) /\ U16(w) \in Seq(Nat)
      BY <2>1, NumberBytes
    <2>3. z \in Seq(Nat) /\ y \o U32(w) = z \o U16(w)
      <3>1. z \in Seq(Nat)
        BY <2>2, ConcatProperties, Zenon
      <3>2. y \o (U16(w \div Halfword) \o U16(w)) = z \o U16(w)
        BY <2>2, JoinsThree, Zenon
      <3>3. QED
        BY <3>1, <3>2, Zenon DEF U32
    <2>4. Number(z) = Number(y) * Halfword + ((w \div Halfword) % Halfword)
      BY <1>3, <2>1
    <2>5. Number(z \o U16(w)) = Number(z) * Halfword + (w % Halfword)
      BY <1>3, <2>3
    <2> HIDE DEF z
    <2>6. Number(z \o U16(w))
            = (Number(y) * Halfword + ((w \div Halfword) % Halfword)) * Halfword + (w % Halfword)
      BY <2>4, <2>5, Zenon
    <2>7. (Number(y) * Halfword + ((w \div Halfword) % Halfword)) * Halfword + (w % Halfword)
            = Number(y) * (Halfword * Halfword) + (w % (Halfword * Halfword))
      <3>1. Number(y) \in Nat /\ Halfword \in Nat /\ Halfword > 0
        BY <1>1, NumberMore, Widths
      <3>2. QED
        BY <1>2, <3>1, Zenon
    <2>8. Word = Halfword * Halfword
      BY Widths, Zenon
    <2>9. QED
      BY <2>3, <2>6, <2>7, <2>8, Zenon
  <1>5. Number(x \o U64(v)) = Number(x) * Longword + (v % Longword)
    <2>1. v \div Word \in Int
      BY Widths, DivisionType, Zenon
    <2> DEFINE z == x \o U32(v \div Word)
    <2>2. U32(v \div Word) \in Seq(Nat) /\ U32(v) \in Seq(Nat)
      BY <2>1, NumberBytes
    <2>3. z \in Seq(Nat) /\ x \o U64(v) = z \o U32(v)
      <3>1. z \in Seq(Nat)
        BY <2>2, ConcatProperties, Zenon
      <3>2. x \o (U32(v \div Word) \o U32(v)) = z \o U32(v)
        BY <2>2, JoinsThree, Zenon
      <3>3. QED
        BY <3>1, <3>2, Zenon DEF U64
    <2>4. Number(z) = Number(x) * Word + ((v \div Word) % Word)
      BY <1>4, <2>1
    <2>5. Number(z \o U32(v)) = Number(z) * Word + (v % Word)
      BY <1>4, <2>3
    <2> HIDE DEF z
    <2>6. Number(z \o U32(v)) = (Number(x) * Word + ((v \div Word) % Word)) * Word + (v % Word)
      BY <2>4, <2>5, Zenon
    <2>7. (Number(x) * Word + ((v \div Word) % Word)) * Word + (v % Word)
            = Number(x) * (Word * Word) + (v % (Word * Word))
      <3>1. Number(x) \in Nat /\ Word \in Nat /\ Word > 0
        BY <1>1, NumberMore, Widths
      <3>2. QED
        BY <1>2, <3>1, Zenon
    <2>8. Longword = Word * Word
      BY Widths, Zenon
    <2>9. QED
      BY <2>3, <2>6, <2>7, <2>8, Zenon
  <1>6. QED
    BY <1>1, <1>3, <1>4, <1>5

LEMMA NumberIs ==
  ASSUME NEW v \in Int
  PROVE  /\ Number(U8(v)) = v % Base /\ Number(U16(v)) = v % Halfword
         /\ Number(U32(v)) = v % Word /\ Number(U64(v)) = v % Longword
  <1>1. /\ U8(v) \in Seq(Nat) /\ U16(v) \in Seq(Nat) /\ U32(v) \in Seq(Nat) /\ U64(v) \in Seq(Nat)
        /\ <<>> \in Seq(Nat) /\ Number(<<>>) = 0
    <2>1. <<>> \in Seq(Nat) /\ 0 \in Nat
      OBVIOUS
    <2>2. QED
      BY <2>1, NumberBytes, NumberMore, Zenon
  <1>2. /\ <<>> \o U8(v) = U8(v) /\ <<>> \o U16(v) = U16(v) /\ <<>> \o U32(v) = U32(v)
        /\ <<>> \o U64(v) = U64(v)
    BY <1>1, ConcatEmptySeq
  <1>3. v % Base \in Nat /\ v % Halfword \in Nat /\ v % Word \in Nat /\ v % Longword \in Nat
    BY Widths, Division
  <1>4. /\ Number(U8(v)) = 0 * Base + (v % Base) /\ Number(U16(v)) = 0 * Halfword + (v % Halfword)
        /\ Number(U32(v)) = 0 * Word + (v % Word) /\ Number(U64(v)) = 0 * Longword + (v % Longword)
    BY <1>1, <1>2, NumberWide, Zenon
  <1>5. 0 * Base = 0 /\ 0 * Halfword = 0 /\ 0 * Word = 0 /\ 0 * Longword = 0
    BY Widths
  <1>6. QED
    BY <1>3, <1>4, <1>5

\* A number of a field that is wide enough for it.
LEMMA NumberFits ==
  ASSUME NEW v \in Nat
  PROVE  /\ v < Base => Number(U8(v)) = v
         /\ v < Halfword => Number(U16(v)) = v
         /\ v < Word => Number(U32(v)) = v
  <1>1. ASSUME NEW m \in Nat, m > 0, v < m PROVE v % m = v
    <2>1. v \in 0 .. m - 1
      BY <1>1
    <2>2. QED
      BY <1>1, <2>1, SmallRemainder
  <1>2. /\ v < Base => v % Base = v
        /\ v < Halfword => v % Halfword = v
        /\ v < Word => v % Word = v
    BY <1>1, Widths, Zenon
  <1>3. v \in Int
    OBVIOUS
  <1>4. QED
    BY <1>2, <1>3, NumberIs, Zenon

--------------------------------------------------------------------------------
(* Parts one after the other.                                                   *)

LEMMA FlattenGrows ==
  ASSUME NEW parts \in Seq(Seq(Nat))
  PROVE  \E g : /\ g[0] = <<>> /\ g[Len(parts)] = FlattenSeq(parts)
                /\ \A i \in 0 .. Len(parts) : g[i] \in Seq(Nat)
                /\ \A i \in 1 .. Len(parts) : g[i] = g[i - 1] \o parts[i]
  <1> DEFINE n == Len(parts)
  <1>1. n \in Nat /\ \A i \in 1 .. n : parts[i] \in Seq(Nat)
    OBVIOUS
  <1>2. CASE parts = <<>>
    <2> DEFINE g == [i \in 0 .. 0 |-> <<>>]
    <2>1. n = 0 /\ FlattenSeq(parts) = <<>>
      BY <1>2 DEF FlattenSeq
    <2>2. g[0] = <<>> /\ g[0] \in Seq(Nat)
      OBVIOUS
    <2> HIDE DEF g, n
    <2>3. /\ g[n] = FlattenSeq(parts) /\ \A i \in 0 .. n : g[i] \in Seq(Nat)
          /\ \A i \in 1 .. n : g[i] = g[i - 1] \o parts[i]
      <3>1. (\A i \in 0 .. n : i = 0) /\ \A i \in 1 .. n : FALSE
        BY <2>1
      <3>2. QED
        BY <2>1, <2>2, <3>1, Zenon
    <2>4. QED
      BY <2>2, <2>3, Zenon DEF n
  <1>3. CASE parts # <<>>
    <2>1. PICK f \in [1 .. n -> Seq(Nat)] :
            /\ FlattenSeq(parts) = f[n]
            /\ f[1] = parts[1]
            /\ \A i \in 2 .. n : f[i] = f[i - 1] \o parts[i]
      BY <1>3, FlattenEquation
    <2>2. n >= 1
      BY <1>3
    <2> DEFINE g == [i \in 0 .. n |-> IF i = 0 THEN <<>> ELSE f[i]]
    <2> HIDE DEF n
    <2>3. g[0] = <<>> /\ g[n] = f[n] /\ \A i \in 1 .. n : g[i] = f[i]
      BY <1>1, <2>2
    <2> HIDE DEF g
    <2>4. \A i \in 0 .. n : g[i] \in Seq(Nat)
      <3>1. \A i \in 1 .. n : g[i] \in Seq(Nat)
        BY <2>1, <2>3, Zenon
      <3>2. g[0] \in Seq(Nat)
        BY <2>3
      <3>3. \A i \in 0 .. n : i = 0 \/ i \in 1 .. n
        BY <1>1
      <3>4. QED
        BY <3>1, <3>2, <3>3, Zenon
    <2>5. ASSUME NEW i \in 1 .. n PROVE g[i] = g[i - 1] \o parts[i]
      <3>1. CASE i = 1
        <4>1. g[1] = parts[1] /\ g[1 - 1] = <<>> /\ parts[1] \in Seq(Nat)
          BY <1>1, <2>1, <2>2, <2>3
        <4>2. <<>> \o parts[1] = parts[1]
          BY <4>1, ConcatEmptySeq
        <4>3. QED
          BY <3>1, <4>1, <4>2, Zenon
      <3>2. CASE i # 1
        <4>1. i \in 2 .. n /\ i - 1 \in 1 .. n
          BY <1>1, <3>2
        <4>2. QED
          BY <2>1, <2>3, <4>1, Zenon
      <3>3. QED
        BY <3>1, <3>2
    <2>6. QED
      BY <2>1, <2>3, <2>4, <2>5, Zenon DEF n
  <1>4. QED
    BY <1>2, <1>3

LEMMA FlattenStands ==
  ASSUME NEW b \in Seq(Nat), NEW q \in Nat, NEW parts \in Seq(Seq(Nat)),
         Stands(b, q, FlattenSeq(parts))
  PROVE  \E P : /\ P[0] = q /\ P[Len(parts)] = q + Len(FlattenSeq(parts))
                /\ \A i \in 0 .. Len(parts) : P[i] \in 0 .. Len(b)
                /\ \A i \in 1 .. Len(parts) :
                     P[i] = P[i - 1] + Len(parts[i]) /\ Stands(b, P[i - 1], parts[i])
  <1> DEFINE n == Len(parts)
  <1>1. n \in Nat /\ (\A i \in 1 .. n : parts[i] \in Seq(Nat)) /\ Len(b) \in Nat
    OBVIOUS
  <1>2. PICK g : /\ g[0] = <<>> /\ g[n] = FlattenSeq(parts)
                 /\ \A i \in 0 .. n : g[i] \in Seq(Nat)
                 /\ \A i \in 1 .. n : g[i] = g[i - 1] \o parts[i]
    BY FlattenGrows
  <1> HIDE DEF n
  <1> DEFINE K == {k \in Nat : k <= n => Stands(b, q, g[n - k])}
  <1>3. 0 \in K
    <2>1. n - 0 = n
      BY <1>1
    <2>2. Stands(b, q, g[n - 0])
      BY <1>2, <2>1, Zenon
    <2>3. QED
      BY <2>2
  <1>4. ASSUME NEW k \in Nat, k \in K PROVE k + 1 \in K
    <2> SUFFICES ASSUME k + 1 <= n PROVE Stands(b, q, g[n - (k + 1)])
      OBVIOUS
    <2> DEFINE i == n - k
    <2>1. i \in 1 .. n /\ i - 1 = n - (k + 1) /\ i - 1 \in 0 .. n /\ k <= n
      BY <1>1
    <2>2. Stands(b, q, g[i])
      BY <1>4, <2>1
    <2> HIDE DEF i
    <2>3. g[i] = g[i - 1] \o parts[i] /\ g[i - 1] \in Seq(Nat) /\ parts[i] \in Seq(Nat)
      BY <1>1, <1>2, <2>1, Zenon
    <2>4. Stands(b, q, g[i - 1])
      BY <2>2, <2>3, StandsJoin
    <2>5. QED
      BY <2>1, <2>4, Zenon
  <1>5. Nat \subseteq K
    <2> HIDE DEF K
    <2>1. QED
      BY <1>3, <1>4, SetInduction
  <1>6. ASSUME NEW i \in 0 .. n PROVE Stands(b, q, g[i])
    <2>1. n - i \in Nat /\ n - (n - i) = i /\ n - i <= n
      BY <1>1
    <2>2. n - i \in K
      BY <1>5, <2>1
    <2>3. Stands(b, q, g[n - (n - i)])
      BY <2>1, <2>2
    <2>4. QED
      BY <2>1, <2>3, Zenon
  <1> HIDE DEF K
  <1> DEFINE P == [i \in 0 .. n |-> q + Len(g[i])]
  <1>7. \A i \in 0 .. n : P[i] = q + Len(g[i])
    OBVIOUS
  <1> HIDE DEF P
  <1>8. P[0] = q /\ P[n] = q + Len(FlattenSeq(parts))
    <2>1. 0 \in 0 .. n /\ n \in 0 .. n /\ Len(<<>>) = 0
      BY <1>1
    <2>2. P[0] = q + Len(<<>>) /\ P[n] = q + Len(FlattenSeq(parts))
      BY <1>2, <1>7, <2>1, Zenon
    <2>3. QED
      BY <2>1, <2>2
  <1>9. ASSUME NEW i \in 0 .. n PROVE P[i] \in 0 .. Len(b)
    <2> DEFINE l == Len(g[i])
    <2>1. q + l <= Len(b)
      BY <1>6, Zenon DEF Stands
    <2>2. g[i] \in Seq(Nat)
      BY <1>2, Zenon
    <2>3. l \in Nat /\ P[i] = q + l
      BY <1>7, <2>2
    <2> HIDE DEF l
    <2>4. QED
      BY <1>1, <2>1, <2>3
  <1>10. ASSUME NEW i \in 1 .. n
         PROVE  P[i] = P[i - 1] + Len(parts[i]) /\ Stands(b, P[i - 1], parts[i])
    <2>1. i - 1 \in 0 .. n /\ i \in 0 .. n
      BY <1>1
    <2> DEFINE x == g[i - 1]
               y == parts[i]
    <2>2. g[i] = x \o y /\ x \in Seq(Nat) /\ y \in Seq(Nat)
      BY <1>1, <1>2, <2>1, Zenon
    <2>3. P[i - 1] = q + Len(x) /\ P[i] = q + Len(x \o y) /\ Stands(b, q, x \o y)
      BY <1>6, <1>7, <2>1, <2>2, Zenon
    <2> HIDE DEF x, y
    <2>4. Len(x \o y) = Len(x) + Len(y) /\ Len(x) \in Nat /\ Len(y) \in Nat
      BY <2>2
    <2>5. Stands(b, q + Len(x), y)
      BY <2>2, <2>3, StandsJoin
    <2>6. P[i] = P[i - 1] + Len(y) /\ Stands(b, P[i - 1], y)
      BY <2>3, <2>4, <2>5
    <2>7. QED
      BY <2>6 DEF y
  <1>11. QED
    BY <1>8, <1>9, <1>10, Zenon DEF n

\* What reads an item finds the value where the part stands.
Takes(item, b, part, val) ==
  \A p \in 0 .. Len(b) : Stands(b, p, part) => item[p] = At(b, p + Len(part), val)

TakeAll(items, b, parts, vals) ==
  /\ IsSequence(vals) /\ Len(vals) = Len(parts) /\ Len(items) = Len(parts)
  /\ \A i \in 1 .. Len(parts) : Takes(items[i], b, parts[i], vals[i])

LEMMA InTurnReads ==
  ASSUME NEW b \in Seq(Nat), NEW q \in Nat, NEW parts \in Seq(Seq(Nat)),
         Stands(b, q, FlattenSeq(parts)), NEW v, NEW vals, NEW items, TakeAll(items, b, parts, vals)
  PROVE  InTurn(At(b, q, v), items) = At(b, q + Len(FlattenSeq(parts)), vals)
  <1> DEFINE n == Len(parts)
  <1>1. n \in Nat
    OBVIOUS
  <1>2. PICK P : /\ P[0] = q /\ P[n] = q + Len(FlattenSeq(parts))
                 /\ \A i \in 0 .. n : P[i] \in 0 .. Len(b)
                 /\ \A i \in 1 .. n : P[i] = P[i - 1] + Len(parts[i]) /\ Stands(b, P[i - 1], parts[i])
    BY FlattenStands
  <1> HIDE DEF n
  <1>3. ASSUME NEW i \in 1 .. n PROVE items[i][P[i - 1]] = At(b, P[i], vals[i])
    <2>1. i - 1 \in 0 .. n
      BY <1>1
    <2>2. P[i - 1] \in 0 .. Len(b) /\ Stands(b, P[i - 1], parts[i]) /\ P[i] = P[i - 1] + Len(parts[i])
      BY <1>2, <2>1, Zenon
    <2>3. Takes(items[i], b, parts[i], vals[i])
      BY Zenon DEF n, TakeAll
    <2>4. items[i][P[i - 1]] = At(b, P[i - 1] + Len(parts[i]), vals[i])
      BY <2>2, <2>3, Zenon DEF Takes
    <2>5. QED
      BY <2>2, <2>4, Zenon
  <1> DEFINE e == q + Len(FlattenSeq(parts))
  <1>4. InTurn(At(b, q, v), items) = At(b, e, vals)
    <2>1. IsSequence(vals) /\ Len(vals) = n /\ Len(items) = n
      BY Zenon DEF n, TakeAll
    <2>2. Turns(b, n, P, vals, items)
      BY <1>3, <2>1, Zenon DEF Turns
    <2>3. P[0] = q /\ P[n] = e
      BY <1>2
    <2> HIDE DEF e
    <2>4. TurnsFrom(b, q, e, vals, items)
      BY <1>1, <2>2, <2>3, Zenon DEF TurnsFrom
    <2>5. QED
      BY <2>4, InTurnAt
  <1>5. QED
    BY <1>4, Zenon

\* A few parts.
JoinsFour(x, y, z, w)    == FlattenSeq(<<x, y, z, w>>) = x \o y \o z \o w
JoinsFive(x, y, z, w, u) == FlattenSeq(<<x, y, z, w, u>>) = x \o y \o z \o w \o u

LEMMA FlattenTwo ==
  ASSUME NEW x \in Seq(Nat), NEW y \in Seq(Nat)
  PROVE  FlattenSeq(<<x, y>>) = x \o y
  <1>0. <<>> \o x = x
    BY ConcatEmptySeq
  <1> DEFINE s == <<x, y>>
  <1>1. s \in Seq(Seq(Nat)) /\ Len(s) = 2 /\ s[1] = x /\ s[2] = y
    OBVIOUS
  <1> HIDE DEF s
  <1>2. PICK g : /\ g[0] = <<>> /\ g[Len(s)] = FlattenSeq(s)
                 /\ \A i \in 1 .. Len(s) : g[i] = g[i - 1] \o s[i]
    BY <1>1, FlattenGrows, Zenon
  <1>3. 1 \in 1 .. Len(s) /\ 2 \in 1 .. Len(s)
        /\ 1 - 1 = 0 /\ 2 - 1 = 1
    BY <1>1
  <1>4. g[1] = g[1 - 1] \o s[1] /\ g[2] = g[2 - 1] \o s[2]
    BY <1>2, <1>3, Zenon
  <1>5. g[1] = g[0] \o x /\ g[2] = g[1] \o y
    BY <1>1, <1>3, <1>4, Zenon
  <1>6. QED
    BY <1>0, <1>1, <1>2, <1>5, Zenon DEF s

LEMMA FlattenFour ==
  ASSUME NEW x \in Seq(Nat), NEW y \in Seq(Nat), NEW z \in Seq(Nat), NEW w \in Seq(Nat)
  PROVE  JoinsFour(x, y, z, w)
  <1>0. <<>> \o x = x
    BY ConcatEmptySeq
  <1> DEFINE s == <<x, y, z, w>>
  <1>1. s \in Seq(Seq(Nat)) /\ Len(s) = 4 /\ s[1] = x /\ s[2] = y /\ s[3] = z /\ s[4] = w
    OBVIOUS
  <1> HIDE DEF s
  <1>2. PICK g : /\ g[0] = <<>> /\ g[Len(s)] = FlattenSeq(s)
                 /\ \A i \in 1 .. Len(s) : g[i] = g[i - 1] \o s[i]
    BY <1>1, FlattenGrows, Zenon
  <1>3. 1 \in 1 .. Len(s) /\ 2 \in 1 .. Len(s) /\ 3 \in 1 .. Len(s) /\ 4 \in 1 .. Len(s)
        /\ 1 - 1 = 0 /\ 2 - 1 = 1 /\ 3 - 1 = 2 /\ 4 - 1 = 3
    BY <1>1
  <1>4. g[1] = g[1 - 1] \o s[1] /\ g[2] = g[2 - 1] \o s[2] /\ g[3] = g[3 - 1] \o s[3] /\ g[4] = g[4 - 1] \o s[4]
    BY <1>2, <1>3, Zenon
  <1>5. g[1] = g[0] \o x /\ g[2] = g[1] \o y /\ g[3] = g[2] \o z /\ g[4] = g[3] \o w
    BY <1>1, <1>3, <1>4, Zenon
  <1>6. g[1] = x
    BY <1>0, <1>2, <1>5, Zenon
  <1>7. g[4] = x \o y \o z \o w
    BY <1>5, <1>6, Zenon
  <1>8. FlattenSeq(s) = g[4]
    BY <1>1, <1>2, Zenon
  <1>9. QED
    BY <1>7, <1>8, Zenon DEF s, JoinsFour

LEMMA FlattenFive ==
  ASSUME NEW x \in Seq(Nat), NEW y \in Seq(Nat), NEW z \in Seq(Nat), NEW w \in Seq(Nat), NEW u \in Seq(Nat)
  PROVE  JoinsFive(x, y, z, w, u)
  <1>0. <<>> \o x = x
    BY ConcatEmptySeq
  <1> DEFINE s == <<x, y, z, w, u>>
  <1>1. s \in Seq(Seq(Nat)) /\ Len(s) = 5 /\ s[1] = x /\ s[2] = y /\ s[3] = z /\ s[4] = w /\ s[5] = u
    OBVIOUS
  <1> HIDE DEF s
  <1>2. PICK g : /\ g[0] = <<>> /\ g[Len(s)] = FlattenSeq(s)
                 /\ \A i \in 1 .. Len(s) : g[i] = g[i - 1] \o s[i]
    BY <1>1, FlattenGrows, Zenon
  <1>3. 1 \in 1 .. Len(s) /\ 2 \in 1 .. Len(s) /\ 3 \in 1 .. Len(s) /\ 4 \in 1 .. Len(s) /\ 5 \in 1 .. Len(s)
        /\ 1 - 1 = 0 /\ 2 - 1 = 1 /\ 3 - 1 = 2 /\ 4 - 1 = 3 /\ 5 - 1 = 4
    BY <1>1
  <1>4. g[1] = g[1 - 1] \o s[1] /\ g[2] = g[2 - 1] \o s[2] /\ g[3] = g[3 - 1] \o s[3] /\ g[4] = g[4 - 1] \o s[4] /\ g[5] = g[5 - 1] \o s[5]
    BY <1>2, <1>3, Zenon
  <1>5. g[1] = g[0] \o x /\ g[2] = g[1] \o y /\ g[3] = g[2] \o z /\ g[4] = g[3] \o w /\ g[5] = g[4] \o u
    BY <1>1, <1>3, <1>4, Zenon
  <1>6. g[1] = x
    BY <1>0, <1>2, <1>5, Zenon
  <1>7. g[3] = x \o y \o z
    BY <1>5, <1>6, Zenon
  <1>8. g[5] = x \o y \o z \o w \o u
    BY <1>5, <1>7, Zenon
  <1>9. FlattenSeq(s) = g[5]
    BY <1>1, <1>2, Zenon
  <1>10. QED
    BY <1>8, <1>9, Zenon DEF s, JoinsFive

\* Fields and numbers of given widths.
Divided(b, q, parts, widths) ==
  /\ b \in Seq(Nat) /\ q \in Nat /\ parts \in Seq(Seq(Nat)) /\ Stands(b, q, FlattenSeq(parts))
  /\ widths = [i \in 1 .. Len(parts) |-> Len(parts[i])]
FieldsRead(b, q, v, parts, widths) ==
  /\ Fields(At(b, q, v), widths) = At(b, q + Len(FlattenSeq(parts)), parts)
  /\ Nums(At(b, q, v), widths)
       = At(b, q + Len(FlattenSeq(parts)), [i \in 1 .. Len(parts) |-> Number(parts[i])])

LEMMA FieldsAt ==
  ASSUME NEW b, NEW q, NEW v, NEW parts, NEW widths, Divided(b, q, parts, widths)
  PROVE  FieldsRead(b, q, v, parts, widths)
  <1>0. /\ b \in Seq(Nat) /\ q \in Nat /\ parts \in Seq(Seq(Nat)) /\ Stands(b, q, FlattenSeq(parts))
        /\ widths = [i \in 1 .. Len(parts) |-> Len(parts[i])]
    BY Zenon DEF Divided
  <1> DEFINE n == Len(parts)
             c == At(b, q, v)
             fields == [i \in DOMAIN widths |-> From(c, LAMBDA field : Take(field, widths[i]))]
             nums   == [i \in DOMAIN widths |-> From(c, LAMBDA field : Num(field, widths[i]))]
             vals   == [i \in 1 .. n |-> Number(parts[i])]
  <1>1. n \in Nat /\ \A i \in 1 .. n : parts[i] \in Seq(Nat)
    BY <1>0
  <1>2. DOMAIN widths = 1 .. n /\ \A i \in 1 .. n : widths[i] = Len(parts[i])
    BY <1>0, Zenon
  <1>3. c.in = b
    BY AtFields
  <1>4. ASSUME NEW i \in 1 .. n, NEW p \in 0 .. Len(b), Stands(b, p, parts[i])
        PROVE  /\ fields[i][p] = At(b, p + Len(parts[i]), parts[i])
               /\ nums[i][p] = At(b, p + Len(parts[i]), Number(parts[i]))
    <2>1. Moved(c, p) = At(b, p, v)
      BY AtMoved, Zenon
    <2> HIDE DEF c
    <2>2. p \in 0 .. Len(c.in) /\ i \in DOMAIN widths
      BY <1>2, <1>3, Zenon
    <2>3. fields[i][p] = Take(Moved(c, p), widths[i]) /\ nums[i][p] = Num(Moved(c, p), widths[i])
      BY <2>2, Zenon DEF From, Moved
    <2> HIDE DEF fields, nums
    <2>4. p \in Nat /\ parts[i] \in Seq(Nat) /\ widths[i] = Len(parts[i])
      BY <1>0, <1>1, <1>2
    <2>5. /\ Take(At(b, p, v), Len(parts[i])) = At(b, p + Len(parts[i]), parts[i])
          /\ Num(At(b, p, v), Len(parts[i])) = At(b, p + Len(parts[i]), Number(parts[i]))
      BY <1>0, <1>4, <2>4, TakeAt, ZenonT(60)
    <2>6. QED
      BY <2>1, <2>3, <2>4, <2>5, Zenon
  <1>5. Len(fields) = n /\ Len(nums) = n /\ Len(vals) = n /\ IsSequence(vals) /\ IsSequence(parts)
    <2>1. fields \in [1 .. n -> {fields[i] : i \in 1 .. n}]
      BY <1>2, Zenon
    <2>2. nums \in [1 .. n -> {nums[i] : i \in 1 .. n}]
      BY <1>2, Zenon
    <2>3. vals \in [1 .. n -> {vals[i] : i \in 1 .. n}]
      BY Zenon
    <2> HIDE DEF n, fields, nums, vals
    <2>4. Len(fields) = n /\ Len(nums) = n /\ Len(vals) = n /\ IsSequence(vals)
      BY <1>1, <2>1, <2>2, <2>3, ListIs, Zenon DEF IsSequence
    <2>5. QED
      BY <1>0, <2>4, Zenon DEF IsSequence
  <1>6. \A i \in 1 .. n : vals[i] = Number(parts[i])
    OBVIOUS
  <1> HIDE DEF fields, nums, vals, c
  <1>7. \A i \in 1 .. n : Takes(fields[i], b, parts[i], parts[i]) /\ Takes(nums[i], b, parts[i], vals[i])
    BY <1>4, <1>6, Zenon DEF Takes
  <1>8. Fields(c, widths) = InTurn(c, fields) /\ Nums(c, widths) = InTurn(c, nums)
    BY Zenon DEF Fields, Nums, fields, nums
  <1>9. InTurn(At(b, q, v), fields) = At(b, q + Len(FlattenSeq(parts)), parts)
    <2>1. TakeAll(fields, b, parts, parts)
      BY <1>5, <1>7, Zenon DEF n, TakeAll
    <2>2. QED
      BY <1>0, <2>1, InTurnReads
  <1>10. InTurn(At(b, q, v), nums) = At(b, q + Len(FlattenSeq(parts)), vals)
    <2>1. TakeAll(nums, b, parts, vals)
      BY <1>5, <1>7, Zenon DEF n, TakeAll
    <2>2. QED
      BY <1>0, <2>1, InTurnReads
  <1>11. QED
    BY <1>8, <1>9, <1>10, Zenon DEF c, vals, n, FieldsRead

--------------------------------------------------------------------------------
(* What reads a field finds what was written there.                             *)

LEMMA WidthOfNumbers ==
  ASSUME NEW v \in Int
  PROVE  /\ Len(U8(v)) = 1 /\ Len(U16(v)) = 2 /\ Len(U32(v)) = 4 /\ Len(U64(v)) = 8
         /\ U8(v) \in Seq(Nat) /\ U16(v) \in Seq(Nat) /\ U32(v) \in Seq(Nat) /\ U64(v) \in Seq(Nat)
  <1>1. Fits(U8(v), 1) /\ Fits(U16(v), 2) /\ Fits(U32(v), 4) /\ Fits(U64(v), 8)
    BY SmallNumbers, Zenon
  <1>2. Len(U8(v)) = 1 /\ Len(U16(v)) = 2 /\ Len(U32(v)) = 4 /\ Len(U64(v)) = 8
    BY <1>1, Zenon DEF Fits
  <1>3. QED
    BY <1>2, NumberBytes, Zenon

LEMMA ByteAt ==
  ASSUME NEW b \in Seq(Nat), NEW p \in Nat, NEW v, NEW w \in Nat, w < Base, Stands(b, p, U8(w))
  PROVE  Num(At(b, p, v), 1) = At(b, p + 1, w)
  <1>1. U8(w) \in Seq(Nat) /\ Len(U8(w)) = 1 /\ Number(U8(w)) = w
    BY WidthOfNumbers, NumberFits
  <1>2. Num(At(b, p, v), Len(U8(w))) = At(b, p + Len(U8(w)), Number(U8(w)))
    BY <1>1, TakeAt, ZenonT(60)
  <1>3. QED
    BY <1>1, <1>2, Zenon

LEMMA ShortAt ==
  ASSUME NEW b \in Seq(Nat), NEW p \in Nat, NEW v, NEW w \in Nat, w < Halfword, Stands(b, p, U16(w))
  PROVE  Num(At(b, p, v), 2) = At(b, p + 2, w)
  <1>1. U16(w) \in Seq(Nat) /\ Len(U16(w)) = 2 /\ Number(U16(w)) = w
    BY WidthOfNumbers, NumberFits
  <1>2. Num(At(b, p, v), Len(U16(w))) = At(b, p + Len(U16(w)), Number(U16(w)))
    BY <1>1, TakeAt, ZenonT(60)
  <1>3. QED
    BY <1>1, <1>2, Zenon

LEMMA WordAt ==
  ASSUME NEW b \in Seq(Nat), NEW p \in Nat, NEW v, NEW w \in Nat, w < Word, Stands(b, p, U32(w))
  PROVE  Num(At(b, p, v), 4) = At(b, p + 4, w)
  <1>1. U32(w) \in Seq(Nat) /\ Len(U32(w)) = 4 /\ Number(U32(w)) = w
    BY WidthOfNumbers, NumberFits
  <1>2. Num(At(b, p, v), Len(U32(w))) = At(b, p + Len(U32(w)), Number(U32(w)))
    BY <1>1, TakeAt, ZenonT(60)
  <1>3. QED
    BY <1>1, <1>2, Zenon

\* An integer comes back with its sign.
LEMMA SignComesBack ==
  ASSUME NEW m \in Nat, m > 0, m % 2 = 0, NEW v \in -(m \div 2) .. m \div 2 - 1
  PROVE  Signed(v % m, m) = v
  <1> DEFINE h == m \div 2
  <1>1. h \in Int /\ m = 2 * h
    BY Division
  <1> HIDE DEF h
  <1>2. v \in Int /\ -h <= v /\ v <= h - 1
    <2>1. v \in -h .. h - 1
      BY DEF h
    <2>2. QED
      BY <1>1, <2>1
  <1>3. CASE v >= 0
    <2>1. v \in 0 .. m - 1
      BY <1>1, <1>2, <1>3
    <2>2. v % m = v
      BY <2>1, SmallRemainder
    <2>3. ~(2 * v >= m)
      BY <1>1, <1>2
    <2>4. QED
      BY <2>2, <2>3, Zenon DEF Signed
  <1>4. CASE v < 0
    <2>1. v + m \in 0 .. m - 1 /\ v = (-1) * m + (v + m)
      BY <1>1, <1>2, <1>4
    <2>2. v % m = v + m
      BY <1>2, <2>1, DivisionIsUnique
    <2>3. 2 * (v + m) >= m /\ (v + m) - m = v
      BY <1>1, <1>2
    <2>4. QED
      BY <2>2, <2>3, Zenon DEF Signed
  <1>5. QED
    BY <1>2, <1>3, <1>4

LEMMA EvenWidths ==
  Word % 2 = 0 /\ Longword % 2 = 0
  <1>1. Base \in Nat /\ Half \in Nat /\ Base = 2 * Half /\ Halfword \in Nat /\ Word \in Nat
        /\ Halfword = Base * Base /\ Word = Halfword * Halfword /\ Longword = Word * Word
    BY BaseType, Widths, Zenon
  <1>2. ASSUME NEW n \in Nat, NEW k \in Nat, n = 2 * k PROVE n % 2 = 0
    BY <1>2
  <1>3. Halfword = 2 * (Half * Base)
    BY <1>1
  <1>4. PICK h \in Nat : Halfword = 2 * h
    BY <1>1, <1>3
  <1>5. PICK w \in Nat : Word = 2 * w
    BY <1>1, <1>4
  <1>6. PICK l \in Nat : Longword = 2 * l
    BY <1>1, <1>5
  <1>7. QED
    BY <1>2, <1>5, <1>6, Widths

LEMMA IntegerAt ==
  ASSUME NEW b \in Seq(Nat), NEW p \in Nat, NEW v, NEW w
  PROVE  /\ w \in Int32s /\ Stands(b, p, U32(w))
              => Integer(Num(At(b, p, v), 4), Word) = At(b, p + 4, <<w>>)
         /\ w \in Int64s /\ Stands(b, p, U64(w))
              => Integer(Num(At(b, p, v), 8), Word * Word) = At(b, p + 8, <<w>>)
  <1>1. ASSUME w \in Int32s, Stands(b, p, U32(w))
        PROVE  Integer(Num(At(b, p, v), 4), Word) = At(b, p + 4, <<w>>)
    <2>1. w \in Int
      BY <1>1, IntegerTypes
    <2>2. U32(w) \in Seq(Nat) /\ Len(U32(w)) = 4 /\ Number(U32(w)) = w % Word
      BY <2>1, WidthOfNumbers, NumberIs
    <2>3. Num(At(b, p, v), Len(U32(w))) = At(b, p + Len(U32(w)), Number(U32(w)))
      BY <1>1, <2>2, TakeAt
    <2>4. Num(At(b, p, v), 4) = At(b, p + 4, w % Word)
      BY <2>2, <2>3, Zenon
    <2>5. Signed(w % Word, Word) = w
      <3>1. w \in -(Word \div 2) .. Word \div 2 - 1
        BY <1>1 DEF Int32s
      <3>2. QED
        BY <3>1, Widths, EvenWidths, SignComesBack
    <2> DEFINE d == At(b, p + 4, w % Word)
    <2>6. d.val = w % Word /\ With(d, <<w>>) = At(b, p + 4, <<w>>)
      BY AtFields, AtHolds
    <2> HIDE DEF d
    <2>7. QED
      BY <2>4, <2>5, <2>6, Zenon DEF Integer, d
  <1>2. ASSUME w \in Int64s, Stands(b, p, U64(w))
        PROVE  Integer(Num(At(b, p, v), 8), Word * Word) = At(b, p + 8, <<w>>)
    <2>1. w \in Int
      BY <1>2, IntegerTypes
    <2>2. U64(w) \in Seq(Nat) /\ Len(U64(w)) = 8 /\ Number(U64(w)) = w % Longword
      BY <2>1, WidthOfNumbers, NumberIs
    <2>3. Num(At(b, p, v), Len(U64(w))) = At(b, p + Len(U64(w)), Number(U64(w)))
      BY <1>2, <2>2, TakeAt
    <2>4. Num(At(b, p, v), 8) = At(b, p + 8, w % Longword)
      BY <2>2, <2>3, Zenon
    <2>5. Signed(w % Longword, Longword) = w /\ Longword = Word * Word
      <3>1. w \in -(Longword \div 2) .. Longword \div 2 - 1
        BY <1>2 DEF Int64s
      <3>2. QED
        BY <3>1, Widths, EvenWidths, SignComesBack
    <2> DEFINE d == At(b, p + 8, w % Longword)
    <2>6. d.val = w % Longword /\ With(d, <<w>>) = At(b, p + 8, <<w>>)
      BY AtFields, AtHolds
    <2> HIDE DEF d
    <2>7. QED
      BY <2>4, <2>5, <2>6, Zenon DEF Integer, d
  <1>3. QED
    BY <1>1, <1>2, Zenon

\* Bytes with their length in front, and a zero behind.
LEMMA CountedAt ==
  ASSUME NEW b \in Seq(Nat), NEW p \in Nat, NEW v, NEW data \in Seq(Nat), Len(data) < Halfword,
         Stands(b, p, U16(Len(data)) \o data)
  PROVE  ReadCounted(At(b, p, v)) = At(b, p + 2 + Len(data), data)
  <1> DEFINE n == Len(data)
             d == At(b, p + 2, n)
  <1>1. n \in Nat /\ n < Halfword
    OBVIOUS
  <1>2. U16(n) \in Seq(Nat) /\ Len(U16(n)) = 2
    BY <1>1, WidthOfNumbers
  <1>3. Stands(b, p, U16(n)) /\ Stands(b, p + Len(U16(n)), data)
    BY <1>2, StandsJoin
  <1>4. Num(At(b, p, v), 2) = d
    BY <1>1, <1>3, ShortAt
  <1>5. Take(d, n) = At(b, p + 2 + n, data)
    <2>1. p + 2 \in Nat /\ Stands(b, p + 2, data)
      BY <1>2, <1>3
    <2>2. QED
      BY <2>1, TakeAt
  <1>6. d.val = n
    BY AtFields
  <1> HIDE DEF n, d
  <1>7. QED
    BY <1>4, <1>5, <1>6, Zenon DEF ReadCounted, n

LEMMA ClosedAt ==
  ASSUME NEW b \in Seq(Nat), NEW p \in Nat, NEW v, Stands(b, p, U8(0))
  PROVE  Closed(At(b, p, v)) = At(b, p + 1, v)
  <1> DEFINE c == At(b, p, v)
             d == At(b, p + 1, 0)
  <1>1. 0 \in Nat /\ 0 < Base
    BY Widths
  <1>2. Num(c, 1) = d
    BY <1>1, ByteAt
  <1>3. c.val = v /\ d.val = 0 /\ d.ok /\ With(d, v) = At(b, p + 1, v)
    BY AtFields, AtHolds
  <1> HIDE DEF c, d
  <1>4. Check(d, d.val = 0) = d
    BY <1>3, Zenon DEF Check
  <1>5. QED
    BY <1>2, <1>3, <1>4, Zenon DEF Closed, c

LEMMA StringAt ==
  ASSUME NEW b \in Seq(Nat), NEW p \in Nat, NEW v, NEW data \in Seq(Nat), Len(data) < Halfword,
         Stands(b, p, U16(Len(data)) \o data \o U8(0))
  PROVE  Closed(ReadCounted(At(b, p, v))) = At(b, p + 3 + Len(data), data)
  <1> DEFINE n == Len(data)
             x == U16(n) \o data
  <1>1. n \in Nat
    OBVIOUS
  <1>2. U16(n) \in Seq(Nat) /\ Len(U16(n)) = 2 /\ U8(0) \in Seq(Nat)
    BY <1>1, WidthOfNumbers
  <1>3. x \in Seq(Nat) /\ Len(x) = 2 + n
    BY <1>2, LengthOfTwo, ZenonT(60)
  <1>4. Stands(b, p, x) /\ Stands(b, p + Len(x), U8(0))
    <2>1. Stands(b, p, x \o U8(0))
      OBVIOUS
    <2> HIDE DEF x
    <2>2. QED
      BY <1>2, <1>3, <2>1, StandsJoin
  <1>5. ReadCounted(At(b, p, v)) = At(b, p + 2 + n, data)
    BY <1>4, CountedAt
  <1>6. Closed(At(b, p + 2 + n, data)) = At(b, p + 3 + n, data)
    <2>1. p + 2 + n \in Nat /\ Stands(b, p + 2 + n, U8(0)) /\ p + 2 + n + 1 = p + 3 + n
      <3>1. p + Len(x) = p + 2 + n
        BY <1>1, <1>3
      <3>2. QED
        BY <1>1, <1>4, <3>1
    <2>2. Closed(At(b, p + 2 + n, data)) = At(b, p + 2 + n + 1, data)
      BY <2>1, ClosedAt
    <2>3. QED
      BY <2>1, <2>2, Zenon
  <1>7. QED
    BY <1>5, <1>6, Zenon

--------------------------------------------------------------------------------
(* Literals, symbols and handlers.                                              *)

\* An integer that fits comes back as a small one.
Normal(entry) ==
  PoolValue(IF entry.type = "Int64" /\ FitsInt32(entry.data[1]) THEN "Int32" ELSE entry.type, entry.data)

ShortEntry(entry) == entry.type \in {"Str", "SStr"} => Len(entry.data) < Halfword

LEMMA AsAt ==
  ASSUME NEW b, NEW p, NEW v, NEW type
  PROVE  As(type, At(b, p, v)) = At(b, p, PoolValue(type, v))
  <1> DEFINE c == At(b, p, v)
  <1>1. c.val = v /\ With(c, PoolValue(type, v)) = At(b, p, PoolValue(type, v))
    BY AtFields, AtHolds
  <1> HIDE DEF c
  <1>2. QED
    BY <1>1, Zenon DEF As, c

\* x, which stands at p, is of the kind t.
Kinded(b, p, x, t, rest) ==
  /\ b \in Seq(Nat) /\ p \in Nat /\ t \in 0 .. 7 /\ rest \in Seq(Nat)
  /\ x = U8(t) \o rest /\ Stands(b, p, x)
EntryReads(b, p, x, val) == \A v : ReadPoolEntry(At(b, p, v)) = At(b, p + Len(x), val)
KindReads(b, p, x, t, rest) ==
  /\ \A v : ReadPoolEntry(At(b, p, v)) = ReadPoolEntryOf(At(b, p + 1, t))
  /\ At(b, p + 1, t).val = t /\ Stands(b, p + 1, rest) /\ Len(x) = 1 + Len(rest) /\ Len(rest) \in Nat

LEMMA KindAt ==
  ASSUME NEW b, NEW p, NEW x, NEW t, NEW rest, Kinded(b, p, x, t, rest)
  PROVE  KindReads(b, p, x, t, rest)
  <1>0. /\ b \in Seq(Nat) /\ p \in Nat /\ t \in 0 .. 7 /\ rest \in Seq(Nat)
        /\ x = U8(t) \o rest /\ Stands(b, p, x) /\ Len(rest) \in Nat
    BY DEF Kinded
  <1>1. t \in Nat /\ t < Base
    <2>1. Base >= 8
      BY BaseType
    <2>2. QED
      BY <1>0, <2>1, Widths
  <1>2. U8(t) \in Seq(Nat) /\ Len(U8(t)) = 1
    BY <1>1, WidthOfNumbers
  <1>3. Len(x) = Len(U8(t)) + Len(rest)
    BY <1>0, <1>2, LengthOfTwo
  <1>4. Stands(b, p, U8(t)) /\ Stands(b, p + Len(U8(t)), rest)
    BY <1>0, <1>2, StandsJoin
  <1>5. ASSUME NEW v PROVE ReadPoolEntry(At(b, p, v)) = ReadPoolEntryOf(At(b, p + 1, t))
    <2> DEFINE c == At(b, p, v)
               d == At(b, p + 1, t)
    <2>1. Num(c, 1) = d
      BY <1>0, <1>1, <1>4, ByteAt
    <2>2. d.ok
      BY AtFields
    <2> HIDE DEF c, d
    <2>3. ReadPoolEntry(c) = ReadPoolEntryOf(d)
      BY <2>1, <2>2, Zenon DEF ReadPoolEntry
    <2>4. QED
      BY <2>3, Zenon DEF c, d
  <1>6. At(b, p + 1, t).val = t
    BY AtFields
  <1>7. Stands(b, p + 1, rest) /\ Len(x) = 1 + Len(rest)
    BY <1>2, <1>3, <1>4, Zenon
  <1>8. QED
    BY <1>0, <1>5, <1>6, <1>7, Zenon DEF KindReads

LEMMA SmallIntegerAt ==
  ASSUME NEW b \in Seq(Nat), NEW p \in Nat, NEW w \in Int32s, NEW x, x = U8(1) \o U32(w), Stands(b, p, x)
  PROVE  EntryReads(b, p, x, PoolValue("Int32", <<w>>))
  <1> DEFINE d == At(b, p + 1, 1)
  <1>1. w \in Int
    BY IntegerTypes
  <1>2. U32(w) \in Seq(Nat) /\ Len(U32(w)) = 4
    BY <1>1, WidthOfNumbers
  <1>3. KindReads(b, p, x, 1, U32(w))
    <2>1. Kinded(b, p, x, 1, U32(w))
      BY <1>2 DEF Kinded
    <2>2. QED
      BY <2>1, KindAt, Zenon
  <1>4. /\ (\A v : ReadPoolEntry(At(b, p, v)) = ReadPoolEntryOf(d)) /\ d.val = 1
        /\ Stands(b, p + 1, U32(w)) /\ Len(x) = 1 + Len(U32(w))
    BY <1>3, Zenon DEF KindReads
  <1>5. Integer(Num(d, 4), Word) = At(b, p + 1 + 4, <<w>>)
    <2>1. p + 1 \in Nat /\ Stands(b, p + 1, U32(w))
      BY <1>4
    <2>2. QED
      BY <2>1, IntegerAt
  <1>6. As("Int32", At(b, p + 1 + 4, <<w>>)) = At(b, p + 1 + 4, PoolValue("Int32", <<w>>))
    BY AsAt, Zenon
  <1>7. p + 1 + 4 = p + Len(x)
    <2>1. Len(x) = 5
      BY <1>2, <1>4
    <2>2. QED
      BY <2>1
  <1> HIDE DEF d
  <1>8. ReadPoolEntryOf(d) = As("Int32", Integer(Num(d, 4), Word))
    <2>1. d.val = 1
      BY <1>4
    <2>2. QED
      BY <2>1 DEF ReadPoolEntryOf
  <1>9. QED
    BY <1>4, <1>5, <1>6, <1>7, <1>8, Zenon DEF EntryReads

LEMMA LargeIntegerAt ==
  ASSUME NEW b \in Seq(Nat), NEW p \in Nat, NEW w \in Int64s, NEW x, x = U8(3) \o U64(w), Stands(b, p, x)
  PROVE  EntryReads(b, p, x, PoolValue("Int64", <<w>>))
  <1> DEFINE d == At(b, p + 1, 3)
  <1>1. w \in Int
    BY IntegerTypes
  <1>2. U64(w) \in Seq(Nat) /\ Len(U64(w)) = 8
    BY <1>1, WidthOfNumbers
  <1>3. KindReads(b, p, x, 3, U64(w))
    <2>1. Kinded(b, p, x, 3, U64(w))
      BY <1>2 DEF Kinded
    <2>2. QED
      BY <2>1, KindAt, Zenon
  <1>4. /\ (\A v : ReadPoolEntry(At(b, p, v)) = ReadPoolEntryOf(d)) /\ d.val = 3
        /\ Stands(b, p + 1, U64(w)) /\ Len(x) = 1 + Len(U64(w))
    BY <1>3, Zenon DEF KindReads
  <1>5. Integer(Num(d, 8), Word * Word) = At(b, p + 1 + 8, <<w>>)
    <2>1. p + 1 \in Nat /\ Stands(b, p + 1, U64(w))
      BY <1>4
    <2>2. QED
      BY <2>1, IntegerAt
  <1>6. As("Int64", At(b, p + 1 + 8, <<w>>)) = At(b, p + 1 + 8, PoolValue("Int64", <<w>>))
    BY AsAt, Zenon
  <1>7. p + 1 + 8 = p + Len(x)
    <2>1. Len(x) = 9
      BY <1>2, <1>4
    <2>2. QED
      BY <2>1
  <1> HIDE DEF d
  <1>8. ReadPoolEntryOf(d) = As("Int64", Integer(Num(d, 8), Word * Word))
    <2>1. d.val = 3
      BY <1>4
    <2>2. QED
      BY <2>1 DEF ReadPoolEntryOf
  <1>9. QED
    BY <1>4, <1>5, <1>6, <1>7, <1>8, Zenon DEF EntryReads

LEMMA FloatAt ==
  ASSUME NEW b \in Seq(Nat), NEW p \in Nat, NEW data \in Seq(Nat), NEW x, x = U8(5) \o data,
         Stands(b, p, x)
  PROVE  Len(data) = 8 => EntryReads(b, p, x, PoolValue("Float", data))
  <1> SUFFICES ASSUME Len(data) = 8 PROVE EntryReads(b, p, x, PoolValue("Float", data))
    BY Zenon
  <1> DEFINE d == At(b, p + 1, 5)
  <1>1. KindReads(b, p, x, 5, data)
    <2>1. Kinded(b, p, x, 5, data)
      BY DEF Kinded
    <2>2. QED
      BY <2>1, KindAt, Zenon
  <1>2. /\ (\A v : ReadPoolEntry(At(b, p, v)) = ReadPoolEntryOf(d)) /\ d.val = 5
        /\ Stands(b, p + 1, data) /\ Len(x) = 1 + Len(data)
    BY <1>1, Zenon DEF KindReads
  <1>3. Take(d, 8) = At(b, p + 1 + 8, data)
    <2>1. p + 1 \in Nat /\ Stands(b, p + 1, data)
      BY <1>2
    <2>2. Take(d, Len(data)) = At(b, p + 1 + Len(data), data)
      BY <2>1, TakeAt, ZenonT(60)
    <2>3. QED
      BY <2>2, Zenon
  <1>4. As("Float", At(b, p + 1 + 8, data)) = At(b, p + 1 + 8, PoolValue("Float", data))
    BY AsAt, Zenon
  <1>5. p + 1 + 8 = p + Len(x)
    <2>1. Len(x) = 9
      BY <1>2
    <2>2. QED
      BY <2>1
  <1> HIDE DEF d
  <1>6. ReadPoolEntryOf(d) = As("Float", Take(d, 8))
    <2>1. d.val = 5
      BY <1>2
    <2>2. QED
      BY <2>1 DEF ReadPoolEntryOf
  <1>7. QED
    BY <1>2, <1>3, <1>4, <1>5, <1>6, Zenon DEF EntryReads

LEMMA SingleItem ==
  ASSUME NEW S, NEW s \in Seq(S), s # <<>>, Len(s) <= 1
  PROVE  s[1] \in S /\ s = <<s[1]>>
  <1>1. Len(s) \in Nat /\ Len(s) # 0
    BY EmptySeq
  <1>2. Len(s) = 1
    BY <1>1
  <1>3. 1 \in 1 .. Len(s)
    BY <1>2
  <1>4. s[1] \in S
    BY <1>3, ElementOfSeq, Zenon
  <1> DEFINE t == <<s[1]>>
  <1>5. t \in Seq(S) /\ Len(t) = 1 /\ t[1] = s[1]
    BY <1>4
  <1> HIDE DEF t
  <1>6. \A i \in 1 .. Len(s) : s[i] = t[i]
    BY <1>2, <1>5
  <1>7. s = t
    BY <1>2, <1>5, <1>6, SeqEqual, Zenon
  <1>8. QED
    BY <1>4, <1>7, Zenon DEF t

\* The first of a sequence, and the rest.
LEMMA SplitFirst ==
  ASSUME NEW s \in Seq(Nat), Len(s) >= 1
  PROVE  \E r \in Seq(Nat) : Len(r) = Len(s) - 1 /\ s = <<s[1]>> \o r
  <1> DEFINE n == Len(s)
             r == SubSeq(s, 2, n)
             t == <<s[1]>> \o r
  <1>1. n \in Nat /\ n >= 1 /\ s[1] \in Nat
    OBVIOUS
  <1>2. r \in Seq(Nat) /\ Len(r) = n - 1 /\ \A i \in 1 .. n - 1 : r[i] = s[i + 1]
    <2>1. \A i \in 2 .. n : s[i] \in Nat
      OBVIOUS
    <2> HIDE DEF r
    <2> HIDE DEF n
    <2>2. /\ r \in Seq(Nat) /\ Len(r) = (IF 2 <= n THEN n - 2 + 1 ELSE 0)
          /\ \A i \in 1 .. n - 2 + 1 : r[i] = s[2 + i - 1]
      BY <1>1, <2>1, SubSeqProperties DEF r
    <2>3. Len(r) = n - 1 /\ n - 2 + 1 = n - 1 /\ \A i \in 1 .. n - 1 : 2 + i - 1 = i + 1
      BY <1>1, <2>2
    <2>4. QED
      BY <2>2, <2>3, Zenon
  <1> HIDE DEF r
  <1>3. <<s[1]>> \in Seq(Nat) /\ Len(<<s[1]>>) = 1 /\ <<s[1]>>[1] = s[1]
    BY <1>1
  <1> DEFINE u == <<s[1]>>
  <1> HIDE DEF u
  <1>4. u \in Seq(Nat) /\ Len(u) = 1 /\ u[1] = s[1] /\ t = u \o r
    BY <1>3 DEF u
  <1> HIDE DEF t, n
  <1>5. t \in Seq(Nat) /\ Len(t) = n /\ t[1] = s[1] /\ \A i \in 2 .. n : t[i] = r[i - 1]
    <2> DEFINE w == u \o r
    <2>0. w = t
      BY <1>4
    <2>1. t \in Seq(Nat) /\ Len(t) = Len(u) + Len(r)
      <3>1. w \in Seq(Nat) /\ Len(w) = Len(u) + Len(r)
        BY <1>2, <1>4, LengthOfTwo
      <3> HIDE DEF w
      <3>2. QED
        BY <2>0, <3>1, Zenon
    <2>2. (\A k \in 1 .. Len(u) : t[k] = u[k]) /\ \A k \in 1 .. Len(r) : t[Len(u) + k] = r[k]
      <3>1. (\A k \in 1 .. Len(u) : w[k] = u[k]) /\ \A k \in 1 .. Len(r) : w[Len(u) + k] = r[k]
        <4>1. u \in Seq(Nat) /\ r \in Seq(Nat)
          BY <1>2, <1>4
        <4>2. QED
          BY <4>1
      <3> HIDE DEF w
      <3>2. QED
        BY <2>0, <3>1, Zenon
    <2>3. 1 \in 1 .. Len(u) /\ Len(t) = n
      BY <1>1, <1>2, <1>4, <2>1
    <2>4. ASSUME NEW i \in 2 .. n PROVE t[i] = r[i - 1]
      <3>1. i - 1 \in 1 .. Len(r) /\ Len(u) + (i - 1) = i
        BY <1>1, <1>2, <1>4
      <3>2. t[Len(u) + (i - 1)] = r[i - 1]
        BY <2>2, <3>1, Zenon
      <3>3. QED
        BY <3>1, <3>2, Zenon
    <2>5. t[1] = s[1]
      BY <1>4, <2>2, <2>3, Zenon
    <2>6. QED
      BY <2>1, <2>3, <2>4, <2>5, Zenon
  <1>6. ASSUME NEW i \in 1 .. n PROVE t[i] = s[i]
    <2>1. CASE i = 1
      BY <1>5, <2>1
    <2>2. CASE i # 1
      <3>1. i \in 2 .. n /\ i - 1 \in 1 .. n - 1 /\ (i - 1) + 1 = i
        BY <1>1, <2>2
      <3>2. QED
        BY <1>2, <1>5, <3>1, Zenon
    <2>3. QED
      BY <2>1, <2>2
  <1>7. t = s
    BY <1>5, <1>6, SeqEqual, Zenon DEF n
  <1>8. QED
    BY <1>2, <1>7, Zenon DEF t, n

LEMMA BigIntegerAt ==
  ASSUME NEW b \in Seq(Nat), NEW p \in Nat, NEW data \in BigInts, NEW x, x = U8(7) \o data, Stands(b, p, x)
  PROVE  EntryReads(b, p, x, PoolValue("BigInt", data))
  <1> DEFINE n    == data[1]
  <1>1. data \in Seq(Nat) /\ Len(data) >= 2 /\ n = Len(data) - 2 /\ n < Base /\ n \in Nat
    BY DEF BigInts
  <1>2. PICK rest \in Seq(Nat) : Len(rest) = Len(data) - 1 /\ data = <<data[1]>> \o rest
    <2>1. data \in Seq(Nat) /\ Len(data) >= 1
      BY <1>1
    <2>2. QED
      BY <2>1, SplitFirst, Zenon
  <1> HIDE DEF n
  <1>3. Len(rest) = n + 1 /\ data = <<n>> \o rest
    <2>1. Len(rest) = n + 1
      BY <1>1, <1>2
    <2>2. QED
      BY <1>2, <2>1, Zenon DEF n
  <1>4. U8(n) = <<n>>
    <2>1. n \in 0 .. Base - 1
      BY <1>1, Widths
    <2>2. n % Base = n
      BY <2>1, Widths, SmallRemainder
    <2>3. QED
      BY <2>2, Zenon DEF U8
  <1> DEFINE d == At(b, p + 1, 7)
  <1>5. KindReads(b, p, x, 7, data)
    <2>1. Kinded(b, p, x, 7, data)
      BY <1>1 DEF Kinded
    <2>2. QED
      BY <2>1, KindAt, Zenon
  <1>6. /\ (\A v : ReadPoolEntry(At(b, p, v)) = ReadPoolEntryOf(d)) /\ d.val = 7
        /\ Stands(b, p + 1, data) /\ Len(x) = 1 + Len(data)
    BY <1>5, Zenon DEF KindReads
  <1>7. U8(n) \in Seq(Nat) /\ Len(U8(n)) = 1
    BY <1>1, WidthOfNumbers
  <1> DEFINE q == p + 1
  <1>8. q \in Nat /\ q + 1 \in Nat
    OBVIOUS
  <1>9. Stands(b, q, U8(n)) /\ Stands(b, q + 1, rest)
    <2>1. Stands(b, q, U8(n) \o rest)
      BY <1>3, <1>4, <1>6, Zenon
    <2> HIDE DEF q
    <2>2. Stands(b, q, U8(n)) /\ Stands(b, q + Len(U8(n)), rest)
      BY <1>2, <1>7, <1>8, <2>1, StandsJoin
    <2>3. QED
      BY <1>7, <2>2, Zenon
  <1> DEFINE e == At(b, q + 1, n)
             f == At(b, q + 1 + (n + 1), rest)
             g == At(b, q + 1 + (n + 1), data)
  <1>10. Num(d, 1) = e
    <2>1. d = At(b, q, 7)
      BY Zenon
    <2> HIDE DEF d, q
    <2>2. QED
      BY <1>1, <1>8, <1>9, <2>1, ByteAt
  <1>11. Take(e, n + 1) = f
    <2> DEFINE k == q + 1
    <2>1. k \in Nat /\ Stands(b, k, rest)
      BY <1>8, <1>9, Zenon
    <2> HIDE DEF q, k
    <2>2. Take(At(b, k, n), Len(rest)) = At(b, k + Len(rest), rest)
      BY <1>2, <2>1, TakeAt, ZenonT(60)
    <2>3. QED
      BY <1>3, <2>2, Zenon DEF k
  <1>12. e.val = n /\ f.val = rest /\ With(f, data) = g
    BY AtFields, AtHolds
  <1>13. As("BigInt", g) = At(b, q + 1 + (n + 1), PoolValue("BigInt", data))
    BY AsAt, Zenon
  <1>14. q + 1 + (n + 1) = p + Len(x)
    <2>1. Len(x) = n + 3
      BY <1>1, <1>6
    <2> DEFINE l == Len(x)
    <2>2. l = n + 3
      BY <2>1
    <2> HIDE DEF l
    <2>3. p + 1 + 1 + (n + 1) = p + l
      BY <1>1, <2>2
    <2>4. QED
      BY <2>3, Zenon DEF l
  <1> HIDE DEF d, e, f, g
  <1>15. ReadBigInt(d) = g
    <2>1. With(f, <<n>> \o rest) = g
      BY <1>3, <1>12, Zenon
    <2>2. QED
      BY <1>10, <1>11, <1>12, <2>1, Zenon DEF ReadBigInt
  <1>16. ReadPoolEntryOf(d) = As("BigInt", ReadBigInt(d))
    <2>1. d.val = 7
      BY <1>6
    <2>2. QED
      BY <2>1 DEF ReadPoolEntryOf
  <1>17. QED
    BY <1>6, <1>13, <1>14, <1>15, <1>16, Zenon DEF EntryReads

LEMMA TextAt ==
  ASSUME NEW b \in Seq(Nat), NEW p \in Nat, NEW data, NEW t \in {0, 2}, NEW rest,
         rest = U16(Len(data)) \o data \o U8(0), NEW x, x = U8(t) \o rest, Stands(b, p, x)
  PROVE  data \in Seq(Nat) /\ Len(data) < Halfword
           => EntryReads(b, p, x, PoolValue(IF t = 0 THEN "Str" ELSE "SStr", data))
  <1> DEFINE n    == Len(data)
             d    == At(b, p + 1, t)
             type == IF t = 0 THEN "Str" ELSE "SStr"
  <1> SUFFICES ASSUME data \in Seq(Nat), n < Halfword PROVE EntryReads(b, p, x, PoolValue(type, data))
    BY Zenon
  <1>1. n \in Nat /\ t \in 0 .. 7
    OBVIOUS
  <1>2. U16(n) \in Seq(Nat) /\ Len(U16(n)) = 2 /\ U8(0) \in Seq(Nat) /\ Len(U8(0)) = 1
    BY <1>1, WidthOfNumbers
  <1>3. U16(n) \o data \in Seq(Nat) /\ Len(U16(n) \o data) = 2 + n
    BY <1>2, LengthOfTwo
  <1>4. rest \in Seq(Nat) /\ Len(rest) = 2 + n + 1
    BY <1>2, <1>3, LengthOfTwo
  <1>5. KindReads(b, p, x, t, rest)
    <2>1. Kinded(b, p, x, t, rest)
      BY <1>1, <1>4, Zenon DEF Kinded
    <2>2. QED
      BY <2>1, KindAt, Zenon
  <1>6. /\ (\A v : ReadPoolEntry(At(b, p, v)) = ReadPoolEntryOf(d)) /\ d.val = t
        /\ Stands(b, p + 1, rest) /\ Len(x) = 1 + Len(rest)
    BY <1>5, Zenon DEF KindReads
  <1> DEFINE q == p + 1
  <1>7. Closed(ReadCounted(d)) = At(b, q + 3 + n, data)
    <2>1. q \in Nat
      OBVIOUS
    <2>2. Stands(b, q, U16(n) \o data \o U8(0)) /\ d = At(b, q, t)
      BY <1>6, Zenon
    <2> HIDE DEF q, d
    <2>3. QED
      BY <2>1, <2>2, StringAt
  <1>8. As(type, At(b, q + 3 + n, data)) = At(b, q + 3 + n, PoolValue(type, data))
    BY AsAt, Zenon
  <1>9. q + 3 + n = p + Len(x)
    <2>1. Len(x) = n + 4
      BY <1>1, <1>4, <1>6
    <2> DEFINE l == Len(x)
    <2>2. l = n + 4
      BY <2>1
    <2> HIDE DEF l, n
    <2>3. p + 1 + 3 + n = p + l
      BY <1>1, <2>2
    <2>4. QED
      BY <2>3, Zenon DEF l
  <1> HIDE DEF d, q
  <1>10. ReadPoolEntryOf(d) = As(type, Closed(ReadCounted(d)))
    <2>0. d.val = t
      BY <1>6
    <2>1. CASE t = 0
      BY <2>0, <2>1 DEF ReadPoolEntryOf
    <2>2. CASE t = 2
      BY <2>0, <2>2 DEF ReadPoolEntryOf
    <2>3. QED
      BY <2>1, <2>2
  <1>11. QED
    BY <1>6, <1>7, <1>8, <1>9, <1>10, Zenon DEF EntryReads

LEMMA EntryAt ==
  ASSUME NEW b \in Seq(Nat), NEW p \in Nat, NEW v, NEW entry \in PoolValues, ShortEntry(entry),
         Stands(b, p, PoolEntry(entry))
  PROVE  ReadPoolEntry(At(b, p, v)) = At(b, p + Len(PoolEntry(entry)), Normal(entry))
  <1> DEFINE x    == PoolEntry(entry)
             data == entry.data
  <1>1. Stands(b, p, x)
    OBVIOUS
  <1>2. CASE entry.type = "Int32" /\ data \in [1 .. 1 -> Int32s]
    <2>1. x = U8(1) \o U32(data[1])
      BY <1>2 DEF PoolEntry
    <2>2. data[1] \in Int32s /\ data = <<data[1]>>
      BY <1>2
    <2>3. Normal(entry) = PoolValue("Int32", data)
      BY <1>2 DEF Normal
    <2> HIDE DEF x, data
    <2>4. EntryReads(b, p, x, PoolValue("Int32", <<data[1]>>))
      BY <1>1, <2>1, <2>2, SmallIntegerAt
    <2>5. QED
      BY <2>2, <2>3, <2>4, Zenon DEF x, EntryReads
  <1>3. CASE entry.type = "Int64" /\ data \in [1 .. 1 -> Int64s]
    <2>1. data[1] \in Int64s /\ data = <<data[1]>>
      BY <1>3
    <2>2. CASE FitsInt32(data[1])
      <3>1. x = U8(1) \o U32(data[1])
        BY <1>3, <2>2 DEF PoolEntry
      <3>2. data[1] \in Int32s
        <4>1. data[1] \in Int /\ Word \div 2 \in Int
          <5>1. 2 \in Nat /\ 2 > 0 /\ Word \in Int
            BY Widths
          <5>2. QED
            BY <2>1, <5>1, IntegerTypes, DivisionType
        <4>2. QED
          BY <2>2, <4>1 DEF FitsInt32, Int32s
      <3>3. Normal(entry) = PoolValue("Int32", data)
        BY <1>3, <2>2 DEF Normal
      <3> HIDE DEF x, data
      <3>4. EntryReads(b, p, x, PoolValue("Int32", <<data[1]>>))
        BY <1>1, <3>1, <3>2, SmallIntegerAt
      <3>5. QED
        BY <2>1, <3>3, <3>4, Zenon DEF x, EntryReads
    <2>3. CASE ~FitsInt32(data[1])
      <3>1. x = U8(3) \o U64(data[1])
        BY <1>3, <2>3 DEF PoolEntry
      <3>2. Normal(entry) = PoolValue("Int64", data)
        BY <1>3, <2>3 DEF Normal
      <3> HIDE DEF x, data
      <3>3. EntryReads(b, p, x, PoolValue("Int64", <<data[1]>>))
        BY <1>1, <2>1, <3>1, LargeIntegerAt
      <3>4. QED
        BY <2>1, <3>2, <3>3, Zenon DEF x, EntryReads
    <2>4. QED
      BY <2>2, <2>3, Zenon
  <1>4. CASE entry.type = "Float" /\ data \in [1 .. 8 -> Nat]
    <2>1. x = U8(5) \o data
      BY <1>4 DEF PoolEntry
    <2>2. data \in Seq(Nat) /\ Len(data) = 8
      <3>1. 8 \in Nat
        OBVIOUS
      <3>2. QED
        BY <1>4, <3>1, ListIs, Zenon
    <2>3. Normal(entry) = PoolValue("Float", data)
      BY <1>4 DEF Normal
    <2> HIDE DEF x, data
    <2>4. EntryReads(b, p, x, PoolValue("Float", data))
      BY <1>1, <2>1, <2>2, FloatAt
    <2>5. QED
      BY <2>3, <2>4, Zenon DEF x, EntryReads
  <1>5. CASE entry.type = "BigInt" /\ data \in BigInts
    <2>1. x = U8(7) \o data
      BY <1>5 DEF PoolEntry
    <2>2. Normal(entry) = PoolValue("BigInt", data)
      BY <1>5 DEF Normal
    <2> HIDE DEF x
    <2>3. data \in BigInts
      BY <1>5
    <2> HIDE DEF data
    <2>4. EntryReads(b, p, x, PoolValue("BigInt", data))
      BY <1>1, <2>1, <2>3, BigIntegerAt
    <2>5. QED
      BY <2>2, <2>4, Zenon DEF x, EntryReads
  <1>6. CASE entry.type \in {"Str", "SStr"} /\ data \in Seq(Nat)
    <2> DEFINE t == IF entry.type = "Str" THEN 0 ELSE 2
    <2>1. t \in {0, 2} /\ entry.type = IF t = 0 THEN "Str" ELSE "SStr"
      BY <1>6
    <2> DEFINE rest == U16(Len(data)) \o data \o U8(0)
    <2>2. x = U8(t) \o rest
      <3> DEFINE m == U16(Len(data))
      <3>1. x = U8(t) \o m \o data \o U8(0)
        BY <1>6 DEF PoolEntry
      <3>2. Len(data) \in Nat /\ t \in Nat
        BY <1>6
      <3>3. U8(t) \in Seq(Nat) /\ m \in Seq(Nat) /\ U8(0) \in Seq(Nat) /\ data \in Seq(Nat)
        BY <1>6, <3>2, WidthOfNumbers
      <3> HIDE DEF m
      <3>4. U8(t) \o m \o data = U8(t) \o (m \o data) /\ m \o data \in Seq(Nat)
        BY <3>3, JoinsThree, ConcatProperties, ZenonT(60)
      <3>5. U8(t) \o (m \o data) \o U8(0) = U8(t) \o (m \o data \o U8(0))
        BY <3>3, <3>4, JoinsThree, ZenonT(60)
      <3> HIDE DEF x, t, data
      <3>6. QED
        BY <3>1, <3>4, <3>5, Zenon DEF m
    <2>3. Normal(entry) = PoolValue(entry.type, data)
      BY <1>6 DEF Normal
    <2>4. data \in Seq(Nat) /\ Len(data) < Halfword
      BY <1>6 DEF ShortEntry
    <2> HIDE DEF x, data, t, rest
    <2>5. EntryReads(b, p, x, PoolValue(IF t = 0 THEN "Str" ELSE "SStr", data))
      <3>1. rest = U16(Len(data)) \o data \o U8(0)
        BY Zenon DEF rest
      <3>2. QED
        BY <1>1, <2>1, <2>2, <2>4, <3>1, TextAt
    <2>6. QED
      BY <2>1, <2>3, <2>5, Zenon DEF x, EntryReads
  <1>7. QED
    BY <1>2, <1>3, <1>4, <1>5, <1>6, PoolShape

\* A symbol.
ShortSym(name) == name # <<>> => Len(name[1]) < NullMark

LEMMA SymAt ==
  ASSUME NEW b \in Seq(Nat), NEW p \in Nat, NEW v, NEW name \in Optional(Seq(Nat)), ShortSym(name),
         Stands(b, p, Sym(name))
  PROVE  ReadSym(At(b, p, v)) = At(b, p + Len(Sym(name)), name)
  <1> DEFINE c == At(b, p, v)
  <1>1. NullMark \in Nat /\ NullMark < Halfword
    BY Widths DEF NullMark
  <1>2. CASE name = <<>>
    <2> DEFINE d == At(b, p + 2, NullMark)
    <2>1. Sym(name) = U16(NullMark)
      BY <1>2, Zenon DEF Sym
    <2>2. Stands(b, p, U16(NullMark)) /\ Len(Sym(name)) = 2
      <3>1. Len(U16(NullMark)) = 2
        BY <1>1, WidthOfNumbers
      <3>2. QED
        BY <2>1, <3>1, Zenon
    <2>3. Num(c, 2) = d
      BY <1>1, <2>2, ShortAt
    <2>4. d.ok /\ d.val = NullMark /\ With(d, <<>>) = At(b, p + 2, <<>>)
      BY AtFields, AtHolds
    <2> HIDE DEF d, c
    <2>5. ReadSym(c) = At(b, p + 2, <<>>)
      BY <2>3, <2>4, Zenon DEF ReadSym, ReadSymOf
    <2>6. QED
      BY <1>2, <2>2, <2>5, Zenon DEF c
  <1>3. CASE name # <<>>
    <2> DEFINE data == name[1]
               n    == Len(data)
               d    == At(b, p + 2, n)
    <2>1. data \in Seq(Nat) /\ name = <<data>>
      <3>1. name \in Seq(Seq(Nat)) /\ Len(name) <= 1
        BY DEF Optional
      <3>2. QED
        BY <1>3, <3>1, SingleItem, Zenon
    <2>2. n \in Nat /\ n < NullMark
      BY <1>3, <2>1 DEF ShortSym
    <2>3. Sym(name) = U16(n) \o data \o U8(0)
      BY <1>3, Zenon DEF Sym
    <2> HIDE DEF data
    <2>4. U16(n) \in Seq(Nat) /\ Len(U16(n)) = 2 /\ U8(0) \in Seq(Nat) /\ Len(U8(0)) = 1
      BY <2>2, WidthOfNumbers
    <2> DEFINE x == U16(n) \o data
    <2>5. x \in Seq(Nat) /\ Len(x) = 2 + n
      BY <2>1, <2>4, LengthOfTwo
    <2>6. Stands(b, p, x) /\ Stands(b, p + Len(x), U8(0)) /\ Len(Sym(name)) = 2 + n + 1
      <3>1. Stands(b, p, x \o U8(0))
        BY <2>3, Zenon
      <3> HIDE DEF x
      <3>2. Len(x \o U8(0)) = Len(x) + Len(U8(0))
        BY <2>4, <2>5, LengthOfTwo
      <3>3. Stands(b, p, x) /\ Stands(b, p + Len(x), U8(0))
        BY <2>4, <2>5, <3>1, StandsJoin
      <3>4. Len(Sym(name)) = Len(x \o U8(0))
        BY <2>3, Zenon DEF x
      <3>5. QED
        BY <2>2, <2>4, <2>5, <3>2, <3>3, <3>4
    <2>7. Stands(b, p, U16(n)) /\ Stands(b, p + 2, data)
      <3>1. Stands(b, p, U16(n)) /\ Stands(b, p + Len(U16(n)), data)
        BY <2>1, <2>4, <2>6, StandsJoin
      <3>2. QED
        BY <2>4, <3>1, Zenon
    <2>8. Num(c, 2) = d
      <3>1. n < Halfword
        <4> HIDE DEF n
        <4>1. QED
          BY <1>1, <2>2, Widths
      <3>2. QED
        BY <2>2, <2>7, <3>1, ShortAt
    <2> DEFINE e == At(b, p + 2 + n, data)
               f == At(b, p + 2 + n + 1, data)
    <2>9. Take(d, n) = e
      <3>1. p + 2 \in Nat
        OBVIOUS
      <3>2. QED
        BY <2>1, <2>7, <3>1, TakeAt
    <2>10. Closed(e) = f
      <3>1. p + 2 + n \in Nat /\ p + Len(x) = p + 2 + n
        BY <2>2, <2>5
      <3>2. Stands(b, p + 2 + n, U8(0))
        BY <2>6, <3>1, Zenon
      <3>3. QED
        BY <3>1, <3>2, ClosedAt
    <2>11. d.ok /\ d.val = n /\ f.val = data /\ With(f, name) = At(b, p + 2 + n + 1, name)
      BY AtFields, AtHolds
    <2>12. n # NullMark
      BY <1>1, <2>2
    <2>13. p + 2 + n + 1 = p + Len(Sym(name))
      BY <2>2, <2>6
    <2> HIDE DEF c, d, e, f, n
    <2>14. ReadSymOf(d) = With(f, <<f.val>>)
      BY <2>9, <2>10, <2>11, <2>12, Zenon DEF ReadSymOf
    <2>15. ReadSym(c) = ReadSymOf(d)
      BY <2>8, <2>11, Zenon DEF ReadSym
    <2>16. <<f.val>> = name
      BY <2>1, <2>11, Zenon
    <2>17. QED
      BY <2>11, <2>13, <2>14, <2>15, <2>16, Zenon DEF c
  <1>4. QED
    BY <1>2, <1>3

LEMMA HandlerAt ==
  ASSUME NEW b \in Seq(Nat), NEW p \in Nat, NEW v, NEW h \in Handlers, Stands(b, p, Handler(h))
  PROVE  ReadHandler(At(b, p, v)) = At(b, p + Len(Handler(h)), h)
  <1> DEFINE parts == <<U8(h.kind), U32(h.begin), U32(h.end), U32(h.target)>>
             nums  == [i \in 1 .. Len(parts) |-> Number(parts[i])]
             w     == <<1, 4, 4, 4>>
  <1>1. /\ h.kind \in Nat /\ h.begin \in Nat /\ h.end \in Nat /\ h.target \in Nat
        /\ h.kind < Base /\ h.begin < Word /\ h.end < Word /\ h.target < Word
    BY Widths DEF Handlers
  <1>2. /\ U8(h.kind) \in Seq(Nat) /\ U32(h.begin) \in Seq(Nat) /\ U32(h.end) \in Seq(Nat)
        /\ U32(h.target) \in Seq(Nat) /\ Len(U8(h.kind)) = 1 /\ Len(U32(h.begin)) = 4
        /\ Len(U32(h.end)) = 4 /\ Len(U32(h.target)) = 4
    BY <1>1, WidthOfNumbers
  <1>3. /\ Number(U8(h.kind)) = h.kind /\ Number(U32(h.begin)) = h.begin
        /\ Number(U32(h.end)) = h.end /\ Number(U32(h.target)) = h.target
    BY <1>1, NumberFits
  <1>4. Handler(h) = FlattenSeq(parts)
    <2>1. JoinsFour(U8(h.kind), U32(h.begin), U32(h.end), U32(h.target))
      BY <1>2, FlattenFour, Zenon
    <2>2. FlattenSeq(parts) = U8(h.kind) \o U32(h.begin) \o U32(h.end) \o U32(h.target)
      BY <2>1, Zenon DEF JoinsFour
    <2> HIDE DEF parts
    <2>3. QED
      BY <2>2, Zenon DEF Handler
  <1>5. /\ parts \in Seq(Seq(Nat)) /\ Len(parts) = 4
        /\ parts[1] = U8(h.kind) /\ parts[2] = U32(h.begin) /\ parts[3] = U32(h.end)
        /\ parts[4] = U32(h.target)
    BY <1>2
  <1> HIDE DEF parts
  <1>6. w = [i \in 1 .. Len(parts) |-> Len(parts[i])]
    <2>1. Len(parts[1]) = 1 /\ Len(parts[2]) = 4 /\ Len(parts[3]) = 4 /\ Len(parts[4]) = 4
      BY <1>2, <1>5, Zenon
    <2>2. w = [i \in 1 .. 4 |-> w[i]] /\ w[1] = 1 /\ w[2] = 4 /\ w[3] = 4 /\ w[4] = 4
      OBVIOUS
    <2> HIDE DEF w
    <2>3. \A i \in 1 .. 4 : w[i] = Len(parts[i])
      <3>1. \A i \in 1 .. 4 : i = 1 \/ i = 2 \/ i = 3 \/ i = 4
        OBVIOUS
      <3>2. QED
        BY <2>1, <2>2, <3>1, Zenon
    <2>4. QED
      BY <1>5, <2>2, <2>3, Zenon
  <1>7. /\ Len(parts) = 4 /\ nums[1] = h.kind /\ nums[2] = h.begin /\ nums[3] = h.end
        /\ nums[4] = h.target
    <2>1. /\ 1 \in 1 .. Len(parts) /\ 2 \in 1 .. Len(parts) /\ 3 \in 1 .. Len(parts)
          /\ 4 \in 1 .. Len(parts)
      BY <1>5
    <2>2. QED
      BY <1>3, <1>5, <2>1, Zenon
  <1> DEFINE d == At(b, p + Len(FlattenSeq(parts)), nums)
  <1>8. Nums(At(b, p, v), w) = d
    <2> HIDE DEF w
    <2>1. Stands(b, p, FlattenSeq(parts))
      BY <1>4, Zenon
    <2>2. Divided(b, p, parts, w)
      BY <1>5, <1>6, <2>1, Zenon DEF Divided
    <2>3. FieldsRead(b, p, v, parts, w)
      BY <2>2, FieldsAt, Zenon
    <2>4. QED
      BY <2>3, Zenon DEF FieldsRead
  <1>9. h = [kind |-> nums[1], begin |-> nums[2], end |-> nums[3], target |-> nums[4]]
    <2> HIDE DEF nums
    <2>1. h = [kind |-> h.kind, begin |-> h.begin, end |-> h.end, target |-> h.target]
      BY DEF Handlers
    <2>2. QED
      BY <1>7, <2>1, Zenon
  <1>10. d.val = nums /\ With(d, h) = At(b, p + Len(FlattenSeq(parts)), h)
    BY AtFields, AtHolds
  <1> HIDE DEF d, nums
  <1>11. HandlerOf(d) = With(d, h)
    BY <1>9, <1>10, Zenon DEF HandlerOf
  <1>12. QED
    BY <1>4, <1>8, <1>10, <1>11, Zenon DEF ReadHandler

--------------------------------------------------------------------------------
(* Lists.                                                                       *)

\* The parts stand one after the other, and one item reads them all, each as its value.
TakesEach(item, b, q, parts, vals) ==
  /\ b \in Seq(Nat) /\ q \in Nat /\ parts \in Seq(Seq(Nat)) /\ Stands(b, q, FlattenSeq(parts))
  /\ IsSequence(vals) /\ Len(vals) = Len(parts)
  /\ \A i \in 1 .. Len(parts) : Takes(item, b, parts[i], vals[i])
ItemsRead(item, b, q, v, parts, vals) ==
  InTurn(At(b, q, v), [i \in 1 .. Len(parts) |-> item]) = At(b, q + Len(FlattenSeq(parts)), vals)

LEMMA ItemsAt ==
  ASSUME NEW item, NEW b, NEW q, NEW v, NEW parts, NEW vals, TakesEach(item, b, q, parts, vals)
  PROVE  ItemsRead(item, b, q, v, parts, vals)
  <1>0. /\ b \in Seq(Nat) /\ q \in Nat /\ parts \in Seq(Seq(Nat)) /\ Stands(b, q, FlattenSeq(parts))
        /\ IsSequence(vals) /\ Len(vals) = Len(parts)
        /\ \A i \in 1 .. Len(parts) : Takes(item, b, parts[i], vals[i])
    BY Zenon DEF TakesEach
  <1> DEFINE n     == Len(parts)
             items == [i \in 1 .. n |-> item]
  <1>1. n \in Nat
    BY <1>0
  <1>2. items \in [1 .. n -> {item}] /\ \A i \in 1 .. n : items[i] = item
    OBVIOUS
  <1> HIDE DEF n, items
  <1>3. Len(items) = n
    BY <1>1, <1>2, ListIs
  <1>4. TakeAll(items, b, parts, vals)
    BY <1>0, <1>2, <1>3, Zenon DEF TakeAll, n
  <1>5. InTurn(At(b, q, v), items) = At(b, q + Len(FlattenSeq(parts)), vals)
    BY <1>0, <1>4, InTurnReads
  <1>6. QED
    BY <1>5, Zenon DEF items, n, ItemsRead

LEMMA HandlersAt ==
  ASSUME NEW b \in Seq(Nat), NEW q \in Nat, NEW v, NEW hs \in Seq(Handlers),
         Stands(b, q, Joined(Handler, hs))
  PROVE  Times(At(b, q, v), Len(hs), ReadHandler) = At(b, q + Len(Joined(Handler, hs)), hs)
  <1> DEFINE c     == At(b, q, v)
             item  == From(c, ReadHandler)
             parts == Each(Handler, hs)
  <1>1. DOMAIN hs = 1 .. Len(hs) /\ Len(hs) \in Nat /\ IsSequence(hs)
        /\ \A i \in 1 .. Len(hs) : hs[i] \in Handlers
    BY Zenon, LenProperties, ElementOfSeq DEF IsSequence
  <1>2. parts = [i \in 1 .. Len(hs) |-> Handler(hs[i])]
    BY <1>1, Zenon DEF Each
  <1> HIDE DEF parts
  <1>3. parts \in Seq(Seq(Nat)) /\ Len(parts) = Len(hs) /\ \A i \in 1 .. Len(hs) : parts[i] = Handler(hs[i])
    <2>1. \A i \in DOMAIN hs : parts[i] \in Seq(Nat)
      BY <1>1, <1>2, HandlerBytes, Zenon
    <2>2. parts = [i \in DOMAIN hs |-> parts[i]]
      BY <1>1, <1>2, Zenon
    <2>3. parts \in Seq(Seq(Nat)) /\ Len(parts) = Len(hs)
      BY <1>1, <2>1, <2>2, JoinedBytes, Zenon
    <2>4. QED
      BY <1>2, <2>3, Zenon
  <1>4. c.in = b
    BY AtFields
  <1>5. ASSUME NEW i \in 1 .. Len(parts) PROVE Takes(item, b, parts[i], hs[i])
    <2>1. hs[i] \in Handlers /\ parts[i] = Handler(hs[i])
      BY <1>1, <1>3, Zenon
    <2>2. ASSUME NEW p \in 0 .. Len(b), Stands(b, p, parts[i])
          PROVE  item[p] = At(b, p + Len(parts[i]), hs[i])
      <3>1. Moved(c, p) = At(b, p, v)
        BY AtMoved, Zenon
      <3> HIDE DEF c
      <3>2. p \in 0 .. Len(c.in)
        BY <1>4, Zenon
      <3>3. item[p] = ReadHandler(Moved(c, p))
        BY <3>2, Zenon DEF From, Moved
      <3>4. p \in Nat /\ Stands(b, p, Handler(hs[i]))
        BY <2>1, <2>2
      <3>5. ReadHandler(At(b, p, v)) = At(b, p + Len(Handler(hs[i])), hs[i])
        BY <2>1, <3>4, HandlerAt
      <3>6. QED
        BY <2>1, <3>1, <3>3, <3>5, Zenon
    <2> HIDE DEF item
    <2>3. QED
      BY <2>2, Zenon DEF Takes
  <1> HIDE DEF item, c
  <1>6. Stands(b, q, FlattenSeq(parts)) /\ FlattenSeq(parts) = Joined(Handler, hs)
    BY Zenon DEF Joined, parts
  <1>7. TakesEach(item, b, q, parts, hs)
    BY <1>1, <1>3, <1>5, <1>6, Zenon DEF TakesEach
  <1>8. InTurn(At(b, q, v), [i \in 1 .. Len(parts) |-> item]) = At(b, q + Len(FlattenSeq(parts)), hs)
    <2>1. ItemsRead(item, b, q, v, parts, hs)
      BY <1>7, ItemsAt, Zenon
    <2>2. QED
      BY <2>1, Zenon DEF ItemsRead
  <1>9. Times(c, Len(hs), ReadHandler) = InTurn(c, [i \in 1 .. Len(hs) |-> item])
    BY Zenon DEF Times, item
  <1>10. QED
    BY <1>3, <1>6, <1>8, <1>9, Zenon DEF c

LEMMA NormalTyped ==
  ASSUME NEW entry \in PoolValues
  PROVE  Normal(entry) \in PoolValues
  <1>1. PICK types, values : entry \in Valued(types, values) /\ Valued(types, values) \subseteq PoolValues
    <2>1. \/ entry \in Valued({"Int32"}, [1 .. 1 -> Int32s]) \/ entry \in Valued({"Int64"}, [1 .. 1 -> Int64s])
          \/ entry \in Valued({"Float"}, [1 .. 8 -> Nat]) \/ entry \in Valued({"BigInt"}, BigInts)
          \/ entry \in Valued({"Str", "SStr"}, Seq(Nat))
      BY Zenon DEF PoolValues, Strings
    <2>2. QED
      BY <2>1, Zenon DEF PoolValues, Strings
  <1>2. entry = PoolValue(entry.type, entry.data)
    BY <1>1 DEF Valued, PoolValue
  <1>3. CASE entry.type = "Int64" /\ FitsInt32(entry.data[1])
    <2>1. entry.data \in [1 .. 1 -> Int64s]
      BY <1>3, PoolShape
    <2>2. entry.data[1] \in Int64s /\ entry.data = [i \in 1 .. 1 |-> entry.data[i]]
      BY <2>1
    <2>3. entry.data[1] \in Int32s
      BY <1>3, <2>2, Widths DEF Int32s, Int64s, FitsInt32
    <2>4. entry.data \in [1 .. 1 -> Int32s]
      BY <2>2, <2>3
    <2>5. PoolValue("Int32", entry.data) \in Valued({"Int32"}, [1 .. 1 -> Int32s])
      BY <2>4, Zenon DEF Valued, PoolValue
    <2>6. QED
      BY <1>3, <2>5, Zenon DEF PoolValues, Normal
  <1>4. CASE ~(entry.type = "Int64" /\ FitsInt32(entry.data[1]))
    BY <1>2, <1>4, Zenon DEF Normal
  <1>5. QED
    BY <1>3, <1>4

LEMMA EachNormal ==
  ASSUME NEW pool \in Seq(PoolValues)
  PROVE  /\ Each(Normal, pool) \in Seq(PoolValues) /\ Len(Each(Normal, pool)) = Len(pool)
         /\ DOMAIN Each(Normal, pool) = 1 .. Len(pool)
         /\ \A i \in 1 .. Len(pool) : Each(Normal, pool)[i] = Normal(pool[i])
  <1>1. DOMAIN pool = 1 .. Len(pool) /\ Len(pool) \in Nat
        /\ \A i \in 1 .. Len(pool) : pool[i] \in PoolValues
    BY Zenon, LenProperties, ElementOfSeq
  <1> DEFINE s == [i \in 1 .. Len(pool) |-> Normal(pool[i])]
  <1>2. s = Each(Normal, pool)
    BY <1>1, Zenon DEF Each
  <1>3. ASSUME NEW entry \in PoolValues PROVE Normal(entry) \in PoolValues
    BY NormalTyped
  <1>4. s \in [1 .. Len(pool) -> PoolValues] /\ \A i \in 1 .. Len(pool) : s[i] = Normal(pool[i])
    BY <1>1, <1>3, Zenon
  <1> HIDE DEF s
  <1>5. s \in Seq(PoolValues) /\ Len(s) = Len(pool)
    BY <1>1, <1>4, ListIs
  <1>6. DOMAIN s = 1 .. Len(pool)
    BY <1>4, Zenon
  <1>7. QED
    BY <1>2, <1>4, <1>5, <1>6, Zenon

LEMMA PoolAt ==
  ASSUME NEW b \in Seq(Nat), NEW q \in Nat, NEW v, NEW vs \in Seq(PoolValues), \A i \in DOMAIN vs : ShortEntry(vs[i]),
         Stands(b, q, Joined(PoolEntry, vs))
  PROVE  Times(At(b, q, v), Len(vs), ReadPoolEntry) = At(b, q + Len(Joined(PoolEntry, vs)), Each(Normal, vs))
  <1> DEFINE c     == At(b, q, v)
             item  == From(c, ReadPoolEntry)
             parts == Each(PoolEntry, vs)
             vals  == Each(Normal, vs)
  <1>1. DOMAIN vs = 1 .. Len(vs) /\ Len(vs) \in Nat /\ IsSequence(vs)
        /\ \A i \in 1 .. Len(vs) : vs[i] \in PoolValues
    BY Zenon, LenProperties, ElementOfSeq DEF IsSequence
  <1>2. parts = [i \in 1 .. Len(vs) |-> PoolEntry(vs[i])]
    BY <1>1, Zenon DEF Each
  <1>0. IsSequence(vals) /\ Len(vals) = Len(vs) /\ \A i \in 1 .. Len(vs) : vals[i] = Normal(vs[i])
    BY EachNormal, Zenon DEF IsSequence
  <1> HIDE DEF parts, vals
  <1>3. parts \in Seq(Seq(Nat)) /\ Len(parts) = Len(vs) /\ \A i \in 1 .. Len(vs) : parts[i] = PoolEntry(vs[i])
    <2>1. \A i \in DOMAIN vs : parts[i] \in Seq(Nat)
      BY <1>1, <1>2, EntryBytes, Zenon
    <2>2. parts = [i \in DOMAIN vs |-> parts[i]]
      BY <1>1, <1>2, Zenon
    <2>3. parts \in Seq(Seq(Nat)) /\ Len(parts) = Len(vs)
      BY <1>1, <2>1, <2>2, JoinedBytes, Zenon
    <2>4. QED
      BY <1>2, <2>3, Zenon
  <1>4. c.in = b
    BY AtFields
  <1>5. ASSUME NEW i \in 1 .. Len(parts) PROVE Takes(item, b, parts[i], vals[i])
    <2>1. vs[i] \in PoolValues /\ parts[i] = PoolEntry(vs[i]) /\ vals[i] = Normal(vs[i]) /\ ShortEntry(vs[i])
      BY <1>0, <1>1, <1>3, Zenon
    <2>2. ASSUME NEW p \in 0 .. Len(b), Stands(b, p, parts[i])
          PROVE  item[p] = At(b, p + Len(parts[i]), vals[i])
      <3>1. Moved(c, p) = At(b, p, v)
        BY AtMoved, Zenon
      <3> HIDE DEF c
      <3>2. p \in 0 .. Len(c.in)
        BY <1>4, Zenon
      <3>3. item[p] = ReadPoolEntry(Moved(c, p))
        BY <3>2, Zenon DEF From, Moved
      <3>4. p \in Nat /\ Stands(b, p, PoolEntry(vs[i]))
        BY <2>1, <2>2
      <3>5. ReadPoolEntry(At(b, p, v)) = At(b, p + Len(PoolEntry(vs[i])), Normal(vs[i]))
        BY <2>1, <3>4, EntryAt
      <3>6. QED
        BY <2>1, <3>1, <3>3, <3>5, Zenon
    <2> HIDE DEF item
    <2>3. QED
      BY <2>2, Zenon DEF Takes
  <1> HIDE DEF item, c
  <1>6. Stands(b, q, FlattenSeq(parts)) /\ FlattenSeq(parts) = Joined(PoolEntry, vs)
    BY Zenon DEF Joined, parts
  <1>7. TakesEach(item, b, q, parts, vals)
    BY <1>0, <1>1, <1>3, <1>5, <1>6, Zenon DEF TakesEach
  <1>8. InTurn(At(b, q, v), [i \in 1 .. Len(parts) |-> item]) = At(b, q + Len(FlattenSeq(parts)), vals)
    <2>1. ItemsRead(item, b, q, v, parts, vals)
      BY <1>7, ItemsAt, Zenon
    <2>2. QED
      BY <2>1, Zenon DEF ItemsRead
  <1>9. Times(c, Len(vs), ReadPoolEntry) = InTurn(c, [i \in 1 .. Len(vs) |-> item])
    BY Zenon DEF Times, item
  <1>10. QED
    BY <1>3, <1>6, <1>8, <1>9, Zenon DEF c, vals

LEMMA SymsAt ==
  ASSUME NEW b \in Seq(Nat), NEW q \in Nat, NEW v, NEW vs \in Seq(Optional(Seq(Nat))), \A i \in DOMAIN vs : ShortSym(vs[i]),
         Stands(b, q, Joined(Sym, vs))
  PROVE  Times(At(b, q, v), Len(vs), ReadSym) = At(b, q + Len(Joined(Sym, vs)), vs)
  <1> DEFINE c     == At(b, q, v)
             item  == From(c, ReadSym)
             parts == Each(Sym, vs)
             vals  == vs
  <1>1. DOMAIN vs = 1 .. Len(vs) /\ Len(vs) \in Nat /\ IsSequence(vs)
        /\ \A i \in 1 .. Len(vs) : vs[i] \in Optional(Seq(Nat))
    BY Zenon, LenProperties, ElementOfSeq DEF IsSequence
  <1>2. parts = [i \in 1 .. Len(vs) |-> Sym(vs[i])]
    BY <1>1, Zenon DEF Each
  <1>0. IsSequence(vals) /\ Len(vals) = Len(vs) /\ \A i \in 1 .. Len(vs) : vals[i] = vs[i]
    BY <1>1, Zenon
  <1> HIDE DEF parts, vals
  <1>3. parts \in Seq(Seq(Nat)) /\ Len(parts) = Len(vs) /\ \A i \in 1 .. Len(vs) : parts[i] = Sym(vs[i])
    <2>1. \A i \in DOMAIN vs : parts[i] \in Seq(Nat)
      BY <1>1, <1>2, SymBytes, Zenon
    <2>2. parts = [i \in DOMAIN vs |-> parts[i]]
      BY <1>1, <1>2, Zenon
    <2>3. parts \in Seq(Seq(Nat)) /\ Len(parts) = Len(vs)
      BY <1>1, <2>1, <2>2, JoinedBytes, Zenon
    <2>4. QED
      BY <1>2, <2>3, Zenon
  <1>4. c.in = b
    BY AtFields
  <1>5. ASSUME NEW i \in 1 .. Len(parts) PROVE Takes(item, b, parts[i], vals[i])
    <2>1. vs[i] \in Optional(Seq(Nat)) /\ parts[i] = Sym(vs[i]) /\ vals[i] = vs[i] /\ ShortSym(vs[i])
      BY <1>0, <1>1, <1>3, Zenon
    <2>2. ASSUME NEW p \in 0 .. Len(b), Stands(b, p, parts[i])
          PROVE  item[p] = At(b, p + Len(parts[i]), vals[i])
      <3>1. Moved(c, p) = At(b, p, v)
        BY AtMoved, Zenon
      <3> HIDE DEF c
      <3>2. p \in 0 .. Len(c.in)
        BY <1>4, Zenon
      <3>3. item[p] = ReadSym(Moved(c, p))
        BY <3>2, Zenon DEF From, Moved
      <3>4. p \in Nat /\ Stands(b, p, Sym(vs[i]))
        BY <2>1, <2>2
      <3>5. ReadSym(At(b, p, v)) = At(b, p + Len(Sym(vs[i])), vs[i])
        BY <2>1, <3>4, SymAt
      <3>6. QED
        BY <2>1, <3>1, <3>3, <3>5, Zenon
    <2> HIDE DEF item
    <2>3. QED
      BY <2>2, Zenon DEF Takes
  <1> HIDE DEF item, c
  <1>6. Stands(b, q, FlattenSeq(parts)) /\ FlattenSeq(parts) = Joined(Sym, vs)
    BY Zenon DEF Joined, parts
  <1>7. TakesEach(item, b, q, parts, vals)
    BY <1>0, <1>1, <1>3, <1>5, <1>6, Zenon DEF TakesEach
  <1>8. InTurn(At(b, q, v), [i \in 1 .. Len(parts) |-> item]) = At(b, q + Len(FlattenSeq(parts)), vals)
    <2>1. ItemsRead(item, b, q, v, parts, vals)
      BY <1>7, ItemsAt, Zenon
    <2>2. QED
      BY <2>1, Zenon DEF ItemsRead
  <1>9. Times(c, Len(vs), ReadSym) = InTurn(c, [i \in 1 .. Len(vs) |-> item])
    BY Zenon DEF Times, item
  <1>10. QED
    BY <1>3, <1>6, <1>8, <1>9, Zenon DEF c, vals

\* A name with its length in front, and the slot of a local.
WithLength(name) == U16(Len(name)) \o name
Slot(slot)    == U16(IF slot = Null THEN NullMark ELSE slot)

LEMMA NameAt ==
  ASSUME NEW b \in Seq(Nat), NEW p \in Nat, NEW v, NEW name \in Seq(Nat), Len(name) < Halfword,
         Stands(b, p, WithLength(name))
  PROVE  ReadCounted(At(b, p, v)) = At(b, p + Len(WithLength(name)), name)
  <1>1. ReadCounted(At(b, p, v)) = At(b, p + 2 + Len(name), name)
    BY CountedAt DEF WithLength
  <1> DEFINE n == Len(name)
             x == U16(n)
  <1>2. n \in Nat /\ Len(x) = 2 /\ x \in Seq(Nat)
    BY WidthOfNumbers
  <1>3. Len(WithLength(name)) = Len(x) + n
    <2> HIDE DEF x
    <2>1. x \o name \in Seq(Nat) /\ Len(x \o name) = Len(x) + Len(name)
      BY <1>2, LengthOfTwo
    <2>2. QED
      BY <2>1, Zenon DEF WithLength, x, n
  <1> DEFINE l == Len(WithLength(name))
  <1> HIDE DEF n, x, l
  <1>4. l = 2 + n
    BY <1>2, <1>3, Zenon DEF l
  <1>5. p + 2 + n = p + l
    BY <1>2, <1>4
  <1>6. QED
    BY <1>1, <1>5, Zenon DEF n, l

LEMMA NameBytes ==
  ASSUME NEW name \in Seq(Nat)
  PROVE  WithLength(name) \in Seq(Nat)
  <1>1. Len(name) \in Int
    OBVIOUS
  <1>2. U16(Len(name)) \in Seq(Nat)
    BY <1>1, WidthOfNumbers
  <1>3. QED
    BY <1>2, LengthOfTwo DEF WithLength

LEMMA NullMarkFits ==
  NullMark \in Nat /\ NullMark < Halfword
  BY Widths DEF NullMark

LEMMA SlotAt ==
  ASSUME NEW b \in Seq(Nat), NEW p \in Nat, NEW v, NEW nsyms \in 0 .. NullMark,
         NEW slot \in (0 .. nsyms - 1) \cup {Null}, Stands(b, p, Slot(slot))
  PROVE  ReadSlot(At(b, p, v), nsyms) = At(b, p + Len(Slot(slot)), slot)
  <1> DEFINE w == IF slot = Null THEN NullMark ELSE slot
             d == At(b, p + 2, w)
  <1>1. /\ w \in Nat /\ w < Halfword /\ (slot # Null => w = slot /\ slot < nsyms /\ w # NullMark)
        /\ (slot = Null => w = NullMark)
    <2>1. CASE slot = Null
      <3>1. w = NullMark
        BY <2>1, Zenon
      <3>2. QED
        BY <2>1, <3>1, NullMarkFits, Zenon
    <2>2. CASE slot # Null
      <3>1. w = slot
        BY <2>2, Zenon
      <3>2. slot \in Nat /\ slot < nsyms /\ slot < Halfword /\ slot # NullMark
        <4>1. slot \in 0 .. nsyms - 1
          BY <2>2, Zenon
        <4>2. nsyms \in Nat /\ nsyms <= NullMark /\ NullMark \in Nat /\ Halfword \in Nat
          BY NullMarkFits, Widths
        <4>3. slot \in Nat /\ slot < nsyms
          BY <4>1, <4>2
        <4> HIDE DEF w
        <4>4. slot < Halfword /\ slot # NullMark
          BY <4>2, <4>3, NullMarkFits
        <4>5. QED
          BY <4>3, <4>4
      <3>3. QED
        BY <2>2, <3>1, <3>2, Zenon
    <2>3. QED
      BY <2>1, <2>2, Zenon
  <1>2. Slot(slot) = U16(w)
    BY Zenon DEF Slot
  <1> HIDE DEF w
  <1>3. Len(U16(w)) = 2
    BY <1>1, WidthOfNumbers
  <1>4. Num(At(b, p, v), 2) = d
    BY <1>1, <1>2, ShortAt
  <1>5. d.ok /\ d.val = w /\ With(d, Null) = At(b, p + 2, Null)
    BY AtFields, AtHolds
  <1>6. w < nsyms => Check(d, w < nsyms) = d
    BY CheckAt
  <1> HIDE DEF d
  <1>7. ReadSlot(At(b, p, v), nsyms) = ReadSlotOf(d, nsyms)
    BY <1>4, <1>5, Zenon DEF ReadSlot
  <1>8. CASE slot = Null
    <2>1. ReadSlotOf(d, nsyms) = At(b, p + 2, Null)
      BY <1>1, <1>5, <1>8, Zenon DEF ReadSlotOf
    <2>2. QED
      BY <1>2, <1>3, <1>7, <1>8, <2>1, Zenon
  <1>9. CASE slot # Null
    <2>1. w # NullMark /\ w < nsyms /\ w = slot
      BY <1>1, <1>9, Zenon
    <2>2. ReadSlotOf(d, nsyms) = d
      BY <1>5, <1>6, <2>1, Zenon DEF ReadSlotOf
    <2>3. QED
      BY <1>2, <1>3, <1>7, <2>1, <2>2, Zenon DEF d
  <1>10. QED
    BY <1>8, <1>9

LEMMA SlotBytes ==
  ASSUME NEW slot \in Nat \cup {Null}
  PROVE  Slot(slot) \in Seq(Nat)
  <1> DEFINE w == IF slot = Null THEN NullMark ELSE slot
  <1>1. w \in Int
    BY NullMarkFits DEF Null
  <1> HIDE DEF w
  <1>2. U16(w) \in Seq(Nat)
    BY <1>1, WidthOfNumbers
  <1>3. QED
    BY <1>2, Zenon DEF Slot, w

LEMMA SlotIs ==
  ASSUME NEW nsyms \in 0 .. NullMark
  PROVE  \A slot \in (0 .. nsyms - 1) \cup {Null} : slot \in Nat \cup {Null}
  BY NullMarkFits

LEMMA NamesAt ==
  ASSUME NEW b \in Seq(Nat), NEW q \in Nat, NEW v, NEW vs \in Seq(Seq(Nat)), \A i \in DOMAIN vs : Len(vs[i]) < Halfword,
         Stands(b, q, Joined(WithLength, vs))
  PROVE  Times(At(b, q, v), Len(vs), ReadCounted) = At(b, q + Len(Joined(WithLength, vs)), vs)
  <1> DEFINE c     == At(b, q, v)
             item  == From(c, ReadCounted)
             parts == Each(WithLength, vs)
             vals  == vs
  <1>1. DOMAIN vs = 1 .. Len(vs) /\ Len(vs) \in Nat /\ IsSequence(vs)
        /\ \A i \in 1 .. Len(vs) : vs[i] \in Seq(Nat)
    BY Zenon, LenProperties, ElementOfSeq DEF IsSequence
  <1>2. parts = [i \in 1 .. Len(vs) |-> WithLength(vs[i])]
    BY <1>1, Zenon DEF Each
  <1>0. IsSequence(vals) /\ Len(vals) = Len(vs) /\ \A i \in 1 .. Len(vs) : vals[i] = vs[i]
    BY <1>1, Zenon
  <1> HIDE DEF parts, vals
  <1>3. parts \in Seq(Seq(Nat)) /\ Len(parts) = Len(vs) /\ \A i \in 1 .. Len(vs) : parts[i] = WithLength(vs[i])
    <2>1. \A i \in DOMAIN vs : parts[i] \in Seq(Nat)
      BY <1>1, <1>2, NameBytes, Zenon
    <2>2. parts = [i \in DOMAIN vs |-> parts[i]]
      BY <1>1, <1>2, Zenon
    <2>3. parts \in Seq(Seq(Nat)) /\ Len(parts) = Len(vs)
      BY <1>1, <2>1, <2>2, JoinedBytes, Zenon
    <2>4. QED
      BY <1>2, <2>3, Zenon
  <1>4. c.in = b
    BY AtFields
  <1>5. ASSUME NEW i \in 1 .. Len(parts) PROVE Takes(item, b, parts[i], vals[i])
    <2>1. vs[i] \in Seq(Nat) /\ parts[i] = WithLength(vs[i]) /\ vals[i] = vs[i] /\ Len(vs[i]) < Halfword
      BY <1>0, <1>1, <1>3, Zenon
    <2>2. ASSUME NEW p \in 0 .. Len(b), Stands(b, p, parts[i])
          PROVE  item[p] = At(b, p + Len(parts[i]), vals[i])
      <3>1. Moved(c, p) = At(b, p, v)
        BY AtMoved, Zenon
      <3> HIDE DEF c
      <3>2. p \in 0 .. Len(c.in)
        BY <1>4, Zenon
      <3>3. item[p] = ReadCounted(Moved(c, p))
        BY <3>2, Zenon DEF From, Moved
      <3>4. p \in Nat /\ Stands(b, p, WithLength(vs[i]))
        BY <2>1, <2>2
      <3>5. ReadCounted(At(b, p, v)) = At(b, p + Len(WithLength(vs[i])), vs[i])
        BY <2>1, <3>4, NameAt
      <3>6. QED
        BY <2>1, <3>1, <3>3, <3>5, Zenon
    <2> HIDE DEF item
    <2>3. QED
      BY <2>2, Zenon DEF Takes
  <1> HIDE DEF item, c
  <1>6. Stands(b, q, FlattenSeq(parts)) /\ FlattenSeq(parts) = Joined(WithLength, vs)
    BY Zenon DEF Joined, parts
  <1>7. TakesEach(item, b, q, parts, vals)
    BY <1>0, <1>1, <1>3, <1>5, <1>6, Zenon DEF TakesEach
  <1>8. InTurn(At(b, q, v), [i \in 1 .. Len(parts) |-> item]) = At(b, q + Len(FlattenSeq(parts)), vals)
    <2>1. ItemsRead(item, b, q, v, parts, vals)
      BY <1>7, ItemsAt, Zenon
    <2>2. QED
      BY <2>1, Zenon DEF ItemsRead
  <1>9. Times(c, Len(vs), ReadCounted) = InTurn(c, [i \in 1 .. Len(vs) |-> item])
    BY Zenon DEF Times, item
  <1>10. QED
    BY <1>3, <1>6, <1>8, <1>9, Zenon DEF c, vals

LEMMA SlotsAt ==
  ASSUME NEW b \in Seq(Nat), NEW q \in Nat, NEW v, NEW nsyms \in 0 .. NullMark, NEW vs \in Seq(((0 .. nsyms - 1) \cup {Null})), 
         Stands(b, q, Joined(Slot, vs))
  PROVE  Times(At(b, q, v), Len(vs), LAMBDA slot : ReadSlot(slot, nsyms)) = At(b, q + Len(Joined(Slot, vs)), vs)
  <1> DEFINE c     == At(b, q, v)
             item  == From(c, LAMBDA slot : ReadSlot(slot, nsyms))
             parts == Each(Slot, vs)
             vals  == vs
  <1>1. DOMAIN vs = 1 .. Len(vs) /\ Len(vs) \in Nat /\ IsSequence(vs)
        /\ \A i \in 1 .. Len(vs) : vs[i] \in ((0 .. nsyms - 1) \cup {Null})
    BY Zenon, LenProperties, ElementOfSeq DEF IsSequence
  <1>2. parts = [i \in 1 .. Len(vs) |-> Slot(vs[i])]
    BY <1>1, Zenon DEF Each
  <1>0. IsSequence(vals) /\ Len(vals) = Len(vs) /\ \A i \in 1 .. Len(vs) : vals[i] = vs[i]
    BY <1>1, Zenon
  <1> HIDE DEF parts, vals
  <1>3. parts \in Seq(Seq(Nat)) /\ Len(parts) = Len(vs) /\ \A i \in 1 .. Len(vs) : parts[i] = Slot(vs[i])
    <2>1. \A i \in DOMAIN vs : parts[i] \in Seq(Nat)
      BY <1>1, <1>2, SlotIs, SlotBytes, Zenon
    <2>2. parts = [i \in DOMAIN vs |-> parts[i]]
      BY <1>1, <1>2, Zenon
    <2>3. parts \in Seq(Seq(Nat)) /\ Len(parts) = Len(vs)
      BY <1>1, <2>1, <2>2, JoinedBytes, Zenon
    <2>4. QED
      BY <1>2, <2>3, Zenon
  <1>4. c.in = b
    BY AtFields
  <1>5. ASSUME NEW i \in 1 .. Len(parts) PROVE Takes(item, b, parts[i], vals[i])
    <2>1. vs[i] \in ((0 .. nsyms - 1) \cup {Null}) /\ parts[i] = Slot(vs[i]) /\ vals[i] = vs[i] 
      BY <1>0, <1>1, <1>3, Zenon
    <2>2. ASSUME NEW p \in 0 .. Len(b), Stands(b, p, parts[i])
          PROVE  item[p] = At(b, p + Len(parts[i]), vals[i])
      <3>1. Moved(c, p) = At(b, p, v)
        BY AtMoved, Zenon
      <3> HIDE DEF c
      <3>2. p \in 0 .. Len(c.in)
        BY <1>4, Zenon
      <3>3. item[p] = ReadSlot(Moved(c, p), nsyms)
        BY <3>2, Zenon DEF From, Moved
      <3>4. p \in Nat /\ Stands(b, p, Slot(vs[i]))
        BY <2>1, <2>2
      <3>5. ReadSlot(At(b, p, v), nsyms) = At(b, p + Len(Slot(vs[i])), vs[i])
        BY <2>1, <3>4, SlotAt
      <3>6. QED
        BY <2>1, <3>1, <3>3, <3>5, Zenon
    <2> HIDE DEF item
    <2>3. QED
      BY <2>2, Zenon DEF Takes
  <1> HIDE DEF item, c
  <1>6. Stands(b, q, FlattenSeq(parts)) /\ FlattenSeq(parts) = Joined(Slot, vs)
    BY Zenon DEF Joined, parts
  <1>7. TakesEach(item, b, q, parts, vals)
    BY <1>0, <1>1, <1>3, <1>5, <1>6, Zenon DEF TakesEach
  <1>8. InTurn(At(b, q, v), [i \in 1 .. Len(parts) |-> item]) = At(b, q + Len(FlattenSeq(parts)), vals)
    <2>1. ItemsRead(item, b, q, v, parts, vals)
      BY <1>7, ItemsAt, Zenon
    <2>2. QED
      BY <2>1, Zenon DEF ItemsRead
  <1>9. Times(c, Len(vs), LAMBDA slot : ReadSlot(slot, nsyms)) = InTurn(c, [i \in 1 .. Len(vs) |-> item])
    BY Zenon DEF Times, item
  <1>10. QED
    BY <1>3, <1>6, <1>8, <1>9, Zenon DEF c, vals

LEMMA PoolListed ==
  ASSUME NEW b \in Seq(Nat), NEW q \in Nat, NEW v, NEW vs \in Seq(PoolValues),
         \A i \in DOMAIN vs : ShortEntry(vs[i]), Len(vs) < Halfword,
         Stands(b, q, U16(Len(vs)) \o Joined(PoolEntry, vs)), Joined(PoolEntry, vs) \in Seq(Nat)
  PROVE  Listed(At(b, q, v), ReadPoolEntry)
           = At(b, q + 2 + Len(Joined(PoolEntry, vs)), Each(Normal, vs))
  <1> DEFINE n == Len(vs)
             d == At(b, q + 2, n)
             x == U16(n)
             y == Joined(PoolEntry, vs)
  <1>1. n \in Nat /\ n < Halfword /\ x \in Seq(Nat) /\ Len(x) = 2 /\ y \in Seq(Nat) /\ q + 2 \in Nat
    BY WidthOfNumbers
  <1>2. Stands(b, q, x) /\ Stands(b, q + 2, y)
    <2>1. Stands(b, q, x \o y)
      OBVIOUS
    <2> HIDE DEF n, x, y
    <2>2. Stands(b, q, x) /\ Stands(b, q + Len(x), y)
      BY <1>1, <2>1, StandsJoin
    <2>3. QED
      BY <1>1, <2>2, Zenon
  <1>3. Num(At(b, q, v), 2) = d
    <2>1. Stands(b, q, U16(n))
      BY <1>2, Zenon
    <2> HIDE DEF n, x
    <2>2. QED
      BY <1>1, <2>1, ShortAt
  <1>4. d.ok /\ d.val = n
    BY AtFields
  <1>5. Times(d, Len(vs), ReadPoolEntry) = At(b, (q + 2) + Len(y), Each(Normal, vs))
    BY <1>1, <1>2, PoolAt
  <1> HIDE DEF d, y
  <1>6. QED
    BY <1>3, <1>4, <1>5, Zenon DEF Listed, y

LEMMA SymsListed ==
  ASSUME NEW b \in Seq(Nat), NEW q \in Nat, NEW v, NEW vs \in Seq(Optional(Seq(Nat))),
         \A i \in DOMAIN vs : ShortSym(vs[i]), Len(vs) < Halfword,
         Stands(b, q, U16(Len(vs)) \o Joined(Sym, vs)), Joined(Sym, vs) \in Seq(Nat)
  PROVE  Listed(At(b, q, v), ReadSym) = At(b, q + 2 + Len(Joined(Sym, vs)), vs)
  <1> DEFINE n == Len(vs)
             d == At(b, q + 2, n)
             x == U16(n)
             y == Joined(Sym, vs)
  <1>1. n \in Nat /\ n < Halfword /\ x \in Seq(Nat) /\ Len(x) = 2 /\ y \in Seq(Nat) /\ q + 2 \in Nat
    BY WidthOfNumbers
  <1>2. Stands(b, q, x) /\ Stands(b, q + 2, y)
    <2>1. Stands(b, q, x \o y)
      OBVIOUS
    <2> HIDE DEF n, x, y
    <2>2. Stands(b, q, x) /\ Stands(b, q + Len(x), y)
      BY <1>1, <2>1, StandsJoin
    <2>3. QED
      BY <1>1, <2>2, Zenon
  <1>3. Num(At(b, q, v), 2) = d
    <2>1. Stands(b, q, U16(n))
      BY <1>2, Zenon
    <2> HIDE DEF n, x
    <2>2. QED
      BY <1>1, <2>1, ShortAt
  <1>4. d.ok /\ d.val = n
    BY AtFields
  <1>5. Times(d, Len(vs), ReadSym) = At(b, (q + 2) + Len(y), vs)
    BY <1>1, <1>2, SymsAt
  <1> HIDE DEF d, y
  <1>6. QED
    BY <1>3, <1>4, <1>5, Zenon DEF Listed, y

--------------------------------------------------------------------------------
(* The own record of an irep.                                                   *)

LEMMA KeptAt ==
  ASSUME NEW b, NEW p, NEW v, NEW q, NEW w
  PROVE  Kept(At(b, p, v), At(b, q, w)) = At(b, q, Append(v, w))
  <1> DEFINE c == At(b, p, v)
             d == At(b, q, w)
  <1>1. c.ok /\ c.val = v /\ d.val = w /\ With(d, Append(v, w)) = At(b, q, Append(v, w))
    BY AtFields, AtHolds
  <1> HIDE DEF c, d
  <1>2. Kept(c, d) = With(d, Append(v, w))
    BY <1>1, Zenon DEF Kept
  <1>3. QED
    BY <1>1, <1>2, Zenon DEF c, d

\* What is appended is last, and nothing else is touched.
Longer(s, e, t) ==
  /\ IsSequence(t) /\ Len(t) = Len(s) + 1 /\ t[Len(s) + 1] = e /\ \A i \in 1 .. Len(s) : t[i] = s[i]
LEMMA AppendGrows ==
  ASSUME NEW s, IsSequence(s), NEW e
  PROVE  Longer(s, e, Append(s, e))
  <1>1. PICK S : s \in Seq(S)
    BY DEF IsSequence
  <1> DEFINE T == S \cup {e}
             t == Append(s, e)
  <1>2. s \in Seq(T) /\ e \in T
    BY <1>1
  <1> HIDE DEF T
  <1>3. t \in Seq(T) /\ Len(t) = Len(s) + 1 /\ t[Len(s) + 1] = e /\ \A i \in 1 .. Len(s) : t[i] = s[i]
    BY <1>2, AppendProperties
  <1>4. QED
    BY <1>3, Zenon DEF Longer, IsSequence

\* Five parts, each where those before it end.
CutFive(b, q, x, y, z, w, u) ==
  /\ Stands(b, q, x) /\ Stands(b, q + Len(x), y) /\ Stands(b, q + Len(x) + Len(y), z)
  /\ Stands(b, q + Len(x) + Len(y) + Len(z), w)
  /\ Stands(b, q + Len(x) + Len(y) + Len(z) + Len(w), u)
  /\ Len(x \o y \o z \o w \o u) = Len(x) + Len(y) + Len(z) + Len(w) + Len(u)
LEMMA FiveStand ==
  ASSUME NEW b \in Seq(Nat), NEW q \in Nat, NEW x \in Seq(Nat), NEW y \in Seq(Nat), NEW z \in Seq(Nat),
         NEW w \in Seq(Nat), NEW u \in Seq(Nat), Stands(b, q, x \o y \o z \o w \o u)
  PROVE  CutFive(b, q, x, y, z, w, u)
  <1> DEFINE a2 == x \o y
             a3 == a2 \o z
             a4 == a3 \o w
             a5 == a4 \o u
  <1>1. a2 \in Seq(Nat) /\ Len(a2) = Len(x) + Len(y)
    BY LengthOfTwo
  <1> HIDE DEF a2
  <1>2. a3 \in Seq(Nat) /\ Len(a3) = Len(a2) + Len(z)
    BY <1>1, LengthOfTwo
  <1> HIDE DEF a3
  <1>3. a4 \in Seq(Nat) /\ Len(a4) = Len(a3) + Len(w)
    BY <1>2, LengthOfTwo
  <1> HIDE DEF a4
  <1>4. Len(a5) = Len(a4) + Len(u)
    BY <1>3, LengthOfTwo
  <1>5. Stands(b, q, a4 \o u)
    BY Zenon DEF a4, a3, a2
  <1>6. Stands(b, q, a4) /\ Stands(b, q + Len(a4), u)
    BY <1>3, <1>5, StandsJoin
  <1>7. Stands(b, q, a3) /\ Stands(b, q + Len(a3), w)
    <2>1. Stands(b, q, a3 \o w)
      BY <1>6, Zenon DEF a4
    <2>2. QED
      BY <1>2, <2>1, StandsJoin
  <1>8. Stands(b, q, a2) /\ Stands(b, q + Len(a2), z)
    <2>1. Stands(b, q, a2 \o z)
      BY <1>7, Zenon DEF a3
    <2>2. QED
      BY <1>1, <2>1, StandsJoin
  <1>9. Stands(b, q, x) /\ Stands(b, q + Len(x), y)
    <2>1. Stands(b, q, x \o y)
      BY <1>8, Zenon DEF a2
    <2>2. QED
      BY <2>1, StandsJoin
  <1> DEFINE lx == Len(x)
             ly == Len(y)
             lz == Len(z)
             lw == Len(w)
             lu == Len(u)
             l2 == Len(a2)
             l3 == Len(a3)
             l4 == Len(a4)
             l5 == Len(a5)
  <1>10. /\ lx \in Nat /\ ly \in Nat /\ lz \in Nat /\ lw \in Nat /\ lu \in Nat
         /\ l2 = lx + ly /\ l3 = l2 + lz /\ l4 = l3 + lw /\ l5 = l4 + lu
    BY <1>1, <1>2, <1>3, <1>4, LengthType
  <1> HIDE DEF a5, lx, ly, lz, lw, lu, l2, l3, l4, l5
  <1>11. /\ q + l2 = q + lx + ly /\ q + l3 = q + lx + ly + lz /\ q + l4 = q + lx + ly + lz + lw
         /\ l5 = lx + ly + lz + lw + lu
    BY <1>10
  <1>12. /\ Stands(b, q + lx + ly, z) /\ Stands(b, q + lx + ly + lz, w) /\ Stands(b, q + lx + ly + lz + lw, u)
    BY <1>6, <1>7, <1>8, <1>11, Zenon DEF l2, l3, l4
  <1>13. Len(x \o y \o z \o w \o u) = l5
    BY Zenon DEF l5, a5, a4, a3, a2
  <1>14. QED
    BY <1>9, <1>11, <1>12, <1>13, Zenon DEF lx, ly, lz, lw, lu, CutFive

\* What a record has room for.
ShortIrep(irep) ==
  /\ irep.nlocals < Halfword /\ irep.nregs < Halfword /\ Len(irep.reps) < Halfword
  /\ Len(irep.handlers) < Halfword /\ Len(irep.pool) < Halfword /\ Len(irep.syms) < Halfword
  /\ OwnSize(irep) < Word
  /\ \A i \in DOMAIN irep.pool : ShortEntry(irep.pool[i])
  /\ \A i \in DOMAIN irep.syms : ShortSym(irep.syms[i])

\* The five numbers ahead of it.
Headed(b, a1, a2, a3, a4, a5) ==
  /\ b \in Seq(Nat) /\ a1 \in Nat /\ a2 \in Nat /\ a3 \in Nat /\ a4 \in Nat /\ a5 \in Nat
  /\ a1 < Halfword /\ a2 < Halfword /\ a3 < Halfword /\ a4 < Halfword /\ a5 < Word
  /\ Stands(b, 0, U16(a1) \o U16(a2) \o U16(a3) \o U16(a4) \o U32(a5))
HeadRead(b, a1, a2, a3, a4, a5) ==
  \E nums : /\ Nums(Cursor(b), <<2, 2, 2, 2, 4>>) = At(b, 12, nums)
            /\ IsSequence(nums) /\ Len(nums) = 5
            /\ nums[1] = a1 /\ nums[2] = a2 /\ nums[3] = a3 /\ nums[4] = a4 /\ nums[5] = a5
            /\ Len(U16(a1) \o U16(a2) \o U16(a3) \o U16(a4) \o U32(a5)) = 12

LEMMA HeadAt ==
  ASSUME NEW b, NEW a1, NEW a2, NEW a3, NEW a4, NEW a5, Headed(b, a1, a2, a3, a4, a5)
  PROVE  HeadRead(b, a1, a2, a3, a4, a5)
  <1>0. /\ b \in Seq(Nat) /\ a1 \in Nat /\ a2 \in Nat /\ a3 \in Nat /\ a4 \in Nat /\ a5 \in Nat
        /\ a1 < Halfword /\ a2 < Halfword /\ a3 < Halfword /\ a4 < Halfword /\ a5 < Word
        /\ Stands(b, 0, U16(a1) \o U16(a2) \o U16(a3) \o U16(a4) \o U32(a5))
    BY Zenon DEF Headed
  <1> DEFINE x     == U16(a1)
             y     == U16(a2)
             z     == U16(a3)
             t     == U16(a4)
             u     == U32(a5)
             parts == <<x, y, z, t, u>>
             nums  == [i \in 1 .. Len(parts) |-> Number(parts[i])]
             w     == <<2, 2, 2, 2, 4>>
  <1>2. /\ x \in Seq(Nat) /\ y \in Seq(Nat) /\ z \in Seq(Nat) /\ t \in Seq(Nat) /\ u \in Seq(Nat)
        /\ Len(x) = 2 /\ Len(y) = 2 /\ Len(z) = 2 /\ Len(t) = 2 /\ Len(u) = 4
    BY <1>0, WidthOfNumbers
  <1>3. Number(x) = a1 /\ Number(y) = a2 /\ Number(z) = a3 /\ Number(t) = a4 /\ Number(u) = a5
    BY <1>0, NumberFits
  <1>4. Stands(b, 0, x \o y \o z \o t \o u)
    BY <1>0, Zenon
  <1>5. Len(x \o y \o z \o t \o u) = 12
    <2> HIDE DEF x, y, z, t, u
    <2>1. Len(x \o y \o z \o t \o u) = Len(x) + Len(y) + Len(z) + Len(t) + Len(u)
      <3>1. 0 \in Nat
        OBVIOUS
      <3>2. CutFive(b, 0, x, y, z, t, u)
        BY <1>0, <1>2, <1>4, <3>1, FiveStand, Zenon
      <3>3. QED
        BY <3>2, Zenon DEF CutFive
    <2>2. QED
      BY <1>2, <2>1
  <1>11. Len(U16(a1) \o U16(a2) \o U16(a3) \o U16(a4) \o U32(a5)) = 12
    BY <1>5, Zenon
  <1> HIDE DEF x, y, z, t, u
  <1>6. FlattenSeq(parts) = x \o y \o z \o t \o u
    <2>1. JoinsFive(x, y, z, t, u)
      BY <1>2, FlattenFive, Zenon
    <2>2. QED
      BY <2>1, Zenon DEF JoinsFive
  <1>7. /\ parts \in Seq(Seq(Nat)) /\ Len(parts) = 5
        /\ parts[1] = x /\ parts[2] = y /\ parts[3] = z /\ parts[4] = t /\ parts[5] = u
    BY <1>2
  <1> HIDE DEF parts
  <1>8. w = [i \in 1 .. Len(parts) |-> Len(parts[i])]
    <2>1. Len(parts[1]) = 2 /\ Len(parts[2]) = 2 /\ Len(parts[3]) = 2 /\ Len(parts[4]) = 2 /\ Len(parts[5]) = 4
      BY <1>2, <1>7, Zenon
    <2>2. w = [i \in 1 .. 5 |-> w[i]] /\ w[1] = 2 /\ w[2] = 2 /\ w[3] = 2 /\ w[4] = 2 /\ w[5] = 4
      OBVIOUS
    <2> HIDE DEF w
    <2>3. \A i \in 1 .. 5 : w[i] = Len(parts[i])
      <3>1. \A i \in 1 .. 5 : i = 1 \/ i = 2 \/ i = 3 \/ i = 4 \/ i = 5
        OBVIOUS
      <3>2. QED
        BY <2>1, <2>2, <3>1, Zenon
    <2>4. QED
      BY <1>7, <2>2, <2>3, Zenon
  <1>9. /\ nums[1] = a1 /\ nums[2] = a2 /\ nums[3] = a3 /\ nums[4] = a4 /\ nums[5] = a5
        /\ IsSequence(nums) /\ Len(nums) = 5
    <2>1. /\ 1 \in 1 .. Len(parts) /\ 2 \in 1 .. Len(parts) /\ 3 \in 1 .. Len(parts)
          /\ 4 \in 1 .. Len(parts) /\ 5 \in 1 .. Len(parts)
      BY <1>7
    <2>2. nums[1] = a1 /\ nums[2] = a2 /\ nums[3] = a3 /\ nums[4] = a4 /\ nums[5] = a5
      BY <1>3, <1>7, <2>1, Zenon
    <2>3. nums \in [1 .. 5 -> {Number(parts[i]) : i \in 1 .. 5}]
      BY <1>7
    <2> HIDE DEF nums
    <2>4. nums \in Seq({Number(parts[i]) : i \in 1 .. 5}) /\ Len(nums) = 5
      BY <2>3, ListIs
    <2>5. QED
      BY <2>2, <2>4, Zenon DEF IsSequence
  <1>10. Nums(Cursor(b), w) = At(b, 12, nums)
    <2> HIDE DEF w
    <2>1. Stands(b, 0, FlattenSeq(parts)) /\ 0 \in Nat
      BY <1>4, <1>6, Zenon
    <2>2. Divided(b, 0, parts, w)
      BY <1>0, <1>7, <1>8, <2>1, Zenon DEF Divided
    <2>3. FieldsRead(b, 0, <<>>, parts, w)
      BY <2>2, FieldsAt, Zenon
    <2> HIDE DEF nums
    <2>4. Nums(At(b, 0, <<>>), w) = At(b, 0 + Len(FlattenSeq(parts)), nums)
      BY <2>3, Zenon DEF FieldsRead, nums
    <2>5. Len(FlattenSeq(parts)) = 12
      BY <1>5, <1>6, Zenon
    <2>7. 0 + 12 = 12
      OBVIOUS
    <2>6. QED
      BY <2>4, <2>5, <2>7, CursorAt, Zenon
  <1> HIDE DEF nums
  <1>12. QED
    BY <1>9, <1>10, <1>11, Zenon DEF HeadRead

\* The body of a record, cut where the reader cuts it.
OwnHead(irep) ==
  U16(irep.nlocals) \o U16(irep.nregs) \o U16(Len(irep.reps)) \o U16(Len(irep.handlers))
    \o U32(Len(irep.iseq))
PoolPart(irep) == U16(Len(irep.pool)) \o Joined(PoolEntry, irep.pool)
SymsPart(irep) == U16(Len(irep.syms)) \o Joined(Sym, irep.syms)

LEMMA OwnBodyCut ==
  ASSUME NEW irep \in Trees
  PROVE  /\ OwnHead(irep) \in Seq(Nat) /\ PoolPart(irep) \in Seq(Nat) /\ SymsPart(irep) \in Seq(Nat)
         /\ OwnBody(irep) = OwnHead(irep) \o irep.iseq \o Joined(Handler, irep.handlers)
                              \o PoolPart(irep) \o SymsPart(irep)
         /\ Len(PoolPart(irep)) = 2 + Len(Joined(PoolEntry, irep.pool))
         /\ Len(SymsPart(irep)) = 2 + Len(Joined(Sym, irep.syms))
  <1> DEFINE a  == OwnHead(irep)
             h  == Joined(Handler, irep.handlers)
             n  == U16(Len(irep.pool))
             p  == Joined(PoolEntry, irep.pool)
             m  == U16(Len(irep.syms))
             s  == Joined(Sym, irep.syms)
             ah == (a \o irep.iseq) \o h
             np == n \o p
             ms == m \o s
  <1>1. /\ irep.iseq \in Seq(Nat) /\ h \in Seq(Nat) /\ p \in Seq(Nat) /\ s \in Seq(Nat)
    BY ListBytes
  <1>2. /\ irep.nlocals \in Int /\ irep.nregs \in Int /\ Len(irep.reps) \in Int /\ Len(irep.handlers) \in Int
        /\ Len(irep.iseq) \in Int /\ Len(irep.pool) \in Int /\ Len(irep.syms) \in Int
    BY TreeParts DEF IrepsOf
  <1>3. n \in Seq(Nat) /\ m \in Seq(Nat) /\ Len(n) = 2 /\ Len(m) = 2
    BY <1>2, WidthOfNumbers
  <1>4. a \in Seq(Nat)
    BY <1>2, WidthOfNumbers, LengthOfTwo DEF OwnHead
  <1> HIDE DEF a, h, n, p, m, s
  <1>5. np \in Seq(Nat) /\ ms \in Seq(Nat) /\ Len(np) = Len(n) + Len(p) /\ Len(ms) = Len(m) + Len(s)
    BY <1>1, <1>3, LengthOfTwo
  <1>6. ah \in Seq(Nat)
    BY <1>1, <1>4, LengthOfTwo
  <1> HIDE DEF ah
  <1>7. (ah \o n) \o p = ah \o np
    BY <1>1, <1>3, <1>6, JoinsThree
  <1> DEFINE b == ah \o np
  <1>8. b \in Seq(Nat)
    BY <1>5, <1>6, LengthOfTwo
  <1> HIDE DEF b
  <1>9. (b \o m) \o s = b \o ms
    BY <1>1, <1>3, <1>8, JoinsThree
  <1>10. OwnBody(irep) = (((ah \o n) \o p) \o m) \o s
    BY Zenon DEF OwnBody, OwnHead, ah, a, h, n, p, m, s
  <1>11. OwnBody(irep) = (ah \o np) \o ms
    BY <1>7, <1>9, <1>10, Zenon DEF b
  <1>12. QED
    BY <1>3, <1>4, <1>5, <1>11, Zenon DEF ah, a, h, n, p, m, s, PoolPart, SymsPart

\* An irep as its own record gives it back.
OwnPart(irep) ==
  Irep(irep.nlocals, irep.nregs, irep.iseq, irep.handlers, Each(Normal, irep.pool), irep.syms,
       <<>>, <<>>, <<>>)
OwnRead(irep) == [rlen |-> Len(irep.reps), irep |-> OwnPart(irep)]

LEMMA IseqShort ==
  ASSUME NEW irep \in Trees, OwnSize(irep) < Word
  PROVE  Len(irep.iseq) < Word
  <1>1. Len(Own(irep)) = OwnSize(irep) /\ OwnBody(irep) \in Seq(Nat)
    BY OwnBytes
  <1> DEFINE a == OwnHead(irep)
             i == irep.iseq
             h == Joined(Handler, irep.handlers)
             p == PoolPart(irep)
             s == SymsPart(irep)
             b == OwnBody(irep)
  <1>2. /\ i \in Seq(Nat) /\ h \in Seq(Nat) /\ a \in Seq(Nat) /\ p \in Seq(Nat) /\ s \in Seq(Nat)
    BY ListBytes, OwnBodyCut
  <1>3. b = a \o i \o h \o p \o s
    BY OwnBodyCut
  <1>4. Len(b) = OwnSize(irep) - 4 /\ OwnSize(irep) \in Nat
    BY OwnBytes
  <1>5. Stands(b, 0, b) /\ 0 \in Nat
    BY <1>1, StandsItself
  <1> HIDE DEF a, i, h, p, s, b
  <1>6. CutFive(b, 0, a, i, h, p, s)
    <2>1. Stands(b, 0, a \o i \o h \o p \o s)
      BY <1>3, <1>5, Zenon
    <2>2. b \in Seq(Nat)
      BY <1>1, Zenon DEF b
    <2>3. QED
      BY <1>2, <1>5, <2>1, <2>2, FiveStand, Zenon
  <1>7. Len(b) = Len(a) + Len(i) + Len(h) + Len(p) + Len(s)
    BY <1>3, <1>6, Zenon DEF CutFive
  <1>8. Len(i) < Word
    <2>1. Len(a) \in Nat /\ Len(i) \in Nat /\ Len(h) \in Nat /\ Len(p) \in Nat /\ Len(s) \in Nat
      BY <1>2
    <2>2. QED
      BY <1>4, <1>7, <2>1, Widths
  <1>9. QED
    BY <1>8 DEF i

LEMMA OwnReads ==
  ASSUME NEW irep \in Trees, ShortIrep(irep)
  PROVE  ReadOwn(OwnBody(irep)) = At(OwnBody(irep), Len(OwnBody(irep)), OwnRead(irep))
  <1> DEFINE a  == OwnHead(irep)
             i  == irep.iseq
             h  == Joined(Handler, irep.handlers)
             p  == PoolPart(irep)
             s  == SymsPart(irep)
             b  == OwnBody(irep)
             q1 == 12
             q2 == q1 + Len(i)
             q3 == q2 + Len(h)
             q4 == q3 + Len(p)
             q5 == q4 + Len(s)
  <1>1. /\ i \in Seq(Nat) /\ h \in Seq(Nat) /\ a \in Seq(Nat) /\ p \in Seq(Nat) /\ s \in Seq(Nat)
        /\ b \in Seq(Nat) /\ b = a \o i \o h \o p \o s
        /\ Len(i) \in Nat /\ Len(h) \in Nat /\ Len(p) \in Nat /\ Len(s) \in Nat
    <2>1. /\ i \in Seq(Nat) /\ h \in Seq(Nat) /\ a \in Seq(Nat) /\ p \in Seq(Nat) /\ s \in Seq(Nat)
      BY ListBytes, OwnBodyCut
    <2>2. b \in Seq(Nat) /\ b = a \o i \o h \o p \o s
      BY OwnBodyCut, OwnBytes
    <2> HIDE DEF a, i, h, p, s, b
    <2>3. QED
      BY <2>1, <2>2, LengthType
  <1>2. /\ irep.nlocals \in Nat /\ irep.nregs \in Nat /\ Len(irep.reps) \in Nat
        /\ irep.handlers \in Seq(Handlers) /\ irep.pool \in Seq(PoolValues)
        /\ irep.syms \in Seq(Optional(Seq(Nat))) /\ Len(irep.handlers) \in Nat
        /\ Len(irep.iseq) \in Nat
    BY TreeParts DEF IrepsOf
  <1>3. /\ irep.nlocals < Halfword /\ irep.nregs < Halfword /\ Len(irep.reps) < Halfword
        /\ Len(irep.handlers) < Halfword /\ Len(irep.pool) < Halfword /\ Len(irep.syms) < Halfword
        /\ (\A j \in DOMAIN irep.pool : ShortEntry(irep.pool[j]))
        /\ (\A j \in DOMAIN irep.syms : ShortSym(irep.syms[j]))
        /\ Len(irep.iseq) < Word
    BY IseqShort DEF ShortIrep
  <1>4. CutFive(b, 0, a, i, h, p, s)
    <2>1. Stands(b, 0, b) /\ 0 \in Nat
      BY <1>1, StandsItself
    <2> HIDE DEF a, i, h, p, s, b
    <2>2. Stands(b, 0, a \o i \o h \o p \o s)
      BY <1>1, <2>1, Zenon
    <2>3. QED
      BY <1>1, <2>1, <2>2, FiveStand, Zenon
  <1>5. Stands(b, 0, a)
    BY <1>4, Zenon DEF CutFive
  <1>6. PICK nums : /\ Nums(Cursor(b), <<2, 2, 2, 2, 4>>) = At(b, 12, nums)
                    /\ IsSequence(nums) /\ Len(nums) = 5
                    /\ nums[1] = irep.nlocals /\ nums[2] = irep.nregs /\ nums[3] = Len(irep.reps)
                    /\ nums[4] = Len(irep.handlers) /\ nums[5] = Len(irep.iseq) /\ Len(a) = 12
    <2>1. Headed(b, irep.nlocals, irep.nregs, Len(irep.reps), Len(irep.handlers), Len(irep.iseq))
      <3> HIDE DEF b
      <3>1. QED
        BY <1>1, <1>2, <1>3, <1>5, Zenon DEF Headed, OwnHead
    <2> HIDE DEF b
    <2>2. HeadRead(b, irep.nlocals, irep.nregs, Len(irep.reps), Len(irep.handlers), Len(irep.iseq))
      BY <2>1, HeadAt, Zenon
    <2>3. QED
      BY <2>2, Zenon DEF HeadRead, OwnHead
  <1>7. /\ Stands(b, q1, i) /\ Stands(b, q2, h) /\ Stands(b, q3, p) /\ Stands(b, q4, s) /\ Len(b) = q5
    <2> HIDE DEF a, i, h, p, s, b
    <2>1. /\ Stands(b, 0 + Len(a), i) /\ Stands(b, 0 + Len(a) + Len(i), h)
          /\ Stands(b, 0 + Len(a) + Len(i) + Len(h), p)
          /\ Stands(b, 0 + Len(a) + Len(i) + Len(h) + Len(p), s)
          /\ Len(b) = Len(a) + Len(i) + Len(h) + Len(p) + Len(s)
      BY <1>1, <1>4, Zenon DEF CutFive
    <2>2. 0 + Len(a) = q1
      BY <1>6
    <2>3. Len(a) = q1
      BY <1>6
    <2>4. QED
      BY <2>1, <2>2, <2>3, Zenon
  <1>8. /\ q1 \in Nat /\ q2 \in Nat /\ q3 \in Nat /\ q4 \in Nat /\ q5 \in Nat
        /\ q2 = q1 + Len(i) /\ q3 = q2 + Len(h) /\ q4 = q3 + Len(p) /\ q5 = q4 + Len(s)
    <2> HIDE DEF i, h, p, s
    <2>1. QED
      BY <1>1
  <1>9. Len(p) = 2 + Len(Joined(PoolEntry, irep.pool)) /\ Len(s) = 2 + Len(Joined(Sym, irep.syms))
        /\ Joined(PoolEntry, irep.pool) \in Seq(Nat) /\ Joined(Sym, irep.syms) \in Seq(Nat)
    BY OwnBodyCut, ListBytes
  <1>a. a = OwnHead(irep) /\ i = irep.iseq /\ h = Joined(Handler, irep.handlers) /\ p = PoolPart(irep)
        /\ s = SymsPart(irep) /\ b = OwnBody(irep)
    OBVIOUS
  <1>b. 12 = q1
    OBVIOUS
  <1> HIDE DEF a, i, h, p, s, b, q1, q2, q3, q4, q5
  <1> DEFINE pool == Each(Normal, irep.pool)
             n6   == Append(nums, i)
             n7   == Append(n6, irep.handlers)
             n8   == Append(n7, pool)
             n9   == Append(n8, irep.syms)
             c1   == At(b, q1, nums)
             c2   == At(b, q2, n6)
             c3   == At(b, q3, n7)
             c4   == At(b, q4, n8)
             c5   == At(b, q5, n9)
  <1>10. /\ IsSequence(n6) /\ n6[6] = i /\ n6[4] = Len(irep.handlers) /\ n6[5] = Len(irep.iseq)
         /\ n6[1] = irep.nlocals /\ n6[2] = irep.nregs /\ n6[3] = Len(irep.reps) /\ Len(n6) = 6
    <2> HIDE DEF i
    <2>1. Longer(nums, i, n6)
      BY <1>6, AppendGrows
    <2> HIDE DEF n6
    <2>2. QED
      BY <1>6, <2>1 DEF Longer
  <1> HIDE DEF n6
  <1>11. /\ IsSequence(n7) /\ n7[6] = i /\ n7[7] = irep.handlers
         /\ n7[1] = irep.nlocals /\ n7[2] = irep.nregs /\ n7[3] = Len(irep.reps) /\ Len(n7) = 7
    <2>1. Longer(n6, irep.handlers, n7)
      BY <1>10, AppendGrows
    <2> HIDE DEF n7, i
    <2>2. QED
      BY <1>10, <2>1 DEF Longer
  <1> HIDE DEF n7
  <1>12. /\ IsSequence(n8) /\ n8[6] = i /\ n8[7] = irep.handlers /\ n8[8] = pool
         /\ n8[1] = irep.nlocals /\ n8[2] = irep.nregs /\ n8[3] = Len(irep.reps) /\ Len(n8) = 8
    <2> HIDE DEF pool, i
    <2>1. Longer(n7, pool, n8)
      BY <1>11, AppendGrows
    <2> HIDE DEF n8
    <2>2. QED
      BY <1>11, <2>1 DEF Longer
  <1> HIDE DEF n8
  <1>13. /\ n9[6] = i /\ n9[7] = irep.handlers /\ n9[8] = pool /\ n9[9] = irep.syms
         /\ n9[1] = irep.nlocals /\ n9[2] = irep.nregs /\ n9[3] = Len(irep.reps)
    <2>1. Longer(n8, irep.syms, n9)
      BY <1>12, AppendGrows
    <2> HIDE DEF n9, pool, i
    <2>2. QED
      BY <1>12, <2>1 DEF Longer
  <1> HIDE DEF n9
  <1>14. /\ c1.val = nums /\ c2.val = n6 /\ c5.val = n9 /\ Left(c5) = Len(b) - q5
    BY AtFields
  <1>15. ReadIseq(c1) = c2
    <2>1. Take(c1, Len(i)) = At(b, q1 + Len(i), i)
      <3>1. Stands(b, q1, i) /\ b \in Seq(Nat) /\ q1 \in Nat /\ i \in Seq(Nat)
        BY <1>1, <1>7, <1>8, Zenon
      <3>2. QED
        BY <3>1, TakeAt
    <2>2. Kept(c1, At(b, q2, i)) = c2
      BY KeptAt DEF n6
    <2>4. c1.val[5] = Len(i)
      BY <1>6, <1>14, <1>a, Zenon
    <2> HIDE DEF c1, c2
    <2>3. QED
      BY <1>8, <2>1, <2>2, <2>4, Zenon DEF ReadIseq
  <1>16. ReadHandlers(c2) = c3
    <2>1. Times(c2, Len(irep.handlers), ReadHandler) = At(b, q3, irep.handlers)
      <3>1. Stands(b, q2, Joined(Handler, irep.handlers))
        BY <1>7, <1>a, Zenon
      <3>2. Times(c2, Len(irep.handlers), ReadHandler) = At(b, q2 + Len(Joined(Handler, irep.handlers)), irep.handlers)
        <4>1. b \in Seq(Nat) /\ q2 \in Nat /\ irep.handlers \in Seq(Handlers)
          BY <1>1, <1>2, <1>8, Zenon
        <4>2. QED
          BY <3>1, <4>1, HandlersAt
      <3>3. QED
        BY <1>8, <1>a, <3>2, Zenon
    <2>2. Kept(c2, At(b, q3, irep.handlers)) = c3
      BY KeptAt DEF n7
    <2> HIDE DEF c2, c3
    <2>3. QED
      BY <1>10, <1>14, <2>1, <2>2, Zenon DEF ReadHandlers
  <1>17. ReadPool(c3) = c4
    <2>1. Listed(c3, ReadPoolEntry) = At(b, q4, pool)
      <3> DEFINE l == Len(Joined(PoolEntry, irep.pool))
      <3>1. Listed(c3, ReadPoolEntry) = At(b, q3 + 2 + l, pool)
        <4>1. Stands(b, q3, U16(Len(irep.pool)) \o Joined(PoolEntry, irep.pool))
          BY <1>7, <1>a, Zenon DEF PoolPart
        <4>2. b \in Seq(Nat) /\ q3 \in Nat
          BY <1>1, <1>8, Zenon
        <4>3. QED
          BY <1>2, <1>3, <1>9, <4>1, <4>2, PoolListed
      <3>2. q3 + 2 + l = q4
        <4>1. l \in Nat /\ Len(p) = 2 + l
          BY <1>9, <1>a
        <4> HIDE DEF l
        <4>2. QED
          BY <1>8, <4>1
      <3>3. QED
        BY <3>1, <3>2, Zenon
    <2>2. Kept(c3, At(b, q4, pool)) = c4
      BY KeptAt DEF n8
    <2> HIDE DEF c3, c4
    <2>3. QED
      BY <2>1, <2>2, Zenon DEF ReadPool
  <1>18. ReadSyms(c4) = c5
    <2>1. Listed(c4, ReadSym) = At(b, q5, irep.syms)
      <3> DEFINE l == Len(Joined(Sym, irep.syms))
      <3>1. Listed(c4, ReadSym) = At(b, q4 + 2 + l, irep.syms)
        <4>1. Stands(b, q4, U16(Len(irep.syms)) \o Joined(Sym, irep.syms))
          BY <1>7, <1>a, Zenon DEF SymsPart
        <4>2. b \in Seq(Nat) /\ q4 \in Nat
          BY <1>1, <1>8, Zenon
        <4>3. QED
          BY <1>2, <1>3, <1>9, <4>1, <4>2, SymsListed
      <3>2. q4 + 2 + l = q5
        <4>1. l \in Nat /\ Len(s) = 2 + l
          BY <1>9, <1>a
        <4> HIDE DEF l
        <4>2. QED
          BY <1>8, <4>1
      <3>3. QED
        BY <3>1, <3>2, Zenon
    <2>2. Kept(c4, At(b, q5, irep.syms)) = c5
      BY KeptAt DEF n9
    <2> HIDE DEF c4, c5
    <2>3. QED
      BY <2>1, <2>2, Zenon DEF ReadSyms
  <1>19. OwnRecord(c5) = At(b, q5, OwnRead(irep))
    <2>1. Left(c5) = 0
      <3>1. Len(b) - q5 = 0
        BY <1>7, <1>8
      <3>2. QED
        BY <1>14, <3>1, Zenon
    <2> DEFINE r == [rlen |-> c5.val[3],
                     irep |-> Irep(c5.val[1], c5.val[2], c5.val[6], c5.val[7], c5.val[8], c5.val[9],
                                   <<>>, <<>>, <<>>)]
    <2>2. r = OwnRead(irep)
      <3> HIDE DEF c5, pool
      <3>1. QED
        BY <1>13, <1>14, <1>a, Zenon DEF OwnRead, OwnPart, pool
    <2>3. Check(c5, Left(c5) = 0) = c5
      <3> DEFINE ok == Left(c5) = 0
      <3>1. ok
        BY <2>1, Zenon
      <3> HIDE DEF ok
      <3>2. Check(c5, ok) = c5
        BY <3>1, CheckAt
      <3>3. QED
        BY <3>2, Zenon DEF ok
    <2>4. With(c5, OwnRead(irep)) = At(b, q5, OwnRead(irep))
      BY AtHolds
    <2> HIDE DEF c5
    <2>5. OwnRecord(c5) = With(Check(c5, Left(c5) = 0), r)
      BY Zenon DEF OwnRecord
    <2> HIDE DEF r
    <2>6. QED
      BY <2>2, <2>3, <2>4, <2>5, Zenon
  <1> HIDE DEF c1, c2, c3, c4, c5
  <1>20. Nums(Cursor(b), <<2, 2, 2, 2, 4>>) = c1
    BY <1>6, <1>b, Zenon DEF c1
  <1>21. ReadOwn(b) = At(b, q5, OwnRead(irep))
    BY <1>15, <1>16, <1>17, <1>18, <1>19, <1>20, Zenon DEF ReadOwn
  <1>22. QED
    BY <1>7, <1>21, <1>a, Zenon

--------------------------------------------------------------------------------
(* A tree of ireps.                                                             *)

\* What is read back of an irep and of those in it, with the names of the locals or not:
\* an integer that needs no more has become a small one, and no debug record is left.
Again(irep, named, reps) ==
  Irep(irep.nlocals, irep.nregs, irep.iseq, irep.handlers, Each(Normal, irep.pool), irep.syms, reps,
       IF named THEN irep.lv ELSE <<>>, <<>>)
Rebuilt(named) ==
  LET rebuilt[irep \in Trees] == Again(irep, named, Of(rebuilt, irep.reps))
  IN  rebuilt

LEMMA RebuiltEquation ==
  ASSUME NEW named \in BOOLEAN
  PROVE  /\ \A d \in 0 .. Depth : \A irep \in Tree[d] : Rebuilt(named)[irep] \in Tree[d]
         /\ \A irep \in Trees :
              Rebuilt(named)[irep] = Again(irep, named, Of(Rebuilt(named), irep.reps))
  <1> DEFINE Is(f, T) == f = [irep \in T |-> Again(irep, named, Of(f, irep.reps))]
             S == {d \in Nat : d <= Depth => \E f : Is(f, Tree[d])}
  <1>1. 0 \in S
    <2> DEFINE f == [irep \in {} |-> irep]
    <2>1. Is(f, {})
      OBVIOUS
    <2> HIDE DEF Is
    <2>2. QED
      BY <2>1, TreeEquation
  <1>2. ASSUME NEW d \in Nat, d \in S PROVE d + 1 \in S
    <2> DEFINE e == d + 1
    <2> HIDE DEF Is
    <2> SUFFICES ASSUME e <= Depth PROVE \E f : Is(f, Tree[e])
      OBVIOUS
    <2> USE DEF Is
    <2>1. e \in 1 .. Depth /\ e - 1 = d /\ d <= Depth
      BY LayoutAssumption
    <2>2. PICK f : Is(f, Tree[d])
      BY <1>2, <2>1
    <2> HIDE DEF e
    <2> DEFINE g == [irep \in Tree[e] |-> Again(irep, named, Of(f, irep.reps))]
    <2>3. Tree[d] \subseteq Tree[e] /\ Tree[e] = IrepsOf(Tree[d])
      BY <2>1, TreeGrows, TreeEquation, Zenon
    <2>4. ASSUME NEW irep \in Tree[d] PROVE g[irep] = f[irep]
      BY <2>2, <2>3, Zenon
    <2>5. ASSUME NEW irep \in Tree[e] PROVE Of(g, irep.reps) = Of(f, irep.reps)
      <3>1. \A i \in DOMAIN irep.reps : irep.reps[i] \in Tree[d]
        BY <2>3, SMT DEF IrepsOf
      <3> HIDE DEF g
      <3>2. \A i \in DOMAIN irep.reps : g[irep.reps[i]] = f[irep.reps[i]]
        BY <2>4, <3>1, Zenon
      <3>3. QED
        BY <3>2, Zenon DEF Of
    <2>6. Is(g, Tree[e])
      BY <2>5, Zenon
    <2> HIDE DEF g, Is
    <2>7. QED
      BY <2>6
  <1>3. Nat \subseteq S
    <2> HIDE DEF S
    <2>1. QED
      BY <1>1, <1>2, SetInduction
  <1>4. \E f : Is(f, Trees)
    <2> HIDE DEF Is
    <2>1. QED
      BY <1>3, LayoutAssumption DEF Trees
  <1> DEFINE Eq(f) == f = [irep \in Trees |-> Again(irep, named, Of(f, irep.reps))]
             g     == CHOOSE f : Eq(f)
  <1>5. Eq(g)
    BY <1>4, Zenon
  <1>6. Rebuilt(named) = g
    BY Zenon DEF Rebuilt
  <1> HIDE DEF g
  <1>7. \A irep \in Trees : g[irep] = Again(irep, named, Of(g, irep.reps))
    BY <1>5, Zenon
  <1> DEFINE P == [d \in Nat |-> {irep \in Tree[d] : g[irep] \in Tree[d]}]
  <1>8. ASSUME NEW d \in 1 .. Depth, NEW irep \in Tree[d],
               \A i \in DOMAIN irep.reps : irep.reps[i] \in Tree[d - 1] /\ irep.reps[i] \in P[d - 1]
        PROVE  irep \in P[d]
    <2>1. d \in Nat /\ d - 1 \in Nat /\ d \in 0 .. Depth
      BY LayoutAssumption
    <2>2. irep \in Trees /\ irep \in IrepsOf(Tree[d - 1]) /\ Tree[d] = IrepsOf(Tree[d - 1])
      BY <2>1, TreeGrows, TreeEquation, Zenon
    <2>3. \A i \in DOMAIN irep.reps : g[irep.reps[i]] \in Tree[d - 1]
      BY <1>8, <2>1
    <2> HIDE DEF P
    <2> DEFINE reps == Of(g, irep.reps)
    <2>4. reps \in Seq(Tree[d - 1])
      <3>1. irep.reps \in Seq(Tree[d - 1])
        BY <2>2, SMT DEF IrepsOf
      <3>2. IsSequence(irep.reps)
        BY <3>1, Zenon DEF IsSequence
      <3>3. QED
        BY <2>3, <3>2, OfType, Zenon
    <2>5. g[irep] = Again(irep, named, reps)
      BY <1>7, <2>2, Zenon
    <2> HIDE DEF reps
    <2>6. Again(irep, named, reps) \in IrepsOf(Tree[d - 1])
      <3> DEFINE T    == Tree[d - 1]
                 lv   == IF named THEN irep.lv ELSE <<>>
                 pool == Each(Normal, irep.pool)
      <3>1. /\ irep.nlocals \in Nat /\ irep.nregs \in Nat /\ irep.iseq \in Seq(Nat)
            /\ irep.handlers \in Seq(Handlers) /\ irep.pool \in Seq(PoolValues)
            /\ irep.syms \in Seq(Optional(Seq(Nat))) /\ irep.lv \in Seq(Nat \cup {Null})
        BY <2>2, IrepShape
      <3>2. lv \in Seq(Nat \cup {Null}) /\ <<>> \in Optional(DebugInfo)
        BY <3>1 DEF Optional
      <3>3. pool \in Seq(PoolValues)
        BY <3>1, EachNormal
      <3> HIDE DEF T, lv, pool
      <3>4. reps \in Seq(T)
        BY <2>4, Zenon DEF T
      <3>5. Irep(irep.nlocals, irep.nregs, irep.iseq, irep.handlers, pool, irep.syms, reps, lv, <<>>)
              \in IrepsOf(T)
        BY <3>1, <3>2, <3>3, <3>4, MakesIrep
      <3>6. QED
        BY <3>5, Zenon DEF Again, T, lv, pool
    <2>7. g[irep] \in Tree[d]
      BY <2>2, <2>5, <2>6, Zenon
    <2>8. QED
      BY <2>1, <2>7 DEF P
  <1>9. \A d \in 0 .. Depth : Tree[d] \subseteq P[d]
    <2> HIDE DEF P
    <2>1. QED
      BY <1>8, LevelInduction, Zenon
  <1>10. ASSUME NEW d \in 0 .. Depth, NEW irep \in Tree[d] PROVE g[irep] \in Tree[d]
    <2>1. d \in Nat
      BY LayoutAssumption
    <2>2. QED
      BY <1>9, <2>1
  <1>11. QED
    BY <1>6, <1>7, <1>10, Zenon

\* What is kept of the fields.
Rebuilds(x, irep, named) ==
  /\ x \in Trees /\ x = Again(irep, named, Of(Rebuilt(named), irep.reps))
  /\ x.nlocals = irep.nlocals /\ x.nregs = irep.nregs /\ x.iseq = irep.iseq
  /\ x.handlers = irep.handlers /\ x.pool = Each(Normal, irep.pool) /\ x.syms = irep.syms
  /\ x.reps = Of(Rebuilt(named), irep.reps) /\ x.lv = (IF named THEN irep.lv ELSE <<>>)
  /\ x.debug = <<>>

LEMMA RebuiltFields ==
  ASSUME NEW named \in BOOLEAN, NEW irep \in Trees
  PROVE  Rebuilds(Rebuilt(named)[irep], irep, named)
  <1> DEFINE g    == Rebuilt(named)
             reps == Of(g, irep.reps)
             lv   == IF named THEN irep.lv ELSE <<>>
             pool == Each(Normal, irep.pool)
             x    == g[irep]
  <1>1. Depth \in 0 .. Depth
    BY LayoutAssumption
  <1>2. x \in Trees /\ x = Again(irep, named, reps)
    BY <1>1, RebuiltEquation, Zenon DEF Trees
  <1> HIDE DEF reps, lv, pool, x
  <1>3. x = Irep(irep.nlocals, irep.nregs, irep.iseq, irep.handlers, pool, irep.syms, reps, lv, <<>>)
    BY <1>2, Zenon DEF Again, lv, pool
  <1>4. HasFields(x, irep.nlocals, irep.nregs, irep.iseq, irep.handlers, pool, irep.syms, reps, lv, <<>>)
    BY <1>3, IrepIs, Zenon
  <1>5. QED
    BY <1>2, <1>4, Zenon DEF HasFields, Rebuilds, reps, lv, pool, x

\* The reader of records by how many may be around one.
Reads(record, c) ==
  \A d \in 1 .. Len(c.in) : \A pos \in 0 .. Len(c.in) :
    record[d][pos] = ReadBody(Sized(Num(Moved(c, pos), 4)), record[d - 1])

LEMMA ReadRecordEquation ==
  ASSUME NEW c, Len(c.in) \in Nat
  PROVE  \E record : Reads(record, c) /\ ReadRecord(c) = record[Len(c.in)][c.pos]
  <1> DEFINE m        == Len(c.in)
             Here(d, f) == [pos \in 0 .. m |->
                             IF d = 0 THEN Fail(c)
                             ELSE ReadBody(Sized(Num([c EXCEPT !.pos = pos], 4)), f[d - 1])]
             Eq(f, n) == f = [d \in 0 .. n |-> Here(d, f)]
             K        == {n \in Nat : \E f : Eq(f, n)}
  <1>a. m \in Nat
    OBVIOUS
  <1> HIDE DEF m
  <1>1. 0 \in K
    <2> DEFINE f == [d \in 0 .. 0 |-> [pos \in 0 .. m |-> Fail(c)]]
    <2>1. \A d \in 0 .. 0 : Here(d, f) = [pos \in 0 .. m |-> Fail(c)]
      <3>1. \A d \in 0 .. 0 : d = 0
        OBVIOUS
      <3> HIDE DEF f
      <3>2. QED
        BY <3>1, Zenon
    <2> HIDE DEF Here
    <2>2. Eq(f, 0)
      BY <2>1, Zenon
    <2> HIDE DEF Eq
    <2>3. QED
      BY <2>2
  <1>2. ASSUME NEW n \in Nat, n \in K PROVE n + 1 \in K
    <2> HIDE DEF Here
    <2>1. PICK f : Eq(f, n)
      BY <1>2
    <2> DEFINE g == [d \in 0 .. n + 1 |-> IF d = n + 1 THEN Here(n + 1, f) ELSE f[d]]
    <2>2. ASSUME NEW d \in 0 .. n + 1 PROVE g[d] = Here(d, g)
      <3>0. d # 0 => d - 1 \in 0 .. n + 1 /\ d - 1 # n + 1
        OBVIOUS
      <3>1. g[d] = Here(d, f)
        <4>1. CASE d = n + 1
          BY <4>1, Zenon
        <4>2. CASE d # n + 1
          <5>1. d \in 0 .. n
            BY <4>2
          <5>2. f[d] = Here(d, f)
            BY <2>1, <5>1, Zenon
          <5>3. QED
            BY <4>2, <5>2, Zenon
        <4>3. QED
          BY <4>1, <4>2
      <3>2. d # 0 => g[d - 1] = f[d - 1]
        BY <3>0, Zenon
      <3> HIDE DEF g
      <3>3. Here(d, f) = Here(d, g)
        BY <3>2, Zenon DEF Here
      <3>4. QED
        BY <3>1, <3>3, Zenon
    <2>3. g = [d \in 0 .. n + 1 |-> g[d]]
      BY Zenon
    <2> HIDE DEF g
    <2>4. Eq(g, n + 1)
      BY <2>2, <2>3, Zenon
    <2> HIDE DEF Eq
    <2>5. QED
      BY <2>4
  <1>3. Nat \subseteq K
    <2> HIDE DEF K
    <2>1. QED
      BY <1>1, <1>2, SetInduction
  <1> DEFINE Tr(f) == f = [d \in 0 .. Len(c.in) |->
                            [pos \in 0 .. Len(c.in) |->
                               IF d = 0 THEN Fail(c)
                               ELSE ReadBody(Sized(Num([c EXCEPT !.pos = pos], 4)), f[d - 1])]]
             g == CHOOSE f : Tr(f)
  <1>4. \E f : Tr(f)
    <2>1. \E f : Eq(f, m)
      <3> HIDE DEF Eq
      <3>1. QED
        BY <1>3, <1>a
    <2>2. QED
      BY <2>1, Zenon DEF m
  <1>5. Tr(g)
    BY <1>4, Zenon
  <1>6. ReadRecord(c) = g[Len(c.in)][c.pos]
    BY Zenon DEF ReadRecord
  <1> HIDE DEF g
  <1>7. Reads(g, c)
    <2> SUFFICES ASSUME NEW d \in 1 .. m, NEW pos \in 0 .. m
                 PROVE  g[d][pos] = ReadBody(Sized(Num([c EXCEPT !.pos = pos], 4)), g[d - 1])
      BY Zenon DEF Reads, Moved, m
    <2>1. d \in 0 .. m /\ d # 0
      BY <1>a
    <2>2. QED
      BY <1>5, <2>1, ZenonT(60) DEF m
  <1>8. QED
    BY <1>6, <1>7, Zenon

LEMMA OwnHeadLength ==
  ASSUME NEW irep \in Trees
  PROVE  Len(OwnHead(irep)) = 12
  <1> DEFINE a1 == U16(irep.nlocals)
             a2 == a1 \o U16(irep.nregs)
             a3 == a2 \o U16(Len(irep.reps))
             a4 == a3 \o U16(Len(irep.handlers))
             a5 == a4 \o U32(Len(irep.iseq))
  <1>1. /\ irep.nlocals \in Int /\ irep.nregs \in Int /\ Len(irep.reps) \in Int
        /\ Len(irep.handlers) \in Int /\ Len(irep.iseq) \in Int
    BY TreeParts DEF IrepsOf
  <1>w. /\ U16(irep.nregs) \in Seq(Nat) /\ Len(U16(irep.nregs)) = 2
        /\ U16(Len(irep.reps)) \in Seq(Nat) /\ Len(U16(Len(irep.reps))) = 2
        /\ U16(Len(irep.handlers)) \in Seq(Nat) /\ Len(U16(Len(irep.handlers))) = 2
        /\ U32(Len(irep.iseq)) \in Seq(Nat) /\ Len(U32(Len(irep.iseq))) = 4
    BY <1>1, WidthOfNumbers
  <1>2. a1 \in Seq(Nat) /\ Len(a1) = 2
    BY <1>1, WidthOfNumbers
  <1> HIDE DEF a1
  <1>3. a2 \in Seq(Nat) /\ Len(a2) = Len(a1) + 2
    BY <1>w, <1>2, LengthOfTwo
  <1> HIDE DEF a2
  <1>4. a3 \in Seq(Nat) /\ Len(a3) = Len(a2) + 2
    BY <1>w, <1>3, LengthOfTwo
  <1> HIDE DEF a3
  <1>5. a4 \in Seq(Nat) /\ Len(a4) = Len(a3) + 2
    BY <1>w, <1>4, LengthOfTwo
  <1> HIDE DEF a4
  <1>6. Len(a5) = Len(a4) + 4
    BY <1>w, <1>5, LengthOfTwo
  <1>7. OwnHead(irep) = a5
    BY Zenon DEF OwnHead, a4, a3, a2, a1
  <1> HIDE DEF a5
  <1>8. QED
    BY <1>2, <1>3, <1>4, <1>5, <1>6, <1>7

LEMMA OwnSizeAtLeast ==
  ASSUME NEW irep \in Trees
  PROVE  OwnSize(irep) >= 16
  <1> DEFINE a == OwnHead(irep)
             i == irep.iseq
             h == Joined(Handler, irep.handlers)
             p == PoolPart(irep)
             s == SymsPart(irep)
             b == OwnBody(irep)
  <1>1. /\ i \in Seq(Nat) /\ h \in Seq(Nat) /\ a \in Seq(Nat) /\ p \in Seq(Nat) /\ s \in Seq(Nat)
    BY ListBytes, OwnBodyCut
  <1>2. b = a \o i \o h \o p \o s /\ b \in Seq(Nat)
    BY OwnBodyCut, OwnBytes
  <1>3. Len(b) = OwnSize(irep) - 4 /\ OwnSize(irep) \in Nat /\ Len(a) = 12
    BY OwnBytes, OwnHeadLength
  <1>4. Stands(b, 0, b) /\ 0 \in Nat
    BY <1>2, StandsItself
  <1> HIDE DEF a, i, h, p, s, b
  <1>5. CutFive(b, 0, a, i, h, p, s)
    <2>1. Stands(b, 0, a \o i \o h \o p \o s)
      BY <1>2, <1>4, Zenon
    <2>2. QED
      BY <1>1, <1>2, <1>4, <2>1, FiveStand, Zenon
  <1>6. Len(b) = Len(a) + Len(i) + Len(h) + Len(p) + Len(s)
    BY <1>2, <1>5, Zenon DEF CutFive
  <1>7. Len(i) \in Nat /\ Len(h) \in Nat /\ Len(p) \in Nat /\ Len(s) \in Nat
    BY <1>1, LengthType
  <1>8. QED
    BY <1>3, <1>6, <1>7

LEMMA PartNoLonger ==
  ASSUME NEW parts \in Seq(Seq(Nat)), NEW i \in 1 .. Len(parts)
  PROVE  Len(parts[i]) <= Len(FlattenSeq(parts))
  <1> DEFINE b == FlattenSeq(parts)
  <1>1. b \in Seq(Nat)
    BY FlattenLength, Zenon
  <1>2. Stands(b, 0, b)
    BY <1>1, StandsItself
  <1>3. PICK P : /\ \A j \in 0 .. Len(parts) : P[j] \in 0 .. Len(b)
                 /\ \A j \in 1 .. Len(parts) : Stands(b, P[j - 1], parts[j])
    <2>1. 0 \in Nat
      OBVIOUS
    <2> HIDE DEF b
    <2>2. Stands(b, 0, FlattenSeq(parts))
      BY <1>2, Zenon DEF b
    <2>3. \E P : /\ P[0] = 0 /\ P[Len(parts)] = 0 + Len(FlattenSeq(parts))
                 /\ \A j \in 0 .. Len(parts) : P[j] \in 0 .. Len(b)
                 /\ \A j \in 1 .. Len(parts) :
                      P[j] = P[j - 1] + Len(parts[j]) /\ Stands(b, P[j - 1], parts[j])
      BY <1>1, <2>1, <2>2, FlattenStands
    <2>4. QED
      BY <2>3, Zenon
  <1> HIDE DEF b
  <1>4. i - 1 \in 0 .. Len(parts)
    OBVIOUS
  <1>5. P[i - 1] + Len(parts[i]) <= Len(b) /\ P[i - 1] \in 0 .. Len(b)
    BY <1>3, <1>4, Zenon DEF Stands
  <1>6. Len(parts[i]) \in Nat /\ Len(b) \in Nat
    BY <1>1
  <1> DEFINE p == P[i - 1]
             l == Len(parts[i])
             n == Len(b)
  <1> HIDE DEF p, l, n
  <1>7. p + l <= n /\ p \in 0 .. n /\ l \in Nat /\ n \in Nat
    BY <1>5, <1>6, Zenon DEF p, l, n
  <1>8. l <= n
    BY <1>7
  <1>9. QED
    BY <1>8, Zenon DEF l, n, b

\* The record of an irep, of any that fits, is read as the irep, wherever it stands.
AllShort(irep) == \A part \in Parts[irep] : ShortIrep(part)
ReadsRecord(record, b, irep) ==
  \A d \in 0 .. Len(b) : \A pos \in 0 .. Len(b) :
    Stands(b, pos, Record[irep]) /\ Len(Record[irep]) <= d
      => record[d][pos] = At(b, pos + Len(Record[irep]), Rebuilt(FALSE)[irep])

LEMMA SizedAt ==
  ASSUME NEW b \in Seq(Nat), NEW pos \in Nat, NEW v, NEW o \in Nat, NEW body \in Seq(Nat),
         o >= 10, o < Word, Len(body) = o - 4, Stands(b, pos, U32(o)), Stands(b, pos + 4, body)
  PROVE  Sized(Num(At(b, pos, v), 4)) = At(b, pos + o, body)
  <1> DEFINE s == At(b, pos + 4, o)
             l == Len(body)
             n == Len(b)
  <1>1. Num(At(b, pos, v), 4) = s
    BY WordAt
  <1>2. s.val = o /\ Left(s) = n - (pos + 4)
    BY AtFields
  <1>3. l = o - 4 /\ n \in Nat /\ pos + 4 \in Nat
    OBVIOUS
  <1>4. (pos + 4) + l <= n
    BY Zenon DEF Stands
  <1> HIDE DEF s, l, n
  <1> DEFINE ok == s.val >= 10 /\ s.val <= Left(s) + 4
  <1>5. ok
    <2>1. o <= (n - (pos + 4)) + 4
      BY <1>3, <1>4
    <2>2. QED
      BY <1>2, <2>1, Zenon
  <1> HIDE DEF ok
  <1>6. Check(s, ok) = s
    BY <1>5, CheckAt DEF s
  <1>7. Take(s, l) = At(b, (pos + 4) + l, body)
    <2> DEFINE q == pos + 4
    <2>1. q \in Nat /\ Stands(b, q, body)
      BY <1>3
    <2> HIDE DEF q
    <2>2. Take(At(b, q, o), Len(body)) = At(b, q + Len(body), body)
      BY <2>1, TakeAt, SMTT(30)
    <2>3. QED
      BY <2>2, Zenon DEF s, l, q
  <1>8. (pos + 4) + l = pos + o
    BY <1>3
  <1>9. Sized(s) = Take(s, l)
    <2>1. Sized(s) = Take(Check(s, ok), s.val - 4)
      BY Zenon DEF Sized, ok
    <2>2. QED
      BY <1>2, <1>3, <1>6, <2>1, Zenon
  <1>10. QED
    BY <1>1, <1>7, <1>8, <1>9, Zenon

\* Where the parts of a record stand.
RecordCut(b, pos, irep) ==
  /\ Stands(b, pos, U32(OwnSize(irep))) /\ Stands(b, pos + 4, OwnBody(irep))
  /\ Stands(b, pos + OwnSize(irep), FlattenSeq(Of(Record, irep.reps)))
  /\ Len(Record[irep]) = OwnSize(irep) + Len(FlattenSeq(Of(Record, irep.reps)))
LEMMA RecordStands ==
  ASSUME NEW b \in Seq(Nat), NEW pos \in Nat, NEW irep \in Trees, Stands(b, pos, Record[irep])
  PROVE  RecordCut(b, pos, irep)
  <1> DEFINE o    == OwnSize(irep)
             x    == U32(o)
             body == OwnBody(irep)
             own  == Own(irep)
             tail == FlattenSeq(Of(Record, irep.reps))
  <1>1. o \in Nat /\ body \in Seq(Nat) /\ own \in Seq(Nat) /\ own = x \o body /\ Len(own) = o
    BY OwnBytes
  <1>2. Of(Record, irep.reps) \in Seq(Seq(Nat)) /\ Record[irep] = own \o tail
    BY RecordEquation
  <1>3. tail \in Seq(Nat)
    BY <1>2, FlattenLength, Zenon
  <1>4. x \in Seq(Nat) /\ Len(x) = 4
    BY <1>1, WidthOfNumbers
  <1>5. Stands(b, pos, own \o tail)
    BY <1>2, Zenon
  <1> HIDE DEF o, x, body, own, tail
  <1>6. Stands(b, pos, own) /\ Stands(b, pos + Len(own), tail)
    BY <1>1, <1>3, <1>5, StandsJoin
  <1>7. Stands(b, pos, x) /\ Stands(b, pos + Len(x), body)
    <2>1. Stands(b, pos, x \o body)
      BY <1>1, <1>6, Zenon
    <2>2. QED
      BY <1>1, <1>4, <2>1, StandsJoin
  <1>8. Len(own \o tail) = Len(own) + Len(tail)
    BY <1>1, <1>3, LengthOfTwo
  <1>9. QED
    BY <1>1, <1>2, <1>4, <1>6, <1>7, <1>8, Zenon DEF RecordCut, o, x, body, own, tail

\* What is read of an irep, with those in it.
LEMMA RebuiltNested ==
  ASSUME NEW irep \in Trees
  PROVE  Nesting(OwnPart(irep), Of(Rebuilt(FALSE), irep.reps)) = Rebuilt(FALSE)[irep]
  <1> DEFINE vals == Of(Rebuilt(FALSE), irep.reps)
             x    == OwnPart(irep)
             pool == Each(Normal, irep.pool)
  <1>1. Rebuilds(Rebuilt(FALSE)[irep], irep, FALSE)
    BY RebuiltFields
  <1>2. x = Irep(irep.nlocals, irep.nregs, irep.iseq, irep.handlers, pool, irep.syms, <<>>, <<>>, <<>>)
    BY Zenon DEF OwnPart
  <1> HIDE DEF x, pool, vals
  <1>3. Nesting(x, vals)
          = Irep(irep.nlocals, irep.nregs, irep.iseq, irep.handlers, pool, irep.syms, vals, <<>>, <<>>)
    BY <1>2, IrepExcept
  <1>4. Rebuilt(FALSE)[irep] = Again(irep, FALSE, vals)
    BY <1>1, Zenon DEF Rebuilds, vals
  <1>5. Again(irep, FALSE, vals)
          = Irep(irep.nlocals, irep.nregs, irep.iseq, irep.handlers, pool, irep.syms, vals, <<>>, <<>>)
    BY Zenon DEF Again, pool
  <1>6. QED
    BY <1>3, <1>4, <1>5, Zenon DEF x, vals

\* The items that read the ireps in an irep do so.
KidsRead(item, b, irep) ==
  \A i \in 1 .. Len(irep.reps) : Takes(item, b, Record[irep.reps[i]], Rebuilt(FALSE)[irep.reps[i]])
BodyStands(b, pos, irep, item) ==
  /\ b \in Seq(Nat) /\ pos \in Nat /\ irep \in Trees /\ ShortIrep(irep)
  /\ Stands(b, pos, Record[irep]) /\ KidsRead(item, b, irep)
BodyIsRead(b, pos, irep, item) ==
  \A v : ReadBody(Sized(Num(At(b, pos, v), 4)), item)
            = At(b, pos + Len(Record[irep]), Rebuilt(FALSE)[irep])
LEMMA BodyRead ==
  ASSUME NEW b, NEW pos, NEW irep, NEW item, BodyStands(b, pos, irep, item)
  PROVE  BodyIsRead(b, pos, irep, item)
  <1> SUFFICES ASSUME b \in Seq(Nat), pos \in Nat, irep \in Trees, ShortIrep(irep),
                      Stands(b, pos, Record[irep]), KidsRead(item, b, irep), NEW v
               PROVE  ReadBody(Sized(Num(At(b, pos, v), 4)), item)
                        = At(b, pos + Len(Record[irep]), Rebuilt(FALSE)[irep])
    BY Zenon DEF BodyStands, BodyIsRead
  <1> DEFINE o    == OwnSize(irep)
             body == OwnBody(irep)
             kids == Of(Record, irep.reps)
             tail == FlattenSeq(kids)
             vals == Of(Rebuilt(FALSE), irep.reps)
             n    == Len(irep.reps)
             x    == At(b, pos + o, body)
             own  == ReadOwn(body)
             e    == pos + o + Len(tail)
  <1>1. RecordCut(b, pos, irep)
    BY RecordStands
  <1>2. /\ Stands(b, pos, U32(o)) /\ Stands(b, pos + 4, body) /\ Stands(b, pos + o, tail)
        /\ Len(Record[irep]) = o + Len(tail)
    BY <1>1, Zenon DEF RecordCut
  <1>3. o \in Nat /\ body \in Seq(Nat) /\ Len(body) = o - 4 /\ o >= 16 /\ o < Word
    BY OwnBytes, OwnSizeAtLeast DEF ShortIrep
  <1>4. kids \in Seq(Seq(Nat))
    BY RecordEquation
  <1>5. tail \in Seq(Nat) /\ Len(tail) \in Nat
    BY <1>4, FlattenLength, LengthType
  <1>6. irep.reps \in Seq(Trees) /\ n \in Nat /\ DOMAIN irep.reps = 1 .. n
    BY TreeParts, IrepShape
  <1>7. /\ Len(kids) = n /\ \A i \in 1 .. n : kids[i] = Record[irep.reps[i]]
    <2>1. IsSequence(irep.reps) /\ \A i \in DOMAIN irep.reps : irep.reps[i] \in Trees
      BY <1>6 DEF IsSequence
    <2>2. \A i \in DOMAIN irep.reps : Record[irep.reps[i]] \in Seq(Nat)
      BY <2>1, RecordEquation
    <2>3. Len(Of(Record, irep.reps)) = Len(irep.reps)
      BY <2>1, <2>2, OfType
    <2>4. QED
      BY <1>6, <2>3, Zenon DEF Of
  <1>8. /\ IsSequence(vals) /\ Len(vals) = n /\ \A i \in 1 .. n : vals[i] = Rebuilt(FALSE)[irep.reps[i]]
    <2>1. IsSequence(irep.reps) /\ \A i \in DOMAIN irep.reps : irep.reps[i] \in Trees
      BY <1>6 DEF IsSequence
    <2> DEFINE g == Rebuilt(FALSE)
    <2>2. \A y \in Trees : g[y] \in Trees
      BY RebuiltFields, Zenon DEF Rebuilds
    <2> HIDE DEF g
    <2>3. \A i \in DOMAIN irep.reps : g[irep.reps[i]] \in Trees
      BY <2>1, <2>2, Zenon
    <2>4. Of(g, irep.reps) \in Seq(Trees) /\ Len(Of(g, irep.reps)) = Len(irep.reps)
      BY <2>1, <2>3, OfType
    <2>5. QED
      BY <1>6, <2>4, Zenon DEF Of, IsSequence, g
  <1>9. Sized(Num(At(b, pos, v), 4)) = x
    <2> HIDE DEF o, body
    <2>1. o >= 10
      BY <1>3
    <2>2. QED
      BY <1>2, <1>3, <2>1, SizedAt
  <1>10. own = At(body, Len(body), OwnRead(irep))
    BY OwnReads
  <1> HIDE DEF own
  <1>11. own.ok /\ own.val = OwnRead(irep)
    <2> DEFINE z == At(body, Len(body), OwnRead(irep))
    <2>1. z.ok /\ z.val = OwnRead(irep)
      BY AtFields
    <2> HIDE DEF z
    <2>2. QED
      BY <1>10, <2>1, Zenon DEF z
  <1>12. own.val.rlen = n /\ own.val.irep = OwnPart(irep)
    BY <1>11 DEF OwnRead
  <1>13. x.ok /\ x.val = body
    BY AtFields
  <1> HIDE DEF o, body, x, kids, tail, n, vals
  <1> DEFINE y == At(b, e, vals)
  <1>14. InTurn(x, [i \in 1 .. n |-> item]) = y
    <2>1. pos + o \in Nat
      BY <1>3
    <2>2. \A i \in 1 .. Len(kids) : Takes(item, b, kids[i], vals[i])
      BY <1>7, <1>8, Zenon DEF KidsRead, n
    <2>3. TakesEach(item, b, pos + o, kids, vals)
      BY <1>2, <1>4, <1>7, <1>8, <2>1, <2>2, Zenon DEF TakesEach, tail
    <2>4. ItemsRead(item, b, pos + o, body, kids, vals)
      BY <2>3, ItemsAt, Zenon
    <2>5. QED
      BY <1>7, <2>4, Zenon DEF ItemsRead, x, tail
  <1>15. y.val = vals /\ With(y, Rebuilt(FALSE)[irep]) = At(b, e, Rebuilt(FALSE)[irep])
    <2> DEFINE z == Rebuilt(FALSE)[irep]
    <2> HIDE DEF e, z
    <2>1. y.val = vals /\ With(y, z) = At(b, e, z)
      BY AtFields, AtHolds
    <2> HIDE DEF y
    <2>2. QED
      BY <2>1, Zenon DEF z
  <1> HIDE DEF y
  <1>16. WithReps(y, OwnPart(irep)) = At(b, e, Rebuilt(FALSE)[irep])
    <2>1. Nesting(OwnPart(irep), vals) = Rebuilt(FALSE)[irep]
      BY RebuiltNested, Zenon DEF vals
    <2>2. QED
      BY <1>15, <2>1, Zenon DEF WithReps, Nesting
  <1>17. ReadReps(x, own, item) = At(b, e, Rebuilt(FALSE)[irep])
    BY <1>11, <1>12, <1>14, <1>16, Zenon DEF ReadReps
  <1>18. ReadBody(x, item) = At(b, e, Rebuilt(FALSE)[irep])
    BY <1>13, <1>17, Zenon DEF ReadBody, own
  <1>19. e = pos + Len(Record[irep])
    BY <1>2, <1>3, <1>5
  <1>20. QED
    BY <1>9, <1>18, <1>19, Zenon

LEMMA RecordsAt ==
  ASSUME NEW b \in Seq(Nat), NEW p, NEW v, NEW record, Reads(record, At(b, p, v))
  PROVE  \A irep \in Trees : AllShort(irep) => ReadsRecord(record, b, irep)
  <1> DEFINE S == {irep \in Trees : AllShort(irep) => ReadsRecord(record, b, irep)}
             c == At(b, p, v)
             m == Len(b)
  <1>a. m \in Nat /\ c.in = b
    BY AtFields
  <1>b. ASSUME NEW d \in 1 .. m, NEW pos \in 0 .. m
        PROVE  record[d][pos] = ReadBody(Sized(Num(At(b, pos, v), 4)), record[d - 1])
    <2>1. Moved(c, pos) = At(b, pos, v)
      BY AtMoved, Zenon
    <2>2. Reads(record, c)
      OBVIOUS
    <2> HIDE DEF c
    <2>3. record[d][pos] = ReadBody(Sized(Num(Moved(c, pos), 4)), record[d - 1])
      BY <1>a, <2>2, Zenon DEF Reads
    <2>4. QED
      BY <2>1, <2>3, Zenon
  <1> HIDE DEF c
  <1>1. ASSUME NEW irep \in Trees,
               \A i \in DOMAIN irep.reps : irep.reps[i] \in Trees /\ irep.reps[i] \in S,
               AllShort(irep)
        PROVE  ReadsRecord(record, b, irep)
    <2> DEFINE r    == Record[irep]
               kids == Of(Record, irep.reps)
               tail == FlattenSeq(kids)
               o    == OwnSize(irep)
    <2>1. /\ irep \in Parts[irep] /\ \A i \in DOMAIN irep.reps : Parts[irep.reps[i]] \subseteq Parts[irep]
      BY PartsOf
    <2>2. ShortIrep(irep) /\ \A i \in DOMAIN irep.reps : AllShort(irep.reps[i])
      BY <1>1, <2>1, Zenon DEF AllShort
    <2>3. \A i \in DOMAIN irep.reps : ReadsRecord(record, b, irep.reps[i])
      BY <1>1, <2>2, Zenon
    <2>4. irep.reps \in Seq(Trees) /\ Len(irep.reps) \in Nat /\ DOMAIN irep.reps = 1 .. Len(irep.reps)
      BY TreeParts, IrepShape
    <2>5. kids \in Seq(Seq(Nat)) /\ Len(kids) = Len(irep.reps)
          /\ \A i \in 1 .. Len(irep.reps) : kids[i] = Record[irep.reps[i]]
      <3>1. IsSequence(irep.reps) /\ \A i \in DOMAIN irep.reps : irep.reps[i] \in Trees
        BY <2>4 DEF IsSequence
      <3>2. \A i \in DOMAIN irep.reps : Record[irep.reps[i]] \in Seq(Nat)
        BY <3>1, RecordEquation
      <3>3. Len(Of(Record, irep.reps)) = Len(irep.reps) /\ Of(Record, irep.reps) \in Seq(Seq(Nat))
        BY <3>1, <3>2, OfType
      <3>4. QED
        BY <2>4, <3>3, Zenon DEF Of
    <2>6. o \in Nat /\ o >= 16
      BY OwnBytes, OwnSizeAtLeast
    <2> SUFFICES ASSUME NEW d \in 0 .. m, NEW pos \in 0 .. m, Stands(b, pos, r), Len(r) <= d
                 PROVE  record[d][pos] = At(b, pos + Len(r), Rebuilt(FALSE)[irep])
      BY Zenon DEF ReadsRecord
    <2>7. pos \in Nat
      BY <1>a
    <2>8. Len(r) = o + Len(tail) /\ Len(tail) \in Nat
      <3>1. RecordCut(b, pos, irep)
        BY <2>7, RecordStands
      <3>2. tail \in Seq(Nat)
        BY <2>5, FlattenLength, Zenon
      <3>3. Len(tail) \in Nat
        BY <3>2, LengthType
      <3>4. QED
        BY <3>1, <3>3, Zenon DEF RecordCut
    <2> DEFINE l == Len(r)
               t == Len(tail)
    <2> HIDE DEF r, kids, tail, o, m
    <2>9. d \in 1 .. m /\ d - 1 \in 0 .. m /\ t <= d - 1
      <3>1. l = o + t /\ t \in Nat /\ l <= d
        BY <2>8, Zenon DEF l, t
      <3> HIDE DEF l, t
      <3>2. QED
        BY <1>a, <2>6, <3>1
    <2>10. ASSUME NEW i \in 1 .. Len(irep.reps)
           PROVE  Takes(record[d - 1], b, Record[irep.reps[i]], Rebuilt(FALSE)[irep.reps[i]])
      <3> DEFINE kid == irep.reps[i]
                 k   == Len(kids[i])
      <3>1. i \in 1 .. Len(kids) /\ kids[i] = Record[kid] /\ kids[i] \in Seq(Nat)
        BY <2>5
      <3>2. k <= t /\ k \in Nat
        BY <2>5, <3>1, PartNoLonger DEF t, tail
      <3>3. Len(Record[kid]) <= d - 1
        <4> HIDE DEF k, t
        <4>1. k <= d - 1
          BY <2>8, <2>9, <3>2 DEF t
        <4>2. QED
          BY <3>1, <4>1, Zenon DEF k
      <3>4. ReadsRecord(record, b, kid)
        BY <2>3, <2>4, Zenon
      <3> HIDE DEF kid, k
      <3>5. \A q \in 0 .. Len(b) : Stands(b, q, Record[kid])
              => record[d - 1][q] = At(b, q + Len(Record[kid]), Rebuilt(FALSE)[kid])
        BY <2>9, <3>3, <3>4, Zenon DEF ReadsRecord, m
      <3>6. QED
        BY <3>5, Zenon DEF Takes, kid
    <2>11. KidsRead(record[d - 1], b, irep)
      BY <2>10, Zenon DEF KidsRead
    <2>12. record[d][pos] = ReadBody(Sized(Num(At(b, pos, v), 4)), record[d - 1])
      BY <1>b, <2>9, Zenon
    <2> DEFINE item == record[d - 1]
    <2>13. KidsRead(item, b, irep)
      BY <2>11, Zenon
    <2> HIDE DEF item
    <2>14. ReadBody(Sized(Num(At(b, pos, v), 4)), item)
             = At(b, pos + Len(Record[irep]), Rebuilt(FALSE)[irep])
      <3>1. ShortIrep(irep) /\ Stands(b, pos, Record[irep])
        BY <2>2, Zenon DEF r
      <3>2. QED
        <4>1. BodyStands(b, pos, irep, item)
          BY <2>7, <2>13, <3>1, Zenon DEF BodyStands
        <4>2. BodyIsRead(b, pos, irep, item)
          BY <4>1, BodyRead, Zenon
        <4>3. QED
          BY <4>2, Zenon DEF BodyIsRead
    <2>15. QED
      BY <2>12, <2>14, Zenon DEF item, r
  <1>2. Trees \subseteq S
    <2>1. ASSUME NEW irep \in Trees,
                 \A i \in DOMAIN irep.reps : irep.reps[i] \in Trees /\ irep.reps[i] \in S
          PROVE  irep \in S
      <3>1. AllShort(irep) => ReadsRecord(record, b, irep)
        <4> HIDE DEF S
        <4>1. QED
          BY <1>1, <2>1, Zenon
      <3>2. QED
        BY <3>1
    <2> HIDE DEF S
    <2>2. QED
      BY <2>1, TreeInduction, Zenon
  <1>3. QED
    BY <1>2, Zenon

\* read_irep_record gives back the irep whose record it reads.
LEMMA RecordAt ==
  ASSUME NEW b \in Seq(Nat), NEW irep \in Trees, AllShort(irep), b = Record[irep]
  PROVE  ReadRecord(Cursor(b)) = At(b, Len(b), Rebuilt(FALSE)[irep])
  <1> DEFINE c == At(b, 0, <<>>)
             n == Len(b)
             x == Rebuilt(FALSE)[irep]
  <1>1. n \in Nat /\ c.in = b /\ c.pos = 0
    BY AtFields
  <1>2. PICK record : Reads(record, c) /\ ReadRecord(c) = record[n][0]
    <2> HIDE DEF c
    <2>1. Len(c.in) \in Nat
      BY <1>1, Zenon
    <2>2. \E record : Reads(record, c) /\ ReadRecord(c) = record[Len(c.in)][c.pos]
      BY <2>1, ReadRecordEquation
    <2>3. QED
      BY <1>1, <2>2, Zenon
  <1>3. ReadsRecord(record, b, irep)
    BY <1>2, RecordsAt
  <1>4. Stands(b, 0, b)
    BY StandsItself
  <1> HIDE DEF n, x
  <1>5. n \in 0 .. n /\ 0 \in 0 .. n /\ n <= n /\ 0 + n = n
    BY <1>1
  <1>6. record[n][0] = At(b, 0 + n, x)
    BY <1>3, <1>4, <1>5, Zenon DEF ReadsRecord, n, x
  <1>7. Cursor(b) = c
    BY CursorAt
  <1>8. QED
    BY <1>2, <1>5, <1>6, <1>7, Zenon DEF n, x

--------------------------------------------------------------------------------
(* The names of the locals.                                                     *)

Assigns(assign, nsyms, c) ==
  \A irep \in Trees : \A pos \in 0 .. Len(c.in) :
    assign[irep][pos]
      = AssignReps(irep, ReadOwnLv(irep, nsyms, Moved(c, pos)), Of(assign, irep.reps))

LEMMA AssignLvEquation ==
  ASSUME NEW nsyms, NEW c
  PROVE  \E assign : Assigns(assign, nsyms, c) /\ \A x : AssignLv(x, nsyms, c) = assign[x][c.pos]
  <1> DEFINE Step(irep, vs) == From(c, LAMBDA at : AssignReps(irep, ReadOwnLv(irep, nsyms, at), vs))
             Eq(f, T) == f = [irep \in T |-> Step(irep, Of(f, irep.reps))]
             S        == {d \in Nat : d <= Depth => \E f : Eq(f, Tree[d])}
  <1>1. 0 \in S
    <2> DEFINE f == [irep \in {} |-> irep]
    <2> HIDE DEF Step
    <2>1. Eq(f, {})
      OBVIOUS
    <2> HIDE DEF Eq
    <2>2. QED
      BY <2>1, TreeEquation
  <1>2. ASSUME NEW d \in Nat, d \in S PROVE d + 1 \in S
    <2> DEFINE e == d + 1
    <2> HIDE DEF Step
    <2> SUFFICES ASSUME e <= Depth PROVE \E f : Eq(f, Tree[e])
      OBVIOUS
    <2>1. e \in 1 .. Depth /\ e - 1 = d /\ d <= Depth
      BY LayoutAssumption
    <2>2. PICK f : Eq(f, Tree[d])
      BY <1>2, <2>1
    <2> HIDE DEF e
    <2> DEFINE g == [irep \in Tree[e] |-> Step(irep, Of(f, irep.reps))]
    <2>3. Tree[d] \subseteq Tree[e] /\ Tree[e] = IrepsOf(Tree[d])
      BY <2>1, TreeGrows, TreeEquation, Zenon
    <2>4. ASSUME NEW irep \in Tree[d] PROVE g[irep] = f[irep]
      BY <2>2, <2>3, Zenon
    <2>5. ASSUME NEW irep \in Tree[e] PROVE Of(g, irep.reps) = Of(f, irep.reps)
      <3>1. \A i \in DOMAIN irep.reps : irep.reps[i] \in Tree[d]
        BY <2>3, SMT DEF IrepsOf
      <3> HIDE DEF g
      <3>2. \A i \in DOMAIN irep.reps : g[irep.reps[i]] = f[irep.reps[i]]
        BY <2>4, <3>1, Zenon
      <3>3. QED
        BY <3>2, Zenon DEF Of
    <2>6. Eq(g, Tree[e])
      BY <2>5, Zenon
    <2> HIDE DEF g, Eq
    <2>7. QED
      BY <2>6
  <1>3. Nat \subseteq S
    <2> HIDE DEF S
    <2>1. QED
      BY <1>1, <1>2, SetInduction
  <1>4. \E f : Eq(f, Trees)
    <2> HIDE DEF Eq
    <2>1. QED
      BY <1>3, LayoutAssumption DEF Trees
  <1> DEFINE Tr(f) == f = [irep \in Trees |-> Step(irep, Of(f, irep.reps))]
             g     == CHOOSE f : Tr(f)
  <1>5. Tr(g)
    <2> HIDE DEF Step
    <2>1. QED
      BY <1>4, Zenon
  <1>6. \A x : AssignLv(x, nsyms, c) = g[x][c.pos]
    BY Zenon DEF AssignLv
  <1> HIDE DEF g
  <1>7. ASSUME NEW irep \in Trees, NEW pos \in 0 .. Len(c.in)
        PROVE  g[irep][pos] = AssignReps(irep, ReadOwnLv(irep, nsyms, Moved(c, pos)), Of(g, irep.reps))
    <2>1. g[irep] = Step(irep, Of(g, irep.reps))
      <3> HIDE DEF Step
      <3>1. QED
        BY <1>5, Zenon
    <2> DEFINE vs == Of(g, irep.reps)
    <2> HIDE DEF vs
    <2>2. Step(irep, vs)[pos] = AssignReps(irep, ReadOwnLv(irep, nsyms, Moved(c, pos)), vs)
      BY Zenon DEF From, Moved
    <2>3. QED
      BY <2>1, <2>2, Zenon DEF vs
  <1>8. Assigns(g, nsyms, c)
    BY <1>7, Zenon DEF Assigns
  <1>9. QED
    BY <1>6, <1>8, Zenon

\* Every local but self has a place in the table of names, or none.
NamedLocals(irep, nsyms) ==
  irep.nlocals = Len(irep.lv) + 1 /\ irep.lv \in Seq((0 .. nsyms - 1) \cup {Null})
AllNamed(irep, nsyms) == \A part \in Parts[irep] : NamedLocals(part, nsyms)

LEMMA LvOwnJoined ==
  ASSUME NEW irep
  PROVE  LvOwn(irep) = Joined(Slot, irep.lv)
  BY Zenon DEF LvOwn, Joined, Each, Slot

LEMMA OwnLvAt ==
  ASSUME NEW b \in Seq(Nat), NEW pos \in Nat, NEW v, NEW nsyms \in 0 .. NullMark, NEW irep \in Trees,
         NamedLocals(irep, nsyms), Stands(b, pos, LvOwn(irep)), NEW x, x.nlocals = irep.nlocals
  PROVE  ReadOwnLv(x, nsyms, At(b, pos, v)) = At(b, pos + Len(LvOwn(irep)), irep.lv)
  <1> DEFINE c == At(b, pos, v)
             l == Len(irep.lv)
  <1>1. irep.lv \in Seq((0 .. nsyms - 1) \cup {Null}) /\ irep.nlocals = l + 1
    BY DEF NamedLocals
  <1>2. l \in Nat
    BY <1>1, LengthType
  <1>3. x.nlocals # 0 /\ x.nlocals - 1 = l
    <2> HIDE DEF l
    <2>1. QED
      BY <1>1, <1>2
  <1>4. LvOwn(irep) = Joined(Slot, irep.lv)
    BY LvOwnJoined
  <1>5. Stands(b, pos, Joined(Slot, irep.lv))
    BY <1>4, Zenon
  <1>6. Times(c, Len(irep.lv), LAMBDA slot : ReadSlot(slot, nsyms))
          = At(b, pos + Len(Joined(Slot, irep.lv)), irep.lv)
    BY <1>1, <1>5, SlotsAt
  <1> DEFINE ok == x.nlocals # 0
  <1>7. Check(c, ok) = c
    <2>1. ok
      BY <1>3, Zenon
    <2> HIDE DEF ok
    <2>2. QED
      BY <2>1, CheckAt
  <1> HIDE DEF c
  <1>8. ReadOwnLv(x, nsyms, c) = Times(c, Len(irep.lv), LAMBDA slot : ReadSlot(slot, nsyms))
    BY <1>3, <1>7, Zenon DEF ReadOwnLv
  <1>9. QED
    BY <1>4, <1>6, <1>8, Zenon DEF c

LvCut(b, pos, irep) ==
  /\ Stands(b, pos, LvOwn(irep)) /\ LvOwn(irep) \in Seq(Nat)
  /\ Stands(b, pos + Len(LvOwn(irep)), FlattenSeq(Of(LvRecords, irep.reps)))
  /\ Len(LvRecords[irep]) = Len(LvOwn(irep)) + Len(FlattenSeq(Of(LvRecords, irep.reps)))
LEMMA LvStands ==
  ASSUME NEW b \in Seq(Nat), NEW pos \in Nat, NEW irep \in Trees, Stands(b, pos, LvRecords[irep])
  PROVE  LvCut(b, pos, irep)
  <1> DEFINE own  == LvOwn(irep)
             tail == FlattenSeq(Of(LvRecords, irep.reps))
  <1>1. own \in Seq(Nat)
    BY LvOwnBytes
  <1>2. Of(LvRecords, irep.reps) \in Seq(Seq(Nat)) /\ LvRecords[irep] = own \o tail
    BY LvRecordsEquation
  <1>3. tail \in Seq(Nat)
    BY <1>2, FlattenLength, Zenon
  <1>4. Stands(b, pos, own \o tail)
    BY <1>2, Zenon
  <1> HIDE DEF own, tail
  <1>5. Stands(b, pos, own) /\ Stands(b, pos + Len(own), tail)
    BY <1>1, <1>3, <1>4, StandsJoin
  <1>6. Len(own \o tail) = Len(own) + Len(tail)
    BY <1>1, <1>3, LengthOfTwo
  <1>7. QED
    BY <1>1, <1>2, <1>5, <1>6, Zenon DEF LvCut, own, tail

LEMMA RebuiltNamed ==
  ASSUME NEW irep \in Trees
  PROVE  Naming(Rebuilt(FALSE)[irep], irep.lv, Of(Rebuilt(TRUE), irep.reps)) = Rebuilt(TRUE)[irep]
  <1> DEFINE vals == Of(Rebuilt(TRUE), irep.reps)
             old  == Of(Rebuilt(FALSE), irep.reps)
             x    == Rebuilt(FALSE)[irep]
             y    == Rebuilt(TRUE)[irep]
             pool == Each(Normal, irep.pool)
             lv   == irep.lv
  <1>1. x = Again(irep, FALSE, old) /\ y = Again(irep, TRUE, vals)
    BY RebuiltFields, Zenon DEF Rebuilds
  <1> HIDE DEF x, y, old, vals
  <1>2. /\ x = Irep(irep.nlocals, irep.nregs, irep.iseq, irep.handlers, pool, irep.syms, old, <<>>, <<>>)
        /\ y = Irep(irep.nlocals, irep.nregs, irep.iseq, irep.handlers, pool, irep.syms, vals, lv, <<>>)
    BY <1>1, Zenon DEF Again
  <1> HIDE DEF pool, lv
  <1>3. Naming(x, lv, vals)
          = Irep(irep.nlocals, irep.nregs, irep.iseq, irep.handlers, pool, irep.syms, vals, lv, <<>>)
    BY <1>2, IrepExcept
  <1>4. QED
    BY <1>2, <1>3, Zenon DEF x, y, vals, lv

\* What a function of trees makes of the ireps in one.
MapsTo(f, V) == \A irep \in Trees : f[irep] \in V
NestedSeq(f, V, irep) == Of(f, irep.reps) \in Seq(V) /\ IsSequence(Of(f, irep.reps))
NestedParts(f, irep) ==
  /\ Len(Of(f, irep.reps)) = Len(irep.reps) /\ Len(irep.reps) \in Nat
  /\ DOMAIN irep.reps = 1 .. Len(irep.reps) /\ DOMAIN Of(f, irep.reps) = 1 .. Len(irep.reps)
  /\ \A i \in 1 .. Len(irep.reps) : irep.reps[i] \in Trees /\ Of(f, irep.reps)[i] = f[irep.reps[i]]
LEMMA NestedOf ==
  ASSUME NEW V, NEW f, MapsTo(f, V), NEW irep \in Trees
  PROVE  NestedSeq(f, V, irep) /\ NestedParts(f, irep)
  <1>0. \A z \in Trees : f[z] \in V
    BY Zenon DEF MapsTo
  <1>1. irep.reps \in Seq(Trees) /\ Len(irep.reps) \in Nat /\ DOMAIN irep.reps = 1 .. Len(irep.reps)
    BY TreeParts, IrepShape
  <1>2. IsSequence(irep.reps) /\ \A i \in DOMAIN irep.reps : irep.reps[i] \in Trees
    BY <1>1 DEF IsSequence
  <1>3. \A i \in DOMAIN irep.reps : f[irep.reps[i]] \in V
    BY <1>0, <1>2, Zenon
  <1>4. /\ Of(f, irep.reps) \in Seq(V) /\ Len(Of(f, irep.reps)) = Len(irep.reps)
        /\ DOMAIN Of(f, irep.reps) = DOMAIN irep.reps
    BY <1>2, <1>3, OfType
  <1>5. \A i \in 1 .. Len(irep.reps) : Of(f, irep.reps)[i] = f[irep.reps[i]]
    BY <1>1, Zenon DEF Of
  <1>6. IsSequence(Of(f, irep.reps))
    BY <1>4, Zenon DEF IsSequence
  <1>7. QED
    BY <1>1, <1>2, <1>4, <1>5, <1>6, Zenon DEF NestedSeq, NestedParts

\* A cursor that reads the names of an irep, and of those in it, names them.
ReadsLv(assign, b, irep) ==
  Takes(assign[Rebuilt(FALSE)[irep]], b, LvRecords[irep], Rebuilt(TRUE)[irep])

LvsStand(assign, nsyms, b, pos, irep) ==
  /\ b \in Seq(Nat) /\ pos \in 0 .. Len(b) /\ irep \in Trees /\ nsyms \in 0 .. NullMark
  /\ NamedLocals(irep, nsyms) /\ Stands(b, pos, LvRecords[irep])
  /\ \A i \in 1 .. Len(irep.reps) : ReadsLv(assign, b, irep.reps[i])
LvIsRead(assign, nsyms, b, pos, irep) ==
  \A v : AssignReps(Rebuilt(FALSE)[irep], ReadOwnLv(Rebuilt(FALSE)[irep], nsyms, At(b, pos, v)),
                    Of(assign, Rebuilt(FALSE)[irep].reps))
           = At(b, pos + Len(LvRecords[irep]), Rebuilt(TRUE)[irep])

LEMMA LvRead ==
  ASSUME NEW assign, NEW nsyms, NEW b, NEW pos, NEW irep, LvsStand(assign, nsyms, b, pos, irep)
  PROVE  LvIsRead(assign, nsyms, b, pos, irep)
  <1> SUFFICES ASSUME b \in Seq(Nat), pos \in 0 .. Len(b), irep \in Trees, nsyms \in 0 .. NullMark,
                      NamedLocals(irep, nsyms), Stands(b, pos, LvRecords[irep]),
                      \A i \in 1 .. Len(irep.reps) : ReadsLv(assign, b, irep.reps[i]),
                      NEW v
               PROVE  AssignReps(Rebuilt(FALSE)[irep],
                                 ReadOwnLv(Rebuilt(FALSE)[irep], nsyms, At(b, pos, v)),
                                 Of(assign, Rebuilt(FALSE)[irep].reps))
                        = At(b, pos + Len(LvRecords[irep]), Rebuilt(TRUE)[irep])
    BY Zenon DEF LvsStand, LvIsRead
  <1> DEFINE x     == Rebuilt(FALSE)[irep]
             y     == Rebuilt(TRUE)[irep]
             n     == Len(irep.reps)
             parts == Of(LvRecords, irep.reps)
             tail  == FlattenSeq(parts)
             vals  == Of(Rebuilt(TRUE), irep.reps)
             items == Of(assign, x.reps)
             own   == LvOwn(irep)
             q     == pos + Len(own)
             e     == q + Len(tail)
             lv    == irep.lv
             c     == At(b, q, lv)
             d     == At(b, e, vals)
  <1>1. /\ Stands(b, pos, own) /\ own \in Seq(Nat) /\ Stands(b, q, tail)
        /\ Len(LvRecords[irep]) = Len(own) + Len(tail) /\ pos \in Nat
    <2>1. pos \in Nat
      OBVIOUS
    <2>2. LvCut(b, pos, irep)
      BY <2>1, LvStands
    <2>3. QED
      BY <2>1, <2>2, Zenon DEF LvCut
  <1>2. /\ x.nlocals = irep.nlocals /\ x.reps = Of(Rebuilt(FALSE), irep.reps)
    BY RebuiltFields, Zenon DEF Rebuilds
  <1>3. /\ parts \in Seq(Seq(Nat)) /\ Len(parts) = n /\ n \in Nat
        /\ \A i \in 1 .. n : parts[i] = LvRecords[irep.reps[i]]
    <2> DEFINE f == LvRecords
    <2>0. \A z \in Trees : f[z] \in Seq(Nat)
      BY LvRecordsEquation
    <2>1. MapsTo(f, Seq(Nat))
      BY <2>0, Zenon DEF MapsTo
    <2> HIDE DEF f
    <2>2. NestedSeq(f, Seq(Nat), irep) /\ NestedParts(f, irep)
      BY <2>1, NestedOf, Zenon
    <2>3. QED
      BY <2>2, Zenon DEF f, NestedSeq, NestedParts
  <1>4. /\ IsSequence(vals) /\ Len(vals) = n /\ \A i \in 1 .. n : vals[i] = Rebuilt(TRUE)[irep.reps[i]]
    <2> DEFINE f == Rebuilt(TRUE)
    <2>1. MapsTo(f, Trees)
      BY RebuiltFields, Zenon DEF Rebuilds, MapsTo
    <2> HIDE DEF f
    <2>2. NestedSeq(f, Trees, irep) /\ NestedParts(f, irep)
      BY <2>1, NestedOf, Zenon
    <2>3. QED
      BY <2>2, Zenon DEF f, NestedSeq, NestedParts
  <1>5. Len(items) = n /\ \A i \in 1 .. n : items[i] = assign[Rebuilt(FALSE)[irep.reps[i]]]
    <2> DEFINE f == Rebuilt(FALSE)
               r == Of(f, irep.reps)
    <2>1. MapsTo(f, Trees)
      BY RebuiltFields, Zenon DEF Rebuilds, MapsTo
    <2> HIDE DEF f
    <2>a. NestedParts(f, irep)
      BY <2>1, NestedOf, Zenon
    <2>2. DOMAIN r = 1 .. n /\ \A i \in 1 .. n : r[i] = f[irep.reps[i]]
      BY <2>a, Zenon DEF NestedParts
    <2> HIDE DEF r, n
    <2>3. items = Of(assign, r)
      BY <1>2, Zenon DEF r, f
    <2> DEFINE s == Of(assign, r)
    <2>4. s = [i \in 1 .. n |-> assign[r[i]]]
      BY <2>2, Zenon DEF Of
    <2> HIDE DEF s
    <2>5. s \in [1 .. n -> {assign[r[i]] : i \in 1 .. n}] /\ \A i \in 1 .. n : s[i] = assign[r[i]]
      BY <2>4
    <2>6. Len(s) = n
      BY <1>3, <2>5, ListIs
    <2>7. QED
      BY <2>2, <2>3, <2>5, <2>6, Zenon DEF f, s
  <1>6. ReadOwnLv(x, nsyms, At(b, pos, v)) = c
    <2> HIDE DEF x
    <2>1. QED
      BY <1>1, <1>2, OwnLvAt
  <1>7. q \in Nat /\ e = pos + Len(LvRecords[irep])
    <2>1. tail \in Seq(Nat)
      BY <1>3, FlattenLength, Zenon
    <2>2. Len(tail) \in Nat /\ Len(own) \in Nat
      BY <1>1, <2>1, LengthType
    <2> HIDE DEF tail, own
    <2>3. QED
      BY <1>1, <2>2
  <1> HIDE DEF parts, vals, items, n, q, own, x, lv
  <1>8. InTurn(c, items) = d
    <2>1. \A i \in 1 .. Len(parts) : Takes(items[i], b, parts[i], vals[i])
      <3>1. \A i \in 1 .. n : ReadsLv(assign, b, irep.reps[i])
        BY DEF n
      <3>2. QED
        BY <1>3, <1>4, <1>5, <3>1, Zenon DEF ReadsLv
    <2>2. TakeAll(items, b, parts, vals)
      BY <1>3, <1>4, <1>5, <2>1, Zenon DEF TakeAll
    <2>3. Stands(b, q, FlattenSeq(parts))
      BY <1>1, Zenon
    <2>4. InTurn(At(b, q, lv), items) = At(b, q + Len(FlattenSeq(parts)), vals)
      BY <1>3, <1>7, <2>2, <2>3, InTurnReads
    <2>5. QED
      BY <2>4, Zenon
  <1>9. c.val = lv /\ d.val = vals /\ With(d, y) = At(b, e, y)
    <2> HIDE DEF e, y
    <2>1. c.val = lv
      BY AtFields
    <2>2. d.val = vals
      BY AtFields
    <2>3. With(d, y) = At(b, e, y)
      BY AtHolds
    <2>4. QED
      BY <2>1, <2>2, <2>3, Zenon
  <1> HIDE DEF c, d, e
  <1>10. Naming(x, lv, vals) = y
    BY RebuiltNamed, Zenon DEF x, vals, lv
  <1>11. AssignReps(x, c, items) = With(d, y)
    <2> HIDE DEF y
    <2>1. QED
      BY <1>8, <1>9, <1>10, Zenon DEF AssignReps, Assigned, Naming
  <1>12. QED
    BY <1>6, <1>7, <1>9, <1>11, Zenon DEF x, items

LEMMA LvsAt ==
  ASSUME NEW b \in Seq(Nat), NEW nsyms \in 0 .. NullMark, NEW p, NEW v, NEW assign,
         Assigns(assign, nsyms, At(b, p, v))
  PROVE  \A irep \in Trees : AllNamed(irep, nsyms) => ReadsLv(assign, b, irep)
  <1> DEFINE S == {irep \in Trees : AllNamed(irep, nsyms) => ReadsLv(assign, b, irep)}
             c == At(b, p, v)
             m == Len(b)
  <1>a. m \in Nat /\ c.in = b
    BY AtFields
  <1>b. ASSUME NEW irep \in Trees, NEW pos \in 0 .. m
        PROVE  assign[irep][pos]
                 = AssignReps(irep, ReadOwnLv(irep, nsyms, At(b, pos, v)), Of(assign, irep.reps))
    <2>1. Moved(c, pos) = At(b, pos, v)
      BY AtMoved, Zenon
    <2>2. Assigns(assign, nsyms, c)
      OBVIOUS
    <2> HIDE DEF c
    <2>3. assign[irep][pos]
            = AssignReps(irep, ReadOwnLv(irep, nsyms, Moved(c, pos)), Of(assign, irep.reps))
      BY <1>a, <2>2, Zenon DEF Assigns
    <2>4. QED
      BY <2>1, <2>3, Zenon
  <1> HIDE DEF c
  <1>1. ASSUME NEW irep \in Trees,
               \A i \in DOMAIN irep.reps : irep.reps[i] \in Trees /\ irep.reps[i] \in S,
               AllNamed(irep, nsyms)
        PROVE  ReadsLv(assign, b, irep)
    <2> DEFINE x == Rebuilt(FALSE)[irep]
    <2>1. /\ irep \in Parts[irep] /\ \A i \in DOMAIN irep.reps : Parts[irep.reps[i]] \subseteq Parts[irep]
      BY PartsOf
    <2>2. NamedLocals(irep, nsyms) /\ \A i \in DOMAIN irep.reps : AllNamed(irep.reps[i], nsyms)
      BY <1>1, <2>1, Zenon DEF AllNamed
    <2>3. \A i \in DOMAIN irep.reps : ReadsLv(assign, b, irep.reps[i])
      BY <1>1, <2>2, Zenon
    <2>4. DOMAIN irep.reps = 1 .. Len(irep.reps)
      BY TreeParts, IrepShape
    <2>5. x \in Trees
      BY RebuiltFields, Zenon DEF Rebuilds
    <2> SUFFICES ASSUME NEW pos \in 0 .. Len(b), Stands(b, pos, LvRecords[irep])
                 PROVE  assign[x][pos] = At(b, pos + Len(LvRecords[irep]), Rebuilt(TRUE)[irep])
      BY Zenon DEF ReadsLv, Takes
    <2>6. \A i \in 1 .. Len(irep.reps) : ReadsLv(assign, b, irep.reps[i])
      BY <2>3, <2>4, Zenon
    <2>7. LvsStand(assign, nsyms, b, pos, irep)
      BY <2>2, <2>6, Zenon DEF LvsStand
    <2>8. LvIsRead(assign, nsyms, b, pos, irep)
      BY <2>7, LvRead, Zenon
    <2>9. AssignReps(x, ReadOwnLv(x, nsyms, At(b, pos, v)), Of(assign, x.reps))
            = At(b, pos + Len(LvRecords[irep]), Rebuilt(TRUE)[irep])
      BY <2>8, Zenon DEF LvIsRead
    <2> HIDE DEF x
    <2>10. assign[x][pos] = AssignReps(x, ReadOwnLv(x, nsyms, At(b, pos, v)), Of(assign, x.reps))
      BY <1>b, <2>5, Zenon
    <2>11. QED
      BY <2>9, <2>10, Zenon
  <1>2. Trees \subseteq S
    <2>1. ASSUME NEW irep \in Trees,
                 \A i \in DOMAIN irep.reps : irep.reps[i] \in Trees /\ irep.reps[i] \in S
          PROVE  irep \in S
      <3>1. AllNamed(irep, nsyms) => ReadsLv(assign, b, irep)
        <4> HIDE DEF S
        <4>1. QED
          BY <1>1, <2>1, Zenon
      <3>2. QED
        BY <3>1
    <2> HIDE DEF S
    <2>2. QED
      BY <2>1, TreeInduction, Zenon
  <1>3. QED
    BY <1>2, Zenon

\* assign_lv names the locals of the ireps that were read.
LEMMA AssignedAt ==
  ASSUME NEW b \in Seq(Nat), NEW nsyms \in 0 .. NullMark, NEW irep \in Trees, AllNamed(irep, nsyms),
         b = LvRecords[irep]
  PROVE  AssignLv(Rebuilt(FALSE)[irep], nsyms, Cursor(b)) = At(b, Len(b), Rebuilt(TRUE)[irep])
  <1> DEFINE c == At(b, 0, <<>>)
             n == Len(b)
             x == Rebuilt(FALSE)[irep]
             y == Rebuilt(TRUE)[irep]
  <1>1. n \in Nat /\ c.pos = 0
    BY AtFields
  <1>2. PICK assign : Assigns(assign, nsyms, c) /\ \A z : AssignLv(z, nsyms, c) = assign[z][c.pos]
    <2> HIDE DEF c
    <2>1. QED
      BY AssignLvEquation
  <1>3. ReadsLv(assign, b, irep)
    BY <1>2, LvsAt
  <1>4. Stands(b, 0, b)
    BY StandsItself
  <1> HIDE DEF n, x, y
  <1>5. 0 \in 0 .. n /\ 0 + n = n
    BY <1>1
  <1>6. assign[x][0] = At(b, 0 + n, y)
    BY <1>3, <1>4, <1>5, Zenon DEF ReadsLv, Takes, n, x, y
  <1>7. Cursor(b) = c
    BY CursorAt
  <1>8. AssignLv(x, nsyms, c) = assign[x][0]
    <2> HIDE DEF c
    <2>1. QED
      BY <1>1, <1>2, Zenon
  <1>9. QED
    BY <1>5, <1>6, <1>7, <1>8, Zenon DEF n, x, y
================================================================================
