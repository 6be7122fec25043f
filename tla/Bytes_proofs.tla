------------------------------ MODULE Bytes_proofs -----------------------------
(* Proofs about Bytes, for every number of values of a byte: what an emitter    *)
(* writes is what the decoder reads, whatever is in front of it.                *)
EXTENDS Bytes, Induction, SequenceTheorems

--------------------------------------------------------------------------------
(* Arithmetic.                                                                  *)

LEMMA BaseType == Base \in Nat /\ Base > 1 /\ Word \in Nat /\ Word = Base * Base /\ Word > Base
  <1>1. Base \in Nat /\ Base > 1
    BY BytesAssumption
  <1>2. Base * Base >= 2 * Base
    BY <1>1
  <1>3. QED
    BY <1>1, <1>2 DEF Word

\* Two digits of a number are the number, up to a word.
LEMMA TwoDigits ==
  ASSUME NEW m \in Nat, m > 1, NEW v \in Int
  PROVE  ((v \div m) % m) * m + (v % m) = v % (m * m)
  <1> DEFINE q == v \div m
             r == v % m
             s == q \div m
             t == q % m
  <1>1. q \in Int /\ r \in 0 .. m - 1 /\ v = q * m + r
    BY Division
  <1>2. s \in Int /\ t \in 0 .. m - 1 /\ q = s * m + t
    BY Division, <1>1
  <1> SUFFICES t * m + r = v % (m * m)
    OBVIOUS
  <1> HIDE DEF q, r, s, t
  <1>3. t * m + r \in 0 .. m * m - 1
    <2>1. t * m <= (m - 1) * m
      BY <1>2
    <2>2. t * m >= 0
      BY <1>2
    <2>3. QED
      BY <2>1, <2>2, <1>1, <1>2
  <1>4. v = s * (m * m) + (t * m + r)
    BY <1>1, <1>2
  <1>5. m * m \in Nat /\ m * m > 0
    OBVIOUS
  <1>6. QED
    BY <1>2, <1>3, <1>4, <1>5, DivisionIsUnique

\* A word read back as a signed number is the number, if that fits.
LEMMA SignedBack ==
  ASSUME NEW m \in Nat, m > 0, NEW v \in Int, v <= (m \div 2) - 1, v >= -(m \div 2)
  PROVE  Signed(v % m, m) = v
  <1>1. m \div 2 \in Nat /\ 2 * (m \div 2) <= m /\ m <= 2 * (m \div 2) + 1
    OBVIOUS
  <1>2. CASE v >= 0
    <2>1. v % m = v
      BY <1>1, <1>2, SmallRemainder
    <2>2. QED
      BY <2>1, <1>1, <1>2 DEF Signed
  <1>3. CASE v < 0
    <2>1. v = (-1) * m + (v + m) /\ v + m \in 0 .. m - 1
      BY <1>1, <1>3
    <2>2. v % m = v + m
      BY <2>1, DivisionIsUnique
    <2>3. QED
      BY <2>2, <1>1, <1>3 DEF Signed
  <1>4. QED
    BY <1>2, <1>3

--------------------------------------------------------------------------------
(* Operations and their shapes.                                                 *)

LEMMA ShapesDisjoint ==
  ASSUME NEW s \in DOMAIN Shapes, NEW t \in DOMAIN Shapes, NEW op \in Shapes[s], op \in Shapes[t]
  PROVE  s = t
  BY DEF Shapes, InlineLoads

\* Every operation has one shape.
LEMMA ShapeOf ==
  ASSUME NEW s \in DOMAIN Shapes, NEW op \in Shapes[s]
  PROVE  op \in Operations /\ Shape[op] = s
  <1>1. op \in Operations
    BY DEF Operations
  <1>2. Shape[op] = CHOOSE shape \in DOMAIN Shapes : op \in Shapes[shape]
    BY <1>1 DEF Shape
  <1>3. Shape[op] \in DOMAIN Shapes /\ op \in Shapes[Shape[op]]
    BY <1>2
  <1>4. QED
    BY <1>1, <1>3, ShapesDisjoint

LEMMA ShapeType ==
  ASSUME NEW op \in Operations
  PROVE  Shape[op] \in DOMAIN Shapes /\ op \in Shapes[Shape[op]]
  <1>1. PICK s \in DOMAIN Shapes : op \in Shapes[s]
    BY DEF Operations
  <1>2. QED
    BY <1>1, ShapeOf

LEMMA ShapeNames ==
  DOMAIN Shapes = {"Z", "B", "Bb", "Bbb", "Bs", "Bss", "S", "W"}
  BY DEF Shapes

Prefixes == {"EXT1", "EXT2", "EXT3"}

LEMMA ShapesUsed ==
  /\ \A op \in Prefixes : op \in Operations /\ Shape[op] = "Z"
  /\ \A op \in {"JMP", "JMPUW"} : op \in Operations /\ Shape[op] = "S"
  /\ \A op \in {"JMPIF", "JMPNOT", "JMPNIL", "LOADI16"} : op \in Operations /\ Shape[op] = "Bs"
  /\ \A op \in {"LOADINEG", "LOADI8", "LOADL", "MOVE"} : op \in Operations /\ Shape[op] = "Bb"
  /\ "LOADI32" \in Operations /\ Shape["LOADI32"] = "Bss"
  /\ "LOADI__1" \in Operations /\ Shape["LOADI__1"] = "B"
  /\ \A i \in 1 .. 8 : InlineLoads[i] \in Operations /\ Shape[InlineLoads[i]] = "B"
  <1>1. \A op \in Prefixes : op \in Shapes["Z"]
    BY DEF Shapes, Prefixes
  <1>2. \A op \in {"JMP", "JMPUW"} : op \in Shapes["S"]
    BY DEF Shapes
  <1>3. \A op \in {"JMPIF", "JMPNOT", "JMPNIL", "LOADI16"} : op \in Shapes["Bs"]
    BY DEF Shapes
  <1>4. \A op \in {"LOADINEG", "LOADI8", "LOADL", "MOVE"} : op \in Shapes["Bb"]
    BY DEF Shapes
  <1>5. "LOADI32" \in Shapes["Bss"]
    BY DEF Shapes
  <1>6. "LOADI__1" \in Shapes["B"] /\ \A i \in 1 .. 8 : InlineLoads[i] \in Shapes["B"]
    BY DEF Shapes, InlineLoads
  <1>7. QED
    BY <1>1, <1>2, <1>3, <1>4, <1>5, <1>6, ShapeOf, ShapeNames

--------------------------------------------------------------------------------
(* The buffer, with nothing beyond pc.                                          *)

Cells == {Op(op) : op \in Operations} \cup {Digit(d) : d \in Int}

Buffers ==
  [iseq : Seq(Cells), pc : Nat, lastpc : Nat, lastlabel : Nat, pool : Seq(Int)]
Whole(b) == b \in Buffers /\ Len(b.iseq) = b.pc

\* t is b with more code, and nothing else but lastpc is different.
Grown(b, t) ==
  /\ Whole(t) /\ t.pc >= b.pc /\ t.lastlabel = b.lastlabel /\ t.pool = b.pool
  /\ \A q \in 0 .. b.pc - 1 : Cell(t.iseq, q) = Cell(b.iseq, q)

LEMMA GrownMore ==
  ASSUME NEW b, NEW t, NEW u, b \in Buffers, Grown(b, t), Grown(t, u)
  PROVE  Grown(b, u)
  <1>1. b.pc \in Nat /\ t.pc \in Nat /\ u.pc \in Nat /\ b.pc <= t.pc /\ t.pc <= u.pc
    BY DEF Grown, Whole, Buffers
  <1>2. u.pc >= b.pc /\ \A q \in 0 .. b.pc - 1 : q \in 0 .. t.pc - 1
    BY <1>1
  <1>3. Whole(u) /\ u.lastlabel = b.lastlabel /\ u.pool = b.pool
    BY DEF Grown
  <1>4. \A q \in 0 .. b.pc - 1 : Cell(u.iseq, q) = Cell(b.iseq, q)
    BY <1>2 DEF Grown
  <1>5. QED
    BY <1>2, <1>3, <1>4 DEF Grown

LEMMA BufferFields ==
  ASSUME NEW b \in Buffers
  PROVE  /\ b.iseq \in Seq(Cells) /\ Len(b.iseq) \in Nat /\ b.pc \in Nat
         /\ b.lastpc \in Nat /\ b.lastlabel \in Nat /\ b.pool \in Seq(Int)
  BY DEF Buffers

\* A buffer is made of its fields.
BufferOf(iseq, pc, lastpc, lastlabel, pool) ==
  [iseq |-> iseq, pc |-> pc, lastpc |-> lastpc, lastlabel |-> lastlabel, pool |-> pool]

LEMMA BufferMade ==
  ASSUME NEW b \in Buffers
  PROVE  b = BufferOf(b.iseq, b.pc, b.lastpc, b.lastlabel, b.pool)
  <1> DEFINE S == Seq(Cells)
             P == Seq(Int)
  <1>1. b \in [iseq : S, pc : Nat, lastpc : Nat, lastlabel : Nat, pool : P]
    BY DEF Buffers
  <1> HIDE DEF S, P
  <1>2. QED
    BY <1>1 DEF BufferOf

LEMMA WithCode ==
  ASSUME NEW b \in Buffers, NEW iseq, NEW pc
  PROVE  [[b EXCEPT !.iseq = iseq] EXCEPT !.pc = pc]
           = BufferOf(iseq, pc, b.lastpc, b.lastlabel, b.pool)
  <1>1. b = BufferOf(b.iseq, b.pc, b.lastpc, b.lastlabel, b.pool)
    BY BufferMade
  <1>2. [b EXCEPT !.iseq = iseq] = BufferOf(iseq, b.pc, b.lastpc, b.lastlabel, b.pool)
    BY <1>1 DEF BufferOf
  <1>3. [BufferOf(iseq, b.pc, b.lastpc, b.lastlabel, b.pool) EXCEPT !.pc = pc]
          = BufferOf(iseq, pc, b.lastpc, b.lastlabel, b.pool)
    BY DEF BufferOf
  <1>4. QED
    BY <1>2, <1>3

LEMMA WithIseq ==
  ASSUME NEW b \in Buffers, NEW x
  PROVE  [b EXCEPT !.iseq = x] = BufferOf(x, b.pc, b.lastpc, b.lastlabel, b.pool)
  <1> DEFINE S == Seq(Cells)
             P == Seq(Int)
  <1>1. b \in [iseq : S, pc : Nat, lastpc : Nat, lastlabel : Nat, pool : P]
    BY DEF Buffers
  <1> HIDE DEF S, P
  <1>2. QED
    BY <1>1 DEF BufferOf

LEMMA WithPc ==
  ASSUME NEW b \in Buffers, NEW x
  PROVE  [b EXCEPT !.pc = x] = BufferOf(b.iseq, x, b.lastpc, b.lastlabel, b.pool)
  <1> DEFINE S == Seq(Cells)
             P == Seq(Int)
  <1>1. b \in [iseq : S, pc : Nat, lastpc : Nat, lastlabel : Nat, pool : P]
    BY DEF Buffers
  <1> HIDE DEF S, P
  <1>2. QED
    BY <1>1 DEF BufferOf

LEMMA WithLastpc ==
  ASSUME NEW b \in Buffers, NEW x
  PROVE  [b EXCEPT !.lastpc = x] = BufferOf(b.iseq, b.pc, x, b.lastlabel, b.pool)
  <1> DEFINE S == Seq(Cells)
             P == Seq(Int)
  <1>1. b \in [iseq : S, pc : Nat, lastpc : Nat, lastlabel : Nat, pool : P]
    BY DEF Buffers
  <1> HIDE DEF S, P
  <1>2. QED
    BY <1>1 DEF BufferOf

LEMMA WithLastlabel ==
  ASSUME NEW b \in Buffers, NEW x
  PROVE  [b EXCEPT !.lastlabel = x] = BufferOf(b.iseq, b.pc, b.lastpc, x, b.pool)
  <1> DEFINE S == Seq(Cells)
             P == Seq(Int)
  <1>1. b \in [iseq : S, pc : Nat, lastpc : Nat, lastlabel : Nat, pool : P]
    BY DEF Buffers
  <1> HIDE DEF S, P
  <1>2. QED
    BY <1>1 DEF BufferOf

LEMMA WithPool ==
  ASSUME NEW b \in Buffers, NEW x
  PROVE  [b EXCEPT !.pool = x] = BufferOf(b.iseq, b.pc, b.lastpc, b.lastlabel, x)
  <1> DEFINE S == Seq(Cells)
             P == Seq(Int)
  <1>1. b \in [iseq : S, pc : Nat, lastpc : Nat, lastlabel : Nat, pool : P]
    BY DEF Buffers
  <1> HIDE DEF S, P
  <1>2. QED
    BY <1>1 DEF BufferOf

LEMMA MadeBuffer ==
  ASSUME NEW iseq \in Seq(Cells), NEW pc \in Nat, NEW lastpc \in Nat, NEW lastlabel \in Nat,
         NEW pool \in Seq(Int), NEW t, t = BufferOf(iseq, pc, lastpc, lastlabel, pool)
  PROVE  /\ t \in Buffers /\ t.iseq = iseq /\ t.pc = pc /\ t.lastpc = lastpc
         /\ t.lastlabel = lastlabel /\ t.pool = pool
  <1> DEFINE S == Seq(Cells)
             P == Seq(Int)
  <1>1. iseq \in S /\ pool \in P
    OBVIOUS
  <1> HIDE DEF S, P
  <1>2. t \in [iseq : S, pc : Nat, lastpc : Nat, lastlabel : Nat, pool : P]
    BY <1>1 DEF BufferOf
  <1>3. t.iseq = iseq /\ t.pc = pc /\ t.lastpc = lastpc /\ t.lastlabel = lastlabel /\ t.pool = pool
    BY DEF BufferOf
  <1>4. QED
    BY <1>2, <1>3 DEF Buffers, S, P

LEMMA CellTypes ==
  /\ \A op \in Operations : Op(op) \in Cells
  /\ \A d \in Int : Digit(d) \in Cells
  BY DEF Cells

LEMMA GenMade ==
  ASSUME NEW b, Whole(b), NEW cells \in Seq(Cells)
  PROVE  Gen(b, cells)
           = BufferOf(b.iseq \o cells, b.pc + Len(cells), b.lastpc, b.lastlabel, b.pool)
  <1> DEFINE code == SubSeq(b.iseq, 1, b.pc) \o cells
                        \o SubSeq(b.iseq, b.pc + Len(cells) + 1, Len(b.iseq))
  <1>1. b.iseq \in Seq(Cells) /\ Len(b.iseq) = b.pc /\ b.pc \in Nat /\ Len(cells) \in Nat
    BY BufferFields DEF Whole
  <1>2. SubSeq(b.iseq, 1, b.pc) = b.iseq
    BY <1>1, SubSeqFull
  <1>3. SubSeq(b.iseq, b.pc + Len(cells) + 1, Len(b.iseq)) = <<>>
    BY <1>1, SubSeqEmpty
  <1>4. b.iseq \o cells \in Seq(Cells)
    BY <1>1, ConcatProperties
  <1>5. code = b.iseq \o cells
    BY <1>2, <1>3, <1>4, ConcatEmptySeq
  <1>6. Gen(b, cells) = [[b EXCEPT !.iseq = code] EXCEPT !.pc = b.pc + Len(cells)]
    BY DEF Gen, Poke
  <1> HIDE DEF code
  <1>7. Gen(b, cells) = BufferOf(code, b.pc + Len(cells), b.lastpc, b.lastlabel, b.pool)
    BY <1>6, WithCode DEF Whole
  <1>8. QED
    BY <1>5, <1>7

\* Writing at the end makes the code longer.
LEMMA GenFields ==
  ASSUME NEW b, Whole(b), NEW cells \in Seq(Cells), NEW t, t = Gen(b, cells)
  PROVE  /\ Whole(t) /\ t.iseq = b.iseq \o cells /\ t.pc = b.pc + Len(cells)
         /\ t.lastpc = b.lastpc /\ t.lastlabel = b.lastlabel /\ t.pool = b.pool
  <1> DEFINE code == b.iseq \o cells
  <1>1. b.iseq \in Seq(Cells) /\ Len(b.iseq) = b.pc /\ b.pc \in Nat /\ Len(cells) \in Nat
    BY BufferFields DEF Whole
  <1>2. code \in Seq(Cells) /\ Len(code) = b.pc + Len(cells)
    BY <1>1, ConcatProperties
  <1>3. t = BufferOf(code, b.pc + Len(cells), b.lastpc, b.lastlabel, b.pool)
    BY GenMade
  <1>4. b.pc + Len(cells) \in Nat /\ b.lastpc \in Nat /\ b.lastlabel \in Nat /\ b.pool \in Seq(Int)
    BY <1>1, BufferFields DEF Whole
  <1> HIDE DEF code
  <1>5. /\ t \in Buffers /\ t.iseq = code /\ t.pc = b.pc + Len(cells) /\ t.lastpc = b.lastpc
        /\ t.lastlabel = b.lastlabel /\ t.pool = b.pool
    <2> DEFINE S == Seq(Cells)
               P == Seq(Int)
    <2>1. code \in S /\ b.pool \in P
      BY <1>2, <1>4
    <2> HIDE DEF S, P
    <2>2. t \in [iseq : S, pc : Nat, lastpc : Nat, lastlabel : Nat, pool : P]
      BY <1>3, <1>4, <2>1 DEF BufferOf
    <2>3. QED
      BY <1>3, <2>2 DEF BufferOf, Buffers, S, P
  <1>6. QED
    BY <1>2, <1>5 DEF Whole, code

LEMMA GenIsAppend ==
  ASSUME NEW b, Whole(b), NEW cells \in Seq(Cells), NEW t, t = Gen(b, cells)
  PROVE  /\ Grown(b, t) /\ t.pc = b.pc + Len(cells) /\ t.lastpc = b.lastpc
         /\ \A k \in 1 .. Len(cells) : Cell(t.iseq, b.pc + k - 1) = cells[k]
  <1>1. b.iseq \in Seq(Cells) /\ Len(b.iseq) = b.pc /\ b.pc \in Nat /\ Len(cells) \in Nat
    BY BufferFields DEF Whole
  <1>2. /\ Whole(t) /\ t.iseq = b.iseq \o cells /\ t.pc = b.pc + Len(cells)
        /\ t.lastpc = b.lastpc /\ t.lastlabel = b.lastlabel /\ t.pool = b.pool
    BY GenFields
  <1>3. /\ Len(t.iseq) = b.pc + Len(cells)
        /\ \A q \in 1 .. b.pc + Len(cells) :
             t.iseq[q] = IF q <= b.pc THEN b.iseq[q] ELSE cells[q - b.pc]
    BY <1>1, <1>2, ConcatProperties
  <1>4. \A q \in 0 .. b.pc - 1 : Cell(t.iseq, q) = Cell(b.iseq, q)
    <2>1. TAKE q \in 0 .. b.pc - 1
    <2>2. q + 1 \in 1 .. b.pc + Len(cells) /\ q + 1 <= b.pc /\ q < Len(t.iseq) /\ q < Len(b.iseq)
      BY <1>1, <1>3
    <2>3. t.iseq[q + 1] = b.iseq[q + 1]
      BY <2>2, <1>3
    <2>4. QED
      BY <2>2, <2>3 DEF Cell
  <1>5. \A k \in 1 .. Len(cells) : Cell(t.iseq, b.pc + k - 1) = cells[k]
    <2>1. TAKE k \in 1 .. Len(cells)
    <2>2. /\ b.pc + k \in 1 .. b.pc + Len(cells) /\ ~(b.pc + k <= b.pc)
          /\ b.pc + k - 1 < Len(t.iseq)
      BY <1>1, <1>3
    <2> DEFINE q == b.pc + k
    <2>a. q \in 1 .. b.pc + Len(cells) /\ ~(q <= b.pc) /\ q - b.pc = k
      BY <2>2, <1>1
    <2> HIDE DEF q
    <2>b. t.iseq[q] = cells[k]
      BY <2>a, <1>3
    <2>3. t.iseq[b.pc + k] = cells[k]
      BY <2>b DEF q
    <2>4. (b.pc + k - 1) + 1 = b.pc + k
      BY <1>1
    <2>5. QED
      BY <2>2, <2>3, <2>4 DEF Cell
  <1>6. QED
    BY <1>1, <1>2, <1>4, <1>5 DEF Grown

\* What is written at once may be written in two steps.
LEMMA GenTwice ==
  ASSUME NEW b, Whole(b), NEW first \in Seq(Cells), NEW second \in Seq(Cells)
  PROVE  /\ first \o second \in Seq(Cells)
         /\ Gen(b, first \o second) = Gen(Gen(b, first), second)
  <1> DEFINE t == Gen(b, first)
             both == first \o second
  <1>1. b.iseq \in Seq(Cells) /\ b.pc \in Nat /\ Len(first) \in Nat /\ Len(second) \in Nat
    BY BufferFields DEF Whole
  <1>2. both \in Seq(Cells) /\ Len(both) = Len(first) + Len(second)
    BY ConcatProperties
  <1>3. /\ Whole(t) /\ t.iseq = b.iseq \o first /\ t.pc = b.pc + Len(first)
        /\ t.lastpc = b.lastpc /\ t.lastlabel = b.lastlabel /\ t.pool = b.pool
    BY GenFields
  <1>4. b.iseq \o both = (b.iseq \o first) \o second
    <2>1. ASSUME NEW s \in Seq(Cells) PROVE s \o both = (s \o first) \o second
      OBVIOUS
    <2> HIDE DEF both
    <2>2. QED
      BY <2>1, <1>1, Zenon
  <1> HIDE DEF t, both
  <1>5. Gen(b, both) = BufferOf(b.iseq \o both, b.pc + Len(both), b.lastpc, b.lastlabel, b.pool)
    BY <1>2, GenMade
  <1>6. Gen(t, second) = BufferOf(t.iseq \o second, t.pc + Len(second), t.lastpc, t.lastlabel, t.pool)
    BY <1>3, GenMade
  <1>7. b.pc + Len(both) = t.pc + Len(second)
    BY <1>1, <1>2, <1>3
  <1>8. Gen(b, both) = Gen(t, second)
    BY <1>3, <1>4, <1>5, <1>6, <1>7
  <1>9. QED
    BY <1>2, <1>8 DEF t, both

LEMMA BeginFields ==
  ASSUME NEW b, Whole(b)
  PROVE  Grown(b, Begin(b)) /\ Begin(b).pc = b.pc /\ Begin(b).lastpc = b.pc
  <1> DEFINE t == Begin(b)
  <1>1. t = BufferOf(b.iseq, b.pc, b.pc, b.lastlabel, b.pool)
    BY WithLastpc DEF Begin, Whole
  <1> HIDE DEF t
  <1>2. /\ t \in Buffers /\ t.iseq = b.iseq /\ t.pc = b.pc /\ t.lastpc = b.pc
        /\ t.lastlabel = b.lastlabel /\ t.pool = b.pool
    BY <1>1, MadeBuffer, BufferFields DEF Whole
  <1>3. QED
    BY <1>2, BufferFields DEF Grown, Whole, t

--------------------------------------------------------------------------------
(* What the emitters write.                                                     *)

Wide(x)  == x >= Base
Width(x) == IF Wide(x) THEN 2 ELSE 1

\* The prefix of operands: none, EXT1, EXT2 or EXT3.
ExtFor(x, y) == (IF Wide(x) THEN 1 ELSE 0) + (IF Wide(y) THEN 2 ELSE 0)
Prefix == <<"EXT1", "EXT2", "EXT3">>
HeadSize(ext) == IF ext = 0 THEN 1 ELSE 2

\* An operation with a prefix, and an operand.
Opens(iseq, pos, op, ext) ==
  IF ext = 0 THEN Cell(iseq, pos) = Op(op)
  ELSE Cell(iseq, pos) = Op(Prefix[ext]) /\ Cell(iseq, pos + 1) = Op(op)
Holds(iseq, pos, x) ==
  IF Wide(x) THEN Cell(iseq, pos) = Digit(x \div Base) /\ Cell(iseq, pos + 1) = Digit(x)
  ELSE Cell(iseq, pos) = Digit(x)
HoldsWord(iseq, pos, x) == Cell(iseq, pos) = Digit(x \div Base) /\ Cell(iseq, pos + 1) = Digit(x)

LEMMA OpensInGrown ==
  ASSUME NEW b, NEW t, NEW pos \in Nat, NEW op, NEW ext, Whole(b), Grown(b, t),
         pos + HeadSize(ext) <= b.pc, Opens(b.iseq, pos, op, ext)
  PROVE  Opens(t.iseq, pos, op, ext)
  BY BufferFields DEF Grown, Opens, HeadSize, Whole

LEMMA HoldsInGrown ==
  ASSUME NEW b, NEW t, NEW pos \in Nat, NEW x, Whole(b), Grown(b, t),
         pos + Width(x) <= b.pc, Holds(b.iseq, pos, x)
  PROVE  Holds(t.iseq, pos, x)
  BY BufferFields DEF Grown, Holds, Width, Whole

LEMMA HoldsWordInGrown ==
  ASSUME NEW b, NEW t, NEW pos \in Nat, NEW x, Whole(b), Grown(b, t),
         pos + 2 <= b.pc, HoldsWord(b.iseq, pos, x)
  PROVE  HoldsWord(t.iseq, pos, x)
  BY BufferFields DEF Grown, HoldsWord, Whole

LEMMA WithByte ==
  ASSUME NEW b, Whole(b), NEW x \in Int, NEW t, t = Gen(b, OneByte(x))
  PROVE  /\ Grown(b, t) /\ t.pc = b.pc + 1 /\ t.lastpc = b.lastpc
         /\ Cell(t.iseq, b.pc) = Digit(x)
  <1> DEFINE cells == OneByte(x)
  <1>1. cells \in Seq(Cells) /\ Len(cells) = 1 /\ cells[1] = Digit(x)
    BY CellTypes DEF OneByte
  <1>2. b.pc \in Nat
    BY BufferFields DEF Whole
  <1>a. t = Gen(b, cells)
    OBVIOUS
  <1> HIDE DEF cells
  <1>b. /\ Grown(b, t) /\ t.pc = b.pc + Len(cells) /\ t.lastpc = b.lastpc
        /\ \A k \in 1 .. Len(cells) : Cell(t.iseq, b.pc + k - 1) = cells[k]
    <2>1. cells \in Seq(Cells)
      BY <1>1
    <2>2. QED
      BY <2>1, <1>a, GenIsAppend
  <1>3. /\ Grown(b, t) /\ t.pc = b.pc + 1 /\ t.lastpc = b.lastpc
        /\ Cell(t.iseq, b.pc + 1 - 1) = cells[1]
    BY <1>1, <1>2, <1>b
  <1>4. QED
    BY <1>1, <1>2, <1>3 DEF cells

LEMMA WithWord ==
  ASSUME NEW b, Whole(b), NEW x \in Int, NEW t, t = Gen(b, Halfword(x))
  PROVE  /\ Grown(b, t) /\ t.pc = b.pc + 2 /\ t.lastpc = b.lastpc
         /\ HoldsWord(t.iseq, b.pc, x)
  <1> DEFINE cells == Halfword(x)
  <1>1. cells \in Seq(Cells) /\ Len(cells) = 2
        /\ cells[1] = Digit(x \div Base) /\ cells[2] = Digit(x)
    BY CellTypes, BaseType DEF Halfword
  <1>2. b.pc \in Nat
    BY BufferFields DEF Whole
  <1>a. t = Gen(b, cells)
    OBVIOUS
  <1> HIDE DEF cells
  <1>b. /\ Grown(b, t) /\ t.pc = b.pc + Len(cells) /\ t.lastpc = b.lastpc
        /\ \A k \in 1 .. Len(cells) : Cell(t.iseq, b.pc + k - 1) = cells[k]
    <2>1. cells \in Seq(Cells)
      BY <1>1
    <2>2. QED
      BY <2>1, <1>a, GenIsAppend
  <1>3. /\ Grown(b, t) /\ t.pc = b.pc + 2 /\ t.lastpc = b.lastpc
        /\ Cell(t.iseq, b.pc + 1 - 1) = cells[1]
        /\ Cell(t.iseq, b.pc + 2 - 1) = cells[2]
    <2>1. 1 \in 1 .. Len(cells) /\ 2 \in 1 .. Len(cells)
      BY <1>1
    <2>2. QED
      BY <1>1, <1>b, <2>1
  <1>4. b.pc + 1 - 1 = b.pc /\ b.pc + 2 - 1 = b.pc + 1
    BY <1>2
  <1>5. QED
    BY <1>1, <1>3, <1>4 DEF cells, HoldsWord

LEMMA WithOp ==
  ASSUME NEW b, Whole(b), NEW op \in Operations, NEW t, t = Genop0(b, op)
  PROVE  /\ Grown(b, t) /\ t.pc = b.pc + 1 /\ t.lastpc = b.pc
         /\ Cell(t.iseq, b.pc) = Op(op)
  <1> DEFINE cells == <<Op(op)>>
             s == Begin(b)
  <1>1. cells \in Seq(Cells) /\ Len(cells) = 1 /\ cells[1] = Op(op)
    BY CellTypes
  <1>2. b.pc \in Nat /\ b \in Buffers
    BY BufferFields DEF Whole
  <1>3. Grown(b, s) /\ s.pc = b.pc /\ s.lastpc = b.pc /\ Whole(s)
    BY BeginFields DEF Grown
  <1>4. t = Gen(s, cells)
    BY DEF Genop0
  <1> HIDE DEF cells, s
  <1>5. /\ Grown(s, t) /\ t.pc = b.pc + 1 /\ t.lastpc = b.pc
        /\ Cell(t.iseq, b.pc + 1 - 1) = cells[1]
    <2>1. /\ Grown(s, t) /\ t.pc = s.pc + Len(cells) /\ t.lastpc = s.lastpc
          /\ \A k \in 1 .. Len(cells) : Cell(t.iseq, s.pc + k - 1) = cells[k]
      BY <1>1, <1>3, <1>4, GenIsAppend
    <2>2. 1 \in 1 .. Len(cells)
      BY <1>1
    <2>3. QED
      BY <1>1, <1>3, <2>1, <2>2
  <1>6. QED
    BY <1>1, <1>2, <1>3, <1>5, GrownMore

\* An operand takes one byte or two.
LEMMA WithOperand ==
  ASSUME NEW b, Whole(b), NEW x \in Int, NEW t,
         t = Gen(b, IF x >= Base THEN Halfword(x) ELSE OneByte(x))
  PROVE  /\ Grown(b, t) /\ t.pc = b.pc + Width(x) /\ t.lastpc = b.lastpc
         /\ Holds(t.iseq, b.pc, x)
  <1>1. CASE x >= Base
    <2>1. /\ Grown(b, t) /\ t.pc = b.pc + 2 /\ t.lastpc = b.lastpc
          /\ HoldsWord(t.iseq, b.pc, x)
      BY <1>1, WithWord
    <2>2. QED
      BY <1>1, <2>1 DEF Wide, Width, Holds, HoldsWord
  <1>2. CASE ~(x >= Base)
    <2>1. t = Gen(b, OneByte(x))
      BY <1>2
    <2>2. /\ Grown(b, t) /\ t.pc = b.pc + 1 /\ t.lastpc = b.lastpc
          /\ Cell(t.iseq, b.pc) = Digit(x)
      BY <2>1, WithByte
    <2>3. QED
      BY <1>2, <2>2 DEF Wide, Width, Holds
  <1>3. QED
    BY <1>1, <1>2

LEMMA OperandCells ==
  ASSUME NEW x \in Int
  PROVE  /\ OneByte(x) \in Seq(Cells) /\ Halfword(x) \in Seq(Cells)
         /\ (IF x >= Base THEN Halfword(x) ELSE OneByte(x)) \in Seq(Cells)
  <1>1. OneByte(x) \in Seq(Cells)
    BY CellTypes DEF OneByte
  <1>2. Halfword(x) \in Seq(Cells)
    BY CellTypes, BaseType DEF Halfword
  <1>3. QED
    BY <1>1, <1>2

\* Two cells, one after the other.
LEMMA TwoCells ==
  ASSUME NEW S, NEW c \in S, NEW d \in S
  PROVE  <<c>> \o <<d>> = <<c, d>> /\ <<>> \o <<d>> = <<d>>
  <1> DEFINE s == <<c>> \o <<d>>
             t == <<c, d>>
  <1>1. <<c>> \in Seq(S) /\ <<d>> \in Seq(S) /\ Len(<<c>>) = 1 /\ Len(<<d>>) = 1
    OBVIOUS
  <1>2. /\ s \in Seq(S) /\ Len(s) = 2
        /\ \A i \in 1 .. 2 : s[i] = IF i <= 1 THEN <<c>>[i] ELSE <<d>>[i - 1]
    BY <1>1, ConcatProperties
  <1>3. t \in Seq(S) /\ Len(t) = 2 /\ t[1] = c /\ t[2] = d
    OBVIOUS
  <1>4. s[1] = c /\ s[2] = d
    BY <1>2
  <1> HIDE DEF s, t
  <1>5. s = t
    <2>1. \A i \in 1 .. Len(s) : s[i] = t[i]
      BY <1>2, <1>3, <1>4
    <2>2. QED
      BY <2>1, <1>2, <1>3, SeqEqual
  <1>6. <<>> \o <<d>> = <<d>>
    BY <1>1, ConcatEmptySeq
  <1>7. QED
    BY <1>5, <1>6 DEF s, t

\* A prefix and an operation.
HeadOf(op, ext) == IF ext = 0 THEN <<Op(op)>> ELSE <<Op(Prefix[ext]), Op(op)>>

LEMMA WithHead ==
  ASSUME NEW b, Whole(b), NEW op \in Operations, NEW ext \in 0 .. 3, NEW t,
         t = Gen(Begin(b), HeadOf(op, ext))
  PROVE  /\ Grown(b, t) /\ t.pc = b.pc + HeadSize(ext) /\ t.lastpc = b.pc
         /\ Opens(t.iseq, b.pc, op, ext) /\ HeadOf(op, ext) \in Seq(Cells)
  <1> DEFINE cells == HeadOf(op, ext)
             s == Begin(b)
  <1>1. b.pc \in Nat /\ b \in Buffers
    BY BufferFields DEF Whole
  <1>2. Grown(b, s) /\ s.pc = b.pc /\ s.lastpc = b.pc /\ Whole(s)
    BY BeginFields DEF Grown
  <1>3. CASE ext = 0
    <2>1. cells \in Seq(Cells) /\ Len(cells) = 1 /\ cells[1] = Op(op)
      BY <1>3, CellTypes DEF HeadOf
    <2>2. t = Gen(s, cells)
      OBVIOUS
    <2> HIDE DEF cells, s
    <2>3. /\ Grown(s, t) /\ t.pc = s.pc + Len(cells) /\ t.lastpc = s.lastpc
          /\ \A k \in 1 .. Len(cells) : Cell(t.iseq, s.pc + k - 1) = cells[k]
      BY <2>1, <2>2, <1>2, GenIsAppend
    <2>4. Cell(t.iseq, b.pc) = Op(op) /\ t.pc = b.pc + 1
      BY <2>1, <2>3, <1>1, <1>2
    <2>5. Grown(b, t)
      BY <1>1, <1>2, <2>3, GrownMore
    <2>6. QED
      BY <1>2, <1>3, <2>1, <2>3, <2>4, <2>5 DEF Opens, HeadSize, cells
  <1>4. CASE ext # 0
    <2>0. Prefix[ext] \in Operations
      BY <1>4, ShapesUsed DEF Prefix, Prefixes
    <2>1. cells \in Seq(Cells) /\ Len(cells) = 2 /\ cells[1] = Op(Prefix[ext]) /\ cells[2] = Op(op)
      BY <1>4, <2>0, CellTypes DEF HeadOf
    <2>2. t = Gen(s, cells)
      OBVIOUS
    <2> HIDE DEF cells, s
    <2>3. /\ Grown(s, t) /\ t.pc = s.pc + Len(cells) /\ t.lastpc = s.lastpc
          /\ \A k \in 1 .. Len(cells) : Cell(t.iseq, s.pc + k - 1) = cells[k]
      BY <2>1, <2>2, <1>2, GenIsAppend
    <2>4. /\ Cell(t.iseq, b.pc) = Op(Prefix[ext]) /\ Cell(t.iseq, b.pc + 1) = Op(op)
          /\ t.pc = b.pc + 2
      BY <2>1, <2>3, <1>1, <1>2
    <2>5. Grown(b, t)
      BY <1>1, <1>2, <2>3, GrownMore
    <2>6. QED
      BY <1>2, <1>4, <2>1, <2>3, <2>4, <2>5 DEF Opens, HeadSize, cells
  <1>5. QED
    BY <1>3, <1>4

\* genop_1 and genop_2: the prefix that the operands need, the operation, the operands.
LEMMA WithOne ==
  ASSUME NEW b, Whole(b), NEW op \in Operations, NEW x \in Nat, NEW t, t = Genop1(b, op, x)
  PROVE  LET ext == IF Wide(x) THEN 1 ELSE 0 IN
         /\ Grown(b, t) /\ t.lastpc = b.pc
         /\ Opens(t.iseq, b.pc, op, ext)
         /\ Holds(t.iseq, b.pc + HeadSize(ext), x)
         /\ t.pc = b.pc + HeadSize(ext) + Width(x)
  <1> DEFINE ext == IF Wide(x) THEN 1 ELSE 0
             s == Gen(Begin(b), HeadOf(op, ext))
             operand == IF x >= Base THEN Halfword(x) ELSE OneByte(x)
  <1>1. b.pc \in Nat /\ b \in Buffers /\ ext \in 0 .. 3
    BY BufferFields DEF Whole
  <1>2. /\ Grown(b, s) /\ s.pc = b.pc + HeadSize(ext) /\ s.lastpc = b.pc
        /\ Opens(s.iseq, b.pc, op, ext) /\ HeadOf(op, ext) \in Seq(Cells)
    BY <1>1, WithHead
  <1>3. Whole(Begin(b)) /\ operand \in Seq(Cells)
    BY BeginFields, OperandCells DEF Grown
  <1>4. t = Gen(s, operand)
    <2>1. t = Gen(Begin(b), HeadOf(op, ext) \o operand)
      BY DEF Genop1, HeadOf, Wide, Prefix
    <2> HIDE DEF operand, ext
    <2>2. QED
      BY <2>1, <1>2, <1>3, GenTwice
  <1>5. Whole(s)
    BY <1>2 DEF Grown
  <1> HIDE DEF s
  <1>6. /\ Grown(s, t) /\ t.pc = s.pc + Width(x) /\ t.lastpc = s.lastpc
        /\ Holds(t.iseq, s.pc, x)
    BY <1>4, <1>5, WithOperand
  <1>7. Opens(t.iseq, b.pc, op, ext)
    <2>1. HeadSize(ext) \in Nat
      BY DEF HeadSize
    <2>2. b.pc + HeadSize(ext) <= s.pc
      BY <2>1, <1>1, <1>2
    <2> HIDE DEF ext
    <2>3. QED
      BY <2>2, <1>1, <1>2, <1>5, <1>6, OpensInGrown
  <1>8. Grown(b, t)
    BY <1>1, <1>2, <1>6, GrownMore
  <1>9. QED
    BY <1>2, <1>6, <1>7, <1>8

LEMMA WithTwo ==
  ASSUME NEW b, Whole(b), NEW op \in Operations, NEW x \in Nat, NEW y \in Nat,
         NEW t, t = Genop2(b, op, x, y)
  PROVE  LET ext == ExtFor(x, y) IN
         /\ Grown(b, t) /\ t.lastpc = b.pc
         /\ Opens(t.iseq, b.pc, op, ext)
         /\ Holds(t.iseq, b.pc + HeadSize(ext), x)
         /\ Holds(t.iseq, b.pc + HeadSize(ext) + Width(x), y)
         /\ t.pc = b.pc + HeadSize(ext) + Width(x) + Width(y)
  <1> DEFINE ext == ExtFor(x, y)
             s == Gen(Begin(b), HeadOf(op, ext))
             first == IF x >= Base THEN Halfword(x) ELSE OneByte(x)
             second == IF y >= Base THEN Halfword(y) ELSE OneByte(y)
             r == Gen(s, first)
  <1>1. b.pc \in Nat /\ b \in Buffers /\ ext \in 0 .. 3
    BY BufferFields DEF Whole, ExtFor
  <1>2. /\ Grown(b, s) /\ s.pc = b.pc + HeadSize(ext) /\ s.lastpc = b.pc
        /\ Opens(s.iseq, b.pc, op, ext) /\ HeadOf(op, ext) \in Seq(Cells)
    BY <1>1, WithHead
  <1>3. Whole(Begin(b)) /\ first \in Seq(Cells) /\ second \in Seq(Cells)
    BY BeginFields, OperandCells DEF Grown
  <1>4. Whole(s)
    BY <1>2 DEF Grown
  <1>5. t = Gen(r, second)
    <2>1. t = Gen(Begin(b), (HeadOf(op, ext) \o first) \o second)
      <3> DEFINE prefix == CASE x >= Base /\ y >= Base -> <<Op("EXT3")>>
                             [] x < Base /\ y >= Base  -> <<Op("EXT2")>>
                             [] x >= Base /\ y < Base  -> <<Op("EXT1")>>
                             [] OTHER                  -> <<>>
      <3>1. prefix \o <<Op(op)>> = HeadOf(op, ext)
        <4>1. prefix = IF ext = 0 THEN <<>> ELSE <<Op(Prefix[ext])>>
          BY BaseType DEF ExtFor, Wide, Prefix
        <4>2. ext # 0 => Prefix[ext] \in Operations
          BY <1>1, ShapesUsed DEF Prefix, Prefixes
        <4> HIDE DEF prefix, ext
        <4>3. CASE ext = 0
          BY <4>1, <4>3, CellTypes, TwoCells DEF HeadOf
        <4>4. CASE ext # 0
          <5>1. Op(Prefix[ext]) \in Cells /\ Op(op) \in Cells
            BY <4>2, <4>4, CellTypes
          <5>2. <<Op(Prefix[ext])>> \o <<Op(op)>> = <<Op(Prefix[ext]), Op(op)>>
            BY <5>1, TwoCells
          <5>3. QED
            BY <4>1, <4>4, <5>2 DEF HeadOf
        <4>5. QED
          BY <4>3, <4>4
      <3> HIDE DEF ext, first, second
      <3>2. QED
        BY <3>1 DEF Genop2, first, second
    <2> DEFINE front == HeadOf(op, ext) \o first
    <2> HIDE DEF first, second, ext
    <2>2. front \in Seq(Cells) /\ Gen(Begin(b), front) = r
      BY <1>2, <1>3, GenTwice
    <2>3. t = Gen(Begin(b), front \o second)
      BY <2>1
    <2> HIDE DEF front, r
    <2>4. Gen(Begin(b), front \o second) = Gen(Gen(Begin(b), front), second)
      BY <2>2, <1>3, GenTwice
    <2>5. QED
      BY <2>2, <2>3, <2>4
  <1> HIDE DEF s
  <1>6. /\ Grown(s, r) /\ r.pc = s.pc + Width(x) /\ r.lastpc = s.lastpc
        /\ Holds(r.iseq, s.pc, x)
    BY <1>4, WithOperand
  <1>7. Whole(r)
    BY <1>6 DEF Grown
  <1> HIDE DEF r
  <1>8. /\ Grown(r, t) /\ t.pc = r.pc + Width(y) /\ t.lastpc = r.lastpc
        /\ Holds(t.iseq, r.pc, y)
    BY <1>5, <1>7, WithOperand
  <1>9. Grown(b, r) /\ Grown(s, t) /\ Grown(b, t)
    BY <1>1, <1>2, <1>4, <1>6, <1>8, GrownMore DEF Whole
  <1>10. HeadSize(ext) \in Nat /\ Width(x) \in Nat /\ s.pc \in Nat
    BY <1>4, BufferFields DEF HeadSize, Width, Whole
  <1> HIDE DEF ext
  <1>11. Opens(t.iseq, b.pc, op, ext)
    <2>1. b.pc + HeadSize(ext) <= s.pc
      BY <1>1, <1>2, <1>10
    <2>2. QED
      BY <2>1, <1>1, <1>2, <1>4, <1>9, OpensInGrown
  <1>12. Holds(t.iseq, s.pc, x)
    <2>1. s.pc + Width(x) <= r.pc
      BY <1>6, <1>10
    <2>2. QED
      BY <2>1, <1>6, <1>7, <1>8, <1>10, HoldsInGrown
  <1>13. QED
    BY <1>2, <1>6, <1>8, <1>9, <1>11, <1>12 DEF ext

--------------------------------------------------------------------------------
(* What the decoder reads.                                                      *)

LEMMA ByteRead ==
  ASSUME NEW iseq, NEW pos, NEW x \in 0 .. Base - 1, Cell(iseq, pos) = Digit(x)
  PROVE  ByteAt(iseq, pos) = x
  <1>1. x % Base = x
    BY BaseType, SmallRemainder
  <1>2. QED
    BY <1>1 DEF ByteAt, Digit

LEMMA DigitRead ==
  ASSUME NEW iseq, NEW pos, NEW x \in Int, Cell(iseq, pos) = Digit(x)
  PROVE  ByteAt(iseq, pos) = x % Base
  BY DEF ByteAt, Digit

LEMMA WordRead ==
  ASSUME NEW iseq, NEW pos, NEW x \in Int, HoldsWord(iseq, pos, x)
  PROVE  WordAt(iseq, pos) = x % Word
  <1>1. x \div Base \in Int
    BY BaseType
  <1>2. ByteAt(iseq, pos) = (x \div Base) % Base /\ ByteAt(iseq, pos + 1) = x % Base
    BY <1>1, DigitRead DEF HoldsWord
  <1>3. ((x \div Base) % Base) * Base + (x % Base) = x % (Base * Base)
    BY BaseType, TwoDigits
  <1>4. QED
    BY <1>2, <1>3 DEF WordAt, Word

OperandAt(iseq, pos, wide) == IF wide THEN WordAt(iseq, pos) ELSE ByteAt(iseq, pos)

LEMMA OperandRead ==
  ASSUME NEW iseq, NEW pos, NEW x \in 0 .. Word - 1, Holds(iseq, pos, x)
  PROVE  OperandAt(iseq, pos, Wide(x)) = x
  <1>1. CASE Wide(x)
    <2>1. WordAt(iseq, pos) = x % Word
      BY <1>1, WordRead DEF Holds, HoldsWord
    <2>2. x % Word = x
      BY BaseType, SmallRemainder
    <2>3. QED
      BY <1>1, <2>1, <2>2 DEF OperandAt
  <1>2. CASE ~Wide(x)
    <2>1. x \in 0 .. Base - 1
      BY <1>2, BaseType DEF Wide
    <2>2. QED
      BY <1>2, <2>1, ByteRead DEF Holds, OperandAt
  <1>3. QED
    BY <1>1, <1>2

LEMMA OpRead ==
  ASSUME NEW iseq, NEW pos, NEW op, Cell(iseq, pos) = Op(op)
  PROVE  OpAt(iseq, pos) = op
  <1> DEFINE cell == Cell(iseq, pos)
  <1>1. cell[1] = "op" /\ cell[2] = op
    BY DEF Op
  <1>2. OpAt(iseq, pos)
          = CASE cell[1] = "op" -> cell[2] [] cell = Digit(0) -> "NOP" [] OTHER -> "garbage"
    BY DEF OpAt
  <1>3. Digit(0)[1] = "byte"
    BY DEF Digit
  <1> HIDE DEF cell
  <1>4. cell # Digit(0)
    BY <1>1, <1>3
  <1>5. QED
    BY <1>1, <1>2, <1>4

LEMMA HeadRead ==
  ASSUME NEW iseq, NEW pos \in Nat, NEW op \in Operations \ Prefixes, NEW ext \in 0 .. 3,
         Opens(iseq, pos, op, ext)
  PROVE  /\ ExtOf(OpAt(iseq, pos)) = ext
         /\ OpAt(iseq, pos + IF ext = 0 THEN 0 ELSE 1) = op
         /\ ext # 0 => OpAt(iseq, pos + 1) = op
         /\ ext = 0 => OpAt(iseq, pos) = op
  <1>1. CASE ext = 0
    <2>1. OpAt(iseq, pos) = op
      BY <1>1, OpRead DEF Opens
    <2>2. QED
      BY <1>1, <2>1 DEF ExtOf, Prefixes
  <1>2. CASE ext # 0
    <2>1. OpAt(iseq, pos) = Prefix[ext] /\ OpAt(iseq, pos + 1) = op
      BY <1>2, OpRead DEF Opens
    <2>2. QED
      BY <1>2, <2>1 DEF ExtOf, Prefix
  <1>3. QED
    BY <1>1, <1>2

Reads(op, a, b, c, next) == [insn |-> Instr(op, a, b, c), next |-> next]

\* The decoder at an operation: what it reads, and how many bytes prev_pc counts.
LEMMA Decoding ==
  ASSUME NEW iseq, NEW pos \in Nat, NEW op \in Operations \ Prefixes, NEW ext \in 0 .. 3,
         Opens(iseq, pos, op, ext)
  PROVE  LET at    == pos + HeadSize(ext)
             one   == IF WideFirst(ext) THEN 2 ELSE 1
             two   == IF WideSecond(ext) THEN 2 ELSE 1
             x     == OperandAt(iseq, at, WideFirst(ext))
             y     == OperandAt(iseq, at + one, WideSecond(ext))
             shape == Shape[op]
         IN
         /\ shape = "Z" => DecodeAt(iseq, pos) = Reads(op, 0, 0, 0, at)
         /\ shape = "B" /\ ext # 3 => DecodeAt(iseq, pos) = Reads(op, x, 0, 0, at + one)
         /\ shape = "Bb" => DecodeAt(iseq, pos) = Reads(op, x, y, 0, at + one + two)
         /\ shape = "Bbb" => DecodeAt(iseq, pos)
                             = Reads(op, x, y, ByteAt(iseq, at + one + two), at + one + two + 1)
         /\ shape = "Bs" => DecodeAt(iseq, pos)
                            = Reads(op, x, WordAt(iseq, at + one), 0, at + one + 2)
         /\ shape = "Bss" => DecodeAt(iseq, pos)
                             = Reads(op, x, WordAt(iseq, at + one), WordAt(iseq, at + one + 2),
                                       at + one + 4)
         /\ shape = "S" => DecodeAt(iseq, pos) = Reads(op, WordAt(iseq, at), 0, 0, at + 2)
         /\ shape = "W" => DecodeAt(iseq, pos)
                           = Reads(op, WordAt(iseq, at) * Base + ByteAt(iseq, at + 2), 0, 0, at + 3)
  <1> DEFINE opAt == pos + IF ext = 0 THEN 0 ELSE 1
  <1>1. ExtOf(OpAt(iseq, pos)) = ext /\ OpAt(iseq, opAt) = op
    BY HeadRead
  <1>2. opAt + 1 = pos + HeadSize(ext)
    BY DEF HeadSize
  <1>3. op \in Operations
    OBVIOUS
  <1> HIDE DEF opAt
  <1>4. QED
    BY <1>1, <1>2, <1>3 DEF DecodeAt, Reads, OperandAt, opAt

LEMMA SizeRead ==
  ASSUME NEW iseq, NEW pos \in Nat, NEW op \in Operations \ Prefixes, NEW ext \in 0 .. 3,
         Opens(iseq, pos, op, ext)
  PROVE  SizeAt(iseq, pos) = HeadSize(ext) - 1 + InsnSize(op, ext)
  <1>1. ExtOf(OpAt(iseq, pos)) = ext
    BY HeadRead
  <1>2. CASE ext = 0
    <2>1. OpAt(iseq, pos) = op
      BY <1>2, HeadRead
    <2>2. SizeAt(iseq, pos) = InsnSize(op, 0)
      BY <1>1, <1>2, <2>1 DEF SizeAt
    <2>3. InsnSize(op, 0) \in Int
      BY ShapeType, ShapeNames DEF InsnSize
    <2>4. QED
      BY <1>2, <2>2, <2>3 DEF HeadSize
  <1>3. CASE ext # 0
    <2>1. OpAt(iseq, pos + 1) = op
      BY <1>3, HeadRead
    <2>2. SizeAt(iseq, pos) = InsnSize(op, ext) + 1
      BY <1>1, <1>3, <2>1 DEF SizeAt
    <2>3. InsnSize(op, ext) \in Int
      BY ShapeType, ShapeNames DEF InsnSize
    <2>4. QED
      BY <1>3, <2>2, <2>3 DEF HeadSize
  <1>4. QED
    BY <1>2, <1>3

\* t is b with one more instruction, that reads as insn, and the decoder and prev_pc
\* agree where it ends.
Emits(b, t, insn) ==
  /\ Grown(b, t) /\ t.pc > b.pc
  /\ DecodeAt(t.iseq, b.pc) = [insn |-> insn, next |-> t.pc]
  /\ SizeAt(t.iseq, b.pc) = t.pc - b.pc

\* No operand, one, two: what is written is what is read.
LEMMA EmitsNone ==
  ASSUME NEW b, Whole(b), NEW op \in Operations \ Prefixes, Shape[op] = "Z",
         NEW t, t = Genop0(b, op)
  PROVE  Emits(b, t, Instr(op, 0, 0, 0)) /\ t.lastpc = b.pc
  <1>1. b.pc \in Nat
    BY BufferFields DEF Whole
  <1>2. /\ Grown(b, t) /\ t.pc = b.pc + 1 /\ t.lastpc = b.pc
        /\ Opens(t.iseq, b.pc, op, 0)
    BY WithOp DEF Opens
  <1>3. DecodeAt(t.iseq, b.pc) = Reads(op, 0, 0, 0, t.pc)
    BY <1>1, <1>2, Decoding DEF HeadSize
  <1>4. SizeAt(t.iseq, b.pc) = HeadSize(0) - 1 + InsnSize(op, 0)
    BY <1>1, <1>2, SizeRead
  <1>5. SizeAt(t.iseq, b.pc) = 1
    BY <1>4 DEF HeadSize, InsnSize
  <1>6. QED
    BY <1>1, <1>2, <1>3, <1>5 DEF Emits, Reads

LEMMA EmitsOne ==
  ASSUME NEW b, Whole(b), NEW op \in Operations \ Prefixes, Shape[op] = "B",
         NEW x \in 0 .. Word - 1, NEW t, t = Genop1(b, op, x)
  PROVE  Emits(b, t, Instr(op, x, 0, 0)) /\ t.lastpc = b.pc
  <1> DEFINE ext == IF Wide(x) THEN 1 ELSE 0
             at  == b.pc + HeadSize(ext)
  <1>1. b.pc \in Nat /\ x \in Nat /\ ext \in 0 .. 3 /\ op \in Operations
    BY BufferFields, BaseType DEF Whole
  <1>2. /\ Grown(b, t) /\ t.lastpc = b.pc /\ Opens(t.iseq, b.pc, op, ext)
        /\ Holds(t.iseq, at, x) /\ t.pc = at + Width(x)
    BY <1>1, WithOne
  <1>3. (WideFirst(ext) <=> Wide(x)) /\ ext # 3
    BY DEF WideFirst
  <1>a. Width(x) = (IF WideFirst(ext) THEN 2 ELSE 1)
    BY <1>3 DEF Width
  <1>4. OperandAt(t.iseq, at, WideFirst(ext)) = x
    <2>1. OperandAt(t.iseq, at, Wide(x)) = x
      BY <1>2, OperandRead
    <2>2. QED
      BY <2>1, <1>3 DEF OperandAt
  <1> HIDE DEF ext
  <1>5. DecodeAt(t.iseq, b.pc) = Reads(op, x, 0, 0, t.pc)
    BY <1>1, <1>2, <1>3, <1>a, <1>4, Decoding
  <1>6. SizeAt(t.iseq, b.pc) = HeadSize(ext) - 1 + InsnSize(op, ext)
    BY <1>1, <1>2, SizeRead
  <1>7. InsnSize(op, ext) = 1 + Width(x)
    BY <1>1, <1>3 DEF InsnSize, WideFirst, Width
  <1>8. SizeAt(t.iseq, b.pc) = t.pc - b.pc /\ t.pc > b.pc
    BY <1>1, <1>2, <1>6, <1>7 DEF HeadSize, Width
  <1>9. QED
    BY <1>2, <1>5, <1>8 DEF Emits, Reads

LEMMA ExtOfTwo ==
  ASSUME NEW x \in Nat, NEW y \in Nat
  PROVE  /\ ExtFor(x, y) \in 0 .. 3
         /\ WideFirst(ExtFor(x, y)) <=> Wide(x)
         /\ WideSecond(ExtFor(x, y)) <=> Wide(y)
         /\ Width(x) = (IF WideFirst(ExtFor(x, y)) THEN 2 ELSE 1)
         /\ Width(y) = (IF WideSecond(ExtFor(x, y)) THEN 2 ELSE 1)
         /\ Width(x) \in 1 .. 2 /\ Width(y) \in 1 .. 2
  <1>1. CASE Wide(x) /\ Wide(y)
    <2>1. ExtFor(x, y) = 3
      BY <1>1 DEF ExtFor
    <2>2. QED
      BY <1>1, <2>1 DEF WideFirst, WideSecond, Width
  <1>2. CASE Wide(x) /\ ~Wide(y)
    <2>1. ExtFor(x, y) = 1
      BY <1>2 DEF ExtFor
    <2>2. QED
      BY <1>2, <2>1 DEF WideFirst, WideSecond, Width
  <1>3. CASE ~Wide(x) /\ Wide(y)
    <2>1. ExtFor(x, y) = 2
      BY <1>3 DEF ExtFor
    <2>2. QED
      BY <1>3, <2>1 DEF WideFirst, WideSecond, Width
  <1>4. CASE ~Wide(x) /\ ~Wide(y)
    <2>1. ExtFor(x, y) = 0
      BY <1>4 DEF ExtFor
    <2>2. QED
      BY <1>4, <2>1 DEF WideFirst, WideSecond, Width
  <1>5. QED
    BY <1>1, <1>2, <1>3, <1>4

\* The bytes of two operands with their prefix, and what they read as.
TwoOperands(iseq, pos, op, x, y) ==
  LET ext == ExtFor(x, y)
      at  == pos + HeadSize(ext)
  IN  /\ Opens(iseq, pos, op, ext)
      /\ OperandAt(iseq, at, WideFirst(ext)) = x
      /\ OperandAt(iseq, at + Width(x), WideSecond(ext)) = y

LEMMA TwoWritten ==
  ASSUME NEW b, Whole(b), NEW op \in Operations, NEW x \in 0 .. Word - 1,
         NEW y \in 0 .. Word - 1, NEW t, t = Genop2(b, op, x, y)
  PROVE  /\ Grown(b, t) /\ t.lastpc = b.pc
         /\ TwoOperands(t.iseq, b.pc, op, x, y)
         /\ t.pc = b.pc + HeadSize(ExtFor(x, y)) + Width(x) + Width(y)
  <1> DEFINE ext == ExtFor(x, y)
             at  == b.pc + HeadSize(ext)
  <1>1. x \in Nat /\ y \in Nat
    BY BaseType
  <1>2. /\ Grown(b, t) /\ t.lastpc = b.pc /\ Opens(t.iseq, b.pc, op, ext)
        /\ Holds(t.iseq, at, x) /\ Holds(t.iseq, at + Width(x), y)
        /\ t.pc = at + Width(x) + Width(y)
    BY <1>1, WithTwo
  <1>3. (WideFirst(ext) <=> Wide(x)) /\ (WideSecond(ext) <=> Wide(y))
    BY <1>1, ExtOfTwo
  <1> HIDE DEF ext, at
  <1>4. OperandAt(t.iseq, at, Wide(x)) = x
    BY <1>2, OperandRead
  <1>5. OperandAt(t.iseq, at + Width(x), Wide(y)) = y
    BY <1>2, OperandRead
  <1>6. OperandAt(t.iseq, at, WideFirst(ext)) = x
    BY <1>3, <1>4 DEF OperandAt
  <1>7. OperandAt(t.iseq, at + Width(x), WideSecond(ext)) = y
    BY <1>3, <1>5 DEF OperandAt
  <1>8. QED
    BY <1>2, <1>6, <1>7 DEF TwoOperands, ext, at

LEMMA EmitsTwo ==
  ASSUME NEW b, Whole(b), NEW op \in Operations \ Prefixes, Shape[op] = "Bb",
         NEW x \in 0 .. Word - 1, NEW y \in 0 .. Word - 1, NEW t, t = Genop2(b, op, x, y)
  PROVE  Emits(b, t, Instr(op, x, y, 0)) /\ t.lastpc = b.pc
  <1> DEFINE ext == ExtFor(x, y)
             at  == b.pc + HeadSize(ext)
  <1>1. b.pc \in Nat /\ x \in Nat /\ y \in Nat /\ op \in Operations
    BY BufferFields, BaseType DEF Whole
  <1>2. /\ Grown(b, t) /\ t.lastpc = b.pc /\ TwoOperands(t.iseq, b.pc, op, x, y)
        /\ t.pc = at + Width(x) + Width(y)
    BY <1>1, TwoWritten
  <1>3. /\ ext \in 0 .. 3
        /\ Width(x) = (IF WideFirst(ext) THEN 2 ELSE 1)
        /\ Width(y) = (IF WideSecond(ext) THEN 2 ELSE 1)
        /\ Width(x) \in 1 .. 2 /\ Width(y) \in 1 .. 2
    BY <1>1, ExtOfTwo
  <1>4. /\ Opens(t.iseq, b.pc, op, ext)
        /\ OperandAt(t.iseq, at, WideFirst(ext)) = x
        /\ OperandAt(t.iseq, at + Width(x), WideSecond(ext)) = y
    BY <1>2 DEF TwoOperands
  <1> HIDE DEF ext
  <1>5. DecodeAt(t.iseq, b.pc) = Reads(op, x, y, 0, t.pc)
    BY <1>1, <1>2, <1>3, <1>4, Decoding
  <1>6. SizeAt(t.iseq, b.pc) = HeadSize(ext) - 1 + InsnSize(op, ext)
    BY <1>1, <1>3, <1>4, SizeRead
  <1>7. InsnSize(op, ext) = 1 + Width(x) + Width(y)
    BY <1>1, <1>3 DEF InsnSize, WideFirst, WideSecond
  <1>8. SizeAt(t.iseq, b.pc) = t.pc - b.pc /\ t.pc > b.pc
    BY <1>1, <1>2, <1>3, <1>6, <1>7 DEF HeadSize
  <1>9. QED
    BY <1>2, <1>5, <1>8 DEF Emits, Reads

\* What is in front of pc reads the same when more is written.
LEMMA OperandInGrown ==
  ASSUME NEW b, NEW t, Whole(b), Grown(b, t), NEW pos \in Nat, NEW wide \in BOOLEAN,
         pos + (IF wide THEN 2 ELSE 1) <= b.pc
  PROVE  OperandAt(t.iseq, pos, wide) = OperandAt(b.iseq, pos, wide)
  <1>1. b.pc \in Nat
    BY BufferFields DEF Whole
  <1>2. CASE wide
    <2>1. Cell(t.iseq, pos) = Cell(b.iseq, pos) /\ Cell(t.iseq, pos + 1) = Cell(b.iseq, pos + 1)
      BY <1>1, <1>2 DEF Grown
    <2>2. ByteAt(t.iseq, pos) = ByteAt(b.iseq, pos) /\ ByteAt(t.iseq, pos + 1) = ByteAt(b.iseq, pos + 1)
      BY <2>1 DEF ByteAt
    <2>3. QED
      BY <1>2, <2>2 DEF OperandAt, WordAt
  <1>3. CASE ~wide
    <2>1. Cell(t.iseq, pos) = Cell(b.iseq, pos)
      BY <1>1, <1>3 DEF Grown
    <2>2. QED
      BY <1>3, <2>1 DEF OperandAt, ByteAt
  <1>4. QED
    BY <1>2, <1>3

LEMMA TwoOperandsInGrown ==
  ASSUME NEW b, NEW t, Whole(b), Grown(b, t), NEW pos \in Nat, NEW op, NEW x \in Nat,
         NEW y \in Nat, TwoOperands(b.iseq, pos, op, x, y),
         pos + HeadSize(ExtFor(x, y)) + Width(x) + Width(y) <= b.pc
  PROVE  TwoOperands(t.iseq, pos, op, x, y)
  <1> DEFINE ext == ExtFor(x, y)
             at  == pos + HeadSize(ext)
             wx  == WideFirst(ext)
             wy  == WideSecond(ext)
  <1>1. b.pc \in Nat
    BY BufferFields DEF Whole
  <1>2. /\ ext \in 0 .. 3
        /\ Width(x) = (IF wx THEN 2 ELSE 1) /\ Width(y) = (IF wy THEN 2 ELSE 1)
        /\ Width(x) \in 1 .. 2 /\ Width(y) \in 1 .. 2
    BY ExtOfTwo
  <1>3. wx \in BOOLEAN /\ wy \in BOOLEAN
    BY DEF WideFirst, WideSecond
  <1>4. HeadSize(ext) \in 1 .. 2
    BY DEF HeadSize
  <1>5. Opens(b.iseq, pos, op, ext) /\ OperandAt(b.iseq, at, wx) = x
        /\ OperandAt(b.iseq, at + Width(x), wy) = y
    BY DEF TwoOperands
  <1>6. at + Width(x) + Width(y) <= b.pc
    OBVIOUS
  <1> HIDE DEF ext, wx, wy
  <1>7. Opens(t.iseq, pos, op, ext)
    <2>1. pos + HeadSize(ext) <= b.pc
      BY <1>1, <1>2, <1>4, <1>6
    <2>2. QED
      BY <2>1, <1>5, OpensInGrown
  <1>8. OperandAt(t.iseq, at, wx) = x
    <2>1. at \in Nat /\ at + (IF wx THEN 2 ELSE 1) <= b.pc
      BY <1>1, <1>2, <1>4, <1>6
    <2> HIDE DEF at
    <2>2. QED
      BY <2>1, <1>3, <1>5, OperandInGrown
  <1>9. OperandAt(t.iseq, at + Width(x), wy) = y
    <2>1. at + Width(x) \in Nat /\ (at + Width(x)) + (IF wy THEN 2 ELSE 1) <= b.pc
      BY <1>1, <1>2, <1>4, <1>6
    <2> DEFINE p == at + Width(x)
    <2> HIDE DEF p
    <2>2. p \in Nat /\ p + (IF wy THEN 2 ELSE 1) <= b.pc /\ OperandAt(b.iseq, p, wy) = y
      BY <2>1, <1>5 DEF p
    <2>3. OperandAt(t.iseq, p, wy) = y
      BY <2>2, <1>3, OperandInGrown
    <2>4. QED
      BY <2>3 DEF p
  <1>10. QED
    BY <1>7, <1>8, <1>9 DEF TwoOperands, ext, wx, wy, at

LEMMA EmitsThree ==
  ASSUME NEW b, Whole(b), NEW op \in Operations \ Prefixes, Shape[op] = "Bbb",
         NEW x \in 0 .. Word - 1, NEW y \in 0 .. Word - 1, NEW z \in 0 .. Base - 1,
         NEW t, t = Genop3(b, op, x, y, z)
  PROVE  Emits(b, t, Instr(op, x, y, z)) /\ t.lastpc = b.pc
  <1> DEFINE ext == ExtFor(x, y)
             at  == b.pc + HeadSize(ext)
             s   == Genop2(b, op, x, y)
  <1>1. b.pc \in Nat /\ x \in Nat /\ y \in Nat /\ op \in Operations /\ z \in Int
    BY BufferFields, BaseType DEF Whole
  <1>2. /\ Grown(b, s) /\ s.lastpc = b.pc /\ TwoOperands(s.iseq, b.pc, op, x, y)
        /\ s.pc = at + Width(x) + Width(y)
    BY <1>1, TwoWritten
  <1>3. /\ ext \in 0 .. 3
        /\ Width(x) = (IF WideFirst(ext) THEN 2 ELSE 1)
        /\ Width(y) = (IF WideSecond(ext) THEN 2 ELSE 1)
        /\ Width(x) \in 1 .. 2 /\ Width(y) \in 1 .. 2
    BY <1>1, ExtOfTwo
  <1>4. t = Gen(s, OneByte(z)) /\ Whole(s) /\ s.pc \in Nat
    BY <1>2, BufferFields DEF Genop3, Grown, Whole
  <1> HIDE DEF s
  <1>5. /\ Grown(s, t) /\ t.pc = s.pc + 1 /\ t.lastpc = s.lastpc
        /\ Cell(t.iseq, s.pc) = Digit(z)
    BY <1>1, <1>4, WithByte
  <1>6. ByteAt(t.iseq, s.pc) = z
    BY <1>5, ByteRead
  <1>7. TwoOperands(t.iseq, b.pc, op, x, y)
    <2>1. b.pc + HeadSize(ExtFor(x, y)) + Width(x) + Width(y) <= s.pc
      BY <1>2, <1>4
    <2>2. QED
      BY <2>1, <1>1, <1>2, <1>4, <1>5, TwoOperandsInGrown
  <1>8. /\ Opens(t.iseq, b.pc, op, ext)
        /\ OperandAt(t.iseq, at, WideFirst(ext)) = x
        /\ OperandAt(t.iseq, at + Width(x), WideSecond(ext)) = y
    BY <1>7 DEF TwoOperands
  <1>9. Grown(b, t)
    BY <1>2, <1>5, GrownMore DEF Whole
  <1> HIDE DEF ext
  <1>10. DecodeAt(t.iseq, b.pc) = Reads(op, x, y, z, t.pc)
    BY <1>1, <1>2, <1>3, <1>5, <1>6, <1>8, Decoding
  <1>11. SizeAt(t.iseq, b.pc) = HeadSize(ext) - 1 + InsnSize(op, ext)
    BY <1>1, <1>3, <1>8, SizeRead
  <1>12. InsnSize(op, ext) = 2 + Width(x) + Width(y)
    BY <1>1, <1>3 DEF InsnSize, WideFirst, WideSecond
  <1>13. SizeAt(t.iseq, b.pc) = t.pc - b.pc /\ t.pc > b.pc
    BY <1>1, <1>2, <1>3, <1>5, <1>11, <1>12 DEF HeadSize
  <1>14. QED
    BY <1>2, <1>5, <1>9, <1>10, <1>13 DEF Emits, Reads

\* The same for one operand, which the words of Bs and Bss follow.
ExtForOne(x) == IF Wide(x) THEN 1 ELSE 0
OneOperand(iseq, pos, op, x) ==
  LET ext == ExtForOne(x)
      at  == pos + HeadSize(ext)
  IN  Opens(iseq, pos, op, ext) /\ OperandAt(iseq, at, WideFirst(ext)) = x

LEMMA ExtOfOne ==
  ASSUME NEW x \in Nat
  PROVE  /\ ExtForOne(x) \in 0 .. 3 /\ ExtForOne(x) # 3
         /\ WideFirst(ExtForOne(x)) <=> Wide(x)
         /\ Width(x) = (IF WideFirst(ExtForOne(x)) THEN 2 ELSE 1)
         /\ Width(x) \in 1 .. 2
         /\ HeadSize(ExtForOne(x)) = Width(x)
  <1>1. (WideFirst(ExtForOne(x)) <=> Wide(x)) /\ ExtForOne(x) \in 0 .. 3 /\ ExtForOne(x) # 3
    BY DEF ExtForOne, WideFirst
  <1>2. QED
    BY <1>1 DEF Width, ExtForOne, HeadSize

LEMMA OneWritten ==
  ASSUME NEW b, Whole(b), NEW op \in Operations, NEW x \in 0 .. Word - 1,
         NEW t, t = Genop1(b, op, x)
  PROVE  /\ Grown(b, t) /\ t.lastpc = b.pc
         /\ OneOperand(t.iseq, b.pc, op, x)
         /\ t.pc = b.pc + HeadSize(ExtForOne(x)) + Width(x)
  <1> DEFINE ext == ExtForOne(x)
             at  == b.pc + HeadSize(ext)
  <1>1. x \in Nat
    BY BaseType
  <1>2. /\ Grown(b, t) /\ t.lastpc = b.pc /\ Opens(t.iseq, b.pc, op, ext)
        /\ Holds(t.iseq, at, x) /\ t.pc = at + Width(x)
    BY <1>1, WithOne DEF ExtForOne
  <1>3. WideFirst(ext) <=> Wide(x)
    BY <1>1, ExtOfOne
  <1> HIDE DEF ext, at
  <1>4. OperandAt(t.iseq, at, Wide(x)) = x
    BY <1>2, OperandRead
  <1>5. OperandAt(t.iseq, at, WideFirst(ext)) = x
    BY <1>3, <1>4 DEF OperandAt
  <1>6. QED
    BY <1>2, <1>5 DEF OneOperand, ext, at

LEMMA OneOperandInGrown ==
  ASSUME NEW b, NEW t, Whole(b), Grown(b, t), NEW pos \in Nat, NEW op, NEW x \in Nat,
         OneOperand(b.iseq, pos, op, x), pos + HeadSize(ExtForOne(x)) + Width(x) <= b.pc
  PROVE  OneOperand(t.iseq, pos, op, x)
  <1> DEFINE ext == ExtForOne(x)
             at  == pos + HeadSize(ext)
             wx  == WideFirst(ext)
  <1>1. b.pc \in Nat /\ wx \in BOOLEAN
    BY BufferFields DEF Whole, WideFirst
  <1>2. Width(x) = (IF wx THEN 2 ELSE 1) /\ Width(x) \in 1 .. 2 /\ HeadSize(ext) = Width(x)
    BY ExtOfOne
  <1>3. Opens(b.iseq, pos, op, ext) /\ OperandAt(b.iseq, at, wx) = x
    BY DEF OneOperand
  <1>4. pos + HeadSize(ext) <= b.pc /\ at \in Nat /\ at + (IF wx THEN 2 ELSE 1) <= b.pc
    BY <1>1, <1>2
  <1> HIDE DEF ext, wx, at
  <1>5. Opens(t.iseq, pos, op, ext)
    BY <1>3, <1>4, OpensInGrown
  <1>6. OperandAt(t.iseq, at, wx) = x
    BY <1>1, <1>3, <1>4, OperandInGrown
  <1>7. QED
    BY <1>5, <1>6 DEF OneOperand, ext, wx, at

\* An operation with one operand, a word behind it.
LEMMA EmitsOneAndWord ==
  ASSUME NEW b, Whole(b), NEW op \in Operations \ Prefixes, Shape[op] = "Bs",
         NEW x \in 0 .. Word - 1, NEW w \in Int, NEW t, t = Genop2S(b, op, x, w)
  PROVE  Emits(b, t, Instr(op, x, w % Word, 0)) /\ t.lastpc = b.pc
  <1> DEFINE ext == ExtForOne(x)
             at  == b.pc + HeadSize(ext)
             s   == Genop1(b, op, x)
  <1>1. b.pc \in Nat /\ x \in Nat /\ op \in Operations
    BY BufferFields, BaseType DEF Whole
  <1>2. /\ Grown(b, s) /\ s.lastpc = b.pc /\ OneOperand(s.iseq, b.pc, op, x)
        /\ s.pc = at + Width(x)
    BY <1>1, OneWritten
  <1>3. /\ ext \in 0 .. 3
        /\ Width(x) = (IF WideFirst(ext) THEN 2 ELSE 1) /\ Width(x) \in 1 .. 2
        /\ HeadSize(ext) = Width(x)
    BY <1>1, ExtOfOne
  <1>4. t = Gen(s, Halfword(w)) /\ Whole(s) /\ s.pc \in Nat
    BY <1>2, BufferFields DEF Genop2S, Grown, Whole
  <1> HIDE DEF s
  <1>5. /\ Grown(s, t) /\ t.pc = s.pc + 2 /\ t.lastpc = s.lastpc
        /\ HoldsWord(t.iseq, s.pc, w)
    BY <1>1, <1>4, WithWord
  <1>6. WordAt(t.iseq, s.pc) = w % Word
    BY <1>5, WordRead
  <1>7. OneOperand(t.iseq, b.pc, op, x)
    <2>1. b.pc + HeadSize(ExtForOne(x)) + Width(x) <= s.pc
      BY <1>2, <1>4
    <2>2. QED
      BY <2>1, <1>1, <1>2, <1>4, <1>5, OneOperandInGrown
  <1>8. /\ Opens(t.iseq, b.pc, op, ext)
        /\ OperandAt(t.iseq, at, WideFirst(ext)) = x
    BY <1>7 DEF OneOperand
  <1>9. Grown(b, t)
    BY <1>2, <1>5, GrownMore DEF Whole
  <1> HIDE DEF ext
  <1>10. DecodeAt(t.iseq, b.pc) = Reads(op, x, w % Word, 0, t.pc)
    BY <1>1, <1>2, <1>3, <1>5, <1>6, <1>8, Decoding
  <1>11. SizeAt(t.iseq, b.pc) = HeadSize(ext) - 1 + InsnSize(op, ext)
    BY <1>1, <1>3, <1>8, SizeRead
  <1>12. InsnSize(op, ext) = 3 + Width(x)
    BY <1>1, <1>3 DEF InsnSize, WideFirst
  <1>13. SizeAt(t.iseq, b.pc) = t.pc - b.pc /\ t.pc > b.pc
    BY <1>1, <1>2, <1>3, <1>5, <1>11, <1>12 DEF HeadSize
  <1>14. QED
    BY <1>2, <1>5, <1>9, <1>10, <1>13 DEF Emits, Reads

LEMMA WordInGrown ==
  ASSUME NEW b, NEW t, Whole(b), Grown(b, t), NEW pos \in Nat, pos + 2 <= b.pc
  PROVE  WordAt(t.iseq, pos) = WordAt(b.iseq, pos)
  <1>1. pos + (IF TRUE THEN 2 ELSE 1) <= b.pc
    OBVIOUS
  <1>2. OperandAt(t.iseq, pos, TRUE) = OperandAt(b.iseq, pos, TRUE)
    BY <1>1, OperandInGrown
  <1>3. QED
    BY <1>2 DEF OperandAt

\* Two words behind it.
LEMMA EmitsOneAndTwoWords ==
  ASSUME NEW b, Whole(b), NEW op \in Operations \ Prefixes, Shape[op] = "Bss",
         NEW x \in 0 .. Word - 1, NEW v \in Int, NEW t, t = Genop2SS(b, op, x, v)
  PROVE  Emits(b, t, Instr(op, x, (v \div Word) % Word, v % Word)) /\ t.lastpc = b.pc
  <1> DEFINE ext == ExtForOne(x)
             at  == b.pc + HeadSize(ext)
             s   == Genop1(b, op, x)
             u   == v \div Word
             r   == Gen(s, Halfword(u))
  <1>1. b.pc \in Nat /\ x \in Nat /\ op \in Operations /\ u \in Int
    BY BufferFields, BaseType DEF Whole
  <1>2. /\ Grown(b, s) /\ s.lastpc = b.pc /\ OneOperand(s.iseq, b.pc, op, x)
        /\ s.pc = at + Width(x)
    BY <1>1, OneWritten
  <1>3. /\ ext \in 0 .. 3
        /\ Width(x) = (IF WideFirst(ext) THEN 2 ELSE 1) /\ Width(x) \in 1 .. 2
        /\ HeadSize(ext) = Width(x)
    BY <1>1, ExtOfOne
  <1>4. Whole(s) /\ s.pc \in Nat /\ b \in Buffers
    BY <1>2, BufferFields DEF Grown, Whole
  <1>5. t = Gen(r, Halfword(v))
    <2>1. Halfword(u) \in Seq(Cells) /\ Halfword(v) \in Seq(Cells)
      BY <1>1, OperandCells
    <2>2. t = Gen(s, Halfword(u) \o Halfword(v))
      BY DEF Genop2SS
    <2> HIDE DEF s, u
    <2>3. QED
      BY <2>1, <2>2, <1>4, GenTwice
  <1> HIDE DEF s, u
  <1>6. /\ Grown(s, r) /\ r.pc = s.pc + 2 /\ r.lastpc = s.lastpc
        /\ HoldsWord(r.iseq, s.pc, u)
    BY <1>1, <1>4, WithWord
  <1>7. Whole(r)
    BY <1>6 DEF Grown
  <1> HIDE DEF r
  <1>8. /\ Grown(r, t) /\ t.pc = r.pc + 2 /\ t.lastpc = r.lastpc
        /\ HoldsWord(t.iseq, r.pc, v)
    BY <1>5, <1>7, WithWord
  <1>9. Grown(s, t) /\ Grown(b, t)
    BY <1>2, <1>4, <1>6, <1>8, GrownMore DEF Whole
  <1>10. WordAt(t.iseq, s.pc) = u % Word /\ WordAt(t.iseq, s.pc + 2) = v % Word
    <2>1. HoldsWord(t.iseq, s.pc, u)
      BY <1>4, <1>6, <1>7, <1>8, HoldsWordInGrown
    <2>2. HoldsWord(t.iseq, s.pc + 2, v)
      BY <1>6, <1>8
    <2>3. WordAt(t.iseq, s.pc) = u % Word
      BY <1>1, <2>1, WordRead
    <2>4. WordAt(t.iseq, s.pc + 2) = v % Word
      BY <2>2, WordRead
    <2>5. QED
      BY <2>3, <2>4
  <1>11. OneOperand(t.iseq, b.pc, op, x)
    <2>1. b.pc + HeadSize(ExtForOne(x)) + Width(x) <= s.pc
      BY <1>2, <1>4
    <2>2. QED
      BY <2>1, <1>1, <1>2, <1>4, <1>9, OneOperandInGrown
  <1>12. /\ Opens(t.iseq, b.pc, op, ext)
         /\ OperandAt(t.iseq, at, WideFirst(ext)) = x
    BY <1>11 DEF OneOperand
  <1>13. t.pc = at + Width(x) + 4
    BY <1>1, <1>2, <1>3, <1>6, <1>8 DEF HeadSize
  <1> HIDE DEF ext
  <1>14. DecodeAt(t.iseq, b.pc) = Reads(op, x, u % Word, v % Word, t.pc)
    BY <1>1, <1>2, <1>3, <1>10, <1>12, <1>13, Decoding
  <1>15. SizeAt(t.iseq, b.pc) = HeadSize(ext) - 1 + InsnSize(op, ext)
    BY <1>1, <1>3, <1>12, SizeRead
  <1>16. InsnSize(op, ext) = 5 + Width(x)
    BY <1>1, <1>3 DEF InsnSize, WideFirst
  <1>17. SizeAt(t.iseq, b.pc) = t.pc - b.pc /\ t.pc > b.pc
    BY <1>1, <1>3, <1>13, <1>15, <1>16 DEF HeadSize
  <1>18. QED
    BY <1>2, <1>6, <1>8, <1>9, <1>14, <1>17 DEF Emits, Reads, u

LEMMA DivisionTwice ==
  ASSUME NEW m \in Nat, m > 1, NEW v \in Int
  PROVE  (v \div m) \div m = v \div (m * m)
  <1> DEFINE q == v \div m
             r == v % m
             s == q \div m
             t == q % m
  <1>1. q \in Int /\ r \in 0 .. m - 1 /\ v = q * m + r
    BY Division
  <1>2. s \in Int /\ t \in 0 .. m - 1 /\ q = s * m + t
    BY Division, <1>1
  <1> SUFFICES s = v \div (m * m)
    OBVIOUS
  <1> HIDE DEF q, r, s, t
  <1>3. t * m + r \in 0 .. m * m - 1
    <2>1. t * m <= (m - 1) * m
      BY <1>2
    <2>2. t * m >= 0
      BY <1>2
    <2>3. QED
      BY <2>1, <2>2, <1>1, <1>2
  <1>4. v = s * (m * m) + (t * m + r)
    BY <1>1, <1>2
  <1>5. m * m \in Nat /\ m * m > 0
    OBVIOUS
  <1>6. QED
    BY <1>2, <1>3, <1>4, <1>5, DivisionIsUnique

\* Three bytes of a number that fits are the number.
LEMMA ThreeDigits ==
  ASSUME NEW v \in 0 .. Word * Base - 1
  PROVE  ((v \div Base) % Word) * Base + (v % Base) = v
  <1>1. Base \in Nat /\ Base > 1 /\ Word \in Nat /\ Word > 0 /\ v \in Int
    BY BaseType
  <1> DEFINE q == v \div Base
             r == v % Base
  <1>2. q \in Int /\ r \in 0 .. Base - 1 /\ v = q * Base + r
    BY <1>1, Division
  <1> HIDE DEF q, r
  <1>3. q \in 0 .. Word - 1
    <2>1. q >= 0
      <3>1. ASSUME q <= -1 PROVE FALSE
        <4>1. q * Base <= -Base
          BY <1>1, <1>2, <3>1
        <4>2. QED
          BY <4>1, <1>1, <1>2
      <3>2. QED
        BY <3>1, <1>2
    <2>2. q <= Word - 1
      <3>1. ASSUME q >= Word PROVE FALSE
        <4>1. q * Base >= Word * Base
          BY <1>1, <1>2, <3>1
        <4>2. QED
          BY <4>1, <1>1, <1>2
      <3>2. QED
        BY <3>1, <1>1, <1>2
    <2>3. QED
      BY <2>1, <2>2, <1>2
  <1>4. q % Word = q
    BY <1>1, <1>3, SmallRemainder
  <1>5. QED
    BY <1>2, <1>4 DEF q, r

\* Three bytes.
LEMMA EmitsThreeBytes ==
  ASSUME NEW b, Whole(b), NEW op \in Operations \ Prefixes, Shape[op] = "W",
         NEW v \in 0 .. Word * Base - 1, NEW t, t = GenopW(b, op, v)
  PROVE  Emits(b, t, Instr(op, v, 0, 0)) /\ t.lastpc = b.pc
  <1> DEFINE s == Gen(Begin(b), HeadOf(op, 0))
             r == Gen(s, OneByte(v \div Word))
             q == Gen(r, OneByte(v \div Base))
  <1>1. b.pc \in Nat /\ op \in Operations /\ v \in Int /\ v \div Word \in Int /\ v \div Base \in Int
    BY BufferFields, BaseType DEF Whole
  <1>2. /\ Grown(b, s) /\ s.pc = b.pc + 1 /\ s.lastpc = b.pc
        /\ Opens(s.iseq, b.pc, op, 0) /\ HeadOf(op, 0) \in Seq(Cells)
    BY <1>1, WithHead DEF HeadSize
  <1>3. Whole(s) /\ b \in Buffers
    BY <1>2 DEF Grown, Whole
  <1>4. t = Gen(q, OneByte(v))
    <2>1. /\ OneByte(v \div Word) \in Seq(Cells) /\ OneByte(v \div Base) \in Seq(Cells)
          /\ OneByte(v) \in Seq(Cells) /\ Whole(Begin(b))
      BY <1>1, OperandCells, BeginFields DEF Grown
    <2> DEFINE h == HeadOf(op, 0)
               h1 == h \o OneByte(v \div Word)
               h2 == h1 \o OneByte(v \div Base)
               h3 == h2 \o OneByte(v)
    <2>2. t = Gen(Begin(b), h3)
      BY DEF GenopW, HeadOf
    <2>3. h1 \in Seq(Cells) /\ Gen(Begin(b), h1) = r
      <3> HIDE DEF h
      <3>1. h \in Seq(Cells) /\ s = Gen(Begin(b), h)
        BY <1>2 DEF h
      <3> HIDE DEF s
      <3>2. QED
        BY <2>1, <3>1, GenTwice
    <2> HIDE DEF h1, r
    <2>4. h2 \in Seq(Cells) /\ Gen(Begin(b), h2) = Gen(Gen(Begin(b), h1), OneByte(v \div Base))
      BY <2>1, <2>3, GenTwice
    <2>5. Gen(Begin(b), h2) = q
      BY <2>3, <2>4
    <2> HIDE DEF h2, q
    <2>6. Gen(Begin(b), h3) = Gen(Gen(Begin(b), h2), OneByte(v))
      BY <2>1, <2>4, GenTwice
    <2>7. QED
      BY <2>2, <2>5, <2>6
  <1> HIDE DEF s
  <1>5. /\ Grown(s, r) /\ r.pc = s.pc + 1 /\ r.lastpc = s.lastpc
        /\ Cell(r.iseq, s.pc) = Digit(v \div Word)
    BY <1>1, <1>3, WithByte
  <1>6. Whole(r)
    BY <1>5 DEF Grown
  <1> HIDE DEF r
  <1>7. /\ Grown(r, q) /\ q.pc = r.pc + 1 /\ q.lastpc = r.lastpc
        /\ Cell(q.iseq, r.pc) = Digit(v \div Base)
    BY <1>1, <1>6, WithByte
  <1>8. Whole(q)
    BY <1>7 DEF Grown
  <1> HIDE DEF q
  <1>9. /\ Grown(q, t) /\ t.pc = q.pc + 1 /\ t.lastpc = q.lastpc
        /\ Cell(t.iseq, q.pc) = Digit(v)
    BY <1>1, <1>4, <1>8, WithByte
  <1>10. Grown(r, t) /\ Grown(s, t) /\ Grown(b, t)
    BY <1>2, <1>3, <1>5, <1>6, <1>7, <1>9, GrownMore DEF Whole
  <1>11. /\ s.pc = b.pc + 1 /\ r.pc = b.pc + 2 /\ q.pc = b.pc + 3 /\ t.pc = b.pc + 4
    BY <1>1, <1>2, <1>5, <1>7, <1>9
  <1>12. /\ Cell(t.iseq, b.pc + 1) = Digit(v \div Word)
         /\ Cell(t.iseq, b.pc + 2) = Digit(v \div Base)
         /\ Cell(t.iseq, b.pc + 3) = Digit(v)
    <2>1. Cell(t.iseq, b.pc + 1) = Cell(r.iseq, b.pc + 1)
      BY <1>1, <1>10, <1>11 DEF Grown
    <2>2. Cell(t.iseq, b.pc + 2) = Cell(q.iseq, b.pc + 2)
      BY <1>1, <1>9, <1>11 DEF Grown
    <2>3. QED
      BY <2>1, <2>2, <1>5, <1>7, <1>9, <1>11
  <1>13. Opens(t.iseq, b.pc, op, 0)
    <2>1. b.pc + HeadSize(0) <= s.pc
      BY <1>1, <1>2 DEF HeadSize
    <2>2. QED
      BY <2>1, <1>1, <1>2, <1>3, <1>10, OpensInGrown
  <1>14. WordAt(t.iseq, b.pc + 2 - 1) * Base + ByteAt(t.iseq, b.pc + 3) = v
    <2>1. (v \div Base) \div Base = v \div Word
      BY <1>1, BaseType, DivisionTwice DEF Word
    <2>2. (b.pc + 2 - 1) + 1 = b.pc + 2 /\ b.pc + 2 - 1 = b.pc + 1
      BY <1>1
    <2>3. HoldsWord(t.iseq, b.pc + 2 - 1, v \div Base)
      BY <2>1, <2>2, <1>12 DEF HoldsWord
    <2>4. WordAt(t.iseq, b.pc + 2 - 1) = (v \div Base) % Word
      BY <2>3, <1>1, WordRead
    <2>5. ByteAt(t.iseq, b.pc + 3) = v % Base
      BY <1>1, <1>12, DigitRead
    <2>6. QED
      BY <2>4, <2>5, ThreeDigits
  <1>15. DecodeAt(t.iseq, b.pc) = Reads(op, v, 0, 0, t.pc)
    <2> DEFINE at == b.pc + HeadSize(0)
    <2>1. DecodeAt(t.iseq, b.pc)
            = Reads(op, WordAt(t.iseq, at) * Base + ByteAt(t.iseq, at + 2), 0, 0, at + 3)
      BY <1>1, <1>13, Decoding
    <2>2. at = b.pc + 2 - 1 /\ at + 2 = b.pc + 3 /\ at + 3 = t.pc
      BY <1>1, <1>11 DEF HeadSize
    <2> HIDE DEF at
    <2>3. QED
      BY <2>1, <2>2, <1>14
  <1>16. SizeAt(t.iseq, b.pc) = HeadSize(0) - 1 + InsnSize(op, 0)
    BY <1>1, <1>13, SizeRead
  <1>17. SizeAt(t.iseq, b.pc) = 4
    BY <1>1, <1>16 DEF HeadSize, InsnSize
  <1>18. QED
    BY <1>1, <1>2, <1>5, <1>7, <1>9, <1>10, <1>11, <1>15, <1>17 DEF Emits, Reads

--------------------------------------------------------------------------------
(* The emitters by the shape of what they are asked for.                        *)

\* What an emitter can write: operands are of 16 bits, the third one of 8, and the
\* only one of an operation that takes three bytes of 24.
Writable(insn) ==
  /\ insn = Instr(insn.op, insn.a, insn.b, insn.c)
  /\ insn.op \in Operations \ Prefixes
  /\ \/ Shape[insn.op] = "Z" /\ insn.a = 0 /\ insn.b = 0 /\ insn.c = 0
     \/ Shape[insn.op] = "B" /\ insn.a \in 0 .. Word - 1 /\ insn.b = 0 /\ insn.c = 0
     \/ /\ Shape[insn.op] = "Bb" /\ insn.a \in 0 .. Word - 1 /\ insn.b \in 0 .. Word - 1
        /\ insn.c = 0
     \/ /\ Shape[insn.op] = "Bbb" /\ insn.a \in 0 .. Word - 1 /\ insn.b \in 0 .. Word - 1
        /\ insn.c \in 0 .. Base - 1
     \/ /\ Shape[insn.op] = "Bs" /\ insn.a \in 0 .. Word - 1 /\ insn.b \in 0 .. Word - 1
        /\ insn.c = 0
     \/ Shape[insn.op] = "W" /\ insn.a \in 0 .. Word * Base - 1 /\ insn.b = 0 /\ insn.c = 0

\* An instruction that does not jump is read back as it was asked for, with every
\* prefix its operands need, and the next one starts behind it.
THEOREM EncodeReadsBack ==
  ASSUME NEW b, Whole(b), NEW insn, Writable(insn), NEW t, t = Encode(b, insn)
  PROVE  Emits(b, t, insn) /\ t.lastpc = b.pc
  <1> DEFINE op == insn.op
  <1>1. insn = Instr(op, insn.a, insn.b, insn.c) /\ op \in Operations \ Prefixes
    BY DEF Writable
  <1>2. CASE Shape[op] = "Z"
    <2>1. insn = Instr(op, 0, 0, 0) /\ t = Genop0(b, op)
      BY <1>1, <1>2 DEF Writable, Encode
    <2>2. QED
      BY <1>1, <1>2, <2>1, EmitsNone
  <1>3. CASE Shape[op] = "B"
    <2>1. insn = Instr(op, insn.a, 0, 0) /\ t = Genop1(b, op, insn.a) /\ insn.a \in 0 .. Word - 1
      BY <1>1, <1>3 DEF Writable, Encode
    <2>2. Emits(b, t, Instr(op, insn.a, 0, 0)) /\ t.lastpc = b.pc
      BY <1>1, <1>3, <2>1, EmitsOne
    <2>3. QED
      BY <2>1, <2>2
  <1>4. CASE Shape[op] = "Bb"
    <2>1. /\ insn = Instr(op, insn.a, insn.b, 0) /\ t = Genop2(b, op, insn.a, insn.b)
          /\ insn.a \in 0 .. Word - 1 /\ insn.b \in 0 .. Word - 1
      BY <1>1, <1>4 DEF Writable, Encode
    <2>2. Emits(b, t, Instr(op, insn.a, insn.b, 0)) /\ t.lastpc = b.pc
      BY <1>1, <1>4, <2>1, EmitsTwo
    <2>3. QED
      BY <2>1, <2>2
  <1>5. CASE Shape[op] = "Bbb"
    <2>1. /\ t = Genop3(b, op, insn.a, insn.b, insn.c)
          /\ insn.a \in 0 .. Word - 1 /\ insn.b \in 0 .. Word - 1 /\ insn.c \in 0 .. Base - 1
      BY <1>5 DEF Writable, Encode
    <2>2. Emits(b, t, Instr(op, insn.a, insn.b, insn.c)) /\ t.lastpc = b.pc
      BY <1>1, <1>5, <2>1, EmitsThree
    <2>3. QED
      BY <1>1, <2>2
  <1>6. CASE Shape[op] = "Bs"
    <2>1. /\ insn = Instr(op, insn.a, insn.b, 0) /\ t = Genop2S(b, op, insn.a, insn.b)
          /\ insn.a \in 0 .. Word - 1 /\ insn.b \in 0 .. Word - 1 /\ insn.b \in Int
      BY <1>1, <1>6, BaseType DEF Writable, Encode
    <2>2. Emits(b, t, Instr(op, insn.a, insn.b % Word, 0)) /\ t.lastpc = b.pc
      BY <1>1, <1>6, <2>1, EmitsOneAndWord
    <2>3. insn.b % Word = insn.b
      BY <2>1, BaseType, SmallRemainder
    <2>4. QED
      BY <2>1, <2>2, <2>3
  <1>7. CASE Shape[op] = "W"
    <2>1. insn = Instr(op, insn.a, 0, 0) /\ t = GenopW(b, op, insn.a)
          /\ insn.a \in 0 .. Word * Base - 1
      BY <1>1, <1>7 DEF Writable, Encode
    <2>2. Emits(b, t, Instr(op, insn.a, 0, 0)) /\ t.lastpc = b.pc
      BY <1>1, <1>7, <2>1, EmitsThreeBytes
    <2>3. QED
      BY <2>1, <2>2
  <1>8. QED
    BY <1>2, <1>3, <1>4, <1>5, <1>6, <1>7 DEF Writable

--------------------------------------------------------------------------------
(* Integers.                                                                    *)

\* A load of each size is for other integers than the others.
LEMMA Ranges ==
  /\ MaxShort \in Nat /\ MinShort \in Int /\ MaxInt32 \in Nat /\ MinInt32 \in Int
  /\ MaxShort >= Base - 1 /\ MinShort <= -Base /\ MaxInt32 >= MaxShort /\ MinInt32 <= MinShort
  /\ MaxShort = (Word \div 2) - 1 /\ MinShort = -(Word \div 2)
  /\ MaxInt32 = ((Word * Word) \div 2) - 1 /\ MinInt32 = -((Word * Word) \div 2)
  <1>1. Base \in Nat /\ Base > 1 /\ Word \in Nat /\ Word = Base * Base /\ Word > Base
    BY BaseType
  <1>2. Word >= 2 * Base
    BY <1>1
  <1>3. Word * Word >= Word /\ Word * Word \in Nat
    BY <1>1
  <1> DEFINE h == Word \div 2
             d == (Word * Word) \div 2
  <1>4. h \in Nat /\ h >= Base
    BY <1>1, <1>2
  <1>5. d \in Nat /\ d >= h
    BY <1>1, <1>3
  <1>6. MaxShort = h - 1 /\ MinShort = -h /\ MaxInt32 = d - 1 /\ MinInt32 = -d
    BY DEF MaxShort, MinShort, MaxInt32, MinInt32
  <1>7. h >= 1
    BY <1>1, <1>4
  <1> HIDE DEF h, d
  <1>8. QED
    BY <1>1, <1>4, <1>5, <1>6, <1>7 DEF h, d

\* The pool of t holds what that of b holds, at the same places.
PoolKept(b, t) ==
  Len(t.pool) >= Len(b.pool) /\ \A i \in 1 .. Len(b.pool) : t.pool[i] = b.pool[i]

LEMMA WithPoolMade ==
  ASSUME NEW b, Whole(b), NEW pool \in Seq(Int), NEW t,
         t = BufferOf(b.iseq, b.pc, b.lastpc, b.lastlabel, pool)
  PROVE  /\ Whole(t) /\ t.iseq = b.iseq /\ t.pc = b.pc /\ t.lastpc = b.lastpc
         /\ t.lastlabel = b.lastlabel /\ t.pool = pool
  <1> DEFINE S == Seq(Cells)
             P == Seq(Int)
  <1>1. /\ b.iseq \in S /\ b.pc \in Nat /\ b.lastpc \in Nat /\ b.lastlabel \in Nat
        /\ pool \in P /\ Len(b.iseq) = b.pc
    BY BufferFields DEF Whole
  <1> HIDE DEF S, P
  <1>2. t \in [iseq : S, pc : Nat, lastpc : Nat, lastlabel : Nat, pool : P]
    BY <1>1 DEF BufferOf
  <1>3. /\ t.iseq = b.iseq /\ t.pc = b.pc /\ t.lastpc = b.lastpc
        /\ t.lastlabel = b.lastlabel /\ t.pool = pool
    BY DEF BufferOf
  <1>4. QED
    BY <1>1, <1>2, <1>3 DEF Whole, Buffers, S, P

LEMMA WithPoolFields ==
  ASSUME NEW b, Whole(b), NEW pool \in Seq(Int), NEW t, t = [b EXCEPT !.pool = pool]
  PROVE  /\ Whole(t) /\ t.iseq = b.iseq /\ t.pc = b.pc /\ t.lastpc = b.lastpc
         /\ t.lastlabel = b.lastlabel /\ t.pool = pool
  <1>1. t = BufferOf(b.iseq, b.pc, b.lastpc, b.lastlabel, pool)
    BY WithPool DEF Whole
  <1>2. QED
    BY <1>1, WithPoolMade

LEMMA InternFields ==
  ASSUME NEW b, Whole(b), NEW v \in Int, NEW t, t = Intern(b, v),
         Len(b.pool) <= PoolMax, ~PoolFull(b, v)
  PROVE  /\ Whole(t) /\ t.iseq = b.iseq /\ t.pc = b.pc /\ t.lastpc = b.lastpc
         /\ t.lastlabel = b.lastlabel /\ PoolKept(b, t) /\ Len(t.pool) <= PoolMax
         /\ PoolIndex(t.pool, v) \in 0 .. Len(t.pool) - 1
         /\ t.pool[PoolIndex(t.pool, v) + 1] = v
  <1>1. /\ b \in Buffers /\ b.iseq \in Seq(Cells) /\ Len(b.iseq) = b.pc /\ b.pc \in Nat
        /\ b.lastpc \in Nat /\ b.lastlabel \in Nat /\ b.pool \in Seq(Int) /\ Len(b.pool) \in Nat
    BY BufferFields DEF Whole
  <1>2. /\ Whole(t) /\ t.iseq = b.iseq /\ t.pc = b.pc /\ t.lastpc = b.lastpc
        /\ t.lastlabel = b.lastlabel /\ PoolKept(b, t) /\ Len(t.pool) <= PoolMax
        /\ t.pool \in Seq(Int) /\ Interned(t.pool, v)
    <2>1. CASE Interned(b.pool, v)
      <3>1. t = b
        BY <2>1 DEF Intern
      <3>2. PoolKept(b, b)
        BY <1>1 DEF PoolKept
      <3>3. QED
        BY <1>1, <2>1, <3>1, <3>2
    <2>2. CASE ~Interned(b.pool, v)
      <3> DEFINE pool == Append(b.pool, v)
      <3>1. t = [b EXCEPT !.pool = pool]
        BY <2>2 DEF Intern
      <3>2. /\ pool \in Seq(Int) /\ Len(pool) = Len(b.pool) + 1 /\ pool[Len(b.pool) + 1] = v
            /\ \A i \in 1 .. Len(b.pool) : pool[i] = b.pool[i]
        BY <1>1, AppendProperties
      <3> HIDE DEF pool
      <3>4. /\ Whole(t) /\ t.iseq = b.iseq /\ t.pc = b.pc /\ t.lastpc = b.lastpc
            /\ t.lastlabel = b.lastlabel /\ t.pool = pool
        <4>1. pool \in Seq(Int)
          BY <3>2
        <4>2. QED
          BY <4>1, <3>1, WithPoolFields
      <3>5. Len(b.pool) < PoolMax /\ PoolMax \in Nat
        BY <1>1, <2>2, BytesAssumption DEF PoolFull
      <3>6. Interned(pool, v)
        <4>1. Len(b.pool) + 1 \in DOMAIN pool
          BY <1>1, <3>2
        <4>2. QED
          BY <4>1, <3>2 DEF Interned
      <3>7. PoolKept(b, t)
        BY <1>1, <3>2, <3>4 DEF PoolKept
      <3>8. Len(t.pool) <= PoolMax
        BY <1>1, <3>2, <3>4, <3>5
      <3>9. QED
        BY <3>2, <3>4, <3>6, <3>7, <3>8
    <2>3. QED
      BY <2>1, <2>2
  <1> DEFINE i == CHOOSE j \in DOMAIN t.pool : t.pool[j] = v
  <1>3. i \in DOMAIN t.pool /\ t.pool[i] = v
    BY <1>2 DEF Interned
  <1>4. DOMAIN t.pool = 1 .. Len(t.pool) /\ Len(t.pool) \in Nat
    BY <1>2
  <1>5. PoolIndex(t.pool, v) = i - 1
    BY DEF PoolIndex
  <1> HIDE DEF i
  <1>6. QED
    BY <1>2, <1>3, <1>4, <1>5

\* t is b with a load of v, and with v in the pool if it is long.
Loads(b, t, dst, v) ==
  \E insn :
    /\ insn.op \in IntLoads /\ insn.a = dst /\ IntOperand(t, insn) = v
    /\ insn.b \in 0 .. Word - 1 /\ insn.c \in 0 .. Word - 1
    /\ insn.op = "LOADL" => insn.b + 1 \in 1 .. Len(t.pool)
    /\ Emits(IF Long(v) THEN Intern(b, v) ELSE b, t, insn)

LEMMA IntLoadsUsed ==
  /\ {"LOADI__1", "LOADINEG", "LOADI8", "LOADI16", "LOADI32", "LOADL"} \subseteq IntLoads
  /\ \A i \in 1 .. 8 : InlineLoads[i] \in IntLoads
  /\ \A op \in IntLoads : op \notin Prefixes /\ op \notin JumpOps
  <1>1. DOMAIN InlineLoads = 1 .. 8
    BY DEF InlineLoads
  <1>2. \A i \in 1 .. 8 : InlineLoads[i] \notin Prefixes /\ InlineLoads[i] \notin JumpOps
    BY DEF InlineLoads, Prefixes, JumpOps
  <1>3. QED
    BY <1>1, <1>2 DEF IntLoads, Prefixes, JumpOps

\* The value of each load.
LEMMA SignedSmall ==
  ASSUME NEW v \in 0 .. Base - 1
  PROVE  Signed(v, Word) = v
  <1>1. Base \in Nat /\ Base > 1 /\ Word = Base * Base
    BY BaseType
  <1>2. 2 * v < Word
    <2>1. 2 * v <= 2 * (Base - 1)
      BY <1>1
    <2>2. Base * Base >= 2 * Base
      BY <1>1
    <2>3. QED
      BY <1>1, <2>1, <2>2
  <1>3. QED
    BY <1>1, <1>2 DEF Signed

LEMMA LoadedWord ==
  ASSUME NEW v \in Int, MinShort <= v, v <= MaxShort
  PROVE  v % Word \in 0 .. Word - 1 /\ Signed(v % Word, Word) = v
  <1>1. Word \in Nat /\ Word > 0
    BY BaseType
  <1>2. v <= (Word \div 2) - 1 /\ v >= -(Word \div 2)
    BY Ranges
  <1>3. Signed(v % Word, Word) = v
    BY <1>1, <1>2, SignedBack
  <1>4. v % Word \in 0 .. Word - 1
    BY <1>1, Division
  <1>5. QED
    BY <1>3, <1>4

LEMMA LoadedLong ==
  ASSUME NEW v \in Int, MinInt32 <= v, v <= MaxInt32
  PROVE  Signed(((v \div Word) % Word) * Word + (v % Word), Word * Word) = v
  <1>1. Word \in Nat /\ Word > 1 /\ Word * Word \in Nat /\ Word * Word > 0
    BY BaseType
  <1>2. ((v \div Word) % Word) * Word + (v % Word) = v % (Word * Word)
    BY <1>1, TwoDigits
  <1>3. Signed(v % (Word * Word), Word * Word) = v
    BY <1>1, Ranges, SignedBack
  <1>4. QED
    BY <1>2, <1>3

LEMMA InlineValue ==
  ASSUME NEW b, NEW insn, NEW v \in 0 .. 7, insn.op = InlineLoads[v + 1]
  PROVE  IntOperand(b, insn) = v
  <1>1. DOMAIN InlineLoads = 1 .. 8
    BY DEF InlineLoads
  <1>2. \A i, j \in 1 .. 8 : InlineLoads[i] = InlineLoads[j] => i = j
    BY DEF InlineLoads
  <1>3. \A i \in 1 .. 8 :
          InlineLoads[i] \notin {"LOADI__1", "LOADINEG", "LOADI8", "LOADI16", "LOADI32", "LOADL"}
    BY DEF InlineLoads
  <1>4. v + 1 \in 1 .. 8
    OBVIOUS
  <1> DEFINE k == CHOOSE i \in DOMAIN InlineLoads : InlineLoads[i] = insn.op
  <1>5. IntOperand(b, insn) = k - 1
    BY <1>3, <1>4 DEF IntOperand
  <1>6. k = v + 1
    BY <1>1, <1>2, <1>4
  <1> HIDE DEF k
  <1>7. QED
    BY <1>5, <1>6

\* Every integer has one range.
LEMMA GenIntCases ==
  ASSUME NEW b, NEW dst, NEW v \in Int
  PROVE  \/ v = -1 /\ GenInt(b, dst, v) = Genop1(b, "LOADI__1", dst) /\ ~Long(v)
         \/ /\ v < -1 /\ v > -Base /\ ~Long(v)
            /\ GenInt(b, dst, v) = Genop2(b, "LOADINEG", dst, -v)
         \/ /\ v >= 0 /\ v < Inline /\ ~Long(v)
            /\ GenInt(b, dst, v) = Genop1(b, InlineLoads[v + 1], dst)
         \/ /\ v >= Inline /\ v < Base /\ ~Long(v)
            /\ GenInt(b, dst, v) = Genop2(b, "LOADI8", dst, v)
         \/ /\ MinShort <= v /\ v <= MaxShort /\ ~Long(v)
            /\ GenInt(b, dst, v) = Genop2S(b, "LOADI16", dst, v)
         \/ /\ MinInt32 <= v /\ v <= MaxInt32 /\ ~Long(v)
            /\ GenInt(b, dst, v) = Genop2SS(b, "LOADI32", dst, v)
         \/ /\ Long(v)
            /\ GenInt(b, dst, v)
                 = Genop2(Intern(b, v), "LOADL", dst, PoolIndex(Intern(b, v).pool, v))
  <1>1. /\ MaxShort \in Nat /\ MinShort \in Int /\ MaxInt32 \in Nat /\ MinInt32 \in Int
        /\ MaxShort >= Base - 1 /\ MinShort <= -Base /\ MaxInt32 >= MaxShort
        /\ MinInt32 <= MinShort /\ Base \in Nat /\ Base > 1 /\ Inline \in 1 .. 8 /\ Inline < Base
    BY Ranges, BaseType, BytesAssumption
  <1>2. CASE v = -1
    BY <1>1, <1>2 DEF GenInt, Long
  <1>3. CASE v < -1 /\ v > -Base
    BY <1>1, <1>3 DEF GenInt, Long
  <1>4. CASE v >= 0 /\ v < Inline
    BY <1>1, <1>4 DEF GenInt, Long
  <1>5. CASE v >= Inline /\ v < Base
    BY <1>1, <1>5 DEF GenInt, Long
  <1>6. CASE v <= -Base /\ v >= MinShort
    BY <1>1, <1>6 DEF GenInt, Long
  <1>7. CASE v >= Base /\ v <= MaxShort
    BY <1>1, <1>7 DEF GenInt, Long
  <1>8. CASE v < MinShort /\ v >= MinInt32
    BY <1>1, <1>8 DEF GenInt, Long
  <1>9. CASE v > MaxShort /\ v <= MaxInt32
    BY <1>1, <1>9 DEF GenInt, Long
  <1>10. CASE v < MinInt32 \/ v > MaxInt32
    BY <1>1, <1>10 DEF GenInt, Long
  <1>11. QED
    BY <1>1, <1>2, <1>3, <1>4, <1>5, <1>6, <1>7, <1>8, <1>9, <1>10

\* Whatever its size, an integer is loaded by an instruction that reads back as it,
\* of its register, and one that is too long for the code is found in the pool.
THEOREM GenIntReadsBack ==
  ASSUME NEW b, Whole(b), NEW dst \in 0 .. Word - 1, NEW v \in Int,
         Len(b.pool) <= PoolMax, Long(v) => ~PoolFull(b, v), NEW t, t = GenInt(b, dst, v)
  PROVE  Loads(b, t, dst, v) /\ t.lastpc = b.pc /\ Len(t.pool) <= PoolMax
  <1>0. /\ Base \in Nat /\ Base > 1 /\ Word \in Nat /\ Word > Base /\ Inline \in 1 .. 8
        /\ Inline < Base /\ PoolMax \in Nat /\ PoolMax <= Word
    BY BaseType, BytesAssumption
  <1> DEFINE Good(insn) == /\ insn.op \in IntLoads /\ insn.a = dst /\ IntOperand(t, insn) = v
                           /\ insn.b \in 0 .. Word - 1 /\ insn.c \in 0 .. Word - 1
                           /\ insn.op = "LOADL" => insn.b + 1 \in 1 .. Len(t.pool)
  <1>1. ASSUME ~Long(v), NEW insn, Good(insn), Emits(b, t, insn), t.lastpc = b.pc
        PROVE  Loads(b, t, dst, v) /\ t.lastpc = b.pc /\ Len(t.pool) <= PoolMax
    <2>1. t.pool = b.pool
      BY <1>1 DEF Emits, Grown
    <2>2. QED
      BY <1>1, <2>1 DEF Loads
  <1>2. CASE v = -1 /\ t = Genop1(b, "LOADI__1", dst) /\ ~Long(v)
    <2> DEFINE insn == Instr("LOADI__1", dst, 0, 0)
    <2>1. Emits(b, t, insn) /\ t.lastpc = b.pc
      BY <1>2, EmitsOne, ShapesUsed, IntLoadsUsed
    <2>2. Good(insn)
      BY <1>0, <1>2, IntLoadsUsed DEF Instr, IntOperand
    <2> HIDE DEF insn, Good
    <2>3. QED
      BY <1>1, <1>2, <2>1, <2>2
  <1>3. CASE v < -1 /\ v > -Base /\ ~Long(v) /\ t = Genop2(b, "LOADINEG", dst, -v)
    <2> DEFINE insn == Instr("LOADINEG", dst, -v, 0)
    <2>0. -v \in 0 .. Word - 1
      BY <1>0, <1>3
    <2> DEFINE op == "LOADINEG"
               w == -v
    <2>a. /\ op \in Operations \ Prefixes /\ Shape[op] = "Bb" /\ t = Genop2(b, op, dst, w)
          /\ insn = Instr(op, dst, w, 0)
      BY <1>3, ShapesUsed, IntLoadsUsed
    <2>b. w \in 0 .. Word - 1
      BY <2>0
    <2> HIDE DEF op, w, insn
    <2>1. Emits(b, t, insn) /\ t.lastpc = b.pc
      BY <2>a, <2>b, EmitsTwo
    <2>c. op \in IntLoads /\ op # "LOADL"
      BY IntLoadsUsed DEF op
    <2>d. insn.op = op /\ insn.a = dst /\ insn.b = w /\ insn.c = 0
      BY <2>a DEF Instr
    <2>e. IntOperand(t, insn) = -w
      BY <2>d DEF IntOperand, op
    <2>f. -w = v
      BY DEF w
    <2>2. Good(insn)
      BY <1>0, <2>b, <2>c, <2>d, <2>e, <2>f
    <2> HIDE DEF insn, Good
    <2>3. QED
      BY <1>1, <1>3, <2>1, <2>2
  <1>4. CASE v >= 0 /\ v < Inline /\ ~Long(v) /\ t = Genop1(b, InlineLoads[v + 1], dst)
    <2> DEFINE insn == Instr(InlineLoads[v + 1], dst, 0, 0)
    <2>0. v \in 0 .. 7 /\ v + 1 \in 1 .. 8
      BY <1>0, <1>4
    <2>a. /\ InlineLoads[v + 1] \in Operations \ Prefixes /\ Shape[InlineLoads[v + 1]] = "B"
          /\ InlineLoads[v + 1] \in IntLoads
      BY <2>0, ShapesUsed, IntLoadsUsed
    <2>1. Emits(b, t, insn) /\ t.lastpc = b.pc
      BY <1>4, <2>a, EmitsOne
    <2>b. insn.op = InlineLoads[v + 1] /\ insn.a = dst /\ insn.b = 0 /\ insn.c = 0
      BY DEF Instr
    <2>c. IntOperand(t, insn) = v
      BY <2>0, <2>b, InlineValue
    <2>d. InlineLoads[v + 1] # "LOADL"
      BY <2>0 DEF InlineLoads
    <2>2. Good(insn)
      BY <1>0, <2>a, <2>b, <2>c, <2>d
    <2> HIDE DEF insn, Good
    <2>3. QED
      BY <1>1, <1>4, <2>1, <2>2
  <1>5. CASE v >= Inline /\ v < Base /\ ~Long(v) /\ t = Genop2(b, "LOADI8", dst, v)
    <2> DEFINE insn == Instr("LOADI8", dst, v, 0)
    <2>0. v \in 0 .. Word - 1 /\ v \in 0 .. Base - 1
      BY <1>0, <1>5
    <2>1. Emits(b, t, insn) /\ t.lastpc = b.pc
      BY <1>5, <2>0, EmitsTwo, ShapesUsed, IntLoadsUsed
    <2>2. Signed(v, Word) = v
      BY <2>0, SignedSmall
    <2>3. Good(insn)
      BY <1>0, <1>5, <2>0, <2>2, IntLoadsUsed DEF Instr, IntOperand
    <2> HIDE DEF insn, Good
    <2>4. QED
      BY <1>1, <1>5, <2>1, <2>3
  <1>6. CASE MinShort <= v /\ v <= MaxShort /\ ~Long(v) /\ t = Genop2S(b, "LOADI16", dst, v)
    <2> DEFINE insn == Instr("LOADI16", dst, v % Word, 0)
    <2> DEFINE op == "LOADI16"
    <2>a. op \in Operations \ Prefixes /\ Shape[op] = "Bs" /\ t = Genop2S(b, op, dst, v)
      BY <1>6, ShapesUsed, IntLoadsUsed
    <2>b. insn = Instr(op, dst, v % Word, 0)
      OBVIOUS
    <2> HIDE DEF op, insn
    <2>1. Emits(b, t, insn) /\ t.lastpc = b.pc
      BY <2>a, <2>b, EmitsOneAndWord
    <2> USE DEF insn
    <2>2. v % Word \in 0 .. Word - 1 /\ Signed(v % Word, Word) = v
      BY <1>6, LoadedWord
    <2>3. Good(insn)
      BY <1>0, <1>6, <2>2, IntLoadsUsed DEF Instr, IntOperand
    <2> HIDE DEF insn, Good
    <2>4. QED
      BY <1>1, <1>6, <2>1, <2>3
  <1>7. CASE MinInt32 <= v /\ v <= MaxInt32 /\ ~Long(v) /\ t = Genop2SS(b, "LOADI32", dst, v)
    <2> DEFINE hi == (v \div Word) % Word
               lo == v % Word
               insn == Instr("LOADI32", dst, hi, lo)
    <2>1. Emits(b, t, insn) /\ t.lastpc = b.pc
      BY <1>7, EmitsOneAndTwoWords, ShapesUsed, IntLoadsUsed
    <2>2. hi \in 0 .. Word - 1 /\ lo \in 0 .. Word - 1
      BY <1>0, Division
    <2>3. Signed(hi * Word + lo, Word * Word) = v
      <3>1. Signed(((v \div Word) % Word) * Word + (v % Word), Word * Word) = v
        BY <1>7, LoadedLong
      <3>2. QED
        BY <3>1
    <2> HIDE DEF hi, lo
    <2>4. Good(insn)
      BY <1>0, <1>7, <2>2, <2>3, IntLoadsUsed DEF Instr, IntOperand
    <2> HIDE DEF insn, Good
    <2>5. QED
      BY <1>1, <1>7, <2>1, <2>4
  <1>8. CASE /\ Long(v)
             /\ t = Genop2(Intern(b, v), "LOADL", dst, PoolIndex(Intern(b, v).pool, v))
    <2> DEFINE s == Intern(b, v)
               i == PoolIndex(s.pool, v)
               insn == Instr("LOADL", dst, i, 0)
    <2>1. /\ Whole(s) /\ s.pc = b.pc /\ Len(s.pool) <= PoolMax
          /\ i \in 0 .. Len(s.pool) - 1 /\ s.pool[i + 1] = v
      BY <1>8, InternFields
    <2>2. Len(s.pool) \in Nat
      BY <2>1, BufferFields DEF Whole
    <2> HIDE DEF s, i
    <2>3. i \in 0 .. Word - 1 /\ i + 1 \in 1 .. Len(s.pool)
      BY <1>0, <2>1, <2>2
    <2>4. Emits(s, t, insn) /\ t.lastpc = s.pc
      BY <1>8, <2>1, <2>3, EmitsTwo, ShapesUsed, IntLoadsUsed DEF s, i
    <2>5. t.pool = s.pool
      BY <2>4 DEF Emits, Grown
    <2>6. Good(insn)
      BY <1>0, <2>1, <2>3, <2>5, IntLoadsUsed DEF Instr, IntOperand
    <2> HIDE DEF insn, Good
    <2>7. Emits(IF Long(v) THEN Intern(b, v) ELSE b, t, insn)
      BY <1>8, <2>4 DEF s
    <2>8. QED
      BY <2>1, <2>4, <2>5, <2>6, <2>7 DEF Loads, Good
  <1>9. QED
    BY <1>2, <1>3, <1>4, <1>5, <1>6, <1>7, <1>8, GenIntCases

--------------------------------------------------------------------------------
(* Jumps.                                                                       *)

CondOps == JumpOps \ {"JMP", "JMPUW"}

LEMMA JumpShapes ==
  /\ \A op \in {"JMP", "JMPUW"} : op \in JumpOps /\ op \in Operations \ Prefixes /\ Shape[op] = "S"
  /\ \A op \in CondOps : op \in JumpOps /\ op \in Operations \ Prefixes /\ Shape[op] = "Bs"
  /\ JumpOps = {"JMP", "JMPUW"} \cup CondOps
  BY ShapesUsed DEF CondOps, JumpOps, Prefixes

\* t is b with a jump, whose slot holds the offset of dest.
EmitsJump(b, t, op, a, dest) ==
  /\ t.pc - 2 \in Nat /\ t.pc - 2 > b.pc
  /\ HoldsWord(t.iseq, t.pc - 2, JmpOffset(t.pc - 2, dest))
  /\ LET off == JmpOffset(t.pc - 2, dest) % Word IN
       Emits(b, t, IF op \in CondOps THEN Instr(op, a, off, 0) ELSE Instr(op, off, 0, 0))

LEMMA OffsetType ==
  ASSUME NEW pc \in Int, NEW dest \in Nat \cup {JMPLINK_START}
  PROVE  JmpOffset(pc, dest) \in Int
  BY DEF JmpOffset, JMPLINK_START

LEMMA EmitsJmp ==
  ASSUME NEW b, Whole(b), NEW op \in {"JMP", "JMPUW"}, NEW dest \in Nat \cup {JMPLINK_START},
         NEW t, t = Genjmp(b, op, dest)
  PROVE  EmitsJump(b, t, op, 0, dest) /\ t.lastpc = b.pc
  <1> DEFINE s == Genop0(b, op)
             off == JmpOffset(s.pc, dest)
  <1>1. /\ b.pc \in Nat /\ b \in Buffers /\ op \in Operations \ Prefixes /\ Shape[op] = "S"
        /\ op \in Operations /\ op \notin CondOps
    BY BufferFields, JumpShapes DEF Whole, CondOps
  <1>2. /\ Grown(b, s) /\ s.pc = b.pc + 1 /\ s.lastpc = b.pc
        /\ Cell(s.iseq, b.pc) = Op(op)
    BY <1>1, WithOp
  <1>3. Whole(s) /\ off \in Int
    BY <1>1, <1>2, OffsetType DEF Grown
  <1>4. t = Gen(s, Halfword(off))
    BY DEF Genjmp, GenJmpdst
  <1> HIDE DEF s, off
  <1>5. /\ Grown(s, t) /\ t.pc = s.pc + 2 /\ t.lastpc = s.lastpc
        /\ HoldsWord(t.iseq, s.pc, off)
    BY <1>3, <1>4, WithWord
  <1>6. WordAt(t.iseq, s.pc) = off % Word
    BY <1>3, <1>5, WordRead
  <1>7. Grown(b, t)
    BY <1>1, <1>2, <1>5, GrownMore
  <1>8. Opens(t.iseq, b.pc, op, 0)
    <2>1. Opens(s.iseq, b.pc, op, 0) /\ b.pc + HeadSize(0) <= s.pc
      BY <1>1, <1>2 DEF Opens, HeadSize
    <2>2. QED
      BY <2>1, <1>1, <1>3, <1>5, OpensInGrown
  <1>9. DecodeAt(t.iseq, b.pc) = Reads(op, off % Word, 0, 0, t.pc)
    <2> DEFINE at == b.pc + HeadSize(0)
    <2>1. DecodeAt(t.iseq, b.pc) = Reads(op, WordAt(t.iseq, at), 0, 0, at + 2)
      BY <1>1, <1>8, Decoding
    <2>2. at = s.pc /\ at + 2 = t.pc
      BY <1>1, <1>2, <1>5 DEF HeadSize
    <2> HIDE DEF at
    <2>3. QED
      BY <2>1, <2>2, <1>6
  <1>10. SizeAt(t.iseq, b.pc) = HeadSize(0) - 1 + InsnSize(op, 0)
    BY <1>1, <1>8, SizeRead
  <1>11. SizeAt(t.iseq, b.pc) = 3
    BY <1>1, <1>10 DEF HeadSize, InsnSize
  <1>12. t.pc = b.pc + 3 /\ t.pc - 2 = s.pc
    BY <1>1, <1>2, <1>5
  <1>13. Emits(b, t, Instr(op, off % Word, 0, 0))
    BY <1>1, <1>7, <1>9, <1>11, <1>12 DEF Emits, Reads
  <1>14. off = JmpOffset(t.pc - 2, dest)
    BY <1>12 DEF off
  <1>15. QED
    BY <1>1, <1>2, <1>5, <1>12, <1>13, <1>14 DEF EmitsJump

\* A wide conditional jump starts at its prefix, and lastpc is behind that.
LEMMA EmitsCond ==
  ASSUME NEW b, Whole(b), NEW op \in CondOps, NEW a \in 0 .. Word - 1,
         NEW dest \in Nat \cup {JMPLINK_START}, NEW t, t = PlainCond(b, op, a, dest)
  PROVE  /\ EmitsJump(b, t, op, a, dest)
         /\ \/ t.lastpc = b.pc
            \/ /\ t.lastpc = b.pc + 1
               /\ OpAt(t.iseq, b.pc) = "EXT1" /\ OpAt(t.iseq, t.lastpc) = op
  <1> DEFINE p == IF a >= Base THEN Gen(b, <<Op("EXT1")>>) ELSE b
             s == Genop0(p, op)
             r == Gen(s, IF a >= Base THEN Halfword(a) ELSE OneByte(a))
             off == JmpOffset(r.pc, dest)
             ext == ExtForOne(a)
             at  == b.pc + HeadSize(ext)
  <1>1. /\ b.pc \in Nat /\ b \in Buffers /\ op \in Operations \ Prefixes /\ Shape[op] = "Bs"
        /\ op \in Operations /\ a \in Nat /\ a \in Int
    BY BufferFields, JumpShapes, BaseType DEF Whole
  <1>2. /\ Grown(b, p) /\ p.pc = b.pc + HeadSize(ext) - 1
        /\ ext # 0 => ext = 1 /\ Cell(p.iseq, b.pc) = Op("EXT1")
    <2>1. CASE a >= Base
      <3>1. ext = 1 /\ HeadSize(ext) = 2
        BY <2>1 DEF ExtForOne, Wide, HeadSize
      <3> DEFINE cells == <<Op("EXT1")>>
      <3>2. cells \in Seq(Cells) /\ Len(cells) = 1 /\ cells[1] = Op("EXT1")
        BY ShapesUsed, CellTypes DEF Prefixes
      <3>3. p = Gen(b, cells)
        BY <2>1
      <3> HIDE DEF cells, p
      <3>4. /\ Grown(b, p) /\ p.pc = b.pc + Len(cells)
            /\ \A k \in 1 .. Len(cells) : Cell(p.iseq, b.pc + k - 1) = cells[k]
        BY <3>2, <3>3, GenIsAppend
      <3>5. Cell(p.iseq, b.pc + 1 - 1) = cells[1] /\ b.pc + 1 - 1 = b.pc
        BY <1>1, <3>2, <3>4
      <3> HIDE DEF ext
      <3>6. QED
        BY <1>1, <3>1, <3>2, <3>4, <3>5
    <2>2. CASE ~(a >= Base)
      <3>1. ext = 0 /\ HeadSize(ext) = 1
        BY <2>2 DEF ExtForOne, Wide, HeadSize
      <3>2. p = b
        BY <2>2
      <3>3. QED
        BY <1>1, <3>1, <3>2 DEF Grown, Whole
    <2>3. QED
      BY <2>1, <2>2
  <1>3. Whole(p) /\ p \in Buffers /\ p.pc \in Nat
    BY <1>2, BufferFields DEF Grown, Whole
  <1> HIDE DEF p
  <1>4. /\ Grown(p, s) /\ s.pc = p.pc + 1 /\ s.lastpc = p.pc
        /\ Cell(s.iseq, p.pc) = Op(op)
    BY <1>1, <1>3, WithOp
  <1>5. Whole(s) /\ Grown(b, s) /\ s \in Buffers
    BY <1>1, <1>2, <1>4, GrownMore DEF Grown, Whole
  <1>a. HeadSize(ext) \in 1 .. 2
    BY DEF HeadSize
  <1> HIDE DEF s
  <1>6. Opens(s.iseq, b.pc, op, ext) /\ s.pc = at
    <2>1. s.pc = at
      BY <1>1, <1>2, <1>3, <1>4, <1>a
    <2>2. CASE ext = 0
      <3>1. p.pc = b.pc
        BY <1>1, <1>2, <2>2 DEF HeadSize
      <3>2. QED
        BY <2>1, <2>2, <3>1, <1>4 DEF Opens
    <2>3. CASE ext # 0
      <3>1. ext = 1 /\ p.pc = b.pc + 1 /\ Cell(p.iseq, b.pc) = Op("EXT1")
        BY <1>1, <1>2, <2>3 DEF HeadSize
      <3>2. Cell(s.iseq, b.pc) = Cell(p.iseq, b.pc)
        BY <1>1, <1>3, <1>4, <3>1 DEF Grown
      <3>3. QED
        BY <2>1, <3>1, <3>2, <1>4 DEF Opens, Prefix
    <2>4. QED
      BY <2>2, <2>3
  <1>7. /\ Grown(s, r) /\ r.pc = s.pc + Width(a) /\ r.lastpc = s.lastpc
        /\ Holds(r.iseq, s.pc, a)
    BY <1>1, <1>5, WithOperand
  <1>8. Whole(r) /\ Grown(b, r) /\ r.pc \in Nat
    BY <1>1, <1>5, <1>7, GrownMore, BufferFields DEF Grown, Whole
  <1>9. t = Gen(r, Halfword(off))
    BY DEF PlainCond, GenJmpdst, s, p
  <1>b. off \in Int
    <2> DEFINE pc == r.pc
    <2>1. pc \in Int
      BY <1>8
    <2>2. off = JmpOffset(pc, dest)
      OBVIOUS
    <2> HIDE DEF pc, off
    <2>3. QED
      BY <2>1, <2>2, OffsetType
  <1>c. /\ ext \in 0 .. 3 /\ ext # 3
        /\ WideFirst(ext) <=> Wide(a)
        /\ Width(a) = (IF WideFirst(ext) THEN 2 ELSE 1) /\ Width(a) \in 1 .. 2
        /\ HeadSize(ext) = Width(a)
    BY <1>1, ExtOfOne
  <1> HIDE DEF r, off, ext
  <1>10. OneOperand(r.iseq, b.pc, op, a)
    <2>1. Opens(r.iseq, b.pc, op, ext)
      <3>1. b.pc + HeadSize(ext) <= s.pc
        BY <1>1, <1>6, <1>a
      <3>2. QED
        BY <3>1, <1>1, <1>5, <1>6, <1>7, OpensInGrown
    <2>2. OperandAt(r.iseq, at, Wide(a)) = a
      BY <1>6, <1>7, OperandRead
    <2>3. OperandAt(r.iseq, at, WideFirst(ext)) = a
      BY <2>2, <1>c DEF OperandAt
    <2>4. QED
      BY <2>1, <2>3 DEF OneOperand, ext
  <1>11. /\ Grown(r, t) /\ t.pc = r.pc + 2 /\ t.lastpc = r.lastpc
         /\ HoldsWord(t.iseq, r.pc, off)
    BY <1>8, <1>9, <1>b, WithWord
  <1>12. WordAt(t.iseq, r.pc) = off % Word
    BY <1>11, <1>b, WordRead
  <1>13. Grown(b, t)
    BY <1>1, <1>8, <1>11, GrownMore
  <1>14. OneOperand(t.iseq, b.pc, op, a)
    <2>1. b.pc + HeadSize(ExtForOne(a)) + Width(a) <= r.pc
      BY <1>1, <1>6, <1>7, <1>8, <1>c DEF ext
    <2>2. QED
      BY <2>1, <1>1, <1>8, <1>10, <1>11, OneOperandInGrown
  <1>15. Opens(t.iseq, b.pc, op, ext) /\ OperandAt(t.iseq, at, WideFirst(ext)) = a
    BY <1>14 DEF OneOperand, ext
  <1>16. r.pc = at + Width(a) /\ t.pc = at + Width(a) + 2
    BY <1>1, <1>6, <1>7, <1>11, <1>c
  <1>17. DecodeAt(t.iseq, b.pc) = Reads(op, a, off % Word, 0, t.pc)
    BY <1>1, <1>12, <1>15, <1>16, <1>c, Decoding
  <1>18. SizeAt(t.iseq, b.pc) = HeadSize(ext) - 1 + InsnSize(op, ext)
    BY <1>1, <1>15, <1>c, SizeRead
  <1>19. InsnSize(op, ext) = 3 + Width(a)
    BY <1>1, <1>c DEF InsnSize, WideFirst
  <1>20. /\ SizeAt(t.iseq, b.pc) = t.pc - b.pc /\ t.pc > b.pc /\ t.pc - 2 = r.pc
         /\ t.pc - 2 > b.pc /\ t.pc - 2 \in Nat
    BY <1>1, <1>8, <1>16, <1>18, <1>19, <1>c
  <1>21. Emits(b, t, Instr(op, a, off % Word, 0))
    BY <1>13, <1>17, <1>20 DEF Emits, Reads
  <1>22. EmitsJump(b, t, op, a, dest)
    BY <1>11, <1>20, <1>21 DEF EmitsJump, off
  <1>23. t.lastpc = b.pc + HeadSize(ext) - 1
    BY <1>2, <1>4, <1>7, <1>11
  <1>24. CASE ext = 0
    BY <1>1, <1>22, <1>23, <1>24 DEF HeadSize
  <1>25. CASE ext # 0
    <2>1. ext = 1 /\ t.lastpc = b.pc + 1
      BY <1>1, <1>2, <1>23, <1>25 DEF HeadSize
    <2>2. Cell(t.iseq, b.pc) = Op("EXT1") /\ Cell(t.iseq, b.pc + 1) = Op(op)
      BY <2>1, <1>15 DEF Opens, Prefix
    <2>3. QED
      BY <2>1, <2>2, <1>22, OpRead
  <1>26. QED
    BY <1>24, <1>25

--------------------------------------------------------------------------------
(* What is patched, and what is taken back.                                     *)

\* Only the two bytes of the slot change.
Patched(b, t, link, w) ==
  /\ Whole(t) /\ t.pc = b.pc /\ t.lastpc = b.lastpc /\ t.pool = b.pool
  /\ \A q \in Nat \ {link, link + 1} : Cell(t.iseq, q) = Cell(b.iseq, q)
  /\ HoldsWord(t.iseq, link, w)

LEMMA ConcatOf ==
  ASSUME NEW S, NEW s \in Seq(S), NEW t \in Seq(S), NEW both, both = s \o t
  PROVE  /\ both \in Seq(S) /\ Len(both) = Len(s) + Len(t)
         /\ \A i \in 1 .. Len(s) + Len(t) : both[i] = IF i <= Len(s) THEN s[i] ELSE t[i - Len(s)]
  BY ConcatProperties

PatchOf(code, link, w) ==
  SubSeq(code, 1, link) \o Halfword(w) \o SubSeq(code, link + 2 + 1, Len(code))

LEMMA PatchedCode ==
  ASSUME NEW code \in Seq(Cells), NEW link \in Nat, link + 2 <= Len(code), NEW w \in Int,
         NEW patched, patched = PatchOf(code, link, w)
  PROVE  /\ patched \in Seq(Cells) /\ Len(patched) = Len(code)
         /\ \A q \in Nat \ {link, link + 1} : Cell(patched, q) = Cell(code, q)
         /\ HoldsWord(patched, link, w)
  <1> DEFINE front == SubSeq(code, 1, link)
             back  == SubSeq(code, link + 3, Len(code))
             cells == Halfword(w)
             n     == Len(code)
  <1>1. n \in Nat /\ link + 2 <= n
    BY LenProperties
  <1>2. front \in Seq(Cells) /\ Len(front) = link /\ \A i \in 1 .. link : front[i] = code[i]
    <2>1. \A i \in 1 .. link : code[i] \in Cells
      BY <1>1
    <2>2. front \in Seq(Cells)
      BY <2>1, <1>1, SubSeqProperties
    <2>3. Len(front) = link
      BY <1>1, SubSeqProperties
    <2>4. \A i \in 1 .. link : front[i] = code[i]
      BY <1>1, SubSeqProperties
    <2>5. QED
      BY <2>2, <2>3, <2>4
  <1>3. /\ back \in Seq(Cells) /\ Len(back) = n - link - 2
        /\ \A i \in 1 .. n - link - 2 : back[i] = code[link + 2 + i]
    <2>2. back \in Seq(Cells)
      BY <1>1, SubSeqProperties
    <2>3. Len(back) = n - link - 2
      BY <1>1, SubSeqProperties
    <2>4. \A i \in 1 .. n - link - 2 : back[i] = code[link + 2 + i]
      BY <1>1, SubSeqProperties
    <2>5. QED
      BY <2>2, <2>3, <2>4
  <1>4. cells \in Seq(Cells) /\ Len(cells) = 2
        /\ cells[1] = Digit(w \div Base) /\ cells[2] = Digit(w)
    BY CellTypes, BaseType DEF Halfword
  <1>5. patched = (front \o cells) \o back
    <2>1. link + 2 + 1 = link + 3
      OBVIOUS
    <2>2. QED
      BY <2>1 DEF PatchOf
  <1> DEFINE half == front \o cells
  <1> HIDE DEF front, back, cells, n
  <1>6. /\ half \in Seq(Cells) /\ Len(half) = link + 2
        /\ \A i \in 1 .. link + 2 : half[i] = IF i <= link THEN front[i] ELSE cells[i - link]
    <2>1. front \in Seq(Cells) /\ cells \in Seq(Cells)
      BY <1>2, <1>4
    <2> HIDE DEF half
    <2>2. /\ half \in Seq(Cells) /\ Len(half) = Len(front) + Len(cells)
          /\ \A i \in 1 .. Len(front) + Len(cells) :
               half[i] = IF i <= Len(front) THEN front[i] ELSE cells[i - Len(front)]
      BY <2>1, ConcatOf DEF half
    <2>3. Len(front) = link /\ Len(cells) = 2
      BY <1>2, <1>4
    <2>4. QED
      BY <2>2, <2>3
  <1> HIDE DEF half
  <1>7. /\ patched \in Seq(Cells) /\ Len(patched) = n
        /\ \A i \in 1 .. n : patched[i] = IF i <= link + 2 THEN half[i] ELSE back[i - (link + 2)]
    <2> DEFINE all == half \o back
    <2>1. patched = all
      BY <1>5 DEF half
    <2>2. half \in Seq(Cells) /\ back \in Seq(Cells)
      BY <1>3, <1>6
    <2>a. /\ all \in Seq(Cells) /\ Len(all) = Len(half) + Len(back)
          /\ \A i \in 1 .. Len(half) + Len(back) :
               all[i] = IF i <= Len(half) THEN half[i] ELSE back[i - Len(half)]
      <3>1. ASSUME NEW s \in Seq(Cells), NEW t \in Seq(Cells)
            PROVE  /\ s \o t \in Seq(Cells) /\ Len(s \o t) = Len(s) + Len(t)
                   /\ \A i \in 1 .. Len(s) + Len(t) :
                        (s \o t)[i] = IF i <= Len(s) THEN s[i] ELSE t[i - Len(s)]
        BY ConcatProperties
      <3>2. QED
        BY <3>1, <2>2, Zenon
    <2> HIDE DEF all
    <2>3. Len(half) + Len(back) = n
      BY <1>1, <1>3, <1>6
    <2>4. QED
      BY <2>1, <2>a, <2>3, <1>6
  <1>8. ASSUME NEW q \in Nat \ {link, link + 1}
        PROVE  Cell(patched, q) = Cell(code, q)
    <2>1. CASE q < link
      <3>1. q + 1 \in 1 .. n /\ q + 1 <= link + 2 /\ q + 1 \in 1 .. link /\ q + 1 \in 1 .. link + 2
            /\ q < n /\ q + 1 <= link
        BY <2>1, <1>1
      <3>2. patched[q + 1] = code[q + 1]
        BY <3>1, <1>2, <1>6, <1>7
      <3>3. QED
        BY <3>1, <3>2, <1>7 DEF Cell, n
    <2>2. CASE q > link + 1 /\ q < n
      <3> DEFINE i == q - link - 1
      <3>1. /\ q + 1 \in 1 .. n /\ ~(q + 1 <= link + 2) /\ i \in 1 .. n - link - 2
            /\ (q + 1) - (link + 2) = i /\ link + 2 + i = q + 1
        BY <2>2, <1>1
      <3> HIDE DEF i
      <3>2. patched[q + 1] = back[i]
        BY <3>1, <1>7
      <3>3. back[i] = code[link + 2 + i]
        BY <3>1, <1>3
      <3>4. patched[q + 1] = code[q + 1]
        BY <3>1, <3>2, <3>3
      <3>5. QED
        BY <3>4, <2>2, <1>7 DEF Cell, n
    <2>3. CASE ~(q < n)
      BY <2>3, <1>7 DEF Cell, n
    <2>4. QED
      BY <1>1, <2>1, <2>2, <2>3
  <1>9. HoldsWord(patched, link, w)
    <2>1. /\ link + 1 \in 1 .. n /\ link + 2 \in 1 .. n /\ link + 1 \in 1 .. link + 2
          /\ link + 2 \in 1 .. link + 2 /\ ~(link + 1 <= link) /\ ~(link + 2 <= link)
          /\ (link + 1) - link = 1 /\ (link + 2) - link = 2 /\ link < n /\ link + 1 < n
          /\ link + 1 <= link + 2 /\ (link + 1) + 1 = link + 2
      BY <1>1
    <2>2. patched[link + 1] = cells[1]
      <3>1. patched[link + 1] = half[link + 1]
        BY <2>1, <1>7
      <3>2. half[link + 1] = cells[(link + 1) - link]
        BY <2>1, <1>6
      <3>3. QED
        BY <2>1, <3>1, <3>2
    <2>3. patched[link + 2] = cells[2]
      <3>1. patched[link + 2] = half[link + 2]
        <4> DEFINE i == link + 2
        <4>1. i \in 1 .. n /\ i <= link + 2
          BY <2>1
        <4> HIDE DEF i
        <4>2. patched[i] = half[i]
          BY <4>1, <1>7
        <4>3. QED
          BY <4>2 DEF i
      <3>2. half[link + 2] = cells[(link + 2) - link]
        BY <2>1, <1>6
      <3>3. QED
        BY <2>1, <3>1, <3>2
    <2>4. Cell(patched, link) = cells[1] /\ Cell(patched, link + 1) = cells[2]
      BY <2>1, <2>2, <2>3, <1>7 DEF Cell
    <2>5. QED
      BY <2>4, <1>4 DEF HoldsWord
  <1>10. QED
    BY <1>7, <1>8, <1>9 DEF n

LEMMA DispatchFields ==
  ASSUME NEW b, Whole(b), NEW link \in Nat, link + 2 <= b.pc, NEW t, t = Dispatch(b, link)
  PROVE  Patched(b, t, link, b.pc - (link + 2)) /\ t.lastlabel = b.pc
  <1>1. /\ b \in Buffers /\ b.iseq \in Seq(Cells) /\ Len(b.iseq) = b.pc /\ b.pc \in Nat
        /\ b.lastpc \in Nat /\ b.lastlabel \in Nat /\ b.pool \in Seq(Int)
    BY BufferFields DEF Whole
  <1>2. PICK off \in Int : off = b.pc - (link + 2)
    BY <1>1
  <1>3. PICK bytes : bytes = PatchOf(b.iseq, link, off)
    OBVIOUS
  <1>4. /\ bytes \in Seq(Cells) /\ Len(bytes) = Len(b.iseq)
        /\ \A q \in Nat \ {link, link + 1} : Cell(bytes, q) = Cell(b.iseq, q)
        /\ HoldsWord(bytes, link, off)
    <2>1. link + 2 <= Len(b.iseq)
      BY <1>1
    <2>2. b.iseq \in Seq(Cells)
      BY <1>1
    <2>3. QED
      BY <1>3, <2>1, <2>2, PatchedCode
  <1>5. t = BufferOf(bytes, b.pc, b.lastpc, b.pc, b.pool)
    <2>1. Len(Halfword(off)) = 2
      BY DEF Halfword
    <2>2. Poke(b, link, Halfword(off)) = [b EXCEPT !.iseq = bytes]
      BY <1>3, <2>1 DEF Poke, PatchOf
    <2>3. [b EXCEPT !.iseq = bytes] = BufferOf(bytes, b.pc, b.lastpc, b.lastlabel, b.pool)
      BY <1>1, WithIseq
    <2>4. t = [Poke(b, link, Halfword(off)) EXCEPT !.lastlabel = b.pc]
      BY <1>2 DEF Dispatch
    <2>5. t = [BufferOf(bytes, b.pc, b.lastpc, b.lastlabel, b.pool) EXCEPT !.lastlabel = b.pc]
      BY <2>2, <2>3, <2>4
    <2>6. [BufferOf(bytes, b.pc, b.lastpc, b.lastlabel, b.pool) EXCEPT !.lastlabel = b.pc]
            = BufferOf(bytes, b.pc, b.lastpc, b.pc, b.pool)
      BY DEF BufferOf
    <2>7. QED
      BY <2>5, <2>6
  <1>6. /\ t \in Buffers /\ t.iseq = bytes /\ t.pc = b.pc /\ t.lastpc = b.lastpc
        /\ t.lastlabel = b.pc /\ t.pool = b.pool
    <2> DEFINE S == Seq(Cells)
               P == Seq(Int)
    <2>1. bytes \in S /\ b.pool \in P
      BY <1>1, <1>4
    <2> HIDE DEF S, P
    <2>2. t \in [iseq : S, pc : Nat, lastpc : Nat, lastlabel : Nat, pool : P]
      BY <1>1, <1>5, <2>1 DEF BufferOf
    <2>3. QED
      BY <1>5, <2>2 DEF BufferOf, Buffers, S, P
  <1>7. QED
    BY <1>1, <1>2, <1>4, <1>6 DEF Patched, Whole

\* What rewinding leaves.
Cut(b, t, pos) ==
  /\ Whole(t) /\ t.pc = pos /\ t.lastpc = b.lastpc /\ t.lastlabel = b.lastlabel
  /\ t.pool = b.pool /\ \A q \in 0 .. pos - 1 : Cell(t.iseq, q) = Cell(b.iseq, q)

LEMMA RewindFields ==
  ASSUME NEW b, Whole(b), NEW pos \in Nat, pos <= b.pc, NEW t, t = Rewind(b, pos)
  PROVE  Cut(b, t, pos)
  <1> DEFINE code == SubSeq(b.iseq, 1, pos)
  <1>1. /\ b \in Buffers /\ b.iseq \in Seq(Cells) /\ Len(b.iseq) = b.pc /\ b.pc \in Nat
        /\ b.lastpc \in Nat /\ b.lastlabel \in Nat /\ b.pool \in Seq(Int)
    BY BufferFields DEF Whole
  <1>2. code \in Seq(Cells) /\ Len(code) = pos /\ \A i \in 1 .. pos : code[i] = b.iseq[i]
    <2>1. \A i \in 1 .. pos : b.iseq[i] \in Cells
      BY <1>1
    <2>2. code \in Seq(Cells)
      BY <2>1, SubSeqProperties
    <2>3. Len(code) = pos
      BY <1>1, <2>1, SubSeqProperties
    <2>4. \A i \in 1 .. pos : code[i] = b.iseq[i]
      BY <1>1, <2>1, SubSeqProperties
    <2>5. QED
      BY <2>2, <2>3, <2>4
  <1>3. t = BufferOf(code, pos, b.lastpc, b.lastlabel, b.pool)
    <2>1. t = [[b EXCEPT !.pc = pos] EXCEPT !.iseq = code]
      BY DEF Rewind
    <2>2. [b EXCEPT !.pc = pos] = BufferOf(b.iseq, pos, b.lastpc, b.lastlabel, b.pool)
      BY <1>1, WithPc
    <2> HIDE DEF code
    <2>3. QED
      BY <2>1, <2>2 DEF BufferOf
  <1> HIDE DEF code
  <1>4. /\ t \in Buffers /\ t.iseq = code /\ t.pc = pos /\ t.lastpc = b.lastpc
        /\ t.lastlabel = b.lastlabel /\ t.pool = b.pool
    <2> DEFINE S == Seq(Cells)
               P == Seq(Int)
    <2>1. code \in S /\ b.pool \in P
      BY <1>1, <1>2
    <2> HIDE DEF S, P
    <2>2. t \in [iseq : S, pc : Nat, lastpc : Nat, lastlabel : Nat, pool : P]
      BY <1>1, <1>3, <2>1 DEF BufferOf
    <2>3. QED
      BY <1>3, <2>2 DEF BufferOf, Buffers, S, P
  <1>5. ASSUME NEW q \in 0 .. pos - 1 PROVE Cell(code, q) = Cell(b.iseq, q)
    <2>1. q + 1 \in 1 .. pos /\ q < pos /\ q < b.pc
      BY <1>1
    <2>2. code[q + 1] = b.iseq[q + 1]
      BY <2>1, <1>2
    <2>3. QED
      BY <2>1, <2>2, <1>1, <1>2 DEF Cell
  <1>6. QED
    BY <1>2, <1>4, <1>5 DEF Cut, Whole

--------------------------------------------------------------------------------
(* The decoder at any position, of any bytes.                                   *)

ExtAt(iseq, pos)   == ExtOf(OpAt(iseq, pos))
OpPlace(iseq, pos) == pos + IF ExtAt(iseq, pos) = 0 THEN 0 ELSE 1
OpFound(iseq, pos) == OpAt(iseq, OpPlace(iseq, pos))
ShapeFound(op)     == IF op \in Operations THEN Shape[op] ELSE "Z"

LEMMA ShapeFoundType ==
  ASSUME NEW op
  PROVE  ShapeFound(op) \in {"Z", "B", "Bb", "Bbb", "Bs", "Bss", "S", "W"}
  BY ShapeType, ShapeNames DEF ShapeFound

LEMMA ExtType ==
  ASSUME NEW iseq, NEW pos
  PROVE  ExtAt(iseq, pos) \in 0 .. 3
  BY DEF ExtAt, ExtOf

LEMMA DecodeForm ==
  ASSUME NEW iseq, NEW pos \in Nat
  PROVE  LET ext   == ExtAt(iseq, pos)
             op    == OpFound(iseq, pos)
             at    == OpPlace(iseq, pos) + 1
             one   == IF WideFirst(ext) THEN 2 ELSE 1
             two   == IF WideSecond(ext) THEN 2 ELSE 1
             x     == OperandAt(iseq, at, WideFirst(ext))
             y     == OperandAt(iseq, at + one, WideSecond(ext))
             shape == ShapeFound(op)
         IN
         /\ shape = "Z" => DecodeAt(iseq, pos) = Reads(op, 0, 0, 0, at)
         /\ shape = "B" /\ ext # 3 => DecodeAt(iseq, pos) = Reads(op, x, 0, 0, at + one)
         /\ shape = "B" /\ ext = 3 => DecodeAt(iseq, pos) = Reads(op, ByteAt(iseq, at), 0, 0, at + 1)
         /\ shape = "Bb" => DecodeAt(iseq, pos) = Reads(op, x, y, 0, at + one + two)
         /\ shape = "Bbb" => DecodeAt(iseq, pos)
                             = Reads(op, x, y, ByteAt(iseq, at + one + two), at + one + two + 1)
         /\ shape = "Bs" => DecodeAt(iseq, pos)
                            = Reads(op, x, WordAt(iseq, at + one), 0, at + one + 2)
         /\ shape = "Bss" => DecodeAt(iseq, pos)
                             = Reads(op, x, WordAt(iseq, at + one), WordAt(iseq, at + one + 2),
                                       at + one + 4)
         /\ shape = "S" => DecodeAt(iseq, pos) = Reads(op, WordAt(iseq, at), 0, 0, at + 2)
         /\ shape = "W" => DecodeAt(iseq, pos)
                           = Reads(op, WordAt(iseq, at) * Base + ByteAt(iseq, at + 2), 0, 0, at + 3)
  BY DEF DecodeAt, Reads, OperandAt, ExtAt, OpFound, OpPlace, ShapeFound

\* Where the next instruction starts: behind this one, whatever the bytes are, and two
\* bytes behind the slot of a jump.
LEMMA DecodeNext ==
  ASSUME NEW iseq, NEW pos \in Nat
  PROVE  LET d == DecodeAt(iseq, pos) IN
         /\ d.next \in Nat /\ d.next > OpPlace(iseq, pos)
         /\ OpPlace(iseq, pos) \in Nat /\ OpPlace(iseq, pos) >= pos /\ d.next > pos
         /\ d.insn.op = OpFound(iseq, pos)
         /\ d.insn.op \in JumpOps => d.next - 2 > OpPlace(iseq, pos)
  <1> DEFINE ext == ExtAt(iseq, pos)
             op  == OpFound(iseq, pos)
             pl  == OpPlace(iseq, pos)
             d   == DecodeAt(iseq, pos)
             one == IF WideFirst(ext) THEN 2 ELSE 1
             two == IF WideSecond(ext) THEN 2 ELSE 1
  <1>1. pl \in Nat /\ pl >= pos
    BY DEF OpPlace
  <1>2. one \in 1 .. 2 /\ two \in 1 .. 2
    OBVIOUS
  <1>3. ShapeFound(op) \in {"Z", "B", "Bb", "Bbb", "Bs", "Bss", "S", "W"}
    BY ShapeFoundType
  <1>4. op \in JumpOps => ShapeFound(op) \in {"S", "Bs"}
    BY JumpShapes DEF ShapeFound
  <1>5. \E a, b, c, n : /\ d = Reads(op, a, b, c, n) /\ n \in Nat /\ n > pl
                        /\ ShapeFound(op) \in {"S", "Bs"} => n - 2 > pl
    <2>1. CASE ShapeFound(op) = "Z"
      BY <2>1, <1>1, DecodeForm
    <2>2. CASE ShapeFound(op) = "B"
      BY <2>2, <1>1, <1>2, DecodeForm
    <2>3. CASE ShapeFound(op) = "Bb"
      BY <2>3, <1>1, <1>2, DecodeForm
    <2>4. CASE ShapeFound(op) = "Bbb"
      BY <2>4, <1>1, <1>2, DecodeForm
    <2>5. CASE ShapeFound(op) = "Bs"
      BY <2>5, <1>1, <1>2, DecodeForm
    <2>6. CASE ShapeFound(op) = "Bss"
      BY <2>6, <1>1, <1>2, DecodeForm
    <2>7. CASE ShapeFound(op) = "S"
      BY <2>7, <1>1, DecodeForm
    <2>8. CASE ShapeFound(op) = "W"
      BY <2>8, <1>1, DecodeForm
    <2>9. QED
      BY <1>3, <2>1, <2>2, <2>3, <2>4, <2>5, <2>6, <2>7, <2>8
  <1>6. PICK a, b, c, n : /\ d = Reads(op, a, b, c, n) /\ n \in Nat /\ n > pl
                          /\ ShapeFound(op) \in {"S", "Bs"} => n - 2 > pl
    BY <1>5
  <1>7. d.next = n /\ d.insn.op = op
    BY <1>6 DEF Reads, Instr
  <1> HIDE DEF d, pl, op
  <1>8. QED
    BY <1>1, <1>4, <1>6, <1>7 DEF d, pl, op

\* Bytes are the same from one position to another.
Same(iseq, jseq, from, to) ==
  \A q \in Nat : q >= from /\ q < to => Cell(jseq, q) = Cell(iseq, q)

LEMMA HeadLocal ==
  ASSUME NEW iseq, NEW jseq, NEW pos \in Nat, Same(iseq, jseq, pos, OpPlace(iseq, pos) + 1)
  PROVE  /\ ExtAt(jseq, pos) = ExtAt(iseq, pos) /\ OpPlace(jseq, pos) = OpPlace(iseq, pos)
         /\ OpFound(jseq, pos) = OpFound(iseq, pos) /\ SizeAt(jseq, pos) = SizeAt(iseq, pos)
  <1>1. OpPlace(iseq, pos) \in Nat /\ OpPlace(iseq, pos) >= pos
    BY DEF OpPlace
  <1>2. Cell(jseq, pos) = Cell(iseq, pos)
    BY <1>1 DEF Same
  <1>3. OpAt(jseq, pos) = OpAt(iseq, pos)
    BY <1>2 DEF OpAt
  <1>4. ExtAt(jseq, pos) = ExtAt(iseq, pos) /\ OpPlace(jseq, pos) = OpPlace(iseq, pos)
    BY <1>3 DEF ExtAt, OpPlace
  <1>5. Cell(jseq, OpPlace(iseq, pos)) = Cell(iseq, OpPlace(iseq, pos))
    BY <1>1 DEF Same
  <1>6. OpFound(jseq, pos) = OpFound(iseq, pos)
    BY <1>4, <1>5 DEF OpFound, OpAt
  <1>7. \A s : SizeAt(s, pos) = IF ExtAt(s, pos) = 0 THEN InsnSize(OpFound(s, pos), 0)
                                ELSE InsnSize(OpFound(s, pos), ExtAt(s, pos)) + 1
    BY DEF SizeAt, ExtAt, OpFound, OpPlace
  <1>8. QED
    BY <1>4, <1>6, <1>7

LEMMA OperandLocal ==
  ASSUME NEW iseq, NEW jseq, NEW from \in Nat, NEW to \in Nat, Same(iseq, jseq, from, to),
         NEW q \in Nat, q >= from
  PROVE  /\ q + 1 <= to => ByteAt(jseq, q) = ByteAt(iseq, q)
         /\ q + 2 <= to => WordAt(jseq, q) = WordAt(iseq, q)
  <1>1. \A p \in Nat : p >= from /\ p + 1 <= to => ByteAt(jseq, p) = ByteAt(iseq, p)
    BY DEF Same, ByteAt
  <1>2. q + 2 <= to => ByteAt(jseq, q) = ByteAt(iseq, q) /\ ByteAt(jseq, q + 1) = ByteAt(iseq, q + 1)
    BY <1>1
  <1>3. QED
    BY <1>1, <1>2 DEF WordAt

\* An instruction is what its own bytes say.
LEMMA DecodeLocal ==
  ASSUME NEW iseq, NEW jseq, NEW pos \in Nat,
         Same(iseq, jseq, pos, DecodeAt(iseq, pos).next)
  PROVE  DecodeAt(jseq, pos) = DecodeAt(iseq, pos) /\ SizeAt(jseq, pos) = SizeAt(iseq, pos)
  <1> DEFINE ext == ExtAt(iseq, pos)
             op  == OpFound(iseq, pos)
             pl  == OpPlace(iseq, pos)
             one == IF WideFirst(ext) THEN 2 ELSE 1
             two == IF WideSecond(ext) THEN 2 ELSE 1
             at  == pl + 1
             n   == DecodeAt(iseq, pos).next
             Alike(q, wide) == OperandAt(jseq, q, wide) = OperandAt(iseq, q, wide)
  <1>1. pl \in Nat /\ pl >= pos /\ n \in Nat /\ n > pl
    BY DecodeNext
  <1>2. one \in 1 .. 2 /\ two \in 1 .. 2
    OBVIOUS
  <1>3. ShapeFound(op) \in {"Z", "B", "Bb", "Bbb", "Bs", "Bss", "S", "W"}
    BY ShapeFoundType
  <1>4. Same(iseq, jseq, pos, pl + 1)
    BY <1>1 DEF Same
  <1>5. /\ ExtAt(jseq, pos) = ext /\ OpPlace(jseq, pos) = pl /\ OpFound(jseq, pos) = op
        /\ SizeAt(jseq, pos) = SizeAt(iseq, pos)
    BY <1>4, HeadLocal
  <1>6. \A q \in Nat : q >= pos =>
          /\ q + 1 <= n => ByteAt(jseq, q) = ByteAt(iseq, q)
          /\ q + 2 <= n => WordAt(jseq, q) = WordAt(iseq, q)
    BY <1>1, OperandLocal
  <1>7. \A q \in Nat : q >= pos /\ q + one <= n => Alike(q, WideFirst(ext))
    BY <1>6 DEF OperandAt
  <1>8. \A q \in Nat : q >= pos /\ q + two <= n => Alike(q, WideSecond(ext))
    BY <1>6 DEF OperandAt
  <1>a. \A a, b, c, m : DecodeAt(iseq, pos) = Reads(op, a, b, c, m) => n = m
    BY DEF Reads
  <1> HIDE DEF n, pl, ext, op
  <1>b. /\ at \in Nat /\ at >= pos /\ at + one \in Nat /\ at + one >= pos
        /\ at + one + two \in Nat /\ at + one + two >= pos /\ at + 2 \in Nat /\ at + 2 >= pos
        /\ at + one + 2 \in Nat /\ at + one + 2 >= pos
    BY <1>1, <1>2
  <1> HIDE DEF at, one, two
  <1> DEFINE x(s) == OperandAt(s, at, WideFirst(ext))
             y(s) == OperandAt(s, at + one, WideSecond(ext))
  <1>c. /\ ShapeFound(op) = "Z" => \A s \in {iseq, jseq} : DecodeAt(s, pos) = Reads(op, 0, 0, 0, at)
        /\ ShapeFound(op) = "B" /\ ext # 3 =>
             \A s \in {iseq, jseq} : DecodeAt(s, pos) = Reads(op, x(s), 0, 0, at + one)
        /\ ShapeFound(op) = "B" /\ ext = 3 =>
             \A s \in {iseq, jseq} : DecodeAt(s, pos) = Reads(op, ByteAt(s, at), 0, 0, at + 1)
        /\ ShapeFound(op) = "Bb" =>
             \A s \in {iseq, jseq} : DecodeAt(s, pos) = Reads(op, x(s), y(s), 0, at + one + two)
        /\ ShapeFound(op) = "Bbb" =>
             \A s \in {iseq, jseq} :
               DecodeAt(s, pos)
                 = Reads(op, x(s), y(s), ByteAt(s, at + one + two), at + one + two + 1)
        /\ ShapeFound(op) = "Bs" =>
             \A s \in {iseq, jseq} :
               DecodeAt(s, pos) = Reads(op, x(s), WordAt(s, at + one), 0, at + one + 2)
        /\ ShapeFound(op) = "Bss" =>
             \A s \in {iseq, jseq} :
               DecodeAt(s, pos) = Reads(op, x(s), WordAt(s, at + one), WordAt(s, at + one + 2),
                                        at + one + 4)
        /\ ShapeFound(op) = "S" =>
             \A s \in {iseq, jseq} : DecodeAt(s, pos) = Reads(op, WordAt(s, at), 0, 0, at + 2)
        /\ ShapeFound(op) = "W" =>
             \A s \in {iseq, jseq} :
               DecodeAt(s, pos)
                 = Reads(op, WordAt(s, at) * Base + ByteAt(s, at + 2), 0, 0, at + 3)
    <2>1. ASSUME NEW s, ExtAt(s, pos) = ext, OpPlace(s, pos) = pl, OpFound(s, pos) = op
          PROVE  /\ ShapeFound(op) = "Z" => DecodeAt(s, pos) = Reads(op, 0, 0, 0, at)
                 /\ ShapeFound(op) = "B" /\ ext # 3 =>
                      DecodeAt(s, pos) = Reads(op, x(s), 0, 0, at + one)
                 /\ ShapeFound(op) = "B" /\ ext = 3 =>
                      DecodeAt(s, pos) = Reads(op, ByteAt(s, at), 0, 0, at + 1)
                 /\ ShapeFound(op) = "Bb" =>
                      DecodeAt(s, pos) = Reads(op, x(s), y(s), 0, at + one + two)
                 /\ ShapeFound(op) = "Bbb" =>
                      DecodeAt(s, pos)
                        = Reads(op, x(s), y(s), ByteAt(s, at + one + two), at + one + two + 1)
                 /\ ShapeFound(op) = "Bs" =>
                      DecodeAt(s, pos) = Reads(op, x(s), WordAt(s, at + one), 0, at + one + 2)
                 /\ ShapeFound(op) = "Bss" =>
                      DecodeAt(s, pos) = Reads(op, x(s), WordAt(s, at + one),
                                               WordAt(s, at + one + 2), at + one + 4)
                 /\ ShapeFound(op) = "S" => DecodeAt(s, pos) = Reads(op, WordAt(s, at), 0, 0, at + 2)
                 /\ ShapeFound(op) = "W" =>
                      DecodeAt(s, pos)
                        = Reads(op, WordAt(s, at) * Base + ByteAt(s, at + 2), 0, 0, at + 3)
      BY <2>1, DecodeForm DEF at, one, two
    <2>2. ExtAt(iseq, pos) = ext /\ OpPlace(iseq, pos) = pl /\ OpFound(iseq, pos) = op
      BY DEF ext, pl, op
    <2> HIDE DEF x, y
    <2>3. QED
      BY <2>1, <2>2, <1>5
  <1>d. CASE ShapeFound(op) = "Z"
    BY <1>5, <1>c, <1>d
  <1>e. CASE ShapeFound(op) = "B" /\ ext # 3
    <2>1. n = at + one
      BY <1>a, <1>c, <1>e
    <2>2. x(jseq) = x(iseq)
      BY <2>1, <1>1, <1>7, <1>b
    <2>3. QED
      BY <2>2, <1>5, <1>c, <1>e
  <1>f. CASE ShapeFound(op) = "B" /\ ext = 3
    <2>1. n = at + 1
      BY <1>a, <1>c, <1>f
    <2>2. ByteAt(jseq, at) = ByteAt(iseq, at)
      BY <2>1, <1>1, <1>6, <1>b
    <2>3. QED
      BY <2>2, <1>5, <1>c, <1>f
  <1>g. CASE ShapeFound(op) = "Bb"
    <2>1. n = at + one + two
      BY <1>a, <1>c, <1>g
    <2>2. at + one <= n /\ (at + one) + two <= n
      BY <2>1, <1>1, <1>2, <1>b DEF one, two
    <2>3. x(jseq) = x(iseq) /\ y(jseq) = y(iseq)
      BY <2>2, <1>1, <1>7, <1>8, <1>b
    <2>4. QED
      BY <2>3, <1>5, <1>c, <1>g
  <1>h. CASE ShapeFound(op) = "Bbb"
    <2>1. n = at + one + two + 1
      BY <1>a, <1>c, <1>h
    <2>2. at + one <= n /\ (at + one) + two <= n /\ (at + one + two) + 1 <= n
      BY <2>1, <1>1, <1>2, <1>b DEF one, two
    <2>3. x(jseq) = x(iseq) /\ y(jseq) = y(iseq)
      BY <2>2, <1>1, <1>7, <1>8, <1>b
    <2>4. ByteAt(jseq, at + one + two) = ByteAt(iseq, at + one + two)
      BY <2>2, <1>1, <1>6, <1>b
    <2>5. QED
      BY <2>3, <2>4, <1>5, <1>c, <1>h
  <1>i. CASE ShapeFound(op) = "Bs"
    <2>1. n = at + one + 2
      BY <1>a, <1>c, <1>i
    <2>2. at + one <= n /\ (at + one) + 2 <= n
      BY <2>1, <1>1, <1>2, <1>b DEF one, two
    <2>3. x(jseq) = x(iseq) /\ WordAt(jseq, at + one) = WordAt(iseq, at + one)
      BY <2>2, <1>1, <1>6, <1>7, <1>b
    <2>4. QED
      BY <2>3, <1>5, <1>c, <1>i
  <1>j. CASE ShapeFound(op) = "Bss"
    <2>1. n = at + one + 4
      BY <1>a, <1>c, <1>j
    <2>2. at + one <= n /\ (at + one) + 2 <= n /\ (at + one + 2) + 2 <= n
      BY <2>1, <1>1, <1>2, <1>b DEF one, two
    <2>3. /\ x(jseq) = x(iseq) /\ WordAt(jseq, at + one) = WordAt(iseq, at + one)
          /\ WordAt(jseq, at + one + 2) = WordAt(iseq, at + one + 2)
      BY <2>2, <1>1, <1>6, <1>7, <1>b
    <2>4. QED
      BY <2>3, <1>5, <1>c, <1>j
  <1>k. CASE ShapeFound(op) = "S"
    <2>1. n = at + 2
      BY <1>a, <1>c, <1>k
    <2>2. WordAt(jseq, at) = WordAt(iseq, at)
      BY <2>1, <1>1, <1>6, <1>b
    <2>3. QED
      BY <2>2, <1>5, <1>c, <1>k
  <1>l. CASE ShapeFound(op) = "W"
    <2>1. n = at + 3
      BY <1>a, <1>c, <1>l
    <2>2. at + 2 <= n /\ (at + 2) + 1 <= n
      BY <2>1, <1>b
    <2>3. WordAt(jseq, at) = WordAt(iseq, at) /\ ByteAt(jseq, at + 2) = ByteAt(iseq, at + 2)
      BY <2>2, <1>1, <1>6, <1>b
    <2>4. QED
      BY <2>3, <1>5, <1>c, <1>l
  <1>m. QED
    BY <1>3, <1>d, <1>e, <1>f, <1>g, <1>h, <1>i, <1>j, <1>k, <1>l

\* A jump is what the bytes in front of its slot say, but for where it goes.
LEMMA JumpLocal ==
  ASSUME NEW iseq, NEW jseq, NEW pos \in Nat, DecodeAt(iseq, pos).insn.op \in JumpOps,
         Same(iseq, jseq, pos, DecodeAt(iseq, pos).next - 2)
  PROVE  LET d == DecodeAt(iseq, pos)
             e == DecodeAt(jseq, pos)
         IN  /\ e.next = d.next /\ e.insn.op = d.insn.op
             /\ d.insn.op \in CondOps => e.insn.a = d.insn.a
             /\ SizeAt(jseq, pos) = SizeAt(iseq, pos)
  <1> DEFINE ext == ExtAt(iseq, pos)
             op  == OpFound(iseq, pos)
             pl  == OpPlace(iseq, pos)
             one == IF WideFirst(ext) THEN 2 ELSE 1
             at  == pl + 1
             n   == DecodeAt(iseq, pos).next
             x(s) == OperandAt(s, at, WideFirst(ext))
  <1>1. pl \in Nat /\ pl >= pos /\ n \in Nat /\ n - 2 > pl /\ op \in JumpOps
    BY DecodeNext
  <1>2. one \in 1 .. 2
    OBVIOUS
  <1>3. \/ op \in CondOps /\ ShapeFound(op) = "Bs"
        \/ op \notin CondOps /\ ShapeFound(op) = "S"
    BY <1>1, JumpShapes DEF ShapeFound, CondOps
  <1>4. Same(iseq, jseq, pos, pl + 1)
    BY <1>1 DEF Same
  <1>5. /\ ExtAt(jseq, pos) = ext /\ OpPlace(jseq, pos) = pl /\ OpFound(jseq, pos) = op
        /\ SizeAt(jseq, pos) = SizeAt(iseq, pos)
    BY <1>4, HeadLocal
  <1>6. CASE op \in CondOps
    <2>1. \A s \in {iseq, jseq} :
            DecodeAt(s, pos) = Reads(op, x(s), WordAt(s, at + one), 0, at + one + 2)
      <3>1. ASSUME NEW s, ExtAt(s, pos) = ext, OpPlace(s, pos) = pl, OpFound(s, pos) = op
            PROVE  DecodeAt(s, pos) = Reads(op, x(s), WordAt(s, at + one), 0, at + one + 2)
        <4>1. ShapeFound(op) = "Bs"
          BY <1>3, <1>6
        <4>2. QED
          BY <4>1, <3>1, DecodeForm
      <3>2. ExtAt(iseq, pos) = ext /\ OpPlace(iseq, pos) = pl /\ OpFound(iseq, pos) = op
        OBVIOUS
      <3> HIDE DEF ext, op, pl, one, at, x
      <3>3. QED
        BY <3>1, <3>2, <1>5
    <2> DEFINE m == at + one + 2
    <2>2. \A s \in {iseq, jseq} :
            /\ DecodeAt(s, pos).next = m /\ DecodeAt(s, pos).insn.op = op
            /\ DecodeAt(s, pos).insn.a = x(s)
      <3> HIDE DEF op, at, one, x, m
      <3>1. QED
        BY <2>1 DEF Reads, Instr, m
    <2>3. x(jseq) = x(iseq)
      <3>1. n = m
        BY <2>2
      <3>2. at \in Nat /\ at >= pos /\ at + one <= n - 2 /\ n - 2 \in Nat
        BY <1>1, <1>2, <3>1
      <3> HIDE DEF at, n, ext
      <3>3. /\ at + 1 <= n - 2 => ByteAt(jseq, at) = ByteAt(iseq, at)
            /\ at + 2 <= n - 2 => WordAt(jseq, at) = WordAt(iseq, at)
        BY <3>2, OperandLocal DEF n
      <3>4. QED
        BY <3>2, <3>3 DEF OperandAt
    <2> HIDE DEF op, x, m
    <2>4. QED
      BY <2>2, <2>3, <1>5
  <1>7. CASE op \notin CondOps
    <2>1. \A s \in {iseq, jseq} : DecodeAt(s, pos) = Reads(op, WordAt(s, at), 0, 0, at + 2)
      <3>1. ASSUME NEW s, ExtAt(s, pos) = ext, OpPlace(s, pos) = pl, OpFound(s, pos) = op
            PROVE  DecodeAt(s, pos) = Reads(op, WordAt(s, at), 0, 0, at + 2)
        <4>1. ShapeFound(op) = "S"
          BY <1>3, <1>7
        <4>2. QED
          BY <4>1, <3>1, DecodeForm
      <3>2. ExtAt(iseq, pos) = ext /\ OpPlace(iseq, pos) = pl /\ OpFound(iseq, pos) = op
        OBVIOUS
      <3> HIDE DEF ext, op, pl, at
      <3>3. QED
        BY <3>1, <3>2, <1>5
    <2> DEFINE m == at + 2
    <2>2. \A s \in {iseq, jseq} :
            DecodeAt(s, pos).next = m /\ DecodeAt(s, pos).insn.op = op
      <3> HIDE DEF op, at, m
      <3>1. QED
        BY <2>1 DEF Reads, Instr, m
    <2> HIDE DEF op, m
    <2>3. QED
      BY <2>2, <1>5, <1>7
  <1>8. QED
    BY <1>6, <1>7
================================================================================
