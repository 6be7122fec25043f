--------------------------------- MODULE Bytes ---------------------------------
(* The code buffer of a scope as bytes: operands and their EXT prefixes, the    *)
(* decoder (opcode.rs), and the emitters and jumps of codegen.rs that encode.   *)
(* Every operator takes the buffer and returns the buffer after the method of   *)
(* the same name.                                                               *)
(*                                                                              *)
(* A byte is one of Base values, so that a small Base brings every boundary     *)
(* (operands that need a prefix, offsets that are too far, integers that need   *)
(* a longer load) within a few bytes of each other.  A byte that is an opcode   *)
(* is <<"op", name>>, any other <<"byte", digit>>: decoding that is out of step *)
(* finds a digit where an opcode should be, or the reverse.                     *)
EXTENDS Integers, Sequences

CONSTANTS
  Base,       \* values of a byte (256)
  Inline,     \* integers from 0 whose load has them in the opcode (8)
  MinLong,    \* the least integer (i64::MIN)
  PoolMax     \* literals a scope may hold (0xffff)

ASSUME BytesAssumption ==
  /\ Base \in Nat \ {0, 1} /\ Inline \in 1 .. 8 /\ Inline < Base
  /\ MinLong \in Int /\ MinLong < -((Base^4) \div 2)
  /\ PoolMax \in Nat /\ PoolMax <= Base * Base

Word   == Base * Base
Signed(w, size) == IF 2 * w >= size THEN w - size ELSE w
MaxShort == Word \div 2 - 1
MinShort == -(Word \div 2)
MaxInt32 == (Word * Word) \div 2 - 1
MinInt32 == -((Word * Word) \div 2)

JMPLINK_START == -1   \* u32::MAX, no position

--------------------------------------------------------------------------------
(* Instructions.                                                                *)

JumpOps == {"JMP", "JMPIF", "JMPNOT", "JMPNIL", "JMPUW"}

InlineLoads ==
  <<"LOADI_0", "LOADI_1", "LOADI_2", "LOADI_3", "LOADI_4", "LOADI_5", "LOADI_6", "LOADI_7">>
IntLoads == {"LOADI__1", "LOADI8", "LOADINEG", "LOADI16", "LOADI32", "LOADL"}
              \cup {InlineLoads[i] : i \in DOMAIN InlineLoads}

\* The operands of an operation: none (Z), bytes that may be widened (B, Bb, Bbb),
\* a byte and a word or two (Bs, Bss), a word (S), three bytes (W).
Shapes ==
  [Z   |-> {"NOP", "CALL", "KEYEND", "RETSELF", "RETNIL", "RETTRUE", "RETFALSE", "EXT1", "EXT2",
            "EXT3", "STOP"},
   B   |-> {"LOADI__1", "LOADNIL", "LOADSELF", "LOADTRUE", "LOADFALSE", "GETIDX", "SETIDX", "EXCEPT",
            "RAISEIF", "MATCHERR", "RETURN", "RETURN_BLK", "BREAK", "ADD", "SUB", "MUL", "DIV", "EQ",
            "LT", "LE", "GT", "GE", "ARYCAT", "ARYSPLAT", "INTERN", "STRCAT", "HASHCAT", "RANGE_INC",
            "RANGE_EXC", "OCLASS", "UNDEF", "SCLASS", "TCLASS", "ERR"}
             \cup {InlineLoads[i] : i \in DOMAIN InlineLoads},
   Bb  |-> {"MOVE", "LOADL", "LOADI8", "LOADINEG", "LOADSYM", "GETGV", "SETGV", "GETSV", "SETSV",
            "GETIV", "SETIV", "GETCV", "SETCV", "GETCONST", "SETCONST", "GETMCNST", "SETMCNST",
            "GETIDX0", "RESCUE", "SSEND0", "SEND0", "BLKCALL", "SUPER", "KEY_P", "KARG", "ADDI",
            "SUBI", "ARRAY", "ARYPUSH", "SYMBOL", "STRING", "HASH", "HASHADD", "LAMBDA", "BLOCK",
            "METHOD", "CLASS", "MODULE", "EXEC", "DEF", "ALIAS"},
   Bbb |-> {"GETUPVAR", "SETUPVAR", "SSEND", "SSENDB", "SEND", "SENDB", "ADDILV", "SUBILV",
            "ARRAY2", "AREF", "ASET", "APOST", "TDEF", "SDEF", "DEBUG"},
   Bs  |-> {"LOADI16", "JMPIF", "JMPNOT", "JMPNIL", "ARGARY", "BLKPUSH"},
   Bss |-> {"LOADI32"},
   S   |-> {"JMP", "JMPUW"},
   W   |-> {"ENTER"}]

Operations == UNION {Shapes[shape] : shape \in DOMAIN Shapes}
Shape == [op \in Operations |-> CHOOSE shape \in DOMAIN Shapes : op \in Shapes[shape]]

Instr(op, a, b, c) == [op |-> op, a |-> a, b |-> b, c |-> c]
Nop == Instr("NOP", 0, 0, 0)

--------------------------------------------------------------------------------
(* The buffer.  The code only writes at pc or before it, and reads before it, so *)
(* what instructions taken back have left beyond pc is dropped here.            *)

NewBuffer == [iseq |-> <<>>, pc |-> 0, lastpc |-> 0, lastlabel |-> 0, pool |-> <<>>]

Op(op)   == <<"op", op>>
Digit(d) == <<"byte", d % Base>>
OneByte(v)  == <<Digit(v)>>
Halfword(v) == <<Digit(v \div Base), Digit(v)>>

\* A byte of the buffer; the program clears what it has not written yet.
Cell(iseq, pos) == IF pos < Len(iseq) THEN iseq[pos + 1] ELSE Digit(0)
ByteAt(iseq, pos) == IF Cell(iseq, pos)[1] = "byte" THEN Cell(iseq, pos)[2] ELSE Base
WordAt(iseq, pos) == ByteAt(iseq, pos) * Base + ByteAt(iseq, pos + 1)
OpAt(iseq, pos) ==
  LET cell == Cell(iseq, pos) IN
    CASE cell[1] = "op" -> cell[2] [] cell = Digit(0) -> "NOP" [] OTHER -> "garbage"

\* emit_b and poke_b.
Poke(b, pos, cells) ==
  [b EXCEPT !.iseq = SubSeq(b.iseq, 1, pos) \o cells
                       \o SubSeq(b.iseq, pos + Len(cells) + 1, Len(b.iseq))]

\* gen_b and gen_s.
Gen(b, cells) == [Poke(b, b.pc, cells) EXCEPT !.pc = b.pc + Len(cells)]
Begin(b)      == [b EXCEPT !.lastpc = b.pc]

\* genop_0 .. genop_w.
Genop0(b, op) == Gen(Begin(b), <<Op(op)>>)
Genop1(b, op, x) ==
  Gen(Begin(b), IF x >= Base THEN <<Op("EXT1"), Op(op)>> \o Halfword(x) ELSE <<Op(op)>> \o OneByte(x))
Genop2(b, op, x, y) ==
  LET prefix == CASE x >= Base /\ y >= Base -> <<Op("EXT3")>>
                  [] x < Base /\ y >= Base  -> <<Op("EXT2")>>
                  [] x >= Base /\ y < Base  -> <<Op("EXT1")>>
                  [] OTHER                  -> <<>>
  IN  Gen(Begin(b), prefix \o <<Op(op)>>
                      \o (IF x >= Base THEN Halfword(x) ELSE OneByte(x))
                      \o (IF y >= Base THEN Halfword(y) ELSE OneByte(y)))
Genop3(b, op, x, y, z)  == Gen(Genop2(b, op, x, y), OneByte(z))
Genop2S(b, op, x, w)    == Gen(Genop1(b, op, x), Halfword(w))
Genop2SS(b, op, x, v)   == Gen(Genop1(b, op, x), Halfword(v \div Word) \o Halfword(v))
GenopW(b, op, v) ==
  Gen(Begin(b), <<Op(op)>> \o OneByte(v \div Word) \o OneByte(v \div Base) \o OneByte(v))

\* An instruction that does not jump, by the emitter its handlers use for it.
Encode(b, i) ==
  CASE Shape[i.op] = "Z"   -> Genop0(b, i.op)
    [] Shape[i.op] = "B"   -> Genop1(b, i.op, i.a)
    [] Shape[i.op] = "Bb"  -> Genop2(b, i.op, i.a, i.b)
    [] Shape[i.op] = "Bbb" -> Genop3(b, i.op, i.a, i.b, i.c)
    [] Shape[i.op] = "Bs"  -> Genop2S(b, i.op, i.a, i.b)
    [] Shape[i.op] = "W"   -> GenopW(b, i.op, i.a)

--------------------------------------------------------------------------------
(* Decoding.                                                                    *)

ExtOf(op) == CASE op = "EXT1" -> 1 [] op = "EXT2" -> 2 [] op = "EXT3" -> 3 [] OTHER -> 0

WideFirst(ext)  == ext \in {1, 3}
WideSecond(ext) == ext \in {2, 3}

\* fetch and decode_at: an instruction and where the next one starts.
DecodeAt(iseq, pos) ==
  LET ext    == ExtOf(OpAt(iseq, pos))
      opAt   == pos + IF ext = 0 THEN 0 ELSE 1
      op     == OpAt(iseq, opAt)
      shape  == IF op \in Operations THEN Shape[op] ELSE "Z"
      at     == opAt + 1
      one    == IF WideFirst(ext) THEN 2 ELSE 1
      two    == IF WideSecond(ext) THEN 2 ELSE 1
      x      == IF WideFirst(ext) THEN WordAt(iseq, at) ELSE ByteAt(iseq, at)
      y      == IF WideSecond(ext) THEN WordAt(iseq, at + one) ELSE ByteAt(iseq, at + one)
      decoded(next, a, b, c) == [insn |-> Instr(op, a, b, c), next |-> next]
  IN  CASE shape = "Z"   -> decoded(at, 0, 0, 0)
        [] shape = "B" /\ ext # 3 -> decoded(at + one, x, 0, 0)
        [] shape = "B" /\ ext = 3 -> decoded(at + 1, ByteAt(iseq, at), 0, 0)
        [] shape = "Bb"  -> decoded(at + one + two, x, y, 0)
        [] shape = "Bbb" -> decoded(at + one + two + 1, x, y, ByteAt(iseq, at + one + two))
        [] shape = "Bs"  -> decoded(at + one + 2, x, WordAt(iseq, at + one), 0)
        [] shape = "Bss" -> decoded(at + one + 4, x, WordAt(iseq, at + one),
                                    WordAt(iseq, at + one + 2))
        [] shape = "S"   -> decoded(at + 2, WordAt(iseq, at), 0, 0)
        [] shape = "W"   -> decoded(at + 3, WordAt(iseq, at) * Base + ByteAt(iseq, at + 2), 0, 0)

\* insn_size: the bytes of an instruction without its prefix.
InsnSize(op, ext) ==
  LET shape == IF op \in Operations THEN Shape[op] ELSE "Z"
      wide  == IF ext \in {1, 3} THEN 1 ELSE 0
  IN  CASE shape = "Z" -> 1 [] shape = "S" -> 3 [] shape = "W" -> 4
        [] shape = "B"   -> 2 + wide
        [] shape = "Bb"  -> 3 + IF ext = 3 THEN 2 ELSE IF ext = 0 THEN 0 ELSE 1
        [] shape = "Bbb" -> 4 + IF ext = 3 THEN 2 ELSE IF ext = 0 THEN 0 ELSE 1
        [] shape = "Bs"  -> 4 + wide
        [] shape = "Bss" -> 6 + wide

\* Faulty variant: the size of an instruction that has a prefix does not count it.
PrevPcUnprefixed(b, pc) ==
  LET size(pos) == LET ext == ExtOf(OpAt(b.iseq, pos)) IN
                     InsnSize(OpAt(b.iseq, IF ext = 0 THEN pos ELSE pos + 1), ext)
      from[pos \in Nat] == IF pos + size(pos) >= pc THEN pos ELSE from[pos + size(pos)]
  IN  IF pc = 0 THEN 0 ELSE from[0]

\* The bytes prev_pc steps over at pos.
SizeAt(iseq, pos) ==
  LET ext == ExtOf(OpAt(iseq, pos)) IN
    IF ext = 0 THEN InsnSize(OpAt(iseq, pos), 0) ELSE InsnSize(OpAt(iseq, pos + 1), ext) + 1

\* prev_pc: the last instruction that starts before pc.
PrevPc(b, pc) ==
  LET from[pos \in Nat] ==
        IF pos + SizeAt(b.iseq, pos) >= pc THEN pos ELSE from[pos + SizeAt(b.iseq, pos)]
  IN  IF pc = 0 THEN 0 ELSE from[0]

LastInsn(b)   == IF b.pc = 0 THEN Nop ELSE DecodeAt(b.iseq, b.lastpc).insn
\* Faulty variant: a label is no barrier.
NoPeepholeAtStart(b) == b.pc = 0 \/ b.pc = b.lastpc
NoPeephole(b) == b.lastlabel = b.pc \/ b.pc = 0 \/ b.pc = b.lastpc
Rewind(b, pos) == [b EXCEPT !.pc = pos, !.iseq = SubSeq(@, 1, pos)]

--------------------------------------------------------------------------------
(* Integers.                                                                    *)

\* new_lit_int: the place of an integer in the pool, which may be full.
Interned(pool, v) == \E i \in DOMAIN pool : pool[i] = v
PoolFull(b, v)    == ~Interned(b.pool, v) /\ Len(b.pool) >= PoolMax
Intern(b, v)      == IF Interned(b.pool, v) THEN b ELSE [b EXCEPT !.pool = Append(@, v)]
PoolIndex(pool, v) == (CHOOSE i \in DOMAIN pool : pool[i] = v) - 1

Long(v) == v < MinInt32 \/ v > MaxInt32

\* gen_int: the shortest load.
GenInt(b, dst, v) ==
  CASE v = -1                        -> Genop1(b, "LOADI__1", dst)
    [] v < -1 /\ v > -Base           -> Genop2(b, "LOADINEG", dst, -v)
    [] v >= 0 /\ v < Inline          -> Genop1(b, InlineLoads[v + 1], dst)
    [] v >= Inline /\ v < Base       -> Genop2(b, "LOADI8", dst, v)
    [] v <= -Base /\ v >= MinShort   -> Genop2S(b, "LOADI16", dst, v)
    [] v >= Base /\ v <= MaxShort    -> Genop2S(b, "LOADI16", dst, v)
    [] v < MinShort /\ v >= MinInt32 -> Genop2SS(b, "LOADI32", dst, v)
    [] v > MaxShort /\ v <= MaxInt32 -> Genop2SS(b, "LOADI32", dst, v)
    [] OTHER -> Genop2(Intern(b, v), "LOADL", dst, PoolIndex(Intern(b, v).pool, v))

\* int_operand: what a load of an integer loads.
IsIntOperand(insn) == insn.op \in IntLoads
IntOperand(b, insn) ==
  CASE insn.op = "LOADI__1" -> -1
    [] insn.op = "LOADINEG" -> -insn.b
    [] insn.op \in {"LOADI8", "LOADI16"} -> Signed(insn.b, Word)
    [] insn.op = "LOADI32"  -> Signed(insn.b * Word + insn.c, Word * Word)
    [] insn.op = "LOADL"    -> b.pool[insn.b + 1]
    [] OTHER -> (CHOOSE i \in DOMAIN InlineLoads : InlineLoads[i] = insn.op) - 1

\* gen_uniop: plus and minus take back the load before them, but not of MinLong.
\* Faulty variant: the least integer is negated, too, and wraps.
UniopFoldsAll(b, minus) == ~NoPeephole(b) /\ IsIntOperand(LastInsn(b))
UniopFolds(b, minus) ==
  /\ ~NoPeephole(b) /\ IsIntOperand(LastInsn(b))
  /\ ~(minus /\ IntOperand(b, LastInsn(b)) = MinLong)
Negated(v) == IF v = MinLong THEN v ELSE -v
UniopValue(b, minus) ==
  LET v == IntOperand(b, LastInsn(b)) IN IF minus THEN Negated(v) ELSE v
GenUniop(b, minus, dst) ==
  IF UniopFolds(b, minus)
  THEN GenInt(Rewind(b, b.lastpc), dst, UniopValue(b, minus)) ELSE b

--------------------------------------------------------------------------------
(* Jumps.                                                                       *)

\* gen_jmpdst: the offset of a target, or of a link; that of no link is the
\* offset of address 0.
JmpOffset(pc, dest) == (IF dest = JMPLINK_START THEN 0 ELSE dest) - (pc + 2)
JumpTooFar(pc, dest) == JmpOffset(pc, dest) > MaxShort \/ JmpOffset(pc, dest) < MinShort
GenJmpdst(b, dest) == Gen(b, Halfword(JmpOffset(b.pc, dest)))

Genjmp(b, op, dest) == GenJmpdst(Genop0(b, op), dest)

\* The link of the jump that ends at pc.
Link(b) == b.pc - 2

\* genjmp2: the load that decides the jump is taken back (see Scope).  A wide
\* jump starts at its prefix, but lastpc is behind it.
ShortIntLoads == {"LOADI__1", "LOADI8", "LOADINEG"} \cup {InlineLoads[i] : i \in DOMAIN InlineLoads}
CondMoves(b, a, nlocals) == LastInsn(b).op = "MOVE" /\ LastInsn(b).a = a /\ a > nlocals
CondDecided(b, a, nlocals) ==
  /\ LastInsn(b).op \in {"LOADNIL", "LOADFALSE", "LOADTRUE"} \cup ShortIntLoads
  /\ LastInsn(b).a = a \/ LastInsn(b).a > nlocals
CondAlways(b, op) ==
  \/ LastInsn(b).op = "LOADNIL" /\ op \in {"JMPNOT", "JMPNIL"}
  \/ LastInsn(b).op = "LOADFALSE" /\ op = "JMPNOT"
  \/ LastInsn(b).op \in {"LOADTRUE"} \cup ShortIntLoads /\ op = "JMPIF"

PlainCond(b, op, a, dest) ==
  LET prefixed == IF a >= Base THEN Gen(b, <<Op("EXT1")>>) ELSE b IN
    GenJmpdst(Gen(Genop0(prefixed, op), IF a >= Base THEN Halfword(a) ELSE OneByte(a)), dest)

\* dispatch: patch the jump of a link; the next link of its chain, or 0.
DispatchTooFar(b, link) == b.pc - (link + 2) > MaxShort
\* Faulty variant: the next link counts from the slot.
NextLinkFromSlot(b, link) ==
  LET linked == Signed(WordAt(b.iseq, link), Word) IN
    IF linked = 0 THEN 0 ELSE link + linked
NextLink(b, link) ==
  LET linked == Signed(WordAt(b.iseq, link), Word) IN
    IF linked = 0 THEN 0 ELSE link + 2 + linked
\* Faulty variant: the offset counts from the slot.
DispatchFromSlot(b, link) ==
  [Poke(b, link, Halfword(b.pc - link)) EXCEPT !.lastlabel = b.pc]
Dispatch(b, link) ==
  [Poke(b, link, Halfword(b.pc - (link + 2))) EXCEPT !.lastlabel = b.pc]
================================================================================
