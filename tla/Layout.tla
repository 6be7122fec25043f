---------------------------------- MODULE Layout -------------------------------
(* What an irep is, and how writer.rs lays one out in a RITE file: the literals, *)
(* the symbols and the record without those of the nested ireps, with its size,  *)
(* which is counted before it is written.                                        *)
(*                                                                              *)
(* A byte is one of Base values, and the four sizes of number (u8, u16, u32 and *)
(* i64) keep their lengths in bytes.  An optional value is an empty sequence or *)
(* holds the value.                                                             *)
EXTENDS Lines
LOCAL INSTANCE SequencesExt

CONSTANT Depth   \* ireps may be nested so deep: a bound of the model

ASSUME LayoutAssumption == Depth \in Nat

Word     == Halfword * Halfword   \* values of a u32
Longword == Word * Word           \* values of an i64

Null == -1                   \* a local or a symbol that has no name
NullMark == Halfword - 1     \* how it is written (0xffff)

U8(v)  == <<v % Base>>
U16(v) == U8(v \div Base) \o U8(v)
U32(v) == U16(v \div Halfword) \o U16(v)
U64(v) == U32(v \div Word) \o U32(v)

\* The sum of the first numbers of a sequence, and of all of them.
Sums(numbers) ==
  LET sum[i \in 0 .. Len(numbers)] == IF i = 0 THEN 0 ELSE sum[i - 1] + numbers[i]
  IN  sum
Total(numbers) == Sums(numbers)[Len(numbers)]
Each(F(_), seq) == [i \in DOMAIN seq |-> F(seq[i])]
Joined(F(_), seq) == FlattenSeq(Each(F, seq))
Of(f, seq)        == [i \in DOMAIN seq |-> f[seq[i]]]

\* An irep: debug is absent, or the files of its code with their lines.
Irep(nlocals, nregs, iseq, handlers, pool, syms, reps, lv, debug) ==
  [nlocals |-> nlocals, nregs |-> nregs, iseq |-> iseq, handlers |-> handlers, pool |-> pool,
   syms |-> syms, reps |-> reps, lv |-> lv, debug |-> debug]
DebugFile(start, filename, lines) == [start |-> start, filename |-> filename, lines |-> lines]
PoolValue(type, data) == [type |-> type, data |-> data]

FitsInt32(v) == v >= -(Word \div 2) /\ v < Word \div 2

\* Values of the pool, catch handlers, and ireps less than so deep inside one another.  A
\* big integer has its number of digits in front, and a byte of base and sign behind that.
Optional(S) == {s \in Seq(S) : Len(s) <= 1}
Int32s  == -(Word \div 2) .. Word \div 2 - 1
Int64s  == -(Longword \div 2) .. Longword \div 2 - 1
BigInts == {raw \in Seq(Nat) : Len(raw) >= 2 /\ raw[1] = Len(raw) - 2 /\ raw[1] < Base}
Valued(types, values) == [type : types, data : values]
Strings == Valued({"Float"}, [1 .. 8 -> Nat]) \cup Valued({"BigInt"}, BigInts)
             \cup Valued({"Str", "SStr"}, Seq(Nat))
PoolValues ==
  Valued({"Int32"}, [1 .. 1 -> Int32s]) \cup Valued({"Int64"}, [1 .. 1 -> Int64s]) \cup Strings
Handlers ==
  [kind : 0 .. Base - 1, begin : 0 .. Word - 1, end : 0 .. Word - 1, target : 0 .. Word - 1]
DebugFiles == [start : Nat, filename : Seq(Nat), lines : Seq(0 .. Halfword - 1)]
DebugInfo  == [files : Seq(DebugFiles)]
Tree[d \in 0 .. Depth] ==
  IF d = 0 THEN {}
  ELSE [nlocals : Nat, nregs : Nat, iseq : Seq(Nat), handlers : Seq(Handlers), pool : Seq(PoolValues),
        syms : Seq(Optional(Seq(Nat))), reps : Seq(Tree[d - 1]), lv : Seq(Nat \cup {Null}),
        debug : Optional(DebugInfo)]
Trees == Tree[Depth]

\* An irep with all that are nested in it.
Parts[irep \in Trees] == {irep} \cup UNION {Parts[irep.reps[i]] : i \in DOMAIN irep.reps}

--------------------------------------------------------------------------------
(* The record (writer.rs).                                                      *)

PoolEntry(entry) ==
  CASE entry.type = "Int32" -> U8(1) \o U32(entry.data[1])
    [] entry.type = "Int64" /\ FitsInt32(entry.data[1])  -> U8(1) \o U32(entry.data[1])
    [] entry.type = "Int64" /\ ~FitsInt32(entry.data[1]) -> U8(3) \o U64(entry.data[1])
    [] entry.type = "Float"  -> U8(5) \o entry.data
    [] entry.type = "BigInt" -> U8(7) \o entry.data
    [] entry.type = "Str"    -> U8(0) \o U16(Len(entry.data)) \o entry.data \o U8(0)
    [] entry.type = "SStr"   -> U8(2) \o U16(Len(entry.data)) \o entry.data \o U8(0)
PoolEntrySize(entry) ==
  CASE entry.type = "Int32" \/ (entry.type = "Int64" /\ FitsInt32(entry.data[1])) -> 5
    [] entry.type = "Float" \/ (entry.type = "Int64" /\ ~FitsInt32(entry.data[1])) -> 9
    [] entry.type = "BigInt"         -> 1 + Len(entry.data)
    [] entry.type \in {"Str", "SStr"} -> 4 + Len(entry.data)

Sym(name)     == IF name = <<>> THEN U16(NullMark) ELSE U16(Len(name[1])) \o name[1] \o U8(0)
SymSize(name) == IF name = <<>> THEN 2 ELSE 3 + Len(name[1])
Handler(h) == U8(h.kind) \o U32(h.begin) \o U32(h.end) \o U32(h.target)

OwnSize(irep) ==
  10 + (6 + Len(irep.iseq) + 13 * Len(irep.handlers))
     + (2 + Total(Each(PoolEntrySize, irep.pool))) + (2 + Total(Each(SymSize, irep.syms)))

\* The record of an irep without those of its children.
Own(irep) ==
  U32(OwnSize(irep)) \o U16(irep.nlocals) \o U16(irep.nregs) \o U16(Len(irep.reps))
    \o U16(Len(irep.handlers)) \o U32(Len(irep.iseq)) \o irep.iseq \o Joined(Handler, irep.handlers)
    \o U16(Len(irep.pool)) \o Joined(PoolEntry, irep.pool)
    \o U16(Len(irep.syms)) \o Joined(Sym, irep.syms)

--------------------------------------------------------------------------------
(* The debug record (debug.rs), with a table of the names of files.             *)

\* The packed maps of the files of an irep.
Maps(irep) == Each(LAMBDA file : PackLineMap(file.start, file.lines), irep.debug[1].files)

FileIndex(table, filename) == SelectInSeq(table, LAMBDA name : name = filename) - 1
DebugEntry(file, packed, table) ==
  U32(file.start) \o U16(FileIndex(table, file.filename)) \o U32(Len(packed)) \o U8(2) \o packed

DebugSize(maps) == 6 + Total(Each(LAMBDA packed : 11 + Len(packed), maps))
OwnDebug(irep, table) ==
  U32(DebugSize(Maps(irep))) \o U16(Len(Maps(irep)))
    \o FlattenSeq([i \in DOMAIN Maps(irep) |->
                     DebugEntry(irep.debug[1].files[i], Maps(irep)[i], table)])
================================================================================
