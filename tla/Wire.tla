---------------------------------- MODULE Wire ---------------------------------
(* The RITE file of a compiled program: how writer.rs and debug.rs put the      *)
(* records of its ireps together, and how reader.rs reads it back.              *)
EXTENDS Layout
LOCAL INSTANCE SequencesExt

Number(bytes) ==
  LET number[i \in 0 .. Len(bytes)] == IF i = 0 THEN 0 ELSE number[i - 1] * Base + bytes[i]
  IN  number[Len(bytes)]
Signed(v, values) == IF 2 * v >= values THEN v - values ELSE v

\* Section identifiers and versions, four bytes each.
Ident(n) == <<7, 7, 7, n>>
RITE             == Ident(0)
VERSION          == Ident(1)
COMPILER         == Ident(2)
COMPILER_VERSION == Ident(3)
IREP             == Ident(4)
LVAR             == Ident(5)
DBG              == Ident(6)
END              == Ident(7)

Model(root, lvarSyms, debugRaw) == [root |-> root, lvarSyms |-> lvarSyms, debugRaw |-> debugRaw]

--------------------------------------------------------------------------------
(* The debug section (debug.rs).                                                *)

DebugDefined[irep \in Trees] ==
  irep.debug # <<>> /\ \A i \in DOMAIN irep.reps : DebugDefined[irep.reps[i]]
ClearDebug[irep \in Trees] == [irep EXCEPT !.debug = <<>>, !.reps = Of(ClearDebug, @)]

\* The names of the files, the root's first; an absent record has none.  The table has each
\* once.
OwnFilenames(irep) ==
  IF irep.debug = <<>> THEN <<>> ELSE Each(LAMBDA file : file.filename, irep.debug[1].files)
Filenames[irep \in Trees] == OwnFilenames(irep) \o FlattenSeq(Of(Filenames, irep.reps))
Listing(table, name) == IF Contains(table, name) THEN table ELSE Append(table, name)
FileTable(names) ==
  LET table[i \in 0 .. Len(names)] == IF i = 0 THEN <<>> ELSE Listing(table[i - 1], names[i])
  IN  table[Len(names)]

DebugRecord(root, table) ==
  LET record[irep \in Trees] == OwnDebug(irep, table) \o FlattenSeq(Of(record, irep.reps))
  IN  record[root]

DebugBody(root, table) ==
  U16(Len(table)) \o Joined(LAMBDA name : U16(Len(name)) \o name, table)
    \o DebugRecord(root, table)
DebugOf(body)      == DBG \o U32(8 + Len(body)) \o body
DebugSection(root) ==
  IF DebugDefined[root] THEN <<DebugOf(DebugBody(root, FileTable(Filenames[root])))>> ELSE <<>>

--------------------------------------------------------------------------------
(* Writing (writer.rs).                                                         *)

RecordSize[irep \in Trees] == OwnSize(irep) + Total(Of(RecordSize, irep.reps))
\* Faulty variant: the register of self is counted.
LvOwnSizeOfAll(irep)    == 2 * irep.nlocals
LvOwnSize(irep)         == 2 * (irep.nlocals - 1)
LvSize[irep \in Trees] == LvOwnSize(irep) + Total(Of(LvSize, irep.reps))

Record[irep \in Trees] == Own(irep) \o FlattenSeq(Of(Record, irep.reps))
LvOwn(irep) == Joined(LAMBDA slot : U16(IF slot = Null THEN NullMark ELSE slot), irep.lv)
LvRecords[irep \in Trees] == LvOwn(irep) \o FlattenSeq(Of(LvRecords, irep.reps))

DebugBytes(model) ==
  LET built == DebugSection(model.root) IN
    CASE built # <<>> -> built[1]
      [] built = <<>> /\ model.debugRaw # <<>> -> model.debugRaw[1]
      [] OTHER -> <<>>
IrepSize(model) == 12 + RecordSize[model.root]
LvarSize(model) ==
  IF model.lvarSyms = <<>> THEN 0
  ELSE 12 + Total(Each(LAMBDA name : 2 + Len(name), model.lvarSyms[1])) + LvSize[model.root]
BinarySize(model) == 20 + IrepSize(model) + Len(DebugBytes(model)) + LvarSize(model) + 8

LvarSection(model) ==
  IF model.lvarSyms = <<>> THEN <<>>
  ELSE LVAR \o U32(LvarSize(model)) \o U32(Len(model.lvarSyms[1]))
         \o Joined(LAMBDA name : U16(Len(name)) \o name, model.lvarSyms[1])
         \o LvRecords[model.root]

WriteRite(model) ==
  RITE \o VERSION \o U32(BinarySize(model)) \o COMPILER \o COMPILER_VERSION
    \o IREP \o U32(IrepSize(model)) \o VERSION \o Record[model.root]
    \o DebugBytes(model) \o LvarSection(model) \o END \o U32(8)

--------------------------------------------------------------------------------
(* Reading (reader.rs).  A cursor holds what it reads from, how far it is, what *)
(* it has just read, and whether all was well so far: once it was not, nothing  *)
(* more is read.                                                                *)

Cursor(bytes) == [in |-> bytes, pos |-> 0, val |-> <<>>, ok |-> TRUE]
Left(c)       == Len(c.in) - c.pos
Rest(c)       == SubSeq(c.in, c.pos + 1, Len(c.in))
Fail(c)       == [c EXCEPT !.ok = FALSE]
Check(c, condition) == IF c.ok /\ condition THEN c ELSE Fail(c)
With(c, val)  == IF c.ok THEN [c EXCEPT !.val = val] ELSE c

Take(c, n) ==
  IF c.ok /\ n <= Left(c)
  THEN [c EXCEPT !.pos = c.pos + n, !.val = SubSeq(c.in, c.pos + 1, c.pos + n)]
  ELSE Fail(c)
Num(c, n)  == LET taken == Take(c, n) IN With(taken, Number(taken.val))

\* One after the other, each from where the one before it has ended: items[i] reads the
\* i-th, from any position.
Kept(c, got) == IF c.ok THEN With(got, Append(c.val, got.val)) ELSE c
Onward(c, item) == Kept(c, item[c.pos])
InTurn(c, items) ==
  LET after[i \in 0 .. Len(items)] ==
        IF i = 0 THEN With(c, <<>>) ELSE Onward(after[i - 1], items[i])
  IN  IF c.ok THEN after[Len(items)] ELSE c
From(c, Read(_)) == [pos \in 0 .. Len(c.in) |-> Read([c EXCEPT !.pos = pos])]

\* Fields of these widths, as bytes and as numbers; and so many items, with their number
\* in front.
Fields(c, widths) ==
  InTurn(c, [i \in DOMAIN widths |-> From(c, LAMBDA field : Take(field, widths[i]))])
Nums(c, widths) ==
  InTurn(c, [i \in DOMAIN widths |-> From(c, LAMBDA field : Num(field, widths[i]))])
Times(c, n, Read(_)) == InTurn(c, [i \in 1 .. n |-> From(c, Read)])
Listed(c, Read(_))   == LET len == Num(c, 2) IN IF len.ok THEN Times(len, len.val, Read) ELSE len

\* Bytes with their length in front, and a zero behind.
ReadCounted(c) == LET len == Num(c, 2) IN Take(len, len.val)
Closed(c)      == LET nul == Num(c, 1) IN With(Check(nul, nul.val = 0), c.val)

HandlerOf(nums) ==
  With(nums, [kind |-> nums.val[1], begin |-> nums.val[2], end |-> nums.val[3],
              target |-> nums.val[4]])
ReadHandler(c) == HandlerOf(Nums(c, <<1, 4, 4, 4>>))

\* Faulty variant: the byte of base and sign is not counted.
ReadBigIntShort(c) ==
  LET len == Num(c, 1)  body == Take(len, len.val) IN With(body, <<len.val>> \o body.val)
ReadBigInt(c) ==
  LET len == Num(c, 1)  body == Take(len, len.val + 1) IN With(body, <<len.val>> \o body.val)
As(type, got)       == With(got, PoolValue(type, got.val))
Integer(got, values) == With(got, <<Signed(got.val, values)>>)
ReadPoolEntryOf(kind) ==
  CASE kind.val = 0 -> As("Str", Closed(ReadCounted(kind)))
    [] kind.val = 1 -> As("Int32", Integer(Num(kind, 4), Word))
    [] kind.val = 2 -> As("SStr", Closed(ReadCounted(kind)))
    [] kind.val = 3 -> As("Int64", Integer(Num(kind, 8), Word * Word))
    [] kind.val = 5 -> As("Float", Take(kind, 8))
    [] kind.val = 7 -> As("BigInt", ReadBigInt(kind))
    [] OTHER -> Fail(kind)
ReadPoolEntry(c) == LET kind == Num(c, 1) IN IF kind.ok THEN ReadPoolEntryOf(kind) ELSE kind

ReadSymOf(len) ==
  IF len.val = NullMark THEN With(len, <<>>)
  ELSE LET name == Closed(Take(len, len.val)) IN With(name, <<name.val>>)
ReadSym(c) == LET len == Num(c, 2) IN IF len.ok THEN ReadSymOf(len) ELSE len

\* The own record of an irep, in a cursor that may read no more than that.
ReadIseq(c)     == Kept(c, Take(c, c.val[5]))
ReadHandlers(c) == Kept(c, Times(c, c.val[4], ReadHandler))
ReadPool(c)     == Kept(c, Listed(c, ReadPoolEntry))
ReadSyms(c)     == Kept(c, Listed(c, ReadSym))
OwnRecord(c) ==
  With(Check(c, Left(c) = 0),
       [rlen |-> c.val[3],
        irep |-> Irep(c.val[1], c.val[2], c.val[6], c.val[7], c.val[8], c.val[9], <<>>, <<>>, <<>>)])
ReadOwn(bytes) ==
  OwnRecord(ReadSyms(ReadPool(ReadHandlers(ReadIseq(Nums(Cursor(bytes), <<2, 2, 2, 2, 4>>))))))

\* The record that says it has so many bytes, and the records of the ireps nested in it,
\* each as record reads it.
Sized(size) == Take(Check(size, size.val >= 10 /\ size.val <= Left(size) + 4), size.val - 4)
WithReps(reps, irep) == With(reps, [irep EXCEPT !.reps = reps.val])
ReadReps(body, own, record) ==
  IF own.ok THEN WithReps(InTurn(body, [i \in 1 .. own.val.rlen |-> record]), own.val.irep)
  ELSE Fail(body)
ReadBody(body, record) == IF body.ok THEN ReadReps(body, ReadOwn(body.val), record) ELSE body

\* A record inside d others starts after d bytes at least.
ReadRecord(c) ==
  LET record[d \in 0 .. Len(c.in)] ==
        [pos \in 0 .. Len(c.in) |->
           IF d = 0 THEN Fail(c)
           ELSE ReadBody(Sized(Num([c EXCEPT !.pos = pos], 4)), record[d - 1])]
  IN  record[Len(c.in)][c.pos]

\* The names of the locals, one irep after the other.
ReadSlotOf(index, nsyms) ==
  IF index.val = NullMark THEN With(index, Null) ELSE Check(index, index.val < nsyms)
ReadSlot(c, nsyms) == LET index == Num(c, 2) IN IF index.ok THEN ReadSlotOf(index, nsyms) ELSE index
ReadOwnLv(irep, nsyms, c) ==
  Times(Check(c, irep.nlocals # 0), irep.nlocals - 1, LAMBDA slot : ReadSlot(slot, nsyms))
Assigned(irep, own, reps) == With(reps, [irep EXCEPT !.lv = own.val, !.reps = reps.val])
AssignReps(irep, own, assigns) == Assigned(irep, own, InTurn(own, assigns))
AssignLv(root, nsyms, c) ==
  LET assign[irep \in Trees] ==
        From(c, LAMBDA at : AssignReps(irep, ReadOwnLv(irep, nsyms, at), Of(assign, irep.reps)))
  IN  assign[root][c.pos]

\* The irep of a section, or the names of locals with what is behind them.
IrepOf(version, root) ==
  With(Check(root, version = VERSION /\ Left(root) = 0), root.val)
ReadIrepSection(bytes) ==
  LET version == Take(Cursor(bytes), 4) IN
    IrepOf(version.val, ReadRecord(Cursor(Rest(version))))
ReadLvarSection(bytes) ==
  LET count == Num(Cursor(bytes), 4) IN Times(count, count.val, ReadCounted)

\* One section; what those before it were about is in the cursor, which also says whether
\* all was well with this one.
Found(body, ok, found) == With(Check(body, ok), found)
KeepIrep(body, root, found) == Found(body, root.ok, [found EXCEPT !.root = <<root.val>>])
KeepLvar(body, names, found) ==
  Found(body, names.ok, [found EXCEPT !.syms = <<names.val>>, !.records = Rest(names)])
ReadAs(ident, bytes, body, found) ==
  CASE ~body.ok -> Fail(body)
    [] body.ok /\ ident = IREP -> KeepIrep(body, ReadIrepSection(body.val), found)
    [] body.ok /\ ident = LVAR -> KeepLvar(body, ReadLvarSection(body.val), found)
    [] body.ok /\ ident = DBG  -> Found(body, TRUE, [found EXCEPT !.debug = <<bytes>>])
    [] body.ok /\ ident = END  -> Found(body, body.val = <<>>, found)
    [] OTHER -> Fail(body)
ReadAfter(head, start, size, found) ==
  ReadAs(head.val[1], SubSeq(head.in, start + 1, start + size),
         Take(Check(head, size >= 8 /\ start + size <= Len(head.in)), size - 8), found)
ReadSection(c) ==
  LET head == Fields(c, <<4, 4>>) IN
    IF head.ok THEN ReadAfter(head, c.pos, Number(head.val[2]), c.val) ELSE head

\* Sections in any order, each of eight bytes at least.
NextSection(c)  == IF c.ok /\ Left(c) # 0 THEN ReadSection(c) ELSE c
ReadSections(c) ==
  LET after[n \in 0 .. Len(c.in) \div 8] == IF n = 0 THEN c ELSE NextSection(after[n - 1])
  IN  after[Len(c.in) \div 8]

\* The model in a file, absent when the reader refuses the file.
NamedModel(named, found) ==
  IF named.ok /\ Left(named) = 0 THEN <<Model(named.val, found.syms, found.debug)>> ELSE <<>>
ModelOf(found) ==
  CASE found.root = <<>> -> <<>>
    [] found.root # <<>> /\ found.syms = <<>> -> <<Model(found.root[1], <<>>, found.debug)>>
    [] found.root # <<>> /\ found.syms # <<>> ->
         NamedModel(AssignLv(found.root[1], Len(found.syms[1]), Cursor(found.records)), found)
Nothing == [root |-> <<>>, syms |-> <<>>, records |-> <<>>, debug |-> <<>>]
ReadFile(head, size) ==
  IF head.ok /\ head.val[1] = RITE /\ head.val[2] = VERSION /\ Number(head.val[3]) = size
  THEN LET sections == ReadSections(With(head, Nothing)) IN
         IF sections.ok THEN ModelOf(sections.val) ELSE <<>>
  ELSE <<>>
ReadRite(bytes) == ReadFile(Fields(Cursor(bytes), <<4, 4, 4, 8>>), Len(bytes))

\* without_debug.
\* Faulty variant: the section that was read is written again.
StripBuilt(model) == [model EXCEPT !.root = ClearDebug[model.root]]
Strip(model) == [model EXCEPT !.debugRaw = <<>>, !.root = ClearDebug[model.root]]
================================================================================
