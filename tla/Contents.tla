-------------------------------- MODULE Contents -------------------------------
(* What a file of Rite says: the reader's view of it, and the virtual machine's  *)
(* of its code and its line tables.                                             *)
EXTENDS Rite
LOCAL INSTANCE SequencesExt

\* A file of a record: where it starts, its name, and its packed map.
ReadDebugFile(c) ==
  LET head   == Nums(c, <<4, 2, 4, 1>>)
      packed == Take(head, head.val[3])
  IN  With(packed, [start |-> head.val[1], name |-> head.val[2], packed |-> packed.val])

\* The records of a debug section, in the order of the ireps.
RECURSIVE ReadDebugRecords(_)
ReadDebugRecords(c) ==
  LET head == Nums(c, <<4, 2>>)
      all  == Times(head, head.val[2], ReadDebugFile)
  IN  IF Left(c) = 0 THEN <<>>
      ELSE <<With(all, all.val)>> \o ReadDebugRecords(all)
DebugRecords(raw) ==
  Each(LAMBDA c : c.val, ReadDebugRecords(Listed(Cursor(SubSeq(raw, 9, Len(raw))), ReadCounted)))

\* Instructions with what they name, and where each starts.
RECURSIVE Decoded(_, _)
Decoded(irep, pos) ==
  LET kind    == irep.iseq[pos + 1]
      operand == irep.iseq[pos + 2]
      entry   == irep.pool[operand + 1]
      what    == CASE kind = Plain -> <<Plain>>
                   [] kind = Lit   -> <<Lit, [type |-> IF entry.type \in {"Int32", "Int64"}
                                                       THEN "Int" ELSE entry.type,
                                              data |-> entry.data]>>
                   [] kind = Symb  -> <<Symb, irep.syms[operand + 1][1]>>
                   [] kind = Jmp   -> <<Jmp, operand>>
  IN  IF pos >= Len(irep.iseq) THEN <<>>
      ELSE <<[what |-> what, pos |-> pos]>> \o Decoded(irep, pos + Len(what))

RECURSIVE Preorder(_)
Preorder(irep) == <<irep>> \o Joined(Preorder, irep.reps)

\* What one irep says, without its children.
Says(irep, names, lines(_)) ==
  [locals   |-> Each(LAMBDA slot : IF slot = Null THEN <<>> ELSE names[slot + 1], irep.lv),
   code     |-> [i \in DOMAIN Decoded(irep, 0) |->
                   LET insn == Decoded(irep, 0)[i] IN
                     [what |-> insn.what, line |-> lines(insn.pos)]],
   handlers |-> irep.handlers,
   reps     |-> Len(irep.reps)]
Asked(body, lined) ==
  [locals   |-> body.locals,
   code     |-> Each(LAMBDA insn : [what |-> insn.what, line |-> IF lined THEN insn.line ELSE 0],
                     body.code),
   handlers |-> body.handlers,
   reps     |-> Len(body.reps)]

--------------------------------------------------------------------------------
(* Properties.                                                                  *)

\* The file says what the handlers asked for: every operand still names the literal or
\* the symbol it was emitted for, every local its name, every byte the line that was active
\* when it was emitted, whatever was taken back, patched, shared or refused in between
\* (codegen.rs emit_b, new_lit_int, new_sym, finish; debug.rs; writer.rs; reader.rs).
FileSaysWhatWasAsked ==
  Written =>
    LET model   == ReadBack[1]
        ireps   == Preorder(model.root)
        bodies  == Preorder(wanted[1])
        lined   == ~file[1].stripped
        records == IF lined THEN DebugRecords(model.debugRaw[1]) ELSE <<>>
        line(i, pos) == IF ~lined \/ records[i] = <<>> THEN 0 ELSE LineAt(records[i][1].packed, pos)
    IN  /\ ReadBack # <<>>
        /\ Len(ireps) = Len(bodies)
        /\ \A i \in DOMAIN ireps :
             LET lines(pos) == line(i, pos) IN
               Says(ireps[i], IF anyLv THEN model.lvarSyms[1] ELSE <<>>, lines)
                 = Asked(bodies[i], lined)
================================================================================
