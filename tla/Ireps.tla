---------------------------------- MODULE Ireps --------------------------------
(* From the scopes of the generator to ireps: the bytes a scope has emitted     *)
(* with the line of each, its literals and symbols, its catch handlers and the  *)
(* names of its locals become an irep when the scope is finished (codegen.rs).  *)
(*                                                                              *)
(* An instruction is one byte that says which kind it is and, unless it is      *)
(* plain, one byte of operand.                                                  *)
EXTENDS Layout
LOCAL INSTANCE SequencesExt

CONSTANTS
  PoolMax,      \* literals a scope may hold (0xffff)
  SymCap,       \* symbols there is room for at first (256)
  SymMax,       \* that room is doubled, but not past this (0xffff)
  Clients       \* what handlers ask for, and how much of it

\* A name is a sequence of bytes; that of a parameter without one is empty.  An integer
\* becomes an Int64 of the pool.
Names        == Seq(0 .. Base - 1)
LiteralTypes == Valued({"Int"}, [1 .. 1 -> Int64s]) \cup Strings

\* Lines are counted from 1.
ASSUME IrepsAssumption ==
  /\ PoolMax \in 1 .. Base - 1 /\ SymMax \in 1 .. Base - 1 /\ SymCap \in 1 .. SymMax
  /\ \A c \in Clients :
       /\ c.depth \in 1 .. Depth /\ c.lines \subseteq 1 .. Halfword - 1
       /\ c.locals \in Seq(Names) /\ \A locals \in c.scopes : locals \in Seq(Names)
       /\ c.literals \subseteq LiteralTypes /\ c.symbols \subseteq Names
       /\ c.handlers \subseteq Handlers /\ c.temps \subseteq Nat

VARIABLES
  client,       \* the client
  stack,        \* open scopes, the innermost last
  lvarNames,    \* names of locals, in the order they were first declared
  anyLv,        \* some scope has locals
  root,         \* the irep of the program, when it is finished
  wanted        \* what the handlers have asked for, when it is finished

generator == <<client, stack, lvarNames, anyLv, root, wanted>>

Filename == <<1>>

\* What a scope was asked for: its locals, instructions with a line each, catch
\* handlers and nested bodies.
Body(locals) == [locals |-> locals, code |-> <<>>, handlers |-> <<>>, reps |-> <<>>]

TopScope == [line |-> 0]

\* child: the names are registered before anything else.
Scope(parent, locals) ==
  [iseq |-> <<>>, lines |-> <<>>, pc |-> 0, lastpc |-> 0, line |-> parent.line,
   pool |-> <<>>, syms |-> <<>>, cap |-> SymCap, reps |-> <<>>, handlers |-> <<>>,
   lv |-> locals, asked |-> Body(locals)]
Registered(names, name) ==
  IF name = <<>> \/ Contains(names, name) THEN names ELSE Append(names, name)
Register(names, locals) ==
  LET known[i \in 0 .. Len(locals)] == IF i = 0 THEN names ELSE Registered(known[i - 1], locals[i])
  IN  known[Len(locals)]

Inner == stack[Len(stack)]
Outer == SubSeq(stack, 1, Len(stack) - 1)

Opened ==
  /\ client \in Clients
  /\ stack = <<Scope(TopScope, client.locals)>>
  /\ lvarNames = Register(<<>>, client.locals) /\ anyLv = (client.locals # <<>>)
  /\ root = <<>> /\ wanted = <<>>

--------------------------------------------------------------------------------
(* Bytes and their lines.                                                       *)

\* poke_b: the buffer grows to twice its size, and the lines with it.
Grown(s, pos) ==
  LET size == IF pos < Len(s.iseq) THEN Len(s.iseq)
              ELSE LET double == 2 * (IF s.iseq = <<>> THEN 1 ELSE Len(s.iseq)) IN
                     IF double > pos + 1 THEN double ELSE pos + 1
      zeros(seq) == seq \o [i \in 1 .. size - Len(seq) |-> 0]
  IN  [s EXCEPT !.iseq = zeros(@), !.lines = zeros(@)]
PokeB(s, pos, byte) == [Grown(s, pos) EXCEPT !.iseq[pos + 1] = byte]

\* emit_b: without a line, that of the byte before.
EmitB(s, byte) ==
  LET poked == PokeB(s, s.pc, byte) IN
    [poked EXCEPT !.lines[s.pc + 1] =
                    IF s.line > 0 \/ s.pc = 0 THEN s.line ELSE poked.lines[s.pc],
                  !.pc = s.pc + 1]

Emitted(s, seq) == SubSeq(seq, 1, s.pc)

--------------------------------------------------------------------------------
(* Literals and symbols.                                                        *)

Same(entry, literal) ==
  IF literal.type = "Int" THEN entry.type \in {"Int32", "Int64"} /\ entry.data = literal.data
  ELSE entry.type = literal.type /\ entry.data = literal.data

LitPlace(s, literal) == SelectInSeq(s.pool, LAMBDA entry : Same(entry, literal))
TooManyLiterals(s, literal) == LitPlace(s, literal) = 0 /\ Len(s.pool) = PoolMax
NewLit(s, literal) ==
  IF LitPlace(s, literal) # 0 THEN s
  ELSE [s EXCEPT !.pool = Append(@, PoolValue(IF literal.type = "Int" THEN "Int64" ELSE literal.type,
                                              literal.data))]

SymPlace(s, name) == SelectInSeq(s.syms, LAMBDA known : known = name)
SymsFull(s)       == Len(s.syms) >= s.cap
TooManySymbols(s, name) == SymPlace(s, name) = 0 /\ SymsFull(s) /\ 2 * s.cap > SymMax
NewSym(s, name) ==
  IF SymPlace(s, name) # 0 THEN s
  ELSE [s EXCEPT !.syms = Append(@, name), !.cap = IF SymsFull(s) THEN 2 * @ ELSE @]

--------------------------------------------------------------------------------
(* What handlers do.                                                            *)

Plain == 0
Lit   == 1
Symb  == 2
Jmp   == 3
HasRoom == stack # <<>> /\ Len(Inner.asked.code) < client.insns

Does(t) ==
  /\ stack' = Append(Outer, t)
  /\ UNCHANGED <<client, lvarNames, anyLv, root, wanted>>

\* codegen: the line of a node, which holds until the next node.
Visit(line) == stack # <<>> /\ Inner.line # line /\ Does([Inner EXCEPT !.line = line])

\* One instruction, in s, without and with an operand; what it means is kept beside it,
\* with its line.
Ask(s, what) == [s EXCEPT !.asked.code = Append(@, [what |-> what, line |-> s.line])]
Insn0(s, kind, what) == Ask(EmitB([s EXCEPT !.lastpc = s.pc], kind), what)
\* Faulty variant: the operand marks its place as well.
Insn1Marked(s, kind, operand, what) ==
  LET head == EmitB([s EXCEPT !.lastpc = s.pc], kind)
  IN  Ask(EmitB([head EXCEPT !.lastpc = head.pc], operand), what)
Insn1(s, kind, operand, what) ==
  Ask(EmitB(EmitB([s EXCEPT !.lastpc = s.pc], kind), operand), what)

EmitPlain == HasRoom /\ Does(Insn0(Inner, Plain, <<Plain>>))

EmitLit(literal) ==
  /\ HasRoom /\ ~TooManyLiterals(Inner, literal)
  /\ LET s == NewLit(Inner, literal) IN
       Does(Insn1(s, Lit, LitPlace(s, literal) - 1, <<Lit, literal>>))

EmitSym(name) ==
  /\ HasRoom /\ ~TooManySymbols(Inner, name)
  /\ LET s == NewSym(Inner, name) IN
       Does(Insn1(s, Symb, SymPlace(s, name) - 1, <<Symb, name>>))

\* A jump is emitted before its target is known, and patched.
EmitJump == HasRoom /\ Does(Insn1(Inner, Jmp, 0, <<Jmp, 0>>))
\* Where each instruction ends: the next one starts there.
Ends(code) == Sums(Each(LAMBDA insn : Len(insn.what), code))
Patch(i) ==
  /\ stack # <<>> /\ i \in DOMAIN Inner.asked.code /\ Inner.asked.code[i].what = <<Jmp, 0>>
  /\ LET patched == PokeB(Inner, Ends(Inner.asked.code)[i - 1] + 1, Inner.pc) IN
       Does([patched EXCEPT !.asked.code[i].what = <<Jmp, Inner.pc>>])

\* A peephole takes the last instruction back.
TakeBack ==
  /\ stack # <<>> /\ Inner.lastpc < Inner.pc /\ Inner.asked.code # <<>>
  /\ Does([Inner EXCEPT !.pc = Inner.lastpc, !.asked.code = SubSeq(@, 1, Len(@) - 1)])

Catch(handler) ==
  /\ stack # <<>> /\ Inner.handlers = <<>>
  /\ Does([Inner EXCEPT !.handlers = Append(@, handler), !.asked.handlers = Append(@, handler)])

Open(locals) ==
  /\ stack # <<>> /\ Len(stack) < client.depth
  /\ Len(Inner.reps) < client.reps
  /\ stack' = Append(stack, Scope(Inner, locals))
  /\ lvarNames' = Register(lvarNames, locals)
  /\ anyLv' = (anyLv \/ locals # <<>>)
  /\ UNCHANGED <<client, root, wanted>>

\* finish: the irep of a scope, whose symbols all have names.
Present(names) == Each(LAMBDA name : <<name>>, names)
LvarIndex(name) == SelectInSeq(lvarNames, LAMBDA known : known = name) - 1
Finish(s, temps) ==
  Irep(Len(s.lv) + 1, Len(s.lv) + 1 + temps, Emitted(s, s.iseq), s.handlers, s.pool,
       Present(s.syms), s.reps,
       Each(LAMBDA name : IF name = <<>> THEN Null ELSE LvarIndex(name), s.lv),
       <<[files |-> IF s.pc > 0 THEN <<DebugFile(0, Filename, Emitted(s, s.lines))>> ELSE <<>>]>>)

\* pop_scope: the finished scope is the parent's, or the program.
Close(temps) ==
  /\ stack # <<>>
  /\ LET irep == Finish(Inner, temps) IN
       IF Outer = <<>>
       THEN /\ stack' = <<>> /\ root' = <<irep>> /\ wanted' = <<Inner.asked>>
       ELSE /\ stack' = [Outer EXCEPT
                 ![Len(Outer)].reps = Append(@, irep),
                 ![Len(Outer)].asked.reps = Append(@, Inner.asked)]
            /\ UNCHANGED <<root, wanted>>
  /\ UNCHANGED <<client, lvarNames, anyLv>>

Works ==
  \/ \E line \in client.lines : Visit(line)
  \/ client.plain /\ EmitPlain
  \/ \E literal \in client.literals : EmitLit(literal)
  \/ \E name \in client.symbols : EmitSym(name)
  \/ client.jumps /\ (EmitJump \/ \E i \in 1 .. client.insns : Patch(i))
  \/ client.peeps /\ TakeBack
  \/ \E handler \in client.handlers : Catch(handler)
  \/ \E locals \in client.scopes : Open(locals)
  \/ \E temps \in client.temps : Close(temps)

Generates == Opened /\ [][Works]_generator

--------------------------------------------------------------------------------
(* Properties.                                                                  *)

\* The operand of an instruction names the literal or the symbol that it was emitted for,
\* or the target it was patched to, and its bytes have the line that was active then.
InsnSays(insn, at, iseq, lines, pool, syms) ==
  LET kind    == insn.what[1]
      operand == iseq[at + 2]
  IN  /\ iseq[at + 1] = kind
      /\ kind = Lit  => operand + 1 \in DOMAIN pool /\ Same(pool[operand + 1], insn.what[2])
      /\ kind = Symb => operand + 1 \in DOMAIN syms /\ syms[operand + 1] = <<insn.what[2]>>
      /\ kind = Jmp  => operand = insn.what[2]
      /\ \A k \in 1 .. Len(insn.what) : lines[at + k] = insn.line
CodeSays(code, iseq, lines, pool, syms) ==
  \A i \in DOMAIN code : InsnSays(code[i], Ends(code)[i - 1], iseq, lines, pool, syms)

\* The lines of the bytes of an irep, as they are looked up in its packed map.
LinesOf(irep) ==
  [k \in DOMAIN irep.iseq |->
     LET file == irep.debug[1].files[1] IN LineAt(PackLineMap(file.start, file.lines), k - 1)]

IrepSays(irep, body, names) ==
  /\ Len(irep.iseq) = Ends(body.code)[Len(body.code)]
  /\ CodeSays(body.code, irep.iseq, LinesOf(irep), irep.pool, irep.syms)
  /\ DOMAIN irep.lv = DOMAIN body.locals /\ irep.nlocals = Len(body.locals) + 1
  /\ \A i \in DOMAIN irep.lv :
       IF body.locals[i] = <<>> THEN irep.lv[i] = Null
       ELSE irep.lv[i] + 1 \in DOMAIN names /\ names[irep.lv[i] + 1] = body.locals[i]
  /\ irep.handlers = body.handlers
  /\ Len(irep.reps) = Len(body.reps)

\* Ireps with what they were asked for, and those that are nested in them.
Matched(reps, bodies) == {<<reps[k], bodies[k]>> : k \in DOMAIN reps}
Finished ==
  Matched(root, wanted) \cup UNION {Matched(stack[i].reps, stack[i].asked.reps) : i \in DOMAIN stack}
Within(pairs) == UNION {Matched(p[1].reps, p[2].reps) : p \in pairs}
Levels(pairs) ==
  LET level[h \in Nat] == IF h = 0 THEN pairs ELSE Within(level[h - 1])
  IN  level

\* Whatever is emitted, taken back, patched and shared, in scopes inside one another: the
\* code of every open scope says what its handler asked for, and so does every finished
\* irep at any depth, with the names of its locals in the table of the file and its lines
\* in its packed map (codegen.rs poke_b, emit_b, new_lit_int, new_sym, finish; debug.rs).
IrepsSayWhatWasAsked ==
  /\ \A i \in DOMAIN stack :
       LET s == stack[i] IN CodeSays(s.asked.code, s.iseq, s.lines, s.pool, Present(s.syms))
  /\ \A h \in 0 .. client.depth : \A p \in Levels(Finished)[h] : IrepSays(p[1], p[2], lvarNames)
================================================================================
