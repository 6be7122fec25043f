--------------------------------- MODULE Image ---------------------------------
(* The code buffer of a scope driven by the node handlers, byte by byte: what   *)
(* any handler may ask of it, and the proof obligation that the bytes always    *)
(* decode to the listing it has asked for.  Which instruction a peephole takes  *)
(* back is chosen freely here (Scope has the choices of each emitter), and so   *)
(* are the instructions, among those of a client.                               *)
EXTENDS Bytes, FiniteSets, Functions

CONSTANT Clients   \* what handlers ask for: instructions, integers, jumps, and how
                   \* many bytes of code they make

\* What the emitters can be asked for: operands are of 16 bits, the third one of 8
\* and the only one of an operation that takes three bytes of 24; operations that
\* jump or load an integer have emitters of their own, and prefixes are never asked for.
Plain == Operations \ (JumpOps \cup IntLoads \cup {"EXT1", "EXT2", "EXT3"})
Operands ==
  [Z   |-> {0} \X {0} \X {0},
   B   |-> (0 .. Word - 1) \X {0} \X {0},
   Bb  |-> (0 .. Word - 1) \X (0 .. Word - 1) \X {0},
   Bbb |-> (0 .. Word - 1) \X (0 .. Word - 1) \X (0 .. Base - 1),
   Bs  |-> (0 .. Word - 1) \X (0 .. Word - 1) \X {0},
   Bss |-> {}, S |-> {},
   W   |-> (0 .. Word * Base - 1) \X {0} \X {0}]

ASSUME ClientsAssumption ==
  \A c \in Clients :
    /\ \A insn \in c.insns :
          /\ insn = Instr(insn.op, insn.a, insn.b, insn.c) /\ insn.op \in Plain
          /\ <<insn.a, insn.b, insn.c>> \in Operands[Shape[insn.op]]
    /\ c.back \subseteq 0 .. 2 /\ c.dsts \subseteq 0 .. Word - 1 /\ c.ints \subseteq Int
    /\ c.jumps \subseteq JumpOps /\ c.conds \subseteq 0 .. Word - 1 /\ c.vals \subseteq BOOLEAN

VARIABLES
  client,          \* the client
  b,               \* the buffer
  labels,          \* positions it was given by new_label and dispatch
  held,            \* links it still has to dispatch
  call,            \* what it asked for last
  listing          \* what the bytes decode to, kept here so that it is decoded once

vars == <<client, b, labels, held, call, listing>>

--------------------------------------------------------------------------------
(* The listing in the buffer.                                                   *)

\* Where the instructions start that are in front of pc.
Starts(iseq, pc) ==
  LET from[pos \in Nat] ==
        IF pos >= pc THEN <<>> ELSE <<pos>> \o from[DecodeAt(iseq, pos).next]
  IN  from[0]

\* How many instructions end at pos.
Index(starts, pos) == Cardinality({i \in DOMAIN starts : starts[i] < pos})

\* The position a slot leads to.  That of a jump whose target is pending is 0, or
\* the slot of the next jump that waits for the same target.
SentTo(iseq, slot) == slot + 2 + Signed(WordAt(iseq, slot), Word)
Target(t, starts, slot) ==
  LET target == SentTo(t.iseq, slot) IN
    IF target \in {0, t.pc} \/ target \in Range(starts)
    THEN Index(starts, target) ELSE -Index(starts, target)

\* An integer load says which integer, and a jump where to.
Listed(t, starts, i) ==
  LET decoded == DecodeAt(t.iseq, starts[i])
      insn    == decoded.insn
  IN  CASE decoded.next > t.pc -> Instr("cut", 0, 0, 0)
        [] insn.op \in IntLoads /\ decoded.next <= t.pc ->
             Instr("LOADI", insn.a, IntOperand(t, insn), 0)
        [] insn.op \in JumpOps /\ decoded.next <= t.pc ->
             Instr(insn.op, IF Shape[insn.op] = "S" THEN 0 ELSE insn.a,
                   Target(t, starts, decoded.next - 2), 0)
        [] OTHER -> insn

ListingOf(t) ==
  LET starts == Starts(t.iseq, t.pc) IN
    [starts |-> starts, code |-> [i \in DOMAIN starts |-> Listed(t, starts, i)],
     lastlabel |-> Index(starts, t.lastlabel)]

Buffer == INSTANCE Listing WITH code <- listing.code, lastlabel <- listing.lastlabel

--------------------------------------------------------------------------------
(* What a handler asks for.                                                     *)

Init ==
  /\ client \in Clients
  /\ b = NewBuffer /\ labels = {} /\ held = {} /\ call = <<"none">> /\ listing = ListingOf(b)

HasRoom == b.pc < client.room

Asks(c, t) ==
  /\ HasRoom /\ call' = c /\ b' = t
  /\ UNCHANGED <<client, labels, held>>

\* The last n instructions may be taken back: the peephole looks at the last one,
\* and at the one before when that does not start at a label.
IsJump(insn) == insn.op \in JumpOps
Free(n) ==
  /\ n > 0 => ~NoPeephole(b) /\ ~IsJump(LastInsn(b))
  /\ n = 2 => /\ b.lastpc # b.lastlabel /\ b.lastpc # 0
              /\ ~IsJump(DecodeAt(b.iseq, PrevPc(b, b.lastpc)).insn)
Back(n) ==
  CASE n = 0 -> b [] n = 1 -> Rewind(b, b.lastpc) [] n = 2 -> Rewind(b, PrevPc(b, b.lastpc))

Write(n, insn) == Free(n) /\ Asks(<<"write", n, insn>>, Encode(Back(n), insn))

\* gen_move drops the MOVE before it and looks at the instruction in front.
Dropped == [Rewind(b, b.lastpc) EXCEPT !.lastpc = PrevPc(b, b.lastpc)]
Drop == Free(1) /\ Asks(<<"drop">>, Dropped)

LoadInt(dst, v) ==
  /\ Long(v) => ~PoolFull(b, v)
  /\ Asks(<<"int", dst, v>>, GenInt(b, dst, v))

Uniop(minus, dst) ==
  /\ UniopFolds(b, minus)
  /\ LET v == UniopValue(b, minus) IN Long(v) => ~PoolFull(b, v)
  /\ Asks(<<"uniop", minus, dst>>, GenUniop(b, minus, dst))

Label ==
  /\ b.lastlabel # b.pc
  /\ b' = [b EXCEPT !.lastlabel = b.pc]
  /\ labels' = labels \cup {b.pc}
  /\ call' = <<"label">>
  /\ UNCHANGED <<client, held>>

\* A jump to a position, or one more link at the head of a chain.  t is the buffer
\* with the jump.
Dests == labels \cup held \cup {JMPLINK_START}
Jumps(n, insn, t) ==
  /\ HasRoom
  /\ ~JumpTooFar(Link(t), insn.b)
  /\ b' = t
  /\ held' = IF insn.b \in labels THEN held ELSE (held \ {insn.b}) \cup {Link(t)}
  /\ call' = <<"write", n, insn>>
  /\ UNCHANGED <<client, labels>>

Jump(op, dest) == Jumps(0, Instr(op, 0, dest, 0), Genjmp(b, op, dest))

Peeps(val) == ~val /\ ~NoPeephole(b)
CondJump(op, a, dest, val) ==
  \/ /\ Peeps(val) /\ CondMoves(b, a, client.nlocals)
     /\ Jumps(1, Instr(op, LastInsn(b).b, dest, 0),
              PlainCond(Rewind(b, b.lastpc), op, LastInsn(b).b, dest))
  \/ /\ Peeps(val) /\ CondDecided(b, a, client.nlocals) /\ CondAlways(b, op)
     /\ Jumps(1, Instr("JMP", 0, dest, 0), Genjmp(Rewind(b, b.lastpc), "JMP", dest))
  \/ /\ Peeps(val) /\ CondDecided(b, a, client.nlocals) /\ ~CondAlways(b, op)
     /\ Asks(<<"drop">>, Rewind(b, b.lastpc))
  \/ /\ ~(Peeps(val) /\ (CondMoves(b, a, client.nlocals) \/ CondDecided(b, a, client.nlocals)))
     /\ Jumps(0, Instr(op, a, dest, 0), PlainCond(b, op, a, dest))

Land(link) ==
  /\ ~DispatchTooFar(b, link)
  /\ b' = Dispatch(b, link)
  /\ labels' = labels \cup {b.pc}
  /\ held' = (held \ {link}) \cup ({NextLink(b, link)} \ {0})
  /\ call' = <<"land", link>>
  /\ UNCHANGED client

Request ==
  \/ \E n \in client.back, insn \in client.insns : Write(n, insn)
  \/ Drop
  \/ \E dst \in client.dsts, v \in client.ints : LoadInt(dst, v)
  \/ \E dst \in client.dsts, minus \in BOOLEAN : Uniop(minus, dst)
  \/ Label
  \/ \E op \in client.jumps \cap {"JMP", "JMPUW"}, dest \in Dests : Jump(op, dest)
  \/ \E op \in client.jumps \ {"JMP", "JMPUW"}, a \in client.conds, dest \in Dests,
        val \in client.vals : CondJump(op, a, dest, val)
  \/ \E link \in held : Land(link)

Next == Request /\ listing' = ListingOf(b')

Spec == Init /\ [][Next]_vars

--------------------------------------------------------------------------------
(* Properties.                                                                  *)

TypeOK ==
  /\ b.lastpc <= b.pc /\ b.lastlabel <= b.pc /\ b.pc <= Len(b.iseq)
  /\ \A pos \in labels : pos <= b.pc
  /\ \A link \in held : link + 2 <= b.pc

\* Whenever a peephole may look, lastpc is where the last instruction starts, or
\* behind the prefix of a wide conditional jump, which no peephole looks into: last_insn
\* and prev_pc agree on where instructions start (codegen.rs last_insn, prev_pc).
LastInsnDecodes ==
  ~NoPeephole(b) =>
    LET start == listing.starts[Len(listing.starts)] IN
      \/ b.lastpc = start
      \/ /\ b.lastpc = start + 1 /\ OpAt(b.iseq, start) = "EXT1"
         /\ OpAt(b.iseq, b.lastpc) \in JumpOps

\* The links a handler holds are heads of chains of jumps that lead from slot to slot,
\* further and further back, that end at address 0 and never meet, and no link in a
\* chain is held: patching one completes the rest one by one, each jump once
\* (codegen.rs genjmp, dispatch, dispatch_linked).
JumpsIn == {i \in DOMAIN listing.code : IsJump(listing.code[i])}
Slot(i) == (IF i < Len(listing.starts) THEN listing.starts[i + 1] ELSE b.pc) - 2
Sent(i) == SentTo(b.iseq, Slot(i))
ChainsKept ==
  LET slots    == {Slot(i) : i \in JumpsIn}
      waits(i) == Sent(i) \in {0} \cup slots
  IN  /\ \A link \in held : \E i \in JumpsIn : link = Slot(i) /\ waits(i)
      /\ \A i, j \in JumpsIn :
            Sent(i) = Slot(j) => j < i /\ waits(j) /\ Slot(j) \notin held
      /\ \A i, j \in JumpsIn : Sent(i) = Sent(j) /\ Sent(i) \in slots => i = j

\* The bytes decode to a listing that changes only as Listing lets it.
ImplementsListing == Buffer!Spec

\* And it changes as the handler asked: the instruction read back has the operands it
\* was given, the integer loaded is the one meant, also when it was negated, a jump
\* goes where it was sent, and patching a link completes that jump and no other
\* (codegen.rs genop_2, gen_int, gen_jmpdst, dispatch; handlers.rs gen_uniop).
Place(starts, dest) ==
  CASE dest = JMPLINK_START -> 0 [] dest \in labels -> Index(starts, dest)
    [] OTHER -> -Index(starts, dest)
Placed(insn) ==
  IF insn.op \in JumpOps THEN [insn EXCEPT !.b = Place(listing.starts, insn.b)] ELSE insn
Loaded(dst, v) == Instr("LOADI", dst, v, 0)
LastLoaded == listing.code[Len(listing.code)].b
Answers(c) ==
  CASE c[1] = "write" -> Buffer!Write(c[2], Placed(c[3]))
    [] c[1] = "drop"  -> Buffer!Drop
    [] c[1] = "int"   -> Buffer!Write(0, Loaded(c[2], c[3]))
    [] c[1] = "uniop" -> Buffer!Write(1, Loaded(c[3], IF c[2] THEN -LastLoaded ELSE LastLoaded))
    [] c[1] = "label" -> Buffer!Label
    [] c[1] = "land"  -> Buffer!Land(Index(listing.starts, c[2]))
DoesAsAsked == [][Answers(call')]_vars
================================================================================
