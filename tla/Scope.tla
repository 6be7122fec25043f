--------------------------------- MODULE Scope ---------------------------------
(* One lexical scope of the bytecode generator (`struct Scope`, codegen.rs):     *)
(* its register stack, the instructions emitted so far, the loops and catch     *)
(* handlers under construction, and the peephole that rewrites the last         *)
(* instruction.  Every operator takes the scope and returns the scope after     *)
(* the method of the same name; nothing here is recursive.                      *)
(*                                                                              *)
(* Abstractions:                                                                *)
(*  - `pc` counts instructions, not bytes: a position p is the boundary after   *)
(*    the first p instructions of `code`, and pc = Len(code) (a rewind          *)
(*    truncates, where the program leaves stale bytes beyond `pc`);             *)
(*  - the operand slot of a jump, used only as a link of a chain of pending     *)
(*    jumps, is the negative number of its instruction, so that a link and a    *)
(*    position are never confused;                                              *)
(*  - the decoded value of an integer load is kept in `b`, and OP_LOADI__1,     *)
(*    OP_LOADI_0 .. OP_LOADI_7 are one operation "LOADI";                       *)
(*  - line tables, file names, pools and symbol numbers are left out.           *)
EXTENDS Integers, Sequences

CONSTANTS
  MaxSp,          \* push_n refuses to take sp to this value (0xffff)
  MaxOff,         \* the farthest a jump reaches (i16::MAX bytes), in instructions
  MaxLocals,      \* locals a scope may hold (Scope::child refuses u8::MAX of them)
  MaxI32,         \* largest integer an inline load holds (i32::MAX)
  JMPLINK_START   \* the empty chain of pending jumps

ASSUME ScopeAssumption ==
  /\ MaxSp \in Nat \ {0} /\ MaxOff \in Nat /\ MaxLocals \in Nat
  /\ MaxI32 \in Nat /\ JMPLINK_START \notin Int

--------------------------------------------------------------------------------
(* Instructions.                                                                *)

JumpOps == {"JMP", "JMPIF", "JMPNOT", "JMPNIL", "JMPUW"}
CondOps == {"JMPIF", "JMPNOT", "JMPNIL"}

IntLoads == {"LOADI", "LOADI8", "LOADINEG", "LOADI16", "LOADI32", "LOADL"}

\* Integer loads a conditional jump recognises as truthy.
ShortIntLoads == {"LOADI", "LOADI8", "LOADINEG"}

\* Loads gen_move may re-target to the destination of the move.
Retargetable ==
  {"LOADNIL", "LOADSELF", "LOADTRUE", "LOADFALSE", "LOADI", "LOADI8",
   "LOADINEG", "LOADI16", "LOADI32", "LOADL", "LOADF", "LOADSYM", "GETGV",
   "GETSV", "GETIV", "GETCV", "GETCONST", "STRING", "LAMBDA", "BLOCK",
   "METHOD", "BLKPUSH", "AREF", "GETUPVAR"}

Instr(op, a, b, c) == [op |-> op, a |-> a, b |-> b, c |-> c]
Nop == Instr("NOP", 0, 0, 0)

LoopFrame == [kind : {"Normal", "Block", "For", "Begin", "Rescue"},
              pc0 : Int \cup {JMPLINK_START}, pc1 : Int \cup {JMPLINK_START},
              pc2 : Int \cup {JMPLINK_START}, reg : Int]

CatchHandler == [kind : {"None", "Rescue", "Ensure"},
                 begin : Nat, end : Nat, target : Nat]

--------------------------------------------------------------------------------
(* Opening a scope.                                                             *)

\* The dummy scope below the program's own.
TopScope ==
  [sp |-> 0, nlocals |-> 0, nregs |-> 0, code |-> <<>>, lastpc |-> 0,
   lastlabel |-> 0, loops |-> <<>>, catches |-> <<>>, lv |-> <<>>,
   invisible |-> FALSE, forDepth |-> 0, mscope |-> FALSE, ainfo |-> 0,
   reps |-> <<>>]

TooManyLocals(lv) == Len(lv) >= MaxLocals

\* Register 0 is self, then the locals in order.
ChildScope(lv) ==
  [TopScope EXCEPT !.lv = lv, !.sp = Len(lv) + 1, !.nlocals = Len(lv) + 1,
                   !.nregs = Len(lv) + 1]

\* A `for` body has the registers of its parent and no names of its own.
ForScope(parent) ==
  [ChildScope(parent.lv) EXCEPT
     !.sp = parent.nlocals, !.nlocals = parent.nlocals,
     !.nregs = parent.nlocals, !.invisible = TRUE,
     !.forDepth = parent.forDepth + 1]

--------------------------------------------------------------------------------
(* The register stack.                                                          *)

PushOverflows(s, n) == s.sp + n >= MaxSp
\* Faulty variant: the high-water mark is not kept.
PushUnrecorded(s, n) == [s EXCEPT !.sp = s.sp + n]
PushN(s, n) ==
  [s EXCEPT !.sp = s.sp + n,
            !.nregs = IF s.sp + n > s.nregs THEN s.sp + n ELSE s.nregs]

\* Faulty variant: no pop is refused.
PopUnchecked(s, n) == FALSE
PopUnderflows(s, n) == s.sp - n < 0
PopN(s, n) == [s EXCEPT !.sp = s.sp - n]

--------------------------------------------------------------------------------
(* Emission and the peephole barrier.                                           *)

Pc(s) == Len(s.code)

\* Faulty variant: lastpc is not moved on.
EmitUntracked(s, insn) == [s EXCEPT !.code = Append(s.code, insn)]
Emit(s, insn) == [s EXCEPT !.code = Append(s.code, insn), !.lastpc = Len(s.code)]

\* pc = target; the instructions from there on are gone.
RewindTo(s, pc) == [s EXCEPT !.code = SubSeq(s.code, 1, pc)]

NewLabel(s) == [s EXCEPT !.lastlabel = Len(s.code)]

\* Start of the instruction that ends at pc.
PrevPc(pc) == IF pc = 0 THEN 0 ELSE pc - 1

\* The instruction that starts at lastpc; what lies beyond pc is no instruction.
LastInsn(s) == IF s.lastpc < Len(s.code) THEN s.code[s.lastpc + 1] ELSE Nop

\* Faulty variant: a label is no barrier.
NoPeepholeAtStart(s) == Len(s.code) = 0 \/ Len(s.code) = s.lastpc
NoPeephole(s) ==
  s.lastlabel = Len(s.code) \/ Len(s.code) = 0 \/ Len(s.code) = s.lastpc

--------------------------------------------------------------------------------
(* Jumps.                                                                       *)

\* What the operand of a jump holds: a position, a link, or 0 for the empty chain.
JmpDst(dest) == IF dest = JMPLINK_START THEN 0 ELSE dest

\* The position a jump with this operand is encoded relative to.
SlotPos(dest) == IF JmpDst(dest) < 0 THEN -JmpDst(dest) ELSE JmpDst(dest)
JumpTooFar(s, dest) == Len(s.code) - SlotPos(dest) > MaxOff

\* The link of the instruction emitted last.
Slot(s) == -Len(s.code)

Genjmp(s, op, dest) == Emit(s, Instr(op, 0, JmpDst(dest), 0))

\* Conditional jump on register a.  The load that decides it is taken back and
\* the jump becomes unconditional or vanishes, in which case the chain is empty.
CondMoves(s, a, val) ==
  /\ ~val /\ ~NoPeephole(s) /\ LastInsn(s).op = "MOVE"
  /\ LastInsn(s).a = a /\ LastInsn(s).a > s.nlocals

CondDecided(s, a, val) ==
  /\ ~val /\ ~NoPeephole(s)
  /\ LastInsn(s).op \in {"LOADNIL", "LOADFALSE", "LOADTRUE"} \cup ShortIntLoads
  /\ LastInsn(s).a = a \/ LastInsn(s).a > s.nlocals

CondAlways(s, op) ==
  \/ LastInsn(s).op = "LOADNIL" /\ op \in {"JMPNOT", "JMPNIL"}
  \/ LastInsn(s).op = "LOADFALSE" /\ op = "JMPNOT"
  \/ LastInsn(s).op \in {"LOADTRUE"} \cup ShortIntLoads /\ op = "JMPIF"

Genjmp2(s, op, a, dest, val) ==
  LET back == RewindTo(s, s.lastpc) IN
    CASE CondMoves(s, a, val) ->
           Emit(back, Instr(op, LastInsn(s).b, JmpDst(dest), 0))
      [] CondDecided(s, a, val) ->
           IF CondAlways(s, op) THEN Genjmp(back, "JMP", dest) ELSE back
      [] OTHER -> Emit(s, Instr(op, a, JmpDst(dest), 0))

\* Faulty variant: a link is returned for a jump that vanished, too.
LinkAlways(s, op, a, dest, val) == Slot(Genjmp2(s, op, a, dest, val))

\* The link genjmp2 returns.
Genjmp2Link(s, op, a, dest, val) ==
  IF CondDecided(s, a, val) /\ ~CondAlways(s, op)
  THEN JMPLINK_START
  ELSE Slot(Genjmp2(s, op, a, dest, val))

\* Faulty variant: the label is set and the jump not patched.
DispatchUnpatched(s, link) ==
  IF link = JMPLINK_START THEN s ELSE NewLabel(s)

\* Patch one pending jump to pc; the value returned is the next link, or 0.
Dispatch(s, link) ==
  IF link = JMPLINK_START THEN s
  ELSE LET code == [s.code EXCEPT ![-link] = [@ EXCEPT !.b = Len(s.code)]] IN
       [s EXCEPT !.code = code, !.lastlabel = Len(s.code)]

DispatchTooFar(s, link) == link # JMPLINK_START /\ Len(s.code) - (-link) > MaxOff

NextLink(s, link) == IF link = JMPLINK_START THEN 0 ELSE s.code[-link].b

\* The jumps of a chain, newest first in the program, here as a set.
Chain(s, link) ==
  LET from[i \in 0 .. Len(s.code)] ==
        IF i = 0 THEN {}
        ELSE {i} \cup from[IF s.code[i].b < 0 THEN -s.code[i].b ELSE 0]
  IN  IF link = JMPLINK_START THEN {} ELSE from[-link]

\* Patch a whole chain.
DispatchLinked(s, link) ==
  IF link = JMPLINK_START THEN s
  ELSE [s EXCEPT
          !.code = [i \in DOMAIN s.code |->
                      IF i \in Chain(s, link)
                      THEN [s.code[i] EXCEPT !.b = Len(s.code)]
                      ELSE s.code[i]],
          !.lastlabel = Len(s.code)]

--------------------------------------------------------------------------------
(* Integer loads.                                                               *)

IntLoad(v) ==
  CASE v >= -1 /\ v < 8           -> "LOADI"
    [] v < -1 /\ v >= -255        -> "LOADINEG"
    [] v >= 8 /\ v <= 255         -> "LOADI8"
    [] v < -255 /\ v >= -32768    -> "LOADI16"
    [] v > 255 /\ v <= 32767      -> "LOADI16"
    [] v > 32767 /\ v <= MaxI32   -> "LOADI32"
    [] v < -32768 /\ v >= -MaxI32 - 1 -> "LOADI32"
    [] OTHER                      -> "LOADL"

GenInt(s, dst, v) == Emit(s, Instr(IntLoad(v), dst, v, 0))

IsIntOperand(insn) == insn.op \in IntLoads

--------------------------------------------------------------------------------
(* gen_move: the value wanted in dst is in src; a temporary (a register at or   *)
(* above nlocals) that only carried it is cut out.                              *)

PlainMove(s, dst, src) == Emit(s, Instr("MOVE", dst, src, 0))

MoveSkipped(s, dst, src) ==
  \/ dst = src
  \/ LastInsn(s).op = "MOVE" /\ LastInsn(s).a = src /\ LastInsn(s).b = dst

\* The last MOVE is dropped and gen_move starts again behind it, from MoveSource.
MoveRetries(s, dst, src) ==
  /\ LastInsn(s).op = "MOVE"
  /\ \/ LastInsn(s).a = src /\ LastInsn(s).a >= s.nlocals
     \/ LastInsn(s).a = dst /\ LastInsn(s).a # src
MoveSource(s, src) == IF LastInsn(s).a = src THEN LastInsn(s).b ELSE src

MoveRetargets(s, dst, src) ==
  /\ LastInsn(s).a = src /\ LastInsn(s).a >= s.nlocals
  /\ \/ LastInsn(s).op \in Retargetable
     \/ LastInsn(s).op = "HASH" /\ LastInsn(s).b = 0
     \/ LastInsn(s).op \in {"ARRAY", "ARRAY2"} /\ LastInsn(s).a >= dst
Retargeted(insn, dst) ==
  IF insn.op = "ARRAY" /\ insn.b # 0 /\ dst # insn.a
  THEN Instr("ARRAY2", dst, insn.a, insn.b)
  ELSE [insn EXCEPT !.a = dst]

\* Faulty variant: the two instructions may be on two sides of a label.
FoldsAcrossLabel(s, dst, src) ==
  /\ LastInsn(s).op \in {"ADDI", "SUBI"} /\ s.lastpc # 0
  /\ LastInsn(s).a = src /\ LastInsn(s).a >= s.nlocals
  /\ s.code[s.lastpc].op = "MOVE"
  /\ s.code[s.lastpc].a = LastInsn(s).a /\ s.code[s.lastpc].b = dst

\* MOVE t,dst; ADDI t,n; MOVE dst,t is one ADDILV dst,t,n.
MoveFoldsLocal(s, dst, src) ==
  /\ LastInsn(s).op \in {"ADDI", "SUBI"}
  /\ s.lastpc # 0 /\ s.lastpc # s.lastlabel
  /\ LastInsn(s).a = src /\ LastInsn(s).a >= s.nlocals
  /\ s.code[s.lastpc].op = "MOVE"
  /\ s.code[s.lastpc].a = LastInsn(s).a /\ s.code[s.lastpc].b = dst

MoveStep(s, dst, src) ==
  LET insn == LastInsn(s) IN
    CASE NoPeephole(s) -> PlainMove(s, dst, src)
      [] ~NoPeephole(s) /\ MoveSkipped(s, dst, src) -> s
      [] ~NoPeephole(s) /\ ~MoveSkipped(s, dst, src) ->
         CASE MoveRetries(s, dst, src) ->
                [RewindTo(s, s.lastpc) EXCEPT !.lastpc = PrevPc(s.lastpc)]
           [] MoveRetargets(s, dst, src) ->
                Emit(RewindTo(s, s.lastpc), Retargeted(insn, dst))
           [] MoveFoldsLocal(s, dst, src) ->
                Emit(RewindTo(s, PrevPc(s.lastpc)),
                     Instr(IF insn.op = "ADDI" THEN "ADDILV" ELSE "SUBILV",
                           dst, insn.a, insn.b))
           [] OTHER -> PlainMove(s, dst, src)

\* gen_move calls itself after this step, with MoveSource(s, src).
MoveAgain(s, dst, src) ==
  /\ ~NoPeephole(s) /\ ~MoveSkipped(s, dst, src) /\ MoveRetries(s, dst, src)

--------------------------------------------------------------------------------
(* The other emitters with a peephole.                                          *)

Returns == {"RETURN", "RETSELF", "RETNIL", "RETTRUE", "RETFALSE"}

FusedReturn(insn) ==
  CASE insn.op = "LOADSELF" -> "RETSELF" [] insn.op = "LOADNIL" -> "RETNIL"
    [] insn.op = "LOADTRUE" -> "RETTRUE" [] OTHER -> "RETFALSE"

GenReturn(s, op, src) ==
  LET insn == LastInsn(s)
      back == RewindTo(s, s.lastpc)
  IN  CASE NoPeephole(s) -> Emit(s, Instr(op, src, 0, 0))
        [] ~NoPeephole(s) /\ insn.op = "MOVE" /\ insn.a = src ->
             Emit(back, Instr(op, insn.b, 0, 0))
        [] ~NoPeephole(s) /\ insn.a = src /\ op = "RETURN"
             /\ insn.op \in {"LOADSELF", "LOADNIL", "LOADTRUE", "LOADFALSE"} ->
             Emit(back, Instr(FusedReturn(insn), 0, 0, 0))
        [] ~NoPeephole(s) /\ insn.op \in Returns -> s
        [] OTHER -> Emit(s, Instr(op, src, 0, 0))

\* Position of a name among the locals, 0 when it is not one of this scope's.
LvIdx(s, name) ==
  IF s.invisible \/ \A i \in DOMAIN s.lv : s.lv[i] # name THEN 0
  ELSE CHOOSE i \in DOMAIN s.lv : /\ s.lv[i] = name
                                  /\ \A j \in 1 .. i - 1 : s.lv[j] # name

GenGetupvar(s, dst, idx, lv) ==
  IF /\ ~NoPeephole(s) /\ LastInsn(s).op = "SETUPVAR"
     /\ LastInsn(s) = Instr("SETUPVAR", dst, idx, lv)
  THEN s
  ELSE Emit(s, Instr("GETUPVAR", dst, idx, lv))

\* A store of a discarded value takes the source of the MOVE before it.
StoreFoldsMove(s, dst, val) ==
  /\ ~val /\ ~NoPeephole(s)
  /\ LastInsn(s).op = "MOVE" /\ LastInsn(s).a = dst

GenSetupvar(s, dst, idx, lv, val) ==
  IF StoreFoldsMove(s, dst, val)
  THEN Emit(RewindTo(s, s.lastpc), Instr("SETUPVAR", LastInsn(s).b, idx, lv))
  ELSE Emit(s, Instr("SETUPVAR", dst, idx, lv))

GenSetxv(s, op, dst, sym, val) ==
  IF StoreFoldsMove(s, dst, val)
  THEN Emit(RewindTo(s, s.lastpc), Instr(op, LastInsn(s).b, sym, 0))
  ELSE Emit(s, Instr(op, dst, sym, 0))

\* `+` and `-` take back an integer load of 0 .. 255.
GenAddsub(s, op, dst) ==
  LET insn == LastInsn(s) IN
    IF ~NoPeephole(s) /\ IsIntOperand(insn) /\ insn.b \in 0 .. 255
    THEN Emit(RewindTo(s, s.lastpc),
              Instr(IF op = "ADD" THEN "ADDI" ELSE "SUBI", dst, insn.b, 0))
    ELSE Emit(s, Instr(op, dst, 0, 0))

\* Unary plus and minus take back any integer load.
UniopFolds(s) == ~NoPeephole(s) /\ IsIntOperand(LastInsn(s))
GenUniop(s, minus, dst) ==
  IF UniopFolds(s)
  THEN GenInt(RewindTo(s, s.lastpc), dst,
              IF minus THEN -LastInsn(s).b ELSE LastInsn(s).b)
  ELSE s

\* `recv[0]` on a moved receiver is one GETIDX0; any other index is GETIDX.
IndexZero(s, dst) ==
  /\ LastInsn(s).op = "LOADI" /\ LastInsn(s).b = 0 /\ LastInsn(s).a = dst + 1
  /\ s.lastpc # s.lastlabel /\ s.lastpc # 0
  /\ s.code[s.lastpc].op = "MOVE" /\ s.code[s.lastpc].a = dst
  /\ s.code[s.lastpc].b # dst

GenBinop(s, dst) ==
  IF NoPeephole(s) THEN s
  ELSE IF IndexZero(s, dst)
       THEN Emit(RewindTo(s, PrevPc(s.lastpc)),
                 Instr("GETIDX0", dst, s.code[s.lastpc].b, 0))
       ELSE Emit(s, Instr("GETIDX", dst, 0, 0))

\* A string just loaded for a symbol becomes the symbol.
GenIntern(s, dst) ==
  LET insn == LastInsn(s) IN
    IF ~NoPeephole(s) /\ insn.op = "STRING" /\ insn.a = dst
    THEN Emit(RewindTo(s, s.lastpc), [insn EXCEPT !.op = "SYMBOL"])
    ELSE Emit(s, Instr("INTERN", dst, 0, 0))

--------------------------------------------------------------------------------
(* Catch handlers and loops.                                                    *)

CatchNew(s) ==
  [s EXCEPT !.catches =
     Append(s.catches, [kind |-> "None", begin |-> 0, end |-> 0, target |-> 0])]

\* Faulty variant: the first free entry is taken, not the one reserved.
CatchSetFree(s, entry, kind, begin, end, target) ==
  LET free == {e \in DOMAIN s.catches : s.catches[e].kind = "None"} IN
    [s EXCEPT !.catches[CHOOSE e \in free : \A f \in free : e <= f] =
       [kind |-> kind, begin |-> begin, end |-> end, target |-> target]]

CatchSet(s, entry, kind, begin, end, target) ==
  [s EXCEPT !.catches[entry] =
     [kind |-> kind, begin |-> begin, end |-> end, target |-> target]]

LoopPush(s, kind) ==
  [s EXCEPT !.loops =
     Append(s.loops, [kind |-> kind, pc0 |-> JMPLINK_START, pc1 |-> JMPLINK_START,
                      pc2 |-> JMPLINK_START, reg |-> s.sp])]

InnerLoop(s) == s.loops[Len(s.loops)]

\* Faulty variants: the breaks do not land; the value of the loop is not pushed.
LoopPopUnlanded(s, val) ==
  LET nil    == IF val THEN Emit(s, Instr("LOADNIL", s.sp, 0, 0)) ELSE s
      closed == [nil EXCEPT !.loops = SubSeq(s.loops, 1, Len(s.loops) - 1)]
  IN  IF val THEN PushN(closed, 1) ELSE closed
LoopPopUnvalued(s, val) ==
  LET nil    == IF val THEN Emit(s, Instr("LOADNIL", s.sp, 0, 0)) ELSE s
      closed == [nil EXCEPT !.loops = SubSeq(s.loops, 1, Len(s.loops) - 1)]
  IN  DispatchLinked(closed, InnerLoop(s).pc2)

\* The frame is closed and its `break` jumps land here; a wanted value is nil.
LoopPop(s, val) ==
  LET nil    == IF val THEN Emit(s, Instr("LOADNIL", s.sp, 0, 0)) ELSE s
      closed == [nil EXCEPT !.loops = SubSeq(s.loops, 1, Len(s.loops) - 1)]
      landed == DispatchLinked(closed, InnerLoop(s).pc2)
  IN  IF val THEN PushN(landed, 1) ELSE landed
================================================================================
