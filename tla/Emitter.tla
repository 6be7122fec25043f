-------------------------------- MODULE Emitter --------------------------------
(* A scope of the bytecode generator driven by any client: the calls the node   *)
(* handlers make on `Scope` (codegen.rs), in any order and with any operands.   *)
(* What holds here holds for every handler, those modelled in Codegen and those *)
(* that are not.                                                                *)
EXTENDS Scope

CONSTANTS
  NumLocals,      \* locals of the scope
  Registers,      \* registers the client names
  Operands,       \* second operands it gives
  Literals,       \* integers it loads
  Ops,            \* operations it emits
  MaxCode         \* bound on the length of the code

ASSUME EmitterAssumption ==
  /\ NumLocals \in Nat /\ Registers \subseteq Nat /\ Operands \subseteq Nat
  /\ Literals \subseteq Int
  /\ MaxCode \in Nat

ReturnOps == {"RETURN", "RETURN_BLK", "BREAK"}
AddOps    == {"ADD", "SUB"}
StoreOps  == {"SETGV", "SETSV", "SETIV", "SETCV", "SETCONST"}

\* Operations emitted without a peephole of their own.
PlainOps  == Ops \ (JumpOps \cup ReturnOps \cup AddOps \cup StoreOps)

VARIABLES
  s,              \* the scope
  labels,         \* the positions the client was given by new_label and dispatch
  held,           \* the links the client still has to dispatch
  moving          \* gen_move's pending call of itself: <<>> or <<dst, src>>

vars == <<s, labels, held, moving>>

HasRoom == Len(s.code) < MaxCode

Locals == [i \in 1 .. NumLocals |-> i]

Init ==
  /\ s = ChildScope(Locals)
  /\ labels = {} /\ held = {} /\ moving = <<>>

--------------------------------------------------------------------------------
(* Registers.                                                                   *)

Push(n) ==
  /\ moving = <<>> /\ ~PushOverflows(s, n)
  /\ s' = PushN(s, n)
  /\ UNCHANGED <<labels, held, moving>>

Pop(n) ==
  /\ moving = <<>> /\ ~PopUnderflows(s, n)
  /\ s' = PopN(s, n)
  /\ UNCHANGED <<labels, held, moving>>

--------------------------------------------------------------------------------
(* Calls that emit.                                                             *)

Emits(t) ==
  /\ moving = <<>> /\ HasRoom
  /\ s' = t
  /\ UNCHANGED <<labels, held, moving>>

Plain(op, a, b)             == Emits(Emit(s, Instr(op, a, b, 0)))
LoadInt(a, v)               == Emits(GenInt(s, a, v))
Return(op, a)               == Emits(GenReturn(s, op, a))
Getupvar(a, idx, lv)        == Emits(GenGetupvar(s, a, idx, lv))
Setupvar(a, idx, lv, val)   == Emits(GenSetupvar(s, a, idx, lv, val))
Setxv(op, a, sym, val)      == Emits(GenSetxv(s, op, a, sym, val))
Addsub(op, a)               == Emits(GenAddsub(s, op, a))
Uniop(minus, a)             == Emits(GenUniop(s, minus, a))
Index(a)                    == Emits(GenBinop(s, a))
Intern(a)                   == Emits(GenIntern(s, a))

Move(dst, src, nopeep) ==
  /\ moving = <<>> /\ HasRoom
  /\ IF nopeep THEN /\ s' = PlainMove(s, dst, src) /\ moving' = <<>>
     ELSE /\ s' = MoveStep(s, dst, src)
          /\ moving' = IF MoveAgain(s, dst, src)
                       THEN <<dst, MoveSource(s, src)>> ELSE <<>>
  /\ UNCHANGED <<labels, held>>

\* gen_move called by itself, behind the MOVE it dropped.
MoveOn ==
  /\ moving # <<>>
  /\ LET dst == moving[1]
         src == moving[2]
     IN  /\ s' = MoveStep(s, dst, src)
         /\ moving' = IF MoveAgain(s, dst, src)
                      THEN <<dst, MoveSource(s, src)>> ELSE <<>>
  /\ UNCHANGED <<labels, held>>

--------------------------------------------------------------------------------
(* Labels and jumps.                                                            *)

Label ==
  /\ moving = <<>>
  /\ s' = NewLabel(s)
  /\ labels' = labels \cup {Pc(s)}
  /\ UNCHANGED <<held, moving>>

\* A jump to a position, or one more link at the head of a chain.
Dests == labels \cup held \cup {JMPLINK_START}

Jump(op, dest) ==
  /\ moving = <<>> /\ HasRoom /\ ~JumpTooFar(s, dest)
  /\ s' = Genjmp(s, op, dest)
  /\ held' = IF dest \in labels THEN held ELSE (held \ {dest}) \cup {Slot(s')}
  /\ UNCHANGED <<labels, moving>>

\* The client keeps the chain it had when genjmp2 says that no jump was needed.
CondJump(op, a, dest, val) ==
  /\ moving = <<>> /\ HasRoom /\ ~JumpTooFar(s, dest)
  /\ s' = Genjmp2(s, op, a, dest, val)
  /\ LET link == Genjmp2Link(s, op, a, dest, val) IN
       held' = IF dest \in labels \/ link = JMPLINK_START THEN held
               ELSE (held \ {dest}) \cup {link}
  /\ UNCHANGED <<labels, moving>>

Land(link) ==
  /\ moving = <<>> /\ ~DispatchTooFar(s, link)
  /\ s' = Dispatch(s, link)
  /\ labels' = labels \cup {Pc(s)}
  /\ held' = (held \ {link})
               \cup (IF NextLink(s, link) < 0 THEN {NextLink(s, link)} ELSE {})
  /\ UNCHANGED moving

--------------------------------------------------------------------------------

Next ==
  \/ \E n \in 1 .. 2 : Push(n) \/ Pop(n)
  \/ \E op \in PlainOps, a \in Registers, b \in Operands : Plain(op, a, b)
  \/ \E a \in Registers, v \in Literals : LoadInt(a, v)
  \/ \E a, b \in Registers, nopeep \in BOOLEAN : Move(a, b, nopeep)
  \/ MoveOn
  \/ \E op \in Ops \cap ReturnOps, a \in Registers : Return(op, a)
  \/ \E a \in Registers : Getupvar(a, 1, 0)
  \/ \E a \in Registers, val \in BOOLEAN : Setupvar(a, 1, 0, val)
  \/ \E op \in Ops \cap StoreOps, a \in Registers, val \in BOOLEAN :
       Setxv(op, a, 0, val)
  \/ \E op \in Ops \cap AddOps, a \in Registers : Addsub(op, a)
  \/ \E minus \in BOOLEAN, a \in Registers : Uniop(minus, a)
  \/ \E a \in Registers : Index(a)
  \/ \E a \in Registers : Intern(a)
  \/ Label
  \/ \E op \in Ops \cap (JumpOps \ CondOps), dest \in Dests : Jump(op, dest)
  \/ \E op \in Ops \cap CondOps, a \in Registers, dest \in Dests, val \in BOOLEAN :
       CondJump(op, a, dest, val)
  \/ \E link \in held : Land(link)

Spec == Init /\ [][Next]_vars

--------------------------------------------------------------------------------
(* Properties.                                                                  *)

\* The operations the client emits, and those the peephole makes of them.
Operations ==
  Ops \cup IntLoads \cup Returns
    \cup {"MOVE", "JMP", "ARRAY2", "GETUPVAR", "SETUPVAR", "ADDI", "SUBI", "ADDILV",
         "SUBILV", "GETIDX", "GETIDX0", "INTERN", "SYMBOL"}

Insns == [op : Operations, a : Int, b : Int, c : Int]

\* What a client of this kind leaves alone is as the scope was opened.
Scopes ==
  [sp : Nat, nlocals : Nat, nregs : Nat, code : Seq(Insns), lastpc : Nat,
   lastlabel : Nat, loops : {<<>>}, catches : {<<>>}, lv : {Locals},
   invisible : {FALSE}, forDepth : {0}, mscope : {FALSE}, ainfo : {0},
   reps : {<<>>}]

\* The scope, the client's positions and links, and gen_move's pending call
\* have their types.
TypeOK ==
  /\ s \in Scopes
  /\ labels \subseteq Nat /\ held \subseteq Int
  /\ moving \in {<<>>} \cup (Int \X Int)

\* `last_insn` decodes at lastpc and a rewind sets pc to it: lastpc is always
\* the start of the instruction that ends at pc, or pc itself (codegen.rs
\* last_insn, no_peephole, gen_move).
LastInsnExact == s.lastpc \in {Pc(s), PrevPc(Pc(s))}

\* The barrier is the last position given out and never lies beyond pc: no
\* rewind has taken the code under a label away (codegen.rs no_peephole).
BarrierHolds ==
  /\ s.lastlabel <= Pc(s)
  /\ \A l \in labels : l <= s.lastlabel

\* Every link in the client's hands, and every link in a pending jump, is a
\* jump of the code that waits for its target, and links lead back:
\* dispatch_linked terminates (codegen.rs dispatch, dispatch_linked).
Pending(i) == s.code[i].op \in JumpOps /\ s.code[i].b <= 0
ChainsDescend ==
  /\ \A h \in held : -h \in 1 .. Pc(s) /\ Pending(-h)
  /\ \A i \in 1 .. Pc(s) :
       s.code[i].op \in JumpOps /\ s.code[i].b < 0 =>
         -s.code[i].b \in 1 .. i - 1 /\ Pending(-s.code[i].b)

\* No jump is on two chains, so none is patched twice (codegen.rs genjmp,
\* genjmp2, dispatch).
ChainsDisjoint ==
  \A i \in 1 .. Pc(s) :
    s.code[i].op \in JumpOps /\ s.code[i].b < 0 =>
      /\ s.code[i].b \notin held
      /\ \A j \in 1 .. Pc(s) :
           s.code[j].op \in JumpOps /\ s.code[j].b = s.code[i].b => j = i

\* Whatever a handler emits, the instructions up to the last position given out
\* stay, except that a pending jump is patched once; and a jump stays wherever
\* it is (codegen.rs gen_move, genjmp2, gen_return; handlers.rs gen_addsub,
\* gen_uniop, gen_binop, gen_interp_symbol).
Preserved ==
  \A i \in 1 .. Pc(s) :
    i <= s.lastlabel \/ s.code[i].op \in JumpOps =>
      /\ i <= Len(s'.code)
      /\ \/ s'.code[i] = s.code[i]
         \/ /\ s.code[i].op \in JumpOps /\ s.code[i].b <= 0
            /\ s'.code[i] = [s.code[i] EXCEPT !.b = Pc(s)]
PeepholeKeepsLabelled == [][Preserved]_vars

\* And all that any emitter does to the code is what a listing promises: it takes
\* back what is neither labelled nor a jump, emits one instruction, or tells a pending
\* jump its target, once (codegen.rs gen_move, genjmp2, gen_return, dispatch).
Buffer == INSTANCE Listing WITH code <- s.code, lastlabel <- s.lastlabel
ImplementsListing == Buffer!Spec
================================================================================
