-------------------------------- MODULE Machine --------------------------------
(* The virtual machine the bytecode is for (mruby, not part of this repository; *)
(* its instructions are modelled as the handlers use them).  A machine runs the *)
(* finished ireps of Codegen one instruction at a time and stops at every call  *)
(* it makes, an event that its environment answers, and at its outcome.         *)
(*                                                                              *)
(* A register the running code has not written, or that a call may have         *)
(* overwritten, holds Junk.                                                     *)
EXTENDS Scope, Objects

Junk == <<"junk">>

\* An exception of class c belongs to c and to Exception, number 3.
IsA(v, class) == v[1] = "exc" /\ class[2] \in {v[2], 3}

--------------------------------------------------------------------------------
(* Frames and handlers.                                                         *)

\* A frame remembers the call it makes: where the value goes, the registers the
\* call uses, the name and the block.  It runs a "block", a "lambda", a "method" or
\* the "body" of a class or the program; `class` gets the methods it defines, `keys`
\* is the register of its keywords.
Frame(rep, what, self, class, invoked) ==
  [rep |-> rep, pc |-> 0, acc |-> 0, base |-> 0, sym |-> <<>>, block |-> Nil,
   what |-> what, class |-> class, invoked |-> invoked, keys |-> 0,
   regs |-> [r \in 0 .. MaxSp |->
               CASE r = 0 -> self [] r > 0 /\ r < rep.nlocals -> Nil [] OTHER -> Junk]]
NoArguments == Invoked(<<>>, <<>>, Nil)

\* `thrown` is an exception, or the exit in progress, that looks for a handler;
\* `exc` is what a handler was entered with.
Boot(rep, store) ==
  [frames |-> <<Frame(rep, "body", Self, ObjectClass, NoArguments)>>, errinfo |-> Nil, exc |-> Nil, store |-> store,
   thrown |-> Nil, event |-> <<>>, outcome |-> <<>>]
Halted == [Boot([code |-> <<>>, catches |-> <<>>, nlocals |-> 1, nregs |-> 1,
                 reps |-> <<>>], <<>>) EXCEPT !.frames = <<>>]

Top(m)        == m.frames[Len(m.frames)]
InFrame(m, f) == [m EXCEPT !.frames[Len(m.frames)] = f]
Leave(m)      == [m EXCEPT !.frames = SubSeq(m.frames, 1, Len(m.frames) - 1)]
Throw(m, o)   == [m EXCEPT !.thrown = o]
Reg(m, r)     == Top(m).regs[r]
Put(m, r, v)  == InFrame(m, [Top(m) EXCEPT !.regs[r] = v])
GoTo(m, pc)   == InFrame(m, [Top(m) EXCEPT !.pc = pc])

\* Handlers of the given kinds around the instruction that ends at pc.
Covering(f, kinds) ==
  {h \in DOMAIN f.rep.catches :
     /\ f.rep.catches[h].kind \in kinds
     /\ f.rep.catches[h].begin < f.pc /\ f.pc <= f.rep.catches[h].end}

\* The table is searched from its end.
Handler(f, kinds) == CHOOSE h \in Covering(f, kinds) :
                       \A g \in Covering(f, kinds) : g <= h

EnterHandler(m, h) ==
  [GoTo(m, Top(m).rep.catches[h].target) EXCEPT !.exc = m.thrown, !.thrown = Nil]

--------------------------------------------------------------------------------
(* An exception or an exit on its way.                                          *)

UnwindException(m) ==
  LET kinds == {"Rescue", "Ensure"} IN
    CASE Covering(Top(m), kinds) # {} -> EnterHandler(m, Handler(Top(m), kinds))
      [] Covering(Top(m), kinds) = {} /\ Len(m.frames) > 1 -> Leave(m)
      [] OTHER -> [m EXCEPT !.outcome = <<"raise", m.thrown>>, !.thrown = Nil]

\* A call has used the registers from base on; its value, if any, is in acc.
Clobbered(f) == [f EXCEPT !.regs = [r \in DOMAIN f.regs |->
                                      IF r >= f.base THEN Junk ELSE f.regs[r]]]
Resume(m, v) == Put(InFrame(m, Clobbered(Top(m))), Top(m).acc, v)

\* A lambda and a method end any exit but a jump in them.
Exit(m) ==
  LET done   == [m EXCEPT !.thrown = Nil]
      caller == Leave(done)
      strict == Top(m).what \in {"lambda", "method"}
  IN  CASE m.thrown[1] = "jump" -> GoTo(done, m.thrown[2])
        [] m.thrown[1] # "jump" /\ Len(m.frames) = 1 ->
             [done EXCEPT !.outcome = <<"value", m.thrown[2]>>]
        [] m.thrown[1] = "return" /\ Len(m.frames) > 1 /\ Top(m).what = "body" ->
             Resume(caller, m.thrown[2])
        [] strict \/ (m.thrown[1] = "return" /\ Len(m.frames) > 1 /\ Top(m).what = "block") ->
             [caller EXCEPT !.event = <<"yielded", Top(caller).sym, m.thrown[2], m.errinfo>>]
        [] m.thrown[1] = "break" /\ ~strict /\ Len(m.frames) > 1 -> Resume(caller, m.thrown[2])
        [] OTHER -> Leave(m)

\* OP_JMPUW, the returns and OP_BREAK go through every ensure they leave; a jump
\* leaves a handler when its target is outside it.
UnwindExit(m) ==
  LET f == Top(m)
      h == Handler(f, {"Ensure"})
  IN  IF Covering(f, {"Ensure"}) # {}
         /\ ~(m.thrown[1] = "jump" /\ m.thrown[2] >= f.rep.catches[h].begin
                                   /\ m.thrown[2] < f.rep.catches[h].end)
      THEN EnterHandler(m, h)
      ELSE Exit(m)

--------------------------------------------------------------------------------
(* Instructions.  m has its pc behind the instruction.                          *)

ConstantLoad(op, v) ==
  CASE op = "LOADNIL"  -> Nil  [] op = "LOADTRUE"  -> True
    [] op = "LOADFALSE" -> False
    [] op = "OCLASS"   -> ObjectClass
    [] op = "STRING"   -> Str(v)
    [] op \in {"SYMBOL", "LOADSYM"} -> Symbol(Str(v))
    [] op = "LOADF"    -> <<"float">>
    [] op = "BLOCK"    -> <<"block", v>>
    [] op = "METHOD"   -> <<"method", v>>
    [] op \in IntLoads -> Num(v)
ConstantLoads == IntLoads \cup {"LOADNIL", "LOADTRUE", "LOADFALSE", "OCLASS", "STRING",
                                "SYMBOL", "LOADSYM", "LOADF", "BLOCK", "METHOD"}

Jumps(m, i) ==
  CASE i.op = "JMP"    -> TRUE
    [] i.op = "JMPIF"  -> Truthy(Reg(m, i.a))
    [] i.op = "JMPNOT" -> ~Truthy(Reg(m, i.a))
    [] i.op = "JMPNIL" -> Reg(m, i.a) = Nil

ReturnValue(m, i) ==
  CASE i.op = "RETSELF"  -> Reg(m, 0) [] i.op = "RETNIL"   -> Nil
    [] i.op = "RETTRUE"  -> True [] i.op = "RETFALSE" -> False
    [] OTHER -> Reg(m, i.a)
Thrown(m, i) ==
  CASE i.op = "JMPUW"      -> <<"jump", i.b>>
    [] i.op = "RETURN_BLK" -> <<"leave", Reg(m, i.a)>>
    [] i.op = "BREAK"      -> <<"break", Reg(m, i.a)>>
    [] OTHER               -> <<"return", ReturnValue(m, i)>>
Exits == {"JMPUW", "RETURN", "RETURN_BLK", "BREAK",
          "RETSELF", "RETNIL", "RETTRUE", "RETFALSE"}

\* n registers from r on, and the items of an array or the pairs of a hash there.
Regs(m, r, n) == [i \in 1 .. n |-> Reg(m, r + i - 1)]
Pairs(m, r, n) == [i \in 1 .. n |-> <<Reg(m, r + 2 * i - 2), Reg(m, r + 2 * i - 1)>>]

\* A call; a method that is known has its value at once.
Invoke(m, acc, base, sym, recv, args, kw, block) ==
  LET known == IF kw = <<>> /\ block = Nil THEN Known(sym[1], recv, args) ELSE <<>>
      proc  == block[1] \in {"block", "lambda", "method"}
  IN  IF known # <<>> THEN Put(m, acc, known[1])
      ELSE [InFrame(m, [Top(m) EXCEPT !.acc = acc, !.base = base, !.sym = sym,
                                      !.block = block]) EXCEPT
              !.event = <<IF proc THEN "iterate" ELSE "call", sym, recv, args, kw,
                          IF proc THEN <<block[1]>> ELSE block, m.errinfo>>]

\* 15 says that the arguments or the keywords are gathered in one register.
Send(m, i) ==
  LET self  == i.op \in {"SSEND0", "SSEND", "SSENDB"}
      nargs == i.c % 16
      nkeys == i.c \div 16
      kwat  == i.a + 1 + IF nargs = 15 THEN 1 ELSE nargs
      blkat == kwat + IF nkeys = 15 THEN 1 ELSE 2 * nkeys
  IN  Invoke(m, i.a, i.a, i.b, Reg(m, IF self THEN 0 ELSE i.a),
             IF nargs = 15 THEN Splatted(Reg(m, i.a + 1)) ELSE Regs(m, i.a + 1, nargs),
             IF nkeys = 15 THEN Paired(Reg(m, kwat)) ELSE Pairs(m, kwat, nkeys),
             IF i.op \in {"SSENDB", "SENDB"} THEN Reg(m, blkat) ELSE Nil)
Sends == {"SSEND0", "SSEND", "SSENDB", "SEND0", "SEND", "SENDB"}

\* The instructions for one operator.
Operator(m, i) ==
  LET call(name, recv, args) == Invoke(m, i.a, i.a, <<name, 0>>, recv, args, <<>>, Nil)
      two(name) == call(name, Reg(m, i.a), <<Reg(m, i.a + 1)>>)
  IN  CASE i.op = "ADD"  -> two("+")
        [] i.op = "SUB"  -> two("-")
        [] i.op = "MUL"  -> two("*")
        [] i.op = "LT"   -> two("<")
        [] i.op = "EQ"   -> two("==")
        [] i.op = "GE"   -> two(">=")
        [] i.op = "ADDI" -> call("+", Reg(m, i.a), <<Num(i.b)>>)
        [] i.op = "SUBI" -> call("-", Reg(m, i.a), <<Num(i.b)>>)
        [] i.op \in {"ADDILV", "SUBILV"} ->
             Invoke(m, i.a, i.b, <<IF i.op = "ADDILV" THEN "+" ELSE "-", 0>>,
                    Reg(m, i.a), <<Num(i.c)>>, <<>>, Nil)
        [] i.op = "GETIDX"  -> two("[]")
        [] i.op = "GETIDX0" -> call("[]", Reg(m, i.b), <<Num(0)>>)
        [] i.op = "SETIDX"  -> call("[]=", Reg(m, i.a), Regs(m, i.a + 1, 2))
Operators == {"ADD", "SUB", "MUL", "LT", "EQ", "GE", "ADDI", "SUBI", "ADDILV", "SUBILV",
              "GETIDX", "GETIDX0", "SETIDX"}

\* APOST: what lies between the first `pre` items and the last `post` of them, and
\* those.
Apost(m, a, pre, post) ==
  LET all  == Destructured(Reg(m, a))
      cut  == Cut(Len(all), pre, post)
  IN  InFrame(m, [Top(m) EXCEPT !.regs = [r \in DOMAIN @ |->
        CASE r = a -> Array(SubSeq(all, pre + 1, cut))
          [] r \in a + 1 .. a + post -> At(all, cut + r - a)
          [] OTHER -> @[r]]])

\* The instructions that make one value of others.
Made(m, i) ==
  LET a  == Reg(m, i.a)
      a1 == Reg(m, i.a + 1)
  IN  CASE i.op = "ARRAY"     -> Array(Regs(m, i.a, i.b))
        [] i.op = "ARRAY2"    -> Array(Regs(m, i.b, i.c))
        [] i.op = "ARYCAT"    -> Array(Splatted(a) \o Splatted(a1))
        [] i.op = "ARYPUSH"   -> Array(Splatted(a) \o Regs(m, i.a + 1, i.b))
        [] i.op = "ARYSPLAT"  -> Array(Splatted(a))
        [] i.op = "AREF"      -> At(Destructured(Reg(m, i.b)), i.c + 1)
        [] i.op = "HASH"      -> Hash(Pairs(m, i.a, i.b))
        [] i.op = "HASHADD"   -> Hash(Paired(a) \o Pairs(m, i.a + 1, i.b))
        [] i.op = "HASHCAT"   -> Hash(Paired(a) \o Paired(a1))
        [] i.op = "STRCAT"    -> Str(Pieces(a) \o Pieces(a1))
        [] i.op = "INTERN"    -> Symbol(Str(Pieces(a)))
        [] i.op = "RANGE_INC" -> RangeOf(a, a1, FALSE)
        [] i.op = "RANGE_EXC" -> RangeOf(a, a1, TRUE)
        [] i.op = "GETMCNST"  -> IF i.b[1] = "class" THEN i.b ELSE Member(a, i.b)
Makers == {"ARRAY", "ARRAY2", "ARYCAT", "ARYPUSH", "ARYSPLAT", "AREF", "HASH", "HASHADD",
           "HASHCAT", "STRCAT", "INTERN", "RANGE_INC", "RANGE_EXC", "GETMCNST"}

--------------------------------------------------------------------------------
(* Methods, classes, and what they are called with.                             *)

Bits(n, low, width) == (n \div 2^low) % 2^width

\* ENTER: the arguments go to the registers of the parameters, the keywords and the
\* block to the two behind.  A jump for every optional parameter that got one is
\* skipped; the others have no value yet.
Enter(m, aspec) ==
  LET inv   == Top(m).invoked
      req   == Bits(aspec, 18, 5)
      opt   == Bits(aspec, 13, 5)
      rest  == Bits(aspec, 12, 1)
      post  == Bits(aspec, 7, 5)
      keyed == Bits(aspec, 1, 6) > 0
      dealt == Deal(req, opt, rest, post, inv.args, Top(m).what # "block")
      keys  == req + opt + rest + post + 1
      block == keys + IF keyed THEN 1 ELSE 0
      reg(r) == CASE r <= req -> dealt.req[r]
                  [] r > req /\ r <= req + opt ->
                       IF r - req <= Len(dealt.opt) THEN dealt.opt[r - req] ELSE Junk
                  [] r > req + opt /\ r <= req + opt + rest -> dealt.rest
                  [] r > req + opt + rest /\ r < keys -> dealt.post[r - req - opt - rest]
                  [] r = keys /\ keyed -> Hash(inv.kw)
                  [] OTHER -> inv.block
  IN  InFrame(m, [Top(m) EXCEPT
        !.regs = [r \in DOMAIN @ |-> IF r \in 1 .. block THEN reg(r) ELSE @[r]],
        !.keys = keys,
        !.pc = @ + IF opt = 0 THEN 0 ELSE Len(dealt.opt)])

\* KEY_P, KARG, KEYEND.
KeyWord(m, i) ==
  LET kw == Reg(m, Top(m).keys)[2] IN
    CASE i.op = "KEY_P" -> Put(m, i.a, Bool(HasKey(kw, i.b[1])))
      [] i.op = "KARG" /\ HasKey(kw, i.b[1]) ->
           Put(Put(m, i.a, AtKey(kw, i.b[1])), Top(m).keys, Hash(Without(kw, {i.b[1]})))
      [] i.op = "KARG" /\ ~HasKey(kw, i.b[1]) -> Throw(m, ArgumentError)
      [] i.op = "KEYEND" -> IF kw = <<>> THEN m ELSE Throw(m, ArgumentError)

\* The registers of the method around, by the operand of BLKPUSH and ARGARY.
MethodRegs(m, operand) == m.frames[Len(m.frames) - (operand % 16)].regs
PositionalRegs(operand) == Bits(operand, 11, 6) + Bits(operand, 10, 1) + Bits(operand, 5, 5)
BlockOf(m, operand) ==
  MethodRegs(m, operand)[PositionalRegs(operand) + Bits(operand, 4, 1) + 1]
Positional(m, operand) ==
  LET regs == MethodRegs(m, operand)
      m1   == Bits(operand, 11, 6)
      rest == Bits(operand, 10, 1)
  IN  [r \in 1 .. m1 |-> regs[r]]
        \o (IF rest = 1 THEN Splatted(regs[m1 + 1]) ELSE <<>>)
        \o [r \in 1 .. Bits(operand, 5, 5) |-> regs[m1 + rest + r]]

\* The instructions that define are calls, too: the environment may run the new method
\* or lambda at once.
Define(m, i) ==
  LET define(sym, class, rep) ==
        Invoke(m, i.a, IF i.op = "LAMBDA" THEN MaxSp ELSE i.a, sym, class, <<>>, <<>>,
               <<IF i.op = "LAMBDA" THEN "lambda" ELSE "method", rep>>)
  IN  CASE i.op = "LAMBDA" -> define(<<"lambda", 0>>, Nil, i.b)
        [] i.op = "TDEF"   -> define(i.b, Top(m).class, i.c)
        [] i.op = "SDEF"   -> define(i.b, Singleton(Reg(m, i.a)), i.c)
        [] i.op = "DEF"    -> define(i.b, Reg(m, i.a), Reg(m, i.a + 1)[2])
        [] i.op = "TCLASS" -> Put(m, i.a, Top(m).class)
        [] i.op = "SCLASS" -> Put(m, i.a, Singleton(Reg(m, i.a)))
        [] i.op = "CLASS"  -> Invoke(m, i.a, i.a, i.b, Reg(m, i.a), <<Reg(m, i.a + 1)>>, <<>>, Nil)
        [] i.op = "MODULE" -> Invoke(m, i.a, i.a, i.b, Reg(m, i.a), <<>>, <<>>, Nil)
        [] i.op \in {"ALIAS", "UNDEF"} ->
             Invoke(m, MaxSp, MaxSp, <<i.op, 0>>, Top(m).class, IF i.op = "ALIAS" THEN <<i.a, i.b>> ELSE <<i.a>>, <<>>, Nil)
        [] i.op = "EXEC"   ->
             LET body == Frame(Top(m).rep.reps[i.b], "body", Reg(m, i.a), Reg(m, i.a), NoArguments)
             IN  [InFrame(m, [Top(m) EXCEPT !.acc = i.a, !.base = i.a]) EXCEPT
                    !.frames = Append(@, body)]
Definers == {"LAMBDA", "TDEF", "SDEF", "DEF", "TCLASS", "SCLASS", "CLASS", "MODULE", "ALIAS",
             "UNDEF", "EXEC"}

\* yield calls the block of the method around, super its namesake.
MethodCall(m, i) ==
  LET nargs == i.b % 16
      nkeys == i.b \div 16
      kwat  == i.a + 1 + IF nargs = 15 THEN 1 ELSE nargs
      blkat == kwat + IF nkeys = 15 THEN 1 ELSE 2 * nkeys
  IN  CASE i.op = "BLKPUSH" -> Put(m, i.a, BlockOf(m, i.b))
        [] i.op = "BLKCALL" -> Invoke(m, i.a, i.a, <<"call", 0>>, Reg(m, i.a),
                                      Regs(m, i.a + 1, i.b), <<>>, Nil)
        [] i.op = "ARGARY"  -> Put(Put(m, i.a, Array(Positional(m, i.b))), i.a + 1,
                                   BlockOf(m, i.b))
        [] i.op = "SUPER"   ->
             Invoke(m, i.a, i.a, <<"super", 0>>, Reg(m, 0),
                    IF nargs = 15 THEN Splatted(Reg(m, i.a + 1)) ELSE Regs(m, i.a + 1, nargs),
                    IF nkeys = 15 THEN Paired(Reg(m, kwat)) ELSE Pairs(m, kwat, nkeys),
                    Reg(m, blkat))
MethodCalls == {"BLKPUSH", "BLKCALL", "ARGARY", "SUPER"}

--------------------------------------------------------------------------------

Getters == {"GETIV", "GETGV", "GETCV", "GETCONST"}
Setters == {"SETIV", "SETGV", "SETCV", "SETCONST"}

Get(m, dst, name) ==
  CASE name[1] = "errinfo"        -> Put(m, dst, m.errinfo)
    [] name[1] # "errinfo" /\ Fetch(m.store, name) # <<>> ->
         Put(m, dst, Fetch(m.store, name)[1])
    [] OTHER -> Throw(m, NameError)
SetTo(m, name, v) ==
  IF name[1] = "errinfo" THEN [m EXCEPT !.errinfo = v]
  ELSE [m EXCEPT !.store = Stored(m.store, name, v)]

Upvar(m, level) == Len(m.frames) - 1 - level

Execute(m, i) ==
  CASE i.op \in ConstantLoads -> Put(m, i.a, ConstantLoad(i.op, i.b))
    [] i.op = "MOVE"     -> Put(m, i.a, Reg(m, i.b))
    [] i.op \in Getters  -> Get(m, i.a, i.b)
    [] i.op \in Setters  -> SetTo(m, i.b, Reg(m, i.a))
    [] i.op = "SETMCNST" -> SetTo(m, Member(Reg(m, i.a + 1), i.b), Reg(m, i.a))
    [] i.op = "GETUPVAR" -> Put(m, i.a, m.frames[Upvar(m, i.c)].regs[i.b])
    [] i.op = "SETUPVAR" -> [m EXCEPT !.frames[Upvar(m, i.c)].regs[i.b] = Reg(m, i.a)]
    [] i.op = "EXCEPT"   -> [Put(m, i.a, m.exc) EXCEPT !.exc = Nil]
    [] i.op = "RESCUE"   -> Put(m, i.b, Bool(IsA(Reg(m, i.a), Reg(m, i.b))))
    [] i.op = "MATCHERR" -> IF Truthy(Reg(m, i.a)) THEN m ELSE Throw(m, NoMatchError)
    [] i.op = "RAISEIF"  -> Throw(m, Reg(m, i.a))
    [] i.op = "LOADSELF" -> Put(m, i.a, Reg(m, 0))
    [] i.op = "ENTER"    -> Enter(m, i.a)
    [] i.op \in {"KEY_P", "KARG", "KEYEND"} -> KeyWord(m, i)
    [] i.op \in Definers -> Define(m, i)
    [] i.op \in MethodCalls -> MethodCall(m, i)
    [] i.op \in JumpOps \ {"JMPUW"} -> IF Jumps(m, i) THEN GoTo(m, i.b) ELSE m
    [] i.op \in Exits    -> Throw(m, Thrown(m, i))
    [] i.op \in Sends    -> Send(m, i)
    [] i.op \in Operators -> Operator(m, i)
    [] i.op \in Makers   -> Put(m, i.a, Made(m, i))
    [] i.op = "APOST"    -> Apost(m, i.a, i.b, i.c)
    [] i.op = "NOP"      -> m

Stopped(m) == m.event # <<>> \/ m.outcome # <<>>

\* One instruction, or one step of what is on its way.
Step(m) ==
  CASE m.thrown = Nil ->
         Execute(GoTo(m, Top(m).pc + 1), Top(m).rep.code[Top(m).pc + 1])
    [] m.thrown[1] = "exc" -> UnwindException(m)
    [] m.thrown # Nil /\ m.thrown[1] # "exc" -> UnwindExit(m)

--------------------------------------------------------------------------------
(* The environment's answer to the event.                                       *)

Answer(m, v) == [Resume(m, v) EXCEPT !.event = <<>>]
AnswerRaise(m, e) ==
  [Throw(InFrame(m, Clobbered(Top(m))), e) EXCEPT !.event = <<>>]

\* The call runs its block, lambda or method, with these arguments.
AnswerYield(m, invoked) ==
  LET f == Top(m) IN
    [m EXCEPT !.event = <<>>,
              !.frames = Append(@, Frame(f.rep.reps[f.block[2]], f.block[1],
                                         IF f.block[1] = "method" THEN Receiver ELSE f.regs[0],
                                         f.class, invoked))]
================================================================================
