------------------------------ MODULE Definitions ------------------------------
(* The handlers of blocks, lambdas, methods and classes, with their parameters, *)
(* and of what a method does with its own: yield and super (handlers.rs).       *)
(*                                                                              *)
(* A block, a lambda or a method is a node whose shape lists its parameters,    *)
(* and its body.                                                                *)
EXTENDS Patterns, Params
LOCAL INSTANCE SequencesExt

CONSTANT DirectReps \* the last body TDEF and SDEF can name (255)

ASSUME DefinitionsAssumption == DirectReps \in Nat

--------------------------------------------------------------------------------
(* Parameters.                                                                  *)

Flag(b, n) == IF b THEN n ELSE 0

TooManyParams(shape) ==
  \E roles \in {Requireds, {"opt"}, Posts, Keywords} : Count(shape, roles) > 31

\* param_enter: the operand of ENTER, and what yield and super know of it.
Aspec(shape) ==
  Flag(Has(shape, {"no block"}), 2^23) + ArgsReq(Count(shape, Requireds))
    + Count(shape, {"opt"}) * 2^13 + Flag(Has(shape, Rests) \/ Forwards(shape), 2^12)
    + Count(shape, Posts) * 2^7
    + Count(shape, Keywords) * 4 + Flag(Has(shape, KwRests) \/ Forwards(shape), 2)
    + Flag(Has(shape, Ampersands) \/ Forwards(shape), 1)
Ainfo(shape) ==
  ((Count(shape, Requireds) + Count(shape, {"opt"})) % 64) * 2^7
    + Flag(Has(shape, Rests) \/ Forwards(shape), 2^6) + Count(shape, Posts) * 2
    + Flag(Keyed(shape), 1)

\* param_layout: the registers of the parameters, as ENTER fills them: the hash of the
\* keywords and the block come behind the positional ones; a named block is copied
\* to a register of its own.
ParamLayout(shape, locals) ==
  NamesOf(shape, Requireds) \o NamesOf(shape, {"opt"}) \o NamesOf(shape, Rests)
    \o NamesOf(shape, Posts)
    \o (CASE Forwards(shape) -> <<"*", "**", "", "&">>
          [] ~Forwards(shape) /\ Has(shape, KwRests) -> NamesOf(shape, KwRests) \o <<"">>
          [] ~Forwards(shape) /\ ~Has(shape, KwRests) /\ Keyed(shape) -> <<"**", "">>
          [] OTHER -> <<"">>)
    \o NamesOf(shape, Ampersands) \o NamesOf(shape, Keywords) \o locals

SlotOf(layout, name) == CHOOSE i \in DOMAIN layout : layout[i] = name
                                   /\ \A j \in 1 .. i - 1 : layout[j] # name

\* ENTER skips as many jumps as there are arguments for the optional parameters.
EmitOptionalSetup(n, layout) ==
  LET opts    == Places(n.shape, {"opt"})
      jump(i) == "opt" \o ToString(i)
  IN  IF opts = <<>> THEN <<>>
      ELSE <<Label("start")>>
             \o FlattenSeq([j \in DOMAIN opts |-> <<Label("start"), Jump(jump(j), "JMP")>>])
             \o <<Jump(jump(0), "JMP")>>
             \o FlattenSeq([j \in DOMAIN opts |->
                  <<Land(jump(j)), Gen(n.kids[opts[j]], TRUE), Pop(1),
                    Move(N(SlotOf(layout, ParamName(n.shape, opts[j]))), SP, FALSE)>>])
             \o <<Land(jump(0))>>

\* Faulty variant: a default is overwritten by the keyword that was not given.
ReadKeywordAlways(n, layout, i) ==
  LET slot  == N(SlotOf(layout, ParamName(n.shape, i)))
      given == "key" \o ToString(i)
      sym   == Sym(ParamName(n.shape, i), 0)
  IN  (IF n.shape[i] = "keyword" THEN <<>>
       ELSE <<Op("KEY_P", slot, sym), CondOn(given, "JMPIF", slot, FALSE),
              Gen(n.kids[i], TRUE), Pop(1), Move(slot, SP, FALSE), Land(given)>>)
        \o <<Op("KARG", slot, sym)>>

\* A keyword that is given is read, and taken from the hash, or has its default.
ReadKeyword(n, layout, i) ==
  LET slot  == N(SlotOf(layout, ParamName(n.shape, i)))
      given == "key" \o ToString(i)
      past  == "past" \o ToString(i)
      sym   == Sym(ParamName(n.shape, i), 0)
  IN  IF n.shape[i] = "keyword" THEN <<Op("KARG", slot, sym)>>
      ELSE <<Op("KEY_P", slot, sym), CondOn(given, "JMPIF", slot, FALSE),
             Gen(n.kids[i], TRUE), Pop(1), Move(slot, SP, FALSE), Jump(past, "JMP"),
             Land(given), Op("KARG", slot, sym), Land(past)>>

EmitKeywordSetup(n, layout) ==
  LET keywords == Places(n.shape, Keywords) IN
    FlattenSeq([j \in DOMAIN keywords |-> ReadKeyword(n, layout, keywords[j])])
      \o (IF keywords = <<>> \/ Has(n.shape, KwRests) THEN <<>>
          ELSE <<Op("KEYEND", N(0), N(0))>>)

\* Parameters that are taken apart into PartsOf others, the first of them in
\* register `first`.
PartsOf == 2
EmitDestructureSetup(n, roles, first) ==
  LET places == Places(n.shape, roles) IN
    FlattenSeq([j \in DOMAIN places |->
      IF n.shape[places[j]] \in {"req", "post"} THEN <<>>
      ELSE <<Set("src", N(first + j - 1)), Gen(n.kids[places[j]], FALSE),
             Move(SP, N(first + j - 1), FALSE), Op3("APOST", SP, N(PartsOf), N(0))>>])

PostBase(shape) ==
  Count(shape, Requireds) + Count(shape, {"opt"}) + 1
    + Flag(Has(shape, Rests) \/ Forwards(shape), 1)

EmitParamSetup(n, layout) ==
  LET block == IF Forwards(n.shape) THEN "&" ELSE NamesOf(n.shape, Ampersands)[1] IN
    EmitOptionalSetup(n, layout) \o EmitKeywordSetup(n, layout)
      \o (IF Has(n.shape, Ampersands) \/ Forwards(n.shape)
          THEN <<Move(N(SlotOf(layout, block)), N(SlotOf(layout, block) - 1), FALSE)>>
          ELSE <<>>)
      \o EmitDestructureSetup(n, Requireds, 1)
      \o EmitDestructureSetup(n, Posts, PostBase(n.shape))

BodyOf(n) == LET body == Kids(n, {"body", "no body"}) IN body[1]

\* The locals of a node that are no parameters of its shape: the parts.
PartNames(shape) == IF Has(shape, {"req parts", "post parts"}) THEN <<"part1", "part2">> ELSE <<>>
LayoutOf(n) == ParamLayout(n.shape, PartNames(n.shape))

--------------------------------------------------------------------------------
(* Blocks, lambdas and methods.                                                 *)

\* A block without parameters, with numbered ones (_1, _2), or with `it`.
GenLambdaBody(n, op) ==
  CASE n.name = "none" -> EnterBlockScope(<<"">>, 0, 0, <<>>, BodyOf(n), op)
    [] n.name = "numbered" ->
         EnterBlockScope(<<"_1", "_2">>, 2 * 2^7, ArgsReq(2), <<>>, BodyOf(n), op)
    [] n.name = "it" -> EnterBlockScope(<<"">>, 2^7, ArgsReq(1), <<>>, BodyOf(n), op)
    [] OTHER -> IF TooManyParams(n.shape) THEN <<Fail>>
                ELSE EnterBlockScope(LayoutOf(n), Ainfo(n.shape), Aspec(n.shape),
                                     EmitParamSetup(n, LayoutOf(n)), BodyOf(n), op)

GenBlock(n, val)  == IF val THEN GenLambdaBody(n, "BLOCK") ELSE <<>>
GenLambda(n, val) == IF val THEN GenLambdaBody(n, "LAMBDA") ELSE <<>>

\* gen_it_read: the value is the first argument.
GenItRead(val) == IF val THEN <<Move(SP, N(1), TRUE), Push(1)>> ELSE <<>>

\* The method is put in a class by one instruction, when it can name the body.
DefineDirectly(op, id)   == <<Op3(op, SP, Sym("def", id), V("rep"))>>
DefineIndirectly(op, id) ==
  <<Load(op), Push(1), Op("METHOD", SP, V("rep")), Push(1), Pop(1), Pop(1),
    Op("DEF", SP, Sym("def", id))>>

\* reps are the bodies of the scope the method is defined in.
GenDef(n, id, reps, val) ==
  LET direct == Len(reps) <= DirectReps
      on     == Kids(n, {"any"})
  IN  IF TooManyParams(n.shape) THEN <<Fail>>
      ELSE <<Open("Method", LayoutOf(n), Ainfo(n.shape)), Op("ENTER", N(Aspec(n.shape)), N(0))>>
             \o EmitParamSetup(n, LayoutOf(n)) \o GenElse(BodyOf(n), TRUE)
             \o <<Pop(1), Ret("RETURN", SP), Close("rep")>>
             \o (CASE on = <<>> /\ direct  -> DefineDirectly("TDEF", id)
                   [] on = <<>> /\ ~direct -> DefineIndirectly("TCLASS", id)
                   [] OTHER -> <<Gen(on[1], TRUE), Pop(1)>>
                                 \o (IF direct THEN DefineDirectly("SDEF", id)
                                     ELSE DefineIndirectly("SCLASS", id)))
             \o PushIf(val)

--------------------------------------------------------------------------------
(* Classes and modules.  The name is plain, or has a class in front of `::`, or  *)
(* nothing.                                                                     *)

GenBase(name, parent) ==
  CASE name = "read" -> <<Load("LOADNIL"), Push(1)>>
    [] name = "path" /\ parent = Absent -> <<Load("OCLASS"), Push(1)>>
    [] OTHER -> <<Gen(parent, TRUE)>>

\* The body is run where the class is.
GenClassBody(body) ==
  IF body = Absent THEN <<Load("LOADNIL")>>
  ELSE <<Open("Body", <<>>, 0), Gen(body, TRUE), Ret("RETURN", SpOff(-1)), Close("rep"),
         Op("EXEC", SP, V("rep"))>>

GenClass(name, id, parent, superclass, body, val) ==
  GenBase(name, parent)
    \o (IF superclass = Absent THEN <<Load("LOADNIL"), Push(1)>> ELSE <<Gen(superclass, TRUE)>>)
    \o <<Pop(2), Op("CLASS", SP, Sym("class", id))>> \o GenClassBody(body) \o PushIf(val)

GenModule(name, id, parent, body, val) ==
  GenBase(name, parent) \o <<Pop(1), Op("MODULE", SP, Sym("module", id))>>
    \o GenClassBody(body) \o PushIf(val)

GenSclass(expression, body, val) ==
  <<Gen(expression, TRUE), Pop(1), Load("SCLASS")>> \o GenClassBody(body) \o PushIf(val)

GenAlias(val) == <<Op("ALIAS", Sym("new", 0), Sym("old", 0))>> \o NilIf(val)
GenUndef(val) == <<Op("UNDEF", Sym("old", 0), N(0)), Op("UNDEF", Sym("new", 0), N(0))>>
                   \o NilIf(val)

--------------------------------------------------------------------------------
(* yield and super, of the method around: its scope, innermost first, and the    *)
(* blocks between.                                                              *)

NoMethod == [ainfo |-> -1, level |-> 0]

\* search_mscope, method_scope.
MethodScope(scopes) ==
  LET around == {i \in DOMAIN scopes : scopes[i].mscope}
      i      == CHOOSE i \in around : \A j \in around : j <= i
  IN  IF around = {} THEN NoMethod
      ELSE [ainfo |-> scopes[i].ainfo, level |-> Len(scopes) - i]

\* mscope_operand.
OperandTooLarge(m) == m.ainfo > 4095 \/ m.level > 15
MscopeOperand(m)   == m.ainfo * 16 + m.level

\* gen_blkmove: the register of the block comes behind those of the parameters.
BlockRegister(ainfo) ==
  ((ainfo \div 2^7) % 64) + ((ainfo \div 2^6) % 2) + ((ainfo \div 2) % 32) + (ainfo % 2) + 1
GenBlkmove(m) ==
  <<IF m.level = 0 THEN Move(SP, N(BlockRegister(m.ainfo)), FALSE)
    ELSE Op3("GETUPVAR", SP, N(BlockRegister(m.ainfo)), N(m.level - 1)), Push(1)>>

\* The arguments and keywords of n, coded from register sp on.
WithKeywords(args, kw) ==
  [calls |-> GenArgumentsPushed(args) \o kw.calls,
   n     |-> IF args.n < 0 THEN CALL_MAXARGS ELSE args.n,
   nk    |-> IF kw.n < 0 THEN CALL_MAXARGS ELSE kw.n,
   stack |-> Room(args) + IF kw.n < 0 THEN 1 ELSE 2 * kw.n]
GenMethodArguments(n, sp) ==
  LET args == GenValues(Items(n, ArgRoles), sp, CallArgLimit)
  IN  WithKeywords(args, GenHash(Items(n, KwRoles), sp + Room(args), CallArgLimit))

YieldTo(m, args, val) ==
  <<Push(1)>> \o args.calls \o <<Push(1), Pop(1), Pop(args.stack + 1),
     Op("BLKPUSH", SP, N(MscopeOperand(m)))>>
    \o (IF args.nk = 0 /\ args.n < CALL_MAXARGS
        THEN <<Op("BLKCALL", SP, N(args.n))>>
        ELSE <<Op3("SEND", SP, Sym("call", 0), N(args.n + 16 * args.nk))>>)
    \o PushIf(val)
GenYield(n, sp, m, val) ==
  IF m = NoMethod \/ OperandTooLarge(m) THEN <<Fail>>
  ELSE YieldTo(m, GenMethodArguments(n, sp + 1), val)

\* The block is given in brackets, or it is the one of the method.
SuperWith(m, args, block, val) ==
  <<Push(1)>> \o args.calls
    \o (CASE block # <<>> -> GenBlockOf(block) \o <<Push(1)>>
          [] block = <<>> /\ m # NoMethod -> GenBlkmove(m)
          [] OTHER -> NilIf(TRUE))
    \o <<Pop(args.stack + 2), Op("SUPER", SP, N(args.n + 16 * args.nk))>> \o PushIf(val)
GenSuper(n, sp, m, val) ==
  SuperWith(m, GenMethodArguments(n, sp + 1), Items(n, BlockRoles), val)

\* A bare `super` passes on what the parameters hold now; that is not done for
\* keywords.
GenZsuper(m, val) ==
  <<Set("save", SP), Push(1)>>
    \o (CASE m.ainfo > 0 /\ (m.ainfo % 2 = 1 \/ OperandTooLarge(m)) -> <<Fail>>
          [] m.ainfo > 0 /\ ~(m.ainfo % 2 = 1 \/ OperandTooLarge(m)) ->
               <<Op("ARGARY", SP, N(MscopeOperand(m))), Push(3), Pop(3)>>
          [] m.ainfo = 0 -> GenBlkmove(m)
          [] m = NoMethod -> NilIf(TRUE))
    \o <<SetSp(V("save")), Op("SUPER", SP, N(IF m.ainfo > 0 THEN CALL_MAXARGS ELSE 0))>>
    \o PushIf(val)

================================================================================
