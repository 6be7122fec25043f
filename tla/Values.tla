--------------------------------- MODULE Values --------------------------------
(* The handlers that make values (handlers.rs): literals, strings and what is   *)
(* interpolated into them, variables and constants, arrays, hashes, arguments   *)
(* and calls.                                                                   *)
(*                                                                              *)
(* A handler is given sp, the stack pointer it starts with: the lists of items  *)
(* are gathered into arrays and hashes when the stack reaches a limit, and      *)
(* every item leaves one register more.                                         *)
EXTENDS Calls
LOCAL INSTANCE SequencesExt

CONSTANTS
  CallArgLimit,   \* arguments a call has room for (CALL_ARG_LIMIT, 14)
  LitAryMax,      \* items of a literal that are not gathered (LIT_ARY_MAX, 64)
  ValStackMax     \* registers from which items are gathered (VAL_STACK_MAX, 99)

CALL_MAXARGS == 15   \* the arguments are in an array
FORWARD_ARGS == 255  \* so are the keywords, and a block is behind them

ASSUME ValuesAssumption ==
  /\ CallArgLimit \in 1 .. CALL_MAXARGS - 1 /\ LitAryMax \in Nat /\ ValStackMax \in Nat

--------------------------------------------------------------------------------
(* Literals.                                                                    *)

Text == <<<<"text">>>>   \* a string of one piece

Literals == {"Int", "Zero", "True", "False", "Nil", "Self", "Str", "Symbol", "Float"}

\* A literal is coded only when its value is wanted.
GenLiteral(kind, val) ==
  IF ~val THEN <<>>
  ELSE <<CASE kind = "Int"   -> LoadInt(5)
           [] kind = "Zero"  -> LoadInt(0)
           [] kind = "True"  -> Load("LOADTRUE")
           [] kind = "False" -> Load("LOADFALSE")
           [] kind = "Nil"   -> Load("LOADNIL")
           [] kind = "Self"  -> Load("LOADSELF")
           [] kind = "Str"   -> Op("STRING", SP, N(Text))
           [] kind = "Symbol" -> Op("LOADSYM", SP, N(Text))
           [] kind = "Float" -> Op("LOADF", SP, N(0)), Push(1)>>

\* `2r` is Rational(2, 1) and `2i` is Complex(0, 2).
GenRational(val) ==
  IF ~val THEN <<>>
  ELSE <<Set("recv", SP), Push(1), LoadInt(5), Push(1), LoadInt(1), Push(1),
         Push(1), Pop(1), Pop(3), Op3("SSEND", V("recv"), Sym("Rational", 0), N(2)),
         Push(1)>>

GenImaginary(numeric, val) ==
  IF ~val THEN <<>>
  ELSE <<Set("recv", SP), Push(1), LoadInt(0), Push(1), Gen(numeric, TRUE),
         Push(1), Pop(1), Pop(3), Op3("SSEND", V("recv"), Sym("Complex", 0), N(2)),
         Push(1)>>

\* `__ENCODING__` is a call whose value stays whether it is wanted or not.
GenSourceEncoding ==
  <<Op3("SSEND", SP, Sym("__ENCODING__", 0), N(0)), Push(1), Push(1), Pop(1)>>

GenRange(left, right, exclusive, val) ==
  (IF left = Absent THEN NilIf(val) ELSE <<Gen(left, val)>>)
    \o (IF right = Absent THEN NilIf(val) ELSE <<Gen(right, val)>>)
    \o (IF val THEN <<Pop(2), Load(IF exclusive THEN "RANGE_EXC" ELSE "RANGE_INC"),
                      Push(1)>>
        ELSE <<>>)

--------------------------------------------------------------------------------
(* Strings, symbols, regular expressions and commands with parts.               *)

LoadText(text) == <<Op("STRING", SP, N(text)), Push(1)>>

\* A part is a piece of text ("text"), coded as a literal string, or code.
GenPart(part, val) ==
  IF part[1] = "text" THEN (IF val THEN LoadText(Text) ELSE <<>>)
  ELSE <<Gen(part[2], val)>>

\* The parts are appended to the first, or to an empty string when that is code.
JoinParts(parts) ==
  LET begin == parts[1][1] # "text"
      join(i) == GenPart(parts[i], TRUE) \o <<Pop(1)>>
                   \o (IF begin \/ i > 1 THEN <<Pop(1), Load("STRCAT")>> ELSE <<>>)
                   \o <<Push(1)>>
  IN  (IF begin THEN LoadText(<<>>) ELSE <<>>)
        \o FlattenSeq([i \in DOMAIN parts |-> join(i)])

\* Of a string nobody wants only the code is coded.
GenInterpLoop(parts, val) ==
  IF val THEN JoinParts(parts)
  ELSE FlattenSeq([i \in DOMAIN parts |-> GenPart(parts[i], FALSE)])

GenInterpSymbol(parts, val) ==
  GenInterpLoop(parts, val) \o (IF val THEN <<Pop(1), Intern, Push(1)>> ELSE <<>>)

RegexpClass == <<Load("OCLASS"), Op("GETMCNST", SP, Sym("Regexp", 0)), Push(1)>>

\* The strings for options and encoding, and how many they are.
RegexpFlags(flags, placeholder) ==
  LET opt == IF "opt" \in flags THEN LoadText(<<<<"opt">>>>)
             ELSE IF placeholder /\ "enc" \in flags THEN <<Load("LOADNIL"), Push(1)>>
             ELSE <<>>
      enc == IF "enc" \in flags THEN LoadText(<<<<"enc">>>>) ELSE <<>>
  IN  [calls |-> opt \o enc, n |-> (Len(opt) + Len(enc)) \div 2]

RegexpCompile(n) ==
  <<Push(1), Pop(n + 2), Op3("SEND", SP, Sym("compile", 0), N(n)), Push(1)>>

GenRegexp(flags, val) ==
  LET f == RegexpFlags(flags, TRUE) IN
    IF ~val THEN <<>>
    ELSE RegexpClass \o LoadText(Text) \o f.calls \o RegexpCompile(1 + f.n)

GenInterpRegexp(parts, flags, val) ==
  LET f == RegexpFlags(flags, FALSE) IN
    IF ~val THEN GenInterpLoop(parts, FALSE)
    ELSE RegexpClass \o JoinParts(parts) \o f.calls \o RegexpCompile(1 + f.n)

\* A command is a call of ` on self, and is made whether its value is wanted.
GenXstring(parts, val) ==
  <<Load("LOADSELF"), Push(1)>> \o JoinParts(parts)
    \o <<Push(1), Pop(3), Op3("SSEND", SP, Sym("backquote", 0), N(1))>> \o PushIf(val)

--------------------------------------------------------------------------------
(* Variables and constants.                                                     *)

GenLvar(name, val)  == IF val THEN <<ReadVar(name), Push(1)>> ELSE <<>>
GenConst(val) == <<Op("GETCONST", SP, N(<<"class", 4>>))>> \o PushIf(val)

\* The instructions that read and write a variable; each kind has one of them.
Getter(var) == CASE var = "ivar" -> "GETIV" [] var = "gvar" -> "GETGV"
                 [] var = "cvar" -> "GETCV" [] var = "const" -> "GETCONST"
Setter(var) == CASE var = "ivar" -> "SETIV" [] var = "gvar" -> "SETGV"
                 [] var = "cvar" -> "SETCV" [] var = "const" -> "SETCONST"
Name(var)   == N(<<var>>)

GenRead(var, val) == <<Op(Getter(var), SP, Name(var))>> \o PushIf(val)

GenConstPathRead(parent, val) ==
  (IF parent = Absent THEN <<Load("OCLASS")>> ELSE <<Gen(parent, TRUE), Pop(1)>>)
    \o <<Op("GETMCNST", SP, Sym("Name", 0))>> \o PushIf(val)

\* `$&` and `$1` ask `$~` for a group, `$'` for what follows the match; they are
\* nil when it is.
GenMatchRef(method, group, val) ==
  IF ~val THEN <<>>
  ELSE <<Op("GETGV", SP, Name("match")), Cond("skip", "JMPNIL", TRUE), Push(1)>>
         \o (IF group THEN <<LoadInt(1), Push(1)>> ELSE <<>>)
         \o <<Push(1), Pop(1), Pop(IF group THEN 2 ELSE 1),
              IF group THEN Op3("SEND", SP, Sym(method, 0), N(1))
              ELSE Op("SEND0", SP, Sym(method, 0)),
              Land("skip"), Push(1)>>

--------------------------------------------------------------------------------
(* Lists of values.                                                             *)

Splat(item) == item[1] \in {"splat", "anon splat"}
SplatValue(item) ==
  IF item[1] = "splat" THEN <<Gen(item[2], TRUE)>> ELSE <<ReadHere("*"), Push(1)>>

\* `...`: the rest joins the array, the keywords are a hash above it, and the block
\* above that one.
Forwarded == <<ReadMark("*"), Pop(1), Load("ARYCAT"), Push(1), Op("HASH", SP, N(0)), Push(1),
               ReadMark("**"), Pop(1), Load("HASHCAT"), Push(1), ReadMark("&")>>

\* Items coded before a splat, or up to the stack limit, become an array, or join
\* the one there is.
FlushValues(a) ==
  LET pop == <<Pop(a.n)>> IN
    CASE a.first ->
           [a EXCEPT !.calls = a.calls \o pop
                       \o <<IF a.n = 0 THEN Load("LOADNIL")
                                       ELSE Op("ARRAY", SP, N(a.n)), Push(1)>>,
                     !.sp = a.sp - a.n + 1, !.n = 0, !.first = FALSE,
                     !.limit = LitAryMax]
      [] ~a.first /\ a.n > 0 ->
           [a EXCEPT !.calls = a.calls \o pop
                       \o <<Pop(1), Op("ARYPUSH", SP, N(a.n)), Push(1)>>,
                     !.sp = a.sp - a.n, !.n = 0]
      [] OTHER -> [a EXCEPT !.calls = a.calls \o pop]

\* Faulty variant: a splat behind an array that is there joins it first.
AddValueLate(a, item, slimit) ==
  IF Splat(item) /\ a.first
  THEN LET b == FlushValues(a) IN
         [b EXCEPT !.calls = b.calls \o <<Gen(item[2], TRUE), Pop(2), Load("ARYCAT"),
                                          Push(1)>>]
  ELSE IF Splat(item)
  THEN [a EXCEPT !.calls = a.calls \o <<Gen(item[2], TRUE), Pop(2 + a.n), Load("ARYCAT"),
                                        Push(1 + a.n)>>]
  ELSE LET b == IF a.sp >= slimit THEN FlushValues(a) ELSE a IN
         [b EXCEPT !.calls = Append(b.calls, Gen(item[2], TRUE)),
                   !.sp = b.sp + 1, !.n = b.n + 1]

AddValue(a, item, slimit) ==
  LET b == IF Splat(item) \/ item[1] = "forward" \/ a.sp >= slimit
           THEN FlushValues(a) ELSE a
  IN  CASE Splat(item) ->
             [b EXCEPT !.calls = b.calls \o SplatValue(item)
                                   \o <<Pop(2), Load("ARYCAT"), Push(1)>>]
        [] item[1] = "forward" -> [b EXCEPT !.calls = b.calls \o Forwarded, !.sp = b.sp + 1]
        [] OTHER -> [b EXCEPT !.calls = Append(b.calls, Gen(item[2], TRUE)),
                              !.sp = b.sp + 1, !.n = b.n + 1]

\* The items, one after the other.
RECURSIVE AddValues(_, _, _)
AddValues(a, items, slimit) ==
  IF items = <<>> THEN a
  ELSE AddValues(AddValue(a, Head(items), slimit), Tail(items), slimit)

\* gen_values: the calls that code the items, and how many registers they take,
\* or -1 when the items are one array, which is left at the stack pointer.
GenValues(items, sp, limit) ==
  LET slimit == IF sp >= ValStackMax THEN MaxSp ELSE ValStackMax
      coded  == AddValues([calls |-> <<>>, sp |-> sp, n |-> 0, first |-> TRUE,
                           limit |-> IF limit = 0 THEN LitAryMax ELSE limit],
                          items, slimit)
  IN  CASE ~coded.first ->
             [n |-> -1, calls |-> coded.calls \o <<Pop(1)>> \o
                (IF coded.n > 0 THEN <<Pop(coded.n), Op("ARYPUSH", SP, N(coded.n))>>
                 ELSE <<>>)]
        [] coded.first /\ coded.n > coded.limit ->
             [n |-> -1, calls |-> coded.calls
                          \o <<Pop(coded.n), Op("ARRAY", SP, N(coded.n))>>]
        [] OTHER -> [n |-> coded.n, calls |-> coded.calls]

GenValuesUnvalued(items) == [i \in DOMAIN items |-> Gen(items[i][2], FALSE)]

\* gen_array and gen_arguments: all items are one array.
ArrayOf(values) ==
  values.calls
    \o (IF values.n >= 0 THEN <<Pop(values.n), Op("ARRAY", SP, N(values.n))>> ELSE <<>>)
    \o <<Push(1)>>
GenArray(items, sp, val) ==
  IF val THEN ArrayOf(GenValues(items, sp, 0)) ELSE GenValuesUnvalued(items)

--------------------------------------------------------------------------------
(* Hashes and keyword arguments.  An element is a key, followed by its value, or *)
(* a hash under `**`.                                                           *)

\* The pairs make a hash, or join the one there is.
FlushPairs(a) ==
  [a EXCEPT !.calls = a.calls \o <<Pop(2 * a.n)>>
              \o (IF a.update THEN <<Pop(1), Op("HASHADD", SP, N(a.n))>>
                  ELSE <<Op("HASH", SP, N(a.n))>>) \o <<Push(1)>>,
            !.sp = a.sp - 2 * a.n + IF a.update THEN 0 ELSE 1]

AddSplat(a, item) ==
  LET b == CASE a.first -> [a EXCEPT !.calls = a.calls \o <<Op("HASH", SP, N(0)), Push(1)>>,
                                     !.sp = a.sp + 1, !.update = TRUE]
             [] ~a.first /\ a.n > 0 -> FlushPairs(a)
             [] OTHER -> a
      joined == a.n > 0 \/ b.update
  IN  [b EXCEPT !.calls = b.calls
                  \o (IF item[1] = "dsplat" THEN <<Gen(item[2], TRUE)>>
                      ELSE <<ReadHere("**"), Push(1)>>)
                  \o (IF joined THEN <<Pop(1), Pop(1), Load("HASHCAT"), Push(1)>>
                      ELSE <<>>),
                !.sp = IF joined THEN b.sp ELSE b.sp + 1,
                !.update = TRUE, !.n = 0]

\* One element; a key that waits for its value changes nothing yet.
AddPair(a, item, slimit) ==
  LET b == CASE item[1] \in {"dsplat", "anon dsplat"} -> AddSplat(a, item)
             [] item[1] = "key" ->
                  [a EXCEPT !.calls = Append(a.calls, Gen(item[2], TRUE)), !.sp = a.sp + 1]
             [] item[1] = "value" ->
                  [a EXCEPT !.calls = Append(a.calls, Gen(item[2], TRUE)),
                            !.sp = a.sp + 1, !.n = a.n + 1]
      c == IF item[1] # "key" /\ b.sp >= slimit
           THEN [FlushPairs(b) EXCEPT !.update = TRUE, !.n = 0] ELSE b
  IN  IF item[1] = "key" THEN c ELSE [c EXCEPT !.first = FALSE]

\* The elements, one after the other.
RECURSIVE AddPairs(_, _, _)
AddPairs(a, items, slimit) ==
  IF items = <<>> THEN a
  ELSE AddPairs(AddPair(a, Head(items), slimit), Tail(items), slimit)

\* gen_hash: as gen_values, but a hash that was made is on the stack.
GenHash(items, sp, limit) ==
  LET slimit == IF sp >= LitAryMax THEN MaxSp ELSE ValStackMax
      coded  == AddPairs([calls |-> <<>>, sp |-> sp, n |-> 0, first |-> TRUE,
                          update |-> FALSE], items, slimit)
  IN  CASE coded.n > limit ->
             [n |-> -1, calls |-> coded.calls \o <<Pop(2 * coded.n),
                                                   Op("HASH", SP, N(coded.n)), Push(1)>>]
        [] coded.n <= limit /\ coded.update ->
             [n |-> -1, calls |-> coded.calls \o
                (IF coded.n > 0
                 THEN <<Pop(2 * coded.n + 1), Op("HASHADD", SP, N(coded.n)), Push(1)>>
                 ELSE <<>>)]
        [] OTHER -> [n |-> coded.n, calls |-> coded.calls]

HashOf(pairs) ==
  pairs.calls
    \o (IF pairs.n >= 0 THEN <<Pop(2 * pairs.n), Op("HASH", SP, N(pairs.n)), Push(1)>>
        ELSE <<>>)
GenHashLit(items, sp, val) ==
  IF val THEN HashOf(GenHash(items, sp, LitAryMax)) ELSE GenValuesUnvalued(items)

--------------------------------------------------------------------------------
(* Calls.  A view of a call has its name, receiver, arguments, keywords, block,  *)
(* and whether it is a safe navigation.                                          *)

CallView(n) ==
  [name  |-> n.name,  recv |-> n.kids[1], self |-> n.shape[1] \in {"absent", "self"},
   args  |-> Items(n, ArgRoles),
   kw    |-> Items(n, KwRoles),
   block |-> Items(n, BlockRoles),
   safe  |-> n.kind \in {"SafeSend", "SafeAttrSet"}]

DirectOps == [op \in {"*", "<"} |-> IF op = "*" THEN "MUL" ELSE "LT"]

\* The name, and the number of arguments and keywords in one operand.
SendCall(id, self, blk, name, nargs, nk) ==
  LET plain == ~blk /\ nargs = 0 /\ nk = 0
      op    == (IF self THEN "SSEND" ELSE "SEND")
                 \o (IF plain THEN "0" ELSE IF blk THEN "B" ELSE "")
  IN  <<Op3(op, SP, Sym(name, id), N(IF plain THEN 0 ELSE nargs + 16 * nk))>>

\* A binary operator with both operands at the stack pointer.
GenBinaryOperator(id, name) ==
  CASE name = "+" -> <<Addsub("ADD")>>
    [] name = "-" -> <<Addsub("SUB")>>
    [] name = "*" -> <<Load("MUL")>>
    [] OTHER      -> <<Op3("SEND", SP, Sym(name, id), N(1))>>

\* The instruction of a call; an operator has one of its own unless something is
\* unusual about the call (noop).
EmitCall(id, self, noop, blk, name, nargs, nk) ==
  LET send == SendCall(id, self, blk, name, nargs, nk) IN
    CASE ~noop /\ nargs = 1 /\ name = "+"   -> <<Addsub("ADD")>>
      [] ~noop /\ nargs = 1 /\ name = "-"   -> <<Addsub("SUB")>>
      [] ~noop /\ nargs = 1 /\ name \in DOMAIN DirectOps -> <<Load(DirectOps[name])>>
      [] ~noop /\ nargs = 1 /\ name = "[]"  -> <<Binop(send)>>
      [] ~noop /\ nargs = 2 /\ name = "[]=" -> <<Load("SETIDX")>>
      [] ~noop /\ nargs = 0 /\ name \in {"+@", "-@"} -> <<Uniop(name = "-@", send)>>
      [] OTHER -> send

\* `recv&.m`: a nil receiver, one below the stack pointer, skips the call.
SafeTest(val) == <<Move(SP, SpOff(-1), TRUE), Cond("skip", "JMPNIL", val)>>

\* The receiver: SSEND fills in self, which is loaded where it is tested.
GenReceiver(view, loaded) ==
  CASE view.recv = Absent         -> <<Push(1)>>
    [] view.recv # Absent /\ view.self /\ ~loaded -> <<Push(1)>>
    [] OTHER -> <<Gen(view.recv, TRUE)>>

\* The operand of ENTER for n mandatory parameters.
ArgsReq(n) == (n % 32) * 2^18

\* enter_block_scope: the body of a block or a lambda is coded in a scope with its
\* parameters, behind what sets them up.
EnterBlockScope(lv, ainfo, aspec, setup, body, op) ==
  <<Open("Block", lv, ainfo), Op("ENTER", N(aspec), N(0))>> \o setup
    \o <<Loop("Block"), Label("pc0"), LoopSet("pc0", V("pc0"))>>
    \o (IF body = Absent THEN NilIf(TRUE) ELSE <<Gen(body, TRUE)>>)
    \o <<Pop(1), Ret("RETURN", SP), Unloop(FALSE), Close("rep"),
         Op(op, SP, V("rep")), Push(1)>>

\* The block of a call is left at the stack pointer, not pushed.
GenBlockOf(block) ==
  CASE block = <<>> -> <<>>
    [] block # <<>> /\ block[1][1] \in {"block", "emptyblock"} ->
         EnterBlockScope(<<"">>, 0, 0, <<>>, block[1][2], "BLOCK") \o <<Pop(1)>>
    [] block # <<>> /\ block[1][1] \in {"literal", "blockarg"} ->
         <<Gen(block[1][2], TRUE), Pop(1)>>
    [] block # <<>> /\ block[1][1] = "anon blockarg" ->
         <<ReadMark("&"), Push(1), Pop(1)>>

\* Faulty variant: gathered arguments leave no register of theirs.
GenArgumentsUnpushed(args) == args.calls
GenArgumentsPushed(args) == args.calls \o IF args.n < 0 THEN <<Push(1)>> ELSE <<>>

\* The registers that arguments leave.
Room(args) == IF args.n < 0 THEN 1 ELSE args.n

CallWith(view, id, args, kw, val) ==
  LET all  == \E i \in DOMAIN view.args : view.args[i][1] = "forward"
      blk  == view.block # <<>> \/ all
      noop == view.self \/ args.n < 0 \/ view.kw # <<>> \/ blk
  IN  <<Set("save", SP)>> \o GenReceiver(view, view.safe)
        \o (IF view.safe THEN SafeTest(val) ELSE <<>>)
        \o GenArgumentsPushed(args) \o kw.calls \o GenBlockOf(view.block)
        \o <<Push(1), Pop(1), SetSp(V("save"))>>
        \o EmitCall(id, view.self, noop, blk, view.name,
                    CASE all -> FORWARD_ARGS [] ~all /\ args.n < 0 -> CALL_MAXARGS
                      [] OTHER -> args.n,
                    IF kw.n < 0 THEN CALL_MAXARGS ELSE kw.n)
        \o (IF view.safe THEN <<Land("skip")>> ELSE <<>>) \o PushIf(val)

GenCallPlain(view, id, sp, val) ==
  LET args == GenValues(view.args, sp + 1, CallArgLimit)
  IN  CallWith(view, id, args, GenHash(view.kw, sp + 1 + Room(args), CallArgLimit), val)

\* A wanted attribute or index write keeps the right-hand side, its last argument,
\* in the register of the result, below the call.
AssignWith(view, id, indices) ==
  LET last    == Len(view.args)
      setidx  == view.name = "[]=" /\ indices.n = 1
  IN  <<Set("top", SP), Push(1), Set("save", SP)>>
        \o GenReceiver(view, view.name = "[]=" \/ view.safe)
        \o (IF view.safe THEN SafeTest(TRUE) ELSE <<>>)
        \o GenArgumentsPushed(indices) \o <<Gen(view.args[last][2], TRUE),
                                           Move(V("top"), SpOff(-1), TRUE)>>
        \o (IF indices.n < 0 THEN <<Pop(2), Op("ARYPUSH", SP, N(1)), Push(1)>> ELSE <<>>)
        \o <<Push(1), Pop(1), SetSp(V("save")),
             IF setidx THEN Load("SETIDX")
             ELSE Op3(IF view.self THEN "SSEND" ELSE "SEND", SP, Sym(view.name, id),
                      N(IF indices.n < 0 THEN CALL_MAXARGS ELSE indices.n + 1))>>
        \o (IF view.safe THEN <<Land("skip")>> ELSE <<>>)
        \o <<SetSp(V("top")), Push(1)>>

GenCallAssign(view, id, sp) ==
  AssignWith(view, id, GenValues(SubSeq(view.args, 1, Len(view.args) - 1), sp + 2,
                                 CallArgLimit - 1))

\* gen_call_impl.
GenCall(n, id, sp, val) ==
  IF n.kind \in {"AttrSet", "SafeAttrSet"} /\ val
  THEN GenCallAssign(CallView(n), id, sp)
  ELSE GenCallPlain(CallView(n), id, sp, val)

--------------------------------------------------------------------------------
(* Arguments of break, next and return.                                         *)

\* gen_retval: one value, one splat, or several in an array; nil when there is
\* none.  The value is at the stack pointer, not pushed.
GenRetval(items, sp) ==
  CASE items = <<>> -> <<Load("LOADNIL")>>
    [] Len(items) = 1 /\ Splat(items[1]) ->
         <<Gen(items[1][2], TRUE), Pop(1), Load("ARYSPLAT")>>
    [] Len(items) = 1 /\ ~Splat(items[1]) -> <<Gen(items[1][2], TRUE), Pop(1)>>
    [] OTHER -> GenArray(items, sp, TRUE) \o <<Pop(1)>>

================================================================================
