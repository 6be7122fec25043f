--------------------------------- MODULE Calls ---------------------------------
(* The calls a node handler of handlers.rs makes, and the nodes it makes them   *)
(* for.  A handler is a sequence of calls: Gen codes a child node, the others   *)
(* are the methods of `Scope`.                                                  *)
EXTENDS Scope

--------------------------------------------------------------------------------
(* Nodes of the syntax tree.  A child is the number of its node, Absent when it *)
(* is missing (`None`), Empty for a clause that is there and holds no           *)
(* statements.  The shape says what each child is to its parent: a receiver, an *)
(* argument, an argument under `*`, and so on.                                  *)

Absent == 0
Empty  == -1

Node(kind, name, shape, kids) ==
  [kind |-> kind, name |-> name, shape |-> shape, kids |-> kids]

\* Arguments, keywords and pairs, and blocks; the nameless ones are parameters of the
\* method around, and so are those that "forward" passes on.
ArgRoles   == {"arg", "splat", "anon splat", "forward"}
KwRoles    == {"key", "value", "dsplat", "anon dsplat"}
BlockRoles == {"block", "emptyblock", "literal", "blockarg", "anon blockarg"}

\* The children of node n that are one of these to it, as pairs of what they are
\* and their number, and the numbers alone.
Items(n, roles) ==
  SelectSeq([i \in DOMAIN n.kids |-> <<n.shape[i], n.kids[i]>>],
            LAMBDA item : item[1] \in roles)
Kids(n, roles) == [i \in DOMAIN Items(n, roles) |-> Items(n, roles)[i][2]]

--------------------------------------------------------------------------------
(* The calls a handler makes.  An operand is a register or a number: the stack  *)
(* pointer, a local variable of the handler, or a constant.                     *)

SP     == <<"sp">>
SpOff(n) == <<"sp+", n>>
V(v)   == <<"var", v>>
N(n)   == <<"=", n>>

Gen(id, val)        == <<"gen", id, val>>
Push(n)             == <<"push", n>>
Pop(n)              == <<"pop", n>>
Op3(op, a, b, c)    == <<"emit", op, a, b, c>>
Op(op, a, b)        == Op3(op, a, b, N(0))
Jump(v, op)         == <<"jump", v, op, N(JMPLINK_START)>>  \* v = genjmp(op, START)
Linked(v, op)       == <<"jump", v, op, V(v)>>              \* v = genjmp(op, v)
JumpTo(op, to)      == <<"jump", "unused", op, to>>
CondOn(v, op, reg, val) == <<"cond", v, op, reg, val>>    \* v = genjmp2(op, reg, v)
Cond(v, op, val)    == CondOn(v, op, SP, val)
KeepLink(v, old)    == <<"keeplink", v, old>>   \* v = old when v is no link
Land(v)             == <<"land", v>>                        \* dispatch(v)
LandAll(v)          == <<"landall", v>>                     \* dispatch_linked(v)
Label(v)            == <<"label", v>>                       \* v = new_label()
Mark(v)             == <<"mark", v>>                        \* v = pc
Set(v, x)           == <<"set", v, x>>
SetSp(x)            == <<"sp", x>>
Move(dst, src, np)  == <<"move", dst, src, np>>
Ret(op, src)        == <<"ret", op, src>>
Loop(kind)          == <<"loop", kind>>
LoopSet(field, x)   == <<"loopset", field, x>>
Unloop(val)         == <<"unloop", val>>
BreakOut(index)     == <<"breakout", index>>
Catch(v)            == <<"catch", v>>                       \* v = catch_new()
CatchIs(v, kind, b, e, t) == <<"catchis", v, kind, b, e, t>>
ReadVar(name)       == <<"readvar", name>>
StoreVar(name, src, val) == <<"storevar", name, src, val>>
ReadHere(name)      == <<"readhere", name>>   \* the local of this name, not of a scope around
ReadMark(name)      == <<"readmark", name>>   \* the parameter of this name, wherever it is
Setxv(op, src, sym, val) == <<"setxv", op, src, sym, val>>
IntAt(reg, n)       == <<"int", reg, n>>                    \* gen_int
LoadInt(n)          == IntAt(SP, n)
Intern              == <<"intern">>
Addsub(op)          == <<"addsub", op>>
\* The literal absorbs its sign, or these calls are made; an index opcode is
\* emitted, or these calls are made.
Uniop(minus, calls) == <<"uniop", minus, calls>>
Binop(calls)        == <<"binop", calls>>
Alternate           == <<"alternate">>
Give(v, x)          == <<"give", v, x>>     \* the parent's variable v
\* A scope with these locals, for a "Block", a "Method", a "Body", or the "For" one.
Open(kind, lv, ainfo) == <<"open", kind, lv, ainfo>>
Close(v)            == <<"close", v>>                       \* v = pop_scope()
Done(sp)            == <<"done", sp>>   \* the node is coded; sp must have this value
Fail                == <<"fail">>

Load(op)    == Op(op, SP, N(0))
PushIf(val) == IF val THEN <<Push(1)>> ELSE <<>>
PopIf(val)  == IF val THEN <<Pop(1)>> ELSE <<>>
NilIf(val)  == IF val THEN <<Load("LOADNIL"), Push(1)>> ELSE <<>>

\* Symbols and classes, as operands.
ERRINFO       == N(<<"errinfo">>)
StandardError == N(<<"class", 2>>)
Exception     == N(<<"class", 3>>)

\* The method a call names: every "m", "a" and "a=" is a method of its own, so it
\* goes by the node that calls it.
Sym(name, id) == N(IF name \in {"m", "a", "a=", "each", "def", "lambda", "class", "module"} THEN <<name, id>> ELSE <<name, 0>>)

================================================================================
