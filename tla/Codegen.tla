-------------------------------- MODULE Codegen --------------------------------
(* The bytecode generator (codegen.rs, handlers.rs): the generator holds the    *)
(* calls its handlers still have to make (the program's own call stack), makes  *)
(* them up to the next node, and there an arbitrary syntax tree is grown by one *)
(* node: every tree of at most so many inner nodes as its dialect allows is     *)
(* compiled.                                                                    *)
(*                                                                              *)
(* Abstractions: names, symbols and literals are node numbers or members of     *)
(* small sets; spans, line numbers and messages are left out; the program has   *)
(* the one local x.                                                             *)
EXTENDS Definitions, FiniteSets

CONSTANT Dialects \* the parts of the language the programs are written in, a sequence

\* A dialect has the kinds of node its trees are grown from, the number of inner
\* nodes in a tree, the constructs the handlers get wrong that a tree may hold,
\* the answers the calls of its programs get, and the forms of the kinds that
\* have names, or lists of children: pairs of the name and the children.
ASSUME CodegenAssumption ==
  \A d \in DOMAIN Dialects :
    /\ Dialects[d].nodes \in Nat
    /\ Dialects[d].oddities \subseteq {"EmptyUnlessElse", "EmptyEnsure",
                                       "RedoInCondition", "NextInCondition",
                                       "SafeWriteWanted", "EncodingUnwanted"}

VARIABLES
  dialect,        \* the dialect of this program
  ast,            \* the nodes chosen so far, the root first
  fuel,           \* inner nodes that may still be chosen
  cg              \* the generator: calls to make, open scopes, root, error

\* Of the dialect of this program.
Kinds    == Dialects[dialect].kinds
Oddities == Dialects[dialect].oddities
Forms    == Dialects[dialect].forms

--------------------------------------------------------------------------------
(* Syntax trees.                                                                *)

Leaves == Literals \cup {"Call", "Lvar", "Const", "Read", "Rational", "Encoding",
                         "MatchRef", "Break", "Next", "Redo", "Retry", "Return", "VarTarget", "Bind",
                         "Param", "ItRead", "Alias", "Undef"}
Patterns == {"ValuePattern", "Bind", "Guard", "Alternation", "Capture", "ArrayPattern",
             "HashPattern", "FindPattern"}
Targets == {"VarTarget", "MultiTarget", "IndexTarget", "CallTarget"}
Branches == {"Rescue", "RescueAs", "When"}   \* coded by the handler of their parent
Clauses == Branches \cup Targets \cup Patterns \cup {"BlockLit"}

ConstTrue  == {"True", "Int", "Zero", "Str", "Symbol"}   \* const_true
ConstFalse == {"False", "Nil"}                           \* const_false

\* What its parent looks at before coding a child is fixed with the parent.
KindsOf(class) ==
  CASE class = "true"   -> Kinds \cap ConstTrue
    [] class = "false"  -> Kinds \cap ConstFalse
    [] class = "other"  -> Kinds \ (Clauses \cup ConstTrue \cup ConstFalse)
    [] class = "plain"  -> Kinds \ (Clauses \cup ConstTrue \cup ConstFalse
                                    \cup {"NilCheck"})
    [] class \in {"class", "constant"} -> {"Const"}
    [] class = "self"   -> {"Self"}
    [] class = "rescue" -> Kinds \cap {"Rescue", "RescueAs"}
    [] class = "when"   -> Kinds \cap {"When"}
    [] class \in {"left", "behind", "target"} -> Kinds \cap Targets
    [] class = "rest"   -> Kinds \cap (Targets \ {"MultiTarget"})
    [] class \in {"pattern", "first", "last", "sub", "plain pattern", "taking"} -> Kinds \cap Patterns
    [] class = "literal" -> Kinds \cap {"BlockLit"}
    [] class \in {"req parts", "post parts"} -> Kinds \cap {"MultiTarget"}
    [] class = "whole"  -> Kinds \ (Clauses \cup {"Array"})
    [] OTHER            -> Kinds \ Clauses

Opt == {"any", "absent"}

\* The name and the children a node of each kind may have.
Unnamed(shapes)     == {""} \X shapes
Named(name, shapes) == {name} \X shapes

\* The children of the kinds that have no names.
Shapes(kind) ==
  CASE kind \in {"Seq", "RescueMod"} -> {<<"any", "any">>}
    [] kind = "Paren"              -> {<<x>> : x \in Opt}
    [] kind \in {"Assign", "Imaginary"} -> {<<"any">>}
    [] kind = "ConstPath"          -> {<<x>> : x \in Opt}
    [] kind = "ConstPathWrite"     -> Opt \X {"any"}
    [] kind \in {"Range", "RangeExc"} -> Opt \X Opt
    [] kind = "If"                 -> {"true", "false", "plain"} \X Opt
                                        \X {"any", "absent", "empty"}
    [] kind = "IfNil"              -> Opt \X Opt \X {"any", "absent", "empty"}
    [] kind = "Unless"             ->
         {"true", "false", "plain"}
           \X (IF "EmptyUnlessElse" \in Oddities THEN Opt \cup {"empty"} ELSE Opt)
           \X Opt
    [] kind \in {"While", "Until"} -> {"true", "false", "other"} \X Opt
    [] kind \in {"And", "Or"}      -> {"true", "false", "other"} \X {"any"}
    [] kind = "Begin"              ->
         {k \in Opt \X {"rescue", "absent"} \X Opt \X {"any", "absent", "empty"} :
            k[2] = "absent" =>
              /\ k[3] = "absent" /\ k[4] # "absent"
              /\ k[4] = "empty" => "EmptyEnsure" \in Oddities}
    [] kind \in {"Rescue", "RescueAs"} ->
         {"class", "absent"} \X Opt \X {"rescue", "absent"}
    [] kind = "Case"               -> Opt \X {"when"} \X Opt
    [] kind = "When"               -> {"any"} \X Opt \X Opt \X {"when", "absent"}

FormsOf(kind) ==
  CASE kind \in DOMAIN Forms        -> Forms[kind]
    [] kind = "Call"               -> Named("m", {<<"absent">>})
    [] kind \in Leaves \ {"Call"}  -> Unnamed({<<>>})
    [] kind = "Add"                -> Named("+", {<<"any", "arg">>})
    [] kind = "Neg"                -> Named("-@", {<<"any">>})
    [] kind = "For"                -> Named("x", {"any"} \X Opt)
    [] kind = "NilCheck"           -> Named("nil?", {<<x>> : x \in Opt})
    [] kind = "Block"              -> Named("m", {"absent"} \X {"block", "emptyblock"})
    [] kind \in {"BreakV", "NextV", "ReturnV"} -> Unnamed({<<"arg">>})
    [] OTHER                       -> Unnamed(Shapes(kind))

\* The patterns that would deconstruct what they match (pattern_deconstructs).
Fits(class, kind, shape) ==
  CASE class = "taking" ->
         kind \in {"ArrayPattern", "FindPattern"} \/ \E i \in DOMAIN shape : shape[i] = "taking"
    [] class = "plain pattern" ->
         kind \notin {"ArrayPattern", "FindPattern"} /\ \A i \in DOMAIN shape : shape[i] # "taking"
    [] OTHER -> TRUE

Parent(id) == CHOOSE p \in DOMAIN ast : \E i \in DOMAIN ast[p].kids :
                                            ast[p].kids[i] = id
Place(id) == CHOOSE i \in DOMAIN ast[Parent(id)].kids : ast[Parent(id)].kids[i] = id

Loops == {"While", "Until"}
Procs == {"BlockLit", "Lambda"}
Classes == {"Class", "Module", "SClass"}

\* Child i of node p is in a scope of its own: a body, or a default in front of it.
Inner(p, i) ==
  \/ p.shape[i] = "block"
  \/ p.kind = "For" /\ i # 1
  \/ p.kind \in Procs \cup Classes \cup {"Def"} /\ p.shape[i] \in Parameters \cup {"body"}

\* The nodes with such a scope around this one, the innermost first, and which
\* child of each it is in.
RECURSIVE Owners(_)
Owners(id) ==
  IF id = 1 THEN <<>>
  ELSE LET p == Parent(id) IN
         (IF Inner(ast[p], Place(id)) THEN <<<<ast[p], Place(id)>>>> ELSE <<>>) \o Owners(p)

\* The innermost of them that is of one of these kinds, if any.
OwnerOf(id, kinds) ==
  LET all == SelectSeq(Owners(id), LAMBDA o : o[1].kind \in kinds)
  IN  IF all = <<>> THEN Node("none", "", <<>>, <<>>) ELSE all[1][1]
MethodOf(id) == OwnerOf(id, Classes \cup {"Def"})

\* The names a node knows behind its first i parameters.
Declared(n, i) ==
  CASE n.name = "numbered" -> {"_1", "_2"}
    [] n.kind \in Procs \cup {"Def"} /\ n.name # "numbered" ->
         {ParamName(n.shape, j) : j \in {j \in 1 .. i - 1 : n.shape[j] \in Parameters
                                                          \ {"no block", "forward all"}}}
           \cup (IF n.shape[i] = "body" THEN {PartNames(n.shape)[j] : j \in DOMAIN PartNames(n.shape)}
                 ELSE {})
    [] OTHER -> {}

\* A name is that of a parameter of a scope around this node, or of the program; a
\* default does not read the parameters from its own on.
Visible(id, name) ==
  LET all    == Owners(id)
      knows(o) == name \in Declared(o[1], Len(o[1].shape))
      ends(o) == o[1].kind \in Classes \cup {"Def"} \/ knows(o)
      near   == SelectSeq(all, ends)
  IN  IF near = <<>> THEN name = "x" ELSE name \in Declared(near[1][1], near[1][2])

\* What is passed on belongs to the method.  (`*` and `**` of another scope are not
\* found by their handlers.)
Passable(id, role) ==
  LET method == MethodOf(id)
      here   == Owners(id) # <<>> /\ Owners(id)[1][1] = method
  IN  CASE role = "anon splat"    -> here /\ Has(method.shape, {"anon gather"})
        [] role = "anon dsplat"   -> here /\ Has(method.shape, {"anon keywords"})
        [] role = "anon blockarg" -> Has(method.shape, {"anon ampersand"})
        [] role = "forward"       -> Has(method.shape, {"forward all"})
        [] OTHER -> TRUE

\* The loop or block that `break`, `next` and `redo` at this node belong to, and
\* whether it is the condition of that loop they are in; <<>> when there is none.
RECURSIVE Around(_)
Around(id) ==
  IF id = 1 THEN <<>>
  ELSE LET p == ast[Parent(id)]
           i == Place(id)
       IN  CASE p.kind \in Loops /\ i = 1 -> <<"condition">>
             [] p.kind \in Loops /\ i = 2 -> <<"body">>
             [] Inner(p, i) ->
                  IF \/ p.shape[i] = "block" \/ (p.kind = "For" /\ i = 2)
                     \/ (p.kind \in Procs /\ p.shape[i] = "body")
                  THEN <<"body">> ELSE <<>>
             [] OTHER -> Around(Parent(id))

\* `retry` belongs in the body of a rescue clause of the same method or block.
RECURSIVE InRescue(_)
InRescue(id) ==
  /\ id # 1
  /\ LET p == ast[Parent(id)]
         i == Place(id)
     IN  \/ p.kind \in {"Rescue", "RescueAs", "RescueMod"} /\ i = 2
         \/ /\ ~(p.kind = "Begin" /\ i \in {3, 4})
            /\ ~Inner(p, i)
            /\ InRescue(Parent(id))

InCondition(oddity) == IF oddity \in Oddities THEN {<<"condition">>} ELSE {}

\* Values that are made by calls, but not when nobody wants them.
Unmade == {"MatchRef", "Rational", "Imaginary", "DRegexp", "Lambda"}

\* The variable of the program or of a scope around that a node names.
NameOf(kind, name) ==
  CASE kind \in {"Lvar", "Assign", "Bind", "RescueAs"} -> {"x"}
    [] kind \in {"Param", "For"} /\ name # ""          -> {name}
    [] kind = "VarTarget" /\ Local(name)               -> {name}
    [] OTHER -> {}

\* In a default of the method; what `super` passes on is not all there.
InDefault(id) ==
  \E i \in DOMAIN Owners(id) : Owners(id)[i][1].kind = "Def"
                               /\ Owners(id)[i][1].shape[Owners(id)[i][2]] # "body"

\* The parser refuses what belongs to a scope that is not there.
InPlace(kind, name, shape, id) ==
  /\ \A v \in NameOf(kind, name) : Visible(id, v)
  /\ \A i \in DOMAIN shape : Passable(id, shape[i])
  /\ kind \in {"Return", "ReturnV"} =>
       OwnerOf(id, Classes \cup {"Def", "Lambda"}).kind \notin Classes
  /\ kind \in {"Yield", "ZSuper", "Super"} => MethodOf(id).kind = "Def"
  /\ kind = "ZSuper" => ~Keyed(MethodOf(id).shape) /\ ~InDefault(id)
  /\ kind = "ItRead" => Owners(id) # <<>> /\ Owners(id)[1][1].name = "it"
  /\ kind \in Procs /\ name \in {"it", "numbered"} =>
       \A i \in DOMAIN Owners(id) : Owners(id)[i][1].name \notin {"it", "numbered"}

\* The parser refuses a jump that has nowhere to go.
Accepted(kind, id, val) ==
  CASE kind \in {"Break", "BreakV"} -> Around(id) # <<>>
    [] kind \in {"Next", "NextV"} ->
         Around(id) \in {<<"body">>} \cup InCondition("NextInCondition")
    [] kind = "Redo"  ->
         Around(id) \in {<<"body">>} \cup InCondition("RedoInCondition")
    [] kind = "Retry" -> InRescue(id)
    [] kind = "Guard" -> ast[Parent(id)].kind = "CaseIn"
    [] kind \in {"SafeAttrSet", "SafeCallWrite"} -> ~val \/ "SafeWriteWanted" \in Oddities
    [] kind \in Unmade      -> val
    [] kind = "Encoding"    -> val \/ "EncodingUnwanted" \in Oddities
    [] OTHER          -> TRUE

--------------------------------------------------------------------------------
(* The generator g: `todo` are the calls to make, `scopes` the open scopes, the *)
(* innermost last, `vars` the local variables of the handlers under way.        *)

Scp(g)    == g.scopes[Len(g.scopes)]
Var(g, v) == LET vars == g.vars[Len(g.vars)] IN
               IF v \in DOMAIN vars THEN vars[v] ELSE JMPLINK_START
NoVars    == <<>>

--------------------------------------------------------------------------------
(* codegen_dispatch: the handler of node id of the tree, which is coded in the  *)
(* innermost scope of g.                                                        *)

Handler(g, tree, id, val) ==
  LET n     == tree[id]
      k     == n.kids
      kind  == n.kind
      class == IF k # <<>> /\ k[1] > 0 THEN tree[k[1]].kind ELSE "none"
      s     == Scp(g)
      args  == Items(n, ArgRoles)
      all   == Items(n, {"any", "text"} \cup ArgRoles \cup KwRoles)
      m     == MethodScope(g.scopes)
  IN  CASE kind \in Literals  -> GenLiteral(kind, val)
        [] kind \in {"Call", "Add", "Neg", "NilCheck", "Block", "Send", "SafeSend",
                     "AttrSet", "SafeAttrSet"} -> GenCall(n, id, s.sp, val)
        [] kind = "Rational"  -> GenRational(val)
        [] kind = "Imaginary" -> GenImaginary(k[1], val)
        [] kind = "Encoding"  -> GenSourceEncoding
        [] kind \in {"Range", "RangeExc"} ->
             GenRange(k[1], k[2], kind = "RangeExc", val)
        [] kind = "DStr"      -> GenInterpLoop(all, val)
        [] kind = "DSym"      -> GenInterpSymbol(all, val)
        [] kind = "DRegexp"   -> GenInterpRegexp(all, IF n.name = "opt" THEN {"opt"} ELSE {}, val)
        [] kind = "XStr"      -> GenXstring(all, val)
        [] kind = "Lvar"      -> GenLvar("x", val)
        [] kind = "Param"     -> GenLvar(n.name, val)
        [] kind = "Const"     -> GenConst(val)
        [] kind = "Read"      -> GenRead(n.name, val)
        [] kind = "ConstPath" -> GenConstPathRead(k[1], val)
        [] kind = "MatchRef"  -> GenMatchRef(n.name, n.name = "[]", val)
        [] kind = "Array"     -> GenArray(args, s.sp, val)
        [] kind = "Hash"      -> GenHashLit(all, s.sp, val)
        [] kind = "Seq"       -> <<Gen(k[1], FALSE), Gen(k[2], val)>>
        [] kind = "Paren"     -> GenElse(k[1], val)
        [] kind = "Assign"    -> GenWrite("x", k[1], val)
        [] kind = "Write"     -> GenWrite(n.name, k[1], val)
        [] kind = "ConstPathWrite" -> GenConstPathWrite(k[1], k[2], val)
        [] kind = "OpWrite"   -> GenOpWrite(id, n.name[1], n.name[2], k[1], val)
        [] kind = "LogicWrite" -> GenLogicWrite(n.name[1], n.name[2] = "or", k[1], val)
        [] kind \in {"CallWrite", "SafeCallWrite"} -> GenCallWrite(n, id, val)
        [] kind = "IndexWrite" -> GenIndexWrite(n, id, s.sp, val)
        [] kind = "MultiWrite" -> GenMultiWrite(n, s.sp, val)
        [] kind = "CaseIn"    -> GenCaseMatch(n, s.sp, val)
        [] kind = "MatchIn"   -> GenMatchPredicate(k[1], k[2], s.sp, val)
        [] kind = "MatchTo"   -> GenMatchRequired(k[1], k[2], s.sp, val)
        [] kind \in Patterns  -> GenPattern(n, s.sp, N(Var(g, "target")), N(Var(g, "chain")),
                                            Var(g, "known"), Var(g, "cache"))
        [] kind \in Targets   -> GenTarget(n, id, s.sp, Var(g, "src"))
        [] kind \in {"If", "Unless"} -> GenIf(class, k[1], k[2], k[3], val)
        [] kind = "IfNil"     -> GenIfNil(k[1], k[2], k[3], val)
        [] kind \in {"And", "Or"} -> GenLogic(class, k[1], k[2], val, kind = "Or")
        [] kind \in Loops     -> GenWhile(class, k[1], k[2], val, kind = "Until")
        [] kind = "Case"      -> GenCase(k[1], k[2], k[3], val)
        [] kind = "When"      -> GenWhen(k[1], k[2], k[3], k[4], val,
                                         Var(g, "head") # JMPLINK_START)
        [] kind = "Begin"     -> GenBegin(k[1], k[2], k[3], k[4], val)
        [] kind \in {"Rescue", "RescueAs"} ->
             GenRescue(k[1], k[2], k[3], kind = "RescueAs", val)
        [] kind = "RescueMod" -> GenRescueModifier(k[1], k[2], val)
        [] kind \in {"Return", "ReturnV"} -> GenReturnNode(s, args, val)
        [] kind \in {"Break", "BreakV"}   -> LoopBreak(s, args) \o PushIf(val)
        [] kind \in {"Next", "NextV"}     -> GenNext(s, args, val)
        [] kind = "Redo"      -> GenRedo(s, val)
        [] kind = "Retry"     -> GenRetry(s, val)
        [] kind = "For"       -> GenFor(n, id, s.nlocals + 1, val)
        [] kind = "BlockLit"  -> GenBlock(n, val)
        [] kind = "Lambda"    -> GenLambda(n, val)
        [] kind = "ItRead"    -> GenItRead(val)
        [] kind = "Def"       -> GenDef(n, id, s.reps, val)
        [] kind = "Class"     -> GenClass(n.name, id, k[1], k[2], k[3], val)
        [] kind = "Module"    -> GenModule(n.name, id, k[1], k[2], val)
        [] kind = "SClass"    -> GenSclass(k[1], k[2], val)
        [] kind = "Alias"     -> GenAlias(val)
        [] kind = "Undef"     -> GenUndef(val)
        [] kind = "Yield"     -> GenYield(n, s.sp, m, val)
        [] kind = "Super"     -> GenSuper(n, s.sp, m, val)
        [] kind = "ZSuper"    -> GenZsuper(m, val)

--------------------------------------------------------------------------------
(* Making one call.                                                             *)

\* search_upvar: slot and level of a name in the scopes around the current one.
SearchUpvar(g, name) ==
  LET around == {i \in 1 .. Len(g.scopes) - 1 : LvIdx(g.scopes[i], name) > 0}
      i      == CHOOSE i \in around : \A j \in around : j <= i
  IN  [found |-> around # {}, slot  |-> LvIdx(g.scopes[i], name),
       level |-> Len(g.scopes) - 1 - i]

\* The depth the front end gives a use of a name: the scopes it counts, which are
\* not those of `for`, between the use and the scope that declares it.
Depth(g, name) ==
  LET owners == {i \in 1 .. Len(g.scopes) : LvIdx(g.scopes[i], name) > 0}
      owner  == CHOOSE i \in owners : \A j \in owners : j <= i
  IN  Cardinality({i \in owner + 1 .. Len(g.scopes) : ~g.scopes[i].invisible})

LocalHere(g, name) == Depth(g, name) + Scp(g).forDepth = 0

Value(g, x) ==
  CASE x[1] = "sp" -> Scp(g).sp [] x[1] = "sp+" -> Scp(g).sp + x[2]
    [] x[1] = "var" -> Var(g, x[2]) [] OTHER -> x[2]

InScope(g, s)   == [g EXCEPT !.scopes[Len(g.scopes)] = s]
Let(g, v, x)    == [g EXCEPT !.vars[Len(g.vars)] = (v :> x) @@ @]
SetLoop(s, f, x) == [s EXCEPT !.loops[Len(s.loops)] = [@ EXCEPT ![f] = x]]
Failed(g)       == [g EXCEPT !.error = TRUE, !.todo = <<>>]

\* push_body, push_method_body, and the scopes of blocks and of `for`.
OpenScope(g, kind, lv, ainfo) ==
  LET s == IF kind = "For" THEN ForScope(Scp(g))
           ELSE [ChildScope(lv) EXCEPT !.mscope = kind = "Method", !.ainfo = ainfo]
  IN  IF TooManyLocals(s.lv) THEN Failed(g)
      ELSE [g EXCEPT !.scopes = Append(g.scopes, s)]

\* scope_finish and pop_scope: the finished irep joins its parent, or is the root.
Irep(s) == [code |-> s.code, catches |-> s.catches, nlocals |-> s.nlocals,
            nregs |-> s.nregs, reps |-> s.reps]
CloseScope(g, v) ==
  LET outer == SubSeq(g.scopes, 1, Len(g.scopes) - 1)
      n     == Len(outer)
      irep  == Irep(Scp(g))
  IN  IF n = 1 THEN [g EXCEPT !.scopes = outer, !.root = <<irep>>]
      ELSE Let([g EXCEPT !.scopes =
                  [outer EXCEPT ![n].reps = Append(outer[n].reps, irep)]],
               v, Len(outer[n].reps) + 1)

\* gen_move, which calls itself behind every MOVE it drops.
MoveCall(g, dst, src, nopeep) ==
  LET s == Scp(g) IN
    IF nopeep THEN InScope(g, PlainMove(s, dst, src))
    ELSE IF MoveAgain(s, dst, src)
         THEN [InScope(g, MoveStep(s, dst, src)) EXCEPT
                 !.todo = <<Move(N(dst), N(MoveSource(s, src)), FALSE)>> \o g.todo]
         ELSE InScope(g, MoveStep(s, dst, src))

ReadVarCall(g, name) ==
  LET s  == Scp(g)
      up == SearchUpvar(g, name)
  IN  IF LocalHere(g, name) THEN InScope(g, PlainMove(s, s.sp, LvIdx(s, name)))
      ELSE IF ~up.found THEN Failed(g)
           ELSE InScope(g, GenGetupvar(s, s.sp, up.slot, up.level))

StoreVarCall(g, name, src, val) ==
  LET s  == Scp(g)
      up == SearchUpvar(g, name)
  IN  IF LocalHere(g, name)
      THEN IF LvIdx(s, name) = src THEN g ELSE MoveCall(g, LvIdx(s, name), src, val)
      ELSE IF ~up.found THEN Failed(g)
           ELSE InScope(g, GenSetupvar(s, src, up.slot, up.level, val))

\* A parameter that is passed on, from this scope or one around it.
ReadMarkCall(g, name) ==
  LET s  == Scp(g)
      up == SearchUpvar(g, name)
  IN  IF LvIdx(s, name) > 0 THEN MoveCall(g, s.sp, LvIdx(s, name), TRUE)
      ELSE IF ~up.found THEN Failed(g)
           ELSE InScope(g, GenGetupvar(s, s.sp, up.slot, up.level))

\* The link of a jump, kept in v.
JumpCall(g, v, op, dest) ==
  LET s == Scp(g)
      t == Genjmp(s, op, dest)
  IN  IF JumpTooFar(s, dest) THEN Failed(g) ELSE Let(InScope(g, t), v, Slot(t))

CondCall(g, v, op, reg, val) ==
  LET s == Scp(g)
      d == Var(g, v)
  IN  IF JumpTooFar(s, d) THEN Failed(g)
      ELSE Let(InScope(g, Genjmp2(s, op, reg, d, val)), v,
               Genjmp2Link(s, op, reg, d, val))

\* When the left alternative ends with a failing jump, that becomes the jump that
\* skips the right one; its place in the chain of failures is taken by the one before.
AlternateCall(g) ==
  LET s    == Scp(g)
      left == Var(g, "left")
      tail == /\ ~Var(g, "alternation") /\ left # JMPLINK_START
              /\ -left = Len(s.code) /\ s.code[-left].op = "JMPNOT"
      prev == IF s.code[-left].b = 0 THEN JMPLINK_START ELSE s.code[-left].b
  IN  IF tail
      THEN Let(Let(InScope(g, [s EXCEPT !.code[-left].op = "JMPIF", !.code[-left].b = 0]),
                   "success", left), "left", prev)
      ELSE JumpCall(g, "success", "JMP", JMPLINK_START)

\* Faulty variant: a plain jump, which runs no ensure clause on its way.
BreakOutPlainly(g, i) ==
  LET s == Scp(g)
      t == Genjmp(s, "JMP", s.loops[i].pc2)
  IN  IF JumpTooFar(s, s.loops[i].pc2) THEN Failed(g)
      ELSE InScope(g, [t EXCEPT !.loops[i].pc2 = Slot(t)])

BreakOutCall(g, i) ==
  LET s == Scp(g)
      t == Genjmp(s, "JMPUW", s.loops[i].pc2)
  IN  IF JumpTooFar(s, s.loops[i].pc2) THEN Failed(g)
      ELSE InScope(g, [t EXCEPT !.loops[i].pc2 = Slot(t)])

Call(g0) ==
  LET c == Head(g0.todo)
      g == [g0 EXCEPT !.todo = Tail(g0.todo)]
      s == Scp(g)
  IN  CASE c[1] = "push"     -> IF PushOverflows(s, c[2]) THEN Failed(g)
                                ELSE InScope(g, PushN(s, c[2]))
        [] c[1] = "pop"      -> IF PopUnderflows(s, c[2]) THEN Failed(g)
                                ELSE InScope(g, PopN(s, c[2]))
        [] c[1] = "emit"     -> InScope(g, Emit(s, Instr(c[2], Value(g, c[3]),
                                                Value(g, c[4]), Value(g, c[5]))))
        [] c[1] = "jump"     -> JumpCall(g, c[2], c[3], Value(g, c[4]))
        [] c[1] = "cond"     -> CondCall(g, c[2], c[3], Value(g, c[4]), c[5])
        [] c[1] = "keeplink" -> IF Var(g, c[2]) # JMPLINK_START THEN g
                                ELSE Let(g, c[2], Var(g, c[3]))
        [] c[1] = "alternate" -> AlternateCall(g)
        [] c[1] = "give"     -> [g EXCEPT !.vars[Len(g.vars) - 1] =
                                   (c[2] :> Value(g, c[3])) @@ @]
        [] c[1] = "land"     -> IF DispatchTooFar(s, Var(g, c[2])) THEN Failed(g)
                                ELSE InScope(g, Dispatch(s, Var(g, c[2])))
        [] c[1] = "landall"  -> InScope(g, DispatchLinked(s, Var(g, c[2])))
        [] c[1] = "label"    -> Let(InScope(g, NewLabel(s)), c[2], Pc(s))
        [] c[1] = "mark"     -> Let(g, c[2], Pc(s))
        [] c[1] = "set"      -> Let(g, c[2], Value(g, c[3]))
        [] c[1] = "sp"       -> InScope(g, [s EXCEPT !.sp = Value(g, c[2])])
        [] c[1] = "move"     -> MoveCall(g, Value(g, c[2]), Value(g, c[3]), c[4])
        [] c[1] = "ret"      -> InScope(g, GenReturn(s, c[2], Value(g, c[3])))
        [] c[1] = "loop"     -> InScope(g, LoopPush(s, c[2]))
        [] c[1] = "loopset"  -> InScope(g, SetLoop(s, c[2], Value(g, c[3])))
        [] c[1] = "unloop"   -> InScope(g, LoopPop(s, c[2]))
        [] c[1] = "breakout" -> BreakOutCall(g, c[2])
        [] c[1] = "catch"    -> Let(InScope(g, CatchNew(s)), c[2],
                                    Len(s.catches) + 1)
        [] c[1] = "catchis"  -> InScope(g, CatchSet(s, Var(g, c[2]), c[3],
                                  Value(g, c[4]), Value(g, c[5]), Value(g, c[6])))
        [] c[1] = "readvar"  -> ReadVarCall(g, c[2])
        [] c[1] = "readhere" -> InScope(g, PlainMove(s, s.sp, LvIdx(s, c[2])))
        [] c[1] = "readmark" -> ReadMarkCall(g, c[2])
        [] c[1] = "storevar" -> StoreVarCall(g, c[2], Value(g, c[3]), c[4])
        [] c[1] = "setxv"    -> InScope(g, GenSetxv(s, c[2], Value(g, c[3]),
                                                    Value(g, c[4]), c[5]))
        [] c[1] = "int"      -> InScope(g, GenInt(s, Value(g, c[2]), c[3]))
        [] c[1] = "intern"   -> InScope(g, GenIntern(s, s.sp))
        [] c[1] = "addsub"   -> InScope(g, GenAddsub(s, c[2], s.sp))
        [] c[1] = "uniop"    -> IF UniopFolds(s) THEN InScope(g, GenUniop(s, c[2], s.sp))
                                ELSE [g EXCEPT !.todo = c[3] \o @]
        [] c[1] = "binop"    -> IF NoPeephole(s) THEN [g EXCEPT !.todo = c[2] \o @]
                                ELSE InScope(g, GenBinop(s, s.sp))
        [] c[1] = "open"     -> OpenScope(g, c[2], c[3], c[4])
        [] c[1] = "close"    -> CloseScope(g, c[2])
        [] c[1] = "fail"     -> Failed(g)

\* The calls up to the next node, or to the end of one.
RECURSIVE MakeCalls(_)
MakeCalls(g) ==
  IF g.todo = <<>> \/ Head(g.todo)[1] \in {"gen", "done"} THEN g ELSE MakeCalls(Call(g))

--------------------------------------------------------------------------------
(* Compiling.                                                                   *)

\* gen_program: the program's scope has the local x and is always valued.
ProgramLocals == <<"x">>
Init ==
  /\ dialect \in DOMAIN Dialects
  /\ ast = <<Node("any", "", <<>>, <<>>)>>
  /\ fuel = Dialects[dialect].nodes
  /\ cg = [todo   |-> <<Gen(1, TRUE), Ret("RETURN", SpOff(-1)),
                        Op("STOP", N(0), N(0)), Close("unused")>>,
           scopes |-> <<TopScope, ChildScope(ProgramLocals)>>,
           vars   |-> <<NoVars>>, root |-> <<>>, error |-> FALSE]

Coding == cg.todo # <<>> /\ Head(cg.todo)[1] = "gen"

\* The children that are no nodes.
NoNode ==
  {"absent", "empty", "text", "emptyblock", "no body", "symbol", "anon splat", "anon dsplat",
   "anon blockarg", "forward"}
    \cup (Parameters \ {"opt", "default", "req parts", "post parts"})

\* The next node is of this kind, with this name and children of these classes,
\* and its handler runs up to the first child.
Code(kind, name, shape) ==
  LET id     == Head(cg.todo)[2]
      val    == Head(cg.todo)[3]
      new    == SelectSeq(shape, LAMBDA c : c \notin NoNode)
      number == [i \in DOMAIN shape |->
                   CASE shape[i] = "empty" -> Empty [] shape[i] \in NoNode \ {"empty"} -> Absent
                     [] OTHER -> Len(ast) + Cardinality({j \in 1 .. i :
                                                           shape[j] \notin NoNode})]
      tree   == [ast EXCEPT ![id] = Node(kind, name, shape, number)]
                  \o [i \in DOMAIN new |-> Node(new[i], "", <<>>, <<>>)]
      branch == kind \in Branches
  IN  /\ ast' = tree
      /\ fuel' = IF kind \in Leaves THEN fuel ELSE fuel - 1
      /\ cg' = MakeCalls(
                 [cg EXCEPT
                    !.vars = IF branch THEN @ ELSE Append(@, NoVars),
                    !.todo = Handler(cg, tree, id, val)
                               \o (IF branch THEN <<>>
                                   ELSE <<Done(Scp(cg).sp + IF val THEN 1 ELSE 0)>>)
                               \o Tail(@)])

CodeNode ==
  /\ Coding
  /\ \E kind \in KindsOf(ast[Head(cg.todo)[2]].kind) : \E form \in FormsOf(kind) :
       /\ kind \in Leaves \/ fuel > 0
       /\ Fits(ast[Head(cg.todo)[2]].kind, kind, form[2])
       /\ Accepted(kind, Head(cg.todo)[2], Head(cg.todo)[3])
       /\ InPlace(kind, form[1], form[2], Head(cg.todo)[2])
       /\ Code(kind, form[1], form[2])
  /\ UNCHANGED dialect

\* The node is coded; its parent goes on.
EndNode ==
  /\ cg.todo # <<>> /\ Head(cg.todo)[1] = "done"
  /\ cg' = MakeCalls([cg EXCEPT !.todo = Tail(cg.todo),
                            !.vars = SubSeq(cg.vars, 1, Len(cg.vars) - 1)])
  /\ UNCHANGED <<dialect, ast, fuel>>

Compiled == cg.todo = <<>>
================================================================================
