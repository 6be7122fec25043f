--------------------------------- MODULE Ruby ----------------------------------
(* What the source program means: Ruby's control flow for the nodes of Codegen, *)
(* as an evaluator with a stack of continuations.  It is the language the       *)
(* handlers translate (not code of this repository): a program's calls, the     *)
(* value of $! each sees, and its outcome.                                      *)
(*                                                                              *)
(* `ctl` is a node to evaluate, a value, or an exit on its way: <<"Raise", e>>, *)
(* <<"Break", v>>, <<"Next", v>>, <<"Return", v>>, <<"Redo", nil>> or           *)
(* <<"Retry", nil>>.                                                            *)
EXTENDS Objects, Params, FiniteSets
LOCAL INSTANCE SequencesExt

OwnClass == 4
StandardError == 2
Text == Str(<<<<"text">>>>)

Eval(id) == <<"eval", id>>
Val(v)   == <<"value", v>>

\* A scope has the local variables of the node it belongs to; a block, and a `for`,
\* see those of the scopes around.  Its class gets the methods defined there.
LocalScope(node, vars, self, class) ==
  [node |-> node, vars |-> vars, self |-> self, class |-> class]
NoNames == [name \in {} |-> Nil]

Boot(root, store) ==
  [ctl |-> Eval(root), k |-> <<>>, errinfo |-> Nil, store |-> store,
   scopes |-> <<LocalScope(0, [name \in {"x"} |-> Nil], Self, ObjectClass)>>,
   event |-> <<>>, outcome |-> <<>>]
Halted == Boot(0, <<>>)

Here(r)     == r.scopes[Len(r.scopes)]
EndScope(r)  == [r EXCEPT !.scopes = SubSeq(@, 1, Len(@) - 1)]
InnerScope(r, node, vars) ==
  [r EXCEPT !.scopes = Append(@, LocalScope(node, vars, Here(r).self, Here(r).class))]

To(r, ctl)           == [r EXCEPT !.ctl = ctl]
Within(r, frame, ctl) == [r EXCEPT !.ctl = ctl, !.k = <<frame>> \o r.k]
Frame(r)             == Head(r.k)
Leave(r)             == [r EXCEPT !.k = Tail(r.k)]
Yielded(r, sym, v)   == [r EXCEPT !.event = <<"yielded", sym, v, r.errinfo>>]

\* A call with no keywords; one with a literal block, of node id; the definition of
\* a lambda or a method, whose body may be run at once.
Send(r, sym, recv, args, kw, block) ==
  [r EXCEPT !.event = <<"call", sym, recv, args, kw, block, r.errinfo>>]
Call(r, sym, recv, args) ==
  LET known == Known(sym[1], recv, args) IN
    IF known # <<>> THEN To(r, Val(known[1])) ELSE Send(r, sym, recv, args, <<>>, Nil)
IterateOn(r, id, what, sym, recv, args, kw) ==
  [Within(r, <<"iterate", id, sym>>, Val(Nil)) EXCEPT
     !.event = <<"iterate", sym, recv, args, kw, <<what>>, r.errinfo>>]
Iterate(r, id, sym, recv, args, kw) == IterateOn(r, id, "block", sym, recv, args, kw)
Define(r, id, class) ==
  IterateOn(r, id, "method", <<"def", id>>, class, <<>>, <<>>)

\* The name node id calls.
Sym(n, id) == <<n.name, IF n.name \in {"m", "a", "a="} THEN id ELSE 0>>

--------------------------------------------------------------------------------
(* Evaluating a node: an absent one is nil; a constant condition that was not   *)
(* coded has the class "true" or "false" for its kind.                          *)

WhenCondition(r, when, i, subject, e, tree) ==
  Within(r, <<"when", when, i, subject, e>>, Eval(tree[when].kids[i]))

\* What is made of operands: they are evaluated in order, then it is made.
Gathered == {"Call", "Add", "Neg", "NilCheck", "Block", "Send", "SafeSend", "AttrSet",
             "SafeAttrSet", "Array", "Hash", "DStr", "DSym", "DRegexp", "XStr",
             "Range", "RangeExc", "Imaginary", "ConstPath", "BreakV", "NextV", "ReturnV",
             "ConstPathWrite", "CallWrite", "SafeCallWrite", "IndexWrite", "MultiWrite", "CaseIn",
             "Def", "Class", "Module", "SClass", "Yield", "Super", "ZSuper"}
Operands(n) ==
  SelectSeq([i \in DOMAIN n.kids |-> <<n.shape[i], n.kids[i]>>],
            LAMBDA item : item[1] \in {"any", "absent", "self", "text", "arg", "splat", "key",
                                       "value", "dsplat", "blockarg", "whole", "anon splat",
                                       "anon dsplat", "anon blockarg", "forward"})

\* A variable's value, if it is there, and its new value.  A local is the one of the
\* innermost scope that has it.
Around(r, var) == {i \in DOMAIN r.scopes : var \in DOMAIN r.scopes[i].vars}
Owner(r, var)  == CHOOSE i \in Around(r, var) : \A j \in Around(r, var) : j <= i
Of(r, var)     == IF Around(r, var) # {} THEN <<r.scopes[Owner(r, var)].vars[var]>>
                  ELSE Fetch(r.store, <<var>>)
Set(r, var, v) == IF Around(r, var) # {} THEN [r EXCEPT !.scopes[Owner(r, var)].vars[var] = v]
                  ELSE [r EXCEPT !.store = Stored(r.store, <<var>>, v)]

\* `x += v`, `x ||= v`, `x &&= v`: of what was read, skip the rest or go on.
Reread(r, id, n, tree) ==
  LET var   == n.name[1]
      old   == Of(r, var)
      value == IF old = <<>> THEN False ELSE old[1]
  IN  CASE old = <<>> /\ n.name[2] # "or" -> To(r, <<"Raise", NameError>>)
        [] n.name[2] \in {"or", "and"} /\ Truthy(value) = (n.name[2] = "or") ->
             To(r, Val(value))
        [] n.name[2] \in {"or", "and"} ->
             Within(r, <<"assign", var>>, Eval(n.kids[1]))
        [] OTHER -> Within(Within(r, <<"assign", var>>, Val(Nil)),
                           <<"operate", n.name[2], id, value>>, Eval(n.kids[1]))

Evaluate(r, id, tree) ==
  LET n    == tree[id]
      k    == n.kids
      kind == n.kind
  IN  CASE kind = "Int"      -> To(r, Val(Num(5)))
        [] kind = "Zero"     -> To(r, Val(Num(0)))
        [] kind \in {"True", "true"}   -> To(r, Val(True))
        [] kind \in {"False", "false"} -> To(r, Val(False))
        [] kind = "Nil"      -> To(r, Val(Nil))
        [] kind \in {"Self", "self"} -> To(r, Val(Here(r).self))
        [] kind = "Str"      -> To(r, Val(Text))
        [] kind = "Symbol"   -> To(r, Val(Symbol(Text)))
        [] kind = "Float"    -> To(r, Val(<<"float">>))
        [] kind = "Rational" -> Call(r, <<"Rational", 0>>, Here(r).self, <<Num(5), Num(1)>>)
        [] kind = "Encoding" -> Call(r, <<"__ENCODING__", 0>>, Here(r).self, <<>>)
        [] kind = "Lvar"     -> To(r, Val(Of(r, "x")[1]))
        [] kind = "Param"    -> To(r, Val(Of(r, n.name)[1]))
        [] kind = "ItRead"   -> To(r, Val(Of(r, "it")[1]))
        [] kind = "Lambda"   -> IterateOn(r, id, "lambda", <<"lambda", 0>>, Nil, <<>>, <<>>)
        [] kind = "Alias"    -> Call(Within(r, <<"then", Nil>>, Val(Nil)), <<"ALIAS", 0>>,
                                     Here(r).class, <<<<"new", 0>>, <<"old", 0>>>>)
        [] kind = "Undef"    -> Call(Within(r, <<"undef">>, Val(Nil)), <<"UNDEF", 0>>,
                                     Here(r).class, <<<<"old", 0>>>>)
        [] kind = "Const"    -> To(r, Val(<<"class", OwnClass>>))
        [] kind = "Read"     -> To(r, IF Of(r, n.name) = <<>> THEN <<"Raise", NameError>>
                                      ELSE Val(Of(r, n.name)[1]))
        [] kind = "MatchRef" ->
             IF Fetch(r.store, <<"match">>) = <<Nil>> THEN To(r, Val(Nil))
             ELSE Call(r, <<n.name, 0>>, Fetch(r.store, <<"match">>)[1],
                       IF n.name = "[]" THEN <<Num(1)>> ELSE <<>>)
        [] kind \in Gathered -> To(Within(r, <<"gather", id, <<>>, Operands(n)>>, Val(Nil)),
                                   <<"Gather">>)
        [] kind = "Seq"      -> Within(r, <<"seq", k[2]>>, Eval(k[1]))
        [] kind = "Paren"    -> To(r, Eval(k[1]))
        [] kind = "Assign"   -> Within(r, <<"assign", "x">>, Eval(k[1]))
        [] kind = "Write"    -> Within(r, <<"assign", n.name>>, Eval(k[1]))
        [] kind \in {"OpWrite", "LogicWrite"} -> Reread(r, id, n, tree)
        [] kind = "If"       -> Within(r, <<"if", k[2], k[3]>>, Eval(k[1]))
        [] kind = "Unless"   -> Within(r, <<"if", k[2], k[3]>>, Eval(k[1]))
        [] kind = "IfNil"    -> IF k[1] = 0 THEN To(r, Eval(k[3]))
                                ELSE Within(r, <<"ifnil", k[2], k[3]>>, Eval(k[1]))
        [] kind \in {"And", "Or"} -> Within(r, <<kind, k[2]>>, Eval(k[1]))
        [] kind \in {"While", "Until"} -> Within(r, <<"test", id>>, Eval(k[1]))
        [] kind = "Case"     ->
             IF k[1] = 0 THEN WhenCondition(r, k[2], 1, <<>>, k[3], tree)
             ELSE Within(r, <<"case", k[2], k[3]>>, Eval(k[1]))
        [] kind = "Begin"    ->
             LET outer == IF k[4] = 0 THEN r
                          ELSE [r EXCEPT !.k = <<<<"ensure", k[4]>>>> \o r.k]
             IN  Within(outer, <<"begin", id>>, Eval(k[1]))
        [] kind = "RescueMod" -> Within(r, <<"begin", id>>, Eval(k[1]))
        [] kind \in {"Break", "Next", "Return", "Redo", "Retry"} ->
             To(r, <<kind, Nil>>)
        [] kind = "For"      -> Within(r, <<"each", id>>, Eval(k[1]))
        [] kind \in {"MatchIn", "MatchTo"} -> Within(r, <<"subject", id>>, Eval(k[1]))

--------------------------------------------------------------------------------
(* Operands.  `given` holds, for each operand that was evaluated, what it is and *)
(* its value.                                                                   *)

Given(given, roles) == SelectSeq(given, LAMBDA g : g[1] \in roles)

\* The arguments of a call, the items of an array; the pairs; the pieces.  What is
\* passed on was given as a value: all of it for `...`.
Splats == {"splat", "anon splat"}
Arguments(given) ==
  LET all == Given(given, {"arg", "forward"} \cup Splats) IN
    FlattenSeq([i \in DOMAIN all |->
      CASE all[i][1] \in Splats   -> Splatted(all[i][2])
        [] all[i][1] = "forward" -> all[i][2].args
        [] OTHER                 -> <<all[i][2]>>])
PairsOf(given) ==
  LET all == Given(given, {"key", "value", "dsplat", "anon dsplat", "forward"}) IN
    FlattenSeq([i \in DOMAIN all |->
      CASE all[i][1] = "key"    -> <<<<all[i][2], all[i + 1][2]>>>>
        [] all[i][1] \in {"dsplat", "anon dsplat"} -> Paired(all[i][2])
        [] all[i][1] = "forward" -> all[i][2].kw
        [] OTHER                -> <<>>])
BlockOf(given) ==
  LET all == Given(given, {"blockarg", "anon blockarg", "forward"}) IN
    CASE all = <<>> -> Nil
      [] all # <<>> /\ all[1][1] = "forward" -> all[1][2].block
      [] OTHER -> all[1][2]
Joined(given) == FlattenSeq([i \in DOMAIN given |-> Pieces(given[i][2])])

\* The node whose body is the block of a call, and whether there is one.
Literal(n, id) ==
  LET here == {i \in DOMAIN n.shape : n.shape[i] \in {"block", "emptyblock"}}
      apart == {i \in DOMAIN n.shape : n.shape[i] = "literal"}
  IN  CASE here # {}  -> <<id>>
        [] apart # {} -> <<n.kids[CHOOSE i \in apart : TRUE]>>
        [] OTHER -> <<>>

\* A call: with a literal block it is an iteration.
SendTo(r, n, id, sym, recv, given, block) ==
  IF Literal(n, id) # <<>>
  THEN Iterate(r, Literal(n, id)[1], sym, recv, Arguments(given), PairsOf(given))
  ELSE IF PairsOf(given) = <<>> /\ block = Nil THEN Call(r, sym, recv, Arguments(given))
       ELSE Send(r, sym, recv, Arguments(given), PairsOf(given), block)

\* The value of an assignment to an attribute is the value assigned.
Invoke(r, n, id, given) ==
  LET args == Arguments(given)
      sym  == Sym(n, id)
      recv == given[1][2]
  IN  IF n.kind \in {"AttrSet", "SafeAttrSet"}
      THEN Call(Within(r, <<"then", args[Len(args)]>>, Val(Nil)), sym, recv, args)
      ELSE SendTo(r, n, id, sym, recv, given, BlockOf(given))

\* One value, one splat, or several in an array.
ExitValue(given) ==
  IF Len(given) = 1 /\ given[1][1] \notin Splats THEN given[1][2]
  ELSE Array(Arguments(given))

\* The targets of n with their parts of the value.
Parts(n, value) ==
  LET all  == Destructured(value)
      kids(role) == SelectSeq([i \in DOMAIN n.kids |-> <<n.shape[i], n.kids[i]>>],
                              LAMBDA item : item[1] = role)
      pre  == kids("left")
      post == kids("behind")
      cut  == Cut(Len(all), Len(pre), Len(post))
  IN  [i \in DOMAIN pre |-> <<pre[i][2], At(all, i)>>]
        \o [i \in DOMAIN kids("rest") |->
              <<kids("rest")[i][2], Array(SubSeq(all, Len(pre) + 1, cut))>>]
        \o [i \in DOMAIN post |-> <<post[i][2], At(all, cut + i)>>]

--------------------------------------------------------------------------------
(* Pattern matching.  ctl <<"Pattern", id, v, top>> matches v; a true value says  *)
(* it did.  The subject of a `case/in` with several clauses is asked to           *)
(* deconstruct itself only once (top says that v is it): the answer is kept in    *)
(* the continuation of the clause.                                                *)

NotAsked == <<"not asked">>
Roles(n, roles) == SelectSeq([i \in DOMAIN n.kids |-> <<n.shape[i], n.kids[i]>>],
                             LAMBDA item : item[1] \in roles)
Child(n, roles, i) == Roles(n, roles)[i][2]
InPatterns == {"taking", "plain pattern"}
InBodies   == {"body", "no body", "empty"}

NextClause(r, id, i, v, kept, tree) ==
  LET n == tree[id] IN
    CASE i <= Len(Roles(n, InPatterns)) ->
           Within(r, <<"clause", id, i, v, kept>>,
                  <<"Pattern", Child(n, InPatterns, i), v, Len(Roles(n, InPatterns)) > 1>>)
      [] i > Len(Roles(n, InPatterns)) /\ Roles(n, {"else"}) # <<>> ->
           To(r, Eval(Child(n, {"else"}, 1)))
      [] OTHER -> To(r, <<"Raise", NoMatchError>>)

\* The innermost clause under way.
Clause(r)     == CHOOSE i \in DOMAIN r.k : r.k[i][1] = "clause" /\ \A j \in 1 .. i - 1 : r.k[j][1] # "clause"
Keep(r, answer, top) ==
  IF top THEN [r EXCEPT !.k[Clause(r)][5] = IF answer = Nil THEN NotAsked ELSE answer] ELSE r

\* All of these match: pairs of a pattern, 0 for one that binds, and a value.
All(r, pairs) == Within(r, <<"all", pairs>>, Val(True))

Eqq(r, id, v) == Within(r, <<"eqq", v>>, Eval(id))

\* What the array pattern and the find pattern make of the items.
Elements(n, items, at) ==
  [i \in DOMAIN Roles(n, {"first"}) |-> <<Child(n, {"first"}, i), At(items, at + i)>>]
RestAndPosts(n, items) ==
  LET pre  == Len(Roles(n, {"first"}))
      post == Len(Roles(n, {"last"}))
  IN  (IF n.name = "bound" THEN <<<<0, Array(SubSeq(items, pre + 1, Len(items) - post))>>>>
       ELSE <<>>)
        \o [i \in 1 .. post |-> <<Child(n, {"last"}, i), At(items, Len(items) - post + i)>>]

FindAt(r, n, id, items, at) ==
  IF at + Len(Roles(n, {"first"})) > Len(items) THEN To(r, Val(False))
  ELSE All(Within(r, <<"find", id, items, at>>, Val(Nil)), Elements(n, items, at))

MatchItems(r, n, id, array) ==
  LET items == Destructured(array)
      len   == Len(Roles(n, {"first", "last"}))
  IN  CASE n.kind = "FindPattern" -> FindAt(r, n, id, items, 0)
        [] n.kind = "ArrayPattern"
             /\ (IF n.name = "" THEN Len(items) = len ELSE Len(items) >= len) ->
             All(r, Elements(n, items, 0) \o RestAndPosts(n, items))
        [] OTHER -> To(r, Val(False))

\* All elements of a find pattern matched, or not.
Found(r, n, id, items, at, w) ==
  LET behind == Array(SubSeq(items, at + Len(Roles(n, {"first"})) + 1, Len(items))) IN
    CASE ~Truthy(w) -> FindAt(r, n, id, items, at + 1)
      [] Truthy(w) /\ n.name = "before" -> To(Set(r, "x", Array(SubSeq(items, 1, at))), Val(True))
      [] Truthy(w) /\ n.name \in {"behind", "both"} -> To(Set(r, "x", behind), Val(True))
      [] OTHER -> r

\* The value answers to this name, which takes its shape apart.
Responds(r, id, v, top, mid) ==
  Call(Within(r, <<"responds", id, v, top>>, Val(Nil)), <<"respond_to?", 0>>, v, <<Asks(mid)>>)

\* The constant in front of the brackets, if any, has matched.
Deconstruct(r, id, v, top, n) ==
  LET kept == IF top THEN r.k[Clause(r)][5] ELSE NotAsked IN
    CASE n.kind = "HashPattern" -> Responds(r, id, v, FALSE, "deconstruct_keys")
      [] n.kind # "HashPattern" /\ kept = NotAsked -> Responds(r, id, v, top, "deconstruct")
      [] n.kind # "HashPattern" /\ kept = False -> To(r, Val(False))
      [] OTHER -> MatchItems(r, n, id, kept)

KeysOf(n) == Array([i \in DOMAIN Roles(n, {"symbol"}) |-> Symbol(Text)])

\* It answers w to respond_to?.
Responded(r0, n, id, v, top, w) ==
  LET r == Keep(r0, w, top) IN
    CASE ~Truthy(w) -> To(r, Val(False))
      [] Truthy(w) /\ n.kind # "HashPattern" ->
           Call(Within(r, <<"deconstructed", id, top>>, Val(Nil)), <<"deconstruct", 0>>, v, <<>>)
      [] OTHER ->
           Call(Within(r, <<"hash", "keys", id, Nil>>, Val(Nil)), <<"deconstruct_keys", 0>>, v,
                <<IF n.name = "" /\ Roles(n, {"symbol"}) # <<>> THEN KeysOf(n) ELSE Nil>>)

\* The stages of a hash pattern; h is what deconstruct_keys returned, w what the
\* last call did.
HashStage(r, stage, n, id, h, w) ==
  LET count == Num(Len(Roles(n, {"symbol"})))
      after(s, x) == Within(r, <<"hash", s, id, x>>, Val(Nil))
  IN  CASE stage = "keys" ->
             Call(after("values", w), <<"__pat_values", 0>>, w, <<KeysOf(n)>>)
        [] stage = "values" /\ ~Truthy(w) -> To(r, Val(False))
        [] stage = "values" /\ Truthy(w) ->
             All(after("subs", h), [i \in DOMAIN Roles(n, {"sub"}) |->
                                      <<Child(n, {"sub"}, i), At(Destructured(w), i)>>])
        [] stage = "subs" /\ ~Truthy(w) -> To(r, Val(False))
        [] stage = "subs" /\ Truthy(w) /\ (n.name = "nil" \/ (n.name = "" /\ count[2] = 0)) ->
             Call(after("size", h), <<"size", 0>>, h, <<>>)
        [] stage = "subs" /\ Truthy(w) /\ n.name = "bound" ->
             IF count[2] = 0 THEN Call(after("rest", h), <<"dup", 0>>, h, <<>>)
             ELSE Call(after("rest", h), <<"__except", 0>>, h, <<KeysOf(n)>>)
        [] stage = "size" -> Call(r, <<"==", 0>>, w, <<count>>)
        [] stage = "rest" -> To(Set(r, "x", w), Val(True))
        [] OTHER -> To(r, Val(True))

Pattern(r, n, id, v, top) ==
  LET k == n.kids IN
    CASE n.kind = "ValuePattern" -> Eqq(r, k[1], v)
      [] n.kind = "Bind"         -> To(Set(r, "x", v), Val(True))
      [] n.kind = "Guard"        ->
           Within(r, <<"guard", n.name = "unless", k[2]>>, <<"Pattern", k[1], v, top>>)
      [] n.kind = "Alternation"  ->
           Within(r, <<"else", k[2], v, top>>, <<"Pattern", k[1], v, top>>)
      [] n.kind = "Capture"      -> Within(r, <<"capture", v>>, <<"Pattern", k[1], v, top>>)
      [] OTHER -> IF Roles(n, {"constant"}) = <<>> THEN Deconstruct(r, id, v, top, n)
                  ELSE Eqq(Within(r, <<"shaped", id, v, top>>, Val(Nil)),
                           Child(n, {"constant"}, 1), v)

\* A value w reaches the continuation f of a pattern.
Matched(r, f, w, tree) ==
  LET no == To(r, Val(False)) IN
    CASE f[1] = "subject" -> Within(r, <<"match", tree[f[2]].kind>>,
                                    <<"Pattern", tree[f[2]].kids[2], w, FALSE>>)
      [] f[1] = "match"   -> CASE f[2] = "MatchIn" -> To(r, Val(Bool(Truthy(w))))
                               [] f[2] # "MatchIn" /\ Truthy(w) -> To(r, Val(Nil))
                               [] OTHER -> To(r, <<"Raise", NoMatchError>>)
      [] f[1] = "clause"  -> IF Truthy(w) THEN To(r, Eval(Child(tree[f[2]], InBodies, f[3])))
                             ELSE NextClause(r, f[2], f[3] + 1, f[4], f[5], tree)
      [] f[1] = "eqq"     -> Call(r, <<"===", 0>>, w, <<f[2]>>)
      [] f[1] = "guard"   -> IF Truthy(w) THEN Within(r, <<"guarded", f[2]>>, Eval(f[3])) ELSE no
      [] f[1] = "guarded" -> To(r, Val(Bool(Truthy(w) # f[2])))
      [] f[1] = "else"    -> IF Truthy(w) THEN r ELSE To(r, <<"Pattern", f[2], f[3], f[4]>>)
      [] f[1] = "capture" -> IF Truthy(w) THEN Set(r, "x", f[2]) ELSE no
      [] f[1] = "shaped"  -> IF Truthy(w) THEN Deconstruct(r, f[2], f[3], f[4], tree[f[2]]) ELSE no
      [] f[1] = "responds" -> Responded(r, tree[f[2]], f[2], f[3], f[4], w)
      [] f[1] = "deconstructed" ->
           IF w = Nil THEN Keep(no, w, f[3]) ELSE MatchItems(Keep(r, w, f[3]), tree[f[2]], f[2], w)
      [] f[1] = "hash"    -> HashStage(r, f[2], tree[f[3]], f[3], f[4], w)
      [] f[1] = "all"     ->
           CASE ~Truthy(w) -> no
             [] Truthy(w) /\ f[2] = <<>> -> r
             [] Truthy(w) /\ f[2] # <<>> /\ f[2][1][1] = 0 ->
                  All(Set(r, "x", f[2][1][2]), Tail(f[2]))
             [] OTHER -> Within(r, <<"all", Tail(f[2])>>,
                                <<"Pattern", f[2][1][1], f[2][1][2], FALSE>>)
      [] f[1] = "find"    -> Found(r, tree[f[2]], f[2], f[3], f[4], w)

--------------------------------------------------------------------------------

(* Blocks, methods and classes.                                                 *)

\* The variable of a parameter; one that is taken apart has one, too.
VarOf(shape, i) ==
  IF shape[i] \in {"req parts", "post parts"} THEN "parts" \o ToString(i) ELSE ParamName(shape, i)

\* The method around, and what it was called with, as its parameters are now.
Method(r, tree) ==
  LET methods == {i \in DOMAIN r.scopes : r.scopes[i].node # 0
                                           /\ tree[r.scopes[i].node].kind = "Def"}
  IN  r.scopes[CHOOSE i \in methods : \A j \in methods : j <= i]
OwnBlock(r, tree) == Method(r, tree).vars["given block"]
OwnArguments(r, tree) ==
  LET shape == tree[Method(r, tree).node].shape
      value(i) == Method(r, tree).vars[VarOf(shape, i)]
      at    == Places(shape, Requireds \cup {"opt"} \cup Rests \cup Posts)
  IN  IF Forwards(shape) THEN Splatted(Method(r, tree).vars["*"])
      ELSE FlattenSeq([j \in DOMAIN at |->
             IF shape[at[j]] \in Rests THEN Splatted(value(at[j])) ELSE <<value(at[j])>>])

\* A class of this name and above this one, or none; then its body is run.
OpenClass(r, n, id, given) ==
  LET base == CASE n.kids[1] # 0 -> given[1][2]
                [] n.kids[1] = 0 /\ n.name = "path" -> ObjectClass
                [] OTHER -> Nil
      over == IF n.kids[2] = 0 THEN Nil ELSE given[2][2]
      at   == Within(r, <<"class", id>>, Val(Nil))
  IN  IF n.kind = "Class" THEN Call(at, <<"class", id>>, base, <<over>>)
      ELSE Call(at, <<"module", id>>, base, <<>>)
ClassBody(r, n, class) ==
  LET body == n.kids[Len(n.kids)] IN
    IF body = 0 THEN To(r, Val(Nil))
    ELSE Within([r EXCEPT !.scopes = Append(@, LocalScope(0, NoNames, class, class))],
                <<"end of class">>, Eval(body))

\* The steps that give the parameters of node n their values, after those that wait
\* for nothing: a default, a named value, an array taken apart.
Bindings(n, dealt, inv) ==
  LET shape == n.shape
      given == Len(dealt.opt)
      opts  == Places(shape, {"opt"})
      late  == IF Len(opts) > given THEN SubSeq(opts, given + 1, Len(opts)) ELSE <<>>
      keyed == Places(shape, Keywords)
      parts == Places(shape, {"req parts", "post parts"})
  IN  [j \in DOMAIN late |-> <<"default", VarOf(shape, late[j]), n.kids[late[j]]>>]
        \o [j \in DOMAIN keyed |->
              LET name == ParamName(shape, keyed[j]) IN
                IF HasKey(inv.kw, name) THEN <<"given", name, AtKey(inv.kw, name)>>
                ELSE <<"default", name, n.kids[keyed[j]]>>]
        \o [j \in DOMAIN parts |-> <<"apart", VarOf(shape, parts[j]), n.kids[parts[j]]>>]

\* The variables of node n when it is entered.
Entered(n, dealt, inv) ==
  LET shape == n.shape
      place(i, roles) == Cardinality({j \in 1 .. i : shape[j] \in roles})
      names == {VarOf(shape, i) : i \in {i \in DOMAIN shape :
                                   shape[i] \in Parameters \ {"no block", "forward all"}}}
      rest  == Hash(Without(inv.kw, {ParamName(shape, i) : i \in {i \in DOMAIN shape :
                                                              shape[i] \in Keywords}}))
      value(i) ==
        CASE shape[i] \in Requireds -> dealt.req[place(i, Requireds)]
          [] shape[i] = "opt"       -> At(dealt.opt, place(i, {"opt"}))
          [] shape[i] \in Rests     -> dealt.rest
          [] shape[i] \in Posts     -> dealt.post[place(i, Posts)]
          [] shape[i] \in KwRests   -> rest
          [] shape[i] \in Ampersands -> inv.block
          [] OTHER -> Nil
      named == [name \in names |-> value(CHOOSE i \in DOMAIN shape :
                   shape[i] \in Parameters \ {"no block", "forward all"} /\ VarOf(shape, i) = name)]
  IN  named
        @@ (IF Forwards(shape)
            THEN ("*" :> dealt.rest) @@ ("**" :> Hash(inv.kw)) @@ ("&" :> inv.block) ELSE NoNames)
        @@ [name \in {"part1", "part2", "given block"} |->
              IF name = "given block" THEN inv.block ELSE Nil]

\* The parameters of node n as numbers of each kind; `it` and _1, _2 are required ones.
DealTo(n, args) ==
  CASE n.name = "it"       -> Deal(1, 0, 0, 0, args, n.kind = "Lambda")
    [] n.name = "numbered" -> Deal(2, 0, 0, 0, args, n.kind = "Lambda")
    [] OTHER -> Deal(Count(n.shape, Requireds), Count(n.shape, {"opt"}),
                     IF Has(n.shape, Rests) \/ Forwards(n.shape) THEN 1 ELSE 0,
                     Count(n.shape, Posts), args, n.kind # "BlockLit")
Variables(n, dealt, inv) ==
  CASE n.name = "it"       -> [name \in {"it"} |-> dealt.req[1]]
    [] n.name = "numbered" -> [name \in {"_1", "_2"} |-> dealt.req[IF name = "_1" THEN 1 ELSE 2]]
    [] OTHER -> Entered(n, dealt, inv)

\* The next of these steps, and what comes behind them.
Bind(r, steps, ctl, tree) ==
  IF steps = <<>> THEN To(r, ctl)
  ELSE LET kind == steps[1][1]
           var  == steps[1][2]
           rest == Within(r, <<"bind", Tail(steps), ctl>>, Val(Nil))
       IN  CASE kind = "given"   -> Set(rest, var, steps[1][3])
             [] kind = "default" -> Within(rest, <<"assign", var>>, Eval(steps[1][3]))
             [] kind = "apart"   ->
                  Within(rest, <<"store", Parts(tree[steps[1][3]], Of(r, var)[1]), Val(Nil)>>,
                         Val(Nil))

--------------------------------------------------------------------------------

\* All operands are there.
Make(r, id, given, tree) ==
  LET n == tree[id] IN
    CASE n.kind \in {"BreakV", "NextV", "ReturnV"} ->
           To(r, <<CASE n.kind = "BreakV" -> "Break" [] n.kind = "NextV" -> "Next"
                     [] OTHER -> "Return", ExitValue(given)>>)
      [] n.kind = "MultiWrite" ->
           LET v == IF given # <<>> /\ given[1][1] = "whole" THEN given[1][2]
                    ELSE Array(Arguments(given))
           IN  Within(r, <<"store", Parts(n, v), Val(v)>>, Val(Nil))
      [] n.kind = "CaseIn" ->
           NextClause(r, id, 1, IF given # <<>> /\ given[1][1] = "whole" THEN given[1][2]
                                ELSE Array(Arguments(given)), NotAsked, tree)
      [] n.kind = "ConstPathWrite" ->
           To([r EXCEPT !.store = Stored(r.store, Member(given[1][2], <<"Name", 0>>),
                                         given[2][2])], Val(given[2][2]))
      [] n.kind \in {"CallWrite", "SafeCallWrite", "IndexWrite"} ->
           Call(Within(r, <<"reread", id, given>>, Val(Nil)),
                IF n.kind = "IndexWrite" THEN <<"[]", 0>> ELSE <<"a", id>>,
                given[1][2], Arguments(given))
      [] n.kind = "Def"    -> Define(r, id, IF given = <<>> THEN Here(r).class
                                            ELSE Singleton(given[1][2]))
      [] n.kind \in {"Class", "Module"} -> OpenClass(r, n, id, given)
      [] n.kind = "SClass" -> ClassBody(r, n, Singleton(given[1][2]))
      [] n.kind = "Yield"  -> SendTo(r, n, id, <<"call", 0>>, OwnBlock(r, tree), given, Nil)
      [] n.kind = "Super"  ->
           SendTo(r, n, id, <<"super", 0>>, Here(r).self, given,
                  IF BlockOf(given) # Nil THEN BlockOf(given) ELSE OwnBlock(r, tree))
      [] n.kind = "ZSuper" -> Send(r, <<"super", 0>>, Here(r).self, OwnArguments(r, tree), <<>>,
                                   OwnBlock(r, tree))
      [] n.kind = "IndexTarget" -> Call(r, <<"[]=", 0>>, given[2][2],
                                        Append(Arguments(given), given[1][2]))
      [] n.kind = "CallTarget"  -> Call(r, <<"a=", id>>, given[2][2], <<given[1][2]>>)
      [] n.kind = "Array"     -> To(r, Val(Array(Arguments(given))))
      [] n.kind = "Hash"      -> To(r, Val(Hash(PairsOf(given))))
      [] n.kind = "DStr"      -> To(r, Val(Str(Joined(given))))
      [] n.kind = "DSym"      -> To(r, Val(Symbol(Str(Joined(given)))))
      [] n.kind = "XStr"      -> Call(r, <<"backquote", 0>>, Here(r).self, <<Str(Joined(given))>>)
      [] n.kind = "DRegexp"   -> Call(r, <<"compile", 0>>, Member(ObjectClass, <<"Regexp", 0>>),
                                      <<Str(Joined(given))>>
                                        \o (IF n.name = "opt" THEN <<Str(<<<<"opt">>>>)>> ELSE <<>>))
      [] n.kind \in {"Range", "RangeExc"} ->
           To(r, Val(RangeOf(given[1][2], given[2][2], n.kind = "RangeExc")))
      [] n.kind = "Imaginary" -> Call(r, <<"Complex", 0>>, Here(r).self, <<Num(0), given[1][2]>>)
      [] n.kind = "ConstPath" -> To(r, Val(Member(given[1][2], <<"Name", 0>>)))
      [] OTHER -> Invoke(r, n, id, given)

\* The value of an operand that is no node.
Missing(r, n, role) ==
  CASE role = "anon splat"    -> Of(r, "*")[1]
    [] role = "anon dsplat"   -> Of(r, "**")[1]
    [] role = "anon blockarg" -> Of(r, "&")[1]
    [] role = "forward"       -> Invoked(Splatted(Of(r, "*")[1]), Paired(Of(r, "**")[1]),
                                         Of(r, "&")[1])
    [] role = "absent" /\ n.kind \in {"ConstPath", "ConstPathWrite"} -> ObjectClass
    [] role = "absent" /\ n.kind \in {"Range", "RangeExc"} -> Nil
    [] role = "text"  -> Text
    [] OTHER -> Here(r).self

\* The next operand of node id, or what they make.  A safe navigation ends at a
\* receiver that is nil.
Gather(r0, tree) ==
  LET f    == Frame(r0)
      r    == Leave(r0)
      id   == f[2]
      safe == tree[id].kind \in {"SafeSend", "SafeAttrSet", "SafeCallWrite"}
  IN  CASE safe /\ Len(f[3]) = 1 /\ f[3][1][2] = Nil -> To(r, Val(Nil))
        [] f[4] = <<>> -> Make(r, id, f[3], tree)
        [] OTHER ->
             LET role == f[4][1][1]
                 rest == <<"gather", id, f[3], f[4]>>
             IN  IF f[4][1][2] = 0
                 THEN Within(r, <<"gather", id,
                                  Append(f[3], <<role, Missing(r, tree[id], role)>>),
                                  Tail(f[4])>>, <<"Gather">>)
                 ELSE Within(r, rest, Eval(f[4][1][2]))

--------------------------------------------------------------------------------
(* A value reaches the innermost continuation.                                  *)

\* The next condition of a `when`, the next `when`, the `else`.
NoMatch(r, when, i, subject, e, tree) ==
  LET k == tree[when].kids IN
    CASE i = 1 /\ k[2] # 0 -> WhenCondition(r, when, 2, subject, e, tree)
      [] ~(i = 1 /\ k[2] # 0) /\ k[4] # 0 ->
           WhenCondition(r, k[4], 1, subject, e, tree)
      [] OTHER -> To(r, Eval(e))

\* `recv.a += v` and the like, when the old value is there.
Rewrite(r, n, id, given, old) ==
  LET operator == n.name
      value    == n.kids[Len(n.kids)]
      write    == Within(r, <<"write", id, given>>, Val(Nil))
  IN  CASE operator \notin {"or", "and"} ->
             Within(write, <<"operate", operator, id, old>>, Eval(value))
        [] operator \in {"or", "and"} /\ Truthy(old) = (operator = "or") -> To(r, Val(old))
        [] OTHER -> To(write, Eval(value))

\* The parts still to store, and what comes behind them.
Store(r, parts, ctl, tree) ==
  IF parts = <<>> THEN To(r, ctl)
  ELSE LET n == tree[parts[1][1]]
           v == parts[1][2]
           rest(more) == <<"store", more \o Tail(parts), ctl>>
       IN  CASE n.kind = "VarTarget"   -> Within(Set(r, n.name, v), rest(<<>>), Val(Nil))
             [] n.kind = "MultiTarget" -> Within(r, rest(Parts(n, v)), Val(Nil))
             [] OTHER -> Within(Within(r, rest(<<>>), Val(Nil)),
                                <<"gather", parts[1][1], <<<<"assigned", v>>>>, Operands(n)>>,
                                <<"Gather">>)

\* An exception under way is $! in the `ensure` it enters.
RunEnsure(r, body) ==
  Within([r EXCEPT !.errinfo = IF r.ctl[1] = "Raise" THEN r.ctl[2] ELSE @],
         <<"ensuring", r.ctl, r.errinfo>>, Eval(body))

Value(r0, tree) ==
  LET v == r0.ctl[2]
      f == Frame(r0)
      r == Leave(r0)
  IN  CASE f[1] = "seq"    -> To(r, Eval(f[2]))
        [] f[1] = "if"     -> To(r, Eval(IF Truthy(v) THEN f[2] ELSE f[3]))
        [] f[1] = "ifnil"  -> To(r, Eval(IF v = Nil THEN f[2] ELSE f[3]))
        [] f[1] = "gather" ->
             Within(r, <<"gather", f[2], Append(f[3], <<f[4][1][1], v>>), Tail(f[4])>>,
                    <<"Gather">>)
        [] f[1] = "then"   -> To(r, Val(f[2]))
        [] f[1] = "And"    -> To(r, IF Truthy(v) THEN Eval(f[2]) ELSE Val(v))
        [] f[1] = "Or"     -> To(r, IF Truthy(v) THEN Val(v) ELSE Eval(f[2]))
        [] f[1] = "test"   ->
             IF Truthy(v) = (tree[f[2]].kind = "While")
             THEN Within(r, <<"body", f[2]>>, Eval(tree[f[2]].kids[2]))
             ELSE To(r, Val(Nil))
        [] f[1] = "body"   -> To(r, Eval(f[2]))
        [] f[1] = "assign" -> Set(r, f[2], v)
        [] f[1] = "operate" -> Call(r, <<f[2], IF f[2] = "m" THEN f[3] ELSE 0>>, f[4], <<v>>)
        [] f[1] = "reread"  -> Rewrite(r, tree[f[2]], f[2], f[3], v)
        [] f[1] = "write"   ->
             Call(Within(r, <<"then", v>>, Val(Nil)),
                  IF tree[f[2]].kind = "IndexWrite" THEN <<"[]=", 0>> ELSE <<"a=", f[2]>>,
                  f[3][1][2], Append(Arguments(f[3]), v))
        [] f[1] = "store"   -> Store(r, f[2], f[3], tree)
        [] f[1] = "case"   -> WhenCondition(r, f[2], 1, <<v>>, f[3], tree)
        [] f[1] = "when"   ->
             IF f[4] = <<>> THEN Within(r, <<"matched">> \o Tail(f), Val(v))
             ELSE Call(Within(r, <<"matched">> \o Tail(f), Val(v)),
                       <<"===", 0>>, v, <<f[4][1]>>)
        [] f[1] = "matched" ->
             IF Truthy(v) THEN To(r, Eval(tree[f[2]].kids[3]))
             ELSE NoMatch(r, f[2], f[3], f[4], f[5], tree)
        [] f[1] = "begin"  ->
             IF tree[f[2]].kind = "Begin" /\ tree[f[2]].kids[3] # 0
             THEN To(r, Eval(tree[f[2]].kids[3])) ELSE r
        [] f[1] = "rescuing" -> [r EXCEPT !.errinfo = f[3]]
        [] f[1] = "ensure"   -> RunEnsure(r, f[2])
        [] f[1] = "ensuring" -> To([r EXCEPT !.errinfo = f[3]], f[2])
        [] f[1] = "each"     -> Iterate(r, f[2], <<"each", f[2]>>, v, <<>>, <<>>)
        [] f[1] = "iterate"  -> r
        [] f[1] = "block"    -> Yielded(EndScope(r), Frame(r)[3], v)
        [] f[1] = "bind"     -> Bind(r, f[2], f[3], tree)
        [] f[1] = "class"    -> ClassBody(r, tree[f[2]], v)
        [] f[1] = "end of class" -> EndScope(r)
        [] f[1] = "undef"    -> Call(Within(r, <<"then", Nil>>, Val(Nil)), <<"UNDEF", 0>>,
                                     Here(r).class, <<<<"new", 0>>>>)
        [] OTHER -> Matched(r, f, v, tree)

--------------------------------------------------------------------------------
(* An exit reaches it.                                                          *)

\* The clauses are tried in order; one without a class takes StandardError.
Rescues(tree, clause, e) ==
  e[2] = (IF tree[clause].kids[1] = 0 THEN StandardError ELSE OwnClass)

Rescuing(r, begin, e, body) ==
  Within([r EXCEPT !.errinfo = e], <<"rescuing", begin, r.errinfo>>, Eval(body))

\* Looking for a clause of begin, from this one on.
Match(r, tree) ==
  LET clause == r.ctl[2]
      begin  == r.ctl[3]
      e      == r.ctl[4]
  IN  CASE clause = 0 -> To(r, <<"Raise", e>>)
        [] clause # 0 /\ Rescues(tree, clause, e) ->
             Rescuing(IF tree[clause].kind = "RescueAs" THEN Set(r, "x", e) ELSE r,
                      begin, e, tree[clause].kids[2])
        [] OTHER -> To(r, <<"Match", tree[clause].kids[3], begin, e>>)

Begun(r, begin, tree) ==
  Within(r, <<"begin", begin>>, Eval(tree[begin].kids[1]))

\* The body of the block of a call, or of a `for`.
Body(n) ==
  LET i == CHOOSE i \in DOMAIN n.shape :
             IF n.kind = "For" THEN i = 2
             ELSE n.shape[i] \in {"block", "emptyblock", "body", "no body"}
  IN  n.kids[i]

\* What an exit does at the continuation f it reaches; most let it pass.
Exit(r0, tree) ==
  LET c == r0.ctl
      f == Frame(r0)
      r == Leave(r0)
  IN  CASE f[1] \in {"test", "body"} /\ c[1] = "Break" -> To(r, Val(c[2]))
        [] f[1] \in {"test", "body"} /\ c[1] = "Next"  -> To(r, Eval(f[2]))
        [] f[1] \in {"test", "body"} /\ c[1] = "Redo"  ->
             Within(r, <<"body", f[2]>>, Eval(tree[f[2]].kids[2]))
        [] f[1] = "begin" /\ c[1] = "Raise" ->
             IF tree[f[2]].kind = "Begin"
             THEN To(r, <<"Match", tree[f[2]].kids[2], f[2], c[2]>>)
             ELSE IF c[2][2] = StandardError
                  THEN Rescuing(r, f[2], c[2], tree[f[2]].kids[2]) ELSE r
        [] f[1] = "rescuing" /\ c[1] = "Retry" ->
             Begun([r EXCEPT !.errinfo = f[3]], f[2], tree)
        [] f[1] = "rescuing" /\ c[1] # "Retry" -> [r EXCEPT !.errinfo = f[3]]
        [] f[1] = "ensure"   -> RunEnsure(r, f[2])
        [] f[1] = "ensuring" -> [r EXCEPT !.errinfo = f[3]]
        [] f[1] = "block" /\ c[1] = "Next" -> Yielded(EndScope(r), Frame(r)[3], c[2])
        [] f[1] = "block" /\ c[1] = "Redo" ->
             Within(r, f, Eval(Body(tree[f[2]])))
        [] f[1] = "block" /\ c[1] \notin {"Next", "Redo"} ->
             IF c[1] \in {"Return", "Break"} /\ tree[f[2]].kind \in {"Lambda", "Def"}
             THEN Yielded(EndScope(r), Frame(r)[3], c[2]) ELSE EndScope(r)
        [] f[1] = "end of class" -> EndScope(r)
        [] f[1] = "iterate" /\ c[1] = "Break" -> To(r, Val(c[2]))
        [] OTHER -> r

--------------------------------------------------------------------------------

Stopped(r) == r.event # <<>> \/ r.outcome # <<>>

Finish(r) == [r EXCEPT !.outcome =
                <<IF r.ctl[1] = "Raise" THEN "raise" ELSE "value", r.ctl[2]>>]

Step(r, tree) ==
  CASE r.ctl[1] = "Pattern" -> Pattern(r, tree[r.ctl[2]], r.ctl[2], r.ctl[3], r.ctl[4])
    [] r.ctl[1] = "eval"  -> IF r.ctl[2] <= 0 THEN To(r, Val(Nil))
                             ELSE Evaluate(r, r.ctl[2], tree)
    [] r.ctl[1] = "Match" -> Match(r, tree)
    [] r.ctl[1] = "Gather" -> Gather(r, tree)
    [] r.ctl[1] \notin {"eval", "Match", "Gather", "Pattern"} /\ r.k = <<>> -> Finish(r)
    [] r.ctl[1] = "value" /\ r.k # <<>> -> Value(r, tree)
    [] OTHER -> Exit(r, tree)

Answer(r, v)      == To([r EXCEPT !.event = <<>>], Val(v))
AnswerRaise(r, e) == To([r EXCEPT !.event = <<>>], <<"Raise", e>>)

\* The call runs its block, or the method, with these arguments; `for` assigns its
\* variables first.
AnswerYield(r0, tree, invoked) ==
  LET r     == [r0 EXCEPT !.event = <<>>]
      id    == Frame(r)[2]
      n     == tree[id]
      i     == {i \in DOMAIN n.shape : n.shape[i] = "target"}
      item  == At(invoked.args, 1)
      parts == IF i = {} THEN Parts(n, item) ELSE <<<<n.kids[CHOOSE j \in i : TRUE], item>>>>
      named == IF n.kind = "For" /\ n.name = "x" THEN Set(r, "x", item) ELSE r
      dealt == DealTo(n, invoked.args)
      body  == Eval(Body(n))
      enter(s, vars, self, steps) ==
        LET inner == InnerScope(s, id, vars)
        IN  Within(Within([inner EXCEPT !.scopes[Len(inner.scopes)].self = self],
                          <<"block", id>>, Val(Nil)), steps, Val(Nil))
  IN  CASE n.kind \notin {"BlockLit", "Lambda", "Def"} ->
             enter(named, NoNames, Here(r).self, <<"store", parts, body>>)
        [] OTHER -> enter(r, Variables(n, dealt, invoked),
                          IF n.kind = "Def" THEN Receiver ELSE Here(r).self,
                          <<"bind", Bindings(n, dealt, invoked), body>>)
================================================================================
