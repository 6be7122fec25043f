-------------------------------- MODULE Patterns --------------------------------
(* The handlers of pattern matching (handlers.rs): `case/in`, `v in p`, `v => p` *)
(* and the patterns.                                                            *)
(*                                                                              *)
(* A pattern is coded against a register and goes on when it matches; its       *)
(* failing jumps join a chain of its parent.  The parent puts the register, the *)
(* chain and what is known of the value in variables of its own, and finds the  *)
(* chain there again.                                                           *)
EXTENDS Writes
LOCAL INSTANCE SequencesExt

Unknown == -1   \* the length of the array that is matched, when it is no literal
NoCache == -1   \* the register that keeps the answer to `deconstruct`

Match(pattern, target, chain, known, cache) ==
  <<Set("target", target), Set("known", N(known)), Set("cache", N(cache)),
    Set("chain", V(chain)), Gen(pattern, FALSE), Set(chain, V("chain"))>>

\* The next instructions run only if the register holds a true value.
FailUnless(reg) == CondOn("fail", "JMPNOT", reg, TRUE)

\* gen_pattern_fail_jmp: a jump that the peephole takes away leaves the chain.
FailJump(op, reg) ==
  <<Set("link", V("fail")), CondOn("fail", op, reg, FALSE), KeepLink("fail", "link")>>

\* A call without arguments but those that lie above the receiver already.
SendAt(reg, name, n) == Op3("SEND", N(reg), Sym(name, 0), N(n))

\* gen_pattern_eqq.
Eqq(value, target) ==
  <<Gen(value, TRUE), Move(SP, target, FALSE), Push(2), Pop(3),
    Op3("SEND", SP, Sym("===", 0), N(1)), FailUnless(SP)>>

RespondTo(sp, target, mid, cache) ==
  <<Move(N(sp), target, FALSE), Push(1), Op("LOADSYM", SP, N(<<<<mid>>>>)),
    Push(1), Push(1), Pop(1), SetSp(N(sp)), SendAt(sp, "respond_to?", 1)>>
    \o (IF cache = NoCache THEN <<>> ELSE <<Move(N(cache), N(sp), TRUE)>>)
    \o <<FailUnless(N(sp))>>

\* The array is left in sp.  The cache holds nil before the value was asked, false
\* when it has no `deconstruct`, and the array.
Deconstruct(sp, target, cache) ==
  (IF cache = NoCache THEN <<>>
   ELSE <<CondOn("ask", "JMPNIL", N(cache), TRUE), FailUnless(N(cache)),
          Move(N(sp), N(cache), TRUE), Jump("have", "JMP"), Land("ask")>>)
    \o RespondTo(sp, target, "deconstruct", cache)
    \o <<Move(N(sp), target, FALSE), Push(2), Pop(2), SendAt(sp, "deconstruct", 0)>>
    \o (IF cache = NoCache THEN <<>> ELSE <<Move(N(cache), N(sp), TRUE), Land("have")>>)

--------------------------------------------------------------------------------
(* Patterns of one value.                                                       *)

Bind(src) == StoreVar("x", src, TRUE)

GenGuard(inner, condition, isUnless, target, known, cache) ==
  Match(inner, target, "fail", known, cache)
    \o <<Gen(condition, TRUE), Pop(1)>>
    \o FailJump(IF isUnless THEN "JMPIF" ELSE "JMPNOT", SP)

\* The left alternative fails to the right one; its success skips that.
GenAlternation(left, right, target, known, cache) ==
  Match(left, target, "left", known, cache)
    \o <<Alternate, LandAll("left")>>
    \o Match(right, target, "fail", known, cache) \o <<LandAll("success")>>

GenCapture(value, target, known, cache) ==
  Match(value, target, "fail", known, cache) \o <<Bind(target)>>

--------------------------------------------------------------------------------
(* Array patterns: elements in front of the rest ("first"), those behind it      *)
(* ("last").  The name says whether a bound ("bound") or another rest ("anon")   *)
(* is there.                                                                     *)

\* The array is in register arr.
ArrayElements(lefts, sp, arr) ==
  LET scratch == Len(lefts) > ArefMax
      reg     == sp + IF scratch THEN 1 ELSE 0
  IN  (IF scratch THEN <<Push(1)>> ELSE <<>>)
        \o FlattenSeq([k \in DOMAIN lefts |->
             ReadItem(k, sp, arr) \o <<Push(1)>>
               \o Match(lefts[k], N(reg), "fail", Unknown, NoCache) \o <<Pop(1)>>])
        \o (IF scratch THEN <<Pop(1)>> ELSE <<>>)

\* arr[pre .. -(post + 1)]
ArrayRest(sp, arr, pre, post) ==
  <<Move(SP, N(arr), FALSE), Push(1), LoadInt(pre), Push(1), LoadInt(-(post + 1)),
    Op("RANGE_INC", SpOff(-1), N(0)), Push(1), Pop(1), SetSp(N(sp)),
    SendAt(sp, "[]", 1), Bind(N(sp))>>

ArrayPosts(posts, sp, arr) ==
  FlattenSeq([i \in DOMAIN posts |->
    <<Move(SP, N(arr), FALSE), Push(1), LoadInt(-(Len(posts) - (i - 1))), Push(1), Pop(1),
      Op("GETIDX", SpOff(-1), N(0))>>
      \o Match(posts[i], N(sp), "fail", Unknown, NoCache) \o <<Pop(1)>>])

\* The array in arr has as many items as the comparison asks for.
SizeTest(sp, arr, op, n) ==
  <<Move(N(sp), N(arr), FALSE), Push(2), Pop(2), SendAt(sp, "size", 0),
    IntAt(N(sp + 1), n), Op(op, N(sp), N(0)), FailUnless(N(sp))>>

\* Nothing is asked of an array literal.
GenArrayPattern(n, sp, target, known, cache) ==
  LET constant == Kids(n, {"constant"})
      lefts    == Kids(n, {"first"})
      posts    == Kids(n, {"last"})
      len      == Len(lefts) + Len(posts)
      elements(at, arr) ==
        ArrayElements(lefts, at, arr)
          \o (IF n.name = "bound" THEN ArrayRest(at, arr, Len(lefts), Len(posts)) ELSE <<>>)
          \o ArrayPosts(posts, at, arr)
  IN  (IF constant = <<>> THEN <<>> ELSE Eqq(constant[1], target))
        \o (CASE known # Unknown /\ (IF n.name = "" THEN known # len ELSE known < len) ->
                   <<Linked("fail", "JMP")>>
              [] known # Unknown /\ (IF n.name = "" THEN known = len ELSE known >= len) ->
                   elements(sp, target[2])
              [] OTHER ->
                   Deconstruct(sp, target, cache) \o <<Push(1)>>
                     \o FailJump("JMPNIL", N(sp))
                     \o SizeTest(sp + 1, sp, IF n.name = "" THEN "EQ" ELSE "GE", len)
                     \o elements(sp + 1, sp) \o <<Pop(1)>>)

--------------------------------------------------------------------------------
(* Hash patterns.  The name says what becomes of the other keys: nothing is said *)
(* (""), there are none ("nil"), they are bound ("bound") or not ("anon").       *)

\* The keys, which are symbols, in an array at base, and a call of reg with it.
KeyedSend(keys, base, reg, name) ==
  FlattenSeq([i \in DOMAIN keys |-> GenLiteral("Symbol", TRUE)])
    \o <<Pop(Len(keys)), Op("ARRAY", N(base), N(Len(keys))), Push(1), Push(1), Pop(1),
         SetSp(N(reg)), SendAt(reg, name, 1)>>

\* What is left of the hash in sp - 1.
HashRest(keys, sp) ==
  <<Move(N(sp), N(sp - 1), FALSE), Push(1)>>
    \o (IF keys = <<>> THEN <<Push(1), Pop(1), SetSp(N(sp)), SendAt(sp, "dup", 0)>>
        ELSE KeyedSend(keys, sp + 1, sp, "__except"))
    \o <<Bind(N(sp))>>

GenHashPattern(n, sp, target) ==
  LET constant == Kids(n, {"constant"})
      keys     == Kids(n, {"symbol"})
      subs     == Kids(n, {"sub"})
      values   == sp + 1
  IN  (IF constant = <<>> THEN <<>> ELSE Eqq(constant[1], target))
        \o RespondTo(sp, target, "deconstruct_keys", NoCache)
        \o <<Move(N(sp), target, FALSE), Push(1)>>
        \o (IF n.name = "" /\ keys # <<>>
            THEN KeyedSend(keys, sp + 1, sp, "deconstruct_keys")
            ELSE <<Load("LOADNIL"), Push(1), Push(1), Pop(1), SetSp(N(sp)),
                   SendAt(sp, "deconstruct_keys", 1)>>)
        \o <<Push(1), Move(N(values), N(sp), FALSE), Push(1)>>
        \o KeyedSend(keys, values + 1, values, "__pat_values")
        \o <<Push(1), FailUnless(N(values))>>
        \o FlattenSeq([i \in DOMAIN subs |->
             <<Move(SP, N(values), FALSE), Push(1), LoadInt(i - 1), Push(1), Push(1), Pop(1),
               SetSp(N(values + 1)), SendAt(values + 1, "[]", 1), Push(1)>>
               \o Match(subs[i], N(values + 1), "fail", Unknown, NoCache)
               \o <<SetSp(N(values + 1))>>])
        \o <<Pop(1)>>
        \o (CASE n.name = "nil" \/ (n.name = "" /\ keys = <<>>) ->
                   SizeTest(sp + 1, sp, "EQ", Len(keys))
              [] n.name = "bound" -> HashRest(keys, sp + 1)
              [] OTHER -> <<>>)
        \o <<Pop(1)>>

--------------------------------------------------------------------------------
(* Find patterns: the elements ("first") are looked for at every index in turn.   *)
(* The array is in arr, the index behind it.                                     *)

\* arr[0 ... index]
FindBefore(arr) ==
  <<Move(SP, N(arr), FALSE), Push(1), LoadInt(0), Push(1), Move(SP, N(arr + 1), FALSE),
    Push(1), Pop(1), Op("RANGE_EXC", SpOff(-1), N(0)), Pop(2),
    Op3("SEND", SP, Sym("[]", 0), N(1)), Bind(SP)>>

\* arr[index + n .. -1]
FindBehind(arr, n) ==
  <<Move(SP, N(arr), FALSE), Push(1), Move(SP, N(arr + 1), FALSE), IntAt(SpOff(1), n),
    Load("ADD"), Push(1), LoadInt(-1), Push(1), Pop(1), Op("RANGE_INC", SpOff(-1), N(0)),
    Pop(2), Op3("SEND", SP, Sym("[]", 0), N(1)), Bind(SP)>>

NextIndex(index) == <<Op("ADDI", N(index), N(1))>>

GenFindPattern(n, sp, target, cache) ==
  LET constant == Kids(n, {"constant"})
      elements == Kids(n, {"first"})
      len      == Len(elements)
      index    == sp + 1
      dst      == sp + 2
  IN  (IF constant = <<>> THEN <<>> ELSE Eqq(constant[1], target))
        \o Deconstruct(sp, target, cache) \o <<Push(1)>> \o FailJump("JMPNIL", N(sp))
        \o SizeTest(sp + 1, sp, "GE", len)
        \o <<IntAt(N(index), 0), Push(1), Label("start"),
             Move(N(dst), N(sp), FALSE), Push(2), Pop(2), SendAt(dst, "size", 0),
             IntAt(N(dst + 1), len), Op("SUB", N(dst), N(0)),
             Move(N(dst + 1), N(index), FALSE), Op("GE", N(dst), N(0)), FailUnless(N(dst))>>
        \o FlattenSeq([i \in DOMAIN elements |->
             <<Move(SP, N(sp), FALSE), Push(1), Move(SP, N(index), FALSE)>>
               \o (IF i = 1 THEN <<>> ELSE <<IntAt(SpOff(1), i - 1), Load("ADD")>>)
               \o <<Push(2), Pop(2), Op("GETIDX", SpOff(-1), N(0))>>
               \o Match(elements[i], N(dst), "missed", Unknown, NoCache) \o <<Pop(1)>>])
        \o (IF n.name \in {"before", "both"} THEN FindBefore(sp) ELSE <<>>)
        \o (IF n.name \in {"behind", "both"} THEN FindBehind(sp, len) ELSE <<>>)
        \o <<Jump("found", "JMP"), LandAll("missed")>> \o NextIndex(index)
        \o <<JumpTo("JMP", V("start")), Land("found"), Pop(2)>>

--------------------------------------------------------------------------------
(* A pattern, and what has patterns.                                            *)

\* codegen_pattern.  When it is coded its parent has the chain, and learns whether
\* this was an alternation.
GenPattern(n, sp, target, chain, known, cache) ==
  <<Set("fail", chain), Label("start")>>
    \o (CASE n.kind = "ValuePattern" -> Eqq(n.kids[1], target)
          [] n.kind = "Bind"         -> <<Bind(target)>>
          [] n.kind = "Guard"        ->
               GenGuard(n.kids[1], n.kids[2], n.name = "unless", target, known, cache)
          [] n.kind = "Alternation"  ->
               GenAlternation(n.kids[1], n.kids[2], target, known, cache)
          [] n.kind = "Capture"      -> GenCapture(n.kids[1], target, known, cache)
          [] n.kind = "ArrayPattern" -> GenArrayPattern(n, sp, target, known, cache)
          [] n.kind = "HashPattern"  -> GenHashPattern(n, sp, target)
          [] n.kind = "FindPattern"  -> GenFindPattern(n, sp, target, cache))
    \o <<Give("chain", V("fail")), Give("alternation", N(n.kind = "Alternation"))>>

GenMatchPredicate(value, pattern, sp, val) ==
  <<Gen(value, TRUE)>> \o Match(pattern, N(sp), "fail", Unknown, NoCache)
    \o <<Op("LOADTRUE", N(sp), N(0)), Jump("done", "JMP"), LandAll("fail"),
         Op("LOADFALSE", N(sp), N(0)), Land("done")>>
    \o (IF val THEN <<>> ELSE <<Pop(1)>>)

NoMatchError == <<Load("LOADFALSE"), Load("MATCHERR")>>

GenMatchRequired(value, pattern, sp, val) ==
  <<Gen(value, TRUE)>> \o Match(pattern, N(sp), "fail", Unknown, NoCache)
    \o <<Jump("ok", "JMP"), LandAll("fail")>> \o NoMatchError
    \o <<Land("ok"), Pop(1)>> \o NilIf(val)

\* The subject of `case/in` is an array literal, or any value ("whole").  Patterns
\* that would ask it to deconstruct itself are "taking"; when there are several
\* clauses the answer is kept.
GenCaseMatch(n, sp, val) ==
  LET value    == Kids(n, {"whole"})
      literal  == Kids(n, {"arg"})
      patterns == Kids(n, {"taking", "plain pattern"})
      bodies   == Kids(n, {"body", "no body", "empty"})
      e        == Kids(n, {"else"})
      known    == IF value = <<>> THEN Len(literal) ELSE Unknown
      cached   == known = Unknown /\ Len(patterns) > 1 /\ Kids(n, {"taking"}) # <<>>
      cache    == IF cached THEN sp + 1 ELSE NoCache
  IN  (IF value = <<>> THEN GenArray(Items(n, {"arg"}), sp, TRUE) ELSE <<Gen(value[1], TRUE)>>)
        \o (IF cached THEN <<Op("LOADNIL", N(cache), N(0)), Push(1)>> ELSE <<>>)
        \o FlattenSeq([i \in DOMAIN patterns |->
             <<Set("fail", N(JMPLINK_START))>>
               \o Match(patterns[i], N(sp), "fail", known, cache)
               \o GenBranch(bodies[i], val) \o PopIf(val)
               \o <<Linked("end", "JMP"), LandAll("fail")>>])
        \o (IF e = <<>> THEN NoMatchError ELSE <<Gen(e[1], val)>> \o PopIf(val))
        \o <<LandAll("end")>>
        \o (IF val THEN <<Move(N(sp), SP, FALSE)>> ELSE <<>>)
        \o <<Pop(IF cached THEN 2 ELSE 1)>> \o PushIf(val)
================================================================================
