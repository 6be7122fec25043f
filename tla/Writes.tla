--------------------------------- MODULE Writes ---------------------------------
(* The handlers that assign (handlers.rs): plain writes, `+=`, `||=` and `&&=`  *)
(* on variables, attributes and elements, and multiple assignment.              *)
(*                                                                              *)
(* A target has no value of its own: what is assigned to it is in a register of *)
(* its parent, which the parent puts in its variable `src`.                     *)
EXTENDS Control
LOCAL INSTANCE SequencesExt

CONSTANT ArefMax  \* targets an array is read for before it is cut (255)

ASSUME WritesAssumption == ArefMax \in Nat \ {0}

IndexLimit == CallArgLimit - 1   \* the value assigned is an argument, too

--------------------------------------------------------------------------------
(* Plain writes.                                                                *)

\* A variable is local, or of another kind by its name.
Local(var) == var \notin {"ivar", "gvar", "cvar", "const"}

LoadVar(var) ==
  IF Local(var) THEN <<ReadVar(var), Push(1)>>
  ELSE <<Op(Getter(var), SP, Name(var)), Push(1)>>

Store(var, src, val) ==
  IF Local(var) THEN StoreVar(var, src, val) ELSE Setxv(Setter(var), src, Name(var), val)

\* gen_assignment of a write, gen_plain_store.
GenWrite(var, value, val) ==
  <<Gen(value, TRUE), Pop(1), Store(var, SP, val)>> \o PushIf(val)

\* The value takes the place kept for it below the parent.
GenConstPathWrite(parent, value, val) ==
  <<Set("base", SP), Push(1)>>
    \o (IF parent = Absent THEN <<Load("OCLASS"), Push(1)>> ELSE <<Gen(parent, TRUE)>>)
    \o <<Gen(value, TRUE), Pop(1), Move(V("base"), SP, FALSE), Pop(2),
         Op("SETMCNST", V("base"), Sym("Name", 0))>>
    \o PushIf(val)

--------------------------------------------------------------------------------
(* Operator writes.                                                             *)

GenOpWrite(id, var, operator, value, val) ==
  LoadVar(var)
    \o <<Gen(value, TRUE), Push(1), Pop(1), Pop(2)>> \o GenBinaryOperator(id, operator)
    \o <<Store(var, SP, val)>> \o PushIf(val)

\* A constant or a class variable that may not be there is read under a rescue
\* that answers false.
GenLogicRescueRead(var) ==
  <<Loop("Begin"), Label("pc0"), LoopSet("pc0", V("pc0")),
    Catch("catch"), Mark("begin"), Set("exc", SP),
    Op(Getter(var), SP, Name(var)), Push(1), Mark("end"),
    Jump("noexc", "JMP"), LoopSet("kind", N("Rescue")), Mark("target"),
    CatchIs("catch", "Rescue", V("begin"), V("end"), V("target")),
    Op("EXCEPT", V("exc"), N(0)), Op("LOADFALSE", V("exc"), N(0)),
    Land("noexc"), Unloop(FALSE)>>

GenLogicWrite(var, isOr, value, val) ==
  (IF isOr /\ var \in {"cvar", "const"} THEN GenLogicRescueRead(var) ELSE LoadVar(var))
    \o <<Pop(1), Cond("pos", IF isOr THEN "JMPIF" ELSE "JMPNOT", val),
         Gen(value, TRUE), Pop(1), Store(var, SP, val)>>
    \o PushIf(val) \o <<Land("pos")>>

\* What is assigned: the operator applied to what was read, which lies at the stack
\* pointer, or the value of `||=` and `&&=`, which skip to pos.
Combine(id, operator, value, val) ==
  IF operator \notin {"or", "and"}
  THEN <<Push(1), Gen(value, TRUE), Push(1), Pop(1), Pop(2)>>
         \o GenBinaryOperator(id, operator)
  ELSE (IF val THEN <<Move(V("vsp"), SP, FALSE)>> ELSE <<>>)
         \o <<Cond("pos", IF operator = "or" THEN "JMPIF" ELSE "JMPNOT", val),
              Gen(value, TRUE), Pop(1)>>

Keep(val) == IF val THEN <<Set("vsp", SP), Push(1)>> ELSE <<>>

SendOf(self) == IF self THEN "SSEND" ELSE "SEND"

\* `recv.a += v`: the getter is sent to a copy of the receiver.
GenCallWrite(n, id, val) ==
  LET recv == n.kids[1]
      self == n.shape[1] \in {"absent", "self"}
      safe == n.kind = "SafeCallWrite"
  IN  Keep(val)
        \o (IF recv = Absent THEN <<Push(1)>> ELSE <<Gen(recv, TRUE)>>)
        \o (IF safe THEN SafeTest(val) ELSE <<>>)
        \o <<Move(SP, SpOff(-1), TRUE), Push(2), Pop(2),
             Op3(SendOf(self), SP, Sym("a", id), N(0))>>
        \o Combine(id, n.name, n.kids[2], val)
        \o (IF val THEN <<Move(V("vsp"), SP, TRUE)>> ELSE <<>>)
        \o <<Pop(1), Op3(SendOf(self), SP, Sym("a=", id), N(1)), Land("pos")>>
        \o (IF safe THEN <<Land("skip")>> ELSE <<>>)

\* The receiver, in base, and the n indices above it, once more.
CopyOperands(base, n) ==
  [i \in 1 .. n + 1 |-> Move(SpOff(i - 1), N(base + i - 1), TRUE)]

\* `recv[i] += v`: receiver and indices are copied for the read, and serve the
\* write, which the value joins.  A jump lands twice, the second time for good.
GenIndexWrite(n, id, sp, val) ==
  LET recv   == n.kids[1]
      self   == n.shape[1] = "self"
      value  == n.kids[Len(n.kids)]
      base   == sp + IF val THEN 1 ELSE 0
      args   == GenValues(Items(n, {"arg", "splat"}), base + 1, IndexLimit)
      nargs  == IF args.n < 0 THEN 1 ELSE args.n
      nsend  == IF args.n < 0 THEN CALL_MAXARGS ELSE args.n
  IN  Keep(val) \o <<Gen(recv, TRUE)>> \o GenArgumentsPushed(args)
        \o CopyOperands(base, nargs)
        \o <<Push(nargs + 2), Pop(nargs + 2),
             Op3(SendOf(self), SP, Sym("[]", 0), N(nsend))>>
        \o Combine(id, n.name, value, val)
        \o (IF n.name \in {"or", "and"} THEN <<Land("pos")>> ELSE <<>>)
        \o (IF val THEN <<Move(V("vsp"), SP, FALSE)>> ELSE <<>>)
        \o (IF args.n < 0 THEN <<Pop(1), Op("ARYPUSH", SP, N(1))>> ELSE <<Pop(nargs)>>)
        \o <<Pop(1), Op3(SendOf(self), SP, Sym("[]=", 0),
                         N(IF args.n < 0 THEN nsend ELSE nsend + 1)), Land("pos")>>

--------------------------------------------------------------------------------
(* Targets.                                                                     *)

StoreFrom(target, reg) == <<Set("src", reg), Gen(target, FALSE)>>

\* `recv[i]` as a target.
GenIndexTarget(n, sp, src) ==
  LET args == GenValues(Items(n, {"arg", "splat"}), sp + 1, IndexLimit) IN
    <<Gen(n.kids[1], TRUE)>> \o args.calls
      \o (CASE args.n < 0 ->
                 <<Push(1), Op("MOVE", SP, src), Push(1), Pop(1), Pop(1),
                   Op("ARYPUSH", SP, N(1)), Pop(1),
                   Op3("SEND", SP, Sym("[]=", 0), N(CALL_MAXARGS))>>
            [] args.n = 1 ->
                 <<Op("MOVE", SP, src), Push(1), Pop(3), Load("SETIDX")>>
            [] OTHER ->
                 <<Op("MOVE", SP, src), Push(1), Push(1), Pop(1), Pop(args.n + 2),
                   Op3("SEND", SP, Sym("[]=", 0), N(args.n + 1))>>)

\* `recv.a` as a target.
GenCallTarget(n, id, src) ==
  LET self == n.shape[1] = "self" IN
    (IF self THEN <<Push(1)>> ELSE <<Gen(n.kids[1], TRUE)>>)
      \o <<Op("MOVE", SP, src), Push(1), Push(1), Pop(1), Pop(2),
           Op3(SendOf(self), SP, Sym("a=", id), N(1))>>

--------------------------------------------------------------------------------
(* Multiple assignment.  A node with targets has some before the one that takes  *)
(* the rest ("left"), that one ("rest"), and some behind it ("behind").  Its name  *)
(* says whether a nameless `*` ("anon") or a comma ("implicit") takes the rest.  *)

HasRest(n) == n.name = "anon" \/ Kids(n, {"rest"}) # <<>>

\* The array is in `rhs`, a register below sp.  Its items are read one by one; APOST
\* cuts off what was read, and takes the rest apart.
ReadItem(k, sp, rhs) ==
  LET index == (k - 1) % ArefMax
      base  == IF k > ArefMax THEN sp ELSE rhs
  IN  (IF k > 1 /\ index = 0
       THEN (IF k = ArefMax + 1 THEN <<Move(N(sp), N(rhs), FALSE)>> ELSE <<>>)
              \o <<Op3("APOST", N(sp), N(ArefMax), N(0))>>
       ELSE <<>>)
        \o <<Op3("AREF", SP, N(base), N(index))>>

ItemsRead(n)    ==
  LET read == Len(Kids(n, {"left"})) IN
    IF read = 0 THEN 0 ELSE ((read - 1) % ArefMax) + 1

GenMassignment(n, sp, rhs, val) ==
  LET lefts   == Kids(n, {"left"})
      posts   == Kids(n, {"behind"})
      rest    == Kids(n, {"rest"})
      scratch == Len(lefts) > ArefMax
      base    == IF scratch THEN sp ELSE rhs
      tail    == sp + IF scratch THEN 1 ELSE 0
  IN  IF Len(posts) > 255 THEN <<Fail>> ELSE
      (IF scratch THEN <<Push(1)>> ELSE <<>>)
        \o FlattenSeq([k \in DOMAIN lefts |->
             ReadItem(k, sp, rhs)
               \o <<Set("src", SP), Push(1), Gen(lefts[k], FALSE), Pop(1)>>])
        \o (IF HasRest(n) \/ posts # <<>>
            THEN <<Move(SP, N(base), val), Push(Len(posts) + 1),
                   Op3("APOST", N(tail), N(ItemsRead(n)), N(Len(posts)))>>
                   \o (IF rest = <<>> THEN <<>> ELSE StoreFrom(rest[1], N(tail)))
                   \o FlattenSeq([i \in DOMAIN posts |-> StoreFrom(posts[i], N(tail + i))])
                   \o <<Pop(Len(posts) + 1)>>
            ELSE <<>>)
        \o (IF scratch THEN <<Pop(1)>> ELSE <<>>)
        \o (IF val /\ (HasRest(n) \/ posts # <<>>) THEN <<Move(SP, N(rhs), FALSE)>>
            ELSE <<>>)

StoreNil(target) ==
  <<Load("LOADNIL"), Set("src", SP), Push(1), Gen(target, FALSE), Pop(1)>>

\* `a, *b, c = 1, 2, 3` as a statement: the values are stored where they lie.
GenFixed(n, elements, sp) ==
  LET len    == Len(elements)
      lefts  == Kids(n, {"left"})
      posts  == Kids(n, {"behind"})
      rest   == Kids(n, {"rest"})
      taken  == IF Len(lefts) < len THEN Len(lefts) ELSE len
      others == IF (HasRest(n) \/ n.name = "implicit") /\ len >= Len(posts) + taken
                THEN len - Len(posts) - taken ELSE 0
      store(target, i) == IF i <= len THEN StoreFrom(target, N(sp + i - 1))
                          ELSE StoreNil(target)
  IN  [i \in DOMAIN elements |-> Gen(elements[i], TRUE)]
        \o FlattenSeq([k \in DOMAIN lefts |-> store(lefts[k], k)])
        \o (IF HasRest(n)
            THEN <<IF taken = len THEN Op("ARRAY", SP, N(others))
                   ELSE Op3("ARRAY2", SP, N(sp + taken), N(others))>>
            ELSE <<>>)
        \o (IF rest = <<>> THEN <<>>
            ELSE <<Set("src", SP), Push(1), Gen(rest[1], FALSE), Pop(1)>>)
        \o FlattenSeq([k \in DOMAIN posts |-> store(posts[k], taken + others + k)])
        \o <<Pop(len)>>

GenMultiWrite(n, sp, val) ==
  LET elements == Items(n, {"arg", "splat"})
      value    == Kids(n, {"whole"})
  IN  IF ~val /\ value = <<>> /\ Items(n, {"splat"}) = <<>>
      THEN GenFixed(n, Kids(n, {"arg"}), sp)
      ELSE (IF value = <<>> THEN GenArray(elements, sp, TRUE) ELSE <<Gen(value[1], TRUE)>>)
             \o GenMassignment(n, sp + 1, sp, val)
             \o (IF val THEN <<>> ELSE <<Pop(1)>>)

\* gen_assignment of a target: `src` is the register of its value.
GenTarget(n, id, sp, src) ==
  CASE n.kind = "VarTarget"   -> <<Store(n.name, N(src), FALSE)>>
    [] n.kind = "MultiTarget" -> GenMassignment(n, sp, src, FALSE)
    [] n.kind = "IndexTarget" -> GenIndexTarget(n, sp, N(src))
    [] n.kind = "CallTarget"  -> GenCallTarget(n, id, N(src))

--------------------------------------------------------------------------------
(* A `for` loop.                                                                *)

\* The body is coded in a scope that shares the locals, where the stack starts at
\* sp; its variable, or targets, are stored from the argument.
GenFor(n, id, sp, val) ==
  LET target == Kids(n, {"target"}) IN
    <<Gen(n.kids[1], TRUE), Open("For", <<>>, 0), Push(1), Op("ENTER", N(ArgsReq(1)), N(0))>>
      \o (CASE n.name = "x" -> <<StoreVar("x", N(1), FALSE)>>
            [] n.name # "x" /\ target # <<>> -> StoreFrom(target[1], N(1))
            [] OTHER -> GenMassignment(n, sp, 1, TRUE))
      \o <<Loop("For"), Label("redo"), LoopSet("pc1", V("redo")), Op("NOP", N(0), N(0))>>
      \o GenElse(n.kids[2], TRUE)
      \o <<Pop(1), Ret("RETURN", SP), Unloop(FALSE), Close("rep"),
           Op("BLOCK", SP, V("rep")), Push(1), Pop(1), Pop(1),
           Op("SENDB", SP, Sym("each", id))>>
      \o PushIf(val)
================================================================================
