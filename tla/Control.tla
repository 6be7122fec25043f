-------------------------------- MODULE Control --------------------------------
(* The handlers of control flow (handlers.rs): statements, conditions, loops,   *)
(* begin, rescue and ensure, and the ways out of them.                          *)
EXTENDS Values

--------------------------------------------------------------------------------
(* Handlers of statements and conditions.                                       *)

\* gen_branch, gen_list: an absent body codes nil when it is wanted, an empty
\* list codes nil and keeps it whether it is wanted or not.
GenBranch(id, val) ==
  CASE id = Absent -> NilIf(val)
    [] id = Empty  -> NilIf(TRUE)
    [] OTHER       -> <<Gen(id, val)>>

\* An `else` clause; one with no statements is a null subtree.
GenElse(id, val) ==
  CASE id \in {Absent, Empty} -> NilIf(val)
    [] OTHER                  -> <<Gen(id, val)>>

GenIfTail(e, val) ==
  IF e # Absent \/ val
  THEN <<Jump("pos2", "JMP"), Land("pos1")>> \o GenElse(e, val) \o <<Land("pos2")>>
  ELSE <<Land("pos1")>>

\* `class` says what the condition is: a true or a false constant, or neither.
GenIf(class, c, t, e, val) ==
  CASE class = "true"  -> GenBranch(t, val)
    [] class = "false" -> GenElse(e, val)
    [] OTHER ->
         <<Gen(c, TRUE), Pop(1)>> \o
         (CASE val \/ t # Absent ->
                 <<Cond("pos1", "JMPNOT", val)>> \o GenBranch(t, val)
                   \o PopIf(val) \o GenIfTail(e, val)
            [] ~(val \/ t # Absent) /\ e # Absent ->
                 <<Cond("pos1", "JMPIF", val)>> \o GenElse(e, val)
                   \o <<Land("pos1")>>
            [] OTHER -> <<>>)

\* `if recv.nil?` tests the receiver itself.
GenIfNil(recv, t, e, val) ==
  (IF recv = Absent THEN <<Op("LOADSELF", SP, N(0)), Push(1)>>
                    ELSE <<Gen(recv, TRUE)>>)
  \o <<Pop(1)>> \o
  (CASE val \/ t # Absent ->
          <<Cond("pos2", "JMPNIL", val), Jump("pos1", "JMP"), Land("pos2")>>
            \o GenBranch(t, val) \o PopIf(val) \o GenIfTail(e, val)
     [] ~(val \/ t # Absent) /\ e # Absent ->
          <<Cond("pos1", "JMPNIL", val)>> \o GenElse(e, val) \o <<Land("pos1")>>
     [] OTHER -> <<>>)

GenLogic(class, l, r, val, isOr) ==
  CASE class = "true"  -> <<Gen(IF isOr THEN l ELSE r, val)>>
    [] class = "false" -> <<Gen(IF isOr THEN r ELSE l, val)>>
    [] OTHER -> <<Gen(l, TRUE), Pop(1),
                  Cond("pos", IF isOr THEN "JMPIF" ELSE "JMPNOT", val),
                  Gen(r, val), Land("pos")>>

GenWhile(class, c, body, val, isUntil) ==
  IF class = (IF isUntil THEN "true" ELSE "false") THEN NilIf(val)
  ELSE <<Loop("Normal")>> \o (IF val THEN <<>> ELSE <<LoopSet("reg", N(-1))>>)
       \o <<Label("pc0"), LoopSet("pc0", V("pc0")),
            Gen(c, TRUE), Pop(1),
            Cond("pos", IF isUntil THEN "JMPIF" ELSE "JMPNOT", FALSE),
            Label("redo"), LoopSet("pc1", V("redo")), Op("NOP", N(0), N(0))>>
       \o GenBranch(body, FALSE)
       \o <<JumpTo("JMP", V("pc0")), Land("pos"), Unloop(val)>>

\* One condition of a `when`: compared with the subject when there is one.
GenCondition(id, subject) ==
  <<Gen(id, TRUE)>> \o
  (IF subject THEN <<Move(SP, V("head"), FALSE), Push(2), Pop(3),
                     Op3("SEND", SP, Sym("===", 0), N(1))>>
              ELSE <<Pop(1)>>)
  \o <<Cond("pos2", "JMPIF", ~subject)>>

GenWhen(c1, c2, body, next, val, subject) ==
  <<Set("pos2", N(JMPLINK_START))>> \o GenCondition(c1, subject)
    \o (IF c2 = Absent THEN <<>> ELSE GenCondition(c2, subject))
    \o <<Jump("pos1", "JMP"), LandAll("pos2")>>
    \o GenBranch(body, val) \o PopIf(val)
    \o <<Linked("pos3", "JMP"), Land("pos1")>>
    \o (IF next = Absent THEN <<>> ELSE <<Gen(next, val)>>)

GenCase(subject, when, e, val) ==
  (IF subject = Absent THEN <<>> ELSE <<Set("head", SP), Gen(subject, TRUE)>>)
    \o <<Gen(when, val)>>
    \o (IF e = Absent THEN <<>>
        ELSE <<Gen(e, val)>> \o PopIf(val) \o <<Linked("pos3", "JMP")>>)
    \o (IF val THEN <<Set("nil", SP), Op("LOADNIL", V("nil"), N(0))>> ELSE <<>>)
    \o <<LandAll("pos3")>>
    \o (IF subject = Absent THEN <<>>
        ELSE <<Pop(1)>> \o (IF val THEN <<Move(SP, V("nil"), FALSE)>> ELSE <<>>))
    \o PushIf(val)

--------------------------------------------------------------------------------
(* Handlers of begin, rescue and ensure.                                        *)

GenRescueClass(exc) ==
  IF exc = Absent
  THEN <<Op("GETCONST", SP, StandardError), Push(1), Pop(1)>>
  ELSE <<Gen(exc, TRUE), Pop(1)>>

RestoreErr(v) == Op("SETGV", V(v), ERRINFO)

GenRescue(exc, body, next, as, val) ==
  <<Land("pos1"), Set("pos2", N(JMPLINK_START))>> \o GenRescueClass(exc)
    \o <<Op("RESCUE", V("exc"), SP), Cond("pos2", "JMPIF", val),
         Jump("pos1", "JMP"), LandAll("pos2"), Pop(1),
         Op("SETGV", V("exc"), ERRINFO)>>
    \o (IF as THEN <<StoreVar("x", V("exc"), FALSE)>> ELSE <<>>)
    \o GenBranch(body, val) \o PopIf(val) \o <<RestoreErr("errsave")>>
    \o (IF val THEN <<Move(V("landing"), SP, FALSE)>> ELSE <<>>)
    \o <<Linked("exend", "JMP"), Push(1)>>
    \o (IF next = Absent THEN <<>> ELSE <<Gen(next, val)>>)

\* The handler that puts $! back when a rescue clause is left by a jump or a raise.
Unwinding(saved) ==
  <<Op("EXCEPT", V("idx"), N(0)), RestoreErr(saved), Op("RAISEIF", V("idx"), N(0))>>

GenRescues(rescue, val) ==
  <<Set("landing", SP), Push(1),
    Set("errsave", SP), Op("GETGV", V("errsave"), ERRINFO), Push(1),
    Set("exc", SP), Op("EXCEPT", V("exc"), N(0)), Push(1),
    Catch("catch2"), Mark("begin2"), Gen(rescue, val),
    Land("pos1"), RestoreErr("errsave"), Op("RAISEIF", V("exc"), N(0)),
    Pop(1), Push(1), Mark("end2"), Push(1), Set("idx", SP)>>
    \o Unwinding("errsave")
    \o <<Pop(1), Pop(1),
         CatchIs("catch2", "Ensure", V("begin2"), V("end2"), V("end2")), Pop(1)>>

GenEnsure(body) ==
  <<Push(1), Mark("eend"), Push(1), Set("eidx", SP), Op("EXCEPT", V("eidx"), N(0)),
    Push(1), Set("esave", SP), Op("GETGV", V("esave"), ERRINFO), Push(1),
    Op("OCLASS", SP, N(0)), Op("GETMCNST", SP, Exception), Push(1), Pop(1),
    Op("RESCUE", V("eidx"), SP), Cond("skip", "JMPNOT", FALSE),
    Op("SETGV", V("eidx"), ERRINFO), Land("skip"),
    Catch("bcatch"), Mark("bbegin"), Gen(body, FALSE), RestoreErr("esave"),
    Jump("restored", "JMP"), Mark("bend"), Set("idx", SP)>>
    \o Unwinding("esave")
    \o <<CatchIs("bcatch", "Ensure", V("bbegin"), V("bend"), V("bend")),
         Land("restored"), Pop(1), Pop(1), Op("RAISEIF", V("eidx"), N(0)), Pop(1),
         CatchIs("ecatch", "Ensure", V("ebegin"), V("eend"), V("eend"))>>

GenBegin(body, rescue, e, ensure, val) ==
  (IF ensure \in {Absent, Empty} THEN <<>> ELSE <<Catch("ecatch"), Mark("ebegin")>>)
    \o <<Loop("Begin"), Label("pc0"), LoopSet("pc0", V("pc0")),
         Catch("catch"), Mark("begin")>>
    \o GenElse(body, TRUE)
    \o <<Pop(1), LoopSet("kind", N("Rescue")), Mark("end"), Jump("noexc", "JMP"),
         Mark("target"),
         CatchIs("catch", "Rescue", V("begin"), V("end"), V("target"))>>
    \o (IF rescue = Absent THEN <<>> ELSE GenRescues(rescue, val))
    \o <<Pop(1), Land("noexc")>>
    \o (IF e # Absent THEN <<Gen(e, val)>> ELSE PushIf(val))
    \o <<LandAll("exend"), Unloop(FALSE)>>
    \o (IF ensure \in {Absent, Empty} THEN <<>>
        ELSE PopIf(rescue # Absent) \o GenEnsure(ensure))

GenRescueModifier(body, rescue, val) ==
  <<Loop("Begin"), Label("pc0"), LoopSet("pc0", V("pc0")),
    Catch("catch"), Mark("begin"), Gen(body, val)>> \o PopIf(val)
    \o <<LoopSet("kind", N("Rescue")), Mark("end"), Jump("noexc", "JMP"),
         Mark("target"),
         CatchIs("catch", "Rescue", V("begin"), V("end"), V("target")),
         Set("landing", SP), Push(1),
         Set("errsave", SP), Op("GETGV", V("errsave"), ERRINFO), Push(1),
         Set("exc", SP), Op("EXCEPT", V("exc"), N(0)), Push(1),
         Op("GETCONST", SP, StandardError), Push(1), Pop(1),
         Op("RESCUE", V("exc"), SP), Cond("pos1", "JMPIF", val),
         Op("RAISEIF", V("exc"), N(0)), Land("pos1"), Pop(1),
         Op("SETGV", V("exc"), ERRINFO),
         Catch("catch2"), Mark("begin2"), Gen(rescue, val)>> \o PopIf(val)
    \o <<RestoreErr("errsave")>>
    \o (IF val THEN <<Move(V("landing"), SP, FALSE)>> ELSE <<>>)
    \o <<Jump("restored", "JMP"), Mark("end2"), Push(1), Set("idx", SP)>>
    \o Unwinding("errsave")
    \o <<Pop(1), CatchIs("catch2", "Ensure", V("begin2"), V("end2"), V("end2")),
         Pop(1), Pop(1), Land("restored"), Land("noexc")>>
    \o PushIf(val) \o <<Unloop(FALSE)>>

--------------------------------------------------------------------------------
(* Handlers that leave a loop, a block or the scope.  They look at the loops    *)
(* open in the current scope.                                                   *)
\* Faulty variant: a begin hides the loop around it.
TargetInnermost(s) ==
  IF s.loops = <<>> \/ InnerLoop(s).kind \in {"Begin", "Rescue"} THEN 0
  ELSE Len(s.loops)

\* Index of the innermost loop that is no begin or rescue, 0 when there is none.
JumpTarget(s) ==
  LET real == {i \in DOMAIN s.loops : s.loops[i].kind \notin {"Begin", "Rescue"}}
  IN  IF real = {} THEN 0 ELSE CHOOSE i \in real : \A j \in real : j <= i

GenReturnNode(s, args, val) ==
  GenRetval(args, s.sp)
    \o <<Ret(IF s.loops = <<>> THEN "RETURN" ELSE "RETURN_BLK", SP)>> \o PushIf(val)

LoopBreak(s, args) ==
  LET target == JumpTarget(s)
      value  == CASE args = <<>>         -> <<>>
                  [] s.loops = <<>>      -> GenArray(args, s.sp, FALSE)
                  [] OTHER -> IF InnerLoop(s).reg < 0 THEN GenArray(args, s.sp, FALSE)
                              ELSE GenRetval(args, s.sp)
  IN  value \o
      (CASE target = 0 -> <<Fail>>
         [] target # 0 /\ s.loops[target].kind = "Normal" ->
              (IF s.loops[target].reg < 0 THEN <<>>
               ELSE IF args = <<>>
                    THEN <<Op("LOADNIL", N(s.loops[target].reg), N(0))>>
                    ELSE <<Move(N(s.loops[target].reg), SP, FALSE)>>)
              \o <<BreakOut(target)>>
         [] OTHER -> (IF args = <<>> THEN GenRetval(<<>>, s.sp) ELSE <<>>)
                       \o <<Ret("BREAK", SP)>>)

\* Faulty variant: `next` goes behind the condition of the loop.
NextToBody(s, args, val) ==
  LET target == JumpTarget(s) IN
    CASE target = 0 -> <<Fail>>
      [] target # 0 /\ s.loops[target].kind = "Normal" ->
           GenArray(args, s.sp, FALSE)
             \o <<JumpTo("JMPUW", N(s.loops[target].pc1))>> \o PushIf(val)
      [] OTHER -> GenRetval(args, s.sp) \o <<Ret("RETURN", SP)>> \o PushIf(val)

GenNext(s, args, val) ==
  LET target == JumpTarget(s) IN
    CASE target = 0 -> <<Fail>>
      [] target # 0 /\ s.loops[target].kind = "Normal" ->
           GenArray(args, s.sp, FALSE)
             \o <<JumpTo("JMPUW", N(s.loops[target].pc0))>> \o PushIf(val)
      [] OTHER -> GenRetval(args, s.sp) \o <<Ret("RETURN", SP)>> \o PushIf(val)

\* Faulty variants: `redo` has no value; it goes back to the condition.
RedoUnvalued(s, val) ==
  LET target == JumpTarget(s) IN
    IF target = 0 THEN <<Fail>> ELSE <<JumpTo("JMPUW", N(s.loops[target].pc1))>>
RedoToCondition(s, val) ==
  LET target == JumpTarget(s) IN
    IF target = 0 THEN <<Fail>>
    ELSE <<JumpTo("JMPUW", N(s.loops[target].pc0))>> \o PushIf(val)

GenRedo(s, val) ==
  LET target == JumpTarget(s) IN
    IF target = 0 THEN <<Fail>>
    ELSE <<JumpTo("JMPUW", N(s.loops[target].pc1))>> \o PushIf(val)

GenRetry(s, val) ==
  LET open == {i \in DOMAIN s.loops : s.loops[i].kind = "Rescue"} IN
    IF open = {} THEN <<Fail>>
    ELSE LET i == CHOOSE i \in open : \A j \in open : j <= i
         IN  <<JumpTo("JMPUW", N(s.loops[i].pc0))>> \o PushIf(val)

================================================================================
