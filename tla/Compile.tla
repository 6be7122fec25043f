-------------------------------- MODULE Compile --------------------------------
(* The compiler in its place: a program is compiled by Codegen, the bytecode is *)
(* run by Machine, and the program itself by Ruby.  The two runs get the same   *)
(* answers from the methods they call, whatever these are, and must make the    *)
(* same calls, see the same $! in each, and have the same outcome.              *)
EXTENDS Codegen
LOCAL INSTANCE SequencesExt

CONSTANT Modulus  \* integers are computed modulo this

ASSUME CompileAssumption ==
  /\ Modulus \in Nat \ {0}
  /\ \A d \in DOMAIN Dialects :
       Dialects[d].answers \subseteq {"object", "nil", "error", "own", "yield"}

VARIABLES
  machine,        \* the run of the bytecode
  ruby            \* the run of the program

M == INSTANCE Machine
R == INSTANCE Ruby

vars == <<dialect, ast, fuel, cg, machine, ruby>>

\* What a call may do in this dialect.
Answers == Dialects[dialect].answers

Booting == machine.frames = <<>>
Running == ~Booting

InitAll == Init /\ machine = M!Halted /\ ruby = R!Halted

--------------------------------------------------------------------------------

Compiling == (CodeNode \/ EndNode) /\ UNCHANGED <<machine, ruby>>

\* A compiled program is run.
Boot ==
  /\ Booting /\ Compiled /\ ~cg.error
  /\ \E match \in IF "MatchRef" \in Kinds THEN {<<"nil">>, <<"obj", 0>>} ELSE {<<"nil">>} :
       LET store == <<"match">> :> match IN
         /\ machine' = M!Boot(cg.root[1], store)
         /\ ruby' = R!Boot(1, store)
  /\ UNCHANGED <<dialect, ast, fuel, cg>>

\* The program runs up to its next call, then the bytecode up to its own, so many
\* steps at a time: neither sees the other between two calls.
Burst == 48
RECURSIVE RubyRun(_, _), MachineRun(_, _)
RubyRun(runs, n) ==
  IF n = 0 \/ \A r \in runs : R!Stopped(r) THEN runs
  ELSE RubyRun({IF R!Stopped(r) THEN r ELSE R!Step(r, ast) : r \in runs}, n - 1)
MachineRun(runs, n) ==
  IF n = 0 \/ \A m \in runs : M!Stopped(m) THEN runs
  ELSE MachineRun({IF M!Stopped(m) THEN m ELSE M!Step(m) : m \in runs}, n - 1)

RubyStep ==
  /\ Running /\ ~R!Stopped(ruby)
  /\ ruby' \in RubyRun({ruby}, Burst)
  /\ UNCHANGED <<dialect, ast, fuel, cg, machine>>

MachineStep ==
  /\ Running /\ R!Stopped(ruby) /\ ~M!Stopped(machine)
  /\ machine' \in MachineRun({machine}, Burst)
  /\ UNCHANGED <<dialect, ast, fuel, cg, ruby>>

\* Both have made the same call, of node Called (0 for a method called by its own
\* name), and it returns, raises, or runs its block.
Called == machine.event[2][2]

SameCall == Running /\ machine.event # <<>> /\ ruby.event = machine.event

Returned(v) ==
  /\ machine' = M!Answer(machine, v)
  /\ ruby' = R!Answer(ruby, v)

Raised(e) ==
  /\ machine' = M!AnswerRaise(machine, e)
  /\ ruby' = R!AnswerRaise(ruby, e)

\* The methods pattern matching takes a value apart with answer with what they are
\* for: arrays of at most MaxItems items.
MaxItems == 3
Arrays(n) == {<<"ary", [i \in 1 .. len |-> <<"obj", -i>>]>> : len \in n}
Replies ==
  LET name == machine.event[2][1]
      args == machine.event[4]
  IN  CASE name = "respond_to?"  -> {<<"true">>, <<"false">>}
        [] name = "deconstruct"  -> Arrays(0 .. MaxItems) \cup {<<"nil">>}
        [] name = "__pat_values" -> Arrays({Len(args[1][2])}) \cup {<<"false">>}
        [] name = "def"          -> {<<"sym", machine.event[2]>>}
        [] OTHER -> {}

\* How a block, a lambda or a method with these parameters may be invoked: with up to
\* one argument too many and two for a rest; a method and a lambda with as many as
\* they take.  Blocks get their arguments one by one or in an array.
ArgumentLists(least, most) == {[i \in 1 .. n |-> <<"obj", -i>>] : n \in least .. most}
KeywordsFor(shape) ==
  LET names(roles) == {ParamName(shape, i) : i \in {i \in DOMAIN shape : shape[i] \in roles}}
      given == {names({"keyword"}) \cup d : d \in SUBSET names({"default"})}
      more  == Has(shape, KwRests) \/ Forwards(shape)
      pairs(set) == SetToSeq({<<<<"sym", <<<<name>>>>>>, <<"item">>>> : name \in set})
  IN  {pairs(set) : set \in given \cup (IF more THEN {set \cup {"more"} : set \in given} ELSE {})}
Invocations(n) ==
  LET shape  == n.shape
      strict == n.kind # "BlockLit"
      least  == Count(shape, Requireds) + Count(shape, Posts)
      most   == least + Count(shape, {"opt"})
                  + CASE Has(shape, Rests) \/ Forwards(shape) -> 2 [] strict -> 0 [] OTHER -> 1
      lists  == IF strict THEN ArgumentLists(least, most)
                ELSE ArgumentLists(0, most) \cup {<<R!Array(list)>> : list \in ArgumentLists(0, most)}
      block  == IF Has(shape, {"no block"}) THEN <<"nil">> ELSE <<"given">>
  IN  CASE n.kind \notin {"BlockLit", "Lambda", "Def"} -> {[args |-> <<<<"item">>>>, kw |-> <<>>, block |-> <<"nil">>]}
        [] n.name \in {"none", "it", "numbered"} ->
             {[args |-> list, kw |-> <<>>, block |-> block] :
                list \in IF n.kind = "Lambda"
                         THEN ArgumentLists(1, 1) ELSE ArgumentLists(0, 3) \cup {<<R!Array(list)>> : list \in ArgumentLists(1, 2)}}
        [] OTHER -> {[args |-> list, kw |-> kw, block |-> block] :
                       list \in lists, kw \in KeywordsFor(shape)}

Answer ==
  /\ SameCall
  /\ \/ \E v \in Replies : Returned(v)
     \/ Replies = {} /\ "object" \in Answers /\ Returned(<<"obj", Called>>)
     \/ Replies = {} /\ "nil" \in Answers /\ Returned(<<"nil">>)
     \/ "error" \in Answers /\ machine.event[2][1] # "lambda" /\ Raised(<<"exc", 2, Called>>)
     \/ "own" \in Answers /\ Raised(<<"exc", 4, Called>>)
  /\ UNCHANGED <<dialect, ast, fuel, cg>>

Yield ==
  /\ SameCall /\ machine.event[1] \in {"iterate", "yielded"} /\ "yield" \in Answers
  /\ \E invoked \in Invocations(ast[R!Frame(ruby)[2]]) :
       /\ machine' = M!AnswerYield(machine, invoked)
       /\ ruby' = R!AnswerYield(ruby, ast, invoked)
  /\ UNCHANGED <<dialect, ast, fuel, cg>>

Next == Compiling \/ Boot \/ RubyStep \/ MachineStep \/ Answer \/ Yield

Spec == InitAll /\ [][Next]_vars
FairSpec == Spec /\ WF_vars(MachineStep)

--------------------------------------------------------------------------------
(* Properties.                                                                  *)

\* The bytecode makes the calls of the program, in its order, with its operands
\* and with its $! in each, has by then written the variables the program has
\* written, and ends as the program does: what every handler of handlers.rs is
\* for, with the peephole of codegen.rs between it and the code.
Agree ==
  Running /\ M!Stopped(machine) /\ R!Stopped(ruby) =>
    /\ machine.event = ruby.event
    /\ machine.outcome = ruby.outcome
    /\ machine.store = ruby.store
    /\ machine.frames[1].regs[1] = ruby.scopes[1].vars["x"]

\* Every node leaves on the register stack its value when that is wanted, and
\* nothing else (the `val` of every handler of handlers.rs, codegen.rs push_n and
\* pop_n).
StackBalanced ==
  cg.todo # <<>> /\ Head(cg.todo)[1] = "done" => Scp(cg).sp = Head(cg.todo)[2]

\* No node takes the registers of the locals for its own: sp never falls below
\* nlocals (codegen.rs nlocals "registers below `sp` reserved at entry"; every
\* push_n and pop_n of handlers.rs).
LocalsReserved ==
  \A i \in DOMAIN cg.scopes : cg.scopes[i].nlocals <= cg.scopes[i].sp

\* A program the parser accepts is never refused: no pop goes below the stack
\* and every break, next, redo and retry finds its loop, every name its scope
\* (codegen.rs pop_n; handlers.rs jump_target, gen_retry, search_upvar).
NoRefusal == ~cg.error

\* A finished irep and those in it; those of the program.
RECURSIVE Family(_)
Family(irep) == <<irep>> \o FlattenSeq([n \in DOMAIN irep.reps |-> Family(irep.reps[n])])
Ireps == FlattenSeq([n \in DOMAIN cg.root |-> Family(cg.root[n])])
EveryIrep(Holds(_)) ==
  Compiled /\ Booting =>
    LET all == Ireps IN \A n \in DOMAIN all : Holds(all[n])

\* The highest register an instruction names; a call with a count of arguments names
\* its receiver, these and the slot of a block.
CallWidth(c) == (IF c % 16 = 15 THEN 1 ELSE c % 16)
                  + (IF c \div 16 = 15 THEN 1 ELSE 2 * (c \div 16))
HighReg(i) ==
  CASE i.op \in M!Sends             -> i.a + CallWidth(i.c) + 1
    [] i.op = "SUPER"               -> i.a + CallWidth(i.b) + 1
    [] i.op = "BLKCALL"             -> i.a + i.b + 1
    [] i.op = "SETIDX"              -> i.a + 2
    [] i.op \in {"ARRAY", "HASH"}   -> i.a + i.b * (IF i.op = "HASH" THEN 2 ELSE 1) - 1
    [] i.op = "ARRAY2"              -> i.b + i.c - 1
    [] i.op = "ARYPUSH"             -> i.a + i.b
    [] i.op = "HASHADD"             -> i.a + 2 * i.b
    [] i.op = "APOST"               -> i.a + i.c
    [] i.op \in {"ADD", "SUB", "MUL", "LT", "EQ", "GE", "GETIDX", "ADDI", "SUBI", "ARYCAT", "HASHCAT",
                 "STRCAT", "RANGE_INC", "RANGE_EXC", "SETMCNST", "ARGARY", "DEF", "CLASS"} -> i.a + 1
    [] i.op \in {"ADDILV", "SUBILV"} -> i.b + 1
    [] i.op \in {"MOVE", "RESCUE", "AREF", "GETIDX0"} -> IF i.a > i.b THEN i.a ELSE i.b
    [] i.op = "ENTER"               ->
         M!Bits(i.a, 18, 5) + M!Bits(i.a, 13, 5) + M!Bits(i.a, 12, 1) + M!Bits(i.a, 7, 5) + 1
    [] i.op \in {"ALIAS", "UNDEF"}   -> 0
    [] OTHER                        -> i.a

\* Every register an instruction touches is one of the nregs the irep asks the
\* machine for (irep.rs nregs "Number of register variables", codegen.rs push_n).
RegistersInFrame ==
  EveryIrep(LAMBDA i : \A n \in DOMAIN i.code : HighReg(i.code[n]) < i.nregs)

\* No jump of a finished irep is still a link of a chain, or leaves its code
\* (codegen.rs dispatch_linked, loop_pop: every pending break is landed).
JumpsLand ==
  EveryIrep(LAMBDA i : \A n \in DOMAIN i.code :
    i.code[n].op \in JumpOps => i.code[n].b \in 0 .. Len(i.code) - 1)

\* The machine takes the last handler of the table that covers an instruction:
\* of two handlers the later is the inner one, or they cover nothing in common,
\* none covers the code it starts, and no reserved entry is left unset
\* (codegen.rs catch_handler_new, catch_handler_set).
HandlersNest ==
  EveryIrep(LAMBDA i : \A h \in DOMAIN i.catches :
    LET c == i.catches[h] IN
      /\ c.kind # "None"
      /\ c.begin <= c.end /\ c.end <= c.target /\ c.target < Len(i.code)
      /\ \A g \in 1 .. h - 1 :
           \/ i.catches[g].begin <= c.begin /\ c.end <= i.catches[g].end
           \/ i.catches[g].end <= c.begin
           \/ c.end <= i.catches[g].begin)

\* `redo` in a loop goes to the NOP behind the condition, which no peephole may have
\* taken away (handlers.rs gen_while, gen_redo).
RedoLands ==
  Coding /\ ast'[Head(cg.todo)[2]].kind = "Redo" /\ InnerLoop(Scp(cg)).kind = "Normal" =>
    LET code == Scp(cg').code
        jump == code[Len(code)]
    IN  /\ jump.op = "JMPUW" /\ jump.b < Len(code)
        /\ code[jump.b + 1].op = "NOP"
RedoLandsOnNop == [][RedoLands]_vars

\* When the program goes on, so does the bytecode: it never spins where the
\* program makes its next call or ends (handlers.rs gen_while, gen_next,
\* gen_retry: where their backward jumps lead).
MachineKeepsUp == Running /\ R!Stopped(ruby) ~> M!Stopped(machine)
================================================================================
