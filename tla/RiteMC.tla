--------------------------------- MODULE RiteMC --------------------------------
(* Clients to check Rite with.  A byte has eight values: a u16 holds up to 63,  *)
(* a u32 up to 4095, and a packed number has a second byte from 4.              *)
EXTENDS Contents

NoLocals == <<>>
a == <<1>>
b == <<2, 3>>
c == <<3>>

Client(locals, scopes, depth, reps, insns) ==
  [locals |-> locals, scopes |-> scopes, depth |-> depth, reps |-> reps, insns |-> insns,
   lines |-> {}, plain |-> FALSE, literals |-> {}, symbols |-> {}, jumps |-> FALSE,
   peeps |-> FALSE, handlers |-> {}, temps |-> {0}]

\* Literals of every kind, at the boundaries of their sizes, and symbols, up to the
\* limits of both.
Zero    == <<0, 0, 0, 0, 0, 0, 0, 0>>
Literals ==
  {PoolValue("Int", <<v>>) : v \in {0, -1, 2047, 2048, -2048, -2049, -8388608, 8388607}}
    \cup {PoolValue("Str", bytes) : bytes \in {<<>>, <<0>>, <<0, 1>>}}
    \cup {PoolValue("Float", Zero), PoolValue("Float", [Zero EXCEPT ![8] = 4])}
    \cup {PoolValue("BigInt", <<1, 2, 0>>), PoolValue("BigInt", <<1, 6, 0>>)}
Constants ==
  [Client(NoLocals, {}, 1, 0, 3) EXCEPT !.literals = Literals]
Named ==
  [Client(<<a>>, {<<b>>}, 2, 1, 2)
     EXCEPT !.symbols = {<<>>, a, b}, !.plain = TRUE, !.temps = {0, 2},
            !.handlers = {[kind |-> 1, begin |-> 0, end |-> 70, target |-> 600]}]

\* Lines that go up and down, with jumps patched and instructions taken back; and those
\* of a nested scope, which starts out with the line of its parent.
Lined ==
  [Client(NoLocals, {}, 1, 0, 3)
     EXCEPT !.lines = {1, 5, 63}, !.plain = TRUE, !.jumps = TRUE, !.peeps = TRUE]
LinedBody ==
  [Client(NoLocals, {NoLocals}, 2, 1, 2) EXCEPT !.lines = {1, 63}, !.plain = TRUE]

\* Scopes with locals, some without a name, in a tree.
Nested == Client(<<a, b>>, {NoLocals, <<<<>>, b, a>>, <<c, c>>}, 3, 2, 1)

ClientsMC == {Constants, Named, Lined, LinedBody, Nested}
================================================================================
