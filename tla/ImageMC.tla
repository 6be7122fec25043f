-------------------------------- MODULE ImageMC --------------------------------
(* Clients to check Image with.  Bytes have four values: operands from 4 need a *)
(* prefix, jumps reach from -8 to 7 bytes, and integers load inline from -1 to  *)
(* 1, in a byte up to 3, in a word from -8 to 7, in two from -128 to 127.       *)
EXTENDS Image

LeastInteger == -300

Narrow == 1
Wide   == 6

Client(insns, back, dsts, ints, jumps, conds, room) ==
  [insns |-> insns, back |-> back, dsts |-> dsts, ints |-> ints, jumps |-> jumps, conds |-> conds,
   vals |-> IF jumps = {} THEN {} ELSE BOOLEAN, nlocals |-> 0, room |-> room]

Registers == {Narrow, Wide}

\* One instruction of each shape, with every combination of widths.
Shaped ==
  Client({Instr("MOVE", x, y, 0) : x \in Registers, y \in Registers}
           \cup {Instr("SEND", x, y, 2) : x \in Registers, y \in Registers}
           \cup {Instr("LOADNIL", x, 0, 0) : x \in Registers}
           \cup {Instr("BLKPUSH", x, 9, 0) : x \in Registers}
           \cup {Instr("ENTER", 37, 0, 0), Instr("KEYEND", 0, 0, 0)},
         {0, 1, 2}, {}, {}, {}, {}, 9)
Counting ==
  Client({Instr("KEYEND", 0, 0, 0)}, {0}, Registers,
         {-300, -299, -129, -128, -127, -9, -8, -7, -4, -3, -2, -1, 0, 1, 2, 3, 4, 7, 8, 127, 128, 129, 299},
         {}, {}, 4)
Jumping ==
  Client({Instr("MOVE", Wide, Narrow, 0), Instr("LOADTRUE", Narrow, 0, 0),
          Instr("LOADNIL", Narrow, 0, 0)}, {0, 1}, {}, {},
         {"JMP", "JMPIF"}, Registers, 11)
ClientsMC == {Shaped, Counting, Jumping}
================================================================================
