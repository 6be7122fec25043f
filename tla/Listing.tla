-------------------------------- MODULE Listing --------------------------------
(* What the code buffer of a scope promises to the node handlers (codegen.rs):  *)
(* a list of instructions that grows at its end.  An emitter may take back the  *)
(* last instructions, but neither a jump nor anything before the last label;    *)
(* and a pending jump may be told its target, which is the end of the list and  *)
(* becomes a label.  Emitter, which chooses what to take back, and Image, which *)
(* keeps bytes, both implement it.                                              *)
(*                                                                              *)
(* A jump holds in b its target, a count of instructions; a pending jump holds  *)
(* 0, or the negative number of the jump that is to go to the same place.       *)
EXTENDS Integers, Sequences

CONSTANT JumpOps    \* operations that jump

VARIABLES code, lastlabel

list == <<code, lastlabel>>

Init == code = <<>> /\ lastlabel = 0

IsJump(i) == code[i].op \in JumpOps

Without(n) == SubSeq(code, 1, Len(code) - n)

\* The last n instructions may be taken back.
Free(n) ==
  /\ n <= Len(code)
  /\ n > 0 => lastlabel <= Len(code) - n
  /\ \A i \in Len(code) - n + 1 .. Len(code) : ~IsJump(i)

\* An instruction is emitted, in place of the last n.
Write(n, insn) ==
  /\ Free(n)
  /\ code' = Append(Without(n), insn)
  /\ UNCHANGED lastlabel

Drop ==
  /\ Free(1)
  /\ code' = Without(1)
  /\ UNCHANGED lastlabel

Label == lastlabel' = Len(code) /\ UNCHANGED code

Pending(i) == IsJump(i) /\ code[i].b <= 0

\* A pending jump is told that its target is here.
Land(i) ==
  /\ Pending(i)
  /\ code' = [code EXCEPT ![i].b = Len(code)]
  /\ lastlabel' = Len(code)

Next ==
  \/ \E n \in 0 .. Len(code) : code' # <<>> /\ Write(n, code'[Len(code')])
  \/ Drop
  \/ Label
  \/ \E i \in DOMAIN code : Land(i)

Spec == Init /\ [][Next]_list
================================================================================
