------------------------------- MODULE EmitterMC -------------------------------
(* A small instance of Emitter: one local (register 1), one temporary.          *)
EXTENDS Emitter

Few == {1, 2}
Zero == {0}
FewOps == {"LOADNIL", "JMP", "JMPNOT", "RETURN", "ADD", "SETIV"}
================================================================================
