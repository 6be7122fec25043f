---------------------------------- MODULE Lines --------------------------------
(* The line table of a scope: how debug.rs packs the lines of its bytes into    *)
(* differences, and how the virtual machine finds the line of a position in     *)
(* them.                                                                        *)
EXTENDS Integers, Sequences

CONSTANT Base   \* values of a byte (256); a packed number has half of them per byte

ASSUME LinesAssumption == Base \in Nat \ (0 .. 7) /\ Base % 2 = 0

Half     == Base \div 2
Halfword == Base * Base      \* values of a u16

--------------------------------------------------------------------------------
(* Packing.                                                                     *)

PackedInt[n \in Nat] ==
  IF n < Half THEN <<n>> ELSE <<Half + (n % Half)>> \o PackedInt[n \div Half]
PackedIntLen[n \in Nat] == IF n < Half THEN 1 ELSE 1 + PackedIntLen[n \div Half]

\* The line before the i-th, and how far the i-th is from it.
Before(lines, i) == IF i = 1 THEN 0 ELSE lines[i - 1]
\* Faulty variant: the line deltas do not wrap, they are distances.
LineDistance(lines, i) ==
  IF lines[i] > Before(lines, i) THEN lines[i] - Before(lines, i) ELSE Before(lines, i) - lines[i]
LineDelta(lines, i) == (lines[i] - Before(lines, i)) % Halfword

\* The passes: what each has after some of the lines, and the pc of the last change.
PackStep(start, lines, i, so) ==
  LET pc == start + i - 1 IN
    IF lines[i] = Before(lines, i) THEN so
    ELSE [out |-> so.out \o PackedInt[pc - so.pc] \o PackedInt[LineDelta(lines, i)], pc |-> pc]
CountStep(start, lines, i, so) ==
  LET pc == start + i - 1 IN
    IF lines[i] = Before(lines, i) THEN so
    ELSE [size |-> so.size + PackedIntLen[pc - so.pc] + PackedIntLen[LineDelta(lines, i)],
          pc   |-> pc]

Packed(start, lines) ==
  LET pass[i \in 0 .. Len(lines)] ==
        IF i = 0 THEN [out |-> <<>>, pc |-> 0] ELSE PackStep(start, lines, i, pass[i - 1])
  IN  pass
Counted(start, lines) ==
  LET pass[i \in 0 .. Len(lines)] ==
        IF i = 0 THEN [size |-> 0, pc |-> 0] ELSE CountStep(start, lines, i, pass[i - 1])
  IN  pass

PackLineMap(start, lines) == Packed(start, lines)[Len(lines)].out
PackedSize(start, lines)  == Counted(start, lines)[Len(lines)].size

--------------------------------------------------------------------------------
(* Reading, as the virtual machine does.                                        *)

\* After some of the bytes: the pc and the line so far, the number that is being read,
\* what the next digit of it counts, and which of the two it is a difference of.
ScanState(pc, line, of) == [pc |-> pc, line |-> line, n |-> 0, place |-> 1, of |-> of]

\* A whole number has been read.
Advance(so, n, pos) ==
  CASE so.of = "pc"   -> ScanState(so.pc + n, so.line, "line")
    [] so.of = "line" ->
         ScanState(so.pc, IF pos < so.pc THEN so.line ELSE (so.line + n) % Halfword, "pc")
ScanStep(packed, pos, i, so) ==
  LET n == so.n + (packed[i] % Half) * so.place IN
    IF packed[i] < Half THEN Advance(so, n, pos)
    ELSE [so EXCEPT !.n = n, !.place = @ * Half]

Scanned(packed, pos) ==
  LET scan[i \in 0 .. Len(packed)] ==
        IF i = 0 THEN ScanState(0, 0, "pc") ELSE ScanStep(packed, pos, i, scan[i - 1])
  IN  scan

\* The line of a position.
LineAt(packed, pos) == Scanned(packed, pos)[Len(packed)].line
================================================================================
