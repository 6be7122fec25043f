--------------------------------- MODULE ReadingMC -----------------------------
(* Programs to check Reading with.                                              *)
EXTENDS Reading, TLC

Symmetric == Permutations(Locals)

Client(kinds, nodes) == [kinds |-> kinds, nodes |-> nodes, oddities |-> FALSE]

\* Assignments of every kind, in blocks and around them.
Assigning == Client({"Name", "Write", "OpWrite", "MultiWrite", "Block"}, 6)
Matching  == Client({"Name", "Write", "MatchWrite", "Block"}, 5)
Deciding  == Client({"Name", "Write", "If", "IfMod", "Begin", "For", "Block"}, 5)
Patterns  == Client({"Name", "Write", "CaseMatch", "Guard", "Block"}, 6)
Hiding    == Client({"Name", "Write", "Block", "Def", "Class"}, 5)
Counting  == Client({"Name", "Write", "NumberedBlock", "Block", "Def"}, 5)
Taking    == Client({"Name", "Write", "Block", "Def", "BlockLocal"} \cup Parameters, 5)

ClientsMC == {Assigning, Matching, Deciding, Patterns, Hiding, Counting, Taking}

Anywhere(c) == [c EXCEPT !.oddities = TRUE]
LateMC == {Anywhere(Client({"Name", "Write", "IfMod"}, 4))}
================================================================================
