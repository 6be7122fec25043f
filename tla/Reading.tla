---------------------------------- MODULE Reading ------------------------------
(* The MRI front end from the text to the resolved tree.  A program is read     *)
(* from left to right, one construct after the other, as the parser             *)
(* (lib-ruby-parser) reads it: what a name means is settled when it is read,    *)
(* by the names declared in the text before it.  The parser answers a tree in   *)
(* which a name it knows is a variable and any other a call; it does not know   *)
(* the captures of a regular expression.  The tree is lowered (lower.rs), and   *)
(* Names resolves it.                                                           *)
(*                                                                              *)
(* A field that is left out stands for an expression without names.             *)
EXTENDS Names
LOCAL INSTANCE SequencesExt
LOCAL INSTANCE FiniteSetsExt

CONSTANTS
  Locals,   \* names of variables
  Clients   \* what is written: kinds of constructs and how many

ASSUME ReadingAssumption ==
  \A c \in Clients : c.nodes \in Nat \ {0} /\ c.oddities \in BOOLEAN

VARIABLES
  client,   \* what is written
  open,     \* constructs being read, the innermost last, and the field they are at
  text      \* scopes of the text being read, the innermost last

vars == <<tree, scopes, todo, client, open, text>>

--------------------------------------------------------------------------------
(* The grammar: the fields of a construct in the order of the text.             *)

Form ==
  [Program    |-> <<"statements">>,
   Write      |-> <<"value">>,
   OpWrite    |-> <<"value">>,
   MultiWrite |-> <<"lefts", "value">>,
   If         |-> <<"predicate", "statements">>,
   IfMod      |-> <<"statements", "predicate">>,
   For        |-> <<"index", "collection", "statements">>,
   Begin      |-> <<"statements", "reference", "handler">>,
   CaseMatch  |-> <<"predicate", "pattern", "statements">>,
   Guard      |-> <<"target", "predicate">>,
   MatchWrite |-> <<"call", "targets">>,
   Block      |-> <<"parameters", "locals", "body">>,
   NumberedBlock |-> <<"body">>,
   Def        |-> <<"parameters", "body">>,
   Class      |-> <<"expression", "body">>,
   Mlhs       |-> <<"parts">>,
   Optarg     |-> <<"value">>,
   Kwoptarg   |-> <<"value">>]

Repeated  == {"statements", "body", "parameters", "locals", "lefts", "parts"}
Mandatory == {"lefts", "index", "pattern", "targets", "target", "parts"}

Parameters == {"Arg", "Mlhs", "Optarg", "Restarg", "Kwarg", "Kwoptarg", "Kwrestarg", "Blockarg"}
Opening    == {"Block", "NumberedBlock", "Def"}
Barriers   == {"Program", "Def", "Class"}
Naming     == {"Write", "OpWrite", "Target"}
Nameless   == {"Restarg", "Kwrestarg", "Blockarg"}
Statements == {"Name", "Write", "OpWrite", "MultiWrite", "If", "IfMod", "For", "Begin",
               "CaseMatch", "MatchWrite", "Block", "NumberedBlock", "Def", "Class"}

KindsFor(field) ==
  CASE field \in {"lefts", "index", "targets", "reference", "target"} -> {"Target"}
    [] field = "pattern"    -> {"Target"} \cup ({"Guard"} \cap client.kinds)
    [] field = "parts"      -> {"Arg"}
    [] field = "parameters" -> Parameters \cap client.kinds
    [] field = "locals"     -> {"BlockLocal"} \cap client.kinds
    [] OTHER                -> Statements \cap client.kinds

--------------------------------------------------------------------------------
(* The names declared in the text so far.  A scope has the names a reader of    *)
(* Ruby sees, in the order they appear in, and those of them the parser knows.  *)

TextScope(n, kind) ==
  [node |-> n, barrier |-> kind \in Barriers, numbered |-> kind = "NumberedBlock",
   names |-> <<>>, known |-> {}, maximum |-> 0]

Innermost == Len(text)
Seen(scope) == {i \in 1 .. scope : \A j \in i + 1 .. scope : ~text[j].barrier}

\* The scope that declares a name, 0 when there is none, and whether the parser knows it.
OwnerOf(name) == Max({0} \cup {i \in Seen(Innermost) : Contains(text[i].names, name)})
Known(name)   == \E i \in Seen(Innermost) : name \in text[i].known

\* Parameters and block locals are of their own scope, whatever is around it.
DeclareParameter(name) ==
  IF name = None THEN text
  ELSE [text EXCEPT ![Innermost].names = Append(@, name), ![Innermost].known = @ \cup {name}]

\* A target refers to the variable there is, or declares one; a capture does so behind
\* the back of the parser.
DeclareTarget(name, capture) ==
  [text EXCEPT ![Innermost].names = IF OwnerOf(name) = 0 THEN Append(@, name) ELSE @,
               ![Innermost].known = IF capture \/ Known(name) THEN @ ELSE @ \cup {name}]

--------------------------------------------------------------------------------
(* Reading.                                                                     *)

Construct(kind, name) ==
  [kind |-> kind, name |-> name, depth |-> 0, locals |-> <<>>, maximum |-> 0,
   fields  |-> [f \in (IF kind \in DOMAIN Form THEN Range(Form[kind]) ELSE {}) |-> <<>>],
   within  |-> text[Innermost].node, \* its scope
   means   |-> 0,      \* the scope its name is a variable of
   written |-> <<>>]   \* the variables it declares, as a scope

Top     == open[Len(open)]
TopKind == tree[Top.node].kind
Below   == SubSeq(open, 1, Len(open) - 1)

\* The j-th field can be read next.
Comes(j) ==
  LET form == Form[TopKind] IN
    /\ j > Top.at \/ (j = Top.at /\ form[j] \in Repeated)
    /\ \A k \in Top.at + 1 .. j - 1 : form[k] \notin Mandatory
    /\ TopKind = "Class" /\ form[j] = "body" => Top.at = j

Taken(j, node) ==
  /\ tree' = Append([tree EXCEPT ![Top.node].fields[Form[TopKind][j]] = Append(@, Len(tree) + 1)],
                    node)
  /\ open' = Below \o <<[Top EXCEPT !.at = j]>>
               \o (IF node.kind \in DOMAIN Form THEN <<[node |-> Len(tree) + 1, at |-> 0]>> ELSE <<>>)
  /\ UNCHANGED <<client, scopes, todo>>

\* What the lowering walks before the text that precedes it: without oddities, a name.
Late == {<<"OpWrite", "value">>, <<"IfMod", "predicate">>, <<"Guard", "predicate">>}

CanTake(j, kind) ==
  /\ Comes(j) /\ Len(tree) < client.nodes
  /\ kind \in KindsFor(Form[TopKind][j])
  /\ ~client.oddities /\ <<TopKind, Form[TopKind][j]>> \in Late => kind = "Name"

\* A name on its own: a variable the parser knows, or a call.
ReadName ==
  \E j \in DOMAIN Form[TopKind], name \in Locals :
    /\ CanTake(j, "Name")
    /\ Taken(j, [Construct(IF Known(name) THEN "LocalVariableRead" ELSE "Call", name)
                   EXCEPT !.means = IF OwnerOf(name) = 0 THEN 0 ELSE text[OwnerOf(name)].node])
    /\ UNCHANGED text

\* _1 and _2, in the block they are parameters of.
ReadNumber ==
  \E j \in DOMAIN Form[TopKind], i \in DOMAIN Numbered :
    /\ CanTake(j, "Name") /\ text[Innermost].numbered
    /\ Taken(j, [Construct("LocalVariableRead", Numbered[i]) EXCEPT !.means = text[Innermost].node])
    /\ text' = [text EXCEPT ![Innermost].maximum = IF i > @ THEN i ELSE @]

ReadTarget ==
  \E j \in DOMAIN Form[TopKind], kind \in {"Target", "Write", "OpWrite"}, name \in Locals :
    /\ CanTake(j, kind)
    /\ LET owner == IF OwnerOf(name) = 0 THEN Innermost ELSE OwnerOf(name) IN
         Taken(j, [Construct(kind, name) EXCEPT !.means = text[owner].node])
    /\ text' = DeclareTarget(name, Form[TopKind][j] = "targets")

\* Parameters come in an order.
Follows(before, kind) ==
  LET has(kinds) == \E k \in DOMAIN before : before[k] \in kinds IN
    CASE kind \in {"Arg", "Mlhs"} -> ~has({"Kwarg", "Kwoptarg", "Kwrestarg", "Blockarg"})
      [] kind \in {"Optarg", "Restarg"} ->
           /\ ~has(Parameters \ {"Arg", "Mlhs", "Optarg"})
           /\ has({"Optarg"}) => Last(before) = "Optarg"
      [] kind = "Blockarg" -> ~has({"Blockarg"})
      [] OTHER             -> ~has({"Kwrestarg", "Blockarg"})
KindsOf(nodes) == [i \in DOMAIN nodes |-> tree[nodes[i]].kind]

\* No name twice; without oddities, none that a default before it has called.
ReadParameter ==
  \E j \in DOMAIN Form[TopKind], kind \in Parameters \cup {"BlockLocal"},
     name \in Locals \cup {None} :
    /\ CanTake(j, kind)
    /\ kind = "Mlhs" => name = None
    /\ name = None => kind \in Nameless
    /\ Form[TopKind][j] = "parameters" => Follows(KindsOf(tree[Top.node].fields["parameters"]), kind)
    /\ ~Contains(text[Innermost].names, name)
    /\ ~client.oddities =>
         \A m \in text[Innermost].node .. Len(tree) : tree[m].kind = "Call" => tree[m].name # name
    /\ Taken(j, Construct(kind, name))
    /\ text' = DeclareParameter(name)

ReadConstruct ==
  \E j \in DOMAIN Form[TopKind], kind \in DOMAIN Form \ (Naming \cup Parameters \cup {"Program"}) :
    /\ CanTake(j, kind)
    /\ kind = "NumberedBlock" => \A i \in DOMAIN text : ~text[i].numbered
    /\ Taken(j, Construct(kind, None))
    /\ text' = IF kind \in Opening THEN Append(text, TextScope(Len(tree) + 1, kind)) ELSE text

ReadBody ==
  /\ TopKind = "Class" /\ Top.at < 2
  /\ open' = Below \o <<[Top EXCEPT !.at = 2]>>
  /\ text' = Append(text, TextScope(Top.node, "Class"))
  /\ UNCHANGED <<tree, scopes, todo, client>>

--------------------------------------------------------------------------------
(* The end of a construct.                                                      *)

Complete ==
  /\ \A k \in DOMAIN Form[TopKind] : Form[TopKind][k] \in Mandatory => k <= Top.at
  /\ TopKind = "NumberedBlock" => text[Innermost].maximum > 0
  /\ TopKind = "Class" => Top.at = 2

\* The tree with the names of a scope that ends.
Written ==
  IF TopKind \notin Opening \cup Barriers THEN tree
  ELSE [tree EXCEPT ![Top.node].written =
          SubSeq(Numbered, 1, text[Innermost].maximum) \o text[Innermost].names]

ReadEnd ==
  /\ Len(open) > 1 /\ Complete
  /\ tree' = Written /\ open' = Below
  /\ text' = IF TopKind \in Opening \cup Barriers THEN SubSeq(text, 1, Innermost - 1) ELSE text
  /\ UNCHANGED <<client, scopes, todo>>

\* build_params: the slots of the parameters.  A required one behind an optional one or
\* a rest is a post.
Slots(params) ==
  LET kind(i)  == tree[params[i]].kind
      late     == {i \in DOMAIN params : \E j \in 1 .. i - 1 : kind(j) \in {"Optarg", "Restarg"}}
      places(P(_)) == LET chosen == SelectSeq([i \in DOMAIN params |-> i], P) IN
                        [j \in DOMAIN chosen |-> params[chosen[j]]]
  IN  [requireds    |-> places(LAMBDA i : kind(i) \in {"Arg", "Mlhs"} /\ i \notin late),
       optionals    |-> places(LAMBDA i : kind(i) = "Optarg"),
       rest         |-> places(LAMBDA i : kind(i) = "Restarg"),
       posts        |-> places(LAMBDA i : kind(i) \in {"Arg", "Mlhs"} /\ i \in late),
       keywords     |-> places(LAMBDA i : kind(i) \in {"Kwarg", "Kwoptarg"}),
       keyword_rest |-> places(LAMBDA i : kind(i) = "Kwrestarg"),
       block        |-> places(LAMBDA i : kind(i) = "Blockarg")]

\* lower_if_mod and wrap_guard: the condition comes before what it decides.
Lowered(node) ==
  CASE node.kind = "IfMod" -> [node EXCEPT !.kind = "If"]
    [] node.kind = "Guard" ->
         [node EXCEPT !.kind = "If", !.fields = [predicate  |-> node.fields.predicate,
                                                 statements |-> node.fields.target]]
    [] node.kind = "Mlhs" -> [node EXCEPT !.fields = [lefts |-> node.fields.parts]]
    [] node.kind \in {"Block", "Def"} ->
         [node EXCEPT !.fields = Slots(node.fields.parameters) @@ node.fields]
    [] OTHER -> node

\* The whole program: lowered, it is handed to the walk.
Lower ==
  /\ Len(open) = 1 /\ Complete
  /\ tree' = [n \in DOMAIN tree |-> Lowered(Written[n])]
  /\ open' = <<>> /\ text' = <<>>
  /\ todo' = <<<<"walk", 1>>>>
  /\ UNCHANGED <<client, scopes>>

Reads == /\ open # <<>>
         /\ \/ ReadName \/ ReadNumber \/ ReadTarget \/ ReadParameter \/ ReadConstruct
            \/ ReadBody \/ ReadEnd \/ Lower
Resolves == Resolve /\ UNCHANGED <<client, open, text>>

Init ==
  /\ client \in Clients
  /\ text = <<TextScope(1, "Program")>> /\ open = <<[node |-> 1, at |-> 0]>>
  /\ tree = <<[Construct("Program", None) EXCEPT !.within = 0]>>
  /\ scopes = <<>> /\ todo = <<>>
Next == Reads \/ Resolves
Spec == Init /\ [][Next]_vars

--------------------------------------------------------------------------------
(* What the names were read as, and what the walk has made of them.             *)

Resolved == open = <<>> /\ todo = <<>>

\* The scope a number of scopes around another one, 0 outside the program.
Around(scope, depth) ==
  LET up[d \in 0 .. depth] ==
        IF d = 0 THEN scope ELSE IF up[d - 1] = 0 THEN 0 ELSE tree[up[d - 1]].within
  IN  up[depth]

\* A name that was a call when it was read stays a call, and one that was a variable is
\* a use of that variable: its depth leads to the scope that declares it, and the
\* locals of that scope have it, so that the handlers find its register.
UsesAsRead ==
  Resolved =>
    \A n \in DOMAIN tree :
      /\ tree[n].means = 0 => tree[n].kind # "LocalVariableRead"
      /\ tree[n].means # 0 =>
           /\ tree[n].kind \in Naming \cup {"LocalVariableRead"}
           /\ Around(tree[n].within, tree[n].depth) = tree[n].means
           /\ Contains(tree[tree[n].means].locals, tree[n].name)

\* param_layout (handlers.rs): the registers of the parameters that have a name.
Registers(n) ==
  LET of(field) == Named(Field(n, field)) IN
    of("requireds") \o of("optionals") \o of("rest") \o of("posts") \o of("keyword_rest")
      \o of("block") \o of("keywords")
      \o Destructured(Field(n, "requireds")) \o Destructured(Field(n, "posts"))

\* Every scope has the locals it was written with: its parameters in the order of
\* their registers, then the others in the order of the text.
LocalsAsWritten ==
  Resolved =>
    \A n \in DOMAIN tree :
      tree[n].locals = Registers(n) \o SelectSeq(tree[n].written,
                                         LAMBDA name : ~Contains(Registers(n), name))
================================================================================
