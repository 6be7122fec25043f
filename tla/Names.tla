---------------------------------- MODULE Names --------------------------------
(* Which variable a name means: the pass over a lowered tree that gives every   *)
(* scope its locals and every use the depth of the scope it refers to           *)
(* (front-mri/src/scope.rs).                                                    *)
(*                                                                              *)
(* A tree is a sequence of nodes; the first is the program.  A node has a kind, *)
(* a name or None, its fields (each a list of nodes) and what the pass fills    *)
(* in.  A call stands for a bare one, without receiver, arguments or block; a   *)
(* block for a call with that block; a class for a class, a module or a         *)
(* singleton class.  Nodes whose walk only goes on to their fields are those of *)
(* Passed.                                                                      *)
EXTENDS Integers, Sequences
LOCAL INSTANCE SequencesExt
LOCAL INSTANCE FiniteSetsExt

CONSTANT None \* no name

VARIABLES
  tree,     \* the nodes
  scopes,   \* open frames, the innermost last
  todo      \* what the walk has still to do: tasks, each with its node

walk == <<tree, scopes, todo>>

NumberOf(name) == CASE name = "_1" -> 1 [] name = "_2" -> 2 [] OTHER -> 0
Numbered == <<"_1", "_2">>

Frame(barrier, isBlock) ==
  [names |-> <<>>, barrier |-> barrier, isBlock |-> isBlock, numberedMax |-> 0]

--------------------------------------------------------------------------------
(* Frames.                                                                      *)

\* The frame at a depth, and the depths a name can be seen from: up to a barrier.
At(frames, depth) == frames[Len(frames) - depth]
Reach(frames) ==
  {d \in 0 .. Len(frames) - 1 : \A e \in 0 .. d - 1 : ~At(frames, e).barrier}

Nearest(depths) == IF depths = {} THEN -1 ELSE Min(depths)

\* Faulty variant: a method sees the locals around it.
LookupPastBarrier(frames, name) ==
  Nearest({d \in 0 .. Len(frames) - 1 : Contains(At(frames, d).names, name)})

\* lookup: -1 when no frame in reach has the name.
Lookup(frames, name) == Nearest({d \in Reach(frames) : Contains(At(frames, d).names, name)})

\* declare: a name keeps its first position.
Declare(frames, name) ==
  IF Contains(At(frames, 0).names, name) THEN frames
  ELSE [frames EXCEPT ![Len(frames)].names = Append(@, name)]

\* note_numbered: the nearest block around, when no barrier is nearer.
NoteNumbered(frames, name) ==
  LET d == Nearest({e \in 0 .. Len(frames) - 1 : At(frames, e).isBlock})
      i == Len(frames) - d
  IN  IF NumberOf(name) = 0 \/ d \notin Reach(frames) THEN frames
      ELSE [frames EXCEPT
              ![i].numberedMax = IF NumberOf(name) > @ THEN NumberOf(name) ELSE @,
              ![i].names = IF Contains(@, name) THEN @ ELSE Append(@, name)]

\* resolve_read: the frames after it, and the depth; 0 when the name is not bound.
NotedRead(frames, name) == IF Lookup(frames, name) >= 0 THEN frames ELSE NoteNumbered(frames, name)
DepthIn(frames, name) == IF Lookup(frames, name) >= 0 THEN Lookup(frames, name) ELSE 0

\* bind_write: a name that is not bound is declared here.
Bound(frames, name) == IF Lookup(frames, name) >= 0 THEN frames ELSE Declare(frames, name)

\* numbered_locals: _1 .. _N, then the others.
NumberedLocals(frame) ==
  SubSeq(Numbered, 1, frame.numberedMax)
    \o SelectSeq(frame.names, LAMBDA name : NumberOf(name) = 0)

--------------------------------------------------------------------------------
(* Nodes.                                                                       *)

Field(n, field) == IF field \in DOMAIN tree[n].fields THEN tree[n].fields[field] ELSE <<>>

Tasks(task, nodes) == [i \in DOMAIN nodes |-> <<task, nodes[i]>>]
Walks(n, field) == Tasks("walk", Field(n, field))

\* The fields of a node that only has its fields walked, in the order of the walk.
Passed ==
  [If         |-> <<"predicate", "statements">>,
   For        |-> <<"index", "collection", "statements">>,
   Begin      |-> <<"statements", "reference", "handler">>,
   CaseMatch  |-> <<"predicate", "pattern", "statements">>,
   MultiWrite |-> <<"lefts", "value">>,
   MatchWrite |-> <<"call", "targets">>]

\* declare_method_params: the registers of the parameters; those that are taken
\* apart come last, with the names of their parts.
ParamFields == <<"requireds", "optionals", "rest", "posts", "keyword_rest", "block", "keywords">>
Named(nodes) ==
  LET named == SelectSeq(nodes, LAMBDA p : tree[p].name # None) IN
    [i \in DOMAIN named |-> tree[named[i]].name]
Destructured(nodes) == FlattenSeq([i \in DOMAIN nodes |-> Named(Field(nodes[i], "lefts"))])

\* Faulty variant: keywords come where they are written.
ParamNamesAsWritten(n) ==
  LET fields == <<"requireds", "optionals", "rest", "posts", "keywords", "keyword_rest", "block">> IN
    FlattenSeq([i \in DOMAIN fields |-> Named(Field(n, fields[i]))])
      \o Destructured(Field(n, "requireds") \o Field(n, "posts"))

ParamNames(n) ==
  FlattenSeq([i \in DOMAIN ParamFields |-> Named(Field(n, ParamFields[i]))])
    \o Destructured(Field(n, "requireds") \o Field(n, "posts"))

DeclareAll(frames, names) == FoldLeft(Declare, frames, names)

\* walk_param_defaults: those of the optional parameters, then those of the keywords.
ParamDefaults(n) ==
  LET params == Field(n, "optionals") \o Field(n, "keywords") IN
    FlattenSeq([i \in DOMAIN params |-> Walks(params[i], "value")])

--------------------------------------------------------------------------------
(* The walk.  Each action does the task that is next.                           *)

Here == Head(todo)[2]
Task(task)     == todo # <<>> /\ Head(todo)[1] = task
Walking(kinds) == Task("walk") /\ tree[Here].kind \in kinds
Then(tasks)    == todo' = tasks \o Tail(todo)

Name == tree[Here].name

\* A bare call that names a variable in reach is a read of it.
WalkCall ==
  /\ Walking({"Call"})
  /\ LET depth == Lookup(scopes, Name) IN
       tree' = IF depth < 0 THEN tree
               ELSE [tree EXCEPT ![Here].kind = "LocalVariableRead", ![Here].depth = depth]
  /\ Then(<<>>) /\ UNCHANGED scopes

WalkRead ==
  /\ Walking({"LocalVariableRead"})
  /\ scopes' = NotedRead(scopes, Name)
  /\ tree' = [tree EXCEPT ![Here].depth = DepthIn(NotedRead(scopes, Name), Name)]
  /\ Then(<<>>)

Bind ==
  /\ scopes' = Bound(scopes, Name)
  /\ tree' = [tree EXCEPT ![Here].depth = DepthIn(Bound(scopes, Name), Name)]

WalkTarget == Walking({"Target"}) /\ Bind /\ Then(<<>>)
WalkWrite  == Walking({"Write"}) /\ Bind /\ Then(Walks(Here, "value"))

\* `x += v`, `x ||= v`, `x &&= v`: the value comes first.
WalkOpWrite ==
  /\ Walking({"OpWrite"})
  /\ Then(Walks(Here, "value") \o <<<<"bind", Here>>>>)
  /\ UNCHANGED <<tree, scopes>>
BindOpWrite == Task("bind") /\ Bind /\ Then(<<>>)

WalkFields ==
  /\ Walking(DOMAIN Passed)
  /\ Then(FlattenSeq([i \in DOMAIN Passed[tree[Here].kind] |-> Walks(Here, Passed[tree[Here].kind][i])]))
  /\ UNCHANGED <<tree, scopes>>

\* Programs, blocks and lambdas, methods and classes open a frame; what is around the
\* body of a class is walked outside.
WalkProgram ==
  /\ Walking({"Program"})
  /\ scopes' = Append(scopes, Frame(TRUE, FALSE))
  /\ Then(Walks(Here, "statements") \o <<<<"leave", Here>>>>) /\ UNCHANGED tree

WalkBlock ==
  /\ Walking({"Block", "NumberedBlock"})
  /\ scopes' = DeclareAll(Append(scopes, Frame(FALSE, TRUE)), ParamNames(Here))
  /\ Then(ParamDefaults(Here) \o Tasks("declare", Field(Here, "locals"))
            \o Walks(Here, "body") \o <<<<"leave", Here>>>>)
  /\ UNCHANGED tree

DeclareLocal ==
  /\ Task("declare")
  /\ scopes' = Declare(scopes, Name)
  /\ Then(<<>>) /\ UNCHANGED tree

WalkDef ==
  /\ Walking({"Def"})
  /\ scopes' = DeclareAll(Append(scopes, Frame(TRUE, FALSE)), ParamNames(Here))
  /\ Then(ParamDefaults(Here) \o Walks(Here, "body") \o <<<<"leave", Here>>>>)
  /\ UNCHANGED tree

WalkClass ==
  /\ Walking({"Class"})
  /\ Then(Walks(Here, "expression")
            \o <<<<"enter", Here>>>> \o Walks(Here, "body") \o <<<<"leave", Here>>>>)
  /\ UNCHANGED <<tree, scopes>>
EnterClass ==
  /\ Task("enter")
  /\ scopes' = Append(scopes, Frame(TRUE, FALSE))
  /\ Then(<<>>) /\ UNCHANGED tree

\* The frame becomes the locals of its node.
Leave ==
  /\ Task("leave")
  /\ LET frame == At(scopes, 0) IN
       tree' = IF tree[Here].kind # "NumberedBlock"
               THEN [tree EXCEPT ![Here].locals = frame.names]
               ELSE [tree EXCEPT ![Here].locals = NumberedLocals(frame),
                                 ![Here].maximum = frame.numberedMax]
  /\ scopes' = SubSeq(scopes, 1, Len(scopes) - 1)
  /\ Then(<<>>)

Resolve ==
  \/ WalkCall \/ WalkRead \/ WalkTarget \/ WalkWrite \/ WalkOpWrite \/ BindOpWrite
  \/ WalkFields \/ WalkProgram \/ WalkBlock \/ DeclareLocal \/ WalkDef \/ WalkClass
  \/ EnterClass \/ Leave
================================================================================
