------------------------------- MODULE CompileMC -------------------------------
(* Dialects to check Compile with: each leaves out what its programs do not     *)
(* need to show how the constructs it has go together.                          *)
EXTENDS Compile, SequencesExt

Dialect(kinds, nodes, answers) ==
  [kinds |-> kinds, nodes |-> nodes, answers |-> answers, oddities |-> {},
   forms |-> [k \in {} |-> {}]]
With(dial, oddity) == [dial EXCEPT !.oddities = {oddity}]

--------------------------------------------------------------------------------
(* Values and conditions.                                                       *)

Conditions ==
  Dialect({"Call", "Nil", "Int", "Lvar", "If", "Unless", "IfNil", "And", "Or",
           "Seq", "Assign", "Add", "Neg", "NilCheck"}, 2, {"object", "nil"})
Constants ==
  Dialect({"Call", "True", "Nil", "Int", "If", "Unless", "While", "Until", "And", "Or",
           "Paren"}, 2, {"object", "nil"})
Cases ==
  Dialect({"Call", "Lvar", "Case", "When", "Add", "Seq"}, 3, {"object", "nil"})

--------------------------------------------------------------------------------
(* Jumps.                                                                       *)

Looping ==
  With(Dialect({"Call", "While", "Until", "Break", "BreakV", "Next", "Redo",
                "And", "Seq"}, 3, {"object", "nil"}), "NextInCondition")
Ensuring ==
  Dialect({"Call", "Begin", "While", "Break", "Next", "Return", "RescueMod"}, 3,
          {"object", "error", "nil"})

--------------------------------------------------------------------------------
(* Exceptions.                                                                  *)

Rescuing ==
  Dialect({"Call", "Begin", "Rescue", "RescueMod", "Const", "Retry"}, 3,
          {"object", "error", "own"})
RescuingAs ==
  Dialect({"Call", "Begin", "RescueAs", "Lvar", "Return"}, 3, {"object", "error"})
Nesting == Dialect({"Call", "Begin", "Rescue"}, 4, {"object", "error"})

--------------------------------------------------------------------------------
(* Scopes.                                                                      *)

Closures ==
  Dialect({"Call", "Block", "For", "Break", "BreakV", "NextV", "Return", "Lvar",
           "Assign", "Seq"}, 3, {"object", "yield"})
Escapes ==
  Dialect({"Call", "Block", "Begin", "Break", "Next", "Redo", "ReturnV", "Seq"},
          3, {"object", "yield", "error"})

--------------------------------------------------------------------------------
(* Values.  The limits on lists are small here: a call with three arguments, an *)
(* array of three items and a stack of a few registers are gathered.            *)

DialectOf(forms, leaves, nodes, answers) ==
  [Dialect(DOMAIN forms \cup leaves, nodes, answers) EXCEPT !.forms = forms]

Lists(roles, n) == UNION {[1 .. i -> roles] : i \in 0 .. n}
Args == Lists({"arg", "splat"}, 3)
Pair == <<"key", "value">>
KeywordLists == {<<>>, Pair, <<"dsplat">>, Pair \o <<"dsplat">>, <<"dsplat">> \o Pair,
                 Pair \o Pair \o Pair, Pair \o <<"dsplat", "dsplat">> \o Pair}
Callees(recvs, args, keywords, blocks) ==
  {<<r>> \o a \o k \o b : r \in recvs, a \in args, k \in keywords, b \in blocks}

Passing ==
  DialectOf([Send |-> Named("m", Callees({"any", "self", "absent"}, Args, KeywordLists,
                                         {<<>>, <<"block">>, <<"blockarg">>}))],
            {"Call"}, 1, {"object"})
Operating ==
  DialectOf([Send |-> Named("+", {<<"any", "arg">>}) \cup Named("-", {<<"any", "arg">>})
                        \cup Named("<", {<<"any", "arg">>, <<"any", "splat">>})
                        \cup Named("[]", {<<"any", "arg">>, <<"any", "arg", "arg">>})
                        \cup Named("-@", {<<"any">>})],
            {"Call", "Lvar", "Int", "Zero", "Assign", "Seq"}, 2, {"object"})
Gathering ==
  DialectOf([Array |-> Unnamed(Lists({"arg", "splat"}, 4) \ Lists({"arg", "splat"}, 1)),
             Hash  |-> Unnamed((KeywordLists \ {<<>>})
                                \cup {Pair \o <<"dsplat">> \o Pair \o <<"dsplat">>})],
            {"Call", "Seq"}, 2, {"object"})
Nested ==
  DialectOf([Array |-> Unnamed({<<"arg", "arg">>, <<"arg", "splat">>, <<"splat">>}),
             Hash  |-> Unnamed({Pair}),
             Send  |-> Named("m", {<<"any", "arg", "splat">>, <<"any", "dsplat">>})],
            {"Call"}, 3, {"object"})
Texts ==
  DialectOf([DStr |-> Unnamed(Lists({"text", "any"}, 3) \ {<<>>}),
             DSym |-> Unnamed({<<"text", "any">>, <<"any">>, <<"any", "text">>}),
             DRegexp |-> {"", "opt"} \X {<<"any", "text">>, <<"text", "any">>},
             XStr |-> Unnamed({<<"text">>, <<"any", "any">>})],
            {"Call", "Str", "Seq"}, 2, {"object"})
Writing ==
  DialectOf([SafeSend |-> Named("m", {<<"any">>, <<"any", "arg">>}),
             AttrSet  |-> Named("a=", {<<"any", "arg">>, <<"self", "arg">>})
                            \cup Named("[]=", {<<"any", "arg", "arg">>, <<"self", "arg", "arg">>,
                                              <<"any", "splat", "arg">>,
                                              <<"any", "arg", "arg", "arg">>}),
             SafeAttrSet |-> Named("a=", {<<"any", "arg">>})],
            {"Call", "Seq"}, 2, {"object", "nil"})
Reading ==
  DialectOf([Read |-> {<<"ivar", <<>>>>, <<"gvar", <<>>>>, <<"cvar", <<>>>>},
             MatchRef |-> {<<"[]", <<>>>>, <<"post_match", <<>>>>}],
            {"Call", "Self", "Str", "Symbol", "Float", "Range", "RangeExc", "Rational",
             "Imaginary", "Encoding", "ConstPath", "Seq"}, 2, {"object"})
Giving ==
  LET lists == Unnamed({<<"arg">>, <<"splat">>, <<"arg", "arg">>}) IN
    DialectOf([BreakV |-> lists, NextV |-> lists, ReturnV |-> lists],
              {"Call", "While", "Block", "Or"}, 3, {"object", "yield"})
Vars(names, shapes) == UNION {Named(name, shapes) : name \in names}
Assigning ==
  DialectOf([Write      |-> Vars({"ivar", "gvar", "cvar", "const"}, {<<"any">>}),
             OpWrite    |-> Vars({"x", "ivar", "cvar"} \X {"+", "m"}, {<<"any">>}),
             LogicWrite |-> Vars({"x", "gvar", "cvar", "const"} \X {"or", "and"}, {<<"any">>})],
            {"Call", "Lvar", "Int", "Seq", "Assign", "ConstPathWrite"}, 2, {"object", "nil"})
Updating ==
  DialectOf([CallWrite  |-> Vars({"+", "m", "or", "and"},
                                 {<<x, "rhs">> : x \in {"any", "self", "absent"}}),
             SafeCallWrite |-> Vars({"-", "or", "and"}, {<<"any", "rhs">>}),
             IndexWrite |-> Vars({"+", "or", "and"},
                                 {<<"any", "rhs">>, <<"any", "arg", "rhs">>,
                                  <<"self", "arg", "rhs">>, <<"any", "splat", "rhs">>,
                                  <<"any", "arg", "arg", "rhs">>})],
            {"Call", "Seq"}, 2, {"object", "nil"})
\* Targets: some, one that takes the rest, some; a nameless one; a comma.
Heads(n) == UNION {[1 .. i -> {"left"}] : i \in 1 .. n}
Lefts(n) ==
  Named("", {h \o <<"rest">> \o p : h \in Heads(n) \cup {<<>>},
                                    p \in {<<>>, <<"behind">>, <<"behind", "behind">>}})
    \cup Named("", Heads(n) \ Heads(1))
    \cup Named("anon", {h \o p : h \in Heads(n), p \in {<<>>, <<"behind">>}})
    \cup Named("implicit", Heads(n))
Of(lefts, values) == {<<l[1], v \o l[2]>> : l \in lefts, v \in values}
Variables == {<<"x", <<>>>>, <<"ivar", <<>>>>}
Spreading ==
  DialectOf([MultiWrite |-> Of(Lefts(5), {<<"whole">>})
                              \cup Of(Lefts(2), {<<"arg">>, <<"arg", "arg">>, <<"splat">>,
                                                <<"arg", "arg", "arg">>, <<"splat", "arg">>}),
             Array |-> Unnamed({[i \in 1 .. 6 |-> "arg"]}),
             VarTarget |-> {<<"ivar", <<>>>>}],
            {"Call", "Seq"}, 2, {"object"})
Targeting ==
  DialectOf([MultiWrite |-> Of(Lefts(2), {<<"whole">>, <<"arg", "arg">>}),
             MultiTarget |-> Lefts(1) \cup Named("", {<<"left", "left">>}),
             IndexTarget |-> Unnamed({<<"any">>, <<"any", "arg">>, <<"any", "splat">>,
                                      <<"any", "arg", "arg">>}),
             CallTarget |-> Unnamed({<<"any">>, <<"self">>}),
             For |-> Named("", {<<"any", "any", "target">>, <<"any", "absent", "left", "left">>,
                                <<"any", "any", "left", "rest">>}),
             VarTarget |-> {<<"x", <<>>>>}],
            {"Call", "Lvar"}, 2, {"object", "yield"})
\* Patterns are tested by one class, and bind x.
Sides == {"taking", "plain pattern"}
PatternForms ==
  [ValuePattern |-> Unnamed({<<"constant">>}),
   Guard        |-> Vars({"if", "unless"}, {<<side, "any">> : side \in Sides}),
   Alternation  |-> Unnamed(Sides \X Sides),
   Capture      |-> Unnamed({<<side>> : side \in Sides}),
   ArrayPattern |-> {<<name, c \o h \o p>> : name \in {"", "anon", "bound"},
                       c \in {<<>>, <<"constant">>}, h \in Lists({"first"}, 1),
                       p \in Lists({"last"}, 1)}
                      \cup Named("", {<<"first", "first", "first">>})
                      \cup Named("bound", {<<"first", "first", "first", "last", "last">>}),
   FindPattern  |-> Vars({"", "before", "behind"}, {<<"first">>, <<"first", "first">>})
                      \cup Named("both", {<<"constant", "first">>}),
   HashPattern  |-> Vars({"", "nil", "bound", "anon"},
                         {<<>>, <<"symbol", "sub">>, <<"symbol", "sub", "symbol", "sub">>})
                      \cup Named("", {<<"constant", "symbol", "sub">>})]
Matching(kinds, forms, leaves, nodes) ==
  DialectOf(forms @@ [k \in kinds |-> PatternForms[k]], leaves \cup {"Bind", "Const"},
            nodes, {"object", "nil"})
Clauses1(sides) == {<<"whole", side, "body">> : side \in sides}
OneLiners ==
  Matching(DOMAIN PatternForms \ {"Guard"},
           [MatchIn |-> Unnamed({<<"any", "pattern">>})], {"Call"}, 3)
Required ==
  Matching({"ValuePattern", "Capture"},
           [MatchTo |-> Unnamed({<<"any", "pattern">>}),
            ArrayPattern |-> {<<"", <<"first">>>>, <<"bound", <<"first", "last">>>>}],
           {"Call"}, 3)
ClausesOf ==
  Matching({"ValuePattern", "Guard"},
           [ArrayPattern |-> {<<"", <<"first">>>>, <<"bound", <<>>>>},
            FindPattern |-> Named("before", {<<"first">>}),
            CaseIn |-> Unnamed(Clauses1(Sides)
                         \cup {<<"whole", s, "body", t, "no body", "else">> : s \in Sides, t \in Sides}
                         \cup {<<"arg", "arg", "taking", "empty", t, "body">> : t \in Sides})],
           {"Call"}, 3)
Matched == <<OneLiners, ClausesOf>>
\* Definitions.  Parameters in the order they are written in; every parameter is read
\* by some program.
ParamLists ==
  {<<>>, <<"req">>, <<"req", "req">>, <<"opt">>, <<"req", "opt", "opt">>, <<"opt", "gather">>,
   <<"req", "gather", "post">>, <<"opt", "post">>, <<"req parts">>, <<"req", "gather", "post parts">>,
   <<"keyword">>, <<"default">>, <<"req", "default", "keyword">>, <<"default", "keywords">>,
   <<"opt", "default", "ampersand">>, <<"gather", "keywords", "ampersand">>, <<"no block">>}
Anonymous == {<<"anon gather">>, <<"anon keywords">>, <<"req", "anon gather", "anon keywords", "anon ampersand">>}
ParamNames ==
  {<<name, <<>>>> : name \in {"req1", "req2", "opt1", "opt2", "opt3", "rest", "post2", "post3", "part1",
                              "part2", "key1", "key2", "key3", "opts", "block", "_1", "_2"}}
Bodies(lists) == {list \o <<"body">> : list \in lists}
Parted == [MultiTarget |-> Named("", {<<"left", "left">>}),
           VarTarget   |-> {<<"part1", <<>>>>, <<"part2", <<>>>>}]

Parameterized ==
  DialectOf([Send     |-> Named("m", {<<"absent", "literal">>}),
             BlockLit |-> Named("", Bodies(ParamLists)) \cup Named("none", {<<"body">>, <<"no body">>})
                            \cup Vars({"it", "numbered"}, {<<"body">>}),
             Param    |-> ParamNames] @@ Parted,
            {"Call", "ItRead"}, 3, {"object", "yield"})
Lambdas ==
  DialectOf([Lambda |-> Named("", Bodies({<<"req">>, <<"opt", "post">>, <<"default">>}))
                          \cup Vars({"none", "it"}, {<<"body">>}),
             Param  |-> ParamNames],
            {"ItRead", "Nil", "Break", "Return"}, 3, {"object", "yield"})
Methods ==
  DialectOf([Def   |-> Named("", Bodies(ParamLists)
                          \cup {<<"any", "body">>, <<"no body">>, <<"any", "req", "body">>}),
             Param |-> ParamNames, Yield |-> Unnamed({<<>>})] @@ Parted,
            {"Call"}, 2, {"object", "yield"})
Passed ==
  DialectOf([Def   |-> Named("", Bodies(Anonymous \cup {<<"forward all">>, <<"req", "forward all">>})),
             Send  |-> Named("m", {<<"absent", "anon splat">>, <<"any", "arg", "anon splat", "anon blockarg">>,
                                   <<"absent", "anon dsplat">>, <<"absent", "key", "value", "anon dsplat">>,
                                   <<"any", "forward">>, <<"absent", "arg", "forward">>}),
             Array |-> Unnamed({<<"anon splat">>, <<"arg", "anon splat">>}),
             Hash  |-> Unnamed({<<"anon dsplat">>, <<"anon dsplat", "key", "value">>})],
            {"Call"}, 2, {"object", "yield"})
Inherited ==
  DialectOf([Def   |-> Named("", Bodies({<<"req">>, <<"gather", "post">>, <<"keyword">>})),
             Super |-> Unnamed({<<>>, <<"arg">>, <<"splat">>, <<"key", "value">>, <<"arg", "blockarg">>,
                                <<"arg", "dsplat">>, <<"literal">>, <<"arg", "arg", "arg">>}),
             Yield |-> Unnamed({<<"arg">>, <<"splat">>, <<"key", "value">>, <<"arg", "dsplat">>}),
             BlockLit |-> Named("none", {<<"body">>}), Param |-> {<<"key1", <<>>>>}],
            {"Call"}, 3, {"object", "yield"})
Surrounded ==
  DialectOf([Def   |-> Named("", Bodies({<<"opt">>, <<"anon gather", "ampersand">>})),
             Send  |-> Named("m", {<<"absent", "literal">>}),
             BlockLit |-> Named("", Bodies({<<"req">>})) \cup Named("none", {<<"body">>}),
             Super |-> Unnamed({<<>>}), Yield |-> Unnamed({<<>>}), ZSuper |-> Unnamed({<<>>}),
             Param |-> {<<"req1", <<>>>>, <<"opt1", <<>>>>, <<"block", <<>>>>}],
            {"Call"}, 4, {"object", "yield"})
Opened ==
  DialectOf([Class  |-> Named("read", {<<"absent", x, b>> : x \in Opt, b \in {"body", "no body"}})
                          \cup Named("path", {<<x, "absent", "body">> : x \in Opt}),
             Module |-> {<<"read", <<"absent", "body">>>>, <<"path", <<"any", "no body">>>>},
             SClass |-> Unnamed({<<"any", "body">>}),
             Def    |-> Named("", {<<"body">>})],
            {"Self", "Alias"}, 3, {"object", "yield"})
Several ==
  DialectOf([Def |-> Named("", {<<"body">>, <<"any", "body">>})], {"Call", "Seq", "Nil", "Undef"}, 3,
            {"object", "yield"})
Jumping == <<Looping, Ensuring, Rescuing, RescuingAs, Nesting, Closures, Escapes, Required>>
Definitions == <<Parameterized, Lambdas, Methods, Passed, Inherited, Surrounded, Opened, Several>>
                 \o Matched
Valued == <<Conditions, Constants, Cases, Passing, Operating, Gathering, Nested, Texts, Writing,
            Reading, Giving, Assigning, Updating, Spreading, Targeting>>

--------------------------------------------------------------------------------
(* Loops that come to an end, and the constructs the handlers get wrong.        *)

Retries ==
  <<Dialect({"Call", "While", "Begin", "Break", "Next", "Retry", "RescueMod"}, 2,
            {"object", "error"})>>

EmptyEnsures ==
  <<With(Dialect({"Call", "Begin", "Seq"}, 2, {"object"}), "EmptyEnsure")>>
NextConditions ==
  <<With(Dialect({"Call", "Begin", "While", "Next"}, 2, {"object"}),
         "NextInCondition")>>
SuperForwards ==
  <<DialectOf([Def   |-> Named("", {<<"forward all", "body">>, <<"req", "forward all", "body">>}),
               Super |-> Unnamed({<<"forward">>, <<"arg", "forward">>})], {"Call"}, 2,
              {"object", "yield"})>>
================================================================================
