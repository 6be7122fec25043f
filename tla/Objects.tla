-------------------------------- MODULE Objects ---------------------------------
(* The values programs compute with, as far as the machine and the language     *)
(* know them alike (they are mruby's, not of this repository).                  *)
(*                                                                              *)
(* Values are tuples: <<"nil">>, <<"int", n>>, <<"obj", node>>, <<"class", n>>, *)
(* an exception <<"exc", class, node>>, an array <<"ary", items>>, a hash       *)
(* <<"hash", pairs>>, a string <<"str", pieces>>, and so on.  Integers are      *)
(* kept modulo Modulus.  What an interpolated value is converted to is the      *)
(* value itself.                                                                *)
EXTENDS Integers, Sequences, TLC

CONSTANT Modulus  \* integers the programs compute with are taken modulo this

Nil   == <<"nil">>
True  == <<"true">>
False == <<"false">>
Self  == <<"self">>
Item  == <<"item">>   \* what an iteration passes to its block
Num(n)   == <<"int", n % Modulus>>
Bool(b)  == IF b THEN True ELSE False
ObjectClass == <<"Object">>
Member(base, name) == <<"member", base, name>>
Error(class, id)   == <<"exc", class, id>>
NoMatchError == Error(2, -1)  \* no pattern matched
ArgumentError == Error(2, -2)
NameError == Error(2, 0)    \* a constant or a class variable is not there

Truthy(v) == v[1] \notin {"nil", "false"}
IsInt(v)  == v[1] = "int"

Array(items) == <<"ary", items>>
Hash(pairs)  == <<"hash", pairs>>
Str(pieces)  == <<"str", pieces>>
Symbol(s)    == <<"sym", s[2]>>
Asks(mid)    == Symbol(Str(<<<<mid>>>>))   \* the argument of respond_to?
RangeOf(l, r, exclusive) == <<"range", l, r, exclusive>>

\* What `*v`, `**v` and `#{v}` contribute.
Splatted(v) == CASE v[1] = "ary" -> v[2] [] v[1] = "nil" -> <<>> [] OTHER -> <<v>>
Paired(v)   == CASE v[1] = "hash" -> v[2] [] v[1] = "nil" -> <<>> [] OTHER -> <<<<v, v>>>>
Pieces(v)   == IF v[1] = "str" THEN v[2] ELSE <<v>>

\* What `a, b = v` takes apart.
Destructured(v) == IF v[1] = "ary" THEN v[2] ELSE <<v>>
\* Where the items behind the rest begin, when `pre` are in front of it and `post`
\* behind it.
Cut(len, pre, post) ==
  CASE len > pre + post -> len - post
    [] len > pre /\ len <= pre + post -> pre
    [] OTHER -> len
At(items, i)    == IF i \in DOMAIN items THEN items[i] ELSE Nil

\* What the parameters of a block or a method get from the arguments: `req` in front
\* and `post` behind always something, `opt` what is left, a rest all the others.  A
\* block takes one array apart that several parameters wait for.
Deal(req, opt, rest, post, given, strict) ==
  LET total == req + opt + rest + post
      args  == IF ~strict /\ total > 1 /\ Len(given) = 1 /\ given[1][1] = "ary"
               THEN given[1][2] ELSE given
      len   == Len(args)
      taken == IF len < req + post THEN 0
               ELSE IF len - req - post > opt THEN opt ELSE len - req - post
      more  == IF rest = 0 \/ len < total - rest THEN 0 ELSE len - (total - rest)
      last  == (IF len < req THEN len ELSE req) + taken + more
  IN  [req  |-> [i \in 1 .. req |-> At(args, i)],
       opt  |-> SubSeq(args, req + 1, req + taken),
       rest |-> Array(SubSeq(args, req + taken + 1, req + taken + more)),
       post |-> [i \in 1 .. post |-> At(args, last + i)]]

\* The keywords of a call, which are pairs, by name.
Key(name)           == Asks(name)
HasKey(pairs, name) == \E i \in DOMAIN pairs : pairs[i][1] = Key(name)
AtKey(pairs, name)  == pairs[CHOOSE i \in DOMAIN pairs : pairs[i][1] = Key(name)][2]
Without(pairs, names) ==
  SelectSeq(pairs, LAMBDA pair : \A name \in names : pair[1] # Key(name))

\* An invocation of a block or a method: arguments, keywords, block.
Invoked(args, kw, block) == [args |-> args, kw |-> kw, block |-> block]
Singleton(v) == <<"singleton", v>>
Receiver     == <<"receiver">>    \* self in a method

\* An integer as an index, which may count from the end.
Signed(v)  == IF 2 * v[2] >= Modulus THEN v[2] - Modulus ELSE v[2]
Place(v, len) == IF Signed(v) < 0 THEN len + Signed(v) ELSE Signed(v)
Indexed(items, i) ==
  IF i[1] = "range"
  THEN Array(SubSeq(items, Place(i[2], Len(items)) + 1,
                    Place(i[3], Len(items)) + IF i[4] THEN 0 ELSE 1))
  ELSE At(items, Place(i, Len(items)) + 1)

\* The methods that are known are computed; any other is a call (<<>>).
Known(name, recv, args) ==
  LET ints == IsInt(recv) /\ \A i \in DOMAIN args : IsInt(args[i]) IN
    CASE name = "nil?" /\ args = <<>> -> <<Bool(recv = Nil)>>
      [] name = "+@" /\ args = <<>> /\ ints -> <<recv>>
      [] name = "-@" /\ args = <<>> /\ ints -> <<Num(-recv[2])>>
      [] name = "+" /\ Len(args) = 1 /\ ints -> <<Num(recv[2] + args[1][2])>>
      [] name = "-" /\ Len(args) = 1 /\ ints -> <<Num(recv[2] - args[1][2])>>
      [] name = "*" /\ Len(args) = 1 /\ ints -> <<Num(recv[2] * args[1][2])>>
      [] name = "<" /\ Len(args) = 1 /\ ints -> <<Bool(recv[2] < args[1][2])>>
      [] name = "==" /\ Len(args) = 1 /\ ints -> <<Bool(recv = args[1])>>
      [] name = ">=" /\ Len(args) = 1 /\ ints -> <<Bool(Signed(recv) >= Signed(args[1]))>>
      [] recv[1] = "ary" /\ name = "size" -> <<Num(Len(recv[2]))>>
      [] recv[1] = "ary" /\ name = "[]" /\ Len(args) = 1 /\ args[1][1] \in {"int", "range"} ->
           <<Indexed(recv[2], args[1])>>
      [] recv[1] = "ary" /\ name = "respond_to?" /\ args = <<Asks("deconstruct")>> -> <<True>>
      [] recv[1] = "ary" /\ name = "deconstruct" -> <<recv>>
      [] OTHER -> <<>>

\* The variables of a run, other than locals and $!, by name.  A global or an
\* instance variable nobody set is nil; a constant or a class variable that
\* nobody set is not there (<<>>).
Fetch(store, name) ==
  CASE name[1] = "class"     -> <<name>>
    [] name \in DOMAIN store -> <<store[name]>>
    [] name[1] # "class" /\ name \notin DOMAIN store ->
         IF name[1] \in {"const", "cvar"} THEN <<>> ELSE <<Nil>>
Stored(store, name, v) == (name :> v) @@ store
================================================================================
