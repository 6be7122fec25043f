------------------------------- MODULE Params ---------------------------------
(* The parameters of a block, a lambda or a method: the front of its shape, in  *)
(* the order they are written in.  Only the defaults and the parameters that    *)
(* are taken apart ("parts") have a node.  A parameter is named for its place   *)
(* in the shape; the names a nameless one goes by are those of the source.      *)
EXTENDS Integers, Sequences, TLC

ParamName(shape, i) ==
  CASE shape[i] \in {"req", "opt", "post"}   -> shape[i] \o ToString(i)
    [] shape[i] \in {"keyword", "default"}   -> "key" \o ToString(i)
    [] shape[i] \in {"req parts", "post parts"} -> ""
    [] shape[i] = "gather"       -> "rest"  [] shape[i] = "anon gather"   -> "*"
    [] shape[i] = "keywords"     -> "opts"  [] shape[i] = "anon keywords" -> "**"
    [] shape[i] = "ampersand"    -> "block" [] shape[i] = "anon ampersand" -> "&"

Requireds == {"req", "req parts"}
Rests     == {"gather", "anon gather"}
Posts     == {"post", "post parts"}
Keywords  == {"keyword", "default"}
KwRests   == {"keywords", "anon keywords"}
Ampersands == {"ampersand", "anon ampersand"}
Parameters == Requireds \cup {"opt"} \cup Rests \cup Posts \cup Keywords \cup KwRests
                \cup Ampersands \cup {"no block", "forward all"}

Places(shape, roles) == SelectSeq([i \in DOMAIN shape |-> i], LAMBDA i : shape[i] \in roles)
NamesOf(shape, roles) ==
  [j \in DOMAIN Places(shape, roles) |-> ParamName(shape, Places(shape, roles)[j])]
Count(shape, roles) == Len(Places(shape, roles))
Has(shape, roles)   == Count(shape, roles) > 0

\* `...` is a rest, keywords and a block.
Forwards(shape) == Has(shape, {"forward all"})
Keyed(shape)    == Has(shape, Keywords \cup KwRests \cup {"forward all"})

================================================================================
