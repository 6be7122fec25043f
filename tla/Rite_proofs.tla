------------------------------- MODULE Rite_proofs -----------------------------
(* Proofs about Rite, for trees of ireps of any shape up to Depth, any limits of *)
(* the pools and any clients.                                                 *)
(*                                                                            *)
(* What the writer, the size pass and the debug section compute is defined by *)
(* functions on the trees that call themselves for the nested ireps.  First come *)
(* TreeInduction and TreeRecursion, by induction on the depth, and from these an *)
(* equation for each of the functions; then the bytes of one irep, the records of a *)
(* tree (NestedRecordsFit), a file (FilesFit), what the scopes of the generator hold *)
(* (Filled), and the specification (SizesAlwaysFit).                          *)
EXTENDS Rite, Ireps_proofs
LOCAL INSTANCE SequencesExt

--------------------------------------------------------------------------------
(* Trees.                                                                       *)

\* Ireps whose nested ireps are in a set.
IrepsOf(T) ==
  [nlocals : Nat, nregs : Nat, iseq : Seq(Nat), handlers : Seq(Handlers), pool : Seq(PoolValues),
   syms : Seq(Optional(Seq(Nat))), reps : Seq(T), lv : Seq(Nat \cup {Null}), debug : Optional(DebugInfo)]

LEMMA TreeEquation ==
  Tree[0] = {} /\ \A d \in 1 .. Depth : Tree[d] = IrepsOf(Tree[d - 1])
  <1> DEFINE At(d, f) == IF d = 0 THEN {} ELSE IrepsOf(f[d - 1])
             Eq(f, n) == f = [d \in 0 .. n |-> At(d, f)]
             K        == {n \in Nat : \E f : Eq(f, n)}
  <1>1. 0 \in K
    <2> DEFINE f == [d \in 0 .. 0 |-> {}]
    <2>1. \A d \in 0 .. 0 : At(d, f) = {}
      OBVIOUS
    <2> HIDE DEF At
    <2>2. Eq(f, 0)
      BY <2>1, Zenon
    <2> HIDE DEF Eq
    <2>3. QED
      BY <2>2
  <1>2. ASSUME NEW n \in Nat, n \in K PROVE n + 1 \in K
    <2>1. PICK f : Eq(f, n)
      BY <1>2
    <2> DEFINE g == [d \in 0 .. n + 1 |-> IF d = n + 1 THEN IrepsOf(f[n]) ELSE f[d]]
    <2>2. ASSUME NEW d \in 0 .. n + 1 PROVE g[d] = At(d, g)
      <3>1. CASE d = n + 1
        <4>1. d - 1 = n /\ n \in 0 .. n + 1 /\ n # n + 1 /\ d # 0
          BY <3>1
        <4>2. g[d - 1] = f[n]
          BY <4>1, Zenon
        <4>3. QED
          BY <3>1, <4>1, <4>2, Zenon
      <3>2. CASE d # n + 1
        <4>1. d \in 0 .. n /\ (d # 0 => d - 1 \in 0 .. n + 1 /\ d - 1 # n + 1)
          BY <3>2
        <4>2. f[d] = At(d, f)
          BY <2>1, <4>1, Zenon
        <4>3. d # 0 => g[d - 1] = f[d - 1]
          BY <4>1, Zenon
        <4>4. g[d] = f[d]
          BY <3>2, Zenon
        <4> HIDE DEF g
        <4>5. QED
          BY <4>2, <4>3, <4>4, Zenon
      <3>3. QED
        BY <3>1, <3>2
    <2>3. g = [d \in 0 .. n + 1 |-> g[d]]
      BY Zenon
    <2> HIDE DEF g, At
    <2>4. Eq(g, n + 1)
      BY <2>2, <2>3, Zenon
    <2> HIDE DEF Eq
    <2>5. QED
      BY <2>4
  <1>3. Nat \subseteq K
    <2> HIDE DEF K
    <2>1. QED
      BY <1>1, <1>2, SetInduction
  <1> DEFINE Tr(f) == f = [d \in 0 .. Depth |->
                IF d = 0 THEN {}
                ELSE [nlocals : Nat, nregs : Nat, iseq : Seq(Nat), handlers : Seq(Handlers),
                      pool : Seq(PoolValues), syms : Seq(Optional(Seq(Nat))), reps : Seq(f[d - 1]),
                      lv : Seq(Nat \cup {Null}), debug : Optional(DebugInfo)]]
             g == CHOOSE f : Tr(f)
  <1>4. \E f : Tr(f)
    <2>1. \E f : Eq(f, Depth)
      BY <1>3, LayoutAssumption
    <2>2. QED
      BY <2>1, Zenon DEF IrepsOf
  <1>5. Tr(g)
    BY <1>4, Zenon
  <1>6. Tree = g
    BY Zenon DEF Tree
  <1>7. Eq(g, Depth)
    BY <1>5, Zenon DEF IrepsOf
  <1> HIDE DEF g, Tr
  <1>8. 0 \in 0 .. Depth /\ \A d \in 1 .. Depth : d \in 0 .. Depth /\ d # 0
    BY LayoutAssumption
  <1>9. g[0] = At(0, g) /\ \A d \in 1 .. Depth : g[d] = At(d, g)
    <2> HIDE DEF At
    <2>1. QED
      BY <1>7, <1>8, Zenon
  <1>10. QED
    BY <1>6, <1>8, <1>9, Zenon

LEMMA MoreIreps ==
  ASSUME NEW S, NEW T, S \subseteq T
  PROVE  IrepsOf(S) \subseteq IrepsOf(T)
  <1>1. Seq(S) \subseteq Seq(T)
    OBVIOUS
  <1>2. QED
    BY <1>1, SMT DEF IrepsOf

LEMMA TreeGrows ==
  /\ \A d \in 1 .. Depth : Tree[d - 1] \subseteq Tree[d]
  /\ \A d \in 0 .. Depth : Tree[d] \subseteq Trees
  <1> DEFINE G == {d \in Nat : d + 1 <= Depth => Tree[d] \subseteq Tree[d + 1]}
  <1>1. 0 \in G
    BY TreeEquation
  <1>2. ASSUME NEW d \in Nat, d \in G PROVE d + 1 \in G
    <2> SUFFICES ASSUME (d + 1) + 1 <= Depth PROVE Tree[d + 1] \subseteq Tree[(d + 1) + 1]
      OBVIOUS
    <2>1. /\ d + 1 \in 1 .. Depth /\ (d + 1) + 1 \in 1 .. Depth
          /\ (d + 1) - 1 = d /\ ((d + 1) + 1) - 1 = d + 1 /\ d + 1 <= Depth
      BY LayoutAssumption
    <2>2. Tree[d] \subseteq Tree[d + 1]
      BY <1>2, <2>1
    <2>3. Tree[d + 1] = IrepsOf(Tree[d]) /\ Tree[(d + 1) + 1] = IrepsOf(Tree[d + 1])
      <3>1. \A e \in 1 .. Depth : Tree[e] = IrepsOf(Tree[e - 1])
        BY TreeEquation
      <3>2. Tree[d + 1] = IrepsOf(Tree[(d + 1) - 1])
        BY <2>1, <3>1, Zenon
      <3>3. Tree[(d + 1) + 1] = IrepsOf(Tree[((d + 1) + 1) - 1])
        BY <2>1, <3>1, Zenon
      <3>4. QED
        BY <2>1, <3>2, <3>3, Zenon
    <2>4. QED
      BY <2>2, <2>3, MoreIreps
  <1>3. Nat \subseteq G
    <2> HIDE DEF G
    <2>1. QED
      BY <1>1, <1>2, SetInduction
  <1>4. ASSUME NEW d \in 1 .. Depth PROVE Tree[d - 1] \subseteq Tree[d]
    <2>1. d - 1 \in Nat /\ (d - 1) + 1 = d /\ d <= Depth
      BY LayoutAssumption
    <2>2. QED
      BY <1>3, <2>1
  <1> DEFINE H == {k \in Nat : k <= Depth => Tree[Depth - k] \subseteq Trees}
  <1>5. 0 \in H
    BY LayoutAssumption DEF Trees
  <1>6. ASSUME NEW k \in Nat, k \in H PROVE k + 1 \in H
    <2> SUFFICES ASSUME k + 1 <= Depth PROVE Tree[Depth - (k + 1)] \subseteq Trees
      OBVIOUS
    <2>1. Depth - k \in 1 .. Depth /\ (Depth - k) - 1 = Depth - (k + 1) /\ k <= Depth
      BY LayoutAssumption
    <2>2. Tree[(Depth - k) - 1] \subseteq Tree[Depth - k]
      BY <1>4, <2>1, Zenon
    <2>3. Tree[Depth - k] \subseteq Trees
      BY <1>6, <2>1
    <2>4. QED
      BY <2>1, <2>2, <2>3, Zenon
  <1>7. Nat \subseteq H
    <2> HIDE DEF H
    <2>1. QED
      BY <1>5, <1>6, SetInduction
  <1>8. ASSUME NEW d \in 0 .. Depth PROVE Tree[d] \subseteq Trees
    <2>1. Depth - d \in Nat /\ Depth - (Depth - d) = d /\ Depth - d <= Depth
      BY LayoutAssumption
    <2>2. Depth - d \in H
      BY <1>7, <2>1
    <2>3. QED
      BY <2>1, <2>2
  <1>9. QED
    BY <1>4, <1>8

\* The ireps nested in one are such ireps.
LEMMA TreeParts ==
  ASSUME NEW irep \in Trees
  PROVE  irep \in IrepsOf(Trees)
  <1>1. Depth # 0
    BY TreeEquation DEF Trees
  <1>2. Depth \in 1 .. Depth /\ Depth - 1 \in 0 .. Depth
    BY <1>1, LayoutAssumption
  <1>3. Trees = IrepsOf(Tree[Depth - 1])
    BY <1>2, TreeEquation, Zenon DEF Trees
  <1>4. Tree[Depth - 1] \subseteq Trees
    BY <1>2, TreeGrows, Zenon
  <1>5. QED
    BY <1>3, <1>4, MoreIreps

\* Induction over the depth, and over what is nested.
LEMMA LevelInduction ==
  ASSUME NEW P,
         \A d \in 1 .. Depth : \A irep \in Tree[d] :
           (\A i \in DOMAIN irep.reps : irep.reps[i] \in Tree[d - 1] /\ irep.reps[i] \in P[d - 1])
             => irep \in P[d]
  PROVE  \A d \in 0 .. Depth : Tree[d] \subseteq P[d]
  <1> DEFINE S == {d \in Nat : d <= Depth => Tree[d] \subseteq P[d]}
  <1>1. 0 \in S
    BY TreeEquation
  <1>2. ASSUME NEW d \in Nat, d \in S PROVE d + 1 \in S
    <2> DEFINE e == d + 1
    <2> SUFFICES ASSUME e <= Depth, NEW irep \in Tree[e] PROVE irep \in P[e]
      OBVIOUS
    <2>1. e \in 1 .. Depth /\ e - 1 = d /\ d <= Depth
      BY LayoutAssumption
    <2>2. Tree[e - 1] \subseteq P[e - 1]
      BY <1>2, <2>1
    <2> HIDE DEF e
    <2>3. irep \in IrepsOf(Tree[e - 1])
      BY <2>1, TreeEquation, Zenon
    <2>4. \A i \in DOMAIN irep.reps : irep.reps[i] \in Tree[e - 1]
      BY <2>3, SMT DEF IrepsOf
    <2>5. QED
      BY <2>1, <2>2, <2>4, Zenon
  <1>3. Nat \subseteq S
    <2> HIDE DEF S
    <2>1. QED
      BY <1>1, <1>2, SetInduction
  <1>4. QED
    BY <1>3

LEMMA TreeInduction ==
  ASSUME NEW S,
         \A irep \in Trees :
           (\A i \in DOMAIN irep.reps : irep.reps[i] \in Trees /\ irep.reps[i] \in S) => irep \in S
  PROVE  Trees \subseteq S
  <1> DEFINE P == [d \in Nat |-> S]
  <1>1. ASSUME NEW d \in 1 .. Depth, NEW irep \in Tree[d],
               \A i \in DOMAIN irep.reps : irep.reps[i] \in Tree[d - 1] /\ irep.reps[i] \in P[d - 1]
        PROVE  irep \in P[d]
    <2>1. d \in 0 .. Depth /\ d - 1 \in 0 .. Depth /\ d \in Nat /\ d - 1 \in Nat
      BY LayoutAssumption
    <2>2. irep \in Trees /\ \A i \in DOMAIN irep.reps : irep.reps[i] \in Trees
      BY <1>1, <2>1, TreeGrows, Zenon
    <2>3. \A i \in DOMAIN irep.reps : irep.reps[i] \in S
      BY <1>1, <2>1
    <2>4. irep \in S
      BY <2>2, <2>3, Zenon
    <2>5. QED
      BY <2>1, <2>4
  <1>2. Depth \in 0 .. Depth /\ Depth \in Nat
    BY LayoutAssumption
  <1>3. \A d \in 0 .. Depth : Tree[d] \subseteq P[d]
    <2> HIDE DEF P
    <2>1. QED
      BY <1>1, LevelInduction, Zenon
  <1>4. QED
    BY <1>2, <1>3 DEF Trees

\* There is a function that is defined by what it is for the ireps nested in one.
LEMMA TreeRecursion ==
  ASSUME NEW step
  PROVE  \E f : f = [irep \in Trees |-> step[irep][Of(f, irep.reps)]]
  <1> DEFINE Eq(f, T) == f = [irep \in T |-> step[irep][Of(f, irep.reps)]]
             S        == {d \in Nat : d <= Depth => \E f : Eq(f, Tree[d])}
  <1>1. 0 \in S
    <2> DEFINE f == [irep \in {} |-> irep]
    <2>1. Eq(f, {})
      OBVIOUS
    <2> HIDE DEF Eq
    <2>2. QED
      BY <2>1, TreeEquation
  <1>2. ASSUME NEW d \in Nat, d \in S PROVE d + 1 \in S
    <2> DEFINE e == d + 1
    <2> SUFFICES ASSUME e <= Depth PROVE \E f : Eq(f, Tree[e])
      OBVIOUS
    <2>1. e \in 1 .. Depth /\ e - 1 = d /\ d <= Depth
      BY LayoutAssumption
    <2>2. PICK f : Eq(f, Tree[d])
      BY <1>2, <2>1
    <2> HIDE DEF e
    <2> DEFINE g == [irep \in Tree[e] |-> step[irep][Of(f, irep.reps)]]
    <2>3. Tree[d] \subseteq Tree[e] /\ Tree[e] = IrepsOf(Tree[d])
      BY <2>1, TreeGrows, TreeEquation, Zenon
    <2>4. ASSUME NEW irep \in Tree[d] PROVE g[irep] = f[irep]
      BY <2>2, <2>3, Zenon
    <2>5. ASSUME NEW irep \in Tree[e] PROVE Of(g, irep.reps) = Of(f, irep.reps)
      <3>1. \A i \in DOMAIN irep.reps : irep.reps[i] \in Tree[d]
        BY <2>3, SMT DEF IrepsOf
      <3> HIDE DEF g
      <3>2. \A i \in DOMAIN irep.reps : g[irep.reps[i]] = f[irep.reps[i]]
        BY <2>4, <3>1, Zenon
      <3>3. QED
        BY <3>2, Zenon DEF Of
    <2>6. Eq(g, Tree[e])
      BY <2>5, Zenon
    <2> HIDE DEF g, Eq
    <2>7. QED
      BY <2>6
  <1>3. Nat \subseteq S
    <2> HIDE DEF S
    <2>1. QED
      BY <1>1, <1>2, SetInduction
  <1>4. QED
    BY <1>3, LayoutAssumption DEF Trees

\* Its values are in a set that the values for the ireps nested in one lead to again.
LEMMA TreeType ==
  ASSUME NEW V, NEW step \in [Trees -> [Seq(V) -> V]], NEW f, f = [irep \in Trees |-> f[irep]],
         \A irep \in Trees :
           Of(f, irep.reps) \in Seq(V) => f[irep] = step[irep][Of(f, irep.reps)]
  PROVE  f \in [Trees -> V] /\ \A irep \in Trees : Of(f, irep.reps) \in Seq(V)
  <1> DEFINE S == {irep \in Trees : f[irep] \in V}
  <1>1. ASSUME NEW irep \in Trees, \A i \in DOMAIN irep.reps : irep.reps[i] \in S
        PROVE  Of(f, irep.reps) \in Seq(V)
    <2>1. irep.reps \in Seq(Trees)
      BY TreeParts, SMT DEF IrepsOf
    <2>2. \A i \in DOMAIN irep.reps : f[irep.reps[i]] \in V
      BY <1>1, Zenon
    <2>3. DOMAIN irep.reps = 1 .. Len(irep.reps) /\ Len(irep.reps) \in Nat
      BY <2>1
    <2>4. Of(f, irep.reps) = [i \in 1 .. Len(irep.reps) |-> f[irep.reps[i]]]
      BY <2>3, Zenon DEF Of
    <2>5. Of(f, irep.reps) \in [1 .. Len(irep.reps) -> V]
      BY <2>2, <2>3, <2>4, Zenon
    <2> DEFINE vs == Of(f, irep.reps)
               n  == Len(irep.reps)
    <2> HIDE DEF vs, n
    <2>6. vs \in [1 .. n -> V] /\ n \in Nat
      BY <2>3, <2>5 DEF vs, n
    <2>7. QED
      BY <2>6 DEF vs
  <1>2. ASSUME NEW irep \in Trees, \A i \in DOMAIN irep.reps : irep.reps[i] \in Trees /\ irep.reps[i] \in S
        PROVE  irep \in S
    <2> DEFINE vs == Of(f, irep.reps)
    <2>1. vs \in Seq(V)
      <3> HIDE DEF S
      <3>1. QED
        BY <1>1, <1>2, Zenon
    <2>2. f[irep] = step[irep][vs]
      BY <2>1, Zenon
    <2> HIDE DEF vs
    <2>3. step[irep][vs] \in V
      BY <2>1
    <2>4. QED
      BY <2>2, <2>3
  <1>3. Trees \subseteq S
    <2> HIDE DEF S
    <2>1. QED
      BY <1>2, TreeInduction, Zenon
  <1>4. f \in [Trees -> V]
    BY <1>3, Zenon
  <1>5. ASSUME NEW irep \in Trees PROVE Of(f, irep.reps) \in Seq(V)
    <2>1. \A i \in DOMAIN irep.reps : irep.reps[i] \in Trees
      BY TreeParts, SMT DEF IrepsOf
    <2> HIDE DEF S
    <2>2. QED
      BY <1>1, <1>3, <2>1, Zenon
  <1>6. QED
    BY <1>4, <1>5, Zenon

DefinedBy(f, V, step) ==
  /\ f \in [Trees -> V]
  /\ \A irep \in Trees : Of(f, irep.reps) \in Seq(V) /\ f[irep] = step[irep][Of(f, irep.reps)]

LEMMA TreeFunction ==
  ASSUME NEW V, NEW step \in [Trees -> [Seq(V) -> V]]
  PROVE  \E f : DefinedBy(f, V, step)
  <1>1. PICK f : f = [irep \in Trees |-> step[irep][Of(f, irep.reps)]]
    BY TreeRecursion
  <1>2. f = [irep \in Trees |-> f[irep]]
    BY <1>1, Zenon
  <1>3. \A irep \in Trees : f[irep] = step[irep][Of(f, irep.reps)]
    BY <1>1, Zenon
  <1>4. f \in [Trees -> V] /\ \A irep \in Trees : Of(f, irep.reps) \in Seq(V)
    BY <1>2, <1>3, TreeType, Zenon
  <1>5. QED
    BY <1>3, <1>4, Zenon DEF DefinedBy

--------------------------------------------------------------------------------
(* What ireps are made of, as bytes.                                            *)

LEMMA NumberBytes ==
  ASSUME NEW v \in Int
  PROVE  U8(v) \in Seq(Nat) /\ U16(v) \in Seq(Nat) /\ U32(v) \in Seq(Nat) /\ U64(v) \in Seq(Nat)
  <1>1. Halfword \in Nat /\ Halfword > 0 /\ Word \in Nat /\ Word > 0 /\ Base \in Nat /\ Base > 0
    <2>1. Halfword \in Nat /\ Halfword > 0 /\ Base \in Nat /\ Base > 0
      BY BaseType
    <2>2. QED
      BY <2>1 DEF Word
  <1>2. ASSUME NEW w \in Int
        PROVE  w % Base \in Nat /\ w \div Base \in Int /\ w \div Halfword \in Int /\ w \div Word \in Int
    BY <1>1, Division
  <1>3. ASSUME NEW w \in Int PROVE U8(w) \in Seq(Nat)
    BY <1>2 DEF U8
  <1>4. ASSUME NEW w \in Int PROVE U16(w) \in Seq(Nat)
    <2>1. U8(w) \in Seq(Nat) /\ U8(w \div Base) \in Seq(Nat)
      BY <1>2, <1>3
    <2>2. QED
      BY <2>1, ConcatProperties, Zenon DEF U16
  <1>5. ASSUME NEW w \in Int PROVE U32(w) \in Seq(Nat)
    <2>1. U16(w) \in Seq(Nat) /\ U16(w \div Halfword) \in Seq(Nat)
      BY <1>2, <1>4
    <2>2. QED
      BY <2>1, ConcatProperties, Zenon DEF U32
  <1>6. U64(v) \in Seq(Nat)
    <2>1. U32(v) \in Seq(Nat) /\ U32(v \div Word) \in Seq(Nat)
      BY <1>2, <1>5
    <2>2. QED
      BY <2>1, ConcatProperties, Zenon DEF U64
  <1>7. QED
    BY <1>3, <1>4, <1>5, <1>6

\* Parts joined that are bytes, one for each place of a sequence.
LEMMA JoinedBytes ==
  ASSUME NEW s, IsSequence(s), NEW parts, parts = [i \in DOMAIN s |-> parts[i]],
         \A i \in DOMAIN s : parts[i] \in Seq(Nat)
  PROVE  parts \in Seq(Seq(Nat)) /\ Len(parts) = Len(s) /\ FlattenSeq(parts) \in Seq(Nat)
  <1> DEFINE n == Len(s)
  <1>1. n \in Nat /\ DOMAIN s = 1 .. n
    BY LengthType
  <1> HIDE DEF n
  <1>2. parts \in [1 .. n -> Seq(Nat)]
    BY <1>1, Zenon
  <1>3. parts \in Seq(Seq(Nat)) /\ Len(parts) = n
    BY <1>1, <1>2
  <1>4. FlattenSeq(parts) \in Seq(Nat)
    BY <1>3, FlattenLength
  <1>5. QED
    BY <1>3, <1>4 DEF n

\* The kinds of literals.
LEMMA PoolShape ==
  ASSUME NEW entry \in PoolValues
  PROVE  \/ entry.type = "Int32" /\ entry.data \in [1 .. 1 -> Int32s]
         \/ entry.type = "Int64" /\ entry.data \in [1 .. 1 -> Int64s]
         \/ entry.type = "Float" /\ entry.data \in [1 .. 8 -> Nat]
         \/ entry.type = "BigInt" /\ entry.data \in BigInts
         \/ entry.type \in {"Str", "SStr"} /\ entry.data \in Seq(Nat)
  <1>1. \/ entry \in Valued({"Int32"}, [1 .. 1 -> Int32s])
        \/ entry \in Valued({"Int64"}, [1 .. 1 -> Int64s])
        \/ entry \in Valued({"Float"}, [1 .. 8 -> Nat])
        \/ entry \in Valued({"BigInt"}, BigInts)
        \/ entry \in Valued({"Str", "SStr"}, Seq(Nat))
    BY Zenon DEF PoolValues, Strings
  <1>2. ASSUME NEW types, NEW values, entry \in Valued(types, values)
        PROVE  entry.type \in types /\ entry.data \in values
    BY <1>2 DEF Valued
  <1>3. CASE entry \in Valued({"Int32"}, [1 .. 1 -> Int32s])
    <2>1. entry.type \in {"Int32"} /\ entry.data \in [1 .. 1 -> Int32s]
      BY <1>2, <1>3, Zenon
    <2>2. QED
      BY <2>1, Zenon
  <1>4. CASE entry \in Valued({"Int64"}, [1 .. 1 -> Int64s])
    <2>1. entry.type \in {"Int64"} /\ entry.data \in [1 .. 1 -> Int64s]
      BY <1>2, <1>4, Zenon
    <2>2. QED
      BY <2>1, Zenon
  <1>5. CASE entry \in Valued({"Float"}, [1 .. 8 -> Nat])
    <2>1. entry.type \in {"Float"} /\ entry.data \in [1 .. 8 -> Nat]
      BY <1>2, <1>5, Zenon
    <2>2. QED
      BY <2>1, Zenon
  <1>6. CASE entry \in Valued({"BigInt"}, BigInts)
    <2>1. entry.type \in {"BigInt"} /\ entry.data \in BigInts
      BY <1>2, <1>6, Zenon
    <2>2. QED
      BY <2>1, Zenon
  <1>7. CASE entry \in Valued({"Str", "SStr"}, Seq(Nat))
    <2>1. entry.type \in {"Str", "SStr"} /\ entry.data \in Seq(Nat)
      BY <1>2, <1>7, Zenon
    <2>2. QED
      BY <2>1, Zenon
  <1>8. QED
    BY <1>1, <1>3, <1>4, <1>5, <1>6, <1>7, Zenon

LEMMA ListIs ==
  ASSUME NEW n \in Nat, NEW S, NEW s \in [1 .. n -> S]
  PROVE  s \in Seq(S) /\ Len(s) = n
  OBVIOUS

LEMMA IntegerTypes ==
  /\ Int32s \subseteq Int /\ Int64s \subseteq Int /\ BigInts \subseteq Seq(Nat)
  /\ \A v \in [1 .. 1 -> Int] : v[1] \in Int
  <1>1. Word \in Nat /\ Longword \in Nat
    <2>1. Halfword \in Nat
      BY BaseType
    <2>2. Word \in Nat
      BY <2>1 DEF Word
    <2>3. QED
      BY <2>2 DEF Longword
  <1>2. Word \div 2 \in Int /\ Longword \div 2 \in Int
    BY <1>1, Division
  <1>3. QED
    BY <1>2 DEF Int32s, Int64s, BigInts

LEMMA EntryBytes ==
  ASSUME NEW entry \in PoolValues
  PROVE  PoolEntry(entry) \in Seq(Nat) /\ IsEntry(entry)
  <1>1. \A a, b \in Seq(Nat) : a \o b \in Seq(Nat)
    BY ConcatProperties, Zenon
  <1>2. U8(0) \in Seq(Nat) /\ U8(1) \in Seq(Nat) /\ U8(2) \in Seq(Nat) /\ U8(3) \in Seq(Nat)
        /\ U8(5) \in Seq(Nat) /\ U8(7) \in Seq(Nat)
    BY NumberBytes
  <1>3. CASE entry.type = "Int32" /\ entry.data \in [1 .. 1 -> Int32s]
    <2>1. entry.data[1] \in Int
      BY <1>3, IntegerTypes
    <2>2. U32(entry.data[1]) \in Seq(Nat)
      BY <2>1, NumberBytes
    <2>3. PoolEntry(entry) = U8(1) \o U32(entry.data[1])
      BY <1>3 DEF PoolEntry
    <2>4. QED
      BY <1>1, <1>2, <1>3, <2>2, <2>3, Zenon DEF IsEntry
  <1>4. CASE entry.type = "Int64" /\ entry.data \in [1 .. 1 -> Int64s]
    <2>1. entry.data[1] \in Int
      BY <1>4, IntegerTypes
    <2>2. U32(entry.data[1]) \in Seq(Nat) /\ U64(entry.data[1]) \in Seq(Nat)
      BY <2>1, NumberBytes
    <2>3. CASE FitsInt32(entry.data[1])
      <3>1. PoolEntry(entry) = U8(1) \o U32(entry.data[1])
        BY <1>4, <2>3 DEF PoolEntry
      <3>2. QED
        BY <1>1, <1>2, <1>4, <2>2, <3>1, Zenon DEF IsEntry
    <2>4. CASE ~FitsInt32(entry.data[1])
      <3>1. PoolEntry(entry) = U8(3) \o U64(entry.data[1])
        BY <1>4, <2>4 DEF PoolEntry
      <3>2. QED
        BY <1>1, <1>2, <1>4, <2>2, <3>1, Zenon DEF IsEntry
    <2>5. QED
      BY <2>3, <2>4
  <1>5. CASE entry.type = "Float" /\ entry.data \in [1 .. 8 -> Nat]
    <2>1. Fits(entry.data, 8)
      BY <1>5, ListFits
    <2>2. entry.data \in Seq(Nat)
      <3>1. 8 \in Nat
        OBVIOUS
      <3>2. QED
        BY <1>5, <3>1, ListIs, Zenon
    <2>3. PoolEntry(entry) = U8(5) \o entry.data
      BY <1>5 DEF PoolEntry
    <2>4. QED
      BY <1>1, <1>2, <1>5, <2>1, <2>2, <2>3, Zenon DEF IsEntry
  <1>6. CASE entry.type = "BigInt" /\ entry.data \in BigInts
    <2>1. entry.data \in Seq(Nat)
      BY <1>6, IntegerTypes
    <2>2. PoolEntry(entry) = U8(7) \o entry.data
      BY <1>6 DEF PoolEntry
    <2>3. entry.type \in {"BigInt", "Str", "SStr"}
      BY <1>6
    <2>4. QED
      BY <1>1, <1>2, <2>1, <2>2, <2>3, Zenon DEF IsEntry, IsSequence
  <1>7. CASE entry.type \in {"Str", "SStr"} /\ entry.data \in Seq(Nat)
    <2>1. Len(entry.data) \in Int
      BY <1>7
    <2>2. U16(Len(entry.data)) \in Seq(Nat)
      BY <2>1, NumberBytes
    <2>3. PICK t \in {0, 2} : PoolEntry(entry) = U8(t) \o U16(Len(entry.data)) \o entry.data \o U8(0)
      <3>1. CASE entry.type = "Str"
        BY <3>1 DEF PoolEntry
      <3>2. CASE entry.type = "SStr"
        BY <3>2 DEF PoolEntry
      <3>3. QED
        BY <1>7, <3>1, <3>2
    <2>4. U8(t) \in Seq(Nat)
      BY <1>2, <2>3
    <2>5. entry.type \in {"BigInt", "Str", "SStr"}
      BY <1>7
    <2>6. U8(t) \o U16(Len(entry.data)) \in Seq(Nat)
      BY <1>1, <2>2, <2>4, Zenon
    <2>7. U8(t) \o U16(Len(entry.data)) \o entry.data \in Seq(Nat)
      BY <1>1, <1>7, <2>6, Zenon
    <2>8. PoolEntry(entry) \in Seq(Nat)
      BY <1>1, <1>2, <2>3, <2>7, Zenon
    <2>9. IsEntry(entry)
      BY <1>7, <2>5, Zenon DEF IsEntry, IsSequence
    <2>10. QED
      BY <2>8, <2>9
  <1>8. \/ entry.type = "Int32" /\ entry.data \in [1 .. 1 -> Int32s]
        \/ entry.type = "Int64" /\ entry.data \in [1 .. 1 -> Int64s]
        \/ entry.type = "Float" /\ entry.data \in [1 .. 8 -> Nat]
        \/ entry.type = "BigInt" /\ entry.data \in BigInts
        \/ entry.type \in {"Str", "SStr"} /\ entry.data \in Seq(Nat)
    BY PoolShape
  <1>9. QED
    BY <1>3, <1>4, <1>5, <1>6, <1>7, <1>8

LEMMA SymBytes ==
  ASSUME NEW name \in Optional(Seq(Nat))
  PROVE  Sym(name) \in Seq(Nat) /\ IsSym(name)
  <1>1. NullMark \in Int
    BY BaseType DEF NullMark
  <1>2. CASE name = <<>>
    BY <1>1, <1>2, NumberBytes DEF Sym, IsSym
  <1>3. CASE name # <<>>
    <2>1. name[1] \in Seq(Nat)
      BY <1>3 DEF Optional
    <2>2. Len(name[1]) \in Int
      BY <2>1
    <2>3. U16(Len(name[1])) \in Seq(Nat)
      BY <2>2, NumberBytes, Zenon
    <2>4. U8(0) \in Seq(Nat)
      BY NumberBytes
    <2>5. Sym(name) = U16(Len(name[1])) \o name[1] \o U8(0)
      BY <1>3, Zenon DEF Sym
    <2>6. U16(Len(name[1])) \o name[1] \in Seq(Nat)
      BY <2>1, <2>3, ConcatProperties, Zenon
    <2>7. Sym(name) \in Seq(Nat)
      BY <2>4, <2>5, <2>6, ConcatProperties, Zenon
    <2>8. QED
      BY <2>1, <2>7, Zenon DEF IsSym, IsSequence
  <1>4. QED
    BY <1>2, <1>3

LEMMA HandlerBytes ==
  ASSUME NEW h \in Handlers
  PROVE  Handler(h) \in Seq(Nat)
  <1>1. Base \in Nat /\ Word \in Nat
    BY BaseType DEF Word
  <1>2. h.kind \in Int /\ h.begin \in Int /\ h.end \in Int /\ h.target \in Int
    BY <1>1 DEF Handlers
  <1>3. U8(h.kind) \in Seq(Nat) /\ U32(h.begin) \in Seq(Nat) /\ U32(h.end) \in Seq(Nat)
        /\ U32(h.target) \in Seq(Nat)
    BY <1>2, NumberBytes, Zenon
  <1>4. QED
    BY <1>3, ConcatProperties, Zenon DEF Handler

\* The lists of an irep, as bytes.
LEMMA ListBytes ==
  ASSUME NEW irep \in Trees
  PROVE  /\ IsIrep(irep) /\ irep.iseq \in Seq(Nat)
         /\ Joined(Handler, irep.handlers) \in Seq(Nat)
         /\ Joined(PoolEntry, irep.pool) \in Seq(Nat) /\ Joined(Sym, irep.syms) \in Seq(Nat)
  <1>1. /\ irep.iseq \in Seq(Nat) /\ irep.handlers \in Seq(Handlers) /\ irep.pool \in Seq(PoolValues)
        /\ irep.syms \in Seq(Optional(Seq(Nat)))
    BY TreeParts, SMT DEF IrepsOf
  <1>2. IsSequence(irep.iseq) /\ IsSequence(irep.handlers) /\ IsSequence(irep.pool) /\ IsSequence(irep.syms)
    BY <1>1, Zenon DEF IsSequence
  <1>3. /\ \A i \in DOMAIN irep.handlers : irep.handlers[i] \in Handlers
        /\ \A i \in DOMAIN irep.pool : irep.pool[i] \in PoolValues
        /\ \A i \in DOMAIN irep.syms : irep.syms[i] \in Optional(Seq(Nat))
    BY <1>1
  <1>4. IsIrep(irep)
    BY <1>2, <1>3, EntryBytes, SymBytes, Zenon DEF IsIrep
  <1>5. Joined(Handler, irep.handlers) \in Seq(Nat)
    <2> DEFINE parts == Each(Handler, irep.handlers)
    <2>1. parts = [i \in DOMAIN irep.handlers |-> Handler(irep.handlers[i])]
      BY Zenon DEF Each
    <2> HIDE DEF parts
    <2>2. parts = [i \in DOMAIN irep.handlers |-> parts[i]]
      BY <2>1, Zenon
    <2>3. \A i \in DOMAIN irep.handlers : parts[i] \in Seq(Nat)
      BY <1>3, <2>1, HandlerBytes, Zenon
    <2>4. FlattenSeq(parts) \in Seq(Nat)
      BY <1>2, <2>2, <2>3, JoinedBytes, Zenon
    <2>5. QED
      BY <2>4, Zenon DEF Joined, parts
  <1>6. Joined(PoolEntry, irep.pool) \in Seq(Nat)
    <2> DEFINE parts == Each(PoolEntry, irep.pool)
    <2>1. parts = [i \in DOMAIN irep.pool |-> PoolEntry(irep.pool[i])]
      BY Zenon DEF Each
    <2> HIDE DEF parts
    <2>2. parts = [i \in DOMAIN irep.pool |-> parts[i]]
      BY <2>1, Zenon
    <2>3. \A i \in DOMAIN irep.pool : parts[i] \in Seq(Nat)
      BY <1>3, <2>1, EntryBytes, Zenon
    <2>4. FlattenSeq(parts) \in Seq(Nat)
      BY <1>2, <2>2, <2>3, JoinedBytes, Zenon
    <2>5. QED
      BY <2>4, Zenon DEF Joined, parts
  <1>7. Joined(Sym, irep.syms) \in Seq(Nat)
    <2> DEFINE parts == Each(Sym, irep.syms)
    <2>1. parts = [i \in DOMAIN irep.syms |-> Sym(irep.syms[i])]
      BY Zenon DEF Each
    <2> HIDE DEF parts
    <2>2. parts = [i \in DOMAIN irep.syms |-> parts[i]]
      BY <2>1, Zenon
    <2>3. \A i \in DOMAIN irep.syms : parts[i] \in Seq(Nat)
      BY <1>3, <2>1, SymBytes, Zenon
    <2>4. FlattenSeq(parts) \in Seq(Nat)
      BY <1>2, <2>2, <2>3, JoinedBytes, Zenon
    <2>5. QED
      BY <2>4, Zenon DEF Joined, parts
  <1>8. QED
    BY <1>1, <1>4, <1>5, <1>6, <1>7

\* The record without its size, and with it.
OwnBody(irep) ==
  U16(irep.nlocals) \o U16(irep.nregs) \o U16(Len(irep.reps)) \o U16(Len(irep.handlers))
    \o U32(Len(irep.iseq)) \o irep.iseq \o Joined(Handler, irep.handlers)
    \o U16(Len(irep.pool)) \o Joined(PoolEntry, irep.pool)
    \o U16(Len(irep.syms)) \o Joined(Sym, irep.syms)

LEMMA OwnBytes ==
  ASSUME NEW irep \in Trees
  PROVE  /\ OwnBody(irep) \in Seq(Nat) /\ Own(irep) \in Seq(Nat)
         /\ Own(irep) = U32(OwnSize(irep)) \o OwnBody(irep)
         /\ OwnSize(irep) \in Nat /\ Len(Own(irep)) = OwnSize(irep)
         /\ Len(OwnBody(irep)) = OwnSize(irep) - 4
  <1>1. /\ irep.nlocals \in Nat /\ irep.nregs \in Nat /\ irep.reps \in Seq(Trees)
        /\ irep.iseq \in Seq(Nat) /\ irep.handlers \in Seq(Handlers) /\ irep.pool \in Seq(PoolValues)
        /\ irep.syms \in Seq(Optional(Seq(Nat)))
    BY TreeParts, SMT DEF IrepsOf
  <1>2. /\ IsIrep(irep) /\ Joined(Handler, irep.handlers) \in Seq(Nat)
        /\ Joined(PoolEntry, irep.pool) \in Seq(Nat) /\ Joined(Sym, irep.syms) \in Seq(Nat)
    BY ListBytes
  <1>3. /\ irep.nlocals \in Int /\ irep.nregs \in Int /\ Len(irep.reps) \in Int
        /\ Len(irep.iseq) \in Int /\ Len(irep.handlers) \in Int /\ Len(irep.pool) \in Int
        /\ Len(irep.syms) \in Int
    BY <1>1
  <1> DEFINE p1  == U16(irep.nlocals)
             p2  == U16(irep.nregs)
             p3  == U16(Len(irep.reps))
             p4  == U16(Len(irep.handlers))
             p5  == U32(Len(irep.iseq))
             p7  == Joined(Handler, irep.handlers)
             p8  == U16(Len(irep.pool))
             p9  == Joined(PoolEntry, irep.pool)
             p10 == U16(Len(irep.syms))
             p11 == Joined(Sym, irep.syms)
             size == U32(OwnSize(irep))
  <1>4. /\ p1 \in Seq(Nat) /\ p2 \in Seq(Nat) /\ p3 \in Seq(Nat) /\ p4 \in Seq(Nat) /\ p5 \in Seq(Nat)
        /\ p8 \in Seq(Nat) /\ p10 \in Seq(Nat)
    BY <1>3, NumberBytes, Zenon
  <1>5. OwnBody(irep) = p1 \o p2 \o p3 \o p4 \o p5 \o irep.iseq \o p7 \o p8 \o p9 \o p10 \o p11
    BY Zenon DEF OwnBody
  <1>6. Own(irep) = size \o p1 \o p2 \o p3 \o p4 \o p5 \o irep.iseq \o p7 \o p8 \o p9 \o p10 \o p11
    BY Zenon DEF Own
  <1>7. Len(Own(irep)) = OwnSize(irep)
    BY <1>2, RecordsFit
  <1>8. IsSequence(Own(irep)) /\ Len(size) = 4 /\ IsSequence(size)
    <2>1. IsSequence(size) /\ Len(size) = 4
      BY SmallNumbers, Zenon DEF Fits
    <2>2. /\ IsSequence(p1) /\ IsSequence(p2) /\ IsSequence(p3) /\ IsSequence(p4) /\ IsSequence(p5)
          /\ IsSequence(irep.iseq) /\ IsSequence(p7) /\ IsSequence(p8) /\ IsSequence(p9)
          /\ IsSequence(p10) /\ IsSequence(p11)
      BY <1>1, <1>2, <1>4, Zenon DEF IsSequence
    <2> HIDE DEF p1, p2, p3, p4, p5, p7, p8, p9, p10, p11, size
    <2>3. IsSequence(size \o p1 \o p2 \o p3)
      BY <2>1, <2>2, JoinsTwo, Zenon
    <2>4. IsSequence(size \o p1 \o p2 \o p3 \o p4 \o p5 \o irep.iseq)
      BY <2>2, <2>3, JoinsTwo, Zenon
    <2>5. IsSequence(size \o p1 \o p2 \o p3 \o p4 \o p5 \o irep.iseq \o p7 \o p8 \o p9)
      BY <2>2, <2>4, JoinsTwo, Zenon
    <2>6. QED
      BY <1>6, <2>1, <2>2, <2>5, JoinsTwo, Zenon
  <1>9. OwnSize(irep) \in Nat
    BY <1>7, <1>8, LengthType, Zenon
  <1>10. size \in Seq(Nat)
    <2>1. OwnSize(irep) \in Int
      BY <1>9
    <2>2. QED
      BY <2>1, NumberBytes, Zenon
  <1> HIDE DEF p1, p2, p3, p4, p5, p7, p8, p9, p10, p11, size
  <1> DEFINE q2  == p1 \o p2
             q3  == q2 \o p3
             q4  == q3 \o p4
             q5  == q4 \o p5
             q6  == q5 \o irep.iseq
             q7  == q6 \o p7
             q8  == q7 \o p8
             q9  == q8 \o p9
             q10 == q9 \o p10
  <1>11. OwnBody(irep) = q10 \o p11
    BY <1>5, Zenon
  <1>12. p7 \in Seq(Nat) /\ p9 \in Seq(Nat) /\ p11 \in Seq(Nat)
    BY <1>2, Zenon DEF p7, p9, p11
  <1>13. \A a, b \in Seq(Nat) : a \o b \in Seq(Nat) /\ size \o (a \o b) = (size \o a) \o b
    BY <1>10, ConcatProperties, JoinsThree, Zenon
  <1>14. q2 \in Seq(Nat) /\ size \o q2 = (size \o p1) \o p2
    BY <1>4, <1>13, Zenon
  <1> HIDE DEF q2
  <1>15. q3 \in Seq(Nat) /\ size \o q3 = (size \o q2) \o p3
    BY <1>4, <1>13, <1>14, Zenon
  <1> HIDE DEF q3
  <1>16. q4 \in Seq(Nat) /\ size \o q4 = (size \o q3) \o p4
    BY <1>4, <1>13, <1>15, Zenon
  <1> HIDE DEF q4
  <1>17. q5 \in Seq(Nat) /\ size \o q5 = (size \o q4) \o p5
    BY <1>4, <1>13, <1>16, Zenon
  <1> HIDE DEF q5
  <1>18. q6 \in Seq(Nat) /\ size \o q6 = (size \o q5) \o irep.iseq
    BY <1>1, <1>13, <1>17, Zenon
  <1> HIDE DEF q6
  <1>19. q7 \in Seq(Nat) /\ size \o q7 = (size \o q6) \o p7
    BY <1>12, <1>13, <1>18, Zenon
  <1> HIDE DEF q7
  <1>20. q8 \in Seq(Nat) /\ size \o q8 = (size \o q7) \o p8
    BY <1>4, <1>13, <1>19, Zenon
  <1> HIDE DEF q8
  <1>21. q9 \in Seq(Nat) /\ size \o q9 = (size \o q8) \o p9
    BY <1>12, <1>13, <1>20, Zenon
  <1> HIDE DEF q9
  <1>22. q10 \in Seq(Nat) /\ size \o q10 = (size \o q9) \o p10
    BY <1>4, <1>13, <1>21, Zenon
  <1> HIDE DEF q10
  <1>23. OwnBody(irep) \in Seq(Nat) /\ size \o OwnBody(irep) = (size \o q10) \o p11
    BY <1>11, <1>12, <1>13, <1>22, Zenon
  <1>24. Own(irep) = size \o OwnBody(irep)
    BY <1>6, <1>14, <1>15, <1>16, <1>17, <1>18, <1>19, <1>20, <1>21, <1>22, <1>23, Zenon
  <1>25. Own(irep) \in Seq(Nat) /\ Len(Own(irep)) = 4 + Len(OwnBody(irep))
    <2>1. Own(irep) \in Seq(Nat) /\ Len(Own(irep)) = Len(size) + Len(OwnBody(irep))
      BY <1>10, <1>23, <1>24, ConcatProperties, Zenon
    <2>2. QED
      BY <1>8, <2>1, Zenon
  <1>26. Len(OwnBody(irep)) = OwnSize(irep) - 4
    <2>1. Len(OwnBody(irep)) \in Nat
      BY <1>23
    <2>2. QED
      BY <1>7, <1>9, <1>25, <2>1
  <1>27. QED
    BY <1>7, <1>9, <1>23, <1>24, <1>25, <1>26, Zenon DEF size

LEMMA TotalType ==
  /\ \A vs \in Seq(Nat) : Total(vs) \in Nat
  /\ \A vs \in Seq(Int) : Total(vs) \in Int
  <1>1. ASSUME NEW vs \in Seq(Nat) PROVE Total(vs) \in Nat
    <2>1. Len(vs) \in 0 .. Len(vs)
      OBVIOUS
    <2>2. QED
      BY <2>1, SumsEquation DEF Total
  <1>2. ASSUME NEW vs \in Seq(Int) PROVE Total(vs) \in Int
    <2>1. Len(vs) \in 0 .. Len(vs)
      OBVIOUS
    <2>2. QED
      BY <2>1, SumsOfInts DEF Total
  <1>3. QED
    BY <1>1, <1>2

\* The names of the locals, and of the files, of an irep itself.
LEMMA LvOwnBytes ==
  ASSUME NEW irep \in Trees
  PROVE  LvOwn(irep) \in Seq(Nat) /\ Len(LvOwn(irep)) = 2 * Len(irep.lv)
  <1>1. irep.lv \in Seq(Nat \cup {Null})
    BY TreeParts, SMT DEF IrepsOf
  <1> DEFINE n     == Len(irep.lv)
             Slot(slot) == U16(IF slot = Null THEN NullMark ELSE slot)
             parts == Each(Slot, irep.lv)
             sizes == [i \in 1 .. n |-> 2]
  <1>2. n \in Nat /\ DOMAIN irep.lv = 1 .. n /\ IsSequence(irep.lv)
    BY <1>1 DEF IsSequence
  <1>3. \A i \in 1 .. n : irep.lv[i] \in Nat \cup {Null}
    BY <1>1
  <1> HIDE DEF n
  <1>4. parts = [i \in 1 .. n |-> Slot(irep.lv[i])]
    BY <1>2, Zenon DEF Each
  <1>5. ASSUME NEW i \in 1 .. n PROVE parts[i] \in Seq(Nat) /\ Fits(parts[i], 2)
    <2> DEFINE v == IF irep.lv[i] = Null THEN NullMark ELSE irep.lv[i]
    <2>1. v \in Int
      BY <1>3, BaseType DEF NullMark
    <2>2. parts[i] = U16(v)
      BY <1>4, Zenon
    <2> HIDE DEF v, parts
    <2>3. QED
      BY <2>1, <2>2, NumberBytes, SmallNumbers, Zenon
  <1>6. parts = [i \in 1 .. n |-> parts[i]]
    BY <1>4, Zenon
  <1>7. LvOwn(irep) = FlattenSeq(parts)
    BY Zenon DEF LvOwn, Joined
  <1> HIDE DEF parts
  <1>8. FlattenSeq(parts) \in Seq(Nat)
    BY <1>2, <1>5, <1>6, JoinedBytes, Zenon
  <1>9. sizes \in [1 .. n -> Nat] /\ (\A i \in 1 .. n : sizes[i] = 2) /\ Total(sizes) = 2 * n
    BY <1>2, TotalOfSame
  <1> HIDE DEF sizes
  <1>10. \A i \in 1 .. n : Fits(parts[i], sizes[i])
    BY <1>5, <1>9, Zenon
  <1>11. Fits(FlattenSeq(parts), Total(sizes))
    BY <1>2, <1>6, <1>9, <1>10, JoinedFits, Zenon
  <1>12. QED
    BY <1>7, <1>8, <1>9, <1>11, Zenon DEF Fits, n

LEMMA OwnFilenamesType ==
  ASSUME NEW irep \in Trees
  PROVE  OwnFilenames(irep) \in Seq(Seq(Nat))
  <1>1. irep.debug \in Optional(DebugInfo)
    BY TreeParts, SMT DEF IrepsOf
  <1>2. CASE irep.debug = <<>>
    <2>1. OwnFilenames(irep) = <<>>
      BY <1>2, Zenon DEF OwnFilenames
    <2>2. QED
      BY <2>1
  <1>3. CASE irep.debug # <<>>
    <2> DEFINE files == irep.debug[1].files
               n     == Len(files)
    <2>1. irep.debug[1] \in DebugInfo
      BY <1>1, <1>3 DEF Optional
    <2>2. files \in Seq(DebugFiles)
      BY <2>1 DEF DebugInfo
    <2>3. OwnFilenames(irep) = [i \in DOMAIN files |-> files[i].filename]
      BY <1>3, Zenon DEF OwnFilenames, Each
    <2> HIDE DEF files
    <2>4. n \in Nat /\ DOMAIN files = 1 .. n
      BY <2>2
    <2>5. ASSUME NEW i \in 1 .. n PROVE files[i].filename \in Seq(Nat)
      <3>1. files[i] \in DebugFiles
        BY <2>2
      <3>2. QED
        BY <3>1 DEF DebugFiles
    <2>6. OwnFilenames(irep) \in [1 .. n -> Seq(Nat)]
      BY <2>3, <2>4, <2>5, Zenon
    <2>7. QED
      BY <2>4, <2>6, ListIs, Zenon
  <1>4. QED
    BY <1>2, <1>3

\* The recursive functions over trees.

LEMMA RecordSizeEquation ==
  /\ RecordSize \in [Trees -> Nat]
  /\ \A irep \in Trees :
       Of(RecordSize, irep.reps) \in Seq(Nat) /\ RecordSize[irep] = OwnSize(irep) + Total(Of(RecordSize, irep.reps))
  <1> DEFINE step  == [irep \in Trees |-> [vs \in Seq(Nat) |-> OwnSize(irep) + Total(vs)]]
             Eq(f) == f = [irep \in Trees |-> OwnSize(irep) + Total(Of(f, irep.reps))]
  <1>1. step \in [Trees -> [Seq(Nat) -> Nat]]
    <2>1. ASSUME NEW irep \in Trees, NEW vs \in Seq(Nat) PROVE OwnSize(irep) + Total(vs) \in Nat
      <3>1. OwnSize(irep) \in Nat /\ Total(vs) \in Nat
        BY OwnBytes, TotalType, Zenon
      <3>2. QED
        BY <3>1
    <2>2. QED
      BY <2>1, Zenon
  <1>2. ASSUME NEW irep \in Trees, NEW vs \in Seq(Nat) PROVE step[irep][vs] = OwnSize(irep) + Total(vs)
    BY Zenon
  <1> HIDE DEF step
  <1>3. \E f : Eq(f)
    <2>1. PICK f : DefinedBy(f, Nat, step)
      BY <1>1, TreeFunction, Zenon
    <2>2. \A irep \in Trees : f[irep] = OwnSize(irep) + Total(Of(f, irep.reps))
      BY <1>2, <2>1, Zenon DEF DefinedBy
    <2>3. f = [irep \in Trees |-> f[irep]]
      BY <2>1, Zenon DEF DefinedBy
    <2>4. Eq(f)
      BY <2>2, <2>3, Zenon
    <2>5. QED
      BY <2>4, Zenon
  <1> DEFINE g == CHOOSE f : Eq(f)
  <1>4. Eq(g)
    BY <1>3, Zenon
  <1>5. RecordSize = g
    BY Zenon DEF RecordSize
  <1> HIDE DEF g
  <1>6. g = [irep \in Trees |-> g[irep]] /\ \A irep \in Trees : g[irep] = OwnSize(irep) + Total(Of(g, irep.reps))
    BY <1>4, Zenon
  <1>7. \A irep \in Trees : Of(g, irep.reps) \in Seq(Nat) => g[irep] = step[irep][Of(g, irep.reps)]
    BY <1>2, <1>6, Zenon
  <1>8. g \in [Trees -> Nat] /\ \A irep \in Trees : Of(g, irep.reps) \in Seq(Nat)
    BY <1>1, <1>6, <1>7, TreeType, Zenon
  <1>9. QED
    BY <1>5, <1>6, <1>8, Zenon

LEMMA LvSizeEquation ==
  /\ LvSize \in [Trees -> Int]
  /\ \A irep \in Trees :
       Of(LvSize, irep.reps) \in Seq(Int) /\ LvSize[irep] = LvOwnSize(irep) + Total(Of(LvSize, irep.reps))
  <1> DEFINE step  == [irep \in Trees |-> [vs \in Seq(Int) |-> LvOwnSize(irep) + Total(vs)]]
             Eq(f) == f = [irep \in Trees |-> LvOwnSize(irep) + Total(Of(f, irep.reps))]
  <1>1. step \in [Trees -> [Seq(Int) -> Int]]
    <2>1. ASSUME NEW irep \in Trees, NEW vs \in Seq(Int) PROVE LvOwnSize(irep) + Total(vs) \in Int
      <3>1. irep.nlocals \in Nat
        BY TreeParts, SMT DEF IrepsOf
      <3>2. LvOwnSize(irep) \in Int /\ Total(vs) \in Int
        BY <3>1, TotalType DEF LvOwnSize
      <3>3. QED
        BY <3>2
    <2>2. QED
      BY <2>1, Zenon
  <1>2. ASSUME NEW irep \in Trees, NEW vs \in Seq(Int) PROVE step[irep][vs] = LvOwnSize(irep) + Total(vs)
    BY Zenon
  <1> HIDE DEF step
  <1>3. \E f : Eq(f)
    <2>1. PICK f : DefinedBy(f, Int, step)
      BY <1>1, TreeFunction, Zenon
    <2>2. \A irep \in Trees : f[irep] = LvOwnSize(irep) + Total(Of(f, irep.reps))
      BY <1>2, <2>1, Zenon DEF DefinedBy
    <2>3. f = [irep \in Trees |-> f[irep]]
      BY <2>1, Zenon DEF DefinedBy
    <2>4. Eq(f)
      BY <2>2, <2>3, Zenon
    <2>5. QED
      BY <2>4, Zenon
  <1> DEFINE g == CHOOSE f : Eq(f)
  <1>4. Eq(g)
    BY <1>3, Zenon
  <1>5. LvSize = g
    BY Zenon DEF LvSize
  <1> HIDE DEF g
  <1>6. g = [irep \in Trees |-> g[irep]] /\ \A irep \in Trees : g[irep] = LvOwnSize(irep) + Total(Of(g, irep.reps))
    BY <1>4, Zenon
  <1>7. \A irep \in Trees : Of(g, irep.reps) \in Seq(Int) => g[irep] = step[irep][Of(g, irep.reps)]
    BY <1>2, <1>6, Zenon
  <1>8. g \in [Trees -> Int] /\ \A irep \in Trees : Of(g, irep.reps) \in Seq(Int)
    BY <1>1, <1>6, <1>7, TreeType, Zenon
  <1>9. QED
    BY <1>5, <1>6, <1>8, Zenon

LEMMA RecordEquation ==
  /\ Record \in [Trees -> Seq(Nat)]
  /\ \A irep \in Trees :
       Of(Record, irep.reps) \in Seq(Seq(Nat)) /\ Record[irep] = Own(irep) \o FlattenSeq(Of(Record, irep.reps))
  <1> DEFINE step  == [irep \in Trees |-> [vs \in Seq(Seq(Nat)) |-> Own(irep) \o FlattenSeq(vs)]]
             Eq(f) == f = [irep \in Trees |-> Own(irep) \o FlattenSeq(Of(f, irep.reps))]
  <1>1. step \in [Trees -> [Seq(Seq(Nat)) -> Seq(Nat)]]
    <2>1. ASSUME NEW irep \in Trees, NEW vs \in Seq(Seq(Nat)) PROVE Own(irep) \o FlattenSeq(vs) \in Seq(Nat)
      <3>1. Own(irep) \in Seq(Nat) /\ FlattenSeq(vs) \in Seq(Nat)
        BY OwnBytes, FlattenLength, Zenon
      <3>2. QED
        BY <3>1, ConcatProperties, Zenon
    <2>2. QED
      BY <2>1, Zenon
  <1>2. ASSUME NEW irep \in Trees, NEW vs \in Seq(Seq(Nat)) PROVE step[irep][vs] = Own(irep) \o FlattenSeq(vs)
    BY Zenon
  <1> HIDE DEF step
  <1>3. \E f : Eq(f)
    <2>1. PICK f : DefinedBy(f, Seq(Nat), step)
      BY <1>1, TreeFunction, Zenon
    <2>2. \A irep \in Trees : f[irep] = Own(irep) \o FlattenSeq(Of(f, irep.reps))
      BY <1>2, <2>1, Zenon DEF DefinedBy
    <2>3. f = [irep \in Trees |-> f[irep]]
      BY <2>1, Zenon DEF DefinedBy
    <2>4. Eq(f)
      BY <2>2, <2>3, Zenon
    <2>5. QED
      BY <2>4, Zenon
  <1> DEFINE g == CHOOSE f : Eq(f)
  <1>4. Eq(g)
    BY <1>3, Zenon
  <1>5. Record = g
    BY Zenon DEF Record
  <1> HIDE DEF g
  <1>6. g = [irep \in Trees |-> g[irep]] /\ \A irep \in Trees : g[irep] = Own(irep) \o FlattenSeq(Of(g, irep.reps))
    BY <1>4, Zenon
  <1>7. \A irep \in Trees : Of(g, irep.reps) \in Seq(Seq(Nat)) => g[irep] = step[irep][Of(g, irep.reps)]
    BY <1>2, <1>6, Zenon
  <1>8. g \in [Trees -> Seq(Nat)] /\ \A irep \in Trees : Of(g, irep.reps) \in Seq(Seq(Nat))
    BY <1>1, <1>6, <1>7, TreeType, Zenon
  <1>9. QED
    BY <1>5, <1>6, <1>8, Zenon

LEMMA LvRecordsEquation ==
  /\ LvRecords \in [Trees -> Seq(Nat)]
  /\ \A irep \in Trees :
       Of(LvRecords, irep.reps) \in Seq(Seq(Nat)) /\ LvRecords[irep] = LvOwn(irep) \o FlattenSeq(Of(LvRecords, irep.reps))
  <1> DEFINE step  == [irep \in Trees |-> [vs \in Seq(Seq(Nat)) |-> LvOwn(irep) \o FlattenSeq(vs)]]
             Eq(f) == f = [irep \in Trees |-> LvOwn(irep) \o FlattenSeq(Of(f, irep.reps))]
  <1>1. step \in [Trees -> [Seq(Seq(Nat)) -> Seq(Nat)]]
    <2>1. ASSUME NEW irep \in Trees, NEW vs \in Seq(Seq(Nat)) PROVE LvOwn(irep) \o FlattenSeq(vs) \in Seq(Nat)
      <3>1. LvOwn(irep) \in Seq(Nat) /\ FlattenSeq(vs) \in Seq(Nat)
        BY LvOwnBytes, FlattenLength, Zenon
      <3>2. QED
        BY <3>1, ConcatProperties, Zenon
    <2>2. QED
      BY <2>1, Zenon
  <1>2. ASSUME NEW irep \in Trees, NEW vs \in Seq(Seq(Nat)) PROVE step[irep][vs] = LvOwn(irep) \o FlattenSeq(vs)
    BY Zenon
  <1> HIDE DEF step
  <1>3. \E f : Eq(f)
    <2>1. PICK f : DefinedBy(f, Seq(Nat), step)
      BY <1>1, TreeFunction, Zenon
    <2>2. \A irep \in Trees : f[irep] = LvOwn(irep) \o FlattenSeq(Of(f, irep.reps))
      BY <1>2, <2>1, Zenon DEF DefinedBy
    <2>3. f = [irep \in Trees |-> f[irep]]
      BY <2>1, Zenon DEF DefinedBy
    <2>4. Eq(f)
      BY <2>2, <2>3, Zenon
    <2>5. QED
      BY <2>4, Zenon
  <1> DEFINE g == CHOOSE f : Eq(f)
  <1>4. Eq(g)
    BY <1>3, Zenon
  <1>5. LvRecords = g
    BY Zenon DEF LvRecords
  <1> HIDE DEF g
  <1>6. g = [irep \in Trees |-> g[irep]] /\ \A irep \in Trees : g[irep] = LvOwn(irep) \o FlattenSeq(Of(g, irep.reps))
    BY <1>4, Zenon
  <1>7. \A irep \in Trees : Of(g, irep.reps) \in Seq(Seq(Nat)) => g[irep] = step[irep][Of(g, irep.reps)]
    BY <1>2, <1>6, Zenon
  <1>8. g \in [Trees -> Seq(Nat)] /\ \A irep \in Trees : Of(g, irep.reps) \in Seq(Seq(Nat))
    BY <1>1, <1>6, <1>7, TreeType, Zenon
  <1>9. QED
    BY <1>5, <1>6, <1>8, Zenon

LEMMA FilenamesEquation ==
  /\ Filenames \in [Trees -> Seq(Seq(Nat))]
  /\ \A irep \in Trees :
       Of(Filenames, irep.reps) \in Seq(Seq(Seq(Nat))) /\ Filenames[irep] = OwnFilenames(irep) \o FlattenSeq(Of(Filenames, irep.reps))
  <1> DEFINE step  == [irep \in Trees |-> [vs \in Seq(Seq(Seq(Nat))) |-> OwnFilenames(irep) \o FlattenSeq(vs)]]
             Eq(f) == f = [irep \in Trees |-> OwnFilenames(irep) \o FlattenSeq(Of(f, irep.reps))]
  <1>1. step \in [Trees -> [Seq(Seq(Seq(Nat))) -> Seq(Seq(Nat))]]
    <2>1. ASSUME NEW irep \in Trees, NEW vs \in Seq(Seq(Seq(Nat))) PROVE OwnFilenames(irep) \o FlattenSeq(vs) \in Seq(Seq(Nat))
      <3>1. OwnFilenames(irep) \in Seq(Seq(Nat)) /\ FlattenSeq(vs) \in Seq(Seq(Nat))
        BY OwnFilenamesType, FlattenLength, Zenon
      <3>2. QED
        BY <3>1, ConcatProperties, Zenon
    <2>2. QED
      BY <2>1, Zenon
  <1>2. ASSUME NEW irep \in Trees, NEW vs \in Seq(Seq(Seq(Nat))) PROVE step[irep][vs] = OwnFilenames(irep) \o FlattenSeq(vs)
    BY Zenon
  <1> HIDE DEF step
  <1>3. \E f : Eq(f)
    <2>1. PICK f : DefinedBy(f, Seq(Seq(Nat)), step)
      BY <1>1, TreeFunction, Zenon
    <2>2. \A irep \in Trees : f[irep] = OwnFilenames(irep) \o FlattenSeq(Of(f, irep.reps))
      BY <1>2, <2>1, Zenon DEF DefinedBy
    <2>3. f = [irep \in Trees |-> f[irep]]
      BY <2>1, Zenon DEF DefinedBy
    <2>4. Eq(f)
      BY <2>2, <2>3, Zenon
    <2>5. QED
      BY <2>4, Zenon
  <1> DEFINE g == CHOOSE f : Eq(f)
  <1>4. Eq(g)
    BY <1>3, Zenon
  <1>5. Filenames = g
    BY Zenon DEF Filenames
  <1> HIDE DEF g
  <1>6. g = [irep \in Trees |-> g[irep]] /\ \A irep \in Trees : g[irep] = OwnFilenames(irep) \o FlattenSeq(Of(g, irep.reps))
    BY <1>4, Zenon
  <1>7. \A irep \in Trees : Of(g, irep.reps) \in Seq(Seq(Seq(Nat))) => g[irep] = step[irep][Of(g, irep.reps)]
    BY <1>2, <1>6, Zenon
  <1>8. g \in [Trees -> Seq(Seq(Nat))] /\ \A irep \in Trees : Of(g, irep.reps) \in Seq(Seq(Seq(Nat)))
    BY <1>1, <1>6, <1>7, TreeType, Zenon
  <1>9. QED
    BY <1>5, <1>6, <1>8, Zenon

IrepFields ==
  {"nlocals", "nregs", "iseq", "handlers", "pool", "syms", "reps", "lv", "debug"}

HasFields(irep, a, b, c, d, e, f, g, h, i) ==
  /\ irep = [x \in IrepFields |-> irep[x]]
  /\ irep.nlocals = a /\ irep.nregs = b /\ irep.iseq = c /\ irep.handlers = d /\ irep.pool = e
  /\ irep.syms = f /\ irep.reps = g /\ irep.lv = h /\ irep.debug = i

LEMMA IrepIs ==
  ASSUME NEW a, NEW b, NEW c, NEW d, NEW e, NEW f, NEW g, NEW h, NEW i
  PROVE  HasFields(Irep(a, b, c, d, e, f, g, h, i), a, b, c, d, e, f, g, h, i)
  BY DEF Irep, IrepFields, HasFields

LEMMA EqualIreps ==
  ASSUME NEW a, NEW b, NEW c, NEW d, NEW e, NEW f, NEW g, NEW h, NEW i, NEW p,
         HasFields(p, a, b, c, d, e, f, g, h, i)
  PROVE  p = Irep(a, b, c, d, e, f, g, h, i)
  <1> DEFINE q == Irep(a, b, c, d, e, f, g, h, i)
  <1>1. HasFields(q, a, b, c, d, e, f, g, h, i)
    BY IrepIs
  <1> HIDE DEF q
  <1>2. \A x \in IrepFields : p[x] = q[x]
    BY <1>1 DEF IrepFields, HasFields
  <1>3. p = [x \in IrepFields |-> p[x]] /\ q = [x \in IrepFields |-> q[x]]
    BY <1>1, Zenon DEF HasFields
  <1>4. p = q
    BY <1>2, <1>3, Zenon
  <1>5. QED
    BY <1>4, Zenon DEF q

\* Ireps with some fields changed.
Cleared(irep, reps)    == [irep EXCEPT !.debug = <<>>, !.reps = reps]
Nesting(irep, reps)    == [irep EXCEPT !.reps = reps]
Naming(irep, lv, reps) == [irep EXCEPT !.lv = lv, !.reps = reps]

LEMMA IrepExcept ==
  ASSUME NEW a, NEW b, NEW c, NEW d, NEW e, NEW f, NEW g, NEW h, NEW i, NEW v, NEW w,
         NEW irep, irep = Irep(a, b, c, d, e, f, g, h, i)
  PROVE  /\ Cleared(irep, w) = Irep(a, b, c, d, e, f, w, h, <<>>)
         /\ Nesting(irep, w) = Irep(a, b, c, d, e, f, w, h, i)
         /\ Naming(irep, v, w) = Irep(a, b, c, d, e, f, w, v, i)
  <1> DEFINE q1 == [irep EXCEPT !.debug = <<>>, !.reps = w]
             q2 == [irep EXCEPT !.reps = w]
             q3 == [irep EXCEPT !.lv = v, !.reps = w]
  <1>1. HasFields(irep, a, b, c, d, e, f, g, h, i)
    BY IrepIs, Zenon
  <1>2. DOMAIN irep = IrepFields
    BY <1>1, Zenon DEF HasFields
  <1>3. /\ q1 = [x \in IrepFields |-> q1[x]] /\ q2 = [x \in IrepFields |-> q2[x]]
        /\ q3 = [x \in IrepFields |-> q3[x]]
    BY <1>2, Zenon
  <1>4. HasFields(q1, a, b, c, d, e, f, w, h, <<>>)
    <2>1. /\ q1.nlocals = a /\ q1.nregs = b /\ q1.iseq = c /\ q1.handlers = d /\ q1.pool = e
          /\ q1.syms = f /\ q1.reps = w /\ q1.lv = h /\ q1.debug = <<>>
      BY <1>1, <1>2 DEF HasFields, IrepFields
    <2> HIDE DEF q1
    <2>2. QED
      BY <1>3, <2>1, Zenon DEF HasFields
  <1>5. HasFields(q2, a, b, c, d, e, f, w, h, i)
    <2>1. /\ q2.nlocals = a /\ q2.nregs = b /\ q2.iseq = c /\ q2.handlers = d /\ q2.pool = e
          /\ q2.syms = f /\ q2.reps = w /\ q2.lv = h /\ q2.debug = i
      BY <1>1, <1>2 DEF HasFields, IrepFields
    <2> HIDE DEF q2
    <2>2. QED
      BY <1>3, <2>1, Zenon DEF HasFields
  <1>6. HasFields(q3, a, b, c, d, e, f, w, v, i)
    <2>1. /\ q3.nlocals = a /\ q3.nregs = b /\ q3.iseq = c /\ q3.handlers = d /\ q3.pool = e
          /\ q3.syms = f /\ q3.reps = w /\ q3.lv = v /\ q3.debug = i
      BY <1>1, <1>2 DEF HasFields, IrepFields
    <2> HIDE DEF q3
    <2>2. QED
      BY <1>3, <2>1, Zenon DEF HasFields
  <1> HIDE DEF q1, q2, q3
  <1>7. /\ q1 = Irep(a, b, c, d, e, f, w, h, <<>>) /\ q2 = Irep(a, b, c, d, e, f, w, h, i)
        /\ q3 = Irep(a, b, c, d, e, f, w, v, i)
    BY <1>4, <1>5, <1>6, EqualIreps
  <1>8. QED
    BY <1>7, Zenon DEF Cleared, Nesting, Naming, q1, q2, q3

LEMMA IrepShape ==
  ASSUME NEW T, NEW irep \in IrepsOf(T)
  PROVE  /\ irep = Irep(irep.nlocals, irep.nregs, irep.iseq, irep.handlers, irep.pool, irep.syms,
                        irep.reps, irep.lv, irep.debug)
         /\ irep.nlocals \in Nat /\ irep.nregs \in Nat /\ irep.iseq \in Seq(Nat)
         /\ irep.handlers \in Seq(Handlers) /\ irep.pool \in Seq(PoolValues)
         /\ irep.syms \in Seq(Optional(Seq(Nat))) /\ irep.reps \in Seq(T)
         /\ irep.lv \in Seq(Nat \cup {Null}) /\ irep.debug \in Optional(DebugInfo)
  BY SMT DEF IrepsOf, Irep

LEMMA MakesIrep ==
  ASSUME NEW T, NEW a \in Nat, NEW b \in Nat, NEW c \in Seq(Nat), NEW d \in Seq(Handlers),
         NEW e \in Seq(PoolValues), NEW f \in Seq(Optional(Seq(Nat))), NEW g \in Seq(T),
         NEW h \in Seq(Nat \cup {Null}), NEW i \in Optional(DebugInfo)
  PROVE  Irep(a, b, c, d, e, f, g, h, i) \in IrepsOf(T)
  BY SMT DEF IrepsOf, Irep

LEMMA ClearedIrep ==
  ASSUME NEW T, NEW irep \in IrepsOf(T), NEW U, NEW reps \in Seq(U)
  PROVE  /\ [irep EXCEPT !.debug = <<>>, !.reps = reps]
              = Irep(irep.nlocals, irep.nregs, irep.iseq, irep.handlers, irep.pool, irep.syms,
                     reps, irep.lv, <<>>)
         /\ [irep EXCEPT !.debug = <<>>, !.reps = reps] \in IrepsOf(U)
  <1>1. /\ irep = Irep(irep.nlocals, irep.nregs, irep.iseq, irep.handlers, irep.pool, irep.syms,
                       irep.reps, irep.lv, irep.debug)
        /\ irep.nlocals \in Nat /\ irep.nregs \in Nat /\ irep.iseq \in Seq(Nat)
        /\ irep.handlers \in Seq(Handlers) /\ irep.pool \in Seq(PoolValues)
        /\ irep.syms \in Seq(Optional(Seq(Nat))) /\ irep.lv \in Seq(Nat \cup {Null})
    BY IrepShape, Zenon
  <1>2. <<>> \in Optional(DebugInfo)
    BY DEF Optional
  <1> DEFINE a == irep.nlocals
             b == irep.nregs
             c == irep.iseq
             d == irep.handlers
             e == irep.pool
             f == irep.syms
             g == irep.reps
             h == irep.lv
             i == irep.debug
  <1> HIDE DEF a, b, c, d, e, f, g, h, i
  <1>3. irep = Irep(a, b, c, d, e, f, g, h, i)
    BY <1>1, Zenon DEF a, b, c, d, e, f, g, h, i
  <1>4. Cleared(irep, reps) = Irep(a, b, c, d, e, f, reps, h, <<>>)
    BY <1>3, IrepExcept
  <1>5. /\ a \in Nat /\ b \in Nat /\ c \in Seq(Nat) /\ d \in Seq(Handlers) /\ e \in Seq(PoolValues)
        /\ f \in Seq(Optional(Seq(Nat))) /\ h \in Seq(Nat \cup {Null})
    BY <1>1, Zenon DEF a, b, c, d, e, f, h
  <1>6. Irep(a, b, c, d, e, f, reps, h, <<>>) \in IrepsOf(U)
    BY <1>2, <1>5, MakesIrep
  <1>7. QED
    BY <1>4, <1>6, Zenon DEF a, b, c, d, e, f, h, Cleared

LEMMA OfType ==
  ASSUME NEW V, NEW s, IsSequence(s), NEW f, \A i \in DOMAIN s : f[s[i]] \in V
  PROVE  Of(f, s) \in Seq(V) /\ Len(Of(f, s)) = Len(s) /\ DOMAIN Of(f, s) = DOMAIN s
  <1> DEFINE n == Len(s)
  <1>1. n \in Nat /\ DOMAIN s = 1 .. n
    BY LengthType
  <1> HIDE DEF n
  <1>2. Of(f, s) = [i \in 1 .. n |-> f[s[i]]]
    BY <1>1, Zenon DEF Of
  <1>3. Of(f, s) \in [1 .. n -> V]
    BY <1>1, <1>2, Zenon
  <1>4. Of(f, s) \in Seq(V) /\ Len(Of(f, s)) = n
    BY <1>1, <1>3, ListIs, Zenon
  <1>5. QED
    BY <1>1, <1>2, <1>4, Zenon DEF n

LEMMA ClearDebugEquation ==
  /\ \A d \in 0 .. Depth : \A irep \in Tree[d] : ClearDebug[irep] \in Tree[d]
  /\ \A irep \in Trees :
       ClearDebug[irep] = [irep EXCEPT !.debug = <<>>, !.reps = Of(ClearDebug, @)]
  <1> DEFINE Is(f, T) == f = [irep \in T |-> [irep EXCEPT !.debug = <<>>, !.reps = Of(f, @)]]
             S == {d \in Nat : d <= Depth => \E f : Is(f, Tree[d])}
  <1>1. 0 \in S
    <2> DEFINE f == [irep \in {} |-> irep]
    <2>1. Is(f, {})
      OBVIOUS
    <2> HIDE DEF Is
    <2>2. QED
      BY <2>1, TreeEquation
  <1>2. ASSUME NEW d \in Nat, d \in S PROVE d + 1 \in S
    <2> DEFINE e == d + 1
    <2> HIDE DEF Is
    <2> SUFFICES ASSUME e <= Depth PROVE \E f : Is(f, Tree[e])
      OBVIOUS
    <2> USE DEF Is
    <2>1. e \in 1 .. Depth /\ e - 1 = d /\ d <= Depth
      BY LayoutAssumption
    <2>2. PICK f : Is(f, Tree[d])
      BY <1>2, <2>1
    <2> HIDE DEF e
    <2> DEFINE g == [irep \in Tree[e] |-> [irep EXCEPT !.debug = <<>>, !.reps = Of(f, @)]]
    <2>3. Tree[d] \subseteq Tree[e] /\ Tree[e] = IrepsOf(Tree[d])
      BY <2>1, TreeGrows, TreeEquation, Zenon
    <2>4. ASSUME NEW irep \in Tree[d] PROVE g[irep] = f[irep]
      BY <2>2, <2>3, Zenon
    <2>5. ASSUME NEW irep \in Tree[e] PROVE Of(g, irep.reps) = Of(f, irep.reps)
      <3>1. \A i \in DOMAIN irep.reps : irep.reps[i] \in Tree[d]
        BY <2>3, SMT DEF IrepsOf
      <3> HIDE DEF g
      <3>2. \A i \in DOMAIN irep.reps : g[irep.reps[i]] = f[irep.reps[i]]
        BY <2>4, <3>1, Zenon
      <3>3. QED
        BY <3>2, Zenon DEF Of
    <2>6. Is(g, Tree[e])
      BY <2>5, Zenon
    <2> HIDE DEF g, Is
    <2>7. QED
      BY <2>6
  <1>3. Nat \subseteq S
    <2> HIDE DEF S
    <2>1. QED
      BY <1>1, <1>2, SetInduction
  <1>4. \E f : Is(f, Trees)
    <2> HIDE DEF Is
    <2>1. QED
      BY <1>3, LayoutAssumption DEF Trees
  <1> DEFINE Eq(f) == f = [irep \in Trees |-> [irep EXCEPT !.debug = <<>>, !.reps = Of(f, @)]]
             g     == CHOOSE f : Eq(f)
  <1>5. Eq(g)
    BY <1>4, Zenon
  <1>6. ClearDebug = g
    BY Zenon DEF ClearDebug
  <1> HIDE DEF g
  <1>7. \A irep \in Trees : g[irep] = [irep EXCEPT !.debug = <<>>, !.reps = Of(g, @)]
    BY <1>5, Zenon
  <1> DEFINE P == [d \in Nat |-> {irep \in Tree[d] : g[irep] \in Tree[d]}]
  <1>8. ASSUME NEW d \in 1 .. Depth, NEW irep \in Tree[d],
               \A i \in DOMAIN irep.reps : irep.reps[i] \in Tree[d - 1] /\ irep.reps[i] \in P[d - 1]
        PROVE  irep \in P[d]
    <2>1. d \in Nat /\ d - 1 \in Nat /\ d \in 0 .. Depth
      BY LayoutAssumption
    <2>2. irep \in Trees /\ irep \in IrepsOf(Tree[d - 1]) /\ Tree[d] = IrepsOf(Tree[d - 1])
      BY <2>1, TreeGrows, TreeEquation, Zenon
    <2>3. \A i \in DOMAIN irep.reps : g[irep.reps[i]] \in Tree[d - 1]
      BY <1>8, <2>1
    <2> HIDE DEF P
    <2> DEFINE reps == Of(g, irep.reps)
    <2>4. reps \in Seq(Tree[d - 1])
      <3>1. irep.reps \in Seq(Tree[d - 1])
        BY <2>2, SMT DEF IrepsOf
      <3>2. IsSequence(irep.reps)
        BY <3>1, Zenon DEF IsSequence
      <3>3. QED
        BY <2>3, <3>2, OfType, Zenon
    <2>5. g[irep] = [irep EXCEPT !.debug = <<>>, !.reps = reps]
      BY <1>7, <2>2, Zenon
    <2> HIDE DEF reps
    <2>6. g[irep] \in Tree[d]
      <3>1. [irep EXCEPT !.debug = <<>>, !.reps = reps] \in IrepsOf(Tree[d - 1])
        BY <2>2, <2>4, ClearedIrep, Zenon
      <3>2. QED
        BY <2>2, <2>5, <3>1, Zenon
    <2>7. QED
      BY <2>1, <2>6 DEF P
  <1>9. \A d \in 0 .. Depth : Tree[d] \subseteq P[d]
    <2> HIDE DEF P
    <2>1. QED
      BY <1>8, LevelInduction, Zenon
  <1>10. ASSUME NEW d \in 0 .. Depth, NEW irep \in Tree[d] PROVE g[irep] \in Tree[d]
    <2>1. d \in Nat
      BY LayoutAssumption
    <2>2. QED
      BY <1>9, <2>1
  <1>11. QED
    BY <1>6, <1>7, <1>10, Zenon

LEMMA PartsEquation ==
  /\ Parts \in [Trees -> SUBSET Trees]
  /\ \A irep \in Trees : Parts[irep] = {irep} \cup UNION {Parts[irep.reps[i]] : i \in DOMAIN irep.reps}
  <1> DEFINE step  == [irep \in Trees |-> [vs \in Seq(SUBSET Trees) |-> {irep} \cup UNION {vs[i] : i \in DOMAIN vs}]]
             Eq(f) == f = [irep \in Trees |-> {irep} \cup UNION {f[irep.reps[i]] : i \in DOMAIN irep.reps}]
  <1>1. step \in [Trees -> [Seq(SUBSET Trees) -> SUBSET Trees]]
    <2>1. ASSUME NEW irep \in Trees, NEW vs \in Seq(SUBSET Trees) PROVE {irep} \cup UNION {vs[i] : i \in DOMAIN vs} \in SUBSET Trees
      BY Z3
    <2>2. QED
      BY <2>1, Zenon
  <1>2. ASSUME NEW irep \in Trees, NEW vs \in Seq(SUBSET Trees) PROVE step[irep][vs] = {irep} \cup UNION {vs[i] : i \in DOMAIN vs}
    BY Zenon
  <1>3. ASSUME NEW irep \in Trees, NEW f, Of(f, irep.reps) \in Seq(SUBSET Trees)
        PROVE  step[irep][Of(f, irep.reps)] = {irep} \cup UNION {f[irep.reps[i]] : i \in DOMAIN irep.reps}
    <2> DEFINE vs == Of(f, irep.reps)
    <2>1. \A i \in DOMAIN irep.reps : vs[i] = f[irep.reps[i]]
      BY Zenon DEF Of
    <2> HIDE DEF vs, step
    <2>2. step[irep][vs] = {irep} \cup UNION {vs[i] : i \in DOMAIN vs}
      BY <1>2, <1>3, Zenon DEF vs
    <2>3. {irep} \cup UNION {vs[i] : i \in DOMAIN vs} = {irep} \cup UNION {f[irep.reps[i]] : i \in DOMAIN irep.reps}
      <3>1. DOMAIN vs = DOMAIN irep.reps
        BY Zenon DEF vs, Of
      <3>2. {vs[i] : i \in DOMAIN vs} = {f[irep.reps[i]] : i \in DOMAIN irep.reps}
        BY <2>1, <3>1, Z3
      <3>3. QED
        BY <3>2, Zenon
    <2>4. QED
      BY <2>2, <2>3, Zenon DEF vs
  <1> HIDE DEF step
  <1>4. \E f : Eq(f)
    <2>1. PICK f : DefinedBy(f, SUBSET Trees, step)
      BY <1>1, TreeFunction, Zenon
    <2>2. \A irep \in Trees : f[irep] = {irep} \cup UNION {f[irep.reps[i]] : i \in DOMAIN irep.reps}
      BY <1>3, <2>1, Zenon DEF DefinedBy
    <2>3. f = [irep \in Trees |-> f[irep]]
      BY <2>1, Zenon DEF DefinedBy
    <2>4. Eq(f)
      BY <2>2, <2>3, Zenon
    <2>5. QED
      BY <2>4, Zenon
  <1> DEFINE g == CHOOSE f : Eq(f)
  <1>5. Eq(g)
    BY <1>4, Zenon
  <1>6. Parts = g
    BY Zenon DEF Parts
  <1> HIDE DEF g
  <1>7. g = [irep \in Trees |-> g[irep]] /\ \A irep \in Trees : g[irep] = {irep} \cup UNION {g[irep.reps[i]] : i \in DOMAIN irep.reps}
    BY <1>5, Zenon
  <1>8. \A irep \in Trees : Of(g, irep.reps) \in Seq(SUBSET Trees) => g[irep] = step[irep][Of(g, irep.reps)]
    BY <1>3, <1>7, Zenon
  <1>9. g \in [Trees -> SUBSET Trees]
    BY <1>1, <1>7, <1>8, TreeType, Zenon
  <1>10. Parts \in [Trees -> SUBSET Trees]
    BY <1>6, <1>9, Zenon
  <1>11. ASSUME NEW irep \in Trees
         PROVE  Parts[irep] = {irep} \cup UNION {Parts[irep.reps[i]] : i \in DOMAIN irep.reps}
    <2>1. g[irep] = {irep} \cup UNION {g[irep.reps[i]] : i \in DOMAIN irep.reps}
      BY <1>7, Zenon
    <2>2. \A x : Parts[x] = g[x]
      BY <1>6, Zenon
    <2>3. {Parts[irep.reps[i]] : i \in DOMAIN irep.reps} = {g[irep.reps[i]] : i \in DOMAIN irep.reps}
      BY <2>2, Zenon
    <2>4. QED
      BY <2>1, <2>2, <2>3, Zenon
  <1>12. QED
    BY <1>10, <1>11, Zenon

\* Parts of the ireps nested in an irep are parts of it.
LEMMA PartsOf ==
  ASSUME NEW irep \in Trees
  PROVE  /\ irep \in Parts[irep] /\ Parts[irep] \subseteq Trees
         /\ \A i \in DOMAIN irep.reps : Parts[irep.reps[i]] \subseteq Parts[irep]
  <1>1. Parts[irep] = {irep} \cup UNION {Parts[irep.reps[i]] : i \in DOMAIN irep.reps}
    BY PartsEquation, Zenon
  <1>2. Parts[irep] \in SUBSET Trees
    BY PartsEquation
  <1>3. irep \in Parts[irep]
    BY <1>1
  <1>4. ASSUME NEW i \in DOMAIN irep.reps PROVE Parts[irep.reps[i]] \subseteq Parts[irep]
    BY <1>1, Zenon
  <1>5. QED
    BY <1>2, <1>3, <1>4

\* Records of ireps that are written one after the other, and their sizes.
Chains(F, own) ==
  \A irep \in Trees : /\ own[irep] \in Seq(Nat) /\ Of(F, irep.reps) \in Seq(Seq(Nat))
                      /\ F[irep] = own[irep] \o FlattenSeq(Of(F, irep.reps))
Counts(G, size) == \A irep \in Trees : G[irep] = size[irep] + Total(Of(G, irep.reps))

LEMMA ChainLength ==
  ASSUME NEW F, NEW own, NEW G, NEW size, Chains(F, own), Counts(G, size)
  PROVE  \A irep \in Trees :
           (\A part \in Parts[irep] : Len(own[part]) = size[part]) => Len(F[irep]) = G[irep]
  <1> DEFINE S == {irep \in Trees :
                     (\A part \in Parts[irep] : Len(own[part]) = size[part]) => Len(F[irep]) = G[irep]}
  <1>1. ASSUME NEW irep \in Trees, \A i \in DOMAIN irep.reps : irep.reps[i] \in Trees /\ irep.reps[i] \in S,
               \A part \in Parts[irep] : Len(own[part]) = size[part]
        PROVE  Len(F[irep]) = G[irep]
    <2> DEFINE fs == Of(F, irep.reps)
               gs == Of(G, irep.reps)
    <2>1. own[irep] \in Seq(Nat) /\ fs \in Seq(Seq(Nat)) /\ F[irep] = own[irep] \o FlattenSeq(fs)
      BY Zenon DEF Chains
    <2>2. G[irep] = size[irep] + Total(gs)
      BY Zenon DEF Counts
    <2>3. Len(own[irep]) = size[irep]
      BY <1>1, PartsOf, Zenon
    <2>4. ASSUME NEW i \in DOMAIN irep.reps PROVE Len(F[irep.reps[i]]) = G[irep.reps[i]]
      <3>1. Parts[irep.reps[i]] \subseteq Parts[irep]
        BY PartsOf, Zenon
      <3>2. irep.reps[i] \in S
        BY <1>1, Zenon
      <3>3. QED
        BY <1>1, <3>1, <3>2, Zenon
    <2>5. DOMAIN fs = DOMAIN irep.reps /\ \A i \in DOMAIN irep.reps : fs[i] = F[irep.reps[i]]
      BY Zenon DEF Of
    <2>6. DOMAIN fs = 1 .. Len(fs)
      BY <2>1
    <2>7. gs = [i \in DOMAIN irep.reps |-> G[irep.reps[i]]]
      BY Zenon DEF Of
    <2> HIDE DEF fs, gs
    <2>8. Lengths(fs) = gs
      BY <2>4, <2>5, <2>6, <2>7, Zenon DEF Lengths
    <2>9. FlattenSeq(fs) \in Seq(Nat) /\ Len(FlattenSeq(fs)) = Total(gs)
      BY <2>1, <2>8, FlattenLength, Zenon
    <2>10. Len(F[irep]) = Len(own[irep]) + Len(FlattenSeq(fs))
      <3> DEFINE x == own[irep]
                 y == FlattenSeq(fs)
      <3>1. x \in Seq(Nat) /\ y \in Seq(Nat) /\ F[irep] = x \o y
        BY <2>1, <2>9, Zenon
      <3> HIDE DEF x, y
      <3>2. Len(x \o y) = Len(x) + Len(y)
        BY <3>1
      <3>3. QED
        BY <3>1, <3>2, Zenon DEF x, y
    <2>11. QED
      BY <2>2, <2>3, <2>9, <2>10, Zenon
  <1>2. \A irep \in Trees :
          (\A i \in DOMAIN irep.reps : irep.reps[i] \in Trees /\ irep.reps[i] \in S) => irep \in S
    BY <1>1, Zenon
  <1>3. Trees \subseteq S
    <2> HIDE DEF S
    <2>1. QED
      BY <1>2, TreeInduction, Zenon
  <1>4. QED
    BY <1>3

LEMMA DebugDefinedEquation ==
  /\ DebugDefined \in [Trees -> BOOLEAN]
  /\ \A irep \in Trees : DebugDefined[irep] = (irep.debug # <<>> /\ \A i \in DOMAIN irep.reps : DebugDefined[irep.reps[i]])
  <1> DEFINE step  == [irep \in Trees |-> [vs \in Seq(BOOLEAN) |-> (irep.debug # <<>> /\ \A i \in DOMAIN vs : vs[i])]]
             Eq(f) == f = [irep \in Trees |-> (irep.debug # <<>> /\ \A i \in DOMAIN irep.reps : f[irep.reps[i]])]
  <1>1. step \in [Trees -> [Seq(BOOLEAN) -> BOOLEAN]]
    <2>1. ASSUME NEW irep \in Trees, NEW vs \in Seq(BOOLEAN) PROVE (irep.debug # <<>> /\ \A i \in DOMAIN vs : vs[i]) \in BOOLEAN
      BY Zenon
    <2>2. QED
      BY <2>1, Zenon
  <1>2. ASSUME NEW irep \in Trees, NEW vs \in Seq(BOOLEAN) PROVE step[irep][vs] = (irep.debug # <<>> /\ \A i \in DOMAIN vs : vs[i])
    BY Zenon
  <1>3. ASSUME NEW irep \in Trees, NEW f, Of(f, irep.reps) \in Seq(BOOLEAN)
        PROVE  step[irep][Of(f, irep.reps)] = (irep.debug # <<>> /\ \A i \in DOMAIN irep.reps : f[irep.reps[i]])
    <2> DEFINE vs == Of(f, irep.reps)
    <2>1. \A i \in DOMAIN irep.reps : vs[i] = f[irep.reps[i]]
      BY Zenon DEF Of
    <2> HIDE DEF vs, step
    <2>2. step[irep][vs] = (irep.debug # <<>> /\ \A i \in DOMAIN vs : vs[i])
      BY <1>2, <1>3, Zenon DEF vs
    <2>3. (irep.debug # <<>> /\ \A i \in DOMAIN vs : vs[i]) = (irep.debug # <<>> /\ \A i \in DOMAIN irep.reps : f[irep.reps[i]])
      <3>1. DOMAIN vs = DOMAIN irep.reps
        BY Zenon DEF vs, Of
      <3>2. QED
        BY <2>1, <3>1, Zenon
    <2>4. QED
      BY <2>2, <2>3, Zenon DEF vs
  <1> HIDE DEF step
  <1>4. \E f : Eq(f)
    <2>1. PICK f : DefinedBy(f, BOOLEAN, step)
      BY <1>1, TreeFunction, Zenon
    <2>2. \A irep \in Trees : f[irep] = (irep.debug # <<>> /\ \A i \in DOMAIN irep.reps : f[irep.reps[i]])
      BY <1>3, <2>1, Zenon DEF DefinedBy
    <2>3. f = [irep \in Trees |-> f[irep]]
      BY <2>1, Zenon DEF DefinedBy
    <2>4. Eq(f)
      BY <2>2, <2>3, Zenon
    <2>5. QED
      BY <2>4, Zenon
  <1> DEFINE g == CHOOSE f : Eq(f)
  <1>5. Eq(g)
    BY <1>4, Zenon
  <1>6. DebugDefined = g
    BY Zenon DEF DebugDefined
  <1> HIDE DEF g
  <1>7. g = [irep \in Trees |-> g[irep]] /\ \A irep \in Trees : g[irep] = (irep.debug # <<>> /\ \A i \in DOMAIN irep.reps : g[irep.reps[i]])
    BY <1>5, Zenon
  <1>8. \A irep \in Trees : Of(g, irep.reps) \in Seq(BOOLEAN) => g[irep] = step[irep][Of(g, irep.reps)]
    BY <1>3, <1>7, Zenon
  <1>9. g \in [Trees -> BOOLEAN]
    BY <1>1, <1>7, <1>8, TreeType, Zenon
  <1>10. QED
    BY <1>6, <1>7, <1>9, Zenon

--------------------------------------------------------------------------------
(* The debug section.                                                           *)

LEMMA FileShape ==
  ASSUME NEW irep \in Trees, irep.debug # <<>>
  PROVE  /\ irep.debug[1].files \in Seq(DebugFiles)
         /\ \A i \in DOMAIN irep.debug[1].files :
              LET entry == irep.debug[1].files[i] IN
                entry.start \in Nat /\ entry.filename \in Seq(Nat) /\ entry.lines \in LineTable
  <1> DEFINE files == irep.debug[1].files
  <1>1. irep.debug \in Optional(DebugInfo)
    BY TreeParts, SMT DEF IrepsOf
  <1>2. irep.debug[1] \in DebugInfo
    BY <1>1 DEF Optional
  <1>3. files \in Seq(DebugFiles)
    BY <1>2 DEF DebugInfo
  <1> HIDE DEF files
  <1>4. ASSUME NEW i \in DOMAIN files
        PROVE  files[i].start \in Nat /\ files[i].filename \in Seq(Nat) /\ files[i].lines \in LineTable
    <2>1. files[i] \in DebugFiles
      BY <1>3
    <2>2. QED
      BY <2>1 DEF DebugFiles, LineTable
  <1>5. QED
    BY <1>3, <1>4, Zenon DEF files

LEMMA MapBytes ==
  ASSUME NEW start \in Nat, NEW lines \in LineTable
  PROVE  PackLineMap(start, lines) \in Seq(Nat) /\ Len(PackLineMap(start, lines)) = PackedSize(start, lines)
  <1> DEFINE n == Len(lines)
  <1>1. n \in 0 .. n
    BY DEF LineTable
  <1>2. Packed(start, lines)[n] \in PackStates(start, n)
    BY <1>1, PackedEquation
  <1> DEFINE r == Packed(start, lines)[n]
  <1>3. PackLineMap(start, lines) = r.out
    BY Zenon DEF PackLineMap
  <1> HIDE DEF n, r
  <1>4. r.out \in Seq(Nat)
    BY <1>2 DEF PackStates, r
  <1>5. QED
    BY <1>3, <1>4, LineMapsFit, Zenon

LEMMA FilePlaced ==
  ASSUME NEW table, IsSequence(table), NEW name
  PROVE  FileIndex(table, name) \in Int
  <1> DEFINE I == {k \in 1 .. Len(table) : table[k] = name}
             place == IF I # {} THEN Min(I) ELSE 0
  <1>1. FileIndex(table, name) = place - 1
    BY Zenon DEF FileIndex, SelectInSeq
  <1>2. Len(table) \in Nat
    BY LengthType
  <1>3. I # {} => Min(I) \in I
    BY <1>2, LeastPlace
  <1>4. place \in Int
    BY <1>2, <1>3
  <1> HIDE DEF place
  <1>5. QED
    BY <1>1, <1>4

LEMMA OwnDebugBytes ==
  ASSUME NEW irep \in Trees, irep.debug # <<>>, NEW table, IsSequence(table)
  PROVE  OwnDebug(irep, table) \in Seq(Nat)
  <1> DEFINE files == irep.debug[1].files
             n     == Len(files)
             maps  == Maps(irep)
             parts == [i \in DOMAIN maps |-> DebugEntry(files[i], maps[i], table)]
             sizes == Each(LAMBDA packed : 11 + Len(packed), maps)
  <1>1. files \in Seq(DebugFiles)
        /\ \A i \in DOMAIN files : files[i].start \in Nat /\ files[i].lines \in LineTable
    BY FileShape, Zenon
  <1>2. n \in Nat /\ DOMAIN files = 1 .. n
    BY <1>1
  <1>3. maps = [i \in 1 .. n |-> PackLineMap(files[i].start, files[i].lines)]
    BY <1>2, Zenon DEF Maps, Each
  <1>4. DOMAIN maps = 1 .. n
    BY <1>3, Zenon
  <1>5. OwnDebug(irep, table) = U32(DebugSize(maps)) \o U16(Len(maps)) \o FlattenSeq(parts)
        /\ DebugSize(maps) = 6 + Total(sizes)
    BY Zenon DEF OwnDebug, DebugSize
  <1>6. sizes = [i \in 1 .. n |-> 11 + Len(maps[i])] /\ parts = [i \in 1 .. n |-> parts[i]]
        /\ \A i \in 1 .. n : parts[i] = DebugEntry(files[i], maps[i], table)
    BY <1>4, Zenon DEF Each
  <1> HIDE DEF files, n, maps, sizes, parts
  <1>7. ASSUME NEW i \in 1 .. n PROVE maps[i] \in Seq(Nat)
    <2>1. maps[i] = PackLineMap(files[i].start, files[i].lines)
      BY <1>3, Zenon
    <2>2. QED
      BY <1>1, <1>2, <2>1, MapBytes, Zenon
  <1>8. ASSUME NEW i \in 1 .. n PROVE parts[i] \in Seq(Nat) /\ 11 + Len(maps[i]) \in Nat
    <2> DEFINE entry == files[i]
               packed == maps[i]
    <2>1. packed \in Seq(Nat) /\ Len(packed) \in Nat
      BY <1>7
    <2>2. entry.start \in Int /\ FileIndex(table, entry.filename) \in Int /\ 2 \in Int
      BY <1>1, <1>2, FilePlaced
    <2>3. parts[i] = U32(entry.start) \o U16(FileIndex(table, entry.filename)) \o U32(Len(packed)) \o U8(2)
                       \o packed
      BY <1>6, Zenon DEF DebugEntry
    <2> HIDE DEF entry, packed
    <2>4. /\ U32(entry.start) \in Seq(Nat) /\ U16(FileIndex(table, entry.filename)) \in Seq(Nat)
          /\ U32(Len(packed)) \in Seq(Nat) /\ U8(2) \in Seq(Nat)
      <3>1. Len(packed) \in Int
        BY <2>1
      <3>2. QED
        BY <2>2, <3>1, NumberBytes, Zenon
    <2>5. parts[i] \in Seq(Nat)
      <3>1. \A a, b \in Seq(Nat) : a \o b \in Seq(Nat)
        BY ConcatProperties, Zenon
      <3>2. QED
        BY <2>1, <2>3, <2>4, <3>1, Zenon
    <2>6. 11 + Len(packed) \in Nat
      BY <2>1
    <2>7. QED
      BY <2>5, <2>6 DEF packed
  <1>9. maps \in Seq(Seq(Nat)) /\ parts \in Seq(Seq(Nat)) /\ sizes \in Seq(Nat)
    <2>1. /\ maps \in [1 .. n -> Seq(Nat)] /\ parts \in [1 .. n -> Seq(Nat)]
          /\ sizes \in [1 .. n -> Nat]
      BY <1>3, <1>6, <1>7, <1>8, Zenon
    <2>2. QED
      BY <1>2, <2>1, ListIs, Zenon
  <1>10. FlattenSeq(parts) \in Seq(Nat)
    BY <1>9, FlattenLength
  <1>11. Len(maps) \in Int /\ DebugSize(maps) \in Int
    <2>1. Len(maps) \in Nat
      BY <1>9
    <2>2. Total(sizes) \in Nat
      BY <1>9, TotalType
    <2>3. QED
      BY <1>5, <2>1, <2>2
  <1>12. U32(DebugSize(maps)) \in Seq(Nat) /\ U16(Len(maps)) \in Seq(Nat)
    BY <1>11, NumberBytes, Zenon
  <1>13. U32(DebugSize(maps)) \o U16(Len(maps)) \in Seq(Nat)
    BY <1>12, ConcatProperties, Zenon
  <1>14. U32(DebugSize(maps)) \o U16(Len(maps)) \o FlattenSeq(parts) \in Seq(Nat)
    BY <1>10, <1>13, ConcatProperties, Zenon
  <1>15. QED
    BY <1>5, <1>14, Zenon

LEMMA FileTableType ==
  ASSUME NEW names \in Seq(Seq(Nat))
  PROVE  FileTable(names) \in Seq(Seq(Nat))
  <1> DEFINE n     == Len(names)
             step  == [i \in 1 .. n |-> [v \in Seq(Seq(Nat)) |-> Listing(v, names[i])]]
             Eq(f) == f = [i \in 0 .. n |-> IF i = 0 THEN <<>> ELSE Listing(f[i - 1], names[i])]
  <1>1. n \in Nat /\ \A i \in 1 .. n : names[i] \in Seq(Nat)
    OBVIOUS
  <1> HIDE DEF n
  <1>2. <<>> \in Seq(Seq(Nat))
    OBVIOUS
  <1>3. ASSUME NEW i \in 1 .. n, NEW v \in Seq(Seq(Nat)) PROVE Listing(v, names[i]) \in Seq(Seq(Nat))
    <2>1. names[i] \in Seq(Nat)
      BY <1>1
    <2>2. QED
      BY <2>1 DEF Listing
  <1>4. step \in [1 .. n -> [Seq(Seq(Nat)) -> Seq(Seq(Nat))]]
    BY <1>3, Zenon
  <1>5. \E f : Eq(f)
    <2>1. PICK f \in [0 .. n -> Seq(Seq(Nat))] : Along(f, n, <<>>, step)
      <3> HIDE DEF step
      <3>1. QED
        BY <1>1, <1>2, <1>4, PrefixRecursion, Zenon
    <2>2. f = [i \in 0 .. n |-> f[i]] /\ f[0] = <<>>
      BY <2>1, Zenon DEF Along
    <2>3. ASSUME NEW i \in 0 .. n, i # 0 PROVE f[i] = Listing(f[i - 1], names[i])
      <3>1. i \in 1 .. n /\ i - 1 \in 0 .. n
        BY <1>1, <2>3
      <3>2. f[i] = step[i][f[i - 1]] /\ f[i - 1] \in Seq(Seq(Nat))
        BY <2>1, <3>1, Zenon DEF Along
      <3>3. QED
        BY <3>1, <3>2, Zenon
    <2>4. \A i \in 0 .. n : f[i] = IF i = 0 THEN <<>> ELSE Listing(f[i - 1], names[i])
      BY <2>2, <2>3, Zenon
    <2>5. Eq(f)
      BY <2>2, <2>4, Zenon
    <2> HIDE DEF Eq
    <2>6. QED
      BY <2>5
  <1> DEFINE g == CHOOSE h : Eq(h)
  <1>6. Eq(g)
    BY <1>5, Zenon
  <1>7. FileTable(names) = g[n]
    BY Zenon DEF FileTable, n
  <1> HIDE DEF g
  <1>8. g[0] = <<>> /\ \A i \in 1 .. n : g[i] = Listing(g[i - 1], names[i])
    <2>1. \A i \in 0 .. n : g[i] = IF i = 0 THEN <<>> ELSE Listing(g[i - 1], names[i])
      BY <1>6, Zenon
    <2>2. 0 \in 0 .. n /\ \A i \in 1 .. n : i \in 0 .. n /\ i # 0
      BY <1>1
    <2>3. QED
      BY <2>1, <2>2, Zenon
  <1> DEFINE W == [i \in Nat |-> Seq(Seq(Nat))]
  <1>9. g[0] \in W[0] /\ \A i \in 1 .. n : g[i - 1] \in W[i - 1] => g[i] \in W[i]
    <2>1. 0 \in Nat /\ \A i \in 1 .. n : i \in Nat /\ i - 1 \in Nat
      BY <1>1
    <2>2. \A i \in Nat : W[i] = Seq(Seq(Nat))
      BY Zenon
    <2>3. QED
      BY <1>2, <1>3, <1>8, <2>1, <2>2, Zenon
  <1>10. n \in 0 .. n /\ n \in Nat
    BY <1>1
  <1>11. g[n] \in W[n]
    <2> HIDE DEF W
    <2>1. QED
      BY <1>9, <1>10, FamilyInduction, Zenon
  <1>12. QED
    BY <1>7, <1>10, <1>11, Zenon

LEMMA DebugRecordBytes ==
  ASSUME NEW top \in Trees, DebugDefined[top], NEW table, IsSequence(table)
  PROVE  DebugRecord(top, table) \in Seq(Nat)
  <1> DEFINE Is(f, T) == f = [irep \in T |-> OwnDebug(irep, table) \o FlattenSeq(Of(f, irep.reps))]
             S == {d \in Nat : d <= Depth => \E f : Is(f, Tree[d])}
  <1>1. 0 \in S
    <2> DEFINE f == [irep \in {} |-> irep]
    <2>1. Is(f, {})
      OBVIOUS
    <2> HIDE DEF Is
    <2>2. QED
      BY <2>1, TreeEquation
  <1>2. ASSUME NEW d \in Nat, d \in S PROVE d + 1 \in S
    <2> DEFINE e == d + 1
    <2> HIDE DEF Is
    <2> SUFFICES ASSUME e <= Depth PROVE \E f : Is(f, Tree[e])
      OBVIOUS
    <2> USE DEF Is
    <2>1. e \in 1 .. Depth /\ e - 1 = d /\ d <= Depth
      BY LayoutAssumption
    <2>2. PICK f : Is(f, Tree[d])
      BY <1>2, <2>1
    <2> HIDE DEF e
    <2> DEFINE g == [irep \in Tree[e] |-> OwnDebug(irep, table) \o FlattenSeq(Of(f, irep.reps))]
    <2>3. Tree[d] \subseteq Tree[e] /\ Tree[e] = IrepsOf(Tree[d])
      BY <2>1, TreeGrows, TreeEquation, Zenon
    <2>4. ASSUME NEW irep \in Tree[d] PROVE g[irep] = f[irep]
      BY <2>2, <2>3, Zenon
    <2>5. ASSUME NEW irep \in Tree[e] PROVE Of(g, irep.reps) = Of(f, irep.reps)
      <3>1. \A i \in DOMAIN irep.reps : irep.reps[i] \in Tree[d]
        BY <2>3, SMT DEF IrepsOf
      <3> HIDE DEF g
      <3>2. \A i \in DOMAIN irep.reps : g[irep.reps[i]] = f[irep.reps[i]]
        BY <2>4, <3>1, Zenon
      <3>3. QED
        BY <3>2, Zenon DEF Of
    <2>6. Is(g, Tree[e])
      BY <2>5, Zenon
    <2> HIDE DEF g, Is
    <2>7. QED
      BY <2>6
  <1>3. Nat \subseteq S
    <2> HIDE DEF S
    <2>1. QED
      BY <1>1, <1>2, SetInduction
  <1>4. \E f : Is(f, Trees)
    <2> HIDE DEF Is
    <2>1. QED
      BY <1>3, LayoutAssumption DEF Trees
  <1> DEFINE Eq(f) == f = [irep \in Trees |-> OwnDebug(irep, table) \o FlattenSeq(Of(f, irep.reps))]
             g     == CHOOSE f : Eq(f)
  <1>5. Eq(g)
    BY <1>4, Zenon
  <1>6. DebugRecord(top, table) = g[top]
    BY Zenon DEF DebugRecord
  <1> HIDE DEF g
  <1>7. \A irep \in Trees : g[irep] = OwnDebug(irep, table) \o FlattenSeq(Of(g, irep.reps))
    BY <1>5, Zenon
  <1> DEFINE G == {irep \in Trees : DebugDefined[irep] => g[irep] \in Seq(Nat)}
  <1>8. ASSUME NEW irep \in Trees, \A i \in DOMAIN irep.reps : irep.reps[i] \in Trees /\ irep.reps[i] \in G,
               DebugDefined[irep]
        PROVE  g[irep] \in Seq(Nat)
    <2>1. irep.debug # <<>> /\ \A i \in DOMAIN irep.reps : DebugDefined[irep.reps[i]]
      BY <1>8, DebugDefinedEquation, Zenon
    <2>2. \A i \in DOMAIN irep.reps : g[irep.reps[i]] \in Seq(Nat)
      BY <1>8, <2>1, Zenon
    <2>3. IsSequence(irep.reps)
      BY TreeParts, SMT DEF IrepsOf, IsSequence
    <2>4. Of(g, irep.reps) \in Seq(Seq(Nat))
      BY <2>2, <2>3, OfType, Zenon
    <2>5. FlattenSeq(Of(g, irep.reps)) \in Seq(Nat)
      BY <2>4, FlattenLength, Zenon
    <2>6. OwnDebug(irep, table) \in Seq(Nat)
      BY <2>1, OwnDebugBytes, Zenon
    <2>7. OwnDebug(irep, table) \o FlattenSeq(Of(g, irep.reps)) \in Seq(Nat)
      BY <2>5, <2>6, ConcatProperties, Zenon
    <2>8. QED
      BY <1>7, <2>7, Zenon
  <1>9. \A irep \in Trees :
          (\A i \in DOMAIN irep.reps : irep.reps[i] \in Trees /\ irep.reps[i] \in G) => irep \in G
    BY <1>8, Zenon
  <1>10. Trees \subseteq G
    <2> HIDE DEF G
    <2>1. QED
      BY <1>9, TreeInduction, Zenon
  <1>11. QED
    BY <1>6, <1>10, Zenon

LEMMA DebugBodyBytes ==
  ASSUME NEW top \in Trees, DebugDefined[top]
  PROVE  DebugBody(top, FileTable(Filenames[top])) \in Seq(Nat)
  <1> DEFINE names == Filenames[top]
             table == FileTable(names)
             lists == Each(LAMBDA name : U16(Len(name)) \o name, table)
             body  == DebugBody(top, table)
  <1>1. names \in Seq(Seq(Nat))
    BY FilenamesEquation
  <1>2. table \in Seq(Seq(Nat))
    <2> HIDE DEF names
    <2>1. QED
      BY <1>1, FileTableType
  <1>3. body = U16(Len(table)) \o FlattenSeq(lists) \o DebugRecord(top, table)
        /\ lists = [i \in DOMAIN table |-> U16(Len(table[i])) \o table[i]]
    BY Zenon DEF DebugBody, Joined, Each
  <1>4. IsSequence(table)
    BY <1>2, Zenon DEF IsSequence
  <1>5. DebugRecord(top, table) \in Seq(Nat)
    <2> HIDE DEF table
    <2>1. QED
      BY <1>4, DebugRecordBytes, Zenon
  <1> HIDE DEF table, lists, body
  <1>6. ASSUME NEW i \in DOMAIN table PROVE lists[i] \in Seq(Nat)
    <2>1. table[i] \in Seq(Nat)
      BY <1>2
    <2>2. Len(table[i]) \in Int
      BY <2>1
    <2>3. U16(Len(table[i])) \in Seq(Nat)
      BY <2>2, NumberBytes, Zenon
    <2>4. U16(Len(table[i])) \o table[i] \in Seq(Nat)
      BY <2>1, <2>3, ConcatProperties, Zenon
    <2>5. QED
      BY <1>3, <2>4, Zenon
  <1>7. FlattenSeq(lists) \in Seq(Nat)
    <2>1. lists = [i \in DOMAIN table |-> lists[i]]
      BY <1>3, Zenon
    <2>2. QED
      BY <1>4, <1>6, <2>1, JoinedBytes, Zenon
  <1>8. U16(Len(table)) \in Seq(Nat)
    <2>1. Len(table) \in Int
      BY <1>2
    <2>2. QED
      BY <2>1, NumberBytes, Zenon
  <1>9. U16(Len(table)) \o FlattenSeq(lists) \in Seq(Nat)
    BY <1>7, <1>8, ConcatProperties, Zenon
  <1>10. body \in Seq(Nat)
    BY <1>3, <1>5, <1>9, ConcatProperties, Zenon
  <1>11. QED
    BY <1>10, Zenon DEF body, table

\* The debug section is built of the root, or is what was read, or is left out.
LEMMA DebugBytesShape ==
  ASSUME NEW model
  PROVE  /\ DebugDefined[model.root] =>
              DebugBytes(model)
                = DebugOf(DebugBody(model.root, FileTable(Filenames[model.root])))
         /\ ~DebugDefined[model.root] =>
              DebugBytes(model) = IF model.debugRaw # <<>> THEN model.debugRaw[1] ELSE <<>>
  <1> DEFINE top  == model.root
             body == DebugBody(top, FileTable(Filenames[top]))
  <1>1. DebugSection(top) # <<>> => DebugBytes(model) = DebugSection(top)[1]
    BY Zenon DEF DebugBytes
  <1>2. DebugSection(top) = <<>> =>
          DebugBytes(model) = IF model.debugRaw # <<>> THEN model.debugRaw[1] ELSE <<>>
    BY Zenon DEF DebugBytes
  <1>3. CASE ~DebugDefined[top]
    <2>1. DebugSection(top) = <<>>
      BY <1>3, Zenon DEF DebugSection
    <2>2. QED
      BY <1>2, <1>3, <2>1, Zenon
  <1>4. CASE DebugDefined[top]
    <2>1. DebugSection(top) = <<DebugOf(body)>>
      BY <1>4, Zenon DEF DebugSection
    <2> HIDE DEF body, top
    <2>2. <<DebugOf(body)>> # <<>> /\ <<DebugOf(body)>>[1] = DebugOf(body)
      OBVIOUS
    <2>3. DebugBytes(model) = DebugOf(body)
      BY <1>1, <2>1, <2>2, Zenon
    <2>4. QED
      BY <1>4, <2>3, Zenon DEF top, body
  <1>5. QED
    BY <1>3, <1>4, Zenon

\* The bytes of the debug section, built or kept.
LEMMA DebugBytesType ==
  ASSUME NEW model, model.root \in Trees, model.debugRaw \in Optional(Seq(Nat))
  PROVE  DebugBytes(model) \in Seq(Nat)
  <1> DEFINE top  == model.root
             body == DebugBody(top, FileTable(Filenames[top]))
  <1>1. CASE ~DebugDefined[top]
    <2>1. DebugBytes(model) = IF model.debugRaw # <<>> THEN model.debugRaw[1] ELSE <<>>
      BY <1>1, DebugBytesShape, Zenon
    <2>2. model.debugRaw # <<>> => model.debugRaw[1] \in Seq(Nat)
      BY DEF Optional
    <2>3. <<>> \in Seq(Nat)
      OBVIOUS
    <2>4. QED
      BY <2>1, <2>2, <2>3, Zenon
  <1>2. CASE DebugDefined[top]
    <2>1. DebugBytes(model) = DebugOf(body)
      BY <1>2, DebugBytesShape, Zenon
    <2>2. body \in Seq(Nat)
      BY <1>2, DebugBodyBytes, Zenon
    <2> HIDE DEF body
    <2>3. 8 + Len(body) \in Int
      BY <2>2
    <2>4. U32(8 + Len(body)) \in Seq(Nat) /\ DBG \in Seq(Nat)
      <3>1. U32(8 + Len(body)) \in Seq(Nat)
        BY <2>3, NumberBytes, Zenon
      <3>2. QED
        BY <3>1 DEF DBG, Ident
    <2>5. DBG \o U32(8 + Len(body)) \in Seq(Nat)
      BY <2>4, ConcatProperties, Zenon
    <2>6. DebugOf(body) \in Seq(Nat)
      BY <2>2, <2>5, ConcatProperties, Zenon DEF DebugOf
    <2>7. QED
      BY <2>1, <2>6, Zenon
  <1>3. QED
    BY <1>1, <1>2

--------------------------------------------------------------------------------
(* The size of the file.                                                        *)

\* The record of an irep has the size that was counted, at any depth, and so has the record
\* of its locals when it has a register for each and one for self (writer.rs
\* irep_record_size, lv_records_size).
THEOREM NestedRecordsFit ==
  ASSUME NEW irep \in Trees
  PROVE  /\ Len(Record[irep]) = RecordSize[irep]
         /\ (\A part \in Parts[irep] : part.nlocals = Len(part.lv) + 1)
              => Len(LvRecords[irep]) = LvSize[irep]
  <1> DEFINE own    == [part \in Trees |-> Own(part)]
             size   == [part \in Trees |-> OwnSize(part)]
             lvown  == [part \in Trees |-> LvOwn(part)]
             lvsize == [part \in Trees |-> LvOwnSize(part)]
  <1>1. \A part \in Trees : /\ own[part] = Own(part) /\ size[part] = OwnSize(part)
                            /\ lvown[part] = LvOwn(part) /\ lvsize[part] = LvOwnSize(part)
    BY Zenon
  <1> HIDE DEF own, size, lvown, lvsize
  <1>2. Parts[irep] \subseteq Trees
    BY PartsOf, Zenon
  <1>3. Chains(Record, own) /\ Counts(RecordSize, size)
    <2>1. \A part \in Trees : Own(part) \in Seq(Nat)
      BY OwnBytes, Zenon
    <2>2. QED
      BY <1>1, <2>1, RecordEquation, RecordSizeEquation, Zenon DEF Chains, Counts
  <1>4. Len(Record[irep]) = RecordSize[irep]
    <2>1. \A part \in Parts[irep] : Len(own[part]) = size[part]
      BY <1>1, <1>2, OwnBytes, Zenon
    <2>2. (\A part \in Parts[irep] : Len(own[part]) = size[part]) => Len(Record[irep]) = RecordSize[irep]
      BY <1>3, ChainLength
    <2>3. QED
      BY <2>1, <2>2, Zenon
  <1>5. Chains(LvRecords, lvown) /\ Counts(LvSize, lvsize)
    <2>1. \A part \in Trees : LvOwn(part) \in Seq(Nat)
      BY LvOwnBytes, Zenon
    <2>2. QED
      BY <1>1, <2>1, LvRecordsEquation, LvSizeEquation, Zenon DEF Chains, Counts
  <1>6. ASSUME \A part \in Parts[irep] : part.nlocals = Len(part.lv) + 1
        PROVE  Len(LvRecords[irep]) = LvSize[irep]
    <2>1. ASSUME NEW part \in Parts[irep] PROVE Len(lvown[part]) = lvsize[part]
      <3>1. part \in Trees
        BY <1>2
      <3>2. Len(lvown[part]) = 2 * Len(part.lv)
        BY <1>1, <3>1, LvOwnBytes, Zenon
      <3>3. lvsize[part] = 2 * (part.nlocals - 1)
        BY <1>1, <3>1, Zenon DEF LvOwnSize
      <3>4. part.lv \in Seq(Nat \cup {Null})
        BY <3>1, TreeParts, SMT DEF IrepsOf
      <3>5. Len(part.lv) \in Nat /\ part.nlocals = Len(part.lv) + 1
        BY <1>6, <3>4
      <3>6. QED
        BY <3>2, <3>3, <3>5
    <2>2. (\A part \in Parts[irep] : Len(lvown[part]) = lvsize[part])
            => Len(LvRecords[irep]) = LvSize[irep]
      BY <1>5, ChainLength
    <2>3. QED
      BY <2>1, <2>2, Zenon
  <1>7. QED
    BY <1>4, <1>6, Zenon

\* A model that can be written: an irep for every name of a local that it has room for.
Writable(model) ==
  /\ model.root \in Trees /\ model.debugRaw \in Optional(Seq(Nat))
  /\ model.lvarSyms \in Optional(Seq(Seq(Nat)))
  /\ model.lvarSyms # <<>> => \A part \in Parts[model.root] : part.nlocals = Len(part.lv) + 1

\* Names with their lengths in front.
NamesOf(names) == Joined(LAMBDA name : U16(Len(name)) \o name, names)
LEMMA NamesFit ==
  ASSUME NEW names \in Seq(Seq(Nat))
  PROVE  /\ NamesOf(names) \in Seq(Nat)
         /\ Fits(NamesOf(names), Total(Each(LAMBDA name : 2 + Len(name), names)))
         /\ Total(Each(LAMBDA name : 2 + Len(name), names)) \in Nat
  <1> DEFINE n     == Len(names)
             parts == Each(LAMBDA name : U16(Len(name)) \o name, names)
             sizes == Each(LAMBDA name : 2 + Len(name), names)
  <1>1. n \in Nat /\ DOMAIN names = 1 .. n /\ IsSequence(names)
    BY Zenon, LengthType DEF IsSequence
  <1>2. parts = [i \in 1 .. n |-> U16(Len(names[i])) \o names[i]]
        /\ sizes = [i \in 1 .. n |-> 2 + Len(names[i])]
    BY <1>1, Zenon DEF Each
  <1>3. NamesOf(names) = FlattenSeq(parts)
    BY Zenon DEF NamesOf, Joined
  <1> HIDE DEF n, parts, sizes
  <1>4. ASSUME NEW i \in 1 .. n
        PROVE  parts[i] \in Seq(Nat) /\ sizes[i] \in Nat /\ Fits(parts[i], sizes[i])
    <2> DEFINE name == names[i]
    <2>1. name \in Seq(Nat) /\ Len(name) \in Nat
      BY <1>1
    <2>2. parts[i] = U16(Len(name)) \o name /\ sizes[i] = 2 + Len(name)
      BY <1>2, Zenon
    <2> HIDE DEF name
    <2>3. IsSequence(name)
      BY <2>1, Zenon DEF IsSequence
    <2>4. U16(Len(name)) \in Seq(Nat)
      <3>1. Len(name) \in Int
        BY <2>1
      <3>2. QED
        BY <3>1, NumberBytes, Zenon
    <2>5. parts[i] \in Seq(Nat)
      BY <2>1, <2>2, <2>4, ConcatProperties, Zenon
    <2>6. Fits(name, Len(name)) /\ Fits(U16(Len(name)), 2)
      BY <2>3, LengthType, SmallNumbers, Zenon
    <2>7. Fits(parts[i], sizes[i])
      BY <2>2, <2>6, FitsTogether, Zenon
    <2>8. sizes[i] \in Nat
      BY <2>1, <2>2
    <2>9. QED
      BY <2>5, <2>7, <2>8
  <1>5. sizes \in [1 .. n -> Nat] /\ parts = [i \in 1 .. n |-> parts[i]]
    BY <1>2, <1>4, Zenon
  <1>6. Fits(FlattenSeq(parts), Total(sizes))
    BY <1>1, <1>4, <1>5, JoinedFits, Zenon
  <1>7. FlattenSeq(parts) \in Seq(Nat)
    BY <1>1, <1>4, <1>5, JoinedBytes, Zenon
  <1>8. Total(sizes) \in Nat
    <2>1. sizes \in Seq(Nat)
      BY <1>1, <1>5, ListIs, Zenon
    <2>2. QED
      BY <2>1, TotalType
  <1>9. QED
    BY <1>3, <1>6, <1>7, <1>8, Zenon DEF sizes

LEMMA IdentFits ==
  ASSUME NEW n \in Nat
  PROVE  Ident(n) \in Seq(Nat) /\ Len(Ident(n)) = 4
  BY DEF Ident

\* Lengths of sequences written one after the other.
LEMMA LengthOfTwo ==
  ASSUME NEW a \in Seq(Nat), NEW b \in Seq(Nat)
  PROVE  a \o b \in Seq(Nat) /\ Len(a \o b) = Len(a) + Len(b)
  BY ConcatProperties

LEMMA LvarSectionFits ==
  ASSUME NEW model, Writable(model)
  PROVE  /\ LvarSection(model) \in Seq(Nat) /\ LvarSize(model) \in Int
         /\ Len(LvarSection(model)) = LvarSize(model)
  <1>1. CASE model.lvarSyms = <<>>
    <2>1. LvarSection(model) = <<>> /\ LvarSize(model) = 0
      BY <1>1, Zenon DEF LvarSection, LvarSize
    <2>2. QED
      BY <2>1
  <1>2. CASE model.lvarSyms # <<>>
    <2> DEFINE names == model.lvarSyms[1]
               count == U32(Len(names))
               size  == U32(LvarSize(model))
               total == Total(Each(LAMBDA name : 2 + Len(name), names))
               recs  == LvRecords[model.root]
    <2>1. names \in Seq(Seq(Nat))
      BY <1>2 DEF Writable, Optional
    <2>2. LvarSection(model) = LVAR \o size \o count \o NamesOf(names) \o recs
          /\ LvarSize(model) = 12 + total + LvSize[model.root]
      BY <1>2, Zenon DEF LvarSection, LvarSize, NamesOf
    <2>3. model.root \in Trees /\ \A part \in Parts[model.root] : part.nlocals = Len(part.lv) + 1
      BY <1>2 DEF Writable
    <2>4. recs \in Seq(Nat) /\ Len(recs) = LvSize[model.root] /\ LvSize[model.root] \in Int
      BY <2>3, NestedRecordsFit, LvRecordsEquation, LvSizeEquation
    <2>5. Len(names) \in Int
      BY <2>1
    <2> HIDE DEF names
    <2>6. NamesOf(names) \in Seq(Nat) /\ Len(NamesOf(names)) = total /\ total \in Nat
      BY <2>1, NamesFit, Zenon DEF Fits
    <2> HIDE DEF count, size, recs, total
    <2>7. LvarSize(model) \in Int
      BY <2>2, <2>4, <2>6
    <2>8. count \in Seq(Nat) /\ size \in Seq(Nat) /\ Len(count) = 4 /\ Len(size) = 4
      BY <2>5, <2>7, NumberBytes, SmallNumbers, Zenon DEF count, size, Fits
    <2>9. LVAR \in Seq(Nat) /\ Len(LVAR) = 4
      BY IdentFits DEF LVAR
    <2>10. LVAR \o size \in Seq(Nat) /\ Len(LVAR \o size) = 4 + 4
      BY <2>8, <2>9, LengthOfTwo, Zenon
    <2>11. LVAR \o size \o count \in Seq(Nat) /\ Len(LVAR \o size \o count) = (4 + 4) + 4
      BY <2>8, <2>10, LengthOfTwo, Zenon
    <2>12. LVAR \o size \o count \o NamesOf(names) \in Seq(Nat)
           /\ Len(LVAR \o size \o count \o NamesOf(names)) = ((4 + 4) + 4) + total
      BY <2>6, <2>11, LengthOfTwo, Zenon
    <2>13. LvarSection(model) \in Seq(Nat)
           /\ Len(LvarSection(model)) = (((4 + 4) + 4) + total) + LvSize[model.root]
      BY <2>2, <2>4, <2>12, LengthOfTwo, Zenon
    <2>14. QED
      BY <2>2, <2>4, <2>6, <2>7, <2>13
  <1>3. QED
    BY <1>1, <1>2

\* The length in the header of a file is that of the file (writer.rs write_rite, its debug
\* assertion).
THEOREM FilesFit ==
  ASSUME NEW model, Writable(model)
  PROVE  /\ WriteRite(model) \in Seq(Nat) /\ Len(WriteRite(model)) = BinarySize(model)
         /\ BinarySize(model) \in Int
  <1> DEFINE record == Record[model.root]
             debug  == DebugBytes(model)
             lvar   == LvarSection(model)
             a == RITE \o VERSION \o U32(BinarySize(model)) \o COMPILER \o COMPILER_VERSION
             b == a \o IREP \o U32(IrepSize(model)) \o VERSION
             c == b \o record \o debug \o lvar
  <1>1. WriteRite(model) = c \o END \o U32(8)
    BY Zenon DEF WriteRite
  <1>2. BinarySize(model) = 20 + IrepSize(model) + Len(debug) + LvarSize(model) + 8
        /\ IrepSize(model) = 12 + RecordSize[model.root]
    BY Zenon DEF BinarySize, IrepSize
  <1>3. model.root \in Trees
    BY DEF Writable
  <1>4. record \in Seq(Nat) /\ Len(record) = RecordSize[model.root] /\ RecordSize[model.root] \in Nat
    BY <1>3, NestedRecordsFit, RecordEquation, RecordSizeEquation
  <1>5. debug \in Seq(Nat)
    BY DebugBytesType, Zenon DEF Writable
  <1>6. lvar \in Seq(Nat) /\ LvarSize(model) \in Int /\ Len(lvar) = LvarSize(model)
    BY LvarSectionFits, Zenon
  <1>7. Len(debug) \in Nat
    BY <1>5
  <1> HIDE DEF record, debug, lvar
  <1> DEFINE x == RecordSize[model.root]
             y == Len(debug)
             z == LvarSize(model)
             m == IrepSize(model)
             n == BinarySize(model)
  <1>8. x \in Nat /\ y \in Nat /\ z \in Int /\ m = 12 + x /\ n = 20 + m + y + z + 8
    BY <1>2, <1>4, <1>6, <1>7, Zenon
  <1>9. m \in Int /\ n \in Int /\ 8 \in Int /\ n = 32 + x + y + z + 8
    <2> HIDE DEF x, y, z, m, n
    <2>1. QED
      BY <1>8
  <1> DEFINE s == U32(BinarySize(model))
             t == U32(IrepSize(model))
             u == U32(8)
  <1>10. s \in Seq(Nat) /\ t \in Seq(Nat) /\ u \in Seq(Nat) /\ Len(s) = 4 /\ Len(t) = 4 /\ Len(u) = 4
    BY <1>9, NumberBytes, SmallNumbers, Zenon DEF Fits
  <1>11. /\ RITE \in Seq(Nat) /\ VERSION \in Seq(Nat) /\ COMPILER \in Seq(Nat)
         /\ COMPILER_VERSION \in Seq(Nat) /\ IREP \in Seq(Nat) /\ END \in Seq(Nat)
         /\ Len(RITE) = 4 /\ Len(VERSION) = 4 /\ Len(COMPILER) = 4 /\ Len(COMPILER_VERSION) = 4
         /\ Len(IREP) = 4 /\ Len(END) = 4
    BY IdentFits DEF RITE, VERSION, COMPILER, COMPILER_VERSION, IREP, END
  <1> HIDE DEF s, t, u
  <1>12. a \in Seq(Nat) /\ Len(a) = 20
    <2> DEFINE r == RITE
               v == VERSION
    <2>6. r \in Seq(Nat) /\ v \in Seq(Nat) /\ Len(r) = 4 /\ Len(v) = 4
      BY <1>11, Zenon
    <2>7. r \o v \in Seq(Nat) /\ Len(r \o v) = Len(r) + Len(v)
      <3> HIDE DEF r, v
      <3>1. QED
        BY <2>6, LengthOfTwo, Zenon
    <2>1. RITE \o VERSION \in Seq(Nat) /\ Len(RITE \o VERSION) = 4 + 4
      BY <2>6, <2>7, Zenon
    <2>2. RITE \o VERSION \o s \in Seq(Nat) /\ Len(RITE \o VERSION \o s) = 4 + 4 + 4
      BY <1>10, <2>1, LengthOfTwo, Zenon
    <2>3. RITE \o VERSION \o s \o COMPILER \in Seq(Nat)
          /\ Len(RITE \o VERSION \o s \o COMPILER) = 4 + 4 + 4 + 4
      BY <1>11, <2>2, LengthOfTwo, Zenon
    <2>4. a \in Seq(Nat) /\ Len(a) = 4 + 4 + 4 + 4 + 4
      BY <1>11, <2>3, LengthOfTwo, Zenon DEF s
    <2> HIDE DEF a
    <2>5. QED
      BY <2>4
  <1>13. b \in Seq(Nat) /\ Len(b) = 32
    <2> HIDE DEF a
    <2>1. a \o IREP \in Seq(Nat) /\ Len(a \o IREP) = 20 + 4
      BY <1>11, <1>12, LengthOfTwo, Zenon
    <2>2. a \o IREP \o t \in Seq(Nat) /\ Len(a \o IREP \o t) = 20 + 4 + 4
      BY <1>10, <2>1, LengthOfTwo, Zenon
    <2>3. b \in Seq(Nat) /\ Len(b) = 20 + 4 + 4 + 4
      BY <1>11, <2>2, LengthOfTwo, Zenon DEF t
    <2> HIDE DEF b
    <2>4. QED
      BY <2>3
  <1> HIDE DEF a, b
  <1>14. c \in Seq(Nat) /\ Len(c) = 32 + RecordSize[model.root] + Len(debug) + LvarSize(model)
    <2>1. b \o record \in Seq(Nat) /\ Len(b \o record) = 32 + RecordSize[model.root]
      BY <1>4, <1>13, LengthOfTwo, Zenon
    <2>2. b \o record \o debug \in Seq(Nat)
          /\ Len(b \o record \o debug) = 32 + RecordSize[model.root] + Len(debug)
      BY <1>5, <2>1, LengthOfTwo, Zenon
    <2>3. QED
      BY <1>6, <2>2, LengthOfTwo, Zenon
  <1> HIDE DEF c
  <1>15. c \o END \in Seq(Nat) /\ Len(c \o END) = Len(c) + 4
    BY <1>11, <1>14, LengthOfTwo, Zenon
  <1>16. WriteRite(model) \in Seq(Nat) /\ Len(WriteRite(model)) = (Len(c) + 4) + 4
    BY <1>1, <1>10, <1>15, LengthOfTwo, Zenon DEF u
  <1>17. Len(c) = 32 + x + y + z
    BY <1>14, Zenon
  <1>18. Len(WriteRite(model)) = n
    <2> DEFINE k == Len(c)
    <2>1. Len(WriteRite(model)) = (k + 4) + 4
      BY <1>16, Zenon
    <2>2. k = 32 + x + y + z
      BY <1>17, Zenon
    <2> HIDE DEF k, x, y, z, n
    <2>3. QED
      BY <1>8, <1>9, <2>1, <2>2
  <1>19. QED
    BY <1>16, <1>18, <1>9, Zenon

--------------------------------------------------------------------------------
(* What open scopes hold.                                                       *)

\* The literals, symbols and catch handlers of a scope are within their limits, and so are
\* those of a finished irep; it has a register for each local and one for self, and the
\* names of its locals are among the first n of the table.
Capped(s) == Len(s.pool) <= PoolMax /\ Len(s.syms) <= s.cap /\ s.cap \in 1 .. SymMax
Numbered(irep, n) ==
  /\ irep.nlocals = Len(irep.lv) + 1
  /\ \A k \in DOMAIN irep.lv : irep.lv[k] # Null => irep.lv[k] < n
  /\ Len(irep.pool) <= PoolMax /\ Len(irep.syms) <= SymMax /\ Len(irep.handlers) <= 1
Made(d, n) == {irep \in Tree[d] : \A part \in Parts[irep] : Numbered(part, n)}
Held(s, d, n) ==
  /\ s.pool \in Seq(PoolValues) /\ s.syms \in Seq(Names) /\ s.handlers \in Optional(Handlers)
  /\ s.reps \in Seq(Made(d, n)) /\ Capped(s)

\* The tables that most of what handlers do leaves alone.
Keeps(s, t) ==
  t.pool = s.pool /\ t.syms = s.syms /\ t.cap = s.cap /\ t.handlers = s.handlers /\ t.reps = s.reps

LEMMA KeepsHeld ==
  ASSUME NEW s, NEW t, NEW d, NEW n, Held(s, d, n), Keeps(s, t)
  PROVE  Held(t, d, n)
  BY Zenon DEF Held, Keeps, Capped

LEMMA AskKeeps ==
  ASSUME NEW u, Buffered(u), NEW what
  PROVE  Keeps(u, Ask(u, what))
  <1> DEFINE asked == [u.asked EXCEPT !.code = Append(@, [what |-> what, line |-> u.line])]
  <1>1. DOMAIN u = ScopeFields
    BY Zenon DEF Buffered
  <1>2. Ask(u, what) = [u EXCEPT !.asked = asked]
    BY Zenon DEF Ask
  <1> HIDE DEF asked
  <1>3. Keeps(u, [u EXCEPT !.asked = asked])
    BY <1>1 DEF Keeps, ScopeFields
  <1>4. QED
    BY <1>2, <1>3, Zenon

LEMMA PlainKeeps ==
  ASSUME NEW s, Sound(s)
  PROVE  Keeps(s, Insn0(s, Plain, <<Plain>>))
  <1> DEFINE r == [s EXCEPT !.lastpc = s.pc]
             u == EmitB(r, Plain)
  <1>1. Insn0(s, Plain, <<Plain>>) = Ask(u, <<Plain>>)
    BY Zenon DEF Insn0
  <1>2. Untouched(s, r) /\ Buffered(r) /\ Unlined(r)
    BY MarkEffect
  <1> HIDE DEF r
  <1>3. Untouched(r, u) /\ Buffered(u)
    <2>1. Plain \in Nat
      BY DEF Plain
    <2>2. QED
      BY <1>2, <2>1, EmitBEffect, Zenon
  <1> HIDE DEF u
  <1>4. Keeps(u, Ask(u, <<Plain>>))
    BY <1>3, AskKeeps, Zenon
  <1>5. QED
    BY <1>1, <1>2, <1>3, <1>4, Zenon DEF Keeps, Untouched

LEMMA OperandKeeps ==
  ASSUME NEW s, Sound(s), NEW kind \in {Lit, Symb, Jmp}, NEW operand \in Nat, NEW what
  PROVE  Keeps(s, Insn1(s, kind, operand, what))
  <1> DEFINE r == [s EXCEPT !.lastpc = s.pc]
             v == EmitB(r, kind)
             u == EmitB(v, operand)
  <1>1. Insn1(s, kind, operand, what) = Ask(u, what)
    BY Zenon DEF Insn1
  <1>2. Untouched(s, r) /\ Buffered(r) /\ Unlined(r)
    BY MarkEffect
  <1> HIDE DEF r
  <1>3. Untouched(r, v) /\ Buffered(v) /\ Unlined(v)
    <2>1. kind \in Nat
      BY DEF Lit, Symb, Jmp
    <2>2. QED
      BY <1>2, <2>1, EmitBEffect, Zenon
  <1> HIDE DEF v
  <1>4. Untouched(v, u) /\ Buffered(u)
    BY <1>3, EmitBEffect, Zenon
  <1> HIDE DEF u
  <1>5. Keeps(u, Ask(u, what))
    BY <1>4, AskKeeps, Zenon
  <1>6. QED
    BY <1>1, <1>2, <1>3, <1>4, <1>5, Zenon DEF Keeps, Untouched

LEMMA OthersKeep ==
  ASSUME NEW s, Sound(s)
  PROVE  /\ \A line : Keeps(s, [s EXCEPT !.line = line])
         /\ Keeps(s, [s EXCEPT !.pc = s.lastpc, !.asked.code = SubSeq(@, 1, Len(@) - 1)])
  <1>1. DOMAIN s = ScopeFields
    BY Zenon DEF Sound, Buffered
  <1>2. ASSUME NEW line PROVE Keeps(s, [s EXCEPT !.line = line])
    BY <1>1 DEF Keeps, ScopeFields
  <1>3. Keeps(s, [s EXCEPT !.pc = s.lastpc, !.asked.code = SubSeq(@, 1, Len(@) - 1)])
    <2> DEFINE asked == [s.asked EXCEPT !.code = SubSeq(@, 1, Len(@) - 1)]
    <2>1. [s EXCEPT !.pc = s.lastpc, !.asked.code = SubSeq(@, 1, Len(@) - 1)]
            = [s EXCEPT !.pc = s.lastpc, !.asked = asked]
      BY Zenon
    <2> HIDE DEF asked
    <2>2. Keeps(s, [s EXCEPT !.pc = s.lastpc, !.asked = asked])
      BY <1>1 DEF Keeps, ScopeFields
    <2>3. QED
      BY <2>1, <2>2, Zenon
  <1>4. QED
    BY <1>2, <1>3, Zenon

LEMMA PatchKeeps ==
  ASSUME NEW s, Sound(s), NEW i \in DOMAIN s.asked.code, s.asked.code[i].what = <<Jmp, 0>>
  PROVE  Keeps(s, [PokeB(s, Ends(s.asked.code)[i - 1] + 1, s.pc)
                     EXCEPT !.asked.code[i].what = <<Jmp, s.pc>>])
  <1> DEFINE code  == s.asked.code
             n     == Len(code)
             e     == Ends(code)
             at    == e[i - 1]
             p     == PokeB(s, at + 1, s.pc)
             asked == [p.asked EXCEPT !.code[i].what = <<Jmp, s.pc>>]
             t     == [p EXCEPT !.asked = asked]
  <1>1. Buffered(s) /\ code \in Seq(Insns) /\ s.pc = e[n]
    BY Zenon DEF Sound, Spelled
  <1>2. s.pc \in Nat /\ s.pc \in 0 .. Len(s.iseq) /\ Len(s.iseq) \in Nat
    BY <1>1 DEF Buffered
  <1>3. i \in 1 .. n /\ Len(code[i].what) = 2
    BY <1>1
  <1> HIDE DEF code, n, e
  <1>4. at + 2 \in 1 .. s.pc /\ at \in Nat
    <2>1. 2 \in 1 .. Len(code[i].what)
      BY <1>3
    <2>2. at + 2 \in 1 .. e[n] /\ at \in Nat
      BY <1>1, <1>3, <2>1, InsnInside DEF e, n
    <2>3. QED
      BY <1>1, <2>2
  <1>5. Untouched(s, p)
    <2> DEFINE q == at + 1
    <2>1. q \in 0 .. Len(s.iseq)
      BY <1>2, <1>4
    <2> HIDE DEF q
    <2>2. Untouched(s, PokeB(s, q, s.pc))
      BY <1>1, <1>2, <2>1, PokeBEffect
    <2>3. QED
      BY <2>2, Zenon DEF q
  <1>6. [p EXCEPT !.asked.code[i].what = <<Jmp, s.pc>>] = t
    BY Zenon
  <1> HIDE DEF p, asked
  <1>7. Keeps(p, t)
    BY <1>5 DEF Keeps, ScopeFields, Untouched
  <1>8. Keeps(s, t)
    BY <1>5, <1>7, Zenon DEF Keeps, Untouched
  <1>9. QED
    BY <1>6, <1>8, Zenon DEF p, at, e, code

LEMMA NewLitHeld ==
  ASSUME NEW s, Sound(s), NEW d, NEW n, Held(s, d, n), NEW literal \in LiteralTypes,
         ~TooManyLiterals(s, literal)
  PROVE  Held(NewLit(s, literal), d, n)
  <1> DEFINE entry == PoolValue(IF literal.type = "Int" THEN "Int64" ELSE literal.type, literal.data)
             pool  == Append(s.pool, entry)
             u     == [s EXCEPT !.pool = pool]
  <1>1. CASE LitPlace(s, literal) # 0
    BY <1>1, Zenon DEF NewLit
  <1>2. CASE LitPlace(s, literal) = 0
    <2>1. NewLit(s, literal) = u
      BY <1>2, Zenon DEF NewLit
    <2>2. entry \in PoolValues
      <3>1. CASE literal \in Valued({"Int"}, [1 .. 1 -> Int64s])
        <4>1. literal.type = "Int" /\ literal.data \in [1 .. 1 -> Int64s]
          BY <3>1 DEF Valued
        <4>2. entry = PoolValue("Int64", literal.data)
          BY <4>1, Zenon
        <4>3. entry \in Valued({"Int64"}, [1 .. 1 -> Int64s])
          BY <4>1, <4>2 DEF PoolValue, Valued
        <4>4. QED
          BY <4>3, Zenon DEF PoolValues
      <3>2. CASE literal \in Strings
        <4>1. literal.type # "Int"
          BY <3>2 DEF Strings, Valued
        <4>2. entry = PoolValue(literal.type, literal.data)
          BY <4>1, Zenon
        <4>3. PoolValue(literal.type, literal.data) = literal
          BY <3>2 DEF Strings, Valued, PoolValue
        <4>4. QED
          BY <3>2, <4>2, <4>3, Zenon DEF PoolValues
      <3>3. QED
        BY <3>1, <3>2, Zenon DEF LiteralTypes
    <2> HIDE DEF entry
    <2>3. s.pool \in Seq(PoolValues) /\ Len(s.pool) <= PoolMax /\ Len(s.pool) # PoolMax
      BY <1>2, Zenon DEF Held, Capped, TooManyLiterals
    <2>4. pool \in Seq(PoolValues) /\ Len(pool) = Len(s.pool) + 1 /\ Len(s.pool) \in Nat
      BY <2>2, <2>3
    <2> HIDE DEF pool
    <2>5. Len(pool) <= PoolMax
      BY <2>3, <2>4, IrepsAssumption, BaseType
    <2>6. /\ u.pool = pool /\ u.syms = s.syms /\ u.cap = s.cap /\ u.handlers = s.handlers
          /\ u.reps = s.reps
      <3>1. DOMAIN s = ScopeFields
        BY Zenon DEF Sound, Buffered
      <3>2. QED
        BY <3>1 DEF ScopeFields
    <2> HIDE DEF u
    <2>7. Held(u, d, n)
      BY <2>4, <2>5, <2>6, Zenon DEF Held, Capped
    <2>8. QED
      BY <2>1, <2>7, Zenon
  <1>3. QED
    BY <1>1, <1>2

LEMMA NewSymHeld ==
  ASSUME NEW s, Sound(s), NEW d, NEW n, Held(s, d, n), NEW name \in Names,
         ~TooManySymbols(s, name)
  PROVE  Held(NewSym(s, name), d, n)
  <1> DEFINE syms == Append(s.syms, name)
             cap  == IF SymsFull(s) THEN 2 * s.cap ELSE s.cap
             u    == [s EXCEPT !.syms = syms, !.cap = cap]
  <1>1. CASE SymPlace(s, name) # 0
    BY <1>1, Zenon DEF NewSym
  <1>2. CASE SymPlace(s, name) = 0
    <2>1. NewSym(s, name) = u
      BY <1>2, Zenon DEF NewSym
    <2>2. s.syms \in Seq(Names) /\ Len(s.syms) <= s.cap /\ s.cap \in 1 .. SymMax
      BY DEF Held, Capped
    <2>3. syms \in Seq(Names) /\ Len(syms) = Len(s.syms) + 1 /\ Len(s.syms) \in Nat
      BY <2>2
    <2>4. SymMax \in Nat
      BY IrepsAssumption, BaseType
    <2>5. SymsFull(s) => 2 * s.cap <= SymMax
      <3>1. SymsFull(s) => ~(2 * s.cap > SymMax)
        BY <1>2, Zenon DEF TooManySymbols
      <3>2. QED
        BY <2>2, <2>4, <3>1
    <2>6. Len(syms) <= cap /\ cap \in 1 .. SymMax
      <3>1. CASE SymsFull(s)
        <4>1. cap = 2 * s.cap
          BY <3>1, Zenon
        <4>2. QED
          BY <2>2, <2>3, <2>4, <2>5, <3>1, <4>1
      <3>2. CASE ~SymsFull(s)
        <4>1. cap = s.cap /\ ~(Len(s.syms) >= s.cap)
          BY <3>2, Zenon DEF SymsFull
        <4>2. QED
          BY <2>2, <2>3, <2>4, <4>1
      <3>3. QED
        BY <3>1, <3>2, Zenon
    <2> HIDE DEF syms, cap
    <2>7. /\ u.pool = s.pool /\ u.syms = syms /\ u.cap = cap /\ u.handlers = s.handlers
          /\ u.reps = s.reps
      <3>1. DOMAIN s = ScopeFields
        BY Zenon DEF Sound, Buffered
      <3>2. QED
        BY <3>1 DEF ScopeFields
    <2> HIDE DEF u
    <2>8. Held(u, d, n)
      BY <2>3, <2>6, <2>7, Zenon DEF Held, Capped
    <2>9. QED
      BY <2>1, <2>8, Zenon
  <1>3. QED
    BY <1>1, <1>2

LEMMA CatchHeld ==
  ASSUME NEW s, Sound(s), NEW d, NEW n, Held(s, d, n), NEW handler \in Handlers, s.handlers = <<>>
  PROVE  Held([s EXCEPT !.handlers = Append(@, handler), !.asked.handlers = Append(@, handler)], d, n)
  <1> DEFINE hs    == Append(s.handlers, handler)
             asked == [s.asked EXCEPT !.handlers = Append(@, handler)]
             t     == [s EXCEPT !.handlers = hs, !.asked = asked]
  <1>1. [s EXCEPT !.handlers = Append(@, handler), !.asked.handlers = Append(@, handler)] = t
    BY Zenon
  <1>2. hs \in Optional(Handlers)
    BY DEF Optional
  <1> HIDE DEF hs, asked
  <1>3. t.pool = s.pool /\ t.syms = s.syms /\ t.cap = s.cap /\ t.handlers = hs /\ t.reps = s.reps
    <2>1. DOMAIN s = ScopeFields
      BY Zenon DEF Sound, Buffered
    <2>2. QED
      BY <2>1 DEF ScopeFields
  <1> HIDE DEF t
  <1>4. Held(t, d, n)
    BY <1>2, <1>3, Zenon DEF Held, Capped
  <1>5. QED
    BY <1>1, <1>4, Zenon

LEMMA ScopeHeld ==
  ASSUME NEW parent, NEW locals, NEW d, NEW n
  PROVE  Held(Scope(parent, locals), d, n)
  <1> DEFINE s == Scope(parent, locals)
  <1>1. s.pool = <<>> /\ s.syms = <<>> /\ s.cap = SymCap /\ s.handlers = <<>> /\ s.reps = <<>>
    BY DEF Scope
  <1> HIDE DEF s
  <1>2. Capped(s)
    BY <1>1, IrepsAssumption, BaseType DEF Capped
  <1>3. QED
    BY <1>1, <1>2 DEF Held, Optional, s

\* A scope that is finished becomes such an irep.
LEMMA FinishMade ==
  ASSUME NEW s, Sound(s), Named(s, lvarNames), lvarNames \in Seq(Names), NEW temps \in Nat,
         NEW d \in 0 .. Depth - 1, Held(s, d, Len(lvarNames))
  PROVE  Finish(s, temps) \in Made(d + 1, Len(lvarNames))
  <1> DEFINE n     == Len(lvarNames)
             m     == Len(s.lv)
             iseq  == Emitted(s, s.iseq)
             lines == Emitted(s, s.lines)
             syms  == Present(s.syms)
             lv    == Each(LAMBDA name : IF name = <<>> THEN Null ELSE LvarIndex(name), s.lv)
             files == IF s.pc > 0 THEN <<DebugFile(0, Filename, lines)>> ELSE <<>>
             debug == <<[files |-> files]>>
             irep  == Finish(s, temps)
             e     == d + 1
  <1>1. Buffered(s) /\ s.lv \in Seq(Names)
    BY Zenon DEF Sound
  <1>2. /\ s.iseq \in Seq(Nat) /\ s.lines \in Seq(LineType) /\ Len(s.lines) = Len(s.iseq)
        /\ s.pc \in 0 .. Len(s.iseq)
    BY <1>1 DEF Buffered, LineTable, LineType
  <1>3. iseq \in Seq(Nat) /\ lines \in Seq(LineType)
    BY <1>2, FrontOf DEF Emitted
  <1>4. /\ s.pool \in Seq(PoolValues) /\ s.syms \in Seq(Names) /\ s.handlers \in Optional(Handlers)
        /\ s.reps \in Seq(Made(d, n)) /\ Len(s.pool) <= PoolMax /\ Len(s.syms) <= SymMax
    BY IrepsAssumption, BaseType DEF Held, Capped
  <1>5. m \in Nat /\ DOMAIN s.lv = 1 .. m /\ m + 1 \in Nat /\ (m + 1) + temps \in Nat /\ n \in Nat
        /\ IsSequence(lvarNames)
    <2>1. m \in Nat /\ DOMAIN s.lv = 1 .. m /\ n \in Nat
      BY <1>1
    <2>2. IsSequence(lvarNames)
      BY Zenon DEF IsSequence
    <2> HIDE DEF m, n
    <2>3. QED
      BY <2>1, <2>2
  <1>6. irep = Irep(m + 1, (m + 1) + temps, iseq, s.handlers, s.pool, syms, s.reps, lv, debug)
    BY Zenon DEF Finish
  <1>7. syms \in Seq(Optional(Seq(Nat))) /\ Len(syms) = Len(s.syms)
    <2> DEFINE k == Len(s.syms)
    <2>1. k \in Nat /\ DOMAIN s.syms = 1 .. k
      BY <1>4
    <2>2. syms = [i \in 1 .. k |-> <<s.syms[i]>>]
      BY <2>1, Zenon DEF Present, Each
    <2> HIDE DEF k, syms
    <2>3. ASSUME NEW i \in 1 .. k PROVE <<s.syms[i]>> \in Optional(Seq(Nat))
      <3>1. s.syms[i] \in Names
        BY <1>4, <2>1
      <3>2. Names \subseteq Seq(Nat)
        BY BaseType DEF Names
      <3>3. QED
        BY <3>1, <3>2 DEF Optional
    <2>4. syms \in [1 .. k -> Optional(Seq(Nat))]
      BY <2>2, <2>3, Zenon
    <2>5. QED
      BY <2>1, <2>4, ListIs, Zenon DEF k
  <1>8. lv = [i \in 1 .. m |-> IF s.lv[i] = <<>> THEN Null ELSE LvarIndex(s.lv[i])]
    BY <1>5, Zenon DEF Each
  <1> HIDE DEF iseq, lines, syms, lv, m, irep
  <1>9. ASSUME NEW i \in 1 .. m PROVE lv[i] \in Nat \cup {Null} /\ (lv[i] # Null => lv[i] < n)
    <2>1. CASE s.lv[i] = <<>>
      <3>1. lv[i] = Null
        BY <1>8, <2>1, Zenon
      <3>2. QED
        BY <3>1
    <2>2. CASE s.lv[i] # <<>>
      <3>1. lv[i] = LvarIndex(s.lv[i])
        BY <1>8, <2>2, Zenon
      <3>2. \E j \in DOMAIN lvarNames : lvarNames[j] = s.lv[i]
        BY <1>5, <2>2, Zenon DEF Named, InTable
      <3>3. LvarIndex(s.lv[i]) + 1 \in DOMAIN lvarNames /\ LvarIndex(s.lv[i]) \in Nat
        BY <1>5, <3>2, LvarPlaced
      <3>4. DOMAIN lvarNames = 1 .. n
        BY <1>5
      <3> HIDE DEF n
      <3>5. QED
        BY <1>5, <3>1, <3>3, <3>4
    <2>3. QED
      BY <2>1, <2>2
  <1>10. lv \in Seq(Nat \cup {Null}) /\ Len(lv) = m /\ DOMAIN lv = 1 .. m
    <2>1. lv \in [1 .. m -> Nat \cup {Null}]
      BY <1>8, <1>9, Zenon
    <2>2. QED
      BY <1>5, <2>1, ListIs, Zenon
  <1>11. debug \in Optional(DebugInfo)
    <2>1. DebugFile(0, Filename, lines) \in DebugFiles
      BY <1>3, BaseType DEF DebugFile, DebugFiles, Filename, LineType
    <2>2. files \in Seq(DebugFiles)
      BY <2>1
    <2> HIDE DEF files
    <2>3. [files |-> files] \in DebugInfo
      BY <2>2 DEF DebugInfo
    <2>4. QED
      BY <2>3 DEF Optional
  <1> HIDE DEF debug
  <1>12. e \in 1 .. Depth /\ e - 1 = d /\ e \in 0 .. Depth /\ d \in 0 .. Depth
    BY LayoutAssumption
  <1> HIDE DEF e
  <1>13. Tree[e] = IrepsOf(Tree[d]) /\ Tree[e] \subseteq Trees /\ Tree[d] \subseteq Trees
    BY <1>12, TreeEquation, TreeGrows, Zenon
  <1>14. s.reps \in Seq(Tree[d]) /\ s.handlers \in Seq(Handlers) /\ Len(s.handlers) <= 1
    <2>1. Made(d, n) \subseteq Tree[d]
      BY DEF Made
    <2>2. QED
      BY <1>4, <2>1 DEF Optional
  <1>15. irep \in Tree[e]
    <2>1. Irep(m + 1, (m + 1) + temps, iseq, s.handlers, s.pool, syms, s.reps, lv, debug)
            \in IrepsOf(Tree[d])
      BY <1>3, <1>4, <1>5, <1>7, <1>10, <1>11, <1>14, MakesIrep
    <2>2. QED
      BY <1>6, <1>13, <2>1, Zenon
  <1>16. /\ irep.nlocals = m + 1 /\ irep.lv = lv /\ irep.pool = s.pool /\ irep.syms = syms
         /\ irep.handlers = s.handlers /\ irep.reps = s.reps
    BY <1>6 DEF Irep
  <1>17. Numbered(irep, n)
    <2>1. \A k \in DOMAIN irep.lv : irep.lv[k] # Null => irep.lv[k] < n
      BY <1>9, <1>10, <1>16, Zenon
    <2>2. QED
      BY <1>4, <1>7, <1>10, <1>14, <1>16, <2>1, Zenon DEF Numbered
  <1>18. ASSUME NEW part \in Parts[irep] PROVE Numbered(part, n)
    <2>1. irep \in Trees
      BY <1>13, <1>15
    <2>2. Parts[irep] = {irep} \cup UNION {Parts[irep.reps[i]] : i \in DOMAIN irep.reps}
      BY <2>1, PartsEquation, Zenon
    <2>3. CASE part = irep
      BY <1>17, <2>3, Zenon
    <2>4. ASSUME NEW i \in DOMAIN irep.reps, part \in Parts[irep.reps[i]] PROVE Numbered(part, n)
      <3>1. irep.reps[i] \in Made(d, n)
        BY <1>4, <1>16
      <3>2. QED
        BY <2>4, <3>1 DEF Made
    <2>5. part = irep \/ \E i \in DOMAIN irep.reps : part \in Parts[irep.reps[i]]
      BY <2>2, Zenon
    <2>6. QED
      BY <2>3, <2>4, <2>5, Zenon
  <1>19. irep \in Made(e, n)
    BY <1>15, <1>18, Zenon DEF Made
  <1>20. QED
    BY <1>19, Zenon DEF irep, e, n

\* A longer table of names serves as well.
LEMMA MadeGrows ==
  ASSUME NEW d \in 0 .. Depth, NEW n \in Nat, NEW m \in Nat, n <= m
  PROVE  Made(d, n) \subseteq Made(d, m)
  <1>1. ASSUME NEW irep \in Made(d, n), NEW part \in Parts[irep] PROVE Numbered(part, m)
    <2>1. Numbered(part, n) /\ irep \in Tree[d]
      BY <1>1, Zenon DEF Made
    <2>2. irep \in Trees
      BY <2>1, TreeGrows
    <2>3. part \in Trees
      BY <1>1, <2>2, PartsOf
    <2>4. part.lv \in Seq(Nat \cup {Null})
      BY <2>3, TreeParts, SMT DEF IrepsOf
    <2>5. ASSUME NEW k \in DOMAIN part.lv, part.lv[k] # Null PROVE part.lv[k] < m
      <3>1. part.lv[k] \in Nat \cup {Null}
        BY <2>4
      <3>2. part.lv[k] < n
        BY <2>1, <2>5, Zenon DEF Numbered
      <3>3. QED
        BY <2>5, <3>1, <3>2
    <2>6. QED
      BY <2>1, <2>5, Zenon DEF Numbered
  <1>2. QED
    BY <1>1, Zenon DEF Made

LEMMA HeldGrows ==
  ASSUME NEW d \in 0 .. Depth, NEW n \in Nat, NEW m \in Nat, n <= m, NEW s, Held(s, d, n)
  PROVE  Held(s, d, m)
  <1>1. s.reps \in Seq(Made(d, n)) /\ Made(d, n) \subseteq Made(d, m)
    BY MadeGrows DEF Held
  <1>2. s.reps \in Seq(Made(d, m))
    BY <1>1
  <1>3. QED
    BY <1>2, Zenon DEF Held

\* Every open scope has its tables within their limits, with finished ireps that are nested no
\* deeper than its place on the stack leaves room for; the program is finished when no scope is
\* open.
Filled ==
  /\ Len(stack) <= client.depth
  /\ \A i \in DOMAIN stack : Held(stack[i], Depth - i, Len(lvarNames))
  /\ root \in Optional(Made(Depth, Len(lvarNames))) /\ (root # <<>> => stack = <<>>)

LEMMA FilledShape ==
  ASSUME Inv, Filled
  PROVE  /\ IsSequence(stack) /\ Len(stack) \in Nat /\ DOMAIN stack = 1 .. Len(stack)
         /\ client.depth \in 1 .. Depth /\ Len(lvarNames) \in Nat
         /\ \A i \in DOMAIN stack : /\ Sound(stack[i]) /\ Named(stack[i], lvarNames)
                                    /\ Depth - i \in 0 .. Depth - 1
         /\ stack # <<>> => Len(stack) \in DOMAIN stack /\ Sound(Inner) /\ root = <<>>
  <1>1. /\ client \in Clients /\ lvarNames \in Seq(Names) /\ IsSequence(stack)
        /\ \A i \in DOMAIN stack : Sound(stack[i]) /\ Named(stack[i], lvarNames)
    BY Zenon DEF Inv
  <1>2. client.depth \in 1 .. Depth /\ Len(lvarNames) \in Nat
    BY <1>1, IrepsAssumption
  <1> DEFINE n == Len(stack)
             c == client.depth
  <1>3. n \in Nat /\ DOMAIN stack = 1 .. n
    BY <1>1, LengthType
  <1>4. n <= c
    BY Zenon DEF Filled
  <1>5. ASSUME stack # <<>> PROVE n \in DOMAIN stack /\ Sound(Inner) /\ root = <<>>
    <2>1. n \in DOMAIN stack
      BY <1>1, <1>5, ReplacesInner, Zenon
    <2>2. QED
      BY <1>1, <1>5, <2>1, Zenon DEF Inner, Filled
  <1> HIDE DEF n, c
  <1>6. ASSUME NEW i \in 1 .. n PROVE Depth - i \in 0 .. Depth - 1
    <2>1. c \in 1 .. Depth
      BY <1>2, Zenon DEF c
    <2>2. QED
      BY <1>3, <1>4, <2>1, LayoutAssumption
  <1>7. QED
    BY <1>1, <1>2, <1>3, <1>5, <1>6, Zenon DEF n

LEMMA DoesFills ==
  ASSUME Inv, Filled, stack # <<>>, NEW t, Does(t),
         Held(t, Depth - Len(stack), Len(lvarNames))
  PROVE  Filled'
  <1> DEFINE n == Len(stack)
  <1>1. IsSequence(stack) /\ n \in Nat /\ DOMAIN stack = 1 .. n
    BY FilledShape, Zenon
  <1>2. /\ client' = client /\ lvarNames' = lvarNames /\ root' = root
        /\ stack' = Append(Outer, t)
    BY Zenon DEF Does
  <1>3. /\ IsSequence(stack') /\ DOMAIN stack' = DOMAIN stack
        /\ stack'[n] = t /\ \A k \in DOMAIN stack : k # n => stack'[k] = stack[k]
    BY <1>1, <1>2, ReplacesInner, Zenon DEF Outer
  <1>4. Len(stack') = n
    <2> DEFINE m == Len(stack')
    <2>1. m \in Nat /\ DOMAIN stack' = 1 .. m
      BY <1>3, LengthType
    <2> HIDE DEF m, n
    <2>2. 1 .. m = 1 .. n
      BY <1>1, <1>3, <2>1, Zenon
    <2>3. m = n
      BY <1>1, <2>1, <2>2
    <2>4. QED
      BY <2>3, Zenon DEF m
  <1>5. ASSUME NEW i \in DOMAIN stack' PROVE Held(stack'[i], Depth - i, Len(lvarNames))
    <2>1. CASE i = n
      BY <1>3, <2>1, Zenon
    <2>2. CASE i # n
      BY <1>3, <2>2, Zenon DEF Filled
    <2>3. QED
      BY <2>1, <2>2, Zenon
  <1>6. root = <<>>
    BY FilledShape, Zenon
  <1>7. QED
    BY <1>2, <1>4, <1>5, <1>6, Zenon DEF Filled

LEMMA OpenFills ==
  ASSUME Inv, Filled, NEW locals \in Seq(Names), Open(locals)
  PROVE  Filled'
  <1> DEFINE n == Len(stack)
             c == client.depth
             t == Scope(Inner, locals)
             more == Register(lvarNames, locals)
             a == Len(lvarNames)
             b == Len(more)
  <1>1. /\ IsSequence(stack) /\ n \in Nat /\ DOMAIN stack = 1 .. n /\ a \in Nat
        /\ \A i \in DOMAIN stack : Depth - i \in 0 .. Depth - 1
    BY FilledShape, Zenon
  <1>2. /\ client' = client /\ lvarNames' = more /\ root' = root /\ stack' = Append(stack, t)
        /\ stack # <<>> /\ n < c
    BY Zenon DEF Open
  <1>3. more \in Seq(Names) /\ Extends(lvarNames, more) /\ lvarNames \in Seq(Names)
    BY RegisterEffect DEF Inv
  <1>4. b \in Nat /\ a <= b
    <2>1. b \in Nat /\ DOMAIN more = 1 .. b /\ DOMAIN lvarNames = 1 .. a
      BY <1>3
    <2> HIDE DEF a, b, more
    <2>2. \A k \in 1 .. a : k \in 1 .. b
      BY <1>3, <2>1, Zenon DEF Extends
    <2>3. QED
      BY <1>1, <2>1, <2>2
  <1> HIDE DEF a, b, more
  <1>5. Held(t, Depth - (n + 1), b)
    BY ScopeHeld
  <1> HIDE DEF t
  <1>6. /\ DOMAIN stack' = 1 .. n + 1 /\ Extends(stack, stack') /\ stack'[n + 1] = t
        /\ IsSequence(stack')
    BY <1>1, <1>2, AppendsOne
  <1>7. c \in 1 .. Depth
    BY FilledShape, Zenon
  <1> HIDE DEF c
  <1>8. Len(stack') = n + 1
    <2> DEFINE m == Len(stack')
    <2>1. m \in Nat /\ DOMAIN stack' = 1 .. m
      BY <1>6, LengthType
    <2> HIDE DEF m, n
    <2>2. 1 .. m = 1 .. n + 1
      BY <1>6, <2>1, Zenon
    <2>3. m = n + 1
      BY <1>1, <2>1, <2>2
    <2>4. QED
      BY <2>3, Zenon DEF m
  <1>9. ASSUME NEW i \in DOMAIN stack' PROVE Held(stack'[i], Depth - i, b)
    <2> HIDE DEF n
    <2>1. CASE i \in 1 .. n
      <3>1. stack'[i] = stack[i] /\ Held(stack[i], Depth - i, a) /\ Depth - i \in 0 .. Depth - 1
        BY <1>1, <1>6, <2>1, Zenon DEF Extends, Filled, a
      <3>2. Depth - i \in 0 .. Depth
        BY <3>1, LayoutAssumption
      <3>3. Held(stack[i], Depth - i, b)
        BY <1>1, <1>4, <3>1, <3>2, HeldGrows, Zenon
      <3>4. QED
        BY <3>1, <3>3, Zenon
    <2>2. CASE i = n + 1
      BY <1>5, <1>6, <2>2, Zenon
    <2>3. i \in 1 .. n \/ i = n + 1
      BY <1>1, <1>6
    <2>4. QED
      BY <2>1, <2>2, <2>3
  <1>10. n + 1 <= c
    <2> HIDE DEF n
    <2>1. QED
      BY <1>1, <1>2, <1>7
  <1>11. root' = <<>>
    BY <1>2, FilledShape, Zenon
  <1>12. root' \in Optional(Made(Depth, b))
    BY <1>11 DEF Optional
  <1>13. QED
    BY <1>2, <1>8, <1>9, <1>10, <1>11, <1>12, Zenon DEF Filled, c, b

LEMMA TakesHeld ==
  ASSUME NEW s, Sound(s), NEW d, NEW n, Held(s, d, n), NEW irep \in Made(d, n), NEW body
  PROVE  Held([s EXCEPT !.reps = Append(@, irep), !.asked.reps = Append(@, body)], d, n)
  <1> DEFINE reps  == Append(s.reps, irep)
             asked == [s.asked EXCEPT !.reps = Append(@, body)]
             t     == [s EXCEPT !.reps = reps, !.asked = asked]
  <1>1. [s EXCEPT !.reps = Append(@, irep), !.asked.reps = Append(@, body)] = t
    BY Zenon
  <1>2. reps \in Seq(Made(d, n))
    BY DEF Held
  <1> HIDE DEF reps, asked
  <1>3. /\ t.pool = s.pool /\ t.syms = s.syms /\ t.cap = s.cap /\ t.handlers = s.handlers
        /\ t.reps = reps
    <2>1. DOMAIN s = ScopeFields
      BY Zenon DEF Sound, Buffered
    <2>2. QED
      BY <2>1 DEF ScopeFields
  <1> HIDE DEF t
  <1>4. Held(t, d, n)
    BY <1>2, <1>3, Zenon DEF Held, Capped
  <1>5. QED
    BY <1>1, <1>4, Zenon

LEMMA CloseFills ==
  ASSUME Inv, Filled, NEW temps \in Nat, Close(temps)
  PROVE  Filled'
  <1> DEFINE n    == Len(stack)
             a    == Len(lvarNames)
             irep == Finish(Inner, temps)
             body == Inner.asked
             d    == Depth - n
  <1>1. /\ IsSequence(stack) /\ n \in Nat /\ DOMAIN stack = 1 .. n /\ a \in Nat /\ n <= client.depth
        /\ \A i \in DOMAIN stack : Sound(stack[i]) /\ Named(stack[i], lvarNames)
      BY FilledShape, Zenon DEF Filled
  <1>2. client' = client /\ lvarNames' = lvarNames /\ stack # <<>> /\ lvarNames \in Seq(Names)
    BY Zenon DEF Close, Inv
  <1>3. n \in DOMAIN stack /\ Sound(Inner) /\ root = <<>> /\ d \in 0 .. Depth - 1
        /\ Named(Inner, lvarNames) /\ Held(Inner, d, a)
    BY <1>2, FilledShape, Zenon DEF Filled, Inner
  <1>4. irep \in Made(d + 1, a)
    <2> HIDE DEF d
    <2>1. Finish(Inner, temps) \in Made(d + 1, Len(lvarNames))
      BY <1>2, <1>3, FinishMade
    <2>2. QED
      BY <2>1, Zenon
  <1> HIDE DEF irep, body
  <1>5. /\ n \in Nat \ {0} /\ IsSequence(Outer) /\ Len(Outer) = n - 1
        /\ DOMAIN Outer = 1 .. n - 1 /\ \A k \in 1 .. n - 1 : Outer[k] = stack[k]
    BY <1>1, <1>2, DropsOne DEF Outer
  <1> HIDE DEF n
  <1>6. CASE Outer = <<>>
    <2>1. stack' = <<>> /\ root' = <<irep>>
      BY <1>6, Zenon DEF Close, irep
    <2>2. n = 1
      <3>1. Len(Outer) = 0
        BY <1>6
      <3>2. QED
        BY <1>1, <1>5, <3>1
    <2>3. d + 1 = Depth
      BY <2>2, LayoutAssumption
    <2>4. root' \in Optional(Made(Depth, a))
      <3>1. irep \in Made(Depth, a)
        BY <1>4, <2>3, Zenon
      <3>2. QED
        BY <2>1, <3>1 DEF Optional
    <2>5. Len(stack') <= client.depth /\ DOMAIN stack' = {}
      <3>1. client.depth \in 1 .. Depth
        BY FilledShape, Zenon
      <3>2. QED
        BY <2>1, <3>1, LayoutAssumption
    <2>6. QED
      BY <1>2, <2>1, <2>4, <2>5, Zenon DEF Filled, a
  <1>7. CASE Outer # <<>>
    <2> DEFINE m == n - 1
               p == stack[m]
               q == [p EXCEPT !.reps = Append(@, irep), !.asked.reps = Append(@, body)]
    <2>1. m \in 1 .. n - 1 /\ m \in 1 .. n
      <3>1. n - 1 # 0
        BY <1>5, <1>7, DropsOne
      <3>2. QED
        BY <1>5, <3>1
    <2>2. m \in DOMAIN stack /\ m \in DOMAIN Outer /\ Outer[m] = p /\ Len(Outer) = m
      BY <1>1, <1>5, <2>1, Zenon
    <2>3. Depth - m = d + 1
      <3>1. n \in Nat
        BY <1>1, Zenon
      <3>2. QED
        BY <3>1, LayoutAssumption
    <2> HIDE DEF m
    <2>4. /\ stack' = [Outer EXCEPT ![m].reps = Append(@, irep), ![m].asked.reps = Append(@, body)]
          /\ root' = root
      BY <1>7, <2>2, Zenon DEF Close, irep, body
    <2>5. Held(q, Depth - m, a)
      <3>1. Sound(p) /\ Held(p, Depth - m, a)
        BY <1>1, <2>2, Zenon DEF Filled
      <3>2. irep \in Made(Depth - m, a)
        BY <1>4, <2>3, Zenon
      <3> HIDE DEF p
      <3>3. QED
        BY <3>1, <3>2, TakesHeld, Zenon
    <2>6. stack' = [Outer EXCEPT ![m] = q]
      <3> HIDE DEF p
      <3>1. QED
        BY <2>2, <2>4, Zenon
    <2> HIDE DEF q
    <2>7. /\ DOMAIN stack' = DOMAIN Outer /\ stack'[m] = q
          /\ \A k \in DOMAIN Outer : k # m => stack'[k] = Outer[k]
      BY <2>2, <2>6, Zenon
    <2>8. ASSUME NEW i \in DOMAIN stack' PROVE Held(stack'[i], Depth - i, a)
      <3>1. CASE i = m
        BY <2>5, <2>7, <3>1, Zenon
      <3>2. CASE i # m
        <4>1. i \in 1 .. n - 1 /\ i \in DOMAIN Outer
          BY <1>5, <2>7, Zenon
        <4>2. i \in 1 .. n
          BY <1>1, <4>1
        <4>3. stack'[i] = stack[i] /\ i \in DOMAIN stack
          BY <1>1, <1>5, <2>7, <3>2, <4>1, <4>2, Zenon
        <4>4. QED
          BY <4>3, Zenon DEF Filled
      <3>3. QED
        BY <3>1, <3>2, Zenon
    <2>9. Len(stack') <= client.depth
      <3> DEFINE k == Len(stack')
                 c == client.depth
      <3>1. IsSequence(stack')
        BY CloseKeeps, Zenon DEF Inv
      <3>2. k \in Nat /\ DOMAIN stack' = 1 .. k
        BY <3>1, LengthType
      <3>3. c \in 1 .. Depth /\ n <= c
        BY <1>1, FilledShape, Zenon
      <3> HIDE DEF k, c
      <3>4. 1 .. k = 1 .. n - 1
        BY <1>5, <2>7, <3>2, Zenon
      <3>5. k <= c
        BY <1>1, <2>1, <3>2, <3>3, <3>4
      <3>6. QED
        BY <3>5, Zenon DEF k, c
    <2>10. root' = <<>> /\ root' \in Optional(Made(Depth, a))
      <3>1. root' = <<>>
        BY <1>3, <2>4, Zenon
      <3>2. QED
        BY <3>1 DEF Optional
    <2>11. QED
      BY <1>2, <2>8, <2>9, <2>10, Zenon DEF Filled, a
  <1>8. QED
    BY <1>6, <1>7, Zenon

LEMMA FilledOpened ==
  ASSUME Opened
  PROVE  Filled
  <1> DEFINE top == Scope(TopScope, client.locals)
  <1>1. client \in Clients /\ stack = <<top>> /\ root = <<>>
    BY Zenon DEF Opened
  <1>2. Held(top, Depth - 1, Len(lvarNames))
    BY ScopeHeld
  <1> HIDE DEF top
  <1>3. DOMAIN stack = {1} /\ stack[1] = top /\ Len(stack) = 1
    BY <1>1
  <1>4. client.depth \in 1 .. Depth
    BY <1>1, IrepsAssumption, Zenon
  <1>5. Len(stack) <= client.depth
    BY <1>3, <1>4, LayoutAssumption
  <1>6. root \in Optional(Made(Depth, Len(lvarNames)))
    BY <1>1 DEF Optional
  <1>7. QED
    BY <1>1, <1>2, <1>3, <1>5, <1>6, Zenon DEF Filled

LEMMA FilledStep ==
  ASSUME Inv, Filled, [Works]_generator
  PROVE  Filled'
  <1> DEFINE d == Depth - Len(stack)
             n == Len(lvarNames)
  <1>1. client \in Clients
    BY Zenon DEF Inv
  <1>2. ASSUME stack # <<>> PROVE Sound(Inner) /\ Held(Inner, d, n)
    BY <1>2, FilledShape, Zenon DEF Inner, Filled
  <1> HIDE DEF d, n
  <1>3. ASSUME NEW t, stack # <<>>, Does(t), Held(t, d, n) PROVE Filled'
    BY <1>3, DoesFills, Zenon DEF d, n
  <1>4. ASSUME NEW t, stack # <<>>, Does(t), Keeps(Inner, t) PROVE Filled'
    BY <1>2, <1>3, <1>4, KeepsHeld, Zenon
  <1>5. ASSUME NEW line \in client.lines, Visit(line) PROVE Filled'
    <2>1. stack # <<>> /\ Does([Inner EXCEPT !.line = line])
      BY <1>5, Zenon DEF Visit
    <2>2. QED
      BY <1>2, <1>4, <2>1, OthersKeep, Zenon
  <1>6. ASSUME EmitPlain PROVE Filled'
    <2>1. stack # <<>> /\ Does(Insn0(Inner, Plain, <<Plain>>))
      BY <1>6, Zenon DEF EmitPlain, HasRoom
    <2>2. QED
      BY <1>2, <1>4, <2>1, PlainKeeps, Zenon
  <1>7. ASSUME NEW literal \in client.literals, EmitLit(literal) PROVE Filled'
    <2> DEFINE s == NewLit(Inner, literal)
               what == <<Lit, literal>>
               operand == LitPlace(s, literal) - 1
               t == Insn1(s, Lit, operand, what)
    <2>1. stack # <<>> /\ Does(t) /\ ~TooManyLiterals(Inner, literal)
      BY <1>7, Zenon DEF EmitLit, HasRoom
    <2>2. Sound(s) /\ operand \in Nat
      BY <1>2, <2>1, NewLitSound
    <2>3. literal \in LiteralTypes
      BY <1>1, IrepsAssumption
    <2>4. Held(s, d, n)
      BY <1>2, <2>1, <2>3, NewLitHeld
    <2>5. Lit \in {Lit, Symb, Jmp}
      OBVIOUS
    <2> HIDE DEF s, what, operand
    <2>6. Keeps(s, Insn1(s, Lit, operand, what))
      BY <2>2, <2>5, OperandKeeps
    <2>7. QED
      BY <1>3, <2>1, <2>4, <2>6, KeepsHeld, Zenon
  <1>8. ASSUME NEW name \in client.symbols, EmitSym(name) PROVE Filled'
    <2> DEFINE s == NewSym(Inner, name)
               what == <<Symb, name>>
               operand == SymPlace(s, name) - 1
               t == Insn1(s, Symb, operand, what)
    <2>1. stack # <<>> /\ Does(t) /\ ~TooManySymbols(Inner, name)
      BY <1>8, Zenon DEF EmitSym, HasRoom
    <2>2. Sound(s) /\ operand \in Nat
      BY <1>2, <2>1, NewSymSound
    <2>3. name \in Names
      BY <1>1, IrepsAssumption
    <2>4. Held(s, d, n)
      BY <1>2, <2>1, <2>3, NewSymHeld
    <2>5. Symb \in {Lit, Symb, Jmp}
      OBVIOUS
    <2> HIDE DEF s, what, operand
    <2>6. Keeps(s, Insn1(s, Symb, operand, what))
      BY <2>2, <2>5, OperandKeeps
    <2>7. QED
      BY <1>3, <2>1, <2>4, <2>6, KeepsHeld, Zenon
  <1>9. ASSUME EmitJump PROVE Filled'
    <2> DEFINE what == <<Jmp, 0>>
    <2>1. stack # <<>> /\ Does(Insn1(Inner, Jmp, 0, what))
      BY <1>9, Zenon DEF EmitJump, HasRoom
    <2>2. Jmp \in {Lit, Symb, Jmp} /\ 0 \in Nat
      OBVIOUS
    <2> HIDE DEF what
    <2>3. Keeps(Inner, Insn1(Inner, Jmp, 0, what))
      BY <1>2, <2>1, <2>2, OperandKeeps
    <2>4. QED
      BY <1>4, <2>1, <2>3, Zenon
  <1>10. ASSUME NEW i, Patch(i) PROVE Filled'
    <2> DEFINE p == PokeB(Inner, Ends(Inner.asked.code)[i - 1] + 1, Inner.pc)
               t == [p EXCEPT !.asked.code[i].what = <<Jmp, Inner.pc>>]
    <2>1. /\ stack # <<>> /\ i \in DOMAIN Inner.asked.code /\ Inner.asked.code[i].what = <<Jmp, 0>>
          /\ Does(t)
      BY <1>10, Zenon DEF Patch
    <2>2. Keeps(Inner, t)
      BY <1>2, <2>1, PatchKeeps
    <2> HIDE DEF t
    <2>3. QED
      BY <1>4, <2>1, <2>2, Zenon
  <1>11. ASSUME TakeBack PROVE Filled'
    <2> DEFINE t == [Inner EXCEPT !.pc = Inner.lastpc, !.asked.code = SubSeq(@, 1, Len(@) - 1)]
    <2>1. stack # <<>> /\ Does(t)
      BY <1>11, Zenon DEF TakeBack
    <2>2. Keeps(Inner, t)
      BY <1>2, <2>1, OthersKeep, Zenon
    <2> HIDE DEF t
    <2>3. QED
      BY <1>4, <2>1, <2>2, Zenon
  <1>12. ASSUME NEW handler \in client.handlers, Catch(handler) PROVE Filled'
    <2> DEFINE t == [Inner EXCEPT !.handlers = Append(@, handler), !.asked.handlers = Append(@, handler)]
    <2>1. stack # <<>> /\ Inner.handlers = <<>> /\ Does(t)
      BY <1>12, Zenon DEF Catch
    <2>2. handler \in Handlers
      BY <1>1, IrepsAssumption
    <2>3. Held(t, d, n)
      BY <1>2, <2>1, <2>2, CatchHeld
    <2> HIDE DEF t
    <2>4. QED
      BY <1>3, <2>1, <2>3, Zenon
  <1>13. ASSUME NEW locals \in client.scopes, Open(locals) PROVE Filled'
    <2>1. locals \in Seq(Names)
      BY <1>1, IrepsAssumption, Zenon
    <2>2. QED
      BY <1>13, <2>1, OpenFills
  <1>14. ASSUME NEW temps \in client.temps, Close(temps) PROVE Filled'
    <2>1. temps \in Nat
      BY <1>1, IrepsAssumption
    <2>2. QED
      BY <1>14, <2>1, CloseFills
  <1>15. ASSUME UNCHANGED generator PROVE Filled'
    <2>1. client' = client /\ stack' = stack /\ lvarNames' = lvarNames /\ root' = root
      BY <1>15 DEF generator
    <2>2. QED
      BY <2>1, Zenon DEF Filled
  <1>16. QED
    BY <1>5, <1>6, <1>7, <1>8, <1>9, <1>10, <1>11, <1>12, <1>13, <1>14, <1>15, Zenon DEF Works

--------------------------------------------------------------------------------
(* The file of the ireps that the generator finishes.                           *)

\* The parts of an irep that has lost its debug records are its parts, without theirs.
LEMMA ClearedParts ==
  ASSUME NEW irep \in Trees, NEW q \in Parts[ClearDebug[irep]]
  PROVE  \E p \in Parts[irep] : q = ClearDebug[p]
  <1> DEFINE S == {t \in Trees : \A c \in Parts[ClearDebug[t]] : \E p \in Parts[t] : c = ClearDebug[p]}
  <1>1. ASSUME NEW t \in Trees,
               \A i \in DOMAIN t.reps : t.reps[i] \in Trees /\ t.reps[i] \in S
        PROVE  t \in S
    <2> DEFINE u == ClearDebug[t]
               reps == Of(ClearDebug, t.reps)
    <2>1. t \in IrepsOf(Trees) /\ Depth \in 0 .. Depth
      BY TreeParts, LayoutAssumption
    <2>2. u \in Trees /\ u = Cleared(t, reps)
      BY <2>1, ClearDebugEquation, Zenon DEF Cleared, Trees
    <2>3. t.reps \in Seq(Trees)
      BY <2>1, IrepShape, Zenon
    <2>4. IsSequence(t.reps) /\ \A i \in DOMAIN t.reps : ClearDebug[t.reps[i]] \in Trees
      BY <1>1, <2>1, <2>3, ClearDebugEquation, Zenon DEF IsSequence, Trees
    <2>5. reps \in Seq(Trees) /\ DOMAIN reps = DOMAIN t.reps
      BY <2>4, OfType
    <2>6. u.reps = reps
      <3>1. u = Irep(t.nlocals, t.nregs, t.iseq, t.handlers, t.pool, t.syms, reps, t.lv, <<>>)
        BY <2>1, <2>2, <2>5, ClearedIrep, Zenon DEF Cleared
      <3> HIDE DEF u, reps
      <3>2. QED
        BY <3>1 DEF Irep
    <2>7. ASSUME NEW c \in Parts[u] PROVE \E p \in Parts[t] : c = ClearDebug[p]
      <3>1. Parts[u] = {u} \cup UNION {Parts[u.reps[i]] : i \in DOMAIN u.reps}
        BY <2>2, PartsEquation, Zenon
      <3>2. t \in Parts[t] /\ \A i \in DOMAIN t.reps : Parts[t.reps[i]] \subseteq Parts[t]
        BY PartsOf, Zenon
      <3>3. CASE c = u
        BY <3>2, <3>3, Zenon
      <3>4. ASSUME NEW i \in DOMAIN t.reps, c \in Parts[u.reps[i]] PROVE \E p \in Parts[t] : c = ClearDebug[p]
        <4>1. u.reps[i] = ClearDebug[t.reps[i]]
          BY <2>6, Zenon DEF Of
        <4>2. t.reps[i] \in S
          BY <1>1
        <4>3. \E p \in Parts[t.reps[i]] : c = ClearDebug[p]
          BY <3>4, <4>1, <4>2, Zenon
        <4>4. QED
          BY <3>2, <4>3, Zenon
      <3>5. c = u \/ \E i \in DOMAIN u.reps : c \in Parts[u.reps[i]]
        BY <2>7, <3>1, Zenon
      <3>6. QED
        BY <2>5, <2>6, <3>3, <3>4, <3>5, Zenon
    <2> HIDE DEF u, reps
    <2>8. QED
      BY <2>7 DEF u
  <1>2. Trees \subseteq S
    <2> HIDE DEF S
    <2>1. QED
      BY <1>1, TreeInduction, Zenon
  <1>3. QED
    BY <1>2

\* What clear_debug leaves of an irep.
LEMMA ClearedFields ==
  ASSUME NEW irep \in Trees
  PROVE  /\ ClearDebug[irep] \in Trees /\ ClearDebug[irep].nlocals = irep.nlocals
         /\ ClearDebug[irep].lv = irep.lv /\ ClearDebug[irep].debug = <<>>
  <1> DEFINE u == ClearDebug[irep]
             reps == Of(ClearDebug, irep.reps)
  <1>1. irep \in IrepsOf(Trees) /\ Depth \in 0 .. Depth
    BY TreeParts, LayoutAssumption
  <1>2. u \in Trees /\ u = Cleared(irep, reps)
    BY <1>1, ClearDebugEquation, Zenon DEF Cleared, Trees
  <1>3. irep.reps \in Seq(Trees)
    BY <1>1, IrepShape, Zenon
  <1>4. IsSequence(irep.reps) /\ \A i \in DOMAIN irep.reps : ClearDebug[irep.reps[i]] \in Trees
    <2>1. \A i \in DOMAIN irep.reps : irep.reps[i] \in Trees
      BY <1>3
    <2>2. QED
      BY <1>1, <1>3, <2>1, ClearDebugEquation, Zenon DEF IsSequence, Trees
  <1>5. reps \in Seq(Trees)
    BY <1>4, OfType
  <1>6. u = Irep(irep.nlocals, irep.nregs, irep.iseq, irep.handlers, irep.pool, irep.syms, reps,
                 irep.lv, <<>>)
    BY <1>1, <1>2, <1>5, ClearedIrep, Zenon DEF Cleared
  <1> HIDE DEF u, reps
  <1>7. u.nlocals = irep.nlocals /\ u.lv = irep.lv /\ u.debug = <<>>
    BY <1>6 DEF Irep
  <1>8. QED
    BY <1>2, <1>7, Zenon DEF u

\* The program of the generator can be written, with and without its debug records.
LEMMA ProgramWritable ==
  ASSUME Inv, Filled, root # <<>>, NEW stripped \in BOOLEAN
  PROVE  root[1] \in Trees /\ Writable(Compiled(stripped))
  <1> DEFINE n     == Len(lvarNames)
             top   == IF stripped THEN ClearDebug[root[1]] ELSE root[1]
             syms  == IF anyLv THEN <<lvarNames>> ELSE <<>>
             model == Compiled(stripped)
  <1>1. root[1] \in Made(Depth, n)
    BY DEF Filled, Optional
  <1>2. root[1] \in Trees /\ \A part \in Parts[root[1]] : Numbered(part, n)
    BY <1>1, Zenon DEF Made, Trees
  <1>3. top \in Trees /\ \A part \in Parts[top] : part.nlocals = Len(part.lv) + 1
    <2>1. CASE stripped
      <3>1. top = ClearDebug[root[1]] /\ top \in Trees
        BY <1>2, <2>1, ClearedFields
      <3>2. ASSUME NEW part \in Parts[top] PROVE part.nlocals = Len(part.lv) + 1
        <4>1. PICK p \in Parts[root[1]] : part = ClearDebug[p]
          BY <1>2, <3>1, ClearedParts, Zenon
        <4>2. p \in Trees
          BY <1>2, PartsOf
        <4>3. part.nlocals = p.nlocals /\ part.lv = p.lv
          BY <4>1, <4>2, ClearedFields, Zenon
        <4>4. QED
          BY <1>2, <4>3, Zenon DEF Numbered
      <3>3. QED
        BY <3>1, <3>2, Zenon
    <2>2. CASE ~stripped
      BY <1>2, <2>2, Zenon DEF Numbered
    <2>3. QED
      BY <2>1, <2>2, Zenon
  <1>4. syms \in Optional(Seq(Seq(Nat)))
    <2>1. lvarNames \in Seq(Names)
      BY Zenon DEF Inv
    <2>2. Names \subseteq Seq(Nat)
      BY BaseType DEF Names
    <2>3. lvarNames \in Seq(Seq(Nat))
      BY <2>1, <2>2
    <2>4. QED
      BY <2>3 DEF Optional
  <1> HIDE DEF top, syms
  <1>5. model.root = top /\ model.lvarSyms = syms /\ model.debugRaw = <<>>
    <2>1. model = Model(top, syms, <<>>)
      BY Zenon DEF Compiled, top, syms
    <2> HIDE DEF model
    <2>2. QED
      BY <2>1 DEF Model
  <1>6. <<>> \in Optional(Seq(Nat))
    BY DEF Optional
  <1>7. QED
    BY <1>2, <1>3, <1>4, <1>5, <1>6, Zenon DEF Writable

LEMMA RootMapsFit ==
  ASSUME NEW top \in Trees
  PROVE  MapsFit(top)
  <1>1. ASSUME NEW irep \in Parts[top], NEW i \in DOMAIN irep.debug, NEW j \in DOMAIN irep.debug[i].files
        PROVE  LET f == irep.debug[i].files[j] IN
                 Len(PackLineMap(f.start, f.lines)) = PackedSize(f.start, f.lines)
    <2>1. irep \in Trees
      BY PartsOf
    <2>2. irep.debug \in Optional(DebugInfo)
      BY <2>1, TreeParts, SMT DEF IrepsOf
    <2>3. i = 1 /\ irep.debug # <<>>
      BY <2>2 DEF Optional
    <2>4. j \in DOMAIN irep.debug[1].files
      BY <2>3
    <2>5. irep.debug[1].files[j].start \in Nat /\ irep.debug[1].files[j].lines \in LineTable
      BY <2>1, <2>3, <2>4, FileShape, Zenon
    <2>6. QED
      BY <2>3, <2>5, MapBytes, Zenon
  <1>2. QED
    BY <1>1, Zenon DEF MapsFit

\* The file that is written is that of the program, and nothing is done to the program then.
Filed ==
  \/ file = <<>>
  \/ root # <<>> /\ \E stripped \in BOOLEAN :
       file = <<[bytes |-> WriteRite(Compiled(stripped)), stripped |-> stripped]>>

RiteInv == Inv /\ Filled /\ Filed

LEMMA RiteOpened ==
  ASSUME Init
  PROVE  RiteInv
  BY InvOpened, FilledOpened, Zenon DEF Init, RiteInv, Filed

LEMMA WorksUntilFinished ==
  ASSUME Works
  PROVE  stack # <<>>
  BY Zenon DEF Works, Visit, EmitPlain, EmitLit, EmitSym, EmitJump, Patch, TakeBack, Catch, Open, Close,
               HasRoom

LEMMA RiteStep ==
  ASSUME RiteInv, [Next]_vars
  PROVE  RiteInv'
  <1>1. Inv /\ Filled /\ Filed
    BY Zenon DEF RiteInv
  <1>2. CASE Works /\ UNCHANGED file
    <2>1. Inv' /\ Filled'
      BY <1>1, <1>2, InvStep, FilledStep, Zenon
    <2>2. root = <<>>
      BY <1>1, <1>2, WorksUntilFinished, Zenon DEF Filled
    <2>3. file' = <<>>
      BY <1>1, <1>2, <2>2, Zenon DEF Filed
    <2>4. QED
      BY <2>1, <2>3, Zenon DEF RiteInv, Filed
  <1>3. ASSUME UNCHANGED generator PROVE Inv' /\ Filled'
    BY <1>1, <1>3, InvStep, FilledStep, Zenon
  <1>4. ASSUME NEW stripped \in BOOLEAN, Dump(stripped) PROVE RiteInv'
    <2>1. /\ root # <<>> /\ UNCHANGED generator
          /\ file' = <<[bytes |-> WriteRite(Compiled(stripped)), stripped |-> stripped]>>
      BY <1>4, Zenon DEF Dump
    <2>2. root' = root /\ anyLv' = anyLv /\ lvarNames' = lvarNames
      BY <2>1 DEF generator
    <2>3. Compiled(stripped)' = Compiled(stripped)
      BY <2>2, Zenon DEF Compiled
    <2>4. Filed'
      BY <2>1, <2>2, <2>3, Zenon DEF Filed
    <2>5. QED
      BY <1>3, <2>1, <2>4, Zenon DEF RiteInv
  <1>5. CASE UNCHANGED vars
    <2>1. UNCHANGED generator /\ file' = file
      BY <1>5 DEF vars
    <2>2. root' = root /\ anyLv' = anyLv /\ lvarNames' = lvarNames
      BY <2>1 DEF generator
    <2>3. \A stripped \in BOOLEAN : Compiled(stripped)' = Compiled(stripped)
      BY <2>2, Zenon DEF Compiled
    <2>4. Filed'
      BY <1>1, <2>1, <2>2, <2>3, Zenon DEF Filed
    <2>5. QED
      BY <1>3, <2>1, <2>4, Zenon DEF RiteInv
  <1>6. QED
    BY <1>2, <1>4, <1>5, Zenon DEF Next

LEMMA RiteFits ==
  ASSUME RiteInv
  PROVE  SizesFit
  <1>1. SUFFICES ASSUME file # <<>>
                 PROVE  /\ Len(file[1].bytes) = BinarySize(Compiled(file[1].stripped))
                        /\ MapsFit(root[1])
    BY <1>1, Zenon DEF SizesFit, Written
  <1>2. root # <<>>
    BY <1>1, Zenon DEF RiteInv, Filed
  <1>3. PICK stripped \in BOOLEAN :
          file = <<[bytes |-> WriteRite(Compiled(stripped)), stripped |-> stripped]>>
    BY <1>1, Zenon DEF RiteInv, Filed
  <1> DEFINE model == Compiled(stripped)
             bytes == WriteRite(model)
  <1>4. root[1] \in Trees /\ Writable(model)
    BY <1>2, ProgramWritable, Zenon DEF RiteInv
  <1> HIDE DEF model
  <1>5. Len(bytes) = BinarySize(model)
    BY <1>4, FilesFit, Zenon
  <1>6. file = <<[bytes |-> bytes, stripped |-> stripped]>>
    BY <1>3, Zenon DEF model
  <1> HIDE DEF bytes
  <1>7. file[1].bytes = bytes /\ file[1].stripped = stripped
    BY <1>6
  <1>8. MapsFit(root[1])
    BY <1>4, RootMapsFit
  <1>9. QED
    BY <1>5, <1>7, <1>8, Zenon DEF model

\* No scope ever has more literals or symbols than its pools may hold, or a second catch
\* handler; every irep that is finished, at any depth, has one name for each of its locals, each
\* of them in the table of the file (codegen.rs lit_pool_extend, new_sym, register_lv_names,
\* finish).
THEOREM TablesWithinLimits == Spec => []Filled
  <1>1. Init => RiteInv
    BY RiteOpened
  <1>2. RiteInv /\ [Next]_vars => RiteInv'
    BY RiteStep
  <1>3. RiteInv => Filled
    BY Zenon DEF RiteInv
  <1>4. QED
    BY <1>1, <1>2, <1>3, PTL DEF Spec

\* Every file of the program has the length that its header says, and every packed line map
\* in it the length that stands in front of it (writer.rs irep_own_size, lv_records_size,
\* write_rite; debug.rs pack_line_map).
THEOREM SizesAlwaysFit == Spec => []SizesFit
  <1>1. Init => RiteInv
    BY RiteOpened
  <1>2. RiteInv /\ [Next]_vars => RiteInv'
    BY RiteStep
  <1>3. RiteInv => SizesFit
    BY RiteFits
  <1>4. QED
    BY <1>1, <1>2, <1>3, PTL DEF Spec
================================================================================
