---------------------------- MODULE Emitter_proofs -----------------------------
(* Proofs about Emitter, for every client, every number of locals and code of   *)
(* any length.                                                                  *)
EXTENDS Emitter, TLAPS

--------------------------------------------------------------------------------
(* Emitting and rewinding.                                                      *)

\* The code of a scope may be replaced alone.
LEMMA WithCodeOnly ==
  ASSUME NEW t \in Scopes, NEW code \in Seq(Insns)
  PROVE  /\ [t EXCEPT !.code = code] \in Scopes
         /\ [t EXCEPT !.code = code].code = code
         /\ [t EXCEPT !.code = code].lastpc = t.lastpc
         /\ [t EXCEPT !.code = code].lastlabel = t.lastlabel
  <1> DEFINE S == Seq(Insns)
             L == {Locals}
  <1>1. code \in S
    OBVIOUS
  <1>2. t \in [sp : Nat, nlocals : Nat, nregs : Nat, code : S, lastpc : Nat,
               lastlabel : Nat, loops : {<<>>}, catches : {<<>>}, lv : L,
               invisible : {FALSE}, forDepth : {0}, mscope : {FALSE}, ainfo : {0},
               reps : {<<>>}]
    BY DEF Scopes
  <1> HIDE DEF S, L
  <1>3. QED
    BY <1>1, <1>2 DEF Scopes, S, L

\* And so may its lastpc.
LEMMA WithLastpcOnly ==
  ASSUME NEW t \in Scopes, NEW n \in Nat
  PROVE  /\ [t EXCEPT !.lastpc = n] \in Scopes
         /\ [t EXCEPT !.lastpc = n].code = t.code
         /\ [t EXCEPT !.lastpc = n].lastpc = n
         /\ [t EXCEPT !.lastpc = n].lastlabel = t.lastlabel
  <1> DEFINE S == Seq(Insns)
             L == {Locals}
  <1>1. t \in [sp : Nat, nlocals : Nat, nregs : Nat, code : S, lastpc : Nat,
               lastlabel : Nat, loops : {<<>>}, catches : {<<>>}, lv : L,
               invisible : {FALSE}, forDepth : {0}, mscope : {FALSE}, ainfo : {0},
               reps : {<<>>}]
    BY DEF Scopes
  <1> HIDE DEF S, L
  <1>2. QED
    BY <1>1 DEF Scopes, S, L

LEMMA ScopeFields ==
  ASSUME NEW t \in Scopes
  PROVE  /\ t.code \in Seq(Insns) /\ Len(t.code) \in Nat
         /\ t.lastpc \in Nat /\ t.lastlabel \in Nat
         /\ t.sp \in Nat /\ t.nregs \in Nat /\ t.nlocals \in Nat
         /\ \A i \in 1 .. Len(t.code) : t.code[i] \in Insns
  BY DEF Scopes

LEMMA EmitFields ==
  ASSUME NEW t \in Scopes, NEW i \in Insns
  PROVE  /\ Emit(t, i) \in Scopes
         /\ Emit(t, i).code = Append(t.code, i)
         /\ Emit(t, i).lastpc = Len(t.code)
         /\ Emit(t, i).lastlabel = t.lastlabel
  <1> DEFINE c == Append(t.code, i)
             n == Len(t.code)
             u == [t EXCEPT !.code = c]
             e == [u EXCEPT !.lastpc = n]
  <1>1. c \in Seq(Insns) /\ n \in Nat
    BY ScopeFields
  <1>2. Emit(t, i) = e
    BY DEF Emit
  <1> HIDE DEF c, n
  <1>3. u \in Scopes /\ u.code = c /\ u.lastlabel = t.lastlabel
    BY <1>1, WithCodeOnly
  <1> HIDE DEF u
  <1>4. e \in Scopes /\ e.code = c /\ e.lastpc = n /\ e.lastlabel = t.lastlabel
    BY <1>1, <1>3, WithLastpcOnly
  <1> HIDE DEF e
  <1>5. QED
    BY <1>2, <1>4 DEF c, n

LEMMA RewindFields ==
  ASSUME NEW t \in Scopes, NEW p \in 0 .. Len(t.code)
  PROVE  /\ RewindTo(t, p) \in Scopes
         /\ RewindTo(t, p).code = SubSeq(t.code, 1, p)
         /\ Len(RewindTo(t, p).code) = p
         /\ \A j \in 1 .. p : RewindTo(t, p).code[j] = t.code[j]
         /\ RewindTo(t, p).lastpc = t.lastpc
         /\ RewindTo(t, p).lastlabel = t.lastlabel
  <1> DEFINE c == SubSeq(t.code, 1, p)
             e == [t EXCEPT !.code = c]
  <1>1. t.code \in Seq(Insns)
    BY ScopeFields
  <1>2. /\ c \in Seq(Insns)
        /\ Len(c) = p
        /\ \A j \in 1 .. p : c[j] = t.code[j]
    BY <1>1
  <1>3. RewindTo(t, p) = e
    BY DEF RewindTo
  <1> HIDE DEF c
  <1>4. e \in Scopes /\ e.code = c /\ e.lastpc = t.lastpc /\ e.lastlabel = t.lastlabel
    BY <1>2, WithCodeOnly
  <1> HIDE DEF e
  <1>5. QED
    BY <1>2, <1>3, <1>4 DEF c

--------------------------------------------------------------------------------
(* A rewrite takes instructions back that are behind every label and are no     *)
(* jumps, and emits one, no jump either, in their place.                        *)

Loose(t, p) ==
  /\ p \in 0 .. Len(t.code)
  /\ t.lastlabel <= p
  /\ \A j \in p + 1 .. Len(t.code) : t.code[j].op \notin JumpOps

Rewrites(t, u) ==
  \/ u = t
  \/ \E p \in Nat, i \in Insns : /\ Loose(t, p) /\ i.op \notin JumpOps
                               /\ u = Emit(RewindTo(t, p), i)

LEMMA Rewritten ==
  ASSUME NEW t \in Scopes, NEW p \in 0 .. Len(t.code), NEW i \in Insns
  PROVE  LET u == Emit(RewindTo(t, p), i) IN
         /\ u \in Scopes
         /\ Len(u.code) = p + 1
         /\ \A j \in 1 .. p : u.code[j] = t.code[j]
         /\ u.code[p + 1] = i
         /\ u.lastpc = p
         /\ u.lastlabel = t.lastlabel
  <1> DEFINE w == RewindTo(t, p)
             u == Emit(w, i)
  <1>1. /\ w \in Scopes /\ Len(w.code) = p /\ w.lastlabel = t.lastlabel
        /\ \A j \in 1 .. p : w.code[j] = t.code[j]
    BY RewindFields
  <1> HIDE DEF w
  <1>2. /\ u \in Scopes /\ u.code = Append(w.code, i)
        /\ u.lastpc = Len(w.code) /\ u.lastlabel = w.lastlabel
    BY <1>1, EmitFields
  <1>3. w.code \in Seq(Insns)
    BY <1>1, ScopeFields
  <1> HIDE DEF u
  <1>4. /\ Len(u.code) = p + 1 /\ u.code[p + 1] = i
        /\ \A j \in 1 .. p : u.code[j] = w.code[j]
    BY <1>1, <1>2, <1>3
  <1>5. QED
    BY <1>1, <1>2, <1>4 DEF u, w

\* Nothing taken back.
LEMMA RewindNothing ==
  ASSUME NEW t \in Scopes
  PROVE  RewindTo(t, Len(t.code)) = t
  <1>1. SubSeq(t.code, 1, Len(t.code)) = t.code
    BY ScopeFields
  <1>2. [t EXCEPT !.code = t.code] = t
    BY DEF Scopes
  <1>3. QED
    BY <1>1, <1>2 DEF RewindTo

LEMMA EmitRewrites ==
  ASSUME NEW t \in Scopes, t.lastlabel <= Len(t.code),
         NEW i \in Insns, i.op \notin JumpOps
  PROVE  Rewrites(t, Emit(t, i))
  <1>1. Len(t.code) \in Nat /\ Loose(t, Len(t.code))
    BY ScopeFields DEF Loose
  <1>2. QED
    BY <1>1, RewindNothing DEF Rewrites

--------------------------------------------------------------------------------
(* The inductive invariant: the positions and links the client holds tie the    *)
(* barrier and the chains to the code.                                          *)

IInv == TypeOK /\ LastInsnExact /\ BarrierHolds /\ ChainsDescend /\ ChainsDisjoint

\* What IInv says, spelled out for the lemmas below.
LEMMA IInvFields ==
  ASSUME IInv
  PROVE  /\ s \in Scopes /\ s.code \in Seq(Insns) /\ Len(s.code) \in Nat
         /\ s.lastpc \in Nat /\ s.lastlabel \in Nat /\ s.lastlabel <= Len(s.code)
         /\ labels \subseteq Nat /\ \A l \in labels : l \in Nat /\ l <= s.lastlabel
         /\ \A j \in 1 .. Len(s.code) : s.code[j] \in Insns /\ s.code[j].b \in Int
         /\ \A h \in held :
              /\ h \in Int /\ -h \in 1 .. Len(s.code) /\ s.code[-h].op \in JumpOps
              /\ s.code[-h].b <= 0
         /\ \A j \in 1 .. Len(s.code) :
              s.code[j].op \in JumpOps /\ s.code[j].b < 0 =>
                /\ -s.code[j].b \in 1 .. j - 1 /\ s.code[j].b \notin held
                /\ s.code[-s.code[j].b].op \in JumpOps
                /\ s.code[-s.code[j].b].b <= 0
                /\ \A k \in 1 .. Len(s.code) :
                     s.code[k].op \in JumpOps /\ s.code[k].b = s.code[j].b => k = j
  <1>1. /\ s \in Scopes /\ s.code \in Seq(Insns) /\ Len(s.code) \in Nat
        /\ s.lastpc \in Nat /\ s.lastlabel \in Nat /\ s.lastlabel <= Len(s.code)
        /\ labels \subseteq Nat /\ \A l \in labels : l \in Nat /\ l <= s.lastlabel
    BY ScopeFields DEF IInv, TypeOK, BarrierHolds, Pc
  <1>2. \A j \in 1 .. Len(s.code) : s.code[j] \in Insns /\ s.code[j].b \in Int
    BY <1>1, ScopeFields DEF Insns
  <1>3. \A h \in held :
          /\ h \in Int /\ -h \in 1 .. Len(s.code) /\ s.code[-h].op \in JumpOps
          /\ s.code[-h].b <= 0
    BY DEF IInv, TypeOK, ChainsDescend, Pending, Pc
  <1>4. \A j \in 1 .. Len(s.code) :
          s.code[j].op \in JumpOps /\ s.code[j].b < 0 =>
            /\ -s.code[j].b \in 1 .. j - 1
            /\ s.code[-s.code[j].b].op \in JumpOps
            /\ s.code[-s.code[j].b].b <= 0
    BY DEF IInv, ChainsDescend, Pending, Pc
  <1>5. \A j \in 1 .. Len(s.code) :
          s.code[j].op \in JumpOps /\ s.code[j].b < 0 =>
            /\ s.code[j].b \notin held
            /\ \A k \in 1 .. Len(s.code) :
                 s.code[k].op \in JumpOps /\ s.code[k].b = s.code[j].b => k = j
    BY DEF IInv, ChainsDisjoint, Pc
  <1>6. QED
    BY <1>1, <1>2, <1>3, <1>4, <1>5

\* The code of the new scope agrees with the old up to p and holds at most one
\* instruction more, whose link, if it is one, leaves the client's hands.
LEMMA ChainsKept ==
  ASSUME IInv, NEW p \in 0 .. Len(s.code), s' \in Scopes,
         Len(s'.code) \in {p, p + 1},
         \A j \in 1 .. p : s'.code[j] = s.code[j],
         \A j \in p + 1 .. Len(s.code) : s.code[j].op \notin JumpOps,
         Len(s'.code) = p + 1 /\ s'.code[p + 1].op \in JumpOps /\ s'.code[p + 1].b < 0
           => s'.code[p + 1].b \in held \ held',
         \A h \in held' : \/ h \in held
                          \/ /\ h = -(p + 1) /\ Len(s'.code) = p + 1
                             /\ s'.code[p + 1].op \in JumpOps /\ s'.code[p + 1].b <= 0
  PROVE  /\ ChainsDescend' /\ ChainsDisjoint'
         /\ held' \subseteq Int
  <1>1. \A j \in 1 .. Len(s.code) : s.code[j].op \in JumpOps => j \in 1 .. p
    BY IInvFields
  <1>2. \A h \in held' : /\ h \in Int /\ -h \in 1 .. Len(s'.code)
                         /\ s'.code[-h].op \in JumpOps /\ s'.code[-h].b <= 0
    BY <1>1, IInvFields
  <1>3. ASSUME NEW k \in 1 .. Len(s'.code), s'.code[k].op \in JumpOps, s'.code[k].b < 0
        PROVE  /\ -s'.code[k].b \in 1 .. k - 1 /\ s'.code[-s'.code[k].b].op \in JumpOps
               /\ s'.code[-s'.code[k].b].b <= 0
               /\ s'.code[k].b \notin held'
               /\ \A j \in 1 .. Len(s'.code) :
                    s'.code[j].op \in JumpOps /\ s'.code[j].b = s'.code[k].b => j = k
    <2>1. CASE k \in 1 .. p
      <3>1. k \in 1 .. Len(s.code) /\ s'.code[k] = s.code[k]
        BY <2>1
      <3>2. /\ s.code[k].b \in Int /\ -s.code[k].b \in 1 .. k - 1
            /\ s.code[-s.code[k].b].op \in JumpOps /\ s.code[-s.code[k].b].b <= 0
            /\ s.code[k].b \notin held
            /\ \A j \in 1 .. Len(s.code) :
                 s.code[j].op \in JumpOps /\ s.code[j].b = s.code[k].b => j = k
        BY <1>3, <3>1, IInvFields
      <3>3. -s.code[k].b \in 1 .. p /\ s.code[k].b # -(p + 1)
        BY <2>1, <3>2
      <3>4. s'.code[k].b \notin held'
        BY <3>1, <3>2, <3>3
      <3>5. ASSUME NEW j \in 1 .. Len(s'.code), s'.code[j].op \in JumpOps,
                   s'.code[j].b = s'.code[k].b
            PROVE  j = k
        <4>1. CASE j \in 1 .. p
          BY <3>1, <3>2, <3>5, <4>1
        <4>2. CASE j = p + 1 /\ Len(s'.code) = p + 1
          BY <1>3, <3>1, <3>2, <3>5, <4>2
        <4>3. QED
          BY <4>1, <4>2
      <3>6. QED
        BY <3>1, <3>2, <3>3, <3>4, <3>5
    <2>2. CASE k = p + 1 /\ Len(s'.code) = p + 1
      <3>1. s'.code[k].b \in held /\ s'.code[k].b \notin held'
        BY <1>3, <2>2
      <3>2. /\ -s'.code[k].b \in 1 .. Len(s.code) /\ s.code[-s'.code[k].b].op \in JumpOps
            /\ s.code[-s'.code[k].b].b <= 0
        BY <3>1, IInvFields
      <3>3. -s'.code[k].b \in 1 .. p
        BY <1>1, <3>2
      <3>4. ASSUME NEW j \in 1 .. p, s'.code[j].op \in JumpOps,
                   s'.code[j].b = s'.code[k].b
            PROVE  FALSE
        <4>1. j \in 1 .. Len(s.code) /\ s.code[j].op \in JumpOps
              /\ s.code[j].b = s'.code[k].b
          BY <3>4
        <4>2. QED
          BY <1>3, <3>1, <4>1, IInvFields
      <3>5. QED
        BY <2>2, <3>1, <3>2, <3>3, <3>4
    <2>3. QED
      BY <2>1, <2>2
  <1>4. ChainsDescend'
    BY <1>2, <1>3 DEF ChainsDescend, Pending, Pc
  <1>5. ChainsDisjoint'
    BY <1>3 DEF ChainsDisjoint, Pc
  <1>6. QED
    BY <1>2, <1>4, <1>5

\* One instruction is emitted in place of loose ones.
LEMMA EmitKeeps ==
  ASSUME IInv, NEW p \in Nat, NEW i \in Insns, Loose(s, p),
         s' = Emit(RewindTo(s, p), i),
         i.op \in JumpOps /\ i.b < 0 => i.b \in held \ held',
         \A h \in held' : \/ h \in held
                          \/ h = Slot(s') /\ i.op \in JumpOps /\ i.b <= 0,
         labels' = labels, moving' \in {<<>>} \cup (Int \X Int)
  PROVE  IInv' /\ Preserved
  <1>1. /\ p \in 0 .. Len(s.code) /\ s.lastlabel <= p
        /\ \A j \in p + 1 .. Len(s.code) : s.code[j].op \notin JumpOps
    BY DEF Loose
  <1>2. /\ s' \in Scopes /\ Len(s'.code) = p + 1
        /\ \A j \in 1 .. p : s'.code[j] = s.code[j]
        /\ s'.code[p + 1] = i
        /\ s'.lastpc = p /\ s'.lastlabel = s.lastlabel
    BY <1>1, IInvFields, Rewritten
  <1>3. ChainsDescend' /\ ChainsDisjoint' /\ held' \subseteq Int
    BY <1>1, <1>2, ChainsKept DEF Slot
  <1>4. TypeOK' /\ LastInsnExact' /\ BarrierHolds'
    BY <1>1, <1>2, <1>3, IInvFields
    DEF TypeOK, LastInsnExact, BarrierHolds, Pc, PrevPc
  <1>5. Preserved
    BY <1>1, <1>2, IInvFields DEF Preserved, Pc
  <1>6. QED
    BY <1>3, <1>4, <1>5 DEF IInv

\* The client's positions and links stay: an emitter that rewrites.
LEMMA RewriteKeeps ==
  ASSUME IInv, Rewrites(s, s'), labels' = labels, held' = held,
         moving' \in {<<>>} \cup (Int \X Int)
  PROVE  IInv' /\ Preserved
  <1>1. CASE s' = s
    <2>1. TypeOK' /\ LastInsnExact' /\ BarrierHolds' /\ ChainsDescend' /\ ChainsDisjoint'
      BY <1>1 DEF IInv, TypeOK, LastInsnExact, BarrierHolds, ChainsDescend, Pending,
                  ChainsDisjoint, Pc, PrevPc
    <2>2. Preserved
      BY <1>1, IInvFields DEF Preserved, Pc
    <2>3. QED
      BY <2>1, <2>2 DEF IInv
  <1>2. CASE s' # s
    <2>1. PICK p \in Nat, i \in Insns :
            /\ Loose(s, p) /\ i.op \notin JumpOps /\ s' = Emit(RewindTo(s, p), i)
      BY <1>2 DEF Rewrites
    <2>2. QED
      BY <2>1, EmitKeeps
  <1>3. QED
    BY <1>1, <1>2

\* Nothing but the last instruction, no jump and behind every label, is dropped.
LEMMA DropKeeps ==
  ASSUME IInv, Loose(s, s.lastpc),
         s' \in Scopes, Len(s'.code) = s.lastpc, s'.lastlabel = s.lastlabel,
         \A j \in 1 .. s.lastpc : s'.code[j] = s.code[j],
         s'.lastpc \in {s.lastpc, PrevPc(s.lastpc)},
         labels' = labels, held' = held,
         moving' \in {<<>>} \cup (Int \X Int)
  PROVE  IInv' /\ Preserved
  <1>1. /\ s.lastpc \in 0 .. Len(s.code) /\ s.lastlabel <= s.lastpc
        /\ \A j \in s.lastpc + 1 .. Len(s.code) : s.code[j].op \notin JumpOps
    BY DEF Loose
  <1>2. ChainsDescend' /\ ChainsDisjoint' /\ held' \subseteq Int
    <2>1. Len(s'.code) # s.lastpc + 1
      BY <1>1
    <2>2. QED
      BY <1>1, <2>1, ChainsKept
  <1>3. TypeOK' /\ LastInsnExact' /\ BarrierHolds'
    BY <1>1, <1>2, IInvFields DEF TypeOK, LastInsnExact, BarrierHolds, Pc, PrevPc
  <1>4. Preserved
    BY <1>1, IInvFields DEF Preserved, Pc
  <1>5. QED
    BY <1>2, <1>3, <1>4 DEF IInv

--------------------------------------------------------------------------------
(* What the peephole sees.                                                      *)

LEMMA Peephole ==
  ASSUME IInv, ~NoPeephole(s)
  PROVE  /\ Len(s.code) \in Nat \ {0} /\ s.lastpc = Len(s.code) - 1
         /\ s.lastlabel \in 0 .. s.lastpc
         /\ LastInsn(s) = s.code[Len(s.code)]
         /\ LastInsn(s) \in Insns
         /\ LastInsn(s).op \in Operations /\ LastInsn(s).a \in Int
         /\ LastInsn(s).b \in Int /\ LastInsn(s).c \in Int
  <1>1. /\ Len(s.code) \in Nat /\ s.lastpc \in Nat /\ s.lastlabel \in Nat
        /\ \A i \in 1 .. Len(s.code) : s.code[i] \in Insns
    BY ScopeFields DEF IInv, TypeOK
  <1>2. /\ Len(s.code) # 0 /\ s.lastpc = Len(s.code) - 1
        /\ s.lastlabel \in 0 .. s.lastpc
    BY <1>1 DEF IInv, LastInsnExact, BarrierHolds, NoPeephole, Pc, PrevPc
  <1>3. LastInsn(s) = s.code[Len(s.code)] /\ LastInsn(s) \in Insns
    BY <1>1, <1>2 DEF LastInsn
  <1>4. QED
    BY <1>1, <1>2, <1>3 DEF Insns

LEMMA LooseLast ==
  ASSUME IInv, ~NoPeephole(s), LastInsn(s).op \notin JumpOps
  PROVE  s.lastpc \in Nat /\ Loose(s, s.lastpc)
  BY Peephole DEF Loose

\* An instruction emitted behind the others, in place of the last one, and in
\* place of the last two.
LEMMA Forward ==
  ASSUME IInv, NEW i \in Insns, i.op \notin JumpOps
  PROVE  Rewrites(s, Emit(s, i))
  BY EmitRewrites DEF IInv, TypeOK, BarrierHolds, Pc

LEMMA Back ==
  ASSUME IInv, ~NoPeephole(s), LastInsn(s).op \notin JumpOps,
         NEW i \in Insns, i.op \notin JumpOps
  PROVE  Rewrites(s, Emit(RewindTo(s, s.lastpc), i))
  BY LooseLast DEF Rewrites

LEMMA BackTwo ==
  ASSUME IInv, ~NoPeephole(s), LastInsn(s).op \notin JumpOps,
         s.lastpc # 0, s.lastpc # s.lastlabel,
         s.code[s.lastpc].op \notin JumpOps,
         NEW i \in Insns, i.op \notin JumpOps
  PROVE  Rewrites(s, Emit(RewindTo(s, PrevPc(s.lastpc)), i))
  <1>1. PrevPc(s.lastpc) \in Nat /\ Loose(s, PrevPc(s.lastpc))
    <2>1. /\ PrevPc(s.lastpc) = Len(s.code) - 2 /\ Len(s.code) - 2 \in Nat
          /\ s.lastlabel <= Len(s.code) - 2
      BY Peephole DEF PrevPc
    <2>2. ASSUME NEW j \in Len(s.code) - 1 .. Len(s.code)
          PROVE  s.code[j].op \notin JumpOps
      <3>1. j = s.lastpc \/ j = Len(s.code)
        BY Peephole
      <3>2. QED
        BY <3>1, Peephole
    <2>3. QED
      BY <2>1, <2>2 DEF Loose
  <1>2. QED
    BY <1>1 DEF Rewrites

LEMMA InstrFields ==
  ASSUME NEW op \in Operations, NEW a \in Int, NEW b \in Int, NEW c \in Int
  PROVE  /\ Instr(op, a, b, c) \in Insns
         /\ Instr(op, a, b, c).op = op /\ Instr(op, a, b, c).a = a
         /\ Instr(op, a, b, c).b = b /\ Instr(op, a, b, c).c = c
  BY DEF Instr, Insns

LEMMA ForwardInstr ==
  ASSUME IInv, NEW op \in Operations, op \notin JumpOps,
         NEW a \in Int, NEW b \in Int, NEW c \in Int
  PROVE  Rewrites(s, Emit(s, Instr(op, a, b, c)))
  BY InstrFields, Forward

LEMMA BackInstr ==
  ASSUME IInv, ~NoPeephole(s), LastInsn(s).op \notin JumpOps,
         NEW op \in Operations, op \notin JumpOps,
         NEW a \in Int, NEW b \in Int, NEW c \in Int
  PROVE  Rewrites(s, Emit(RewindTo(s, s.lastpc), Instr(op, a, b, c)))
  BY InstrFields, Back

--------------------------------------------------------------------------------
(* Each emitter rewrites.                                                       *)

LEMMA IntLoadOp ==
  ASSUME NEW v \in Int
  PROVE  IntLoad(v) \in Operations /\ IntLoad(v) \notin JumpOps
  BY ScopeAssumption DEF IntLoad, IntLoads, JumpOps, Operations

LEMMA GenIntRewrites ==
  ASSUME IInv, NEW a \in Int, NEW v \in Int
  PROVE  Rewrites(s, GenInt(s, a, v))
  BY IntLoadOp, ForwardInstr DEF GenInt

LEMMA GenReturnRewrites ==
  ASSUME IInv, NEW op \in Ops \cap ReturnOps, NEW a \in Int
  PROVE  Rewrites(s, GenReturn(s, op, a))
  <1>1. op \in Operations /\ op \notin JumpOps
    BY DEF ReturnOps, JumpOps, Operations
  <1>2. Rewrites(s, Emit(s, Instr(op, a, 0, 0)))
    BY <1>1, ForwardInstr
  <1>3. CASE NoPeephole(s)
    BY <1>2, <1>3 DEF GenReturn
  <1>4. CASE ~NoPeephole(s)
    <2>1. LastInsn(s).b \in Int
      BY <1>4, Peephole
    <2>2. ASSUME LastInsn(s).op = "MOVE"
          PROVE  Rewrites(s, Emit(RewindTo(s, s.lastpc), Instr(op, LastInsn(s).b, 0, 0)))
      <3>1. LastInsn(s).op \notin JumpOps
        BY <2>2 DEF JumpOps
      <3>2. QED
        BY <1>1, <1>4, <2>1, <3>1, BackInstr
    <2>3. ASSUME LastInsn(s).op \in {"LOADSELF", "LOADNIL", "LOADTRUE", "LOADFALSE"}
          PROVE  Rewrites(s, Emit(RewindTo(s, s.lastpc),
                                  Instr(FusedReturn(LastInsn(s)), 0, 0, 0)))
      <3>1. LastInsn(s).op \notin JumpOps
        BY <2>3 DEF JumpOps
      <3>2. FusedReturn(LastInsn(s)) \in Operations /\ FusedReturn(LastInsn(s)) \notin JumpOps
        BY DEF FusedReturn, JumpOps, Returns, Operations
      <3>3. QED
        BY <1>4, <3>1, <3>2, BackInstr
    <2>4. Rewrites(s, s)
      BY DEF Rewrites
    <2>5. QED
      BY <1>2, <1>4, <2>2, <2>3, <2>4 DEF GenReturn
  <1>5. QED
    BY <1>3, <1>4

LEMMA GenGetupvarRewrites ==
  ASSUME IInv, NEW a \in Int, NEW idx \in Int, NEW lv \in Int
  PROVE  Rewrites(s, GenGetupvar(s, a, idx, lv))
  <1>1. "GETUPVAR" \in Operations /\ "GETUPVAR" \notin JumpOps
    BY DEF JumpOps, Operations
  <1>2. Rewrites(s, s) /\ Rewrites(s, Emit(s, Instr("GETUPVAR", a, idx, lv)))
    BY <1>1, ForwardInstr DEF Rewrites
  <1>3. QED
    BY <1>2 DEF GenGetupvar

\* What the stores have in common.
LEMMA StoreRewrites ==
  ASSUME IInv, NEW op \in Operations, op \notin JumpOps, NEW a \in Int,
         NEW b \in Int, NEW c \in Int, NEW val \in BOOLEAN
  PROVE  /\ Rewrites(s, Emit(s, Instr(op, a, b, c)))
         /\ StoreFoldsMove(s, a, val) =>
              Rewrites(s, Emit(RewindTo(s, s.lastpc), Instr(op, LastInsn(s).b, b, c)))
  <1>1. Rewrites(s, Emit(s, Instr(op, a, b, c)))
    BY ForwardInstr
  <1>2. ASSUME StoreFoldsMove(s, a, val)
        PROVE  Rewrites(s, Emit(RewindTo(s, s.lastpc), Instr(op, LastInsn(s).b, b, c)))
    <2>1. ~NoPeephole(s) /\ LastInsn(s).op \notin JumpOps
      BY <1>2 DEF StoreFoldsMove, JumpOps
    <2>2. LastInsn(s).b \in Int
      BY <2>1, Peephole
    <2>3. QED
      BY <2>1, <2>2, BackInstr
  <1>3. QED
    BY <1>1, <1>2

LEMMA GenSetupvarRewrites ==
  ASSUME IInv, NEW a \in Int, NEW idx \in Int, NEW lv \in Int, NEW val \in BOOLEAN
  PROVE  Rewrites(s, GenSetupvar(s, a, idx, lv, val))
  <1>1. "SETUPVAR" \in Operations /\ "SETUPVAR" \notin JumpOps
    BY DEF JumpOps, Operations
  <1>2. QED
    BY <1>1, StoreRewrites DEF GenSetupvar

LEMMA GenSetxvRewrites ==
  ASSUME IInv, NEW op \in Ops \cap StoreOps, NEW a \in Int, NEW sym \in Int, NEW val \in BOOLEAN
  PROVE  Rewrites(s, GenSetxv(s, op, a, sym, val))
  <1>1. op \in Operations /\ op \notin JumpOps
    BY DEF JumpOps, StoreOps, Operations
  <1>2. 0 \in Int
    OBVIOUS
  <1>3. /\ Rewrites(s, Emit(s, Instr(op, a, sym, 0)))
        /\ StoreFoldsMove(s, a, val) =>
             Rewrites(s, Emit(RewindTo(s, s.lastpc), Instr(op, LastInsn(s).b, sym, 0)))
    BY <1>1, <1>2, StoreRewrites
  <1>4. QED
    BY <1>3 DEF GenSetxv

LEMMA GenAddsubRewrites ==
  ASSUME IInv, NEW op \in Ops \cap AddOps, NEW a \in Int
  PROVE  Rewrites(s, GenAddsub(s, op, a))
  <1>1. op \in Operations /\ op \notin JumpOps
    BY DEF AddOps, JumpOps, Operations
  <1>2. Rewrites(s, Emit(s, Instr(op, a, 0, 0)))
    BY <1>1, ForwardInstr
  <1>3. ASSUME ~NoPeephole(s), IsIntOperand(LastInsn(s))
        PROVE  Rewrites(s, Emit(RewindTo(s, s.lastpc),
                                Instr(IF op = "ADD" THEN "ADDI" ELSE "SUBI", a,
                                      LastInsn(s).b, 0)))
    <2>1. LastInsn(s).op \notin JumpOps /\ LastInsn(s).b \in Int
      BY <1>3, Peephole DEF IsIntOperand, IntLoads, JumpOps
    <2>2. /\ (IF op = "ADD" THEN "ADDI" ELSE "SUBI") \in Operations
          /\ (IF op = "ADD" THEN "ADDI" ELSE "SUBI") \notin JumpOps
      BY DEF Operations, JumpOps
    <2>3. QED
      BY <1>3, <2>1, <2>2, BackInstr
  <1>4. QED
    BY <1>2, <1>3 DEF GenAddsub

LEMMA GenUniopRewrites ==
  ASSUME IInv, NEW minus \in BOOLEAN, NEW a \in Int
  PROVE  Rewrites(s, GenUniop(s, minus, a))
  <1>1. ASSUME UniopFolds(s), NEW v \in Int
        PROVE  Rewrites(s, GenInt(RewindTo(s, s.lastpc), a, v))
    <2>1. ~NoPeephole(s) /\ LastInsn(s).op \notin JumpOps
      BY <1>1 DEF UniopFolds, IsIntOperand, IntLoads, JumpOps
    <2>2. QED
      BY <2>1, IntLoadOp, BackInstr DEF GenInt
  <1>2. UniopFolds(s) => LastInsn(s).b \in Int /\ -LastInsn(s).b \in Int
    BY Peephole DEF UniopFolds
  <1>3. Rewrites(s, s)
    BY DEF Rewrites
  <1>4. QED
    BY <1>1, <1>2, <1>3 DEF GenUniop

LEMMA GenBinopRewrites ==
  ASSUME IInv, NEW a \in Int
  PROVE  Rewrites(s, GenBinop(s, a))
  <1>1. /\ "GETIDX" \in Operations /\ "GETIDX" \notin JumpOps
        /\ "GETIDX0" \in Operations /\ "GETIDX0" \notin JumpOps
    BY DEF Operations, JumpOps
  <1>2. Rewrites(s, s) /\ Rewrites(s, Emit(s, Instr("GETIDX", a, 0, 0)))
    BY <1>1, ForwardInstr DEF Rewrites
  <1>3. ASSUME ~NoPeephole(s), IndexZero(s, a)
        PROVE  Rewrites(s, Emit(RewindTo(s, PrevPc(s.lastpc)),
                                Instr("GETIDX0", a, s.code[s.lastpc].b, 0)))
    <2>1. /\ LastInsn(s).op \notin JumpOps /\ s.code[s.lastpc].op \notin JumpOps
          /\ s.lastpc # 0 /\ s.lastpc # s.lastlabel
      BY <1>3 DEF IndexZero, JumpOps
    <2>2. s.lastpc \in 1 .. Len(s.code) /\ s.code[s.lastpc] \in Insns
      BY <1>3, <2>1, Peephole, ScopeFields DEF IInv, TypeOK
    <2>3. s.code[s.lastpc].b \in Int
      BY <2>2 DEF Insns
    <2>4. /\ Instr("GETIDX0", a, s.code[s.lastpc].b, 0) \in Insns
          /\ Instr("GETIDX0", a, s.code[s.lastpc].b, 0).op = "GETIDX0"
      BY <1>1, <2>3, InstrFields
    <2>5. QED
      BY <1>1, <1>3, <2>1, <2>4, BackTwo
  <1>4. QED
    BY <1>2, <1>3 DEF GenBinop

\* An instruction with another operation, or another destination.
LEMMA WithOp ==
  ASSUME NEW i \in Insns, NEW op \in Operations
  PROVE  [i EXCEPT !.op = op] \in Insns /\ [i EXCEPT !.op = op].op = op
  BY DEF Insns

LEMMA WithA ==
  ASSUME NEW i \in Insns, NEW a \in Int
  PROVE  [i EXCEPT !.a = a] \in Insns /\ [i EXCEPT !.a = a].op = i.op
  BY DEF Insns

LEMMA GenInternRewrites ==
  ASSUME IInv, NEW a \in Int
  PROVE  Rewrites(s, GenIntern(s, a))
  <1>1. /\ "INTERN" \in Operations /\ "INTERN" \notin JumpOps
        /\ "SYMBOL" \in Operations /\ "SYMBOL" \notin JumpOps
    BY DEF Operations, JumpOps
  <1>2. Rewrites(s, Emit(s, Instr("INTERN", a, 0, 0)))
    BY <1>1, ForwardInstr
  <1>3. ASSUME ~NoPeephole(s), LastInsn(s).op = "STRING"
        PROVE  Rewrites(s, Emit(RewindTo(s, s.lastpc),
                                [LastInsn(s) EXCEPT !.op = "SYMBOL"]))
    <2>1. LastInsn(s) \in Insns /\ LastInsn(s).op \notin JumpOps
      BY <1>3, Peephole DEF JumpOps
    <2>2. QED
      BY <1>1, <1>3, <2>1, WithOp, Back
  <1>4. QED
    BY <1>2, <1>3 DEF GenIntern

LEMMA PlainMoveRewrites ==
  ASSUME IInv, NEW dst \in Int, NEW src \in Int
  PROVE  Rewrites(s, PlainMove(s, dst, src))
  <1>1. "MOVE" \in Operations /\ "MOVE" \notin JumpOps
    BY DEF Operations, JumpOps
  <1>2. QED
    BY <1>1, ForwardInstr DEF PlainMove

LEMMA RetargetedInsn ==
  ASSUME NEW i \in Insns, NEW dst \in Int, i.op \notin JumpOps
  PROVE  Retargeted(i, dst) \in Insns /\ Retargeted(i, dst).op \notin JumpOps
  <1>1. i.a \in Int /\ i.b \in Int /\ "ARRAY2" \in Operations /\ "ARRAY2" \notin JumpOps
    BY DEF Insns, Operations, JumpOps
  <1>2. Instr("ARRAY2", dst, i.a, i.b) \in Insns /\ Instr("ARRAY2", dst, i.a, i.b).op = "ARRAY2"
    BY <1>1, InstrFields
  <1>3. [i EXCEPT !.a = dst] \in Insns /\ [i EXCEPT !.a = dst].op = i.op
    BY WithA
  <1>4. QED
    BY <1>1, <1>2, <1>3 DEF Retargeted

\* A step of gen_move that does not call itself.
LEMMA MoveStepRewrites ==
  ASSUME IInv, NEW dst \in Int, NEW src \in Int, ~MoveAgain(s, dst, src)
  PROVE  Rewrites(s, MoveStep(s, dst, src))
  <1>1. Rewrites(s, PlainMove(s, dst, src)) /\ Rewrites(s, s)
    BY PlainMoveRewrites DEF Rewrites
  <1>2. CASE NoPeephole(s)
    BY <1>1, <1>2 DEF MoveStep
  <1>3. CASE ~NoPeephole(s) /\ MoveSkipped(s, dst, src)
    BY <1>1, <1>3 DEF MoveStep
  <1>4. CASE ~NoPeephole(s) /\ ~MoveSkipped(s, dst, src)
    <2>1. ~MoveRetries(s, dst, src)
      BY <1>4 DEF MoveAgain
    <2>2. ASSUME MoveRetargets(s, dst, src)
          PROVE  Rewrites(s, Emit(RewindTo(s, s.lastpc), Retargeted(LastInsn(s), dst)))
      <3>1. LastInsn(s) \in Insns /\ LastInsn(s).op \notin JumpOps
        BY <1>4, <2>2, Peephole DEF MoveRetargets, Retargetable, JumpOps
      <3>2. QED
        BY <1>4, <3>1, RetargetedInsn, Back
    <2>3. ASSUME MoveFoldsLocal(s, dst, src), NEW op \in {"ADDILV", "SUBILV"}
          PROVE  Rewrites(s, Emit(RewindTo(s, PrevPc(s.lastpc)),
                                  Instr(op, dst, LastInsn(s).a, LastInsn(s).b)))
      <3>1. /\ LastInsn(s).op \notin JumpOps /\ s.code[s.lastpc].op \notin JumpOps
            /\ s.lastpc # 0 /\ s.lastpc # s.lastlabel
        BY <2>3 DEF MoveFoldsLocal, JumpOps
      <3>2. op \in Operations /\ op \notin JumpOps
        BY <2>3 DEF Operations, JumpOps
      <3>3. /\ Instr(op, dst, LastInsn(s).a, LastInsn(s).b) \in Insns
            /\ Instr(op, dst, LastInsn(s).a, LastInsn(s).b).op = op
        BY <1>4, <3>2, Peephole, InstrFields
      <3>4. QED
        BY <1>4, <3>1, <3>2, <3>3, BackTwo
    <2>4. QED
      BY <1>1, <1>4, <2>1, <2>2, <2>3 DEF MoveStep
  <1>5. QED
    BY <1>2, <1>3, <1>4

\* gen_move as a whole step of the client, calling itself or not.
LEMMA MoveKeeps ==
  ASSUME IInv, NEW dst \in Int, NEW src \in Int,
         s' = MoveStep(s, dst, src),
         moving' = IF MoveAgain(s, dst, src)
                   THEN <<dst, MoveSource(s, src)>> ELSE <<>>,
         UNCHANGED <<labels, held>>
  PROVE  IInv' /\ Preserved
  <1>1. CASE ~MoveAgain(s, dst, src)
    BY <1>1, MoveStepRewrites, RewriteKeeps
  <1>2. CASE MoveAgain(s, dst, src)
    <2> DEFINE w == RewindTo(s, s.lastpc)
               n == PrevPc(s.lastpc)
    <2>1. ~NoPeephole(s) /\ LastInsn(s).op \notin JumpOps
      BY <1>2 DEF MoveAgain, MoveRetries, JumpOps
    <2>2. s' = [w EXCEPT !.lastpc = n]
      <3>1. /\ ~MoveRetargets(s, dst, src) /\ ~MoveFoldsLocal(s, dst, src)
            /\ MoveRetries(s, dst, src)
            /\ ~NoPeephole(s) /\ ~MoveSkipped(s, dst, src)
        BY <1>2 DEF MoveAgain, MoveRetries, MoveRetargets, MoveFoldsLocal, Retargetable
      <3>2. QED
        BY <3>1 DEF MoveStep
    <2>3. s \in Scopes /\ s.lastpc \in 0 .. Len(s.code) /\ Loose(s, s.lastpc)
      BY <2>1, LooseLast DEF IInv, TypeOK, Loose
    <2>4. n \in Nat
      BY <2>3, ScopeFields DEF PrevPc
    <2>5. /\ w \in Scopes /\ Len(w.code) = s.lastpc /\ w.lastlabel = s.lastlabel
          /\ \A j \in 1 .. s.lastpc : w.code[j] = s.code[j]
      BY <2>3, RewindFields
    <2>6. n = PrevPc(s.lastpc)
      OBVIOUS
    <2> HIDE DEF w, n
    <2>7. /\ s' \in Scopes /\ s'.code = w.code /\ s'.lastpc = n
          /\ s'.lastlabel = w.lastlabel
      BY <2>2, <2>4, <2>5, WithLastpcOnly
    <2>8. MoveSource(s, src) \in Int
      BY <2>1, Peephole DEF MoveSource
    <2>9. moving' \in {<<>>} \cup (Int \X Int)
      BY <1>2, <2>8
    <2>10. QED
      BY <2>3, <2>5, <2>6, <2>7, <2>9, DropKeeps
  <1>3. QED
    BY <1>1, <1>2

--------------------------------------------------------------------------------
(* Jumps.                                                                       *)

LEMMA JumpInsn ==
  ASSUME IInv, NEW dest \in Dests, NEW op \in Operations, NEW a \in Int
  PROVE  /\ Instr(op, a, JmpDst(dest), 0) \in Insns
         /\ Instr(op, a, JmpDst(dest), 0).op = op
         /\ Instr(op, a, JmpDst(dest), 0).b = JmpDst(dest)
         /\ dest \in labels => JmpDst(dest) >= 0
         /\ dest \notin labels => \/ dest \in held /\ JmpDst(dest) = dest
                                  \/ JmpDst(dest) = 0
         /\ JmpDst(dest) \in Int
  <1>1. (\A h \in held : h \in Int) /\ (\A l \in labels : l \in Nat)
    BY DEF IInv, TypeOK
  <1>2. /\ JmpDst(dest) \in Int
        /\ dest \in labels => JmpDst(dest) >= 0
        /\ dest \notin labels => \/ dest \in held /\ JmpDst(dest) = dest
                                 \/ JmpDst(dest) = 0
    BY <1>1, ScopeAssumption DEF Dests, JmpDst
  <1>3. QED
    BY <1>2, InstrFields

\* A jump emitted in place of loose instructions heads the chain it links to.
LEMMA JumpKeeps ==
  ASSUME IInv, NEW dest \in Dests, NEW op \in Operations, NEW a \in Int,
         NEW p \in Nat, Loose(s, p), op \in JumpOps,
         s' = Emit(RewindTo(s, p), Instr(op, a, JmpDst(dest), 0)),
         held' = IF dest \in labels THEN held ELSE (held \ {dest}) \cup {Slot(s')},
         labels' = labels, moving' \in {<<>>} \cup (Int \X Int)
  PROVE  IInv' /\ Preserved
  <1> DEFINE i == Instr(op, a, JmpDst(dest), 0)
  <1>1. /\ i \in Insns /\ i.op = op /\ i.b = JmpDst(dest) /\ i.b \in Int
        /\ dest \in labels => i.b >= 0
        /\ dest \notin labels => (dest \in held /\ i.b = dest) \/ i.b = 0
    BY JumpInsn
  <1>2. s' = Emit(RewindTo(s, p), i)
    OBVIOUS
  <1> HIDE DEF i
  <1>3. /\ p \in 0 .. Len(s.code) /\ Slot(s') = -(p + 1)
        /\ \A j \in p + 1 .. Len(s.code) : s.code[j].op \notin JumpOps
    <2>1. /\ p \in 0 .. Len(s.code)
          /\ \A j \in p + 1 .. Len(s.code) : s.code[j].op \notin JumpOps
      BY DEF Loose
    <2>2. Len(s'.code) = p + 1
      BY <1>1, <1>2, <2>1, IInvFields, Rewritten
    <2>3. QED
      BY <2>1, <2>2 DEF Slot
  <1>4. -(p + 1) \notin held
    BY <1>3, IInvFields
  <1>5. i.b < 0 => i.b \in held \ held'
    BY <1>1, <1>3, <1>4
  <1>6. \A h \in held' : h \in held \/ (h = Slot(s') /\ i.b <= 0)
    BY <1>1, IInvFields
  <1>7. QED
    BY <1>1, <1>2, <1>5, <1>6, EmitKeeps

\* The link of an instruction is a number.
LEMMA SlotIsInt ==
  ASSUME IInv, NEW dest \in Dests, NEW op \in Operations, NEW a \in Int,
         NEW p \in Nat, Loose(s, p)
  PROVE  Slot(Emit(RewindTo(s, p), Instr(op, a, JmpDst(dest), 0))) # JMPLINK_START
  <1>1. Instr(op, a, JmpDst(dest), 0) \in Insns
    BY JumpInsn
  <1>2. p \in 0 .. Len(s.code)
    BY DEF Loose
  <1>3. Len(Emit(RewindTo(s, p), Instr(op, a, JmpDst(dest), 0)).code) = p + 1
    BY <1>1, <1>2, IInvFields, Rewritten
  <1>4. -(p + 1) # JMPLINK_START
    BY ScopeAssumption
  <1>5. QED
    BY <1>3, <1>4 DEF Slot

LEMMA JumpStep ==
  ASSUME IInv, NEW op \in Ops \cap (JumpOps \ CondOps), NEW dest \in Dests, Jump(op, dest)
  PROVE  IInv' /\ Preserved
  <1>1. /\ Len(s.code) \in Nat /\ Loose(s, Len(s.code))
        /\ RewindTo(s, Len(s.code)) = s
    BY IInvFields, RewindNothing DEF Loose
  <1>2. op \in Operations /\ op \in JumpOps
    BY DEF Operations
  <1>3. /\ s' = Emit(RewindTo(s, Len(s.code)), Instr(op, 0, JmpDst(dest), 0))
        /\ held' = IF dest \in labels THEN held ELSE (held \ {dest}) \cup {Slot(s')}
        /\ labels' = labels /\ moving' = <<>>
    BY <1>1 DEF Jump, Genjmp
  <1>4. 0 \in Int /\ moving' \in {<<>>} \cup (Int \X Int)
    BY <1>3
  <1>5. QED
    BY <1>1, <1>2, <1>3, <1>4, JumpKeeps

LEMMA CondJumpStep ==
  ASSUME IInv, NEW op \in Ops \cap CondOps, NEW a \in Int, NEW dest \in Dests,
         NEW val \in BOOLEAN, CondJump(op, a, dest, val)
  PROVE  IInv' /\ Preserved
  <1>1. /\ Len(s.code) \in Nat /\ Loose(s, Len(s.code))
        /\ RewindTo(s, Len(s.code)) = s
    BY IInvFields, RewindNothing DEF Loose
  <1>2. /\ op \in Operations /\ op \in JumpOps /\ "JMP" \in Operations /\ "JMP" \in JumpOps
    BY DEF Operations, CondOps, JumpOps
  <1>3. s' = Genjmp2(s, op, a, dest, val) /\ labels' = labels /\ moving' = <<>>
    BY DEF CondJump
  <1>4. ASSUME ~(CondDecided(s, a, val) /\ ~CondAlways(s, op)),
               Slot(s') # JMPLINK_START
        PROVE  held' = IF dest \in labels THEN held ELSE (held \ {dest}) \cup {Slot(s')}
    BY <1>3, <1>4 DEF CondJump, Genjmp2Link
  <1>5. CASE CondMoves(s, a, val)
    <2>1. ~NoPeephole(s) /\ LastInsn(s).op \notin JumpOps /\ ~CondDecided(s, a, val)
      BY <1>5 DEF CondMoves, CondDecided, ShortIntLoads, JumpOps
    <2>2. s' = Emit(RewindTo(s, s.lastpc), Instr(op, LastInsn(s).b, JmpDst(dest), 0))
      BY <1>3, <1>5, <2>1 DEF Genjmp2
    <2>3. LastInsn(s).b \in Int
      BY <2>1, Peephole
    <2>4. QED
      BY <1>2, <1>3, <1>4, <2>1, <2>2, <2>3, LooseLast, SlotIsInt, JumpKeeps
  <1>6. CASE CondDecided(s, a, val)
    <2>1. ~NoPeephole(s) /\ LastInsn(s).op \notin JumpOps /\ ~CondMoves(s, a, val)
      BY <1>6 DEF CondMoves, CondDecided, ShortIntLoads, JumpOps
    <2>2. s.lastpc \in Nat /\ Loose(s, s.lastpc)
      BY <2>1, LooseLast
    <2>3. CASE CondAlways(s, op)
      <3>1. s' = Emit(RewindTo(s, s.lastpc), Instr("JMP", 0, JmpDst(dest), 0))
        BY <1>3, <1>6, <2>1, <2>3 DEF Genjmp2, Genjmp
      <3>2. QED
        BY <1>2, <1>3, <1>4, <2>2, <2>3, <3>1, SlotIsInt, JumpKeeps
    <2>4. CASE ~CondAlways(s, op)
      <3>1. s' = RewindTo(s, s.lastpc)
        BY <1>3, <1>6, <2>1, <2>4 DEF Genjmp2
      <3>2. held' = held
        BY <1>6, <2>4 DEF CondJump, Genjmp2Link
      <3>3. /\ s' \in Scopes /\ Len(s'.code) = s.lastpc /\ s'.lastlabel = s.lastlabel
            /\ s'.lastpc = s.lastpc
            /\ \A j \in 1 .. s.lastpc : s'.code[j] = s.code[j]
        BY <2>2, <3>1, IInvFields, RewindFields DEF Loose
      <3>4. QED
        BY <1>3, <2>2, <3>2, <3>3, DropKeeps
    <2>5. QED
      BY <2>3, <2>4
  <1>7. CASE ~CondMoves(s, a, val) /\ ~CondDecided(s, a, val)
    <2>1. s' = Emit(s, Instr(op, a, JmpDst(dest), 0))
      BY <1>3, <1>7 DEF Genjmp2
    <2>2. QED
      BY <1>1, <1>2, <1>3, <1>4, <1>7, <2>1, SlotIsInt, JumpKeeps
  <1>8. QED
    BY <1>5, <1>6, <1>7

--------------------------------------------------------------------------------
(* Patching, labels and registers.                                              *)

\* A scope that differs in its code and its barrier.
LEMMA WithLastlabelOnly ==
  ASSUME NEW t \in Scopes, NEW n \in Nat
  PROVE  /\ [t EXCEPT !.lastlabel = n] \in Scopes
         /\ [t EXCEPT !.lastlabel = n].code = t.code
         /\ [t EXCEPT !.lastlabel = n].lastpc = t.lastpc
         /\ [t EXCEPT !.lastlabel = n].lastlabel = n
  <1> DEFINE S == Seq(Insns)
             L == {Locals}
  <1>1. t \in [sp : Nat, nlocals : Nat, nregs : Nat, code : S, lastpc : Nat,
               lastlabel : Nat, loops : {<<>>}, catches : {<<>>}, lv : L,
               invisible : {FALSE}, forDepth : {0}, mscope : {FALSE}, ainfo : {0},
               reps : {<<>>}]
    BY DEF Scopes
  <1> HIDE DEF S, L
  <1>2. QED
    BY <1>1 DEF Scopes, S, L

\* And one that differs in its registers.
LEMMA WithRegisters ==
  ASSUME NEW t \in Scopes, NEW n \in Nat
  PROVE  /\ [t EXCEPT !.sp = n] \in Scopes /\ [t EXCEPT !.nregs = n] \in Scopes
         /\ [t EXCEPT !.sp = n].code = t.code
         /\ [t EXCEPT !.sp = n].lastpc = t.lastpc
         /\ [t EXCEPT !.sp = n].lastlabel = t.lastlabel
         /\ [t EXCEPT !.nregs = n].code = t.code
         /\ [t EXCEPT !.nregs = n].lastpc = t.lastpc
         /\ [t EXCEPT !.nregs = n].lastlabel = t.lastlabel
  <1> DEFINE S == Seq(Insns)
             L == {Locals}
  <1>1. t \in [sp : Nat, nlocals : Nat, nregs : Nat, code : S, lastpc : Nat,
               lastlabel : Nat, loops : {<<>>}, catches : {<<>>}, lv : L,
               invisible : {FALSE}, forDepth : {0}, mscope : {FALSE}, ainfo : {0},
               reps : {<<>>}]
    BY DEF Scopes
  <1> HIDE DEF S, L
  <1>2. QED
    BY <1>1 DEF Scopes, S, L

\* The code, and what is known of it, stays.
LEMMA SameCode ==
  ASSUME IInv, s' \in Scopes, s'.code = s.code, s'.lastpc = s.lastpc,
         s'.lastlabel \in {s.lastlabel, Len(s.code)},
         labels' \subseteq labels \cup {s'.lastlabel}, held' = held, moving' = moving
  PROVE  IInv' /\ Preserved
  <1>1. s.lastlabel <= s'.lastlabel /\ s'.lastlabel <= Len(s.code) /\ s'.lastlabel \in Nat
    BY IInvFields
  <1>2. TypeOK' /\ BarrierHolds'
    BY <1>1, IInvFields DEF IInv, TypeOK, BarrierHolds, Pc
  <1>3. LastInsnExact' /\ ChainsDescend' /\ ChainsDisjoint'
    BY DEF IInv, LastInsnExact, ChainsDescend, Pending, ChainsDisjoint, Pc, PrevPc
  <1>4. Preserved
    BY IInvFields DEF Preserved, Pc
  <1>5. QED
    BY <1>2, <1>3, <1>4 DEF IInv

LEMMA PushStep ==
  ASSUME IInv, NEW n \in Nat, Push(n)
  PROVE  IInv' /\ Preserved
  <1> DEFINE m == s.sp + n
             k == IF s.sp + n > s.nregs THEN s.sp + n ELSE s.nregs
             u == [s EXCEPT !.sp = m]
  <1>1. s \in Scopes /\ m \in Nat /\ k \in Nat
    BY IInvFields, ScopeFields
  <1>2. s' = [u EXCEPT !.nregs = k]
    BY DEF Push, PushN
  <1> HIDE DEF m, k
  <1>3. u \in Scopes /\ u.code = s.code /\ u.lastpc = s.lastpc /\ u.lastlabel = s.lastlabel
    BY <1>1, WithRegisters
  <1> HIDE DEF u
  <1>4. /\ s' \in Scopes /\ s'.code = s.code /\ s'.lastpc = s.lastpc
        /\ s'.lastlabel = s.lastlabel
    BY <1>1, <1>2, <1>3, WithRegisters
  <1>5. labels' = labels /\ held' = held /\ moving' = moving
    BY DEF Push
  <1>6. QED
    BY <1>4, <1>5, SameCode

LEMMA PopStep ==
  ASSUME IInv, NEW n \in Nat, Pop(n)
  PROVE  IInv' /\ Preserved
  <1> DEFINE m == s.sp - n
  <1>1. s \in Scopes /\ m \in Nat
    BY IInvFields, ScopeFields DEF Pop, PopUnderflows
  <1>2. s' = [s EXCEPT !.sp = m]
    BY DEF Pop, PopN
  <1> HIDE DEF m
  <1>3. /\ s' \in Scopes /\ s'.code = s.code /\ s'.lastpc = s.lastpc
        /\ s'.lastlabel = s.lastlabel
    BY <1>1, <1>2, WithRegisters
  <1>4. labels' = labels /\ held' = held /\ moving' = moving
    BY DEF Pop
  <1>5. QED
    BY <1>3, <1>4, SameCode

LEMMA LabelStep ==
  ASSUME IInv, Label
  PROVE  IInv' /\ Preserved
  <1>1. /\ s' \in Scopes /\ s'.code = s.code /\ s'.lastpc = s.lastpc
        /\ s'.lastlabel = Len(s.code)
    BY IInvFields, WithLastlabelOnly DEF Label, NewLabel
  <1>2. labels' = labels \cup {s'.lastlabel} /\ held' = held /\ moving' = moving
    BY <1>1 DEF Label, Pc
  <1>3. QED
    BY <1>1, <1>2, SameCode

LEMMA WithB ==
  ASSUME NEW i \in Insns, NEW b \in Int
  PROVE  /\ [i EXCEPT !.b = b] \in Insns
         /\ [i EXCEPT !.b = b].op = i.op /\ [i EXCEPT !.b = b].b = b
  BY DEF Insns

LEMMA LandStep ==
  ASSUME IInv, NEW link \in held, Land(link)
  PROVE  IInv' /\ Preserved
  <1> DEFINE n == Len(s.code)
             j == -link
             next == s.code[j].b
             patched == [s.code[j] EXCEPT !.b = n]
             c == [s.code EXCEPT ![j] = patched]
             u == [s EXCEPT !.code = c]
  <1>1. /\ s \in Scopes /\ s.code \in Seq(Insns) /\ n \in Nat /\ j \in 1 .. n
        /\ link \in Int /\ link # JMPLINK_START
        /\ s.code[j] \in Insns /\ s.code[j].op \in JumpOps
        /\ next \in Int /\ next <= 0
    BY IInvFields, ScopeAssumption
  <1>2. s' = [u EXCEPT !.lastlabel = n]
    BY <1>1 DEF Land, Dispatch
  <1>3. /\ labels' = labels \cup {n} /\ moving' = moving
        /\ held' = (held \ {link}) \cup (IF next < 0 THEN {next} ELSE {})
    BY <1>1 DEF Land, NextLink, Pc
  <1>4. patched \in Insns /\ patched.op = s.code[j].op /\ patched.b = n
    <2>1. n \in Int /\ s.code[j] \in Insns
      BY <1>1
    <2> HIDE DEF n, j
    <2>2. QED
      BY <2>1, WithB
  <1>5. n = Len(s.code) /\ j = -link /\ next = s.code[j].b
        /\ patched = [s.code[j] EXCEPT !.b = Len(s.code)]
    OBVIOUS
  <1> HIDE DEF patched
  <1>6. /\ c \in Seq(Insns) /\ Len(c) = n /\ c[j] = patched
        /\ \A k \in 1 .. n : k # j => c[k] = s.code[k]
    BY <1>1, <1>4
  <1> HIDE DEF c, n, next
  <1>7. u \in Scopes /\ u.code = c /\ u.lastpc = s.lastpc
    BY <1>1, <1>6, WithCodeOnly
  <1> HIDE DEF u
  <1>8. s' \in Scopes /\ s'.code = c /\ s'.lastpc = s.lastpc /\ s'.lastlabel = n
    BY <1>1, <1>2, <1>7, WithLastlabelOnly
  <1>9. next < 0 => /\ next \in Int /\ -next \in 1 .. n /\ -next # j
                    /\ s.code[-next].op \in JumpOps /\ s.code[-next].b <= 0
                    /\ next \notin held
    BY <1>1, <1>5, IInvFields
  <1>10. \A h \in held' : /\ h \in Int /\ -h \in 1 .. n
                          /\ c[-h].op \in JumpOps /\ c[-h].b <= 0
    <2>1. ASSUME NEW h \in held, h # link
          PROVE  h \in Int /\ -h \in 1 .. n /\ c[-h].op \in JumpOps /\ c[-h].b <= 0
      <3>1. /\ h \in Int /\ -h \in 1 .. n /\ s.code[-h].op \in JumpOps
            /\ s.code[-h].b <= 0
        BY <1>5, IInvFields
      <3>2. -h # j
        BY <1>1, <1>5, <2>1, <3>1
      <3>3. QED
        BY <1>6, <3>1, <3>2
    <2>2. QED
      BY <1>3, <1>6, <1>9, <2>1
  <1>11. ASSUME NEW k \in 1 .. n, c[k].op \in JumpOps, c[k].b < 0
         PROVE  /\ -c[k].b \in 1 .. k - 1 /\ c[-c[k].b].op \in JumpOps
                /\ c[-c[k].b].b <= 0 /\ c[k].b \notin held'
                /\ \A i \in 1 .. n : c[i].op \in JumpOps /\ c[i].b = c[k].b => i = k
    <2>1. k # j /\ c[k] = s.code[k]
      BY <1>1, <1>4, <1>6, <1>11
    <2>2. /\ -s.code[k].b \in 1 .. k - 1 /\ s.code[k].b \notin held
          /\ s.code[-s.code[k].b].op \in JumpOps /\ s.code[-s.code[k].b].b <= 0
          /\ s.code[k].b \in Int
          /\ \A i \in 1 .. n : s.code[i].op \in JumpOps /\ s.code[i].b = s.code[k].b => i = k
      BY <1>5, <1>11, <2>1, IInvFields
    <2>3. s.code[k].b # next
      BY <1>1, <1>5, <2>1, <2>2
    <2>4. -s.code[k].b # j /\ -s.code[k].b \in 1 .. n
      BY <1>1, <1>5, <2>2
    <2>5. c[k].b \notin held'
      BY <1>3, <2>1, <2>2, <2>3
    <2>6. ASSUME NEW i \in 1 .. n, c[i].op \in JumpOps, c[i].b = c[k].b
          PROVE  i = k
      <3>1. i # j
        BY <1>1, <1>4, <1>6, <1>11, <2>6
      <3>2. QED
        BY <1>6, <2>1, <2>2, <2>6, <3>1
    <2>7. QED
      BY <1>6, <2>1, <2>2, <2>4, <2>5, <2>6
  <1>12. ChainsDescend' /\ ChainsDisjoint'
    BY <1>6, <1>8, <1>10, <1>11 DEF ChainsDescend, Pending, ChainsDisjoint, Pc
  <1>13. TypeOK' /\ LastInsnExact' /\ BarrierHolds'
    <2>1. LastInsnExact'
      BY <1>5, <1>6, <1>8 DEF IInv, LastInsnExact, Pc, PrevPc
    <2>2. TypeOK' /\ BarrierHolds'
      BY <1>1, <1>3, <1>5, <1>6, <1>8, <1>10, IInvFields
      DEF IInv, TypeOK, BarrierHolds, Pc
    <2>3. QED
      BY <2>1, <2>2
  <1>14. Preserved
    <2>1. ASSUME NEW i \in 1 .. Len(s.code)
          PROVE  /\ i <= Len(s'.code)
                 /\ \/ s'.code[i] = s.code[i]
                    \/ /\ s.code[i].op \in JumpOps /\ s.code[i].b <= 0
                       /\ s'.code[i] = [s.code[i] EXCEPT !.b = Len(s.code)]
      <3>1. i <= Len(s'.code)
        BY <1>1, <1>5, <1>6, <1>8
      <3>2. CASE i = j
        BY <1>1, <1>5, <1>6, <1>8, <3>1, <3>2
      <3>3. CASE i # j
        BY <1>5, <1>6, <1>8, <3>1, <3>3
      <3>4. QED
        BY <3>2, <3>3
    <2>2. QED
      BY <2>1 DEF Preserved, Pc
  <1>15. QED
    BY <1>12, <1>13, <1>14 DEF IInv

--------------------------------------------------------------------------------
(* The invariant and the theorems.                                              *)

LEMMA InitIInv == Init => IInv
  <1> DEFINE L == {Locals}
             S == Seq(Insns)
             n == NumLocals + 1
  <1>1. Locals \in L /\ Len(Locals) = NumLocals /\ NumLocals \in Nat /\ n \in Nat
    BY EmitterAssumption DEF Locals
  <1>2. <<>> \in S
    OBVIOUS
  <1> SUFFICES ASSUME Init PROVE IInv
    OBVIOUS
  <1>3. labels = {} /\ held = {} /\ moving = <<>>
    BY DEF Init
  <1> DEFINE lv == Locals
             a == [TopScope EXCEPT !.lv = lv]
             b == [a EXCEPT !.sp = n]
             c == [b EXCEPT !.nlocals = n]
             d == [c EXCEPT !.nregs = n]
  <1>4. s = d
    BY <1>1 DEF Init, ChildScope
  <1>5. Locals = lv
    OBVIOUS
  <1> HIDE DEF L, S, n, lv
  <1> DEFINE
    Q == [sp : Nat, nlocals : Nat, nregs : Nat, code : S, lastpc : Nat,
          lastlabel : Nat, loops : {<<>>}, catches : {<<>>}, lv : L,
          invisible : {FALSE}, forDepth : {0}, mscope : {FALSE}, ainfo : {0},
          reps : {<<>>}]
  <1>6. a \in Q /\ a.code = <<>> /\ a.lastpc = 0 /\ a.lastlabel = 0
    BY <1>1, <1>2, <1>5 DEF TopScope
  <1> HIDE DEF a
  <1>7. b \in Q /\ b.code = <<>> /\ b.lastpc = 0 /\ b.lastlabel = 0
    BY <1>1, <1>6
  <1> HIDE DEF b
  <1>8. c \in Q /\ c.code = <<>> /\ c.lastpc = 0 /\ c.lastlabel = 0
    BY <1>1, <1>7
  <1> HIDE DEF c
  <1>9. d \in Q /\ d.code = <<>> /\ d.lastpc = 0 /\ d.lastlabel = 0
    BY <1>1, <1>8
  <1> HIDE DEF d
  <1>10. s \in Scopes /\ s.code = <<>> /\ s.lastpc = 0 /\ s.lastlabel = 0
    BY <1>4, <1>9 DEF Scopes, S, L
  <1>11. Len(s.code) = 0
    BY <1>10
  <1>12. QED
    BY <1>3, <1>10, <1>11
    DEF IInv, TypeOK, LastInsnExact, BarrierHolds, ChainsDescend, ChainsDisjoint,
        Pending, Pc, PrevPc

\* An action that emits without touching the client's positions and links.
LEMMA EmitsKeep ==
  ASSUME IInv, NEW t, Rewrites(s, t), Emits(t)
  PROVE  IInv' /\ Preserved
  <1>1. s' = t /\ labels' = labels /\ held' = held /\ moving' = <<>>
    BY DEF Emits
  <1>2. QED
    BY <1>1, RewriteKeeps

\* Every step of the client keeps the invariant and what stands before a label.
LEMMA NextKeeps == IInv /\ Next => IInv' /\ Preserved
  <1> SUFFICES ASSUME IInv, Next PROVE IInv' /\ Preserved
    OBVIOUS
  <1>1. /\ \A a \in Registers : a \in Int
        /\ \A b \in Operands : b \in Int
        /\ \A v \in Literals : v \in Int
        /\ 0 \in Int /\ 1 \in Int
    BY EmitterAssumption
  <1>2. CASE \E n \in 1 .. 2 : Push(n) \/ Pop(n)
    BY <1>2, PushStep, PopStep
  <1>3. CASE \E op \in PlainOps, a \in Registers, b \in Operands : Plain(op, a, b)
    <2>1. PICK op \in PlainOps, a \in Registers, b \in Operands : Plain(op, a, b)
      BY <1>3
    <2>2. op \in Operations /\ op \notin JumpOps
      BY DEF PlainOps, Operations
    <2>3. Rewrites(s, Emit(s, Instr(op, a, b, 0)))
      BY <1>1, <2>2, ForwardInstr
    <2>4. QED
      BY <2>1, <2>3, EmitsKeep DEF Plain
  <1>4. CASE \E a \in Registers, v \in Literals : LoadInt(a, v)
    BY <1>1, <1>4, GenIntRewrites, EmitsKeep DEF LoadInt
  <1>5. CASE \E a, b \in Registers, nopeep \in BOOLEAN : Move(a, b, nopeep)
    <2>1. PICK a \in Registers, b \in Registers, nopeep \in BOOLEAN : Move(a, b, nopeep)
      BY <1>5
    <2>2. a \in Int /\ b \in Int
      BY <1>1
    <2>3. CASE nopeep
      BY <2>1, <2>2, <2>3, PlainMoveRewrites, RewriteKeeps DEF Move
    <2>4. CASE ~nopeep
      BY <2>1, <2>2, <2>4, MoveKeeps DEF Move
    <2>5. QED
      BY <2>3, <2>4
  <1>6. CASE MoveOn
    <2>1. moving[1] \in Int /\ moving[2] \in Int
      BY <1>6 DEF MoveOn, IInv, TypeOK
    <2>2. QED
      BY <1>6, <2>1, MoveKeeps DEF MoveOn
  <1>7. CASE \E op \in Ops \cap ReturnOps, a \in Registers : Return(op, a)
    BY <1>1, <1>7, GenReturnRewrites, EmitsKeep DEF Return
  <1>8. CASE \E a \in Registers : Getupvar(a, 1, 0)
    BY <1>1, <1>8, GenGetupvarRewrites, EmitsKeep DEF Getupvar
  <1>9. CASE \E a \in Registers, val \in BOOLEAN : Setupvar(a, 1, 0, val)
    BY <1>1, <1>9, GenSetupvarRewrites, EmitsKeep DEF Setupvar
  <1>10. CASE \E op \in Ops \cap StoreOps, a \in Registers, val \in BOOLEAN :
                Setxv(op, a, 0, val)
    BY <1>1, <1>10, GenSetxvRewrites, EmitsKeep DEF Setxv
  <1>11. CASE \E op \in Ops \cap AddOps, a \in Registers : Addsub(op, a)
    BY <1>1, <1>11, GenAddsubRewrites, EmitsKeep DEF Addsub
  <1>12. CASE \E minus \in BOOLEAN, a \in Registers : Uniop(minus, a)
    BY <1>1, <1>12, GenUniopRewrites, EmitsKeep DEF Uniop
  <1>13. CASE \E a \in Registers : Index(a)
    BY <1>1, <1>13, GenBinopRewrites, EmitsKeep DEF Index
  <1>14. CASE \E a \in Registers : Intern(a)
    BY <1>1, <1>14, GenInternRewrites, EmitsKeep DEF Intern
  <1>15. CASE Label
    BY <1>15, LabelStep
  <1>16. CASE \E op \in Ops \cap (JumpOps \ CondOps), dest \in Dests : Jump(op, dest)
    BY <1>16, JumpStep
  <1>17. CASE \E op \in Ops \cap CondOps, a \in Registers, dest \in Dests, val \in BOOLEAN :
                CondJump(op, a, dest, val)
    BY <1>1, <1>17, CondJumpStep
  <1>18. CASE \E link \in held : Land(link)
    BY <1>18, LandStep
  <1>19. QED
    BY <1>2, <1>3, <1>4, <1>5, <1>6, <1>7, <1>8, <1>9, <1>10, <1>11, <1>12, <1>13,
       <1>14, <1>15, <1>16, <1>17, <1>18 DEF Next

\* A step that changes nothing.
LEMMA StutterKeeps == IInv /\ UNCHANGED vars => IInv' /\ Preserved
  <1> SUFFICES ASSUME IInv, UNCHANGED vars PROVE IInv' /\ Preserved
    OBVIOUS
  <1>1. s' = s /\ labels' = labels /\ held' = held /\ moving' = moving
    BY DEF vars
  <1>2. Rewrites(s, s') /\ moving' \in {<<>>} \cup (Int \X Int)
    BY <1>1 DEF Rewrites, IInv, TypeOK
  <1>3. QED
    BY <1>1, <1>2, RewriteKeeps

\* The invariant holds in every reachable state, whatever the client emits.
THEOREM Invariance == Spec => []IInv
  BY InitIInv, NextKeeps, StutterKeeps, PTL DEF Spec

\* The scope stays well formed (codegen.rs `struct Scope`).
THEOREM TypeCorrect == Spec => []TypeOK
  BY Invariance, PTL DEF IInv

\* last_insn never decodes from the middle of an instruction (codegen.rs
\* last_insn, prev_pc).
THEOREM LastInsnIsExact == Spec => []LastInsnExact
  BY Invariance, PTL DEF IInv

\* No rewind goes behind a position that was given out (codegen.rs no_peephole).
THEOREM BarrierIsKept == Spec => []BarrierHolds
  BY Invariance, PTL DEF IInv

\* dispatch_linked reaches the end of every chain and patches only jumps that
\* wait for their target (codegen.rs dispatch_linked).
THEOREM ChainsEnd == Spec => []ChainsDescend
  BY Invariance, PTL DEF IInv

\* No jump is patched for two chains (codegen.rs genjmp, genjmp2, dispatch).
THEOREM ChainsDoNotMeet == Spec => []ChainsDisjoint
  BY Invariance, PTL DEF IInv

\* No peephole removes a jump or an instruction before a label (codegen.rs
\* gen_move, genjmp2, gen_return; handlers.rs gen_addsub, gen_uniop, gen_binop).
THEOREM LabelledCodeStays == Spec => PeepholeKeepsLabelled
  <1>1. IInv /\ [Next]_vars => [Preserved]_vars
    BY NextKeeps
  <1>2. QED
    BY <1>1, Invariance, PTL DEF Spec, PeepholeKeepsLabelled

--------------------------------------------------------------------------------
(* The scope implements a listing: every step maps to a step of Listing, or to  *)
(* a stutter.                                                                   *)

Lists == [Buffer!Next]_(Buffer!list)

LEMMA RewindCode ==
  ASSUME NEW t \in Scopes, NEW p \in 0 .. Len(t.code)
  PROVE  /\ RewindTo(t, p) \in Scopes /\ RewindTo(t, p).code = SubSeq(t.code, 1, p)
         /\ RewindTo(t, p).lastlabel = t.lastlabel
  <1>1. RewindTo(t, p).code = SubSeq(t.code, 1, p)
    BY DEF RewindTo, Scopes
  <1>2. QED
    BY <1>1, RewindFields

\* An instruction emitted in place of loose ones.
LEMMA WriteLists ==
  ASSUME IInv, NEW p \in Nat, Loose(s, p), NEW i \in Insns, s' = Emit(RewindTo(s, p), i)
  PROVE  Lists
  <1> DEFINE w == RewindTo(s, p)
             n == Len(s.code) - p
  <1>1. /\ s \in Scopes /\ s.code \in Seq(Insns) /\ Len(s.code) \in Nat
        /\ p \in 0 .. Len(s.code) /\ s.lastlabel <= p /\ s.lastlabel \in Nat
    BY IInvFields, ScopeFields DEF Loose
  <1>2. w \in Scopes /\ w.code = SubSeq(s.code, 1, p) /\ w.lastlabel = s.lastlabel
    BY <1>1, RewindCode
  <1>3. s' = Emit(w, i)
    OBVIOUS
  <1> HIDE DEF w
  <1>4. s'.code = Append(w.code, i) /\ s'.lastlabel = s.lastlabel
    BY <1>2, <1>3, EmitFields
  <1>5. s'.code # <<>> /\ s'.code[Len(s'.code)] = i
    <2>1. w.code \in Seq(Insns)
      BY <1>2, ScopeFields
    <2>2. QED
      BY <1>4, <2>1
  <1>6. n \in 0 .. Len(s.code) /\ Len(s.code) - n = p
    BY <1>1
  <1>7. Buffer!Free(n)
    BY <1>1, <1>6 DEF Buffer!Free, Buffer!IsJump, Loose
  <1>8. Buffer!Write(n, i)
    BY <1>2, <1>4, <1>6, <1>7 DEF Buffer!Write, Buffer!Without
  <1>9. Buffer!Next
    BY <1>5, <1>6, <1>8 DEF Buffer!Next
  <1>10. QED
    BY <1>9 DEF Lists

LEMMA SameLists ==
  ASSUME s'.code = s.code, s'.lastlabel = s.lastlabel
  PROVE  Lists
  BY DEF Lists, Buffer!list

LEMMA RewriteLists ==
  ASSUME IInv, NEW t, Rewrites(s, t), s' = t
  PROVE  Lists
  BY WriteLists, SameLists DEF Rewrites

\* The last instruction taken back and nothing emitted.
LEMMA DropLists ==
  ASSUME IInv, ~NoPeephole(s), LastInsn(s).op \notin JumpOps,
         s'.code = SubSeq(s.code, 1, s.lastpc), s'.lastlabel = s.lastlabel
  PROVE  Lists
  <1>1. /\ s.lastpc = Len(s.code) - 1 /\ Len(s.code) \in Nat \ {0}
        /\ s.lastlabel <= Len(s.code) - 1 /\ s.code[Len(s.code)].op \notin JumpOps
    BY Peephole
  <1>2. Buffer!Free(1)
    BY <1>1 DEF Buffer!Free, Buffer!IsJump
  <1>3. Buffer!Drop
    BY <1>1, <1>2 DEF Buffer!Drop, Buffer!Without
  <1>4. QED
    BY <1>3 DEF Lists, Buffer!Next

LEMMA MoveLists ==
  ASSUME IInv, NEW dst \in Int, NEW src \in Int, s' = MoveStep(s, dst, src)
  PROVE  Lists
  <1>1. CASE ~MoveAgain(s, dst, src)
    BY <1>1, MoveStepRewrites, RewriteLists
  <1>2. CASE MoveAgain(s, dst, src)
    <2>1. ~NoPeephole(s) /\ LastInsn(s).op \notin JumpOps
      BY <1>2 DEF MoveAgain, MoveRetries, JumpOps
    <2>2. s' = [RewindTo(s, s.lastpc) EXCEPT !.lastpc = PrevPc(s.lastpc)]
      <3>1. /\ ~MoveRetargets(s, dst, src) /\ ~MoveFoldsLocal(s, dst, src)
            /\ MoveRetries(s, dst, src)
            /\ ~NoPeephole(s) /\ ~MoveSkipped(s, dst, src)
        BY <1>2 DEF MoveAgain, MoveRetries, MoveRetargets, MoveFoldsLocal, Retargetable
      <3>2. QED
        BY <3>1 DEF MoveStep
    <2>3. /\ RewindTo(s, s.lastpc) \in Scopes /\ PrevPc(s.lastpc) \in Nat
          /\ RewindTo(s, s.lastpc).code = SubSeq(s.code, 1, s.lastpc)
          /\ RewindTo(s, s.lastpc).lastlabel = s.lastlabel
      <3>1. s \in Scopes /\ s.lastpc \in 0 .. Len(s.code) /\ s.lastpc \in Nat
        BY <2>1, LooseLast DEF IInv, TypeOK, Loose
      <3>2. QED
        BY <3>1, RewindCode DEF PrevPc
    <2>4. s'.code = SubSeq(s.code, 1, s.lastpc) /\ s'.lastlabel = s.lastlabel
      BY <2>2, <2>3, WithLastpcOnly
    <2>5. QED
      BY <2>1, <2>4, DropLists
  <1>3. QED
    BY <1>1, <1>2

LEMMA JumpLists ==
  ASSUME IInv, NEW dest \in Dests, NEW op \in Operations, NEW a \in Int,
         NEW p \in Nat, Loose(s, p),
         s' = Emit(RewindTo(s, p), Instr(op, a, JmpDst(dest), 0))
  PROVE  Lists
  BY JumpInsn, WriteLists

LEMMA CondJumpLists ==
  ASSUME IInv, NEW op \in Ops \cap CondOps, NEW a \in Int, NEW dest \in Dests,
         NEW val \in BOOLEAN, s' = Genjmp2(s, op, a, dest, val)
  PROVE  Lists
  <1>1. Len(s.code) \in Nat /\ Loose(s, Len(s.code)) /\ RewindTo(s, Len(s.code)) = s
    BY IInvFields, RewindNothing DEF Loose
  <1>2. op \in Operations /\ "JMP" \in Operations
    BY DEF Operations
  <1>3. CASE CondMoves(s, a, val)
    <2>1. ~NoPeephole(s) /\ LastInsn(s).op \notin JumpOps /\ ~CondDecided(s, a, val)
      BY <1>3 DEF CondMoves, CondDecided, ShortIntLoads, JumpOps
    <2>2. s' = Emit(RewindTo(s, s.lastpc), Instr(op, LastInsn(s).b, JmpDst(dest), 0))
      BY <1>3, <2>1 DEF Genjmp2
    <2>3. LastInsn(s).b \in Int
      BY <2>1, Peephole
    <2>4. QED
      BY <1>2, <2>1, <2>2, <2>3, LooseLast, JumpLists
  <1>4. CASE ~CondMoves(s, a, val) /\ CondDecided(s, a, val)
    <2>1. ~NoPeephole(s) /\ LastInsn(s).op \notin JumpOps
      BY <1>4 DEF CondDecided, ShortIntLoads, JumpOps
    <2>2. CASE CondAlways(s, op)
      <3>1. s' = Emit(RewindTo(s, s.lastpc), Instr("JMP", 0, JmpDst(dest), 0))
        BY <1>4, <2>2 DEF Genjmp2, Genjmp
      <3>2. QED
        BY <1>2, <2>1, <3>1, LooseLast, JumpLists
    <2>3. CASE ~CondAlways(s, op)
      <3>1. s' = RewindTo(s, s.lastpc)
        BY <1>4, <2>3 DEF Genjmp2
      <3>2. s \in Scopes /\ s.lastpc \in 0 .. Len(s.code)
        BY <2>1, LooseLast DEF IInv, TypeOK, Loose
      <3>3. s'.code = SubSeq(s.code, 1, s.lastpc) /\ s'.lastlabel = s.lastlabel
        BY <3>1, <3>2, RewindCode
      <3>4. QED
        BY <2>1, <3>3, DropLists
    <2>4. QED
      BY <2>2, <2>3
  <1>5. CASE ~CondMoves(s, a, val) /\ ~CondDecided(s, a, val)
    <2>1. s' = Emit(s, Instr(op, a, JmpDst(dest), 0))
      BY <1>5 DEF Genjmp2
    <2>2. QED
      BY <1>1, <1>2, <2>1, JumpLists
  <1>6. QED
    BY <1>3, <1>4, <1>5

\* A link is a pending jump, and patching it lands that jump.
LEMMA LandLists ==
  ASSUME IInv, NEW link \in held, Land(link)
  PROVE  Lists
  <1> DEFINE j == -link
             c == [s.code EXCEPT ![j].b = Len(s.code)]
             u == [s EXCEPT !.code = c]
  <1>1. /\ s \in Scopes /\ s.code \in Seq(Insns) /\ Len(s.code) \in Nat
        /\ j \in 1 .. Len(s.code) /\ link \in Int /\ link # JMPLINK_START
        /\ s.code[j] \in Insns /\ s.code[j].op \in JumpOps /\ s.code[j].b <= 0
    BY IInvFields, ScopeAssumption
  <1>2. s' = [u EXCEPT !.lastlabel = Len(s.code)]
    BY <1>1 DEF Land, Dispatch
  <1>3. j \in DOMAIN s.code
    BY <1>1
  <1>4. c \in Seq(Insns)
    <2>1. [s.code[j] EXCEPT !.b = Len(s.code)] \in Insns
      BY <1>1, WithB
    <2>2. QED
      BY <1>1, <2>1
  <1> HIDE DEF j
  <1>5. u \in Scopes /\ u.code = c
    BY <1>1, <1>4, WithCodeOnly
  <1> HIDE DEF u
  <1>6. s'.code = c /\ s'.lastlabel = Len(s.code)
    BY <1>1, <1>2, <1>5, WithLastlabelOnly
  <1>7. Buffer!Land(j)
    BY <1>1, <1>6 DEF Buffer!Land, Buffer!Pending, Buffer!IsJump
  <1>8. QED
    BY <1>3, <1>7 DEF Lists, Buffer!Next

LEMMA EmitsList ==
  ASSUME IInv, NEW t, Rewrites(s, t), Emits(t)
  PROVE  Lists
  BY RewriteLists DEF Emits

\* Every step of the client is a step of the listing.
LEMMA NextLists == IInv /\ Next => Lists
  <1> SUFFICES ASSUME IInv, Next PROVE Lists
    OBVIOUS
  <1>1. /\ \A a \in Registers : a \in Int
        /\ \A b \in Operands : b \in Int
        /\ \A v \in Literals : v \in Int
        /\ 0 \in Int /\ 1 \in Int
    BY EmitterAssumption
  <1>2. CASE \E n \in 1 .. 2 : Push(n) \/ Pop(n)
    <2>1. PICK n \in 1 .. 2 : Push(n) \/ Pop(n)
      BY <1>2
    <2>2. s'.code = s.code /\ s'.lastlabel = s.lastlabel
      BY <2>1, IInvFields DEF Push, Pop, PushN, PopN, Scopes
    <2>3. QED
      BY <2>2, SameLists
  <1>3. CASE \E op \in PlainOps, a \in Registers, b \in Operands : Plain(op, a, b)
    <2>1. PICK op \in PlainOps, a \in Registers, b \in Operands : Plain(op, a, b)
      BY <1>3
    <2>2. op \in Operations /\ op \notin JumpOps
      BY DEF PlainOps, Operations
    <2>3. Rewrites(s, Emit(s, Instr(op, a, b, 0)))
      BY <1>1, <2>2, ForwardInstr
    <2>4. QED
      BY <2>1, <2>3, EmitsList DEF Plain
  <1>4. CASE \E a \in Registers, v \in Literals : LoadInt(a, v)
    BY <1>1, <1>4, GenIntRewrites, EmitsList DEF LoadInt
  <1>5. CASE \E a, b \in Registers, nopeep \in BOOLEAN : Move(a, b, nopeep)
    <2>1. PICK a \in Registers, b \in Registers, nopeep \in BOOLEAN : Move(a, b, nopeep)
      BY <1>5
    <2>2. a \in Int /\ b \in Int
      BY <1>1
    <2>3. CASE nopeep
      BY <2>1, <2>2, <2>3, PlainMoveRewrites, RewriteLists DEF Move
    <2>4. CASE ~nopeep
      BY <2>1, <2>2, <2>4, MoveLists DEF Move
    <2>5. QED
      BY <2>3, <2>4
  <1>6. CASE MoveOn
    <2>1. moving[1] \in Int /\ moving[2] \in Int
      BY <1>6 DEF MoveOn, IInv, TypeOK
    <2>2. QED
      BY <1>6, <2>1, MoveLists DEF MoveOn
  <1>7. CASE \E op \in Ops \cap ReturnOps, a \in Registers : Return(op, a)
    BY <1>1, <1>7, GenReturnRewrites, EmitsList DEF Return
  <1>8. CASE \E a \in Registers : Getupvar(a, 1, 0)
    BY <1>1, <1>8, GenGetupvarRewrites, EmitsList DEF Getupvar
  <1>9. CASE \E a \in Registers, val \in BOOLEAN : Setupvar(a, 1, 0, val)
    BY <1>1, <1>9, GenSetupvarRewrites, EmitsList DEF Setupvar
  <1>10. CASE \E op \in Ops \cap StoreOps, a \in Registers, val \in BOOLEAN :
                Setxv(op, a, 0, val)
    BY <1>1, <1>10, GenSetxvRewrites, EmitsList DEF Setxv
  <1>11. CASE \E op \in Ops \cap AddOps, a \in Registers : Addsub(op, a)
    BY <1>1, <1>11, GenAddsubRewrites, EmitsList DEF Addsub
  <1>12. CASE \E minus \in BOOLEAN, a \in Registers : Uniop(minus, a)
    BY <1>1, <1>12, GenUniopRewrites, EmitsList DEF Uniop
  <1>13. CASE \E a \in Registers : Index(a)
    BY <1>1, <1>13, GenBinopRewrites, EmitsList DEF Index
  <1>14. CASE \E a \in Registers : Intern(a)
    BY <1>1, <1>14, GenInternRewrites, EmitsList DEF Intern
  <1>15. CASE Label
    <2>1. Buffer!Label
      BY <1>15, IInvFields, WithLastlabelOnly DEF Label, NewLabel, Buffer!Label
    <2>2. QED
      BY <2>1 DEF Lists, Buffer!Next
  <1>16. CASE \E op \in Ops \cap (JumpOps \ CondOps), dest \in Dests : Jump(op, dest)
    <2>1. PICK op \in Ops \cap (JumpOps \ CondOps), dest \in Dests : Jump(op, dest)
      BY <1>16
    <2>2. Len(s.code) \in Nat /\ Loose(s, Len(s.code)) /\ RewindTo(s, Len(s.code)) = s
      BY IInvFields, RewindNothing DEF Loose
    <2>3. op \in Operations
      BY DEF Operations
    <2>4. s' = Emit(RewindTo(s, Len(s.code)), Instr(op, 0, JmpDst(dest), 0))
      BY <2>1, <2>2 DEF Jump, Genjmp
    <2>5. QED
      BY <1>1, <2>2, <2>3, <2>4, JumpLists
  <1>17. CASE \E op \in Ops \cap CondOps, a \in Registers, dest \in Dests, val \in BOOLEAN :
                CondJump(op, a, dest, val)
    BY <1>1, <1>17, CondJumpLists DEF CondJump
  <1>18. CASE \E link \in held : Land(link)
    BY <1>18, LandLists
  <1>19. QED
    BY <1>2, <1>3, <1>4, <1>5, <1>6, <1>7, <1>8, <1>9, <1>10, <1>11, <1>12, <1>13,
       <1>14, <1>15, <1>16, <1>17, <1>18 DEF Next

\* A scope starts out with an empty listing.
LEMMA InitLists == Init => Buffer!Init
  BY EmitterAssumption DEF Init, ChildScope, TopScope, Buffer!Init

\* The scope of the generator implements a listing, whatever the client emits: the
\* peephole of every emitter and every patch of a jump stays within what the node
\* handlers may rely on (codegen.rs gen_move, genjmp2, gen_return, dispatch;
\* handlers.rs gen_addsub, gen_uniop, gen_binop).
THEOREM ScopeImplementsListing == Spec => ImplementsListing
  <1>1. IInv /\ [Next]_vars => [Buffer!Next]_(Buffer!list)
    <2>1. IInv /\ UNCHANGED vars => Lists
      BY SameLists DEF vars
    <2>2. QED
      BY <2>1, NextLists DEF Lists
  <1>2. QED
    BY <1>1, InitLists, Invariance, PTL DEF Spec, ImplementsListing, Buffer!Spec
================================================================================
