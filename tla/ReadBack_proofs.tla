---------------------------- MODULE ReadBack_proofs ----------------------------
(* Proofs that every file of a program is read back, and written the same again. *)
(*                                                                              *)
(* The reader of records (Reader_proofs) leads to a section (NextAt), to all of *)
(* them (SectionsAt) and to the file (FileReads).  What is read differs from    *)
(* what was written only in what the writer does not write (Copies), so that it *)
(* is written the same (RewriteSame, StripSame), and so is every file of the    *)
(* program (RewritesAreIdentities, StripsAreAlike).                             *)
EXTENDS Reader_proofs
LOCAL INSTANCE SequencesExt

--------------------------------------------------------------------------------
(* Sections.                                                                    *)

SectionOf(ident, body) == ident \o U32(8 + Len(body)) \o body

LEMMA SectionBytes ==
  ASSUME NEW ident \in Seq(Nat), Len(ident) = 4, NEW body \in Seq(Nat)
  PROVE  /\ SectionOf(ident, body) \in Seq(Nat) /\ Len(SectionOf(ident, body)) = 8 + Len(body)
         /\ U32(8 + Len(body)) \in Seq(Nat) /\ Len(U32(8 + Len(body))) = 4 /\ 8 + Len(body) \in Nat
  <1> DEFINE n == 8 + Len(body)
             size == U32(n)
  <1>1. n \in Nat /\ n \in Int
    OBVIOUS
  <1> HIDE DEF n
  <1>2. size \in Seq(Nat) /\ Len(size) = 4
    BY <1>1, WidthOfNumbers
  <1> HIDE DEF size
  <1>3. ident \o size \o body \in Seq(Nat) /\ Len(ident \o size \o body) = 8 + Len(body)
    <2>1. ident \o size \in Seq(Nat) /\ Len(ident \o size) = 4 + 4
      BY <1>2, LengthOfTwo, ZenonT(60)
    <2> DEFINE head == ident \o size
    <2> HIDE DEF head
    <2>2. head \o body \in Seq(Nat) /\ Len(head \o body) = Len(head) + Len(body)
      BY <2>1, LengthOfTwo DEF head
    <2>3. QED
      BY <2>1, <2>2 DEF head
  <1>4. QED
    BY <1>1, <1>2, <1>3, Zenon DEF SectionOf, size, n

\* Where the fields and the body of a section stand.
SectionStands(b, pos, ident, body) ==
  /\ b \in Seq(Nat) /\ pos \in Nat /\ ident \in Seq(Nat) /\ Len(ident) = 4 /\ body \in Seq(Nat)
  /\ 8 + Len(body) < Word /\ Stands(b, pos, SectionOf(ident, body))
SectionHead(b, pos, ident, body) ==
  \A v : Fields(At(b, pos, v), <<4, 4>>) = At(b, pos + 8, <<ident, U32(8 + Len(body))>>)

LEMMA SectionHeadAt ==
  ASSUME NEW b, NEW pos, NEW ident, NEW body, SectionStands(b, pos, ident, body)
  PROVE  /\ SectionHead(b, pos, ident, body) /\ Stands(b, pos + 8, body)
         /\ pos + (8 + Len(body)) <= Len(b)
  <1>0. /\ b \in Seq(Nat) /\ pos \in Nat /\ ident \in Seq(Nat) /\ Len(ident) = 4 /\ body \in Seq(Nat)
        /\ 8 + Len(body) < Word /\ Stands(b, pos, SectionOf(ident, body))
    BY Zenon DEF SectionStands
  <1> DEFINE n     == 8 + Len(body)
             size  == U32(n)
             head  == ident \o size
             parts == <<ident, size>>
             w     == <<4, 4>>
  <1>1. size \in Seq(Nat) /\ Len(size) = 4 /\ n \in Nat /\ Len(SectionOf(ident, body)) = n
    BY <1>0, SectionBytes
  <1>2. Stands(b, pos, head \o body)
    BY <1>0, Zenon DEF SectionOf
  <1> HIDE DEF n, size
  <1>3. head \in Seq(Nat) /\ Len(head) = 8
    <2>1. head \in Seq(Nat) /\ Len(head) = Len(ident) + Len(size)
      BY <1>0, <1>1, LengthOfTwo
    <2>2. QED
      BY <1>0, <1>1, <2>1
  <1>4. FlattenSeq(parts) = head
    BY <1>0, <1>1, FlattenTwo
  <1> HIDE DEF head
  <1>5. Stands(b, pos, head) /\ Stands(b, pos + 8, body)
    <2>1. Stands(b, pos, head) /\ Stands(b, pos + Len(head), body)
      BY <1>0, <1>2, <1>3, StandsJoin
    <2>2. QED
      BY <1>3, <2>1, Zenon
  <1>6. parts \in Seq(Seq(Nat)) /\ Len(parts) = 2 /\ parts[1] = ident /\ parts[2] = size
    BY <1>0, <1>1
  <1> HIDE DEF parts
  <1>7. w = [i \in 1 .. Len(parts) |-> Len(parts[i])]
    <2>1. w = [i \in 1 .. 2 |-> w[i]] /\ w[1] = 4 /\ w[2] = 4
      OBVIOUS
    <2> HIDE DEF w
    <2>2. \A i \in 1 .. 2 : w[i] = Len(parts[i])
      <3>1. \A i \in 1 .. 2 : i = 1 \/ i = 2
        OBVIOUS
      <3>2. QED
        BY <1>0, <1>1, <1>6, <2>1, <3>1, Zenon
    <2>3. QED
      BY <1>6, <2>1, <2>2, Zenon
  <1>8. ASSUME NEW v PROVE Fields(At(b, pos, v), w) = At(b, pos + 8, parts)
    <2> HIDE DEF w
    <2>1. Stands(b, pos, FlattenSeq(parts))
      BY <1>4, <1>5, Zenon
    <2>2. Divided(b, pos, parts, w)
      BY <1>0, <1>6, <1>7, <2>1, Zenon DEF Divided
    <2>3. FieldsRead(b, pos, v, parts, w)
      BY <2>2, FieldsAt, Zenon
    <2>4. QED
      BY <1>3, <1>4, <2>3, Zenon DEF FieldsRead
  <1>9. SectionHead(b, pos, ident, body)
    BY <1>8, Zenon DEF SectionHead, parts, size, n
  <1>10. pos + n <= Len(b)
    <2>1. pos + Len(SectionOf(ident, body)) <= Len(b)
      BY <1>0, Zenon DEF Stands
    <2>2. QED
      BY <1>1, <2>1, Zenon
  <1>11. QED
    BY <1>5, <1>9, <1>10, Zenon DEF n

\* read_rite: a section, up to what is done with its body.
SectionRead(b, pos, ident, body) ==
  \A v : ReadSection(At(b, pos, v))
           = ReadAs(ident, SectionOf(ident, body), At(b, pos + (8 + Len(body)), body), v)

LEMMA SectionAt ==
  ASSUME NEW b, NEW pos, NEW ident, NEW body, SectionStands(b, pos, ident, body)
  PROVE  SectionRead(b, pos, ident, body)
  <1>0. /\ b \in Seq(Nat) /\ pos \in Nat /\ ident \in Seq(Nat) /\ Len(ident) = 4 /\ body \in Seq(Nat)
        /\ 8 + Len(body) < Word /\ Stands(b, pos, SectionOf(ident, body))
    BY Zenon DEF SectionStands
  <1> SUFFICES ASSUME NEW v
               PROVE  ReadSection(At(b, pos, v))
                        = ReadAs(ident, SectionOf(ident, body), At(b, pos + (8 + Len(body)), body), v)
    BY Zenon DEF SectionRead
  <1> DEFINE n     == 8 + Len(body)
             l     == Len(body)
             whole == SectionOf(ident, body)
             vals  == <<ident, U32(n)>>
             q     == pos + 8
             c     == At(b, pos, v)
             head  == At(b, q, vals)
             ok    == n >= 8 /\ pos + n <= Len(head.in)
  <1>1. /\ SectionHead(b, pos, ident, body) /\ Stands(b, q, body) /\ pos + n <= Len(b)
    BY SectionHeadAt, Zenon
  <1>2. whole \in Seq(Nat) /\ Len(whole) = n /\ n \in Nat /\ l \in Nat /\ n = 8 + l
    BY <1>0, SectionBytes
  <1>3. Fields(c, <<4, 4>>) = head
    BY <1>1, Zenon DEF SectionHead
  <1>4. vals[1] = ident /\ vals[2] = U32(n)
    OBVIOUS
  <1>5. Number(U32(n)) = n
    BY <1>0, <1>2, NumberFits
  <1>6. c.pos = pos /\ c.val = v
    BY AtFields
  <1>7. q \in Nat /\ n - 8 = l /\ q + l = pos + n /\ n >= 8
    BY <1>0, <1>2
  <1>8. SubSeq(b, pos + 1, pos + n) = whole
    <2> HIDE DEF whole, n
    <2>1. SubSeq(b, pos + 1, pos + Len(whole)) = whole
      BY <1>0, <1>2, Sliced DEF whole
    <2>2. QED
      BY <1>2, <2>1, Zenon
  <1> HIDE DEF n, l, whole, vals, q, c
  <1>9. head.in = b /\ head.ok /\ head.val = vals
    BY AtFields
  <1>10. ok
    BY <1>1, <1>7, <1>9, Zenon
  <1> HIDE DEF ok
  <1>11. Check(head, ok) = head
    BY <1>10, CheckAt DEF head
  <1>12. Take(head, l) = At(b, q + l, body)
    <2>1. Take(At(b, q, vals), Len(body)) = At(b, q + Len(body), body)
      BY <1>0, <1>1, <1>7, TakeAt
    <2>2. QED
      BY <2>1, Zenon DEF l
  <1> HIDE DEF head
  <1>13. ReadSection(c) = ReadAfter(head, pos, n, v)
    BY <1>3, <1>4, <1>5, <1>6, <1>9, Zenon DEF ReadSection
  <1>14. ReadAfter(head, pos, n, v) = ReadAs(ident, whole, At(b, q + l, body), v)
    <2>1. ReadAfter(head, pos, n, v)
            = ReadAs(head.val[1], SubSeq(head.in, pos + 1, pos + n), Take(Check(head, ok), n - 8), v)
      BY Zenon DEF ReadAfter, ok
    <2>2. QED
      BY <1>4, <1>7, <1>8, <1>9, <1>11, <1>12, <2>1, Zenon
  <1>15. QED
    BY <1>7, <1>13, <1>14, Zenon DEF c, n, whole

LEMMA IdentsDiffer ==
  /\ IREP # LVAR /\ IREP # DBG /\ IREP # END /\ LVAR # DBG /\ LVAR # END /\ DBG # END
  /\ RITE \in Seq(Nat) /\ VERSION \in Seq(Nat) /\ COMPILER \in Seq(Nat) /\ COMPILER_VERSION \in Seq(Nat)
  /\ IREP \in Seq(Nat) /\ LVAR \in Seq(Nat) /\ DBG \in Seq(Nat) /\ END \in Seq(Nat)
  /\ Len(RITE) = 4 /\ Len(VERSION) = 4 /\ Len(COMPILER) = 4 /\ Len(COMPILER_VERSION) = 4
  /\ Len(IREP) = 4 /\ Len(LVAR) = 4 /\ Len(DBG) = 4 /\ Len(END) = 4
  <1>1. \A n, m \in Nat : Ident(n) = Ident(m) => n = m
    <2>1. \A n \in Nat : Ident(n)[4] = n
      BY DEF Ident
    <2>2. QED
      BY <2>1, Zenon
  <1>2. /\ IREP # LVAR /\ IREP # DBG /\ IREP # END /\ LVAR # DBG /\ LVAR # END /\ DBG # END
    <2> HIDE DEF Ident
    <2>1. QED
      BY <1>1, SMT DEF IREP, LVAR, DBG, END
  <1>3. /\ 0 \in Nat /\ 1 \in Nat /\ 2 \in Nat /\ 3 \in Nat /\ 4 \in Nat /\ 5 \in Nat /\ 6 \in Nat /\ 7 \in Nat
    OBVIOUS
  <1>4. \A n \in Nat : Ident(n) \in Seq(Nat) /\ Len(Ident(n)) = 4
    BY IdentFits
  <1>5. /\ RITE \in Seq(Nat) /\ VERSION \in Seq(Nat) /\ COMPILER \in Seq(Nat)
        /\ COMPILER_VERSION \in Seq(Nat)
        /\ Len(RITE) = 4 /\ Len(VERSION) = 4 /\ Len(COMPILER) = 4 /\ Len(COMPILER_VERSION) = 4
    BY <1>3, <1>4, Zenon DEF RITE, VERSION, COMPILER, COMPILER_VERSION
  <1>6. /\ IREP \in Seq(Nat) /\ LVAR \in Seq(Nat) /\ DBG \in Seq(Nat) /\ END \in Seq(Nat)
        /\ Len(IREP) = 4 /\ Len(LVAR) = 4 /\ Len(DBG) = 4 /\ Len(END) = 4
    BY <1>3, <1>4, Zenon DEF IREP, LVAR, DBG, END
  <1>7. QED
    BY <1>2, <1>5, <1>6, Zenon

\* What the sections before were about.
FoundOf(r, s, t, d) == [root |-> r, syms |-> s, records |-> t, debug |-> d]
IsFound(c, r, s, t, d) ==
  /\ c = [x \in {"root", "syms", "records", "debug"} |-> c[x]]
  /\ c.root = r /\ c.syms = s /\ c.records = t /\ c.debug = d

LEMMA FoundIs ==
  ASSUME NEW r, NEW s, NEW t, NEW d
  PROVE  IsFound(FoundOf(r, s, t, d), r, s, t, d)
  BY DEF FoundOf, IsFound

LEMMA EqualFound ==
  ASSUME NEW r, NEW s, NEW t, NEW d, NEW c, IsFound(c, r, s, t, d)
  PROVE  c = FoundOf(r, s, t, d)
  <1> DEFINE e == FoundOf(r, s, t, d)
             F == {"root", "syms", "records", "debug"}
  <1>1. IsFound(e, r, s, t, d)
    BY FoundIs
  <1> HIDE DEF e
  <1>2. \A x \in F : c[x] = e[x]
    BY <1>1 DEF IsFound
  <1>3. c = [x \in F |-> c[x]] /\ e = [x \in F |-> e[x]]
    BY <1>1, Zenon DEF IsFound
  <1>4. c = e
    BY <1>2, <1>3, Zenon
  <1>5. QED
    BY <1>4, Zenon DEF e

WithRoot(found, x)    == [found EXCEPT !.root = x]
WithNames(found, x, y) == [found EXCEPT !.syms = x, !.records = y]
WithDebug(found, x)   == [found EXCEPT !.debug = x]
LEMMA FoundExcept ==
  ASSUME NEW r, NEW s, NEW t, NEW d, NEW x, NEW y
  PROVE  /\ WithRoot(FoundOf(r, s, t, d), x) = FoundOf(x, s, t, d)
         /\ WithNames(FoundOf(r, s, t, d), x, y) = FoundOf(r, x, y, d)
         /\ WithDebug(FoundOf(r, s, t, d), x) = FoundOf(r, s, t, x)
  <1> DEFINE c  == FoundOf(r, s, t, d)
             F  == {"root", "syms", "records", "debug"}
             d1 == [c EXCEPT !.root = x]
             d2 == [c EXCEPT !.syms = x, !.records = y]
             d3 == [c EXCEPT !.debug = x]
  <1>1. IsFound(c, r, s, t, d)
    BY FoundIs
  <1> HIDE DEF c
  <1>2. DOMAIN c = F
    BY <1>1, Zenon DEF IsFound
  <1>3. d1 = [z \in F |-> d1[z]] /\ d2 = [z \in F |-> d2[z]] /\ d3 = [z \in F |-> d3[z]]
    BY <1>2, Zenon
  <1>4. d1.root = x /\ d1.syms = s /\ d1.records = t /\ d1.debug = d
    BY <1>1, <1>2 DEF IsFound
  <1>5. d2.root = r /\ d2.syms = x /\ d2.records = y /\ d2.debug = d
    BY <1>1, <1>2 DEF IsFound
  <1>6. d3.root = r /\ d3.syms = s /\ d3.records = t /\ d3.debug = x
    BY <1>1, <1>2 DEF IsFound
  <1> HIDE DEF d1, d2, d3
  <1>7. IsFound(d1, x, s, t, d) /\ IsFound(d2, r, x, y, d) /\ IsFound(d3, r, s, t, x)
    BY <1>3, <1>4, <1>5, <1>6, Zenon DEF IsFound
  <1>8. d1 = FoundOf(x, s, t, d) /\ d2 = FoundOf(r, x, y, d) /\ d3 = FoundOf(r, s, t, x)
    BY <1>7, EqualFound
  <1>9. QED
    BY <1>8, Zenon DEF d1, d2, d3, c, WithRoot, WithNames, WithDebug

\* The four kinds of section.
LEMMA FoundAt ==
  ASSUME NEW b, NEW p, NEW v, NEW ok, ok, NEW w
  PROVE  Found(At(b, p, v), ok, w) = At(b, p, w)
  <1> DEFINE c == At(b, p, v)
  <1>1. Check(c, ok) = c
    BY CheckAt, Zenon
  <1>2. With(c, w) = At(b, p, w)
    BY AtHolds, Zenon
  <1> HIDE DEF c
  <1>3. QED
    BY <1>1, <1>2, Zenon DEF Found, c

LEMMA ReadAsIs ==
  ASSUME NEW whole, NEW body, body.ok, NEW found
  PROVE  /\ ReadAs(IREP, whole, body, found) = KeepIrep(body, ReadIrepSection(body.val), found)
         /\ ReadAs(LVAR, whole, body, found) = KeepLvar(body, ReadLvarSection(body.val), found)
         /\ ReadAs(DBG, whole, body, found) = Found(body, TRUE, WithDebug(found, <<whole>>))
         /\ ReadAs(END, whole, body, found) = Found(body, body.val = <<>>, found)
  <1> DEFINE a == IREP
             b == LVAR
             c == DBG
             d == END
  <1>1. a # b /\ a # c /\ a # d /\ b # c /\ b # d /\ c # d
    BY IdentsDiffer
  <1> DEFINE ok == body.ok
             R(ident) == CASE ~ok -> Fail(body)
    [] ok /\ ident = a -> KeepIrep(body, ReadIrepSection(body.val), found)
    [] ok /\ ident = b -> KeepLvar(body, ReadLvarSection(body.val), found)
    [] ok /\ ident = c -> Found(body, TRUE, [found EXCEPT !.debug = <<whole>>])
    [] ok /\ ident = d  -> Found(body, body.val = <<>>, found)
    [] OTHER -> Fail(body)
  <1>2. \A ident : ReadAs(ident, whole, body, found) = R(ident)
    BY Zenon DEF ReadAs
  <1>3. ok
    OBVIOUS
  <1> HIDE DEF a, b, c, d, ok
  <1>4. /\ R(a) = KeepIrep(body, ReadIrepSection(body.val), found)
        /\ R(b) = KeepLvar(body, ReadLvarSection(body.val), found)
        /\ R(c) = Found(body, TRUE, [found EXCEPT !.debug = <<whole>>])
        /\ R(d) = Found(body, body.val = <<>>, found)
    BY <1>1, <1>3, Zenon
  <1> HIDE DEF R
  <1>5. QED
    BY <1>2, <1>4, Zenon DEF a, b, c, d, WithDebug

\* What is left to read.
LEMMA RestAt ==
  ASSUME NEW b \in Seq(Nat), NEW p \in Nat, NEW v, NEW part \in Seq(Nat), Stands(b, p, part),
         p + Len(part) = Len(b)
  PROVE  Rest(At(b, p, v)) = part
  <1> DEFINE c == At(b, p, v)
  <1>1. SubSeq(b, p + 1, p + Len(part)) = part
    BY Sliced
  <1>2. c.in = b /\ c.pos = p
    BY AtFields
  <1> HIDE DEF c
  <1>3. QED
    BY <1>1, <1>2, Zenon DEF Rest, c

IrepBody(irep) == VERSION \o Record[irep]
LEMMA IrepSectionAt ==
  ASSUME NEW irep \in Trees, AllShort(irep)
  PROVE  /\ IrepBody(irep) \in Seq(Nat) /\ Len(IrepBody(irep)) = 4 + Len(Record[irep])
         /\ ReadIrepSection(IrepBody(irep))
              = At(Record[irep], Len(Record[irep]), Rebuilt(FALSE)[irep])
  <1> DEFINE body == IrepBody(irep)
             rec  == Record[irep]
             n    == Len(rec)
             x    == Rebuilt(FALSE)[irep]
             c    == At(body, 0, <<>>)
             d    == At(body, 4, VERSION)
             e    == At(rec, n, x)
             ok   == VERSION = VERSION /\ Left(e) = 0
  <1>1. rec \in Seq(Nat)
    BY RecordEquation
  <1>2. VERSION \in Seq(Nat) /\ Len(VERSION) = 4
    BY IdentsDiffer, Zenon
  <1>3. n \in Nat
    BY <1>1
  <1>4. ReadRecord(Cursor(rec)) = e
    <2> HIDE DEF n, x
    <2>1. ReadRecord(Cursor(rec)) = At(rec, Len(rec), Rebuilt(FALSE)[irep])
      BY <1>1, RecordAt
    <2>2. QED
      BY <2>1, Zenon DEF n, x
  <1> HIDE DEF rec, x
  <1> DEFINE ver == VERSION
  <1> HIDE DEF ver
  <1>5. body = ver \o rec /\ ver \in Seq(Nat) /\ Len(ver) = 4
    BY <1>2, Zenon DEF IrepBody, rec, ver
  <1> HIDE DEF body
  <1>6. body \in Seq(Nat) /\ Len(body) = 4 + n
    <2>1. ver \o rec \in Seq(Nat) /\ Len(ver \o rec) = Len(ver) + Len(rec)
      BY <1>1, <1>5, LengthOfTwo
    <2>2. QED
      BY <1>5, <2>1, Zenon
  <1>7. Stands(body, 0, ver) /\ Stands(body, 4, rec)
    <2>1. Stands(body, 0, ver \o rec)
      BY <1>5, <1>6, StandsItself, Zenon
    <2>2. 0 \in Nat
      OBVIOUS
    <2>3. Stands(body, 0, ver) /\ Stands(body, 0 + Len(ver), rec)
      BY <1>1, <1>5, <1>6, <2>1, <2>2, StandsJoin
    <2>4. 0 + 4 = 4
      OBVIOUS
    <2>5. QED
      BY <1>5, <2>3, <2>4, Zenon
  <1>8. Take(c, 4) = d
    <2>1. 0 \in Nat /\ 0 + 4 = 4
      OBVIOUS
    <2> DEFINE z == <<>>
    <2> HIDE DEF z
    <2>2. Take(At(body, 0, z), Len(ver)) = At(body, 0 + Len(ver), ver)
      BY <1>5, <1>6, <1>7, <2>1, TakeAt, ZenonT(60)
    <2>3. QED
      BY <1>5, <2>1, <2>2, Zenon DEF ver, z
  <1>9. Rest(d) = rec
    <2> DEFINE w == VERSION
    <2> HIDE DEF w, n
    <2>1. 4 \in Nat /\ 4 + Len(rec) = Len(body)
      BY <1>6 DEF n
    <2>2. Rest(At(body, 4, w)) = rec
      BY <1>1, <1>6, <1>7, <2>1, RestAt
    <2>3. QED
      BY <2>2, Zenon DEF w
  <1>10. d.val = VERSION /\ e.val = x
    <2> DEFINE w == VERSION
    <2> HIDE DEF w, n
    <2>1. d.val = w
      BY AtFields DEF w
    <2>2. e.val = x
      BY AtFields
    <2>3. QED
      BY <2>1, <2>2, Zenon DEF w
  <1>11. Left(e) = 0
    <2> HIDE DEF n
    <2>1. Left(e) = Len(rec) - n
      BY AtFields
    <2>2. QED
      BY <1>3, <2>1 DEF n
  <1>12. Cursor(body) = c
    BY CursorAt
  <1> HIDE DEF c, d
  <1>13. With(Check(e, ok), x) = e
    <2>1. ok
      BY <1>11, Zenon
    <2> HIDE DEF ok
    <2>2. Check(e, ok) = e
      BY <2>1, CheckAt, Zenon
    <2>3. With(e, x) = e
      BY AtHolds, Zenon
    <2>4. QED
      BY <2>2, <2>3, Zenon
  <1> HIDE DEF e
  <1>14. ReadIrepSection(body) = e
    BY <1>4, <1>8, <1>9, <1>10, <1>12, <1>13, Zenon DEF ReadIrepSection, IrepOf
  <1>15. QED
    BY <1>6, <1>14, Zenon DEF e, body, rec, n, x

LvarBody(names, irep) == U32(Len(names)) \o NamesOf(names) \o LvRecords[irep]
ShortNames(names) ==
  names \in Seq(Seq(Nat)) /\ Len(names) \in 0 .. NullMark /\ \A i \in DOMAIN names : Len(names[i]) < Halfword
LEMMA LvarSectionAt ==
  ASSUME NEW irep \in Trees, NEW names, ShortNames(names)
  PROVE  /\ LvarBody(names, irep) \in Seq(Nat)
         /\ ReadLvarSection(LvarBody(names, irep))
              = At(LvarBody(names, irep), 4 + Len(NamesOf(names)), names)
         /\ Rest(At(LvarBody(names, irep), 4 + Len(NamesOf(names)), names)) = LvRecords[irep]
  <1> DEFINE body == LvarBody(names, irep)
             recs == LvRecords[irep]
             n    == Len(names)
             num  == U32(n)
             list == NamesOf(names)
             q    == 4 + Len(list)
             c    == At(body, 0, <<>>)
             d    == At(body, 4, n)
  <1>1. /\ names \in Seq(Seq(Nat)) /\ n \in Nat /\ n <= NullMark
        /\ \A i \in DOMAIN names : Len(names[i]) < Halfword
    BY NullMarkFits DEF ShortNames
  <1>2. n < Word
    <2> HIDE DEF n
    <2>1. Halfword <= Word
      BY Widths
    <2>2. QED
      BY <1>1, <2>1, NullMarkFits, Widths
  <1>3. recs \in Seq(Nat)
    BY LvRecordsEquation
  <1>4. list \in Seq(Nat) /\ list = Joined(WithLength, names)
    <2>1. list \in Seq(Nat)
      BY <1>1, NamesFit, Zenon
    <2>2. QED
      BY <2>1, Zenon DEF NamesOf, Joined, Each, WithLength
  <1>5. num \in Seq(Nat) /\ Len(num) = 4 /\ Len(list) \in Nat
    <2>1. n \in Int
      BY <1>1
    <2> HIDE DEF n
    <2>2. QED
      BY <1>4, <2>1, WidthOfNumbers
  <1>6. body = num \o list \o recs
    BY Zenon DEF LvarBody
  <1> HIDE DEF body, recs, num, list
  <1> DEFINE head == num \o list
  <1>7. /\ head \in Seq(Nat) /\ Len(head) = q /\ body = head \o recs
        /\ body \in Seq(Nat) /\ Len(body) = q + Len(recs) /\ Len(recs) \in Nat /\ q \in Nat
    <2>1. head \in Seq(Nat) /\ Len(head) = q
      BY <1>4, <1>5, LengthOfTwo
    <2> HIDE DEF head, q
    <2>2. body = head \o recs
      BY <1>6, Zenon DEF head
    <2>3. head \o recs \in Seq(Nat) /\ Len(head \o recs) = Len(head) + Len(recs)
      BY <1>3, <2>1, LengthOfTwo
    <2>4. q \in Nat
      BY <1>5 DEF q
    <2>5. QED
      BY <1>3, <2>1, <2>2, <2>3, <2>4
  <1>8. Stands(body, 0, num) /\ Stands(body, 4, list) /\ Stands(body, q, recs)
    <2>0. 0 \in Nat /\ 0 + 4 = 4 /\ 0 + q = q
      BY <1>7
    <2> HIDE DEF q
    <2>1. Stands(body, 0, head \o recs)
      BY <1>7, StandsItself, Zenon
    <2>2. Stands(body, 0, head) /\ Stands(body, 0 + Len(head), recs)
      <3> HIDE DEF head
      <3>1. QED
        BY <1>3, <1>7, <2>0, <2>1, StandsJoin
    <2>3. Stands(body, 0, num) /\ Stands(body, 0 + Len(num), list)
      BY <1>4, <1>5, <1>7, <2>0, <2>2, StandsJoin
    <2>4. QED
      BY <1>5, <1>7, <2>0, <2>2, <2>3, Zenon
  <1>9. Num(c, 4) = d
    <2> DEFINE z == <<>>
               k == 0
    <2>1. k \in Nat /\ k + 4 = 4
      OBVIOUS
    <2> HIDE DEF z, n, k
    <2>2. Stands(body, k, U32(n))
      BY <1>8, Zenon DEF num, k
    <2>a. n \in Nat /\ n < Word
      BY <1>1, <1>2, Zenon
    <2>b. body \in Seq(Nat)
      BY <1>7, Zenon
    <2>c. k \in Nat
      BY <2>1, Zenon
    <2> HIDE DEF head, q
    <2>3. Num(At(body, k, z), 4) = At(body, k + 4, n)
      BY <2>a, <2>b, <2>c, <2>2, WordAt
    <2>4. QED
      BY <2>1, <2>3, Zenon DEF z, k
  <1>10. Times(d, n, ReadCounted) = At(body, q, names)
    <2> DEFINE k == 4
    <2>0. k \in Nat
      OBVIOUS
    <2> HIDE DEF k
    <2>1. Stands(body, k, Joined(WithLength, names))
      BY <1>4, <1>8, Zenon DEF k
    <2>2. Times(At(body, k, n), Len(names), ReadCounted)
            = At(body, k + Len(Joined(WithLength, names)), names)
      BY <1>1, <1>7, <2>0, <2>1, NamesAt
    <2>3. QED
      BY <1>4, <2>2, Zenon DEF k
  <1>11. d.val = n
    <2> HIDE DEF n
    <2>1. QED
      BY AtFields
  <1>12. Cursor(body) = c
    BY CursorAt
  <1>13. Rest(At(body, q, names)) = recs
    <2> HIDE DEF q
    <2>1. QED
      BY <1>3, <1>7, <1>8, RestAt
  <1> HIDE DEF c, d
  <1>14. ReadLvarSection(body) = At(body, q, names)
    BY <1>9, <1>10, <1>11, <1>12, Zenon DEF ReadLvarSection
  <1>15. QED
    BY <1>7, <1>13, <1>14, Zenon DEF body, list, q, recs

NextIs(b, pos, ident, body) ==
  \A v : NextSection(At(b, pos, v))
           = ReadAs(ident, SectionOf(ident, body), At(b, pos + (8 + Len(body)), body), v)
LEMMA NextAt ==
  ASSUME NEW b, NEW pos, NEW ident, NEW body, SectionStands(b, pos, ident, body)
  PROVE  NextIs(b, pos, ident, body)
  <1> SUFFICES ASSUME NEW v
               PROVE  NextSection(At(b, pos, v))
                        = ReadAs(ident, SectionOf(ident, body), At(b, pos + (8 + Len(body)), body), v)
    BY Zenon DEF NextIs
  <1> DEFINE c == At(b, pos, v)
             l == Len(body)
  <1>1. SectionRead(b, pos, ident, body)
    BY SectionAt, Zenon
  <1>2. ReadSection(c) = ReadAs(ident, SectionOf(ident, body), At(b, pos + (8 + l), body), v)
    BY <1>1, Zenon DEF SectionRead
  <1>3. pos + (8 + l) <= Len(b)
    BY SectionHeadAt, Zenon
  <1>4. b \in Seq(Nat) /\ pos \in Nat /\ body \in Seq(Nat)
    BY Zenon DEF SectionStands
  <1>5. l \in Nat /\ Len(b) \in Nat
    BY <1>4, LengthType
  <1>6. c.ok /\ Left(c) = Len(b) - pos
    BY AtFields
  <1> HIDE DEF c, l
  <1>7. Left(c) # 0
    BY <1>3, <1>4, <1>5, <1>6
  <1>8. QED
    BY <1>2, <1>6, <1>7, Zenon DEF NextSection, c, l

IrepIsNext(b, pos, irep) ==
  \A r, s, t, d :
    NextSection(At(b, pos, FoundOf(r, s, t, d)))
      = At(b, pos + (8 + Len(IrepBody(irep))), FoundOf(<<Rebuilt(FALSE)[irep]>>, s, t, d))
LEMMA ReadsIrepSection ==
  ASSUME NEW b, NEW pos, NEW irep \in Trees, AllShort(irep),
         SectionStands(b, pos, IREP, IrepBody(irep))
  PROVE  IrepIsNext(b, pos, irep)
  <1> SUFFICES ASSUME NEW r, NEW s, NEW t, NEW d
               PROVE  NextSection(At(b, pos, FoundOf(r, s, t, d)))
                        = At(b, pos + (8 + Len(IrepBody(irep))),
                             FoundOf(<<Rebuilt(FALSE)[irep]>>, s, t, d))
    BY Zenon DEF IrepIsNext
  <1> DEFINE body  == IrepBody(irep)
             whole == SectionOf(IREP, body)
             found == FoundOf(r, s, t, d)
             q     == pos + (8 + Len(body))
             c     == At(b, q, body)
             rec   == Record[irep]
             n     == Len(rec)
             x     == Rebuilt(FALSE)[irep]
             got   == At(rec, n, x)
             found2 == FoundOf(<<x>>, s, t, d)
  <1>a. NextIs(b, pos, IREP, body)
    BY NextAt, Zenon
  <1>1. NextSection(At(b, pos, found)) = ReadAs(IREP, whole, c, found)
    BY <1>a, Zenon DEF NextIs
  <1>2. ReadIrepSection(body) = got
    BY IrepSectionAt, Zenon
  <1> HIDE DEF body, q, rec, n, x, whole
  <1>3. c.ok /\ c.val = body
    BY AtFields
  <1>4. got.ok /\ got.val = x
    BY AtFields
  <1>5. WithRoot(found, <<x>>) = found2
    <2> DEFINE z == <<x>>
    <2> HIDE DEF z
    <2>1. WithRoot(FoundOf(r, s, t, d), z) = FoundOf(z, s, t, d)
      BY FoundExcept
    <2>2. QED
      BY <2>1, Zenon DEF z
  <1>6. Found(c, got.ok, found2) = At(b, q, found2)
    <2> DEFINE yes == got.ok
    <2>1. yes
      BY <1>4, Zenon
    <2> HIDE DEF yes, found2
    <2>2. Found(c, yes, found2) = At(b, q, found2)
      BY <2>1, FoundAt, ZenonT(60)
    <2>3. QED
      BY <2>2, Zenon DEF yes
  <1> HIDE DEF c, found, got
  <1>7. ReadAs(IREP, whole, c, found) = KeepIrep(c, ReadIrepSection(c.val), found)
    BY <1>3, ReadAsIs, Zenon
  <1>8. KeepIrep(c, got, found) = Found(c, got.ok, WithRoot(found, <<got.val>>))
    BY Zenon DEF KeepIrep, WithRoot
  <1> HIDE DEF found2
  <1>9. NextSection(At(b, pos, found)) = At(b, q, found2)
    BY <1>1, <1>2, <1>3, <1>4, <1>5, <1>6, <1>7, <1>8, Zenon
  <1>10. QED
    BY <1>9, Zenon DEF found, q, body, found2, x

LvarIsNext(b, pos, names, irep) ==
  \A r, s, t, d :
    NextSection(At(b, pos, FoundOf(r, s, t, d)))
      = At(b, pos + (8 + Len(LvarBody(names, irep))), FoundOf(r, <<names>>, LvRecords[irep], d))
LEMMA ReadsLvarSection ==
  ASSUME NEW b, NEW pos, NEW irep \in Trees, NEW names, ShortNames(names),
         SectionStands(b, pos, LVAR, LvarBody(names, irep))
  PROVE  LvarIsNext(b, pos, names, irep)
  <1> SUFFICES ASSUME NEW r, NEW s, NEW t, NEW d
               PROVE  NextSection(At(b, pos, FoundOf(r, s, t, d)))
                        = At(b, pos + (8 + Len(LvarBody(names, irep))),
                             FoundOf(r, <<names>>, LvRecords[irep], d))
    BY Zenon DEF LvarIsNext
  <1> DEFINE body  == LvarBody(names, irep)
             whole == SectionOf(LVAR, body)
             found == FoundOf(r, s, t, d)
             q     == pos + (8 + Len(body))
             c     == At(b, q, body)
             recs  == LvRecords[irep]
             n     == 4 + Len(NamesOf(names))
             got   == At(body, n, names)
             found2 == FoundOf(r, <<names>>, recs, d)
  <1>a. NextIs(b, pos, LVAR, body)
    BY NextAt, Zenon
  <1>1. NextSection(At(b, pos, found)) = ReadAs(LVAR, whole, c, found)
    BY <1>a, Zenon DEF NextIs
  <1>2. ReadLvarSection(body) = got /\ Rest(got) = recs
    BY LvarSectionAt, Zenon
  <1> HIDE DEF body, q, recs, n, whole
  <1>3. c.ok /\ c.val = body
    BY AtFields
  <1>4. got.ok /\ got.val = names
    BY AtFields
  <1>5. WithNames(found, <<names>>, recs) = found2
    <2> DEFINE z == <<names>>
    <2> HIDE DEF z
    <2>1. WithNames(FoundOf(r, s, t, d), z, recs) = FoundOf(r, z, recs, d)
      BY FoundExcept
    <2>2. QED
      BY <2>1, Zenon DEF z
  <1>6. Found(c, got.ok, found2) = At(b, q, found2)
    <2> DEFINE yes == got.ok
    <2>1. yes
      BY <1>4, Zenon
    <2> HIDE DEF yes, found2
    <2>2. Found(c, yes, found2) = At(b, q, found2)
      BY <2>1, FoundAt, ZenonT(60)
    <2>3. QED
      BY <2>2, Zenon DEF yes
  <1> HIDE DEF c, found, got
  <1>7. ReadAs(LVAR, whole, c, found) = KeepLvar(c, ReadLvarSection(c.val), found)
    BY <1>3, ReadAsIs, Zenon
  <1>8. KeepLvar(c, got, found) = Found(c, got.ok, WithNames(found, <<got.val>>, Rest(got)))
    BY Zenon DEF KeepLvar, WithNames
  <1> HIDE DEF found2
  <1>9. NextSection(At(b, pos, found)) = At(b, q, found2)
    BY <1>1, <1>2, <1>3, <1>4, <1>5, <1>6, <1>7, <1>8, Zenon
  <1>10. QED
    BY <1>9, Zenon DEF found, q, body, found2, recs

DebugIsNext(b, pos, body) ==
  \A r, s, t, d : NextSection(At(b, pos, FoundOf(r, s, t, d)))
                     = At(b, pos + (8 + Len(body)), FoundOf(r, s, t, <<SectionOf(DBG, body)>>))
EndIsNext(b, pos, body) ==
  \A r, s, t, d : NextSection(At(b, pos, FoundOf(r, s, t, d)))
                     = At(b, pos + (8 + Len(body)), FoundOf(r, s, t, d))
LEMMA ReadsOtherSection ==
  ASSUME NEW b, NEW pos, NEW body
  PROVE  /\ SectionStands(b, pos, DBG, body) => DebugIsNext(b, pos, body)
         /\ SectionStands(b, pos, END, body) /\ body = <<>> => EndIsNext(b, pos, body)
  <1> SUFFICES
        ASSUME NEW r, NEW s, NEW t, NEW d
        PROVE  /\ SectionStands(b, pos, DBG, body)
                    => NextSection(At(b, pos, FoundOf(r, s, t, d)))
                         = At(b, pos + (8 + Len(body)), FoundOf(r, s, t, <<SectionOf(DBG, body)>>))
               /\ SectionStands(b, pos, END, body) /\ body = <<>>
                    => NextSection(At(b, pos, FoundOf(r, s, t, d)))
                         = At(b, pos + (8 + Len(body)), FoundOf(r, s, t, d))
    BY Zenon DEF DebugIsNext, EndIsNext
  <1> DEFINE found == FoundOf(r, s, t, d)
             q     == pos + (8 + Len(body))
             c     == At(b, q, body)
  <1>1. ASSUME SectionStands(b, pos, DBG, body)
        PROVE  NextSection(At(b, pos, found)) = At(b, q, FoundOf(r, s, t, <<SectionOf(DBG, body)>>))
    <2> DEFINE whole  == SectionOf(DBG, body)
               found2 == FoundOf(r, s, t, <<whole>>)
               yes    == TRUE
    <2>a. NextIs(b, pos, DBG, body)
      BY <1>1, NextAt, Zenon
    <2>1. NextSection(At(b, pos, found)) = ReadAs(DBG, whole, c, found)
      BY <2>a, Zenon DEF NextIs
    <2> HIDE DEF q, whole
    <2>2. c.ok
      BY AtFields
    <2>3. WithDebug(found, <<whole>>) = found2
      <3> DEFINE z == <<whole>>
      <3> HIDE DEF z
      <3>1. WithDebug(FoundOf(r, s, t, d), z) = FoundOf(r, s, t, z)
        BY FoundExcept
      <3>2. QED
        BY <3>1, Zenon DEF z
    <2>4. yes
      OBVIOUS
    <2>5. Found(c, yes, found2) = At(b, q, found2)
      <3> HIDE DEF yes, found2
      <3>1. QED
        BY <2>4, FoundAt, ZenonT(60)
    <2> HIDE DEF c, found
    <2>6. ReadAs(DBG, whole, c, found) = Found(c, yes, WithDebug(found, <<whole>>))
      BY <2>2, ReadAsIs, Zenon
    <2> HIDE DEF found2
    <2>7. NextSection(At(b, pos, found)) = At(b, q, found2)
      BY <2>1, <2>3, <2>5, <2>6, Zenon
    <2>8. QED
      BY <2>7, Zenon DEF found2, whole
  <1>2. ASSUME SectionStands(b, pos, END, body), body = <<>>
        PROVE  NextSection(At(b, pos, found)) = At(b, q, found)
    <2> DEFINE whole == SectionOf(END, body)
               yes   == c.val = <<>>
    <2>a. NextIs(b, pos, END, body)
      BY <1>2, NextAt, Zenon
    <2>1. NextSection(At(b, pos, found)) = ReadAs(END, whole, c, found)
      BY <2>a, Zenon DEF NextIs
    <2> HIDE DEF q, whole, found
    <2>2. c.ok /\ c.val = body
      BY AtFields
    <2>3. yes
      BY <1>2, <2>2
    <2>4. Found(c, yes, found) = At(b, q, found)
      <3> HIDE DEF yes
      <3>1. QED
        BY <2>3, FoundAt, ZenonT(60)
    <2> HIDE DEF c
    <2>5. ReadAs(END, whole, c, found) = Found(c, yes, found)
      BY <2>2, ReadAsIs, Zenon
    <2>6. QED
      BY <2>1, <2>4, <2>5, Zenon
  <1>3. QED
    BY <1>1, <1>2, Zenon

--------------------------------------------------------------------------------
(* One section after the other.                                                 *)

Sections(after, c, n) ==
  after[0] = c /\ \A i \in 1 .. n : after[i] = NextSection(after[i - 1])

LEMMA ReadSectionsEquation ==
  ASSUME NEW c, NEW n \in Nat, n = Len(c.in) \div 8
  PROVE  \E after : Sections(after, c, n) /\ ReadSections(c) = after[n]
  <1> DEFINE Eq(f, m) == f = [i \in 0 .. m |-> IF i = 0 THEN c ELSE NextSection(f[i - 1])]
             g        == CHOOSE f : Eq(f, n)
             S        == {m \in Nat : \E f : Eq(f, m)}
  <1>1. 0 \in S
    <2> DEFINE f == [i \in 0 .. 0 |-> c]
    <2>1. Eq(f, 0)
      OBVIOUS
    <2> HIDE DEF Eq
    <2>2. QED
      BY <2>1
  <1>2. ASSUME NEW m \in Nat, m \in S PROVE m + 1 \in S
    <2>1. PICK f : Eq(f, m)
      BY <1>2
    <2> DEFINE h == [i \in 0 .. m + 1 |-> IF i = 0 THEN c ELSE NextSection(f[i - 1])]
    <2>2. ASSUME NEW i \in 0 .. m PROVE h[i] = f[i]
      <3>1. i \in 0 .. m + 1
        OBVIOUS
      <3>2. QED
        BY <2>1, <3>1, Zenon
    <2>3. \A i \in 0 .. m + 1 : i # 0 => i - 1 \in 0 .. m
      OBVIOUS
    <2>4. Eq(h, m + 1)
      <3>1. ASSUME NEW i \in 0 .. m + 1
            PROVE  (IF i = 0 THEN c ELSE NextSection(f[i - 1])) = IF i = 0 THEN c ELSE NextSection(h[i - 1])
        <4> HIDE DEF h
        <4>1. QED
          BY <2>2, <2>3, Zenon
      <3>2. QED
        BY <3>1, Zenon
    <2>5. m + 1 \in Nat
      OBVIOUS
    <2> HIDE DEF Eq, h
    <2>6. QED
      BY <2>4, <2>5
  <1>3. n \in S
    <2> HIDE DEF S
    <2>1. QED
      BY <1>1, <1>2, SetInduction
  <1>4. Eq(g, n)
    <2> HIDE DEF Eq
    <2>1. QED
      BY <1>3, Zenon
  <1>5. ReadSections(c) = g[n]
    BY Zenon DEF ReadSections
  <1> HIDE DEF g
  <1>6. g[0] = c
    BY <1>4
  <1>7. ASSUME NEW i \in 1 .. n PROVE g[i] = NextSection(g[i - 1])
    <2>a. \A k \in Nat : \A j \in 1 .. k : j \in 0 .. k /\ j # 0
      OBVIOUS
    <2>1. i \in 0 .. n /\ i # 0
      BY <2>a, Zenon
    <2>2. QED
      BY <1>4, <2>1, Zenon
  <1>8. Sections(g, c, n)
    BY <1>6, <1>7, Zenon DEF Sections
  <1>9. QED
    BY <1>5, <1>8, Zenon

--------------------------------------------------------------------------------
(* What stands in a file.                                                       *)

LEMMA StandsTogether ==
  ASSUME NEW b \in Seq(Nat), NEW p \in Nat, NEW x \in Seq(Nat), NEW y \in Seq(Nat), Stands(b, p, x),
         Stands(b, p + Len(x), y)
  PROVE  Stands(b, p, x \o y)
  <1> DEFINE m == Len(x)
             n == Len(y)
             z == x \o y
             l == Len(b)
  <1>1. /\ m \in Nat /\ n \in Nat /\ Len(z) = m + n /\ l \in Nat
        /\ (\A k \in 1 .. m : z[k] = x[k]) /\ \A k \in 1 .. n : z[m + k] = y[k]
    OBVIOUS
  <1>2. /\ \A k \in 1 .. m : b[p + k] = x[k]
        /\ (p + m) + n <= l /\ \A k \in 1 .. n : b[(p + m) + k] = y[k]
    BY Zenon DEF Stands
  <1> HIDE DEF m, n, z, l
  <1>3. ASSUME NEW k \in 1 .. m + n PROVE b[p + k] = z[k]
    <2>1. CASE k \in 1 .. m
      BY <1>1, <1>2, <2>1, Zenon
    <2>2. CASE k \notin 1 .. m
      <3>1. k - m \in 1 .. n /\ m + (k - m) = k /\ (p + m) + (k - m) = p + k
        BY <1>1, <2>2
      <3>2. QED
        BY <1>1, <1>2, <3>1, Zenon
    <2>3. QED
      BY <2>1, <2>2
  <1>4. p + (m + n) <= l
    BY <1>1, <1>2
  <1>5. QED
    BY <1>1, <1>3, <1>4, Zenon DEF Stands, z, l

LEMMA SectionMade ==
  ASSUME NEW b \in Seq(Nat), NEW p \in Nat, NEW ident \in Seq(Nat), Len(ident) = 4,
         NEW body \in Seq(Nat), 8 + Len(body) < Word, Stands(b, p, ident),
         Stands(b, p + 4, U32(8 + Len(body))), Stands(b, p + 8, body)
  PROVE  SectionStands(b, p, ident, body)
  <1> DEFINE size == U32(8 + Len(body))
             head == ident \o size
  <1>1. size \in Seq(Nat) /\ Len(size) = 4
    BY SectionBytes
  <1>2. Stands(b, p, ident) /\ Stands(b, p + Len(ident), size)
    OBVIOUS
  <1> HIDE DEF size
  <1>3. head \in Seq(Nat) /\ Len(head) = 4 + 4
    BY <1>1, LengthOfTwo, ZenonT(60)
  <1>4. Stands(b, p, head)
    BY <1>1, <1>2, StandsTogether
  <1> HIDE DEF head
  <1>5. Stands(b, p + Len(head), body)
    BY <1>3
  <1>6. Stands(b, p, head \o body)
    BY <1>3, <1>4, <1>5, StandsTogether
  <1>7. Stands(b, p, SectionOf(ident, body))
    BY <1>6, Zenon DEF SectionOf, head, size
  <1>8. QED
    BY <1>7, Zenon DEF SectionStands

\* Models whose counts and lengths fit the fields that hold them.
Readable(model) ==
  /\ Writable(model) /\ model.debugRaw = <<>> /\ AllShort(model.root) /\ BinarySize(model) < Word
  /\ model.lvarSyms # <<>>
       => ShortNames(model.lvarSyms[1]) /\ AllNamed(model.root, Len(model.lvarSyms[1]))

FileHead(model) == RITE \o VERSION \o U32(BinarySize(model)) \o COMPILER \o COMPILER_VERSION
EndOfIrep(model)  == 20 + IrepSize(model)
EndOfDebug(model) == EndOfIrep(model) + Len(DebugBytes(model))
EndOfLvar(model)  == EndOfDebug(model) + LvarSize(model)
FileCut(b, model) ==
  /\ b \in Seq(Nat) /\ Len(b) = BinarySize(model) /\ Stands(b, 0, FileHead(model))
  /\ SectionStands(b, 20, IREP, IrepBody(model.root))
  /\ EndOfIrep(model) = 20 + (8 + Len(IrepBody(model.root)))
  /\ Stands(b, EndOfIrep(model), DebugBytes(model))
  /\ Stands(b, EndOfDebug(model), LvarSection(model))
  /\ SectionStands(b, EndOfLvar(model), END, <<>>) /\ EndOfLvar(model) + 8 = Len(b)
  /\ EndOfIrep(model) \in Nat /\ EndOfDebug(model) \in Nat /\ EndOfLvar(model) \in Nat

LEMMA FileHeadBytes ==
  ASSUME NEW model, BinarySize(model) \in Int
  PROVE  FileHead(model) \in Seq(Nat) /\ Len(FileHead(model)) = 20
  <1> DEFINE s == U32(BinarySize(model))
             x == RITE
             y == VERSION
             z == COMPILER
             w == COMPILER_VERSION
             c2 == x \o y
             c3 == c2 \o s
             c4 == c3 \o z
  <1>1. s \in Seq(Nat) /\ Len(s) = 4
    BY WidthOfNumbers
  <1>2. /\ x \in Seq(Nat) /\ y \in Seq(Nat) /\ z \in Seq(Nat) /\ w \in Seq(Nat)
        /\ Len(x) = 4 /\ Len(y) = 4 /\ Len(z) = 4 /\ Len(w) = 4
    BY IdentsDiffer, Zenon
  <1>3. FileHead(model) = c4 \o w
    BY Zenon DEF FileHead
  <1> HIDE DEF s, x, y, z, w
  <1>4. c2 \in Seq(Nat) /\ Len(c2) = Len(x) + Len(y)
    BY <1>2, LengthOfTwo
  <1> HIDE DEF c2
  <1>5. c3 \in Seq(Nat) /\ Len(c3) = Len(c2) + Len(s)
    BY <1>1, <1>4, LengthOfTwo
  <1> HIDE DEF c3
  <1>6. c4 \in Seq(Nat) /\ Len(c4) = Len(c3) + Len(z)
    BY <1>2, <1>5, LengthOfTwo
  <1> HIDE DEF c4
  <1>7. c4 \o w \in Seq(Nat) /\ Len(c4 \o w) = Len(c4) + Len(w)
    BY <1>2, <1>6, LengthOfTwo
  <1>8. Len(c4 \o w) = 20
    BY <1>1, <1>2, <1>4, <1>5, <1>6, <1>7
  <1>9. QED
    BY <1>3, <1>7, <1>8

LEMMA FileStands ==
  ASSUME NEW model, Readable(model), NEW b, b = WriteRite(model)
  PROVE  FileCut(b, model)
  <1> DEFINE r    == model.root
             rec  == Record[r]
             dbg  == DebugBytes(model)
             lvar == LvarSection(model)
             a    == FileHead(model)
             i    == IREP
             v    == VERSION
             e    == END
             m    == IrepSize(model)
             t    == U32(m)
             u    == U32(8)
             x    == a \o i \o t \o v \o rec
             n    == BinarySize(model)
             k    == Len(rec)
             d    == Len(dbg)
             l    == LvarSize(model)
             body == IrepBody(r)
  <1>1. Writable(model) /\ AllShort(r) /\ n < Word
    BY Zenon DEF Readable
  <1>2. r \in Trees
    BY <1>1, Zenon DEF Writable
  <1>3. b \in Seq(Nat) /\ Len(b) = n /\ n \in Int
    BY <1>1, FilesFit, Zenon
  <1>4. rec \in Seq(Nat) /\ k = RecordSize[r]
    BY <1>2, NestedRecordsFit, RecordEquation
  <1>5. dbg \in Seq(Nat)
    BY <1>1, DebugBytesType, Zenon DEF Writable
  <1>6. lvar \in Seq(Nat) /\ l \in Int /\ Len(lvar) = l
    BY <1>1, LvarSectionFits, Zenon
  <1>7. /\ i \in Seq(Nat) /\ Len(i) = 4 /\ v \in Seq(Nat) /\ Len(v) = 4 /\ e \in Seq(Nat) /\ Len(e) = 4
    BY IdentsDiffer, Zenon
  <1>8. m = 12 + k /\ n = 20 + m + d + l + 8
    BY <1>4, Zenon DEF BinarySize, IrepSize
  <1>9. body \in Seq(Nat) /\ Len(body) = 4 + k
    BY <1>1, <1>2, IrepSectionAt, Zenon
  <1>10. b = x \o dbg \o lvar \o e \o u
    BY Zenon DEF WriteRite, FileHead
  <1>11. body = v \o rec
    BY Zenon DEF IrepBody
  <1>12. /\ EndOfIrep(model) = 20 + m /\ EndOfDebug(model) = 20 + m + d
         /\ EndOfLvar(model) = 20 + m + d + l
    BY Zenon DEF EndOfIrep, EndOfDebug, EndOfLvar
  <1>13. a \in Seq(Nat) /\ Len(a) = 20
    BY <1>3, FileHeadBytes, Zenon
  <1> HIDE DEF rec, dbg, lvar, a, i, v, e, n, l, body, m
  <1>14. k \in Nat /\ d \in Nat /\ l \in Nat
    BY <1>4, <1>5, <1>6, LengthType
  <1> HIDE DEF k, d
  <1>15. m \in Nat /\ m \in Int /\ 8 \in Int
    BY <1>8, <1>14
  <1>16. t \in Seq(Nat) /\ Len(t) = 4 /\ u \in Seq(Nat) /\ Len(u) = 4
    BY <1>15, WidthOfNumbers
  <1> HIDE DEF t, u
  <1> DEFINE o == 0
  <1>0. o \in Nat /\ o + 20 = 20 /\ o = 0
    OBVIOUS
  <1> HIDE DEF o
  <1>17. x \in Seq(Nat)
    BY <1>4, <1>7, <1>13, <1>16
  <1> DEFINE whole == x \o dbg \o lvar \o e \o u
  <1>18. CutFive(b, o, x, dbg, lvar, e, u)
    <2> HIDE DEF x
    <2>1. whole \in Seq(Nat)
      BY <1>3, <1>10, Zenon
    <2>2. Stands(b, o, whole)
      BY <1>0, <1>3, <1>10, StandsItself, Zenon
    <2>3. QED
      BY <1>0, <1>3, <1>5, <1>6, <1>7, <1>16, <1>17, <2>2, FiveStand
  <1>19. CutFive(b, o, a, i, t, v, rec)
    <2>1. Stands(b, o, x)
      BY <1>18, Zenon DEF CutFive
    <2>2. QED
      BY <1>0, <1>3, <1>4, <1>7, <1>13, <1>16, <2>1, FiveStand
  <1>20. Len(x) = 20 + 4 + 4 + 4 + k
    BY <1>7, <1>13, <1>16, <1>19, Zenon DEF CutFive, k
  <1> HIDE DEF x
  <1>21. /\ Stands(b, 0, a) /\ Stands(b, 20, i) /\ Stands(b, 24, t) /\ Stands(b, 28, v)
         /\ Stands(b, 32, rec)
    <2>1. /\ Stands(b, o, a) /\ Stands(b, o + 20, i) /\ Stands(b, o + 20 + 4, t)
          /\ Stands(b, o + 20 + 4 + 4, v) /\ Stands(b, o + 20 + 4 + 4 + 4, rec)
      BY <1>7, <1>13, <1>16, <1>19, Zenon DEF CutFive
    <2>2. o + 20 + 4 = 24 /\ o + 20 + 4 + 4 = 28 /\ o + 20 + 4 + 4 + 4 = 32
      BY <1>0
    <2>3. QED
      BY <1>0, <2>1, <2>2, Zenon
  <1>22. /\ Stands(b, 20 + m, dbg) /\ Stands(b, 20 + m + d, lvar) /\ Stands(b, 20 + m + d + l, e)
         /\ Stands(b, (20 + m + d + l) + 4, u)
    <2> DEFINE h == Len(x)
    <2>1. /\ Stands(b, o + h, dbg) /\ Stands(b, o + h + d, lvar) /\ Stands(b, o + h + d + l, e)
          /\ Stands(b, o + h + d + l + 4, u)
      BY <1>6, <1>7, <1>18, Zenon DEF CutFive, d
    <2>2. h = 20 + 4 + 4 + 4 + k
      BY <1>20, Zenon
    <2> HIDE DEF h
    <2>3. /\ o + h = 20 + m /\ o + h + d = 20 + m + d /\ o + h + d + l = 20 + m + d + l
          /\ o + h + d + l + 4 = (20 + m + d + l) + 4
      BY <1>0, <1>8, <1>14, <2>2
    <2>4. QED
      BY <2>1, <2>3, Zenon
  <1>23. SectionStands(b, 20, i, body)
    <2>1. Stands(b, 28, v \o rec)
      <3> DEFINE p == 28
      <3>1. p \in Nat /\ p + 4 = 32
        OBVIOUS
      <3> HIDE DEF p
      <3>2. Stands(b, p, v) /\ Stands(b, p + Len(v), rec)
        BY <1>7, <1>21, <3>1, Zenon DEF p
      <3>3. Stands(b, p, v \o rec)
        BY <1>3, <1>4, <1>7, <3>1, <3>2, StandsTogether
      <3>4. QED
        BY <3>3, Zenon DEF p
    <2>2. Stands(b, 28, body)
      BY <1>11, <2>1, Zenon
    <2>3. m = 8 + Len(body) /\ m < Word
      <3>1. Word \in Nat
        BY Widths
      <3>2. QED
        BY <1>1, <1>3, <1>8, <1>9, <1>14, <1>15, <3>1
    <2>4. Stands(b, 24, U32(8 + Len(body))) /\ 8 + Len(body) < Word
      BY <1>21, <2>3, Zenon DEF t
    <2> DEFINE p == 20
    <2>5. p \in Nat /\ p + 4 = 24 /\ p + 8 = 28
      OBVIOUS
    <2> HIDE DEF p
    <2>6. Stands(b, p, i) /\ Stands(b, p + 4, U32(8 + Len(body))) /\ Stands(b, p + 8, body)
      BY <1>21, <2>2, <2>4, <2>5, Zenon DEF p
    <2>7. SectionStands(b, p, i, body)
      BY <1>3, <1>7, <1>9, <2>4, <2>5, <2>6, SectionMade
    <2>8. QED
      BY <2>7, Zenon DEF p
  <1>24. 20 + m \in Nat /\ 20 + m + d \in Nat /\ 20 + m + d + l \in Nat /\ 20 + m = 20 + (8 + (4 + k))
         /\ (20 + m + d + l) + 8 = n
    BY <1>8, <1>14, <1>15
  <1>25. SectionStands(b, 20 + m + d + l, e, <<>>)
    <2> DEFINE p == 20 + m + d + l
               z == <<>>
    <2>1. p \in Nat
      BY <1>24
    <2>2. Stands(b, p, e) /\ Stands(b, p + 4, u)
      BY <1>22
    <2>3. z \in Seq(Nat) /\ Len(z) = 0 /\ 8 + 0 = 8
      OBVIOUS
    <2>4. p + 8 = Len(b)
      BY <1>3, <1>24, Zenon
    <2>5. Stands(b, p + 8, z)
      <3> HIDE DEF p
      <3>1. \A j \in 1 .. Len(z) : b[(p + 8) + j] = z[j]
        BY <2>3
      <3>2. p + 8 + Len(z) <= Len(b)
        BY <2>1, <2>3, <2>4
      <3>3. QED
        BY <3>1, <3>2, Zenon DEF Stands
    <2>6. 8 + Len(z) = 8
      BY <2>3, Zenon
    <2> HIDE DEF p, z
    <2>7. Stands(b, p + 4, U32(8 + Len(z)))
      BY <2>2, <2>6, Zenon DEF u
    <2>8. 8 + Len(z) < Word
      <3>1. p + 8 < Word
        BY <1>1, <1>3, <2>4, Zenon
      <3>2. Word \in Nat
        BY Widths
      <3>3. QED
        BY <2>1, <2>6, <3>1, <3>2
    <2>9. SectionStands(b, p, e, z)
      BY <1>3, <1>7, <2>1, <2>2, <2>3, <2>5, <2>7, <2>8, SectionMade
    <2>10. QED
      BY <2>9, Zenon DEF p, z
  <1>26. QED
    BY <1>3, <1>9, <1>12, <1>21, <1>22, <1>23, <1>24, <1>25, Zenon
       DEF FileCut, n, a, i, body, dbg, lvar, e, d, l

LEMMA DebugStands ==
  ASSUME NEW model, Readable(model)
  PROVE  \/ DebugBytes(model) = <<>>
         \/ \E body \in Seq(Nat) : DebugBytes(model) = SectionOf(DBG, body)
  <1> DEFINE top  == model.root
             body == DebugBody(top, FileTable(Filenames[top]))
  <1>1. top \in Trees /\ model.debugRaw = <<>>
    BY Zenon DEF Readable, Writable
  <1>2. CASE ~DebugDefined[top]
    BY <1>1, <1>2, DebugBytesShape, Zenon
  <1>3. CASE DebugDefined[top]
    <2>1. DebugBytes(model) = DebugOf(body)
      BY <1>3, DebugBytesShape, Zenon
    <2>2. body \in Seq(Nat)
      <3> HIDE DEF top
      <3>1. QED
        BY <1>1, <1>3, DebugBodyBytes, Zenon
    <2> HIDE DEF body
    <2>3. QED
      BY <2>1, <2>2, Zenon DEF DebugOf, SectionOf
  <1>4. QED
    BY <1>2, <1>3, Zenon

LEMMA LvarStands ==
  ASSUME NEW model, Readable(model), model.lvarSyms # <<>>, NEW b \in Seq(Nat), Len(b) < Word,
         NEW p \in Nat, Stands(b, p, LvarSection(model))
  PROVE  /\ SectionStands(b, p, LVAR, LvarBody(model.lvarSyms[1], model.root))
         /\ LvarSize(model) = 8 + Len(LvarBody(model.lvarSyms[1], model.root))
  <1> DEFINE names == model.lvarSyms[1]
             recs  == LvRecords[model.root]
             list  == NamesOf(names)
             count == U32(Len(names))
             m     == LvarSize(model)
             size  == U32(m)
             id    == LVAR
             body  == LvarBody(names, model.root)
             whole == LvarSection(model)
             head  == count \o list
  <1>1. Writable(model) /\ ShortNames(names)
    BY Zenon DEF Readable
  <1>2. model.root \in Trees
    BY <1>1, Zenon DEF Writable
  <1>3. whole = id \o size \o count \o list \o recs
    BY Zenon DEF LvarSection, NamesOf
  <1>4. Len(whole) = m /\ m \in Int
    BY <1>1, LvarSectionFits, Zenon
  <1>5. id \in Seq(Nat) /\ Len(id) = 4
    BY IdentsDiffer, Zenon
  <1>6. names \in Seq(Seq(Nat)) /\ Len(names) \in Int
    BY <1>1, SMT DEF ShortNames
  <1>7. body = count \o list \o recs
    BY Zenon DEF LvarBody
  <1>8. recs \in Seq(Nat)
    BY <1>2, LvRecordsEquation
  <1> HIDE DEF recs, id, names, body, whole, m
  <1>9. list \in Seq(Nat)
    BY <1>6, NamesFit, Zenon
  <1>10. count \in Seq(Nat) /\ Len(count) = 4 /\ size \in Seq(Nat) /\ Len(size) = 4
    BY <1>4, <1>6, WidthOfNumbers
  <1> HIDE DEF list, count, size
  <1>11. CutFive(b, p, id, size, count, list, recs)
    <2>1. Stands(b, p, id \o size \o count \o list \o recs)
      BY <1>3, Zenon DEF whole
    <2>2. QED
      BY <1>5, <1>8, <1>9, <1>10, <2>1, FiveStand
  <1>12. /\ Stands(b, p, id) /\ Stands(b, p + 4, size) /\ Stands(b, p + 4 + 4, count)
         /\ Stands(b, p + 4 + 4 + 4, list) /\ Stands(b, p + 4 + 4 + 4 + Len(list), recs)
         /\ m = 4 + 4 + 4 + Len(list) + Len(recs)
    BY <1>3, <1>4, <1>5, <1>10, <1>11, Zenon DEF CutFive
  <1>13. head \in Seq(Nat) /\ Len(head) = 4 + Len(list)
    BY <1>9, <1>10, LengthOfTwo, Zenon
  <1> DEFINE q == p + 8
             j == Len(list)
             k == Len(recs)
  <1>14. j \in Nat /\ k \in Nat
    BY <1>8, <1>9, LengthType
  <1> HIDE DEF j, k
  <1>15. p + 4 + 4 = q /\ p + 4 + 4 + 4 = q + 4 /\ p + 4 + 4 + 4 + j = q + (4 + j) /\ q \in Nat
         /\ 4 + 4 + 4 + j + k = 8 + ((4 + j) + k)
    BY <1>14
  <1> HIDE DEF q
  <1>16. Stands(b, q, head)
    <2>1. Stands(b, q, count) /\ Stands(b, q + Len(count), list)
      BY <1>10, <1>12, <1>15, Zenon
    <2>2. QED
      BY <1>9, <1>10, <1>15, <2>1, StandsTogether
  <1> HIDE DEF head
  <1>17. Stands(b, q, head \o recs)
    <2>1. Stands(b, q + Len(head), recs)
      BY <1>12, <1>13, <1>15, Zenon DEF j
    <2>2. QED
      BY <1>8, <1>13, <1>15, <1>16, <2>1, StandsTogether
  <1>18. body = head \o recs
    BY <1>7, Zenon DEF head
  <1>19. body \in Seq(Nat) /\ Len(body) = (4 + j) + k
    BY <1>8, <1>13, <1>18, LengthOfTwo, Zenon DEF j, k
  <1>20. m = 8 + Len(body)
    BY <1>12, <1>15, <1>19, Zenon DEF j, k
  <1>21. m < Word
    <2>1. p + Len(whole) <= Len(b)
      BY Zenon DEF Stands, whole
    <2>2. p + m <= Len(b)
      BY <1>4, <2>1, Zenon
    <2>3. Word \in Nat /\ Len(b) \in Nat
      BY Widths, LengthType
    <2>4. QED
      BY <1>4, <2>2, <2>3
  <1>22. SectionStands(b, p, id, body)
    <2>1. Stands(b, p + 4, U32(8 + Len(body))) /\ 8 + Len(body) < Word
      BY <1>12, <1>20, <1>21, Zenon DEF size
    <2>2. Stands(b, p + 8, body)
      BY <1>17, <1>18, Zenon DEF q
    <2>3. QED
      BY <1>5, <1>12, <1>19, <2>1, <2>2, SectionMade
  <1>23. QED
    BY <1>20, <1>22, Zenon DEF id, body, names, m

--------------------------------------------------------------------------------
(* A file is read.                                                              *)

\* After so many sections, each of eight bytes at least.
Reached(after, n, c) == \E i \in 0 .. n : after[i] = c /\ 8 * i <= c.pos

LEMMA ReachedNext ==
  ASSUME NEW after, NEW c, NEW n \in Nat, Sections(after, c, n), NEW b, NEW p \in Nat, NEW v,
         NEW q \in Nat, NEW w, Reached(after, n, At(b, p, v)), NextSection(At(b, p, v)) = At(b, q, w),
         p + 8 <= q, q < 8 * (n + 1)
  PROVE  Reached(after, n, At(b, q, w))
  <1> DEFINE d == At(b, p, v)
             e == At(b, q, w)
  <1>1. d.pos = p /\ e.pos = q
    BY AtFields
  <1> HIDE DEF d, e
  <1>2. PICK i \in 0 .. n : after[i] = d /\ 8 * i <= d.pos
    BY Zenon DEF Reached, d
  <1>3. 8 * i <= p
    BY <1>1, <1>2, Zenon
  <1>4. i + 1 \in 1 .. n /\ i + 1 \in 0 .. n /\ 8 * (i + 1) <= q /\ (i + 1) - 1 = i
    BY <1>3
  <1>5. after[i + 1] = NextSection(after[(i + 1) - 1])
    BY <1>4, Zenon DEF Sections
  <1>6. after[i + 1] = e
    BY <1>2, <1>4, <1>5, Zenon DEF d, e
  <1>7. 8 * (i + 1) <= e.pos
    BY <1>1, <1>4, Zenon
  <1>8. QED
    BY <1>4, <1>6, <1>7, Zenon DEF Reached, e

LEMMA ReachedLast ==
  ASSUME NEW after, NEW c, NEW n \in Nat, Sections(after, c, n), NEW b \in Seq(Nat), NEW v,
         Reached(after, n, At(b, Len(b), v))
  PROVE  after[n] = At(b, Len(b), v)
  <1> DEFINE l == Len(b)
             d == At(b, l, v)
  <1>1. l \in Nat
    BY LengthType
  <1> HIDE DEF l
  <1>2. d.ok /\ Left(d) = 0
    <2>1. Left(d) = Len(b) - l /\ d.ok
      BY AtFields
    <2>2. QED
      BY <1>1, <2>1 DEF l
  <1> HIDE DEF d
  <1>3. NextSection(d) = d
    BY <1>2, Zenon DEF NextSection
  <1>4. PICK i \in 0 .. n : after[i] = d
    BY Zenon DEF Reached, d, l
  <1> DEFINE S == {k \in Nat : i + k <= n => after[i + k] = d}
  <1>5. 0 \in S
    <2>1. i + 0 = i
      OBVIOUS
    <2>2. QED
      BY <1>4, <2>1
  <1>6. ASSUME NEW k \in Nat, k \in S PROVE k + 1 \in S
    <2> SUFFICES ASSUME i + (k + 1) <= n PROVE after[i + (k + 1)] = d
      OBVIOUS
    <2>1. i + k <= n /\ i + (k + 1) \in 1 .. n /\ (i + (k + 1)) - 1 = i + k
      OBVIOUS
    <2>2. after[i + k] = d
      BY <1>6, <2>1
    <2>3. after[i + (k + 1)] = NextSection(after[(i + (k + 1)) - 1])
      BY <2>1, Zenon DEF Sections
    <2>4. QED
      BY <1>3, <2>1, <2>2, <2>3, Zenon
  <1>7. n - i \in S
    <2>1. n - i \in Nat
      OBVIOUS
    <2> HIDE DEF S
    <2>2. QED
      BY <1>5, <1>6, <2>1, SetInduction
  <1>8. i + (n - i) = n /\ n <= n
    OBVIOUS
  <1>9. after[n] = d
    BY <1>7, <1>8
  <1>10. QED
    BY <1>9, Zenon DEF d, l

HasNames(model) == model.lvarSyms # <<>>
DebugRead(model) == IF DebugBytes(model) = <<>> THEN <<>> ELSE <<DebugBytes(model)>>
FoundIn(model, x) ==
  FoundOf(<<x>>, model.lvarSyms, IF HasNames(model) THEN LvRecords[model.root] ELSE <<>>,
          DebugRead(model))

LEMMA Eighths ==
  ASSUME NEW l \in Nat
  PROVE  l \div 8 \in Nat /\ l < 8 * (l \div 8 + 1)
  OBVIOUS

\* What read_rite has found after the last section.
LEMMA SectionsAt ==
  ASSUME NEW model, Readable(model), NEW b, FileCut(b, model)
  PROVE  ReadSections(At(b, 20, Nothing)) = At(b, Len(b), FoundIn(model, Rebuilt(FALSE)[model.root]))
  <1> DEFINE r    == model.root
             x    == Rebuilt(FALSE)[r]
             names == model.lvarSyms[1]
             dbg  == DebugBytes(model)
             lvar == LvarSection(model)
             p2   == EndOfIrep(model)
             p3   == EndOfDebug(model)
             p4   == EndOfLvar(model)
             l    == Len(b)
             n    == l \div 8
             c    == At(b, 20, Nothing)
             none == <<>>
             f1   == FoundOf(<<x>>, none, none, none)
             f2   == FoundOf(<<x>>, none, none, DebugRead(model))
             f3   == FoundIn(model, x)
             e1   == At(b, p2, f1)
             e2   == At(b, p3, f2)
             e3   == At(b, p4, f3)
             e4   == At(b, l, f3)
  <1>1. /\ b \in Seq(Nat) /\ l = BinarySize(model)
        /\ SectionStands(b, 20, IREP, IrepBody(r)) /\ p2 = 20 + (8 + Len(IrepBody(r)))
        /\ Stands(b, p2, dbg) /\ Stands(b, p3, lvar)
        /\ SectionStands(b, p4, END, none) /\ p4 + 8 = l
        /\ p2 \in Nat /\ p3 \in Nat /\ p4 \in Nat
    BY Zenon DEF FileCut
  <1>2. /\ Writable(model) /\ AllShort(r) /\ BinarySize(model) < Word
        /\ HasNames(model) => ShortNames(names)
    BY Zenon DEF Readable, HasNames
  <1>3. r \in Trees /\ model.lvarSyms \in Optional(Seq(Seq(Nat)))
    BY <1>2, Zenon DEF Writable
  <1>4. l \in Nat /\ l < Word
    <2>1. Len(b) \in Nat
      BY <1>1, LengthType
    <2>2. QED
      BY <1>1, <1>2, <2>1, Zenon
  <1>5. n \in Nat /\ l < 8 * (n + 1)
    BY <1>4, Eighths, Zenon
  <1>6. dbg \in Seq(Nat) /\ p3 = p2 + Len(dbg) /\ p4 = p3 + LvarSize(model)
    BY <1>2, DebugBytesType, Zenon DEF Writable, EndOfDebug, EndOfLvar
  <1>7. lvar \in Seq(Nat) /\ Len(lvar) = LvarSize(model)
    BY <1>2, LvarSectionFits, Zenon
  <1>8. Len(dbg) \in Nat /\ LvarSize(model) \in Nat
    BY <1>6, <1>7, LengthType
  <1>9. Nothing = FoundOf(none, none, none, none)
    BY Zenon DEF Nothing, FoundOf
  <1>10. PICK after : Sections(after, c, n) /\ ReadSections(c) = after[n]
    <2>1. c.in = b
      BY AtFields
    <2>2. n = Len(c.in) \div 8
      BY <2>1, Zenon
    <2> HIDE DEF c, n
    <2>3. QED
      BY <1>5, <2>2, ReadSectionsEquation, Zenon
  <1> DEFINE y == Len(dbg)
             z == LvarSize(model)
  <1>a. /\ y \in Nat /\ z \in Nat /\ p2 \in Nat /\ p3 = p2 + y /\ p4 = p3 + z /\ p4 + 8 = l
    BY <1>1, <1>6, <1>8, Zenon
  <1> HIDE DEF n, l, p2, p3, p4, dbg, lvar, x, r, names, y, z
  <1>11. Reached(after, n, c)
    <2>1. c.pos = 20
      BY AtFields
    <2> HIDE DEF c
    <2>2. 0 \in 0 .. n /\ 8 * 0 <= c.pos
      BY <1>5, <2>1
    <2>3. after[0] = c
      BY <1>10, Zenon DEF Sections
    <2>4. QED
      BY <2>2, <2>3, Zenon DEF Reached
  <1>12. Reached(after, n, e1)
    <2> DEFINE f0 == Nothing
               p1 == 20
    <2>1. NextSection(At(b, 20, FoundOf(none, none, none, none))) = At(b, p2, f1)
      <3>1. IrepIsNext(b, 20, r)
        BY <1>1, <1>2, <1>3, ReadsIrepSection, Zenon
      <3>a. p2 = 20 + (8 + Len(IrepBody(r)))
        BY <1>1, Zenon
      <3>b. f1 = FoundOf(<<Rebuilt(FALSE)[r]>>, <<>>, <<>>, <<>>)
        BY Zenon DEF x
      <3> HIDE DEF f1
      <3>c. NextSection(At(b, 20, FoundOf(<<>>, <<>>, <<>>, <<>>)))
              = At(b, 20 + (8 + Len(IrepBody(r))), FoundOf(<<Rebuilt(FALSE)[r]>>, <<>>, <<>>, <<>>))
        <4> DEFINE s == <<>>
                   p == 20
                   e == 8 + Len(IrepBody(r))
                   g == <<Rebuilt(FALSE)[r]>>
        <4>a. IrepIsNext(b, p, r)
          BY <3>1, Zenon DEF p
        <4> HIDE DEF s, p
        <4>b. \A v0, v1, v2, v3 :
                NextSection(At(b, p, FoundOf(v0, v1, v2, v3))) = At(b, p + e, FoundOf(g, v1, v2, v3))
          BY <4>a, Zenon DEF IrepIsNext, e, g
        <4> HIDE DEF e, g
        <4>1. NextSection(At(b, p, FoundOf(s, s, s, s))) = At(b, p + e, FoundOf(g, s, s, s))
          BY <4>b
        <4>2. QED
          BY <4>1, Zenon DEF s, p, e, g
      <3>2. QED
        BY <3>a, <3>b, <3>c, Zenon
    <2>2. NextSection(At(b, p1, f0)) = At(b, p2, f1)
      BY <1>9, <2>1, Zenon
    <2>3. p1 \in Nat
      OBVIOUS
    <2>4. p2 <= l
      BY <1>a
    <2>5. p1 + 8 <= p2
      <3>1. Len(IrepBody(r)) \in Nat
        BY <1>2, <1>3, IrepSectionAt, LengthType DEF r
      <3>2. QED
        BY <1>1, <3>1
    <2> HIDE DEF c, f0, f1, p1
    <2>6. p2 < 8 * (n + 1)
      BY <1>1, <1>4, <1>5, <2>4
    <2>7. Reached(after, n, At(b, p1, f0))
      BY <1>11, Zenon DEF c, f0, p1
    <2>8. QED
      BY <1>1, <1>5, <1>10, <2>2, <2>3, <2>5, <2>6, <2>7, ReachedNext
  <1>13. Reached(after, n, e2)
    <2>1. CASE dbg = <<>>
      <3>1. Len(dbg) = 0
        BY <2>1
      <3>2. p3 = p2
        BY <1>1, <1>6, <3>1
      <3>3. DebugRead(model) = none
        BY <2>1, Zenon DEF DebugRead, dbg
      <3>4. QED
        BY <1>12, <3>2, <3>3, Zenon
    <2>2. CASE dbg # <<>>
      <3>1. PICK body \in Seq(Nat) : dbg = SectionOf(DBG, body)
        BY <2>2, DebugStands, Zenon DEF dbg
      <3>2. DBG \in Seq(Nat) /\ Len(DBG) = 4
        BY IdentsDiffer, Zenon
      <3>3. Len(dbg) = 8 + Len(body)
        BY <3>1, <3>2, SectionBytes
      <3>4. Len(body) \in Nat
        BY LengthType
      <3> DEFINE k == Len(body)
      <3> HIDE DEF k
      <3>5. p3 = p2 + (8 + k) /\ p2 + 8 <= p3 /\ p3 <= l /\ 8 + k < Word
        <4>1. Word \in Nat /\ k \in Nat /\ y = 8 + k
          BY Widths, <3>3, <3>4 DEF k, y
        <4>2. QED
          BY <1>4, <1>a, <4>1
      <3>6. p3 < 8 * (n + 1)
        BY <1>1, <1>4, <1>5, <3>5
      <3>7. SectionStands(b, p2, DBG, body)
        BY <1>1, <3>1, <3>2, <3>5, Zenon DEF SectionStands, k
      <3>8. DebugRead(model) = <<SectionOf(DBG, body)>>
        BY <2>2, <3>1, Zenon DEF DebugRead, dbg
      <3> DEFINE roots == <<x>>
      <3>9. NextSection(e1) = At(b, p2 + (8 + Len(body)), FoundOf(roots, none, none, <<SectionOf(DBG, body)>>))
        <4>1. DebugIsNext(b, p2, body)
          BY <3>7, ReadsOtherSection, Zenon
        <4> HIDE DEF none, roots
        <4>2. QED
          BY <4>1, Zenon DEF DebugIsNext, roots
      <3>10. NextSection(e1) = At(b, p3, f2)
        BY <3>5, <3>8, <3>9, Zenon DEF k
      <3> HIDE DEF f1, f2, c
      <3>11. QED
        BY <1>1, <1>5, <1>10, <1>12, <3>5, <3>6, <3>10, ReachedNext
    <2>3. QED
      BY <2>1, <2>2, Zenon
  <1>14. Reached(after, n, e3)
    <2>1. CASE ~HasNames(model)
      <3>1. lvar = <<>> /\ model.lvarSyms = none
        BY <2>1, Zenon DEF LvarSection, HasNames, lvar
      <3>2. Len(lvar) = 0
        BY <3>1
      <3>3. p4 = p3
        BY <1>1, <1>6, <1>7, <3>2
      <3>4. f3 = f2
        BY <2>1, <3>1, Zenon DEF FoundIn
      <3>5. QED
        BY <1>13, <3>3, <3>4, Zenon
    <2>2. CASE HasNames(model)
      <3> DEFINE body == LvarBody(names, r)
      <3>1. SectionStands(b, p3, LVAR, body) /\ LvarSize(model) = 8 + Len(body)
        <4>1. Len(b) < Word /\ p3 \in Nat /\ b \in Seq(Nat)
          BY <1>1, <1>4, Zenon DEF l
        <4>2. Stands(b, p3, LvarSection(model)) /\ model.lvarSyms # <<>>
          BY <1>1, <2>2, Zenon DEF lvar, HasNames
        <4>3. QED
          BY <4>1, <4>2, LvarStands, Zenon DEF names, r
      <3>2. body \in Seq(Nat)
        BY <3>1, Zenon DEF SectionStands
      <3> DEFINE k == Len(body)
      <3>3. k \in Nat
        BY <3>2, LengthType
      <3>4. LvarSize(model) = 8 + k
        BY <3>1, Zenon
      <3> HIDE DEF body, k
      <3>5. p4 = p3 + (8 + k) /\ p3 + 8 <= p4 /\ p4 <= l
        <4>1. z = 8 + k
          BY <3>4, Zenon DEF z
        <4>2. QED
          BY <1>a, <3>3, <4>1
      <3>6. p4 < 8 * (n + 1)
        BY <1>1, <1>4, <1>5, <3>5
      <3>7. model.lvarSyms = <<names>>
        BY <1>3, <2>2, SingleItem DEF Optional, HasNames, names
      <3> DEFINE roots == <<x>>
                 d    == DebugRead(model)
      <3>8. NextSection(e2) = At(b, p3 + (8 + Len(body)), FoundOf(roots, <<names>>, LvRecords[r], d))
        <4> HIDE DEF none, roots, d
        <4>1. SectionStands(b, p3, LVAR, LvarBody(names, r))
          BY <3>1, Zenon DEF body
        <4>2. LvarIsNext(b, p3, names, r)
          BY <1>2, <1>3, <2>2, <4>1, ReadsLvarSection, Zenon
        <4>3. QED
          BY <4>2, Zenon DEF LvarIsNext, roots, d, body
      <3>9. f3 = FoundOf(roots, <<names>>, LvRecords[r], d)
        BY <2>2, <3>7, Zenon DEF FoundIn, r
      <3>10. NextSection(e2) = At(b, p4, f3)
        BY <3>5, <3>8, <3>9, Zenon DEF k
      <3> HIDE DEF f2, f3, c
      <3>11. QED
        BY <1>1, <1>5, <1>10, <1>13, <3>5, <3>6, <3>10, ReachedNext
    <2>3. QED
      BY <2>1, <2>2, Zenon
  <1>15. Reached(after, n, e4)
    <2>1. p4 + (8 + Len(none)) = l /\ p4 + 8 <= l
      <3>1. Len(none) = 0
        OBVIOUS
      <3> HIDE DEF none
      <3>2. QED
        BY <1>1, <1>4, <3>1
    <2> DEFINE body == <<>>
               roots == <<x>>
               s    == model.lvarSyms
               t    == IF HasNames(model) THEN LvRecords[r] ELSE <<>>
               d    == DebugRead(model)
    <2>2. f3 = FoundOf(roots, s, t, d)
      BY Zenon DEF FoundIn, r
    <2>3. body = <<>> /\ SectionStands(b, p4, END, body) /\ p4 + (8 + Len(body)) = l
      BY <1>1, <2>1, Zenon
    <2> HIDE DEF body, roots, s, t, d, f3
    <2>a. EndIsNext(b, p4, body)
      BY <2>3, ReadsOtherSection, Zenon DEF body
    <2>4. NextSection(At(b, p4, FoundOf(roots, s, t, d))) = At(b, p4 + (8 + Len(body)), FoundOf(roots, s, t, d))
      BY <2>a, Zenon DEF EndIsNext
    <2>5. NextSection(e3) = At(b, l, f3)
      BY <2>2, <2>3, <2>4, Zenon
    <2> HIDE DEF c
    <2>6. QED
      BY <1>1, <1>4, <1>5, <1>10, <1>14, <2>1, <2>5, ReachedNext
  <1>16. after[n] = At(b, Len(b), f3)
    <2>1. Reached(after, n, At(b, Len(b), f3))
      BY <1>15, Zenon DEF l
    <2> HIDE DEF f3, c
    <2>2. QED
      BY <1>1, <1>5, <1>10, <2>1, ReachedLast
  <1>17. QED
    BY <1>10, <1>16, Zenon DEF x, r

\* The head of a file.
HeadFields(model) == <<RITE, VERSION, U32(BinarySize(model)), COMPILER \o COMPILER_VERSION>>

LEMMA FileHeadAt ==
  ASSUME NEW model, Readable(model), NEW b, FileCut(b, model)
  PROVE  /\ Fields(Cursor(b), <<4, 4, 4, 8>>) = At(b, 20, HeadFields(model))
         /\ Number(U32(BinarySize(model))) = BinarySize(model) /\ Len(b) = BinarySize(model)
  <1> DEFINE n     == BinarySize(model)
             x     == RITE
             y     == VERSION
             z     == U32(n)
             p     == COMPILER
             q     == COMPILER_VERSION
             t     == p \o q
             head  == FileHead(model)
             parts == <<x, y, z, t>>
             w     == <<4, 4, 4, 8>>
  <1>0. b \in Seq(Nat) /\ Len(b) = n /\ Stands(b, 0, head)
    BY Zenon DEF FileCut
  <1>1. n \in Nat /\ n < Word
    <2>1. Len(b) \in Nat
      BY <1>0, LengthType
    <2>2. QED
      BY <1>0, <2>1, Zenon DEF Readable
  <1>2. Number(z) = n /\ z \in Seq(Nat) /\ Len(z) = 4
    BY <1>1, NumberFits, WidthOfNumbers
  <1>3. /\ x \in Seq(Nat) /\ y \in Seq(Nat) /\ p \in Seq(Nat) /\ q \in Seq(Nat)
        /\ Len(x) = 4 /\ Len(y) = 4 /\ Len(p) = 4 /\ Len(q) = 4
    BY IdentsDiffer, Zenon
  <1>4. head = x \o y \o z \o p \o q
    BY Zenon DEF FileHead
  <1>5. head \in Seq(Nat) /\ Len(head) = 20
    BY <1>1, FileHeadBytes
  <1> HIDE DEF x, y, z, p, q, n, head
  <1>6. t \in Seq(Nat) /\ Len(t) = 8
    <2>1. t \in Seq(Nat) /\ Len(t) = 4 + 4
      BY <1>3, LengthOfTwo, ZenonT(60)
    <2>2. QED
      BY <2>1
  <1>7. head = x \o y \o z \o t
    <2> DEFINE a == x \o y \o z
    <2>1. a \in Seq(Nat)
      BY <1>2, <1>3
    <2> HIDE DEF a
    <2>2. (a \o p) \o q = a \o (p \o q)
      BY <1>3, <2>1, JoinsThree, Zenon
    <2>3. QED
      BY <1>4, <2>2, Zenon DEF a
  <1> HIDE DEF t
  <1>8. FlattenSeq(parts) = head
    <2>1. JoinsFour(x, y, z, t)
      BY <1>2, <1>3, <1>6, FlattenFour, Zenon
    <2>2. QED
      BY <1>7, <2>1, Zenon DEF JoinsFour
  <1>9. /\ parts \in Seq(Seq(Nat)) /\ Len(parts) = 4
        /\ parts[1] = x /\ parts[2] = y /\ parts[3] = z /\ parts[4] = t
    BY <1>2, <1>3, <1>6
  <1> HIDE DEF parts
  <1>10. w = [i \in 1 .. Len(parts) |-> Len(parts[i])]
    <2>1. Len(parts[1]) = 4 /\ Len(parts[2]) = 4 /\ Len(parts[3]) = 4 /\ Len(parts[4]) = 8
      BY <1>2, <1>3, <1>6, <1>9, Zenon
    <2>2. w = [i \in 1 .. 4 |-> w[i]] /\ w[1] = 4 /\ w[2] = 4 /\ w[3] = 4 /\ w[4] = 8
      OBVIOUS
    <2> HIDE DEF w
    <2>3. \A i \in 1 .. 4 : w[i] = Len(parts[i])
      <3>1. \A i \in 1 .. 4 : i = 1 \/ i = 2 \/ i = 3 \/ i = 4
        OBVIOUS
      <3>2. QED
        BY <2>1, <2>2, <3>1, Zenon
    <2>4. QED
      BY <1>9, <2>2, <2>3, Zenon
  <1> HIDE DEF w
  <1>11. Fields(Cursor(b), w) = At(b, 20, parts)
    <2> DEFINE e == <<>>
               o == 0
    <2>1. o \in Nat /\ o + 20 = 20 /\ o = 0
      OBVIOUS
    <2>2. Cursor(b) = At(b, o, e)
      BY CursorAt, Zenon DEF o, e
    <2> HIDE DEF o, e
    <2>3. Divided(b, o, parts, w)
      BY <1>0, <1>8, <1>9, <1>10, <2>1, Zenon DEF Divided
    <2>4. FieldsRead(b, o, e, parts, w)
      BY <2>3, FieldsAt, Zenon
    <2>5. Fields(At(b, o, e), w) = At(b, o + Len(FlattenSeq(parts)), parts)
      BY <2>4, Zenon DEF FieldsRead
    <2>6. QED
      BY <1>5, <1>8, <2>1, <2>2, <2>5, Zenon
  <1>12. parts = HeadFields(model)
    BY Zenon DEF HeadFields, parts, x, y, z, t, p, q, n
  <1>13. QED
    BY <1>0, <1>2, <1>11, <1>12, Zenon DEF w, n, z

\* The model that comes back.
ReadOf(model) == Model(Rebuilt(HasNames(model))[model.root], model.lvarSyms, DebugRead(model))

LEMMA FoundModel ==
  ASSUME NEW model, Readable(model)
  PROVE  ModelOf(FoundIn(model, Rebuilt(FALSE)[model.root])) = <<ReadOf(model)>>
  <1> DEFINE r     == model.root
             x     == Rebuilt(FALSE)[r]
             syms  == model.lvarSyms
             lvs   == LvRecords[r]
             recs  == IF HasNames(model) THEN lvs ELSE <<>>
             d     == DebugRead(model)
             roots  == <<x>>
             found == FoundOf(roots, syms, recs, d)
  <1>1. r \in Trees /\ syms \in Optional(Seq(Seq(Nat)))
    BY Zenon DEF Readable, Writable
  <1>2. HasNames(model) <=> syms # <<>>
    BY Zenon DEF HasNames
  <1>3. HasNames(model) => ShortNames(syms[1]) /\ AllNamed(r, Len(syms[1]))
    BY <1>2, Zenon DEF Readable
  <1>4. roots # <<>> /\ roots[1] = x
    <2> HIDE DEF x
    <2>1. QED
      OBVIOUS
  <1> HIDE DEF roots, syms, recs, d
  <1>5. found.root = roots /\ found.syms = syms /\ found.records = recs /\ found.debug = d
    <2>1. IsFound(found, roots, syms, recs, d)
      BY FoundIs, Zenon
    <2>2. QED
      BY <2>1, Zenon DEF IsFound
  <1>6. FoundIn(model, x) = found
    BY Zenon DEF FoundIn, roots, syms, recs, d
  <1> HIDE DEF found
  <1>7. CASE ~HasNames(model)
    <2>1. syms = <<>>
      BY <1>2, <1>7, Zenon
    <2>2. ModelOf(found) = <<Model(x, syms, d)>>
      <3> HIDE DEF x
      <3>1. QED
        BY <1>4, <1>5, <2>1 DEF ModelOf
    <2>3. Rebuilt(HasNames(model)) = Rebuilt(FALSE)
      <3>1. HasNames(model) = FALSE
        BY <1>7, Zenon DEF HasNames
      <3>2. QED
        BY <3>1, Zenon
    <2>4. QED
      BY <1>6, <2>2, <2>3, Zenon DEF ReadOf, syms, d
  <1>8. CASE HasNames(model)
    <2> DEFINE n     == Len(syms[1])
               named == At(lvs, Len(lvs), Rebuilt(TRUE)[r])
    <2>1. lvs \in Seq(Nat) /\ recs = lvs
      BY <1>1, <1>8, LvRecordsEquation, Zenon DEF recs
    <2>2. n \in 0 .. NullMark
      BY <1>3, <1>8, Zenon DEF ShortNames
    <2>3. AssignLv(x, n, Cursor(lvs)) = named
      <3> DEFINE l == LvRecords[r]
      <3>1. l \in Seq(Nat) /\ l = LvRecords[r] /\ AllNamed(r, n)
        BY <1>3, <1>8, <2>1, Zenon
      <3> HIDE DEF l, n
      <3>2. AssignLv(Rebuilt(FALSE)[r], n, Cursor(l)) = At(l, Len(l), Rebuilt(TRUE)[r])
        BY <1>1, <2>2, <3>1, AssignedAt
      <3>3. QED
        BY <3>2, Zenon DEF l
    <2>4. named.ok /\ Left(named) = 0 /\ named.val = Rebuilt(TRUE)[r]
      <3> DEFINE k == Len(lvs)
      <3>1. k \in Nat
        BY <2>1, LengthType
      <3>2. named.ok /\ Left(named) = Len(lvs) - k /\ named.val = Rebuilt(TRUE)[r]
        <4> DEFINE l == lvs
                   v == Rebuilt(TRUE)[r]
        <4> HIDE DEF l, v, k
        <4>1. At(l, k, v).ok /\ Left(At(l, k, v)) = Len(l) - k /\ At(l, k, v).val = v
          BY AtFields
        <4>2. QED
          BY <4>1, Zenon DEF l, v, k
      <3> HIDE DEF named
      <3>3. Len(lvs) - k = 0
        BY <3>1
      <3>4. QED
        BY <3>2, <3>3, Zenon
    <2> HIDE DEF named, x, lvs
    <2>5. ModelOf(found) = NamedModel(AssignLv(x, n, Cursor(lvs)), found)
      <3>1. ModelOf(found) = NamedModel(AssignLv(found.root[1], Len(found.syms[1]), Cursor(found.records)), found)
        BY <1>2, <1>4, <1>5, <1>8 DEF ModelOf
      <3>2. QED
        BY <1>4, <1>5, <2>1, <3>1, Zenon
    <2>6. ModelOf(found) = NamedModel(named, found)
      BY <2>3, <2>5, Zenon
    <2>7. NamedModel(named, found) = <<Model(Rebuilt(TRUE)[r], syms, d)>>
      BY <1>5, <2>4, Zenon DEF NamedModel
    <2>8. HasNames(model) = TRUE
      BY <1>8, Zenon DEF HasNames
    <2>9. QED
      BY <1>6, <2>6, <2>7, <2>8, Zenon DEF ReadOf, syms, d, x
  <1>9. QED
    BY <1>7, <1>8, Zenon

\* The reader accepts the file the writer makes of a model, and holds the model again but
\* for what is not written (writer.rs write_rite, reader.rs read_rite).
THEOREM FileReads ==
  ASSUME NEW model, Readable(model)
  PROVE  ReadRite(WriteRite(model)) = <<ReadOf(model)>>
  <1> DEFINE b    == WriteRite(model)
             head == At(b, 20, HeadFields(model))
             n    == BinarySize(model)
             f    == FoundIn(model, Rebuilt(FALSE)[model.root])
             sections == At(b, Len(b), f)
  <1>1. FileCut(b, model)
    BY FileStands
  <1> HIDE DEF b
  <1>2. Fields(Cursor(b), <<4, 4, 4, 8>>) = head /\ Number(U32(n)) = n /\ Len(b) = n
    BY <1>1, FileHeadAt, Zenon
  <1>3. ReadSections(At(b, 20, Nothing)) = sections
    BY <1>1, SectionsAt, Zenon
  <1>4. ModelOf(f) = <<ReadOf(model)>>
    BY FoundModel
  <1>5. head.ok /\ head.val = HeadFields(model) /\ With(head, Nothing) = At(b, 20, Nothing)
    <2> DEFINE h == HeadFields(model)
               k == 20
               e == Nothing
    <2> HIDE DEF h, k, e
    <2>1. At(b, k, h).ok /\ At(b, k, h).val = h /\ With(At(b, k, h), e) = At(b, k, e)
      BY AtFields, AtHolds
    <2>2. QED
      BY <2>1, Zenon DEF h, k, e
  <1>6. sections.ok /\ sections.val = f
    <2> DEFINE l == Len(b)
    <2> HIDE DEF f, l
    <2>1. At(b, l, f).ok /\ At(b, l, f).val = f
      BY AtFields
    <2>2. QED
      BY <2>1, Zenon DEF l
  <1> HIDE DEF head, f, sections, n
  <1>7. head.val[1] = RITE /\ head.val[2] = VERSION /\ head.val[3] = U32(n)
    <2> DEFINE u == U32(n)
               c == COMPILER \o COMPILER_VERSION
               r == RITE
               v == VERSION
    <2>1. head.val = <<r, v, u, c>>
      BY <1>5, Zenon DEF HeadFields, n
    <2> HIDE DEF u, c, r, v
    <2>2. head.val[1] = r /\ head.val[2] = v /\ head.val[3] = u
      BY <2>1
    <2>3. QED
      BY <2>2, Zenon DEF u, r, v
  <1>8. Number(head.val[3]) = Len(b)
    BY <1>2, <1>7, Zenon
  <1>9. ReadFile(head, Len(b)) = ModelOf(f)
    <2>1. ReadSections(With(head, Nothing)) = sections
      BY <1>3, <1>5, Zenon
    <2>2. QED
      BY <1>5, <1>6, <1>7, <1>8, <2>1, Zenon DEF ReadFile
  <1>10. ReadRite(b) = ReadFile(head, Len(b))
    BY <1>2, Zenon DEF ReadRite
  <1>11. QED
    BY <1>4, <1>9, <1>10, Zenon DEF b

--------------------------------------------------------------------------------
(* Files of trees that differ only in what the writer does not write.           *)

\* An integer that fits is written like one that was meant to be short.
LEMMA NormalSame ==
  ASSUME NEW entry \in PoolValues
  PROVE  PoolEntry(Normal(entry)) = PoolEntry(entry) /\ PoolEntrySize(Normal(entry)) = PoolEntrySize(entry)
  <1> DEFINE x == Normal(entry)
             short == entry.type = "Int64" /\ FitsInt32(entry.data[1])
  <1>1. x.type = (IF short THEN "Int32" ELSE entry.type) /\ x.data = entry.data
    BY DEF Normal, PoolValue
  <1> HIDE DEF x
  <1>2. CASE short
    <2>1. x.type = "Int32" /\ x.data = entry.data
      BY <1>1, <1>2
    <2>2. PoolEntry(x) = U8(1) \o U32(entry.data[1]) /\ PoolEntrySize(x) = 5
      BY <2>1 DEF PoolEntry, PoolEntrySize
    <2>3. PoolEntry(entry) = U8(1) \o U32(entry.data[1]) /\ PoolEntrySize(entry) = 5
      BY <1>2 DEF PoolEntry, PoolEntrySize
    <2>4. QED
      BY <2>2, <2>3, Zenon DEF x
  <1>3. CASE ~short
    <2>1. x.type = entry.type /\ x.data = entry.data
      BY <1>1, <1>3
    <2>2. PoolEntry(x) = PoolEntry(entry) /\ PoolEntrySize(x) = PoolEntrySize(entry)
      BY <2>1 DEF PoolEntry, PoolEntrySize
    <2>3. QED
      BY <2>2, Zenon DEF x
  <1>4. QED
    BY <1>2, <1>3, Zenon

LEMMA PoolSame ==
  ASSUME NEW pool \in Seq(PoolValues)
  PROVE  /\ Len(Each(Normal, pool)) = Len(pool)
         /\ Each(PoolEntry, Each(Normal, pool)) = Each(PoolEntry, pool)
         /\ Each(PoolEntrySize, Each(Normal, pool)) = Each(PoolEntrySize, pool)
  <1> DEFINE q == Each(Normal, pool)
  <1>1. /\ Len(q) = Len(pool) /\ DOMAIN q = DOMAIN pool
        /\ \A i \in DOMAIN pool : q[i] = Normal(pool[i]) /\ pool[i] \in PoolValues
    <2>1. DOMAIN pool = 1 .. Len(pool) /\ \A i \in 1 .. Len(pool) : pool[i] \in PoolValues
      BY Zenon, LenProperties, ElementOfSeq
    <2>2. QED
      BY <2>1, EachNormal, Zenon
  <1> HIDE DEF q
  <1>2. \A i \in DOMAIN pool : PoolEntry(q[i]) = PoolEntry(pool[i]) /\ PoolEntrySize(q[i]) = PoolEntrySize(pool[i])
    BY <1>1, NormalSame, Zenon
  <1>3. Each(PoolEntry, q) = Each(PoolEntry, pool) /\ Each(PoolEntrySize, q) = Each(PoolEntrySize, pool)
    BY <1>1, <1>2, Zenon DEF Each
  <1>4. QED
    BY <1>1, <1>3, Zenon DEF q

\* What the record of an irep is made of, without those nested in it.
WrittenAlike(x, irep) ==
  /\ x.nlocals = irep.nlocals /\ x.nregs = irep.nregs /\ x.iseq = irep.iseq
  /\ x.handlers = irep.handlers /\ x.syms = irep.syms /\ Len(x.reps) = Len(irep.reps)
  /\ Len(x.pool) = Len(irep.pool) /\ Each(PoolEntry, x.pool) = Each(PoolEntry, irep.pool)
  /\ Each(PoolEntrySize, x.pool) = Each(PoolEntrySize, irep.pool)

LEMMA OwnSame ==
  ASSUME NEW x, NEW irep, WrittenAlike(x, irep)
  PROVE  Own(x) = Own(irep) /\ OwnSize(x) = OwnSize(irep) /\ LvOwnSize(x) = LvOwnSize(irep)
  <1>1. /\ x.nlocals = irep.nlocals /\ x.nregs = irep.nregs /\ x.iseq = irep.iseq
        /\ x.handlers = irep.handlers /\ x.syms = irep.syms /\ Len(x.reps) = Len(irep.reps)
        /\ Len(x.pool) = Len(irep.pool) /\ Each(PoolEntry, x.pool) = Each(PoolEntry, irep.pool)
        /\ Each(PoolEntrySize, x.pool) = Each(PoolEntrySize, irep.pool)
    BY Zenon DEF WrittenAlike
  <1>2. Joined(PoolEntry, x.pool) = Joined(PoolEntry, irep.pool)
    BY <1>1, Zenon DEF Joined
  <1>3. OwnSize(x) = OwnSize(irep)
    BY <1>1, Zenon DEF OwnSize
  <1>4. Own(x) = Own(irep)
    BY <1>1, <1>2, <1>3, Zenon DEF Own
  <1>5. LvOwnSize(x) = LvOwnSize(irep)
    BY <1>1, Zenon DEF LvOwnSize
  <1>6. QED
    BY <1>3, <1>4, <1>5, Zenon

\* Functions that change trees but not their records.
Copies(g) ==
  \A irep \in Trees :
    /\ g[irep] \in Trees /\ g[irep].reps = Of(g, irep.reps) /\ WrittenAlike(g[irep], irep)
    /\ g[irep].debug = <<>>
LvKept(g) == \A irep \in Trees : g[irep].lv = irep.lv

\* A function of trees that asks only for what is kept has the value it had.
Stepwise(f, step)  == \A irep \in Trees : f[irep] = step[irep][Of(f, irep.reps)]
SameStep(step, g)  == \A irep \in Trees : step[g[irep]] = step[irep]
SameValue(f, g)    == \A irep \in Trees : f[g[irep]] = f[irep]
LEMMA ChainSame ==
  ASSUME NEW g, Copies(g), NEW step, NEW f, Stepwise(f, step), SameStep(step, g)
  PROVE  SameValue(f, g)
  <1>0. /\ \A irep \in Trees : f[irep] = step[irep][Of(f, irep.reps)]
        /\ \A irep \in Trees : step[g[irep]] = step[irep]
    BY Zenon DEF Stepwise, SameStep
  <1> DEFINE S == {irep \in Trees : f[g[irep]] = f[irep]}
  <1>1. ASSUME NEW irep \in Trees, \A i \in DOMAIN irep.reps : irep.reps[i] \in Trees /\ irep.reps[i] \in S
        PROVE  irep \in S
    <2>1. g[irep] \in Trees /\ g[irep].reps = Of(g, irep.reps)
      BY Zenon DEF Copies
    <2>2. f[g[irep]] = step[irep][Of(f, Of(g, irep.reps))]
      BY <1>0, <2>1, Zenon
    <2>3. \A i \in DOMAIN irep.reps : f[g[irep.reps[i]]] = f[irep.reps[i]]
      BY <1>1
    <2>4. Of(f, Of(g, irep.reps)) = Of(f, irep.reps)
      BY <2>3, Zenon DEF Of
    <2>5. f[g[irep]] = f[irep]
      BY <1>0, <2>2, <2>4, Zenon
    <2>6. QED
      BY <2>5
  <1>2. Trees \subseteq S
    <2> HIDE DEF S
    <2>1. QED
      BY <1>1, TreeInduction, Zenon
  <1>3. \A irep \in Trees : f[g[irep]] = f[irep]
    BY <1>2
  <1>4. QED
    BY <1>3, Zenon DEF SameValue

LEMMA RecordsSame ==
  ASSUME NEW g, Copies(g)
  PROVE  \A irep \in Trees :
           /\ Record[g[irep]] = Record[irep] /\ RecordSize[g[irep]] = RecordSize[irep]
           /\ LvSize[g[irep]] = LvSize[irep] /\ ~DebugDefined[g[irep]]
  <1>1. \A irep \in Trees : /\ g[irep] \in Trees /\ Own(g[irep]) = Own(irep) /\ g[irep].debug = <<>>
                            /\ OwnSize(g[irep]) = OwnSize(irep) /\ LvOwnSize(g[irep]) = LvOwnSize(irep)
    BY OwnSame, Zenon DEF Copies
  <1>2. \A irep \in Trees : Record[g[irep]] = Record[irep]
    <2> DEFINE step == [irep \in Trees |-> [vs \in Seq(Seq(Nat)) |-> Own(irep) \o FlattenSeq(vs)]]
    <2>1. Stepwise(Record, step)
      BY RecordEquation, Zenon DEF Stepwise
    <2>2. SameStep(step, g)
      BY <1>1, Zenon DEF SameStep
    <2> HIDE DEF step
    <2>3. SameValue(Record, g)
      BY <2>1, <2>2, ChainSame, Zenon
    <2>4. QED
      BY <2>3, Zenon DEF SameValue
  <1>3. \A irep \in Trees : RecordSize[g[irep]] = RecordSize[irep]
    <2> DEFINE step == [irep \in Trees |-> [vs \in Seq(Nat) |-> OwnSize(irep) + Total(vs)]]
    <2>1. Stepwise(RecordSize, step)
      BY RecordSizeEquation, Zenon DEF Stepwise
    <2>2. SameStep(step, g)
      BY <1>1, Zenon DEF SameStep
    <2> HIDE DEF step
    <2>3. SameValue(RecordSize, g)
      BY <2>1, <2>2, ChainSame, Zenon
    <2>4. QED
      BY <2>3, Zenon DEF SameValue
  <1>4. \A irep \in Trees : LvSize[g[irep]] = LvSize[irep]
    <2> DEFINE step == [irep \in Trees |-> [vs \in Seq(Int) |-> LvOwnSize(irep) + Total(vs)]]
    <2>1. Stepwise(LvSize, step)
      BY LvSizeEquation, Zenon DEF Stepwise
    <2>2. SameStep(step, g)
      BY <1>1, Zenon DEF SameStep
    <2> HIDE DEF step
    <2>3. SameValue(LvSize, g)
      BY <2>1, <2>2, ChainSame, Zenon
    <2>4. QED
      BY <2>3, Zenon DEF SameValue
  <1>5. \A irep \in Trees : ~DebugDefined[g[irep]]
    BY <1>1, DebugDefinedEquation, Zenon
  <1>6. QED
    BY <1>2, <1>3, <1>4, <1>5, Zenon

LEMMA LvRecordsSame ==
  ASSUME NEW g, Copies(g), LvKept(g)
  PROVE  \A irep \in Trees : LvRecords[g[irep]] = LvRecords[irep]
  <1>1. \A irep \in Trees : LvOwn(g[irep]) = LvOwn(irep)
    BY Zenon DEF LvOwn, LvKept
  <1> DEFINE step == [irep \in Trees |-> [vs \in Seq(Seq(Nat)) |-> LvOwn(irep) \o FlattenSeq(vs)]]
  <1>2. Stepwise(LvRecords, step)
    BY LvRecordsEquation, Zenon DEF Stepwise
  <1>3. SameStep(step, g)
    <2>1. \A irep \in Trees : g[irep] \in Trees
      BY Zenon DEF Copies
    <2>2. QED
      BY <1>1, <2>1, Zenon DEF SameStep
  <1> HIDE DEF step
  <1>4. SameValue(LvRecords, g)
    BY <1>2, <1>3, ChainSame, Zenon
  <1>5. QED
    BY <1>4, Zenon DEF SameValue

\* clear_debug, and what the reader makes of an irep.
IsCleared(u, irep, reps) ==
  /\ u \in Trees /\ Len(reps) = Len(irep.reps)
  /\ HasFields(u, irep.nlocals, irep.nregs, irep.iseq, irep.handlers, irep.pool, irep.syms, reps,
               irep.lv, <<>>)
LEMMA ClearedIs ==
  ASSUME NEW irep \in Trees
  PROVE  IsCleared(ClearDebug[irep], irep, Of(ClearDebug, irep.reps))
  <1> DEFINE u == ClearDebug[irep]
             reps == Of(ClearDebug, irep.reps)
  <1>1. irep \in IrepsOf(Trees) /\ Depth \in 0 .. Depth
    BY TreeParts, LayoutAssumption
  <1>2. u \in Trees /\ u = Cleared(irep, reps)
    BY <1>1, ClearDebugEquation, Zenon DEF Cleared, Trees
  <1>3. irep.reps \in Seq(Trees)
    BY <1>1, IrepShape, Zenon
  <1>4. IsSequence(irep.reps) /\ \A i \in DOMAIN irep.reps : ClearDebug[irep.reps[i]] \in Trees
    <2>1. \A i \in DOMAIN irep.reps : irep.reps[i] \in Trees
      BY <1>3
    <2>2. QED
      BY <1>1, <1>3, <2>1, ClearDebugEquation, Zenon DEF IsSequence, Trees
  <1>5. reps \in Seq(Trees) /\ Len(reps) = Len(irep.reps)
    BY <1>4, OfType
  <1>6. u = Irep(irep.nlocals, irep.nregs, irep.iseq, irep.handlers, irep.pool, irep.syms, reps,
                 irep.lv, <<>>)
    BY <1>1, <1>2, <1>5, ClearedIrep, Zenon DEF Cleared
  <1> HIDE DEF u, reps
  <1>7. HasFields(u, irep.nlocals, irep.nregs, irep.iseq, irep.handlers, irep.pool, irep.syms, reps,
                  irep.lv, <<>>)
    BY <1>6, IrepIs, Zenon
  <1>8. QED
    BY <1>2, <1>5, <1>7, Zenon DEF IsCleared, u, reps

LEMMA ClearCopies ==
  Copies(ClearDebug) /\ LvKept(ClearDebug)
  <1>1. ASSUME NEW irep \in Trees
        PROVE  /\ ClearDebug[irep] \in Trees /\ ClearDebug[irep].reps = Of(ClearDebug, irep.reps)
               /\ WrittenAlike(ClearDebug[irep], irep) /\ ClearDebug[irep].debug = <<>>
               /\ ClearDebug[irep].lv = irep.lv
    <2> DEFINE u == ClearDebug[irep]
               reps == Of(ClearDebug, irep.reps)
    <2>1. IsCleared(u, irep, reps)
      BY ClearedIs, Zenon
    <2> HIDE DEF u, reps
    <2>2. WrittenAlike(u, irep) /\ u.reps = reps /\ u.lv = irep.lv /\ u.debug = <<>> /\ u \in Trees
      BY <2>1, Zenon DEF IsCleared, HasFields, WrittenAlike
    <2>3. QED
      BY <2>2, Zenon DEF u, reps
  <1>2. QED
    BY <1>1, Zenon DEF Copies, LvKept

LEMMA RebuiltCopies ==
  ASSUME NEW named \in BOOLEAN
  PROVE  Copies(Rebuilt(named)) /\ (named => LvKept(Rebuilt(named)))
  <1> DEFINE g == Rebuilt(named)
  <1>1. ASSUME NEW irep \in Trees
        PROVE  /\ g[irep] \in Trees /\ g[irep].reps = Of(g, irep.reps)
               /\ WrittenAlike(g[irep], irep) /\ g[irep].debug = <<>>
               /\ named => g[irep].lv = irep.lv
    <2> DEFINE x == g[irep]
               reps == Of(g, irep.reps)
    <2>1. /\ x \in Trees /\ x.nlocals = irep.nlocals /\ x.nregs = irep.nregs /\ x.iseq = irep.iseq
          /\ x.handlers = irep.handlers /\ x.pool = Each(Normal, irep.pool) /\ x.syms = irep.syms
          /\ x.reps = reps /\ x.lv = (IF named THEN irep.lv ELSE <<>>) /\ x.debug = <<>>
      BY RebuiltFields, Zenon DEF Rebuilds
    <2>2. irep \in IrepsOf(Trees) /\ Depth \in 0 .. Depth
      BY TreeParts, LayoutAssumption
    <2>3. irep.reps \in Seq(Trees) /\ irep.pool \in Seq(PoolValues)
      BY <2>2, IrepShape, Zenon
    <2>4. IsSequence(irep.reps) /\ \A i \in DOMAIN irep.reps : g[irep.reps[i]] \in Trees
      <3>1. \A i \in DOMAIN irep.reps : irep.reps[i] \in Trees
        BY <2>3
      <3>2. QED
        BY <2>2, <2>3, <3>1, RebuiltEquation, Zenon DEF IsSequence, Trees
    <2> HIDE DEF g
    <2>5. Len(reps) = Len(irep.reps)
      BY <2>4, OfType
    <2> HIDE DEF x, reps
    <2>6. /\ Len(x.pool) = Len(irep.pool) /\ Each(PoolEntry, x.pool) = Each(PoolEntry, irep.pool)
          /\ Each(PoolEntrySize, x.pool) = Each(PoolEntrySize, irep.pool)
      BY <2>1, <2>3, PoolSame, Zenon
    <2>7. WrittenAlike(x, irep)
      BY <2>1, <2>5, <2>6, Zenon DEF WrittenAlike
    <2>8. QED
      BY <2>1, <2>7, Zenon DEF x, reps
  <1>2. QED
    BY <1>1, Zenon DEF Copies, LvKept

\* Roots that are written alike, and models.
RootsAlike(x, y, lv) ==
  /\ Record[x] = Record[y] /\ RecordSize[x] = RecordSize[y] /\ LvSize[x] = LvSize[y]
  /\ lv => LvRecords[x] = LvRecords[y]
LEMMA RootsJoin ==
  ASSUME NEW x, NEW y, NEW z, NEW lv, RootsAlike(x, y, lv), RootsAlike(y, z, lv)
  PROVE  RootsAlike(x, z, lv) /\ RootsAlike(y, x, lv) /\ RootsAlike(x, x, lv)
  BY Zenon DEF RootsAlike

LEMMA CopiedAlike ==
  ASSUME NEW g, Copies(g), NEW lv, lv => LvKept(g), NEW irep \in Trees
  PROVE  RootsAlike(g[irep], irep, lv) /\ g[irep] \in Trees /\ ~DebugDefined[g[irep]]
  BY RecordsSame, LvRecordsSame, Zenon DEF RootsAlike, Copies

LEMMA WrittenSame ==
  ASSUME NEW x, NEW y, x.lvarSyms = y.lvarSyms, DebugBytes(x) = DebugBytes(y),
         RootsAlike(x.root, y.root, HasNames(x))
  PROVE  WriteRite(x) = WriteRite(y)
  <1> DEFINE r == x.root
             s == y.root
             names == x.lvarSyms
  <1>1. Record[r] = Record[s] /\ RecordSize[r] = RecordSize[s] /\ LvSize[r] = LvSize[s]
    BY Zenon DEF RootsAlike
  <1>2. names # <<>> => LvRecords[r] = LvRecords[s]
    BY Zenon DEF RootsAlike, HasNames
  <1>3. y.lvarSyms = names
    OBVIOUS
  <1>4. IrepSize(x) = IrepSize(y)
    BY <1>1, Zenon DEF IrepSize
  <1>5. LvarSize(x) = LvarSize(y)
    BY <1>1, <1>3, Zenon DEF LvarSize
  <1>6. LvarSection(x) = LvarSection(y)
    BY <1>2, <1>3, <1>5, Zenon DEF LvarSection
  <1>7. BinarySize(x) = BinarySize(y)
    BY <1>4, <1>5, Zenon DEF BinarySize
  <1>8. QED
    BY <1>1, <1>4, <1>6, <1>7, Zenon DEF WriteRite

ModelHas(m, r, s, d) == m.root = r /\ m.lvarSyms = s /\ m.debugRaw = d
LEMMA ModelIs ==
  ASSUME NEW r, NEW s, NEW d
  PROVE  ModelHas(Model(r, s, d), r, s, d)
  BY DEF Model, ModelHas

\* without_debug on a model that was read.
LEMMA StripIs ==
  ASSUME NEW r, NEW s, NEW d, NEW m, m = Model(r, s, d)
  PROVE  Strip(m) = Model(ClearDebug[r], s, <<>>)
  <1> DEFINE c == ClearDebug[r]
             e == <<>>
             x == Strip(m)
  <1>1. m.root = r
    BY DEF Model
  <1>2. x = [m EXCEPT !.debugRaw = e, !.root = c]
    BY <1>1, Zenon DEF Strip
  <1>3. m = [root |-> r, lvarSyms |-> s, debugRaw |-> d]
    BY Zenon DEF Model
  <1> HIDE DEF c, e, x
  <1>4. x = [root |-> c, lvarSyms |-> s, debugRaw |-> e]
    <2> DEFINE f == {"root", "lvarSyms", "debugRaw"}
    <2>1. x.root = c /\ x.lvarSyms = s /\ x.debugRaw = e
      BY <1>2, <1>3
    <2>2. m = [i \in f |-> m[i]]
      BY <1>3
    <2>3. x = [i \in f |-> x[i]]
      BY <1>2, <2>2
    <2> DEFINE y == [root |-> c, lvarSyms |-> s, debugRaw |-> e]
    <2>4. y = [i \in f |-> y[i]] /\ y.root = c /\ y.lvarSyms = s /\ y.debugRaw = e
      OBVIOUS
    <2> HIDE DEF y
    <2>5. \A i \in f : x[i] = y[i]
      BY <2>1, <2>4
    <2>6. x = y
      BY <2>3, <2>4, <2>5, Zenon
    <2>7. QED
      BY <2>6, Zenon DEF y
  <1>5. QED
    BY <1>4, Zenon DEF Model, c, e, x

LEMMA HasNamesType ==
  ASSUME NEW model
  PROVE  HasNames(model) \in BOOLEAN
  BY DEF HasNames

\* A file is what its model is written as, once more.
LEMMA RewriteSame ==
  ASSUME NEW model, Readable(model)
  PROVE  WriteRite(ReadOf(model)) = WriteRite(model)
  <1> DEFINE named == HasNames(model)
             g     == Rebuilt(named)
             r     == model.root
             raw   == DebugRead(model)
             names == model.lvarSyms
             x     == ReadOf(model)
  <1>1. r \in Trees
    BY Zenon DEF Readable, Writable
  <1>2. named \in BOOLEAN
    BY HasNamesType
  <1>3. Copies(g) /\ (named => LvKept(g))
    BY <1>2, RebuiltCopies, Zenon
  <1>4. x.root = g[r] /\ x.lvarSyms = names /\ x.debugRaw = raw
    <2> DEFINE u == g[r]
    <2>1. x = Model(u, names, raw)
      BY Zenon DEF ReadOf
    <2> HIDE DEF u, names, raw, x
    <2>2. x.root = u /\ x.lvarSyms = names /\ x.debugRaw = raw
      <3>1. ModelHas(x, u, names, raw)
        BY <2>1, ModelIs, Zenon
      <3>2. QED
        BY <3>1, Zenon DEF ModelHas
    <2>3. QED
      BY <2>2, Zenon DEF u
  <1> HIDE DEF named, g, r, raw, names, x
  <1>5. HasNames(x) = named
    BY <1>4, Zenon DEF HasNames, named, names
  <1>6. RootsAlike(x.root, r, HasNames(x)) /\ ~DebugDefined[x.root]
    <2>1. RootsAlike(g[r], r, named) /\ ~DebugDefined[g[r]]
      BY <1>1, <1>3, CopiedAlike, Zenon
    <2>2. QED
      BY <1>4, <1>5, <2>1, Zenon
  <1>7. DebugBytes(x) = DebugBytes(model)
    <2> DEFINE d == DebugBytes(model)
    <2>1. DebugBytes(x) = IF raw # <<>> THEN raw[1] ELSE <<>>
      BY <1>4, <1>6, DebugBytesShape, Zenon
    <2>2. raw = IF d = <<>> THEN <<>> ELSE <<d>>
      BY Zenon DEF raw, DebugRead
    <2> HIDE DEF d
    <2>3. (IF raw # <<>> THEN raw[1] ELSE <<>>) = d
      BY <2>2
    <2>4. (IF raw # <<>> THEN raw[1] ELSE <<>>) = DebugBytes(model)
      BY <2>3, Zenon DEF d
    <2> DEFINE e == IF raw # <<>> THEN raw[1] ELSE <<>>
    <2>5. DebugBytes(x) = e /\ e = DebugBytes(model)
      BY <2>1, <2>4
    <2> HIDE DEF e
    <2>6. QED
      BY <2>5, Zenon
  <1>8. x.lvarSyms = model.lvarSyms
    BY <1>4, Zenon DEF names
  <1>9. WriteRite(x) = WriteRite(model)
    BY <1>6, <1>7, <1>8, WrittenSame, Zenon DEF r
  <1>10. QED
    BY <1>9, Zenon DEF x

\* Without its debug section it is what any model alike is written as.
LEMMA StripSame ==
  ASSUME NEW model, Readable(model), NEW top, top \in Trees, RootsAlike(model.root, top, HasNames(model))
  PROVE  WriteRite(Strip(ReadOf(model))) = WriteRite(Model(ClearDebug[top], model.lvarSyms, <<>>))
  <1> DEFINE named == HasNames(model)
             g     == Rebuilt(named)
             r     == model.root
             names == model.lvarSyms
             x     == Strip(ReadOf(model))
             y     == Model(ClearDebug[top], names, <<>>)
  <1>1. r \in Trees
    BY Zenon DEF Readable, Writable
  <1>2. named \in BOOLEAN
    BY HasNamesType
  <1>3. Copies(g) /\ (named => LvKept(g))
    BY <1>2, RebuiltCopies, Zenon
  <1>4. Copies(ClearDebug) /\ (named => LvKept(ClearDebug))
    BY ClearCopies, Zenon
  <1>5. x.root = ClearDebug[g[r]] /\ x.lvarSyms = names /\ x.debugRaw = <<>>
    <2> DEFINE u   == g[r]
               raw == DebugRead(model)
               e   == <<>>
               c   == ClearDebug[u]
    <2>1. x = Strip(Model(u, names, raw))
      BY Zenon DEF ReadOf
    <2> HIDE DEF u, names, raw, x
    <2>2. x = Model(c, names, e)
      BY <2>1, StripIs, Zenon
    <2> HIDE DEF c, e
    <2>3. x.root = c /\ x.lvarSyms = names /\ x.debugRaw = e
      <3>1. ModelHas(x, c, names, e)
        BY <2>2, ModelIs, Zenon
      <3>2. QED
        BY <3>1, Zenon DEF ModelHas
    <2>4. QED
      BY <2>3, Zenon DEF u, c, e
  <1>6. y.root = ClearDebug[top] /\ y.lvarSyms = names /\ y.debugRaw = <<>>
    <2> DEFINE e   == <<>>
               c   == ClearDebug[top]
    <2> HIDE DEF names
    <2>1. y = Model(c, names, e)
      BY Zenon
    <2> HIDE DEF y, c, e
    <2>2. y.root = c /\ y.lvarSyms = names /\ y.debugRaw = e
      <3>1. ModelHas(y, c, names, e)
        BY <2>1, ModelIs, Zenon
      <3>2. QED
        BY <3>1, Zenon DEF ModelHas
    <2>3. QED
      BY <2>2, Zenon DEF c, e
  <1>7. HasNames(x) = named
    BY <1>5, Zenon DEF HasNames
  <1> HIDE DEF named, g, r, names, x, y
  <1> DEFINE a == ClearDebug[g[r]]
             b == g[r]
             z == ClearDebug[top]
  <1>8. /\ RootsAlike(b, r, named) /\ b \in Trees
        /\ RootsAlike(z, top, named) /\ ~DebugDefined[z]
    BY <1>1, <1>3, <1>4, CopiedAlike, Zenon
  <1>9. RootsAlike(a, b, named) /\ ~DebugDefined[a]
    BY <1>4, <1>8, CopiedAlike, Zenon
  <1>10. RootsAlike(r, top, named)
    BY Zenon DEF r, named
  <1> HIDE DEF a, b, z
  <1>11. RootsAlike(a, z, named)
    BY <1>8, <1>9, <1>10, Zenon DEF RootsAlike
  <1>12. DebugBytes(x) = <<>> /\ DebugBytes(y) = <<>>
    <2>1. ~DebugDefined[x.root] /\ ~DebugDefined[y.root]
      BY <1>5, <1>6, <1>8, <1>9, Zenon DEF a, z
    <2>2. QED
      BY <1>5, <1>6, <2>1, DebugBytesShape, Zenon
  <1>13. WriteRite(x) = WriteRite(y)
    <2>1. RootsAlike(x.root, y.root, HasNames(x))
      BY <1>5, <1>6, <1>7, <1>11, Zenon DEF a, z
    <2>2. x.lvarSyms = y.lvarSyms
      BY <1>5, <1>6, Zenon
    <2>3. QED
      BY <1>12, <2>1, <2>2, WrittenSame, Zenon
  <1>14. QED
    BY <1>13, Zenon DEF x, y, names

--------------------------------------------------------------------------------
(* The file of the program, read back.                                          *)

\* Counts, lengths and sizes of an irep that the writer casts to the fields of its record
\* without asking whether they fit.
RecordFieldsFit(irep) ==
  /\ irep.nlocals < Halfword /\ irep.nregs < Halfword /\ Len(irep.reps) < Halfword
  /\ OwnSize(irep) < Word
  /\ \A i \in DOMAIN irep.pool : ShortEntry(irep.pool[i])
  /\ \A i \in DOMAIN irep.syms : ShortSym(irep.syms[i])
NameFieldsFit == Len(lvarNames) <= NullMark /\ \A i \in DOMAIN lvarNames : Len(lvarNames[i]) < Halfword
FieldsFit ==
  Written => /\ \A irep \in Parts[root[1]] : RecordFieldsFit(irep)
             /\ anyLv => NameFieldsFit
             /\ BinarySize(Compiled(file[1].stripped)) < Word

LEMMA PartReadable ==
  ASSUME NEW irep \in Trees, RecordFieldsFit(irep), NEW n \in Nat, Numbered(irep, n)
  PROVE  ShortIrep(irep) /\ NamedLocals(irep, n)
  <1>1. Len(irep.pool) <= PoolMax /\ Len(irep.syms) <= SymMax /\ Len(irep.handlers) <= 1
    BY Zenon DEF Numbered
  <1>2. PoolMax \in Nat /\ SymMax \in Nat /\ PoolMax < Halfword /\ SymMax < Halfword /\ 1 < Halfword
    <2>1. Base \in Nat /\ Base > 1
      BY BaseType
    <2>2. Base <= Base * Base
      BY <2>1
    <2>3. Halfword \in Nat /\ Base <= Halfword
      BY <2>2, Widths
    <2>4. QED
      BY <2>1, <2>3, IrepsAssumption
  <1>3. Len(irep.handlers) < Halfword /\ Len(irep.pool) < Halfword /\ Len(irep.syms) < Halfword
    <2> DEFINE h == Len(irep.handlers)
               p == Len(irep.pool)
               s == Len(irep.syms)
    <2>1. irep \in IrepsOf(Trees)
      BY TreeParts
    <2>2. irep.handlers \in Seq(Handlers) /\ irep.pool \in Seq(PoolValues) /\ irep.syms \in Seq(Optional(Seq(Nat)))
      BY <2>1, IrepShape, Zenon
    <2>3. h \in Nat /\ p \in Nat /\ s \in Nat /\ Halfword \in Nat
      <3>1. Halfword \in Nat
        BY Widths
      <3>2. QED
        BY <2>2, <3>1
    <2> HIDE DEF h, p, s
    <2>4. p <= PoolMax /\ s <= SymMax /\ h <= 1
      BY <1>1, Zenon DEF h, p, s
    <2>5. h < Halfword /\ p < Halfword /\ s < Halfword
      BY <1>2, <2>3, <2>4
    <2>6. QED
      BY <2>5, Zenon DEF h, p, s
  <1>4. ShortIrep(irep)
    BY <1>3, Zenon DEF ShortIrep, RecordFieldsFit
  <1>5. irep.lv \in Seq((0 .. n - 1) \cup {Null})
    <2> DEFINE lv == irep.lv
    <2>1. lv \in Seq(Nat \cup {Null})
      BY TreeParts, IrepShape, Zenon
    <2>2. \A k \in DOMAIN lv : lv[k] # Null => lv[k] < n
      BY Zenon DEF Numbered
    <2> HIDE DEF lv
    <2>3. DOMAIN lv = 1 .. Len(lv) /\ Len(lv) \in Nat /\ \A k \in 1 .. Len(lv) : lv[k] \in Nat \cup {Null}
      BY <2>1, Zenon, LenProperties, ElementOfSeq
    <2>4. \A k \in 1 .. Len(lv) : lv[k] \in (0 .. n - 1) \cup {Null}
      BY <2>2, <2>3
    <2>5. lv \in [1 .. Len(lv) -> (0 .. n - 1) \cup {Null}]
      <3>1. lv = [k \in 1 .. Len(lv) |-> lv[k]]
        BY <2>1, <2>3
      <3>2. QED
        BY <2>4, <3>1, Zenon
    <2>6. lv \in Seq((0 .. n - 1) \cup {Null})
      BY <2>3, <2>5, ListIs, Zenon
    <2>7. QED
      BY <2>6, Zenon DEF lv
  <1>6. NamedLocals(irep, n)
    BY <1>5, Zenon DEF NamedLocals, Numbered
  <1>7. QED
    BY <1>4, <1>6, Zenon

\* Clearing the debug records changes none of that.
LEMMA ClearedReadable ==
  ASSUME NEW irep \in Trees, RecordFieldsFit(irep), NEW n, Numbered(irep, n)
  PROVE  RecordFieldsFit(ClearDebug[irep]) /\ Numbered(ClearDebug[irep], n)
  <1> DEFINE u == ClearDebug[irep]
             reps == Of(ClearDebug, irep.reps)
  <1>1. IsCleared(u, irep, reps)
    BY ClearedIs, Zenon
  <1>2. WrittenAlike(u, irep)
    BY ClearCopies, Zenon DEF Copies
  <1>3. OwnSize(u) = OwnSize(irep)
    BY <1>2, OwnSame, Zenon
  <1> HIDE DEF u, reps
  <1>4. /\ u.nlocals = irep.nlocals /\ u.nregs = irep.nregs /\ u.handlers = irep.handlers
        /\ u.pool = irep.pool /\ u.syms = irep.syms /\ Len(u.reps) = Len(irep.reps) /\ u.lv = irep.lv
    BY <1>1, Zenon DEF IsCleared, HasFields
  <1>5. RecordFieldsFit(u)
    BY <1>3, <1>4, Zenon DEF RecordFieldsFit
  <1>6. Numbered(u, n)
    BY <1>4, Zenon DEF Numbered
  <1>7. QED
    BY <1>5, <1>6, Zenon DEF u

LEMMA ProgramReadable ==
  ASSUME Inv, Filled, root # <<>>, NEW stripped \in BOOLEAN,
         \A irep \in Parts[root[1]] : RecordFieldsFit(irep), anyLv => NameFieldsFit,
         BinarySize(Compiled(stripped)) < Word
  PROVE  /\ Readable(Compiled(stripped)) /\ root[1] \in Trees
         /\ Compiled(stripped).lvarSyms = IF anyLv THEN <<lvarNames>> ELSE <<>>
         /\ RootsAlike(Compiled(stripped).root, root[1], HasNames(Compiled(stripped)))
  <1> DEFINE n     == Len(lvarNames)
             top   == IF stripped THEN ClearDebug[root[1]] ELSE root[1]
             syms  == IF anyLv THEN <<lvarNames>> ELSE <<>>
             model == Compiled(stripped)
  <1>1. root[1] \in Made(Depth, n)
    BY DEF Filled, Optional
  <1>2. root[1] \in Trees /\ \A part \in Parts[root[1]] : Numbered(part, n)
    BY <1>1, Zenon DEF Made, Trees
  <1>3. n \in Nat /\ lvarNames \in Seq(Seq(Nat))
    <2>1. lvarNames \in Seq(Names)
      BY Zenon DEF Inv
    <2>2. Names \subseteq Seq(Nat)
      BY BaseType DEF Names
    <2>3. lvarNames \in Seq(Seq(Nat))
      BY <2>1, <2>2
    <2>4. QED
      BY <2>3, LengthType
  <1>4. Writable(model)
    BY ProgramWritable, Zenon
  <1> HIDE DEF n
  <1>5. \A part \in Parts[top] : ShortIrep(part) /\ NamedLocals(part, n)
    <2>1. ASSUME NEW p \in Parts[root[1]]
          PROVE  p \in Trees /\ RecordFieldsFit(p) /\ Numbered(p, n)
      <3>1. p \in Trees
        BY <1>2, PartsOf
      <3>2. QED
        BY <1>2, <3>1, Zenon
    <2>2. CASE stripped
      <3>1. ASSUME NEW part \in Parts[top] PROVE ShortIrep(part) /\ NamedLocals(part, n)
        <4>1. top = ClearDebug[root[1]]
          BY <2>2, Zenon
        <4>2. PICK p \in Parts[root[1]] : part = ClearDebug[p]
          BY <1>2, <3>1, <4>1, ClearedParts, Zenon
        <4>3. p \in Trees /\ RecordFieldsFit(p) /\ Numbered(p, n)
          BY <2>1, Zenon
        <4>4. RecordFieldsFit(part) /\ Numbered(part, n)
          BY <4>2, <4>3, ClearedReadable, Zenon
        <4>5. part \in Trees
          BY <4>2, <4>3, ClearedFields, Zenon
        <4>6. QED
          BY <1>3, <4>4, <4>5, PartReadable, Zenon
      <3>2. QED
        BY <3>1, Zenon
    <2>3. CASE ~stripped
      <3>1. top = root[1]
        BY <2>3, Zenon
      <3>2. QED
        BY <1>3, <2>1, <3>1, PartReadable, Zenon
    <2>4. QED
      BY <2>2, <2>3, Zenon
  <1>6. top \in Trees /\ \A lv \in BOOLEAN : RootsAlike(top, root[1], lv)
    <2>1. RootsAlike(ClearDebug[root[1]], root[1], TRUE) /\ ClearDebug[root[1]] \in Trees
      BY <1>2, ClearCopies, CopiedAlike, Zenon
    <2>2. QED
      BY <1>2, <2>1, Zenon DEF RootsAlike
  <1>7. syms # <<>> => anyLv /\ syms[1] = lvarNames
    BY Zenon
  <1>8. anyLv => ShortNames(lvarNames)
    <2>1. ASSUME NameFieldsFit PROVE ShortNames(lvarNames)
      <3>1. n <= NullMark /\ \A i \in DOMAIN lvarNames : Len(lvarNames[i]) < Halfword
        BY <2>1, Zenon DEF NameFieldsFit, n
      <3>2. NullMark \in Int
        BY Widths DEF NullMark
      <3>3. n \in 0 .. NullMark
        BY <1>3, <3>1, <3>2
      <3>4. QED
        BY <1>3, <3>1, <3>3, Zenon DEF ShortNames, n
    <2>2. QED
      BY <2>1, Zenon
  <1>9. model.root = top /\ model.lvarSyms = syms /\ model.debugRaw = <<>>
    <2> DEFINE e == <<>>
    <2>1. model = Model(top, syms, e)
      BY Zenon DEF Compiled
    <2> HIDE DEF model, top, syms, e
    <2>2. ModelHas(model, top, syms, e)
      BY <2>1, ModelIs, Zenon
    <2>3. QED
      BY <2>2, Zenon DEF ModelHas, e
  <1>10. BinarySize(model) < Word
    OBVIOUS
  <1> HIDE DEF top, syms, model
  <1>11. AllShort(model.root) /\ AllNamed(model.root, n)
    BY <1>5, <1>9, Zenon DEF AllShort, AllNamed
  <1>12. model.lvarSyms # <<>> => ShortNames(model.lvarSyms[1]) /\ Len(model.lvarSyms[1]) = n
    BY <1>7, <1>8, <1>9, Zenon DEF n
  <1>13. Readable(model)
    BY <1>4, <1>9, <1>10, <1>11, <1>12, Zenon DEF Readable
  <1>14. RootsAlike(model.root, root[1], HasNames(model))
    <2>1. HasNames(model) \in BOOLEAN
      BY HasNamesType
    <2>2. QED
      BY <1>6, <1>9, <2>1, Zenon
  <1>15. QED
    BY <1>2, <1>9, <1>13, <1>14, Zenon DEF model, syms

LEMMA RiteReadsBack ==
  ASSUME RiteInv, FieldsFit
  PROVE  RewriteIsIdentity /\ StripsAlike
  <1>1. SUFFICES ASSUME file # <<>>
                 PROVE  /\ ReadBack # <<>> /\ WriteRite(ReadBack[1]) = file[1].bytes
                        /\ WriteRite(Strip(ReadBack[1])) = WriteRite(Compiled(TRUE))
    BY <1>1, Zenon DEF RewriteIsIdentity, StripsAlike, Written
  <1>2. root # <<>>
    BY <1>1, Zenon DEF RiteInv, Filed
  <1>3. PICK stripped \in BOOLEAN :
          file = <<[bytes |-> WriteRite(Compiled(stripped)), stripped |-> stripped]>>
    BY <1>1, Zenon DEF RiteInv, Filed
  <1> DEFINE model == Compiled(stripped)
             bytes == WriteRite(model)
             whole == ReadOf(model)
  <1>4. file = <<[bytes |-> bytes, stripped |-> stripped]>>
    BY <1>3, Zenon
  <1>5. file[1].bytes = bytes /\ file[1].stripped = stripped
    <2> HIDE DEF bytes
    <2>1. QED
      BY <1>4
  <1>6. /\ \A irep \in Parts[root[1]] : RecordFieldsFit(irep)
        /\ anyLv => NameFieldsFit
        /\ BinarySize(model) < Word
    BY <1>1, <1>5, Zenon DEF FieldsFit, Written
  <1>7. /\ Readable(model) /\ root[1] \in Trees
        /\ model.lvarSyms = IF anyLv THEN <<lvarNames>> ELSE <<>>
        /\ RootsAlike(model.root, root[1], HasNames(model))
    BY <1>2, <1>6, ProgramReadable, Zenon DEF RiteInv
  <1> HIDE DEF model
  <1>8. ReadBack = <<whole>>
    BY <1>5, <1>7, FileReads, Zenon DEF ReadBack
  <1>9. WriteRite(whole) = bytes
    BY <1>7, RewriteSame, Zenon
  <1>10. Compiled(TRUE) = Model(ClearDebug[root[1]], model.lvarSyms, <<>>)
    BY <1>7, Zenon DEF Compiled
  <1>11. WriteRite(Strip(whole)) = WriteRite(Compiled(TRUE))
    BY <1>7, <1>10, StripSame, Zenon
  <1> HIDE DEF whole, bytes
  <1>12. ReadBack # <<>> /\ ReadBack[1] = whole
    BY <1>8
  <1>13. QED
    BY <1>5, <1>9, <1>11, <1>12, Zenon

\* Whatever the generator makes of a program, the file that is written of it is read back,
\* and what is read is written as the same bytes (writer.rs write_rite, reader.rs read_rite,
\* roundtrip), as long as the counts and lengths fit the fields of the format, which the
\* writer casts them to unasked.
THEOREM RewritesAreIdentities == Spec => [](FieldsFit => RewriteIsIdentity)
  <1>1. Init => RiteInv
    BY RiteOpened
  <1>2. RiteInv /\ [Next]_vars => RiteInv'
    BY RiteStep
  <1>3. RiteInv => (FieldsFit => RewriteIsIdentity)
    BY RiteReadsBack
  <1>4. QED
    BY <1>1, <1>2, <1>3, PTL DEF Spec

\* Then a file that loses its debug section once it was read is the file that is written
\* of a program without debug records (debug.rs without_debug, clear_debug).
THEOREM StripsAreAlike == Spec => [](FieldsFit => StripsAlike)
  <1>1. Init => RiteInv
    BY RiteOpened
  <1>2. RiteInv /\ [Next]_vars => RiteInv'
    BY RiteStep
  <1>3. RiteInv => (FieldsFit => StripsAlike)
    BY RiteReadsBack
  <1>4. QED
    BY <1>1, <1>2, <1>3, PTL DEF Spec
================================================================================
