---------------------------- MODULE GeometryCodec ----------------------------
(***************************************************************************)
(* The WKB and WKT readers and writers (io/wkb, io/wkt).                   *)
(*                                                                         *)
(* WKB is a sequence of fields [w, v, le]: width in bytes, value, byte     *)
(* order.  WKT is a sequence of tokens.  A reader is a value [ok, v, pos,  *)
(* extra]: what was read, the next position and the extra ordinates so far *)
(* (srid and dims as well, at the top).                                    *)
(***************************************************************************)
EXTENDS GeometryTree

CONSTANT MaxNesting    \* MAX_WKB_NESTING and MAX_WKT_NESTING

Failed == [ok |-> FALSE]
Read(v, pos, extra) == [ok |-> TRUE, v |-> v, pos |-> pos, extra |-> extra]

(* What follows a reader that has not failed.                              *)
Then(r, Follow(_)) == IF r.ok THEN Follow(r) ELSE Failed

Prepend(v, r) == [r EXCEPT !.v = <<v>> \o @]

(***************************************************************************)
(* WKB writers.  Z, M and the SRID are flags of the type word in EWKB;     *)
(* ISO adds thousands to the type code and has no SRID.                    *)
(***************************************************************************)
Codes == <<"Point", "LineString", "Polygon", "MultiPoint", "MultiLineString", "MultiPolygon",
           "GeometryCollection">>

CodeOf(kind) == CHOOSE n \in DOMAIN Codes : Codes[n] = kind

TypeCode(kind, dims, srid, enc) ==
  IF enc = "iso"
  THEN [code |-> CodeOf(kind) + 1000 * ((IF dims.z THEN 1 ELSE 0) + (IF dims.m THEN 2 ELSE 0)),
        z |-> FALSE, m |-> FALSE, srid |-> FALSE]
  ELSE [code |-> CodeOf(kind), z |-> dims.z, m |-> dims.m, srid |-> srid # 0]

(* Line, Rect and Triangle are written as the line or ring they stand for. *)
Corners(g) == IF g.kind = "Line" THEN g.pts ELSE Append(g.pts, g.pts[1])

RECURSIVE AsWritten(_)
AsWritten(g) ==
  CASE g.kind = "Line" -> Line(g.pts)
    [] g.kind \in {"Rect", "Triangle"} -> Polygon(<<Corners(g)>>)
    [] g.kind = "GeometryCollection" ->
         Collection([k \in DOMAIN g.parts |-> AsWritten(g.parts[k])])
    [] OTHER -> g

(* A coordinate consumes its extra ordinates; an empty point writes NaN    *)
(* for each of them and consumes none.                                     *)
TakeExtra(c, k, extra, off) ==
  IF c = NaN \/ off + k > Len(extra) THEN NaN ELSE extra[off + k]

CoordFields(pts, dims, extra, off, le) ==
  FoldLeft(LAMBDA acc, c :
             [items |-> acc.items \o <<[w |-> 16, v |-> c, le |-> le]>>
                          \o [k \in 1 .. Extras(dims) |->
                                [w |-> 8, v |-> TakeExtra(c, k, extra, acc.off), le |-> le]],
              off |-> acc.off + IF c = NaN THEN 0 ELSE Extras(dims)],
           [items |-> <<>>, off |-> off], pts)

(* A polygon without coordinates is a ring count of zero.                  *)
NoRings(g) == Len(g.parts) = 1 /\ g.parts[1].pts = <<>>

RECURSIVE Fields(_, _, _, _, _)
Fields(g, cfg, srid, extra, off) ==
  LET Word(n) == <<[w |-> 4, v |-> n, le |-> cfg.le]>>
      header == <<[w |-> 1, v |-> cfg.le, le |-> cfg.le],
                  [w |-> 4, v |-> TypeCode(g.kind, cfg.dims, srid, cfg.enc), le |-> cfg.le]>>
                \o (IF srid = 0 THEN <<>> ELSE Word(srid))
      Counted(pts, o) == LET c == CoordFields(pts, cfg.dims, extra, o, cfg.le)
                         IN  [items |-> Word(Len(pts)) \o c.items, off |-> c.off]
      Each(Op(_, _), parts) ==
        FoldLeft(LAMBDA acc, p : LET r == Op(p, acc.off)
                                 IN  [items |-> acc.items \o r.items, off |-> r.off],
                 [items |-> Word(Len(parts)), off |-> off], parts)
      body == CASE g.kind = "Point" -> CoordFields(g.pts, cfg.dims, extra, off, cfg.le)
                [] g.kind = "LineString" -> Counted(g.pts, off)
                [] g.kind = "Polygon" /\ NoRings(g) -> [items |-> Word(0), off |-> off]
                [] g.kind = "Polygon" -> Each(LAMBDA r, o : Counted(r.pts, o), g.parts)
                [] OTHER -> Each(LAMBDA p, o : Fields(p, cfg, 0, extra, o), g.parts)
      Headed(b) == [b EXCEPT !.items = header \o @]
  IN  Headed(body)

WriteWkb(p, enc, le) ==
  LET dims == IF enc = "xy" THEN XY ELSE p.dims
      srid == IF enc = "ewkb" THEN p.srid ELSE 0
  IN  Fields(AsWritten(p.geom), [dims |-> dims, enc |-> enc, le |-> le], srid, p.extra, 0).items

ByteLength(doc) == FoldLeft(LAMBDA n, f : n + f.w, 0, doc)

(* ewkb_size: the length estimated before writing.  The parts of a         *)
(* multi-geometry are added up without recursion.                          *)
RingBytes(g, bytes) ==
  IF NoRings(g) THEN 0
  ELSE FoldLeft(LAMBDA n, r : n + 4 + bytes * Len(r.pts), 0, g.parts)

(* Mutant: an empty part is counted as if it wrote its exterior.           *)
PartBytesOfRing(g, bytes) ==
  CASE g.kind = "Point" -> 5 + bytes
    [] g.kind = "LineString" -> 9 + bytes * Len(g.pts)
    [] OTHER -> 9 + FoldLeft(LAMBDA n, r : n + 4 + bytes * Len(r.pts), 0, g.parts)

PartBytes(g, bytes) ==
  CASE g.kind = "Point" -> 5 + bytes
    [] g.kind = "LineString" -> 9 + bytes * Len(g.pts)
    [] OTHER -> 9 + RingBytes(g, bytes)

RECURSIVE SizeOf(_, _, _)
SizeOf(g, dims, hasSrid) ==
  LET header == 5 + IF hasSrid THEN 4 ELSE 0
      bytes == 8 * (2 + Extras(dims))
  IN  CASE g.kind = "Point" -> header + bytes
        [] g.kind = "LineString" -> header + 4 + bytes * Len(g.pts)
        [] g.kind = "Line" -> header + 4 + 2 * bytes
        [] g.kind = "Rect" -> header + 8 + 5 * bytes
        [] g.kind = "Triangle" -> header + 8 + 4 * bytes
        [] g.kind = "Polygon" -> header + 4 + RingBytes(g, bytes)
        [] g.kind \in Multis -> FoldLeft(LAMBDA n, p : n + PartBytes(p, bytes), header + 4, g.parts)
        [] OTHER -> FoldLeft(LAMBDA n, p : n + SizeOf(p, dims, FALSE), header + 4, g.parts)

(***************************************************************************)
(* WKB reader.  A word read in the wrong byte order is another number; a   *)
(* count that the bytes left cannot hold is refused before anything is     *)
(* allocated for it.                                                       *)
(***************************************************************************)
Swapped(n) == 16777216 + n

Word(doc, pos, le) ==
  IF pos > Len(doc) \/ doc[pos].w # 4 THEN Failed
  ELSE Read(IF doc[pos].le = le THEN doc[pos].v ELSE Swapped(doc[pos].v), pos + 1, <<>>)

Count(doc, pos, le, minBytes) ==
  Then(Word(doc, pos, le), LAMBDA n :
    IF n.v > ByteLength(SubSeq(doc, n.pos, Len(doc))) \div minBytes THEN Failed ELSE n)

Coords(doc, pos, n, dims, extra) ==
  LET step == 1 + Extras(dims)
      Values(k) == [i \in 1 .. Extras(dims) |-> doc[pos + (k - 1) * step + i].v]
  IN  IF pos + n * step - 1 > Len(doc) THEN Failed
      ELSE Read([k \in 1 .. n |-> doc[pos + (k - 1) * step].v], pos + n * step,
                extra \o FlattenSeq([k \in 1 .. n |-> Values(k)]))

ReadLine(doc, pos, le, dims, extra) ==
  Then(Word(doc, pos, le), LAMBDA n : Coords(doc, n.pos, n.v, dims, extra))

RECURSIVE ReadRings(_, _, _, _, _, _)
ReadRings(doc, pos, n, le, dims, extra) ==
  IF n = 0 THEN Read(<<>>, pos, extra)
  ELSE Then(ReadLine(doc, pos, le, dims, extra), LAMBDA ring :
         IF Len(ring.v) \in {1, 2} THEN Failed
         ELSE Then(ReadRings(doc, ring.pos, n - 1, le, dims, ring.extra),
                   LAMBDA rest : Prepend(ring.v, rest)))

(* ISO codes carry the dimensions in their thousands.                      *)
(* Mutant: only the flag bits are looked at.                               *)
DecodedFlags(word) ==
  [code |-> word.code % 1000, dims |-> [z |-> word.z, m |-> word.m]]

Decoded(word) ==
  [code |-> word.code % 1000,
   dims |-> [z |-> word.z \/ word.code \div 1000 \in {1, 3},
             m |-> word.m \/ word.code \div 1000 \in {2, 3}]]

RECURSIVE ReadWkbAt(_, _, _, _)

ReadPart(doc, pos, extra, depth, kind) ==
  Then(ReadWkbAt(doc, pos, extra, depth), LAMBDA part :
    IF kind \in Multis /\ part.v.kind # PartKind[kind] THEN Failed ELSE part)

RECURSIVE ReadParts(_, _, _, _, _, _)
ReadParts(doc, pos, n, extra, depth, kind) ==
  IF n = 0 THEN Read(<<>>, pos, extra)
  ELSE Then(ReadPart(doc, pos, extra, depth + 1, kind), LAMBDA part :
         Then(ReadParts(doc, part.pos, n - 1, part.extra, depth, kind),
              LAMBDA rest : Prepend(part.v, rest)))

ReadBody(doc, pos, le, kind, dims, extra, depth) ==
  CASE kind = "Point" ->
         Then(Coords(doc, pos, 1, dims, extra), LAMBDA c : [c EXCEPT !.v = Point(@[1])])
    [] kind = "LineString" ->
         Then(ReadLine(doc, pos, le, dims, extra), LAMBDA c : [c EXCEPT !.v = Line(@)])
    [] kind = "Polygon" ->
         Then(Count(doc, pos, le, 4), LAMBDA n :
           Then(ReadRings(doc, n.pos, n.v, le, dims, extra), LAMBDA rings :
             [rings EXCEPT !.v = IF n.v = 0 THEN EmptyPolygon ELSE Polygon(@)]))
    [] OTHER ->
         Then(Count(doc, pos, le, 5), LAMBDA n :
           Then(ReadParts(doc, n.pos, n.v, extra, depth, kind), LAMBDA parts :
             [parts EXCEPT !.v = Node(kind, <<>>, @)]))

ReadWkbAt(doc, pos, extra, depth) ==
  IF depth > MaxNesting \/ pos + 1 > Len(doc) THEN Failed
  ELSE LET le == doc[pos].v
           word == doc[pos + 1].v
           type == Decoded(word)
           srid == IF word.srid THEN Word(doc, pos + 2, le) ELSE Read(0, pos + 2, <<>>)
       IN  IF type.code \notin DOMAIN Codes \/ doc[pos].le # doc[pos + 1].le THEN Failed
           ELSE Then(srid, LAMBDA s :
                  Then(ReadBody(doc, s.pos, le, Codes[type.code], type.dims, extra, depth),
                       LAMBDA g : g @@ [srid |-> s.v, dims |-> type.dims]))

(* read_ewkb keeps everything; read_wkb keeps the tree, and refuses bytes  *)
(* after it.                                                               *)
ReadEwkb(doc) == ReadWkbAt(doc, 1, <<>>, 0)

ReadWkb(doc) ==
  Then(ReadEwkb(doc), LAMBDA r :
    IF r.pos # Len(doc) + 1 THEN Failed ELSE [r EXCEPT !.extra = <<>>, !.srid = 0, !.dims = XY])

(***************************************************************************)
(* WKT writer.  A multi-point lists bare coordinates, empty ones as NaN    *)
(* with their share of the extra ordinates; rings without coordinates and  *)
(* parts without a shell are left out.                                     *)
(***************************************************************************)
Open == [t |-> "open"]
Close == [t |-> "close"]
Comma == [t |-> "comma"]
EmptyWord == [t |-> "empty"]
Keyword(kind, dims, explicit) == [t |-> "keyword", kind |-> kind, dims |-> dims, explicit |-> explicit]
Pair(c) == [t |-> "pair", v |-> c]
Ordinate(z) == [t |-> "ordinate", v |-> z]

(* The items of a list between commas, each given the offset it starts at. *)
Separated(Op(_, _), seq, off) ==
  FoldLeft(LAMBDA acc, x :
             LET r == Op(x, acc.off)
             IN  [items |-> acc.items \o (IF acc.items = <<>> THEN <<>> ELSE <<Comma>>) \o r.items,
                  off |-> r.off],
           [items |-> <<>>, off |-> off], seq)

Enclosed(r) == [items |-> <<Open>> \o r.items \o <<Close>>, off |-> r.off]

Ordinates(extra, off, n) ==
  [k \in 1 .. n |-> Ordinate(IF off + k > Len(extra) THEN NaN ELSE extra[off + k])]

CoordTokens(c, dims, extra, off) ==
  [items |-> <<Pair(c)>> \o Ordinates(extra, off, Extras(dims)), off |-> off + Extras(dims)]

ListTokens(pts, dims, extra, off) ==
  Enclosed(Separated(LAMBDA c, o : CoordTokens(c, dims, extra, o), pts, off))

RingTokens(g, dims, extra, off) ==
  LET rings == <<g.parts[1]>> \o SelectSeq(Tail(g.parts), LAMBDA r : r.pts # <<>>)
  IN  Enclosed(Separated(LAMBDA r, o : ListTokens(r.pts, dims, extra, o), rings, off))

RECURSIVE Tokens(_, _, _, _)
Tokens(g, dims, extra, off) ==
  LET none == [items |-> <<EmptyWord>>, off |-> off]
      shelled == SelectSeq(g.parts, LAMBDA p : p.parts[1].pts # <<>>)
      List(Op(_, _), seq) == IF seq = <<>> THEN none ELSE Enclosed(Separated(Op, seq, off))
      body == CASE g.kind = "Point" ->
                     IF g.pts[1] = NaN THEN none ELSE ListTokens(g.pts, dims, extra, off)
                [] g.kind = "LineString" ->
                     IF g.pts = <<>> THEN none ELSE ListTokens(g.pts, dims, extra, off)
                [] g.kind = "Polygon" ->
                     IF g.parts[1].pts = <<>> THEN none ELSE RingTokens(g, dims, extra, off)
                [] g.kind = "MultiPoint" ->
                     List(LAMBDA p, o : CoordTokens(p.pts[1], dims, extra, o), g.parts)
                [] g.kind = "MultiLineString" ->
                     List(LAMBDA p, o : ListTokens(p.pts, dims, extra, o), g.parts)
                [] g.kind = "MultiPolygon" ->
                     List(LAMBDA p, o : RingTokens(p, dims, extra, o), shelled)
                [] OTHER -> List(LAMBDA p, o : Tokens(p, dims, extra, o), g.parts)
      Headed(b) == [b EXCEPT !.items = <<Keyword(g.kind, dims, dims # XY)>> \o @]
  IN  Headed(body)

(* write_wkt, write_wkt_zm and write_ewkt, the latter with the SRID first. *)
WriteWkt(p, form) ==
  LET srid == IF form = "ewkt" /\ p.srid # 0 THEN <<[t |-> "srid", v |-> p.srid]>> ELSE <<>>
  IN  srid \o Tokens(AsWritten(p.geom), IF form = "wkt" THEN XY ELSE p.dims, p.extra, 0).items

(***************************************************************************)
(* WKT reader.  Members of a list may be EMPTY; a comma may be left out or *)
(* end the list.  A member of a collection without a modifier has the      *)
(* dimensions of the collection; one with other dimensions than the whole  *)
(* is refused when the ordinates are to be kept.                           *)
(***************************************************************************)
At(doc, pos, t) == pos <= Len(doc) /\ doc[pos].t = t

SkipComma(doc, pos) == IF At(doc, pos, "comma") THEN pos + 1 ELSE pos

(* keep says whether the ordinates are wanted; mixed, in the result of a   *)
(* geometry, whether a member had other dimensions than root.              *)
ReadPair(doc, pos, env, extra) ==
  LET k == Extras(env.dims)
  IN  IF /\ At(doc, pos, "pair")
         /\ \A i \in 1 .. k : At(doc, pos + i, "ordinate")
      THEN Read(doc[pos].v, pos + 1 + k,
                IF env.keep THEN extra \o [i \in 1 .. k |-> doc[pos + i].v] ELSE extra)
      ELSE Failed

RECURSIVE ReadList(_, _, _, _)
ReadList(doc, pos, env, extra) ==
  Then(ReadPair(doc, pos, env, extra), LAMBDA c :
    IF ~At(doc, c.pos, "comma") THEN [c EXCEPT !.v = <<@>>]
    ELSE IF At(doc, c.pos + 1, "close") THEN [c EXCEPT !.v = <<@>>, !.pos = @ + 1]
    ELSE Then(ReadList(doc, c.pos + 1, env, c.extra), LAMBDA rest : Prepend(c.v, rest)))

Closed(doc, r) == IF At(doc, r.pos, "close") THEN [r EXCEPT !.pos = @ + 1] ELSE Failed

ReadEnclosed(doc, pos, env, extra) ==
  IF ~At(doc, pos, "open") THEN Failed
  ELSE Then(ReadList(doc, pos + 1, env, extra), LAMBDA l : Closed(doc, [l EXCEPT !.v = Line(@)]))

ReadPoint(doc, pos, env, extra) ==
  Then(ReadPair(doc, pos, env, extra), LAMBDA c : [c EXCEPT !.v = Point(@)])

EmptyMember == [point |-> EmptyPoint, line |-> Line(<<>>), ring |-> Line(<<>>),
                polygon |-> EmptyPolygon, geometry |-> EmptyPoint]

RECURSIVE ReadText(_, _, _, _, _), ReadMembers(_, _, _, _, _, _)

(* One member of a list: a coordinate with or without parentheses, a line, *)
(* a ring (which may say EMPTY in parentheses), a ring list, a geometry.   *)
ReadMember(doc, pos, what, env, extra) ==
  CASE what = "point" ->
         IF At(doc, pos, "open")
         THEN Then(ReadPoint(doc, pos + 1, env, extra), LAMBDA p : Closed(doc, p))
         ELSE ReadPoint(doc, pos, env, extra)
    [] what = "line" -> ReadEnclosed(doc, pos, env, extra)
    [] what = "ring" ->
         IF At(doc, pos, "open") /\ At(doc, pos + 1, "empty") /\ At(doc, pos + 2, "close")
         THEN Read(Line(<<>>), pos + 3, extra)
         ELSE ReadEnclosed(doc, pos, env, extra)
    [] what = "polygon" -> ReadMembers(doc, pos, "ring", env, extra, "Polygon")
    [] OTHER -> ReadText(doc, pos, env, extra, env.depth + 1)

(* A parenthesised list of at least one member; st is what has been read.  *)
RECURSIVE ReadRest(_, _, _, _)
ReadRest(doc, st, what, env) ==
  LET at == IF st.v = <<>> THEN st.pos ELSE SkipComma(doc, st.pos)
      Step(m) == [st EXCEPT !.pos = m.pos, !.v = Append(@, m.v), !.extra = m.extra,
                            !.mixed = @ \/ (what = "geometry" /\ m.mixed)]
      Member == IF At(doc, at, "empty") THEN Read(EmptyMember[what], at + 1, st.extra) @@ [mixed |-> FALSE]
                ELSE ReadMember(doc, at, what, env, st.extra)
  IN  IF At(doc, at, "close") \/ at > Len(doc) THEN [st EXCEPT !.pos = at]
      ELSE Then(Member, LAMBDA m : ReadRest(doc, Step(m), what, env))

ReadMembers(doc, pos, what, env, extra, kind) ==
  IF ~At(doc, pos, "open") THEN Failed
  ELSE Then(ReadRest(doc, Read(<<>>, pos + 1, extra) @@ [mixed |-> FALSE], what, env), LAMBDA end :
         IF end.v = <<>> THEN Failed ELSE Closed(doc, [end EXCEPT !.v = Node(kind, <<>>, @)]))

(* parse_any: env holds the dimensions to inherit, those of the whole, and *)
(* whether ordinates are kept.                                             *)
NoGeometry == [Point |-> EmptyPoint, LineString |-> Line(<<>>), Polygon |-> EmptyPolygon]

MemberOf == [Polygon |-> "ring", MultiPoint |-> "point", MultiLineString |-> "line",
             MultiPolygon |-> "polygon", GeometryCollection |-> "geometry"]

ReadText(doc, pos, env, extra, depth) ==
  LET word == doc[pos]
      dims == IF word.explicit THEN word.dims ELSE env.dims
      root == IF depth = 0 THEN dims ELSE env.root
      inner == [env EXCEPT !.dims = dims, !.root = root, !.depth = depth]
      Body == CASE At(doc, pos + 1, "empty") ->
                     Read(IF word.kind \in DOMAIN NoGeometry THEN NoGeometry[word.kind]
                          ELSE Node(word.kind, <<>>, <<>>), pos + 2, extra)
                [] word.kind = "Point" /\ ~At(doc, pos + 1, "empty") ->
                     IF At(doc, pos + 1, "open") THEN ReadMember(doc, pos + 1, "point", inner, extra)
                     ELSE Failed
                [] word.kind = "LineString" /\ ~At(doc, pos + 1, "empty") ->
                     ReadMember(doc, pos + 1, "line", inner, extra)
                [] OTHER -> ReadMembers(doc, pos + 1, MemberOf[word.kind], inner, extra, word.kind)
  IN  IF depth > MaxNesting \/ ~At(doc, pos, "keyword") THEN Failed
      ELSE Then(Body, LAMBDA r :
             [r @@ [mixed |-> FALSE, dims |-> dims] EXCEPT !.mixed = @ \/ dims # root])

(* read_wkt, read_wkt_zm (which keeps the ordinates) and read_ewkt.        *)
ReadWktAs(doc, keep, srid) ==
  Then(ReadText(doc, 1, [dims |-> XY, root |-> XY, keep |-> keep, depth |-> 0], <<>>, 0), LAMBDA r :
    IF r.pos # Len(doc) + 1 \/ (keep /\ r.mixed) THEN Failed
    ELSE [r EXCEPT !.dims = IF keep THEN @ ELSE XY] @@ [srid |-> srid])

ReadWkt(doc) == ReadWktAs(doc, FALSE, 0)
ReadWktZm(doc) == ReadWktAs(doc, TRUE, 0)
ReadEwkt(doc) ==
  LET tagged == At(doc, 1, "srid")
  IN  ReadWktAs(IF tagged THEN Tail(doc) ELSE doc, TRUE, IF tagged THEN doc[1].v ELSE 0)
=============================================================================
