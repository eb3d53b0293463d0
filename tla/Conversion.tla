------------------------------ MODULE Conversion ------------------------------
(***************************************************************************)
(* A geometry on its way through files: written in one of the encodings,   *)
(* perhaps enclosed by another program or cut short on the way, read by    *)
(* one of the readers, repaired, written again (io/mod.rs load, save and   *)
(* repair_file).                                                           *)
(***************************************************************************)
EXTENDS GeometryCodec, CollectionRepair

CONSTANTS Payloads,     \* what a program may hold at first
          MaxWrites     \* bound on the writes of a behaviour

ASSUME LimitsAssumption == /\ MaxCollection \in Nat
                           /\ MaxNesting \in Nat
                           /\ MaxCollection + 2 <= MaxNesting
                           /\ MaxWrites \in Nat

VARIABLES stage,     \* held, written, refused
          held,      \* the payload in the program
          doc,       \* the document
          form,      \* how it was written
          reader,    \* who read it, "none" before that
          sent,      \* the payload the document stands for
          whole,     \* the document has not been cut short
          origin,    \* the geometry a repair started from, when held is one
          writes

vars == <<stage, held, doc, form, reader, sent, whole, origin, writes>>

Binary == {"xy", "ewkb", "iso"}
Text == {"wkt", "zm", "ewkt"}

None == Node("none", <<>>, <<>>)

Init == /\ stage = "held"
        /\ held \in Payloads
        /\ doc = <<>> /\ form = "none" /\ reader = "none"
        /\ sent = held
        /\ whole = TRUE
        /\ origin = None
        /\ writes = 0

(* A binary writer picks a byte order; without srid or ordinates in the    *)
(* encoding they are lost knowingly.                                       *)
Write(f, le) ==
  /\ stage = "held"
  /\ writes < MaxWrites
  /\ stage' = "written"
  /\ form' = f
  /\ doc' = IF f \in Binary THEN WriteWkb(held, f, le) ELSE WriteWkt(held, f)
  /\ sent' = held
  /\ whole' = TRUE
  /\ reader' = "none"
  /\ writes' = writes + 1
  /\ UNCHANGED <<held, origin>>

(* Another program makes the document a member of a collection of its own, *)
(* in the other byte order.                                                *)
Enclose ==
  /\ stage = "written" /\ form \in Binary /\ whole /\ sent = held
  /\ LET other == ~doc[1].v
         dims == IF form = "xy" THEN XY ELSE held.dims
         Own(w, v) == [w |-> w, v |-> v, le |-> other]
     IN  doc' = <<Own(1, other), Own(4, TypeCode("GeometryCollection", dims, 0, form)), Own(4, 1)>> \o doc
  /\ sent' = [sent EXCEPT !.geom = Collection(<<@>>), !.srid = 0]
  /\ UNCHANGED <<stage, held, form, reader, whole, origin, writes>>

(* The tail of the document is lost.                                       *)
Cut ==
  /\ stage = "written" /\ whole
  /\ \E n \in 0 .. (Len(doc) - 1) : doc' = SubSeq(doc, 1, n)
  /\ whole' = FALSE
  /\ UNCHANGED <<stage, held, form, reader, sent, origin, writes>>

Result(r) == CASE r = "read_wkb" -> ReadWkb(doc)
               [] r = "read_ewkb" -> ReadEwkb(doc)
               [] r = "read_wkt" -> ReadWkt(doc)
               [] r = "read_wkt_zm" -> ReadWktZm(doc)
               [] OTHER -> ReadEwkt(doc)

ReadAs(r) ==
  /\ stage = "written"
  /\ r \in (IF form \in Binary THEN {"read_wkb", "read_ewkb"}
            ELSE {"read_wkt", "read_wkt_zm", "read_ewkt"})
  /\ reader' = r
  /\ \E got \in {Result(r)} :
         IF got.ok
         THEN /\ stage' = "held"
              /\ held' = Payload(got.v, got.dims, got.extra, got.srid)
         ELSE /\ stage' = "refused"
              /\ UNCHANGED held
  /\ UNCHANGED <<doc, form, sent, whole, origin, writes>>

(* make_valid takes a geometry without the ordinates beyond x and y.       *)
Repair ==
  /\ stage = "held" /\ origin = None /\ writes < MaxWrites
  /\ \E g \in Repairs(held.geom) : held' = Payload(g, XY, <<>>, 0)
  /\ origin' = held.geom
  /\ reader' = "none"
  /\ UNCHANGED <<stage, doc, form, sent, whole, writes>>

Next == \/ \E f \in Binary, le \in BOOLEAN : Write(f, le)
        \/ \E f \in Text : Write(f, TRUE)
        \/ Enclose \/ Cut \/ Repair
        \/ \E r \in {"read_wkb", "read_ewkb", "read_wkt", "read_wkt_zm", "read_ewkt"} : ReadAs(r)

Spec == Init /\ [][Next]_vars

(***************************************************************************)
(* What conversion promises.                                               *)
(***************************************************************************)
Collections == Multis \cup {"GeometryCollection"}

(* What the encodings can carry: as many ordinates as coordinates need,    *)
(* nesting within the limit; in WKB no ring that a text could not hold; in *)
(* WKT no empty part, ring or shell; empty points without ordinates.       *)
Sound(p, f) ==
  LET g == AsWritten(p.geom)
      nodes == Nodes(g)
      has(kind) == {n \in nodes : n.kind = kind}
      Bare(n) == n.pts = <<>>
  IN  /\ Len(p.extra) = Extras(p.dims) * Len(CoordsOf(g))
      /\ p.dims # XY => NaN \notin Range(CoordsOf(g))
      /\ Height(g, IF f \in Binary THEN Collections ELSE {"GeometryCollection"}) <= MaxNesting
      /\ f \in Binary => \A n \in has("Polygon") : \A r \in Range(n.parts) : Len(r.pts) \notin {1, 2}
      /\ f \in Text =>
           /\ \A n \in has("MultiLineString") : \A r \in Range(n.parts) : ~Bare(r)
           /\ \A n \in has("Polygon") : n = EmptyPolygon \/ \A r \in Range(n.parts) : ~Bare(r)
           /\ \A n \in has("MultiPolygon") : EmptyPolygon \notin Range(n.parts)

(* A prefix with an SRID is for read_ewkt only.                            *)
Foreign == form = "ewkt" /\ sent.srid # 0 /\ reader # "read_ewkt"

Expected ==
  LET full == form \in {"ewkb", "iso", "zm", "ewkt"} /\ reader \notin {"read_wkb", "read_wkt"}
      tagged == <<form, reader>> \in {<<"ewkb", "read_ewkb">>, <<"ewkt", "read_ewkt">>}
  IN  Payload(AsWritten(sent.geom), IF full THEN sent.dims ELSE XY, IF full THEN sent.extra ELSE <<>>,
              IF tagged THEN sent.srid ELSE 0)

(* Every reader gives back what any writer wrote, the ordinates at their   *)
(* coordinates, whatever the byte orders of the nested parts; and no       *)
(* document cut short is taken for a geometry.                             *)
ReadBack ==
  /\ stage = "held" /\ reader # "none" => whole
  /\ reader # "none" /\ whole /\ Sound(sent, form) /\ ~Foreign =>
       stage = "held" /\ held = Expected

(* "WKB size mismatch" (debug_assert in write_wkb_with_opts): the length   *)
(* estimated before writing is the length written.                         *)
SizeExact ==
  stage = "written" /\ form \in Binary /\ whole /\ sent = held =>
    ByteLength(doc) = SizeOf(held.geom, IF form = "xy" THEN XY ELSE held.dims,
                             form = "ewkb" /\ held.srid # 0)

(* A repaired collection is nested no deeper than the validator allows,    *)
(* holds no empty collection, and has the repaired leaves in their order   *)
(* (push_repaired_member); and every encoding it is written in can be read *)
(* again.                                                                  *)
RepairedCollections ==
  origin # None =>
    /\ stage = "held" /\ reader = "none" =>
         /\ NestingValid(held.geom, 0)
         /\ \A n \in Nodes(held.geom) \ {held.geom} : n # Empty
         /\ Leaves(held.geom) \in LeafAnswers(origin)
    /\ stage = "refused" /\ sent = held => ~whole

(* "EWKB geometry that keeps SRID and Z/M dimension data": no ordinate is  *)
(* lost on a trip through EWKB.                                            *)
OrdinatesKept ==
  LET Real(s) == SelectSeq(s, LAMBDA z : z # NaN)
  IN  stage = "held" /\ reader = "read_ewkb" /\ form = "ewkb" /\ whole =>
        Real(held.extra) = Real(sent.extra)
=============================================================================
