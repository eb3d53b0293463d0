---------------------------- MODULE MCConversion ----------------------------
(* Payloads for the runs of Conversion. *)
EXTENDS Conversion

Square == <<1, 2, 3, 1>>
MultiOf(kind, parts) == Node(kind, <<>>, parts)

RECURSIVE Wrapped(_, _)
Wrapped(g, n) == IF n = 0 THEN g ELSE Collection(<<Wrapped(g, n - 1)>>)

Simple == {Point(1), EmptyPoint, Point(Inf), Line(<<>>), Line(<<1, 2, 2, 3>>), Line(<<4, Inf>>),
           Polygon(<<Square>>), Polygon(<<Square, <<5, 6, 7, 5>>>>), EmptyPolygon,
           Polygon(<<Square, <<>>>>), Polygon(<<<<1, 2>>>>),
           Node("Line", <<1, 2>>, <<>>), Node("Rect", <<1, 2, 3, 4>>, <<>>),
           Node("Triangle", <<1, 2, 3>>, <<>>)}

Multi == {MultiOf("MultiPoint", <<Point(1), EmptyPoint, Point(1)>>),
          MultiOf("MultiPoint", <<EmptyPoint, Point(2)>>),
          MultiOf("MultiPoint", <<Point(2), Point(3)>>),
          MultiOf("MultiPoint", <<>>),
          MultiOf("MultiLineString", <<Line(<<1, 2, 3>>), Line(<<4, 4>>)>>),
          MultiOf("MultiLineString", <<Line(<<>>), Line(<<4, 5>>)>>),
          MultiOf("MultiPolygon", <<Polygon(<<Square>>), EmptyPolygon>>),
          MultiOf("MultiPolygon", <<Polygon(<<Square, <<5, 6, 7, 5>>>>), Polygon(<<Square>>)>>)}

Nested == {Wrapped(g, n) : g \in {Empty, Point(1), MultiOf("MultiPoint", <<Point(2), Point(3)>>)},
                           n \in 1 .. 5}
     \cup {Collection(<<Wrapped(Point(1), 3), Line(<<1, 2, 3>>), Wrapped(Polygon(<<Square>>), 2), Empty>>),
           Collection(<<Polygon(<<Square>>), Wrapped(Collection(<<Point(1), Polygon(<<Square>>)>>), 1),
                        Point(2)>>),
           Wrapped(Collection(<<MultiOf("MultiLineString", <<Line(<<1, 2>>), Line(<<3, 3>>)>>), Empty>>), 2)}

(* As many ordinates as the coordinates that are not empty points.         *)
Filled(g, dims, srid) ==
  Payload(g, dims,
          [k \in 1 .. (Extras(dims) * Len(SelectSeq(CoordsOf(AsWritten(g)), LAMBDA c : c # NaN))) |-> 20 + k],
          srid)

Mixed == {Filled(g, dims, 7) : g \in Simple \cup Multi, dims \in AllDims}
    \cup {Filled(g, XY, 0) : g \in Simple \cup Multi \cup Nested}
    \cup {Filled(g, [z |-> TRUE, m |-> TRUE], 7) : g \in Nested}

Empties == {Filled(g, [z |-> TRUE, m |-> FALSE], 0) : g \in Simple \cup Multi}
=============================================================================
