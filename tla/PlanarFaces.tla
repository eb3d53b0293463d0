----------------------------- MODULE PlanarFaces -----------------------------
(***************************************************************************)
(* Rings, faces and areas on the integer grid: the planar graph of noded   *)
(* linework, its faces in the order GEOS walks them, and the two           *)
(* assemblers that make polygons of faces, BuildArea and polygonize.       *)
(*                                                                         *)
(* A vertex is a pair, a cell is named by its lower left vertex, linework  *)
(* is the set of its unit edges in both directions (half-edges).  Lattice  *)
(* points inside a straight edge change no face, so noded linework may be  *)
(* cut at all of them.  A ring is the closed sequence of its corners with  *)
(* the closing one left out, its sides parallel to the axes.  Regions are  *)
(* sets of cells.                                                          *)
(***************************************************************************)
EXTENDS Integers, FiniteSets, SequencesExt

Sign(n) == IF n > 0 THEN 1 ELSE IF n < 0 THEN -1 ELSE 0

After(ring, i) == ring[(i % Len(ring)) + 1]

(* The positions of a sequence that satisfy a test, in order.              *)
Positions(seq, Test(_)) == SelectSeq([k \in DOMAIN seq |-> k], Test)

(* The unit half-edges of a ring, both ways.                               *)
Steps(u, v) ==
  LET d == <<Sign(v[1] - u[1]), Sign(v[2] - u[2])>>
      n == (v[1] - u[1]) * d[1] + (v[2] - u[2]) * d[2]
      P(k) == <<u[1] + k * d[1], u[2] + k * d[2]>>
  IN  UNION {{<<P(k), P(k + 1)>>, <<P(k + 1), P(k)>>} : k \in 0 .. (n - 1)}

EdgesOf(ring) == UNION {Steps(ring[i], After(ring, i)) : i \in DOMAIN ring}

Vertices(edges) == {e[1] : e \in edges}

(* The cells with an odd number of the edges on their right: what a ring   *)
(* of those edges encloses.                                                *)
Upright(edges) == {e[1] : e \in {e \in edges : e[1][1] = e[2][1] /\ e[1][2] < e[2][2]}}

Span(ns) == IF ns = {} THEN {} ELSE Min(ns) .. Max(ns)

Cells(edges) ==
  LET OddIn(up) == {c \in Span({v[1] : v \in up}) \X {v[2] : v \in up} :
                      Cardinality({v \in up : v[2] = c[2] /\ v[1] > c[1]}) % 2 = 1}
  IN  OddIn(Upright(edges))

Inside(ring) == Cells(EdgesOf(ring))

(* Strictly inside: not on the ring, and one of the cells around is in it. *)
VertexInside(v, edges) == v \notin Vertices(edges) /\ v \in Cells(edges)

VertexIn(v, edges) == v \in Vertices(edges) \/ v \in Cells(edges)

(***************************************************************************)
(* The planar graph.  Half-edges leave a vertex in the order of their      *)
(* angle.                                                                  *)
(***************************************************************************)
Angle(u, v) == CASE v[2] < u[2] -> 1 [] v[1] > u[1] -> 2 [] v[2] > u[2] -> 3 [] OTHER -> 4

(* The half-edges of the set "among" that leave v, met first when turning  *)
(* from the neighbour u counter-clockwise, u itself last, or clockwise,    *)
(* u itself first.                                                         *)
TurnCcw(among, v, u) ==
  LET Gap(e) == ((Angle(v, e[2]) - Angle(v, u) - 1) % 4)
      out == {e \in among : e[1] = v}
  IN  CHOOSE e \in out : \A f \in out : Gap(e) <= Gap(f)

TurnCw(among, v, u) ==
  LET Gap(e) == ((Angle(v, u) - Angle(v, e[2])) % 4)
      out == {e \in among : e[1] = v}
  IN  CHOOSE e \in out : \A f \in out : Gap(e) <= Gap(f)

(* The cycle of half-edges from e along next.                              *)
Cycle(next, e) ==
  LET Walk[s \in Seq(DOMAIN next)] ==
        LET n == next[Last(s)] IN IF n = s[1] THEN s ELSE Walk[Append(s, n)]
  IN  Walk[<<e>>]

Cycles(next) ==
  LET Take[left \in SUBSET DOMAIN next] ==
        IF left = {} THEN {}
        ELSE LET c == Cycle(next, CHOOSE e \in left : TRUE)
             IN  {c} \cup Take[left \ Range(c)]
  IN  Take[DOMAIN next]

(* extract_all_faces_geos: the maximal rings of the counter-clockwise turn *)
(* fall apart into minimal ones at the vertices they pass more than once,  *)
(* by turning clockwise among the half-edges of the same ring.  An edge    *)
(* with one ring on both sides becomes a ring of two, which is dropped.    *)
Faces(edges) ==
  LET Maximal == {Range(c) : c \in Cycles([e \in edges |-> TurnCcw(edges, e[2], e[1])])}
      Label(maximal) == [e \in edges |-> CHOOSE m \in maximal : e \in m]
      Minimal(label) == Cycles([e \in edges |-> TurnCw(label[e], e[2], e[1])])
  IN  {c \in Minimal(Label(Maximal)) : Len(c) >= 3}

(* Twice the signed area; GEOS walks shells clockwise.                     *)
SignedArea(face) ==
  FoldSet(LAMBDA k, sum : sum + face[k][1][1] * face[k][2][2] - face[k][2][1] * face[k][1][2],
          0, DOMAIN face)

IsShell(face) == SignedArea(face) < 0

Both(face) == UNION {{e, <<e[2], e[1]>>} : e \in Range(face)}

FaceCells(face) == Cells(Both(face))

Fingerprint(face) == {e[1] : e \in Range(face)}

EnvelopeArea(vertices) ==
  LET xs == {v[1] : v \in vertices}
      ys == {v[2] : v \in vertices}
  IN  (Max(xs) - Min(xs)) * (Max(ys) - Min(ys))

(* ring_probe: the cell on the right of the first edge.                    *)
Probe(face) ==
  LET u == face[1][1]
      v == face[1][2]
  IN  CASE Angle(u, v) = 1 -> <<u[1] - 1, v[2]>>
        [] Angle(u, v) = 2 -> <<u[1], u[2] - 1>>
        [] Angle(u, v) = 3 -> u
        [] OTHER -> v

(***************************************************************************)
(* BuildArea: a hole belongs to the smallest shell around its probe; a     *)
(* shell whose ring is a hole of another counts that one, and its own      *)
(* ancestors, as ancestors, and goes when they are odd in number.  The     *)
(* boundary is what edges lie on one kept polygon only.                    *)
(***************************************************************************)
Smallest(shells) == CHOOSE s \in shells :
  \A t \in shells : EnvelopeArea(Fingerprint(s)) <= EnvelopeArea(Fingerprint(t))

(* Mutant: the largest shell around the probe takes the hole.              *)
HolesOfLargest(faces) ==
  LET shells == {f \in faces : IsShell(f)}
      Around(h) == {s \in shells : Probe(h) \in FaceCells(s)}
      Largest(s, among) == \A t \in among : EnvelopeArea(Fingerprint(s))
                                               >= EnvelopeArea(Fingerprint(t))
  IN  [s \in shells |-> {h \in faces \ shells : s \in Around(h) /\ Largest(s, Around(h))}]

HolesOf(faces) ==
  LET shells == {f \in faces : IsShell(f)}
      Around(h) == {s \in shells : Probe(h) \in FaceCells(s)}
  IN  [s \in shells |-> {h \in faces \ shells : Around(h) # {} /\ s = Smallest(Around(h))}]

Ancestors(holes) ==
  LET Owner(s) == {t \in DOMAIN holes : \E h \in holes[t] : Fingerprint(h) = Fingerprint(s)}
      Count[s \in DOMAIN holes] ==
        IF Owner(s) = {} THEN 0 ELSE 1 + Count[CHOOSE t \in Owner(s) : TRUE]
  IN  Count

EvenShells(holes) ==
  LET Even(ancestors) == {s \in DOMAIN holes : ancestors[s] % 2 = 0}
  IN  {[shell |-> s, holes |-> holes[s]] : s \in Even(Ancestors(holes))}

KeptFaces(edges) == EvenShells(HolesOf(Faces(edges)))

PolygonCells(p) == FaceCells(p.shell) \ UNION {FaceCells(h) : h \in p.holes}

PolygonEdges(p) == Both(p.shell) \cup UNION {Both(h) : h \in p.holes}

(* Mutant: the edges between kept faces go, the boundary stays.            *)
BoundaryInner(kept) ==
  {e \in UNION {PolygonEdges(p) : p \in kept} :
     Cardinality({p \in kept : e \in PolygonEdges(p)}) > 1}

Boundary(kept) ==
  {e \in UNION {PolygonEdges(p) : p \in kept} :
     Cardinality({p \in kept : e \in PolygonEdges(p)}) = 1}

AreaOf(kept) == UNION {PolygonCells(p) : p \in kept}

(* The closed linework around a region, and the ring a face is.            *)
Sides(c) ==
  LET p == <<c[1], c[2]>>
      q == <<c[1] + 1, c[2]>>
      r == <<c[1] + 1, c[2] + 1>>
      s == <<c[1], c[2] + 1>>
  IN  [right |-> {<<q, r>>, <<r, q>>}, left |-> {<<p, s>>, <<s, p>>},
       up |-> {<<r, s>>, <<s, r>>}, down |-> {<<p, q>>, <<q, p>>}]

Beside(c) == [right |-> <<c[1] + 1, c[2]>>, left |-> <<c[1] - 1, c[2]>>,
              up |-> <<c[1], c[2] + 1>>, down |-> <<c[1], c[2] - 1>>]

Outline(cells) ==
  UNION {UNION {Sides(c)[d] : d \in {d \in DOMAIN Beside(c) : Beside(c)[d] \notin cells}} :
           c \in cells}

RingOf(face) ==
  LET Heads(k) == Angle(face[k][1], face[k][2])
      at == Positions(face, LAMBDA k : Heads(k) # Heads(IF k = 1 THEN Len(face) ELSE k - 1))
  IN  [k \in DOMAIN at |-> face[at[k]][1]]

PolygonsOf(kept) == {[shell |-> RingOf(p.shell), holes |-> {RingOf(h) : h \in p.holes}] : p \in kept}

Region(p) == Inside(p.shell) \ UNION {Inside(h) : h \in p.holes}
=============================================================================
