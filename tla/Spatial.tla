-------------------------------- MODULE Spatial --------------------------------
(***************************************************************************)
(* internal/spatial/spatial.go, on a plane: what the H3 library computes   *)
(* on the globe is computed here on regular hexagons, where distances are  *)
(* exact.  A point <<a, b>> is a step a in one direction and b in another, *)
(* at 60 degrees; all lengths are in such steps.                           *)
(*                                                                         *)
(* The cells of a resolution are the hexagons around the points of a       *)
(* coarser lattice, each nearest to its own centre.  Cell <<i, j>> has its *)
(* centre at i times the one and j times the other of two Axes.  A cell of *)
(* "key" resolution (res 7, bus.KeyRes and surge's zones) is made of seven *)
(* of "index" resolution (H3_RES) -- of 49 in the program, by two such     *)
(* steps -- and as in H3 the seven cover it only roughly: a point near its *)
(* rim may lie in a cell of a neighbour.                                   *)
(***************************************************************************)
EXTENDS Integers, FiniteSets, FiniteSetsExt

CONSTANT Edge  \* HexagonEdgeLengthAvgM(H3_RES), the length of a cell's edge

ASSUME SpatialAssumption == Edge \in Nat \ {0}

Resolution == {"index", "key"}

\* The squared length of a step, and DistM(p, q) <= r.
Norm(a, b) == a * a + a * b + b * b
Within(p, q, r) == Norm(p[1] - q[1], p[2] - q[2]) <= r * r

\* The centre of a cell; edges meet a centre's neighbours half way, so centres
\* are Edge times the square root of 3 apart.
Axes(res) == CASE res = "index" -> << <<Edge, Edge>>, <<-Edge, 2 * Edge>> >>
               [] res = "key" -> << <<Edge, 4 * Edge>>, <<-4 * Edge, 5 * Edge>> >>
Centre(c, res) == LET x == Axes(res)
                  IN  <<c[1] * x[1][1] + c[2] * x[2][1], c[1] * x[1][2] + c[2] * x[2][2]>>

\* CellOf(p, res): p lies among four centres, and in the cell of the nearest.
CellOf(p, res) ==
    LET x == Axes(res)
        det == x[1][1] * x[2][2] - x[1][2] * x[2][1]
        i == (p[1] * x[2][2] - p[2] * x[2][1]) \div det
        j == (p[2] * x[1][1] - p[1] * x[1][2]) \div det
        far(c) == LET m == Centre(c, res) IN Norm(p[1] - m[1], p[2] - m[2])
        four == {<<i + a, j + b>> : a, b \in 0..1}
    IN  CHOOSE c \in four : \A d \in four : far(c) <= far(d)

\* h3.GridDisk: the cells at most k cells away from c.
GridDisk(c, k) ==
    {<<c[1] + s[1], c[2] + s[2]>> : s \in {h \in (-k..k) \X (-k..k) : h[1] + h[2] \in -k..k}}

\* Variant: the radius is divided and rounded down.
RingsDown(radius) == Max({1, radius \div Edge})

\* The number of rings that cover the radius: as many edges, rounded up.
Rings(radius) == Max({1, (radius + Edge - 1) \div Edge})

DiskCells(p, radius) == GridDisk(CellOf(p, "index"), Rings(radius))

\* Children(zone): the cells that make up a cell of "key" resolution.
Children(zone) == GridDisk(<<2 * zone[1] - zone[2], zone[1] + 3 * zone[2]>>, 1)

-------------------------------------------------------------------------------
\* What GET /nearby relies on: whoever is within the radius of p is in one of
\* the disk's cells, wherever in its cell p is and on whichever side of an edge.
DiskCovers(Point, Radius) ==
    \A p, q \in Point, r \in Radius : Within(p, q, r) => CellOf(q, "index") \in DiskCells(p, r)

\* What surge relies on: a cell of index resolution is in one zone exactly.
ZonesPartition(Cells, Zones) ==
    \A c \in Cells : Cardinality({z \in Zones : c \in Children(z)}) = 1
===============================================================================
