---------------------------- MODULE MCSpatialIndex ----------------------------
(* Instances of SpatialIndex, with the history of IndexLosses: two places    *)
(* with one key, in two cells, and one in a third cell and with another key. *)
EXTENDS IndexLosses, TLC

CONSTANTS q1, q2, x1, x2, d1, d2

p1 == <<1, 1>>
p2 == <<2, 2>>
p3 == <<4, 4>>
Places == {p1, p2, p3}
TwoParts == [k \in Key |-> IF k = <<0, 0>> THEN q1 ELSE q2]

\* Both partitions with one indexer, or one each.
OneIndexer == q1 :> x1 @@ q2 :> x1
TwoIndexers == q1 :> x1 @@ q2 :> x2

\* A driver crosses from one partition to the other, or does not.
Cross == d1 :> {p2, p3}
InTown == d1 :> {p1, p2}

\* The geometry of module Spatial, on all points and cells around the origin.
ASSUME EveryDiskCovers == DiskCovers((-5..5) \X (-5..5), 1..6)
ASSUME EveryCellInOneZone == ZonesPartition((-4..4) \X (-4..4), (-6..6) \X (-6..6))
===============================================================================
