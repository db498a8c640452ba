------------------------------- MODULE MCNearby -------------------------------
(* Instances of Nearby and Supply, with edges of two steps.                  *)
EXTENDS Supply, TLC

CONSTANTS q1, x1, d1, d2

\* A query at the rim of its cell: <<1, 1>> is in that cell, one step away;
\* <<5, 0>> is three steps away, two cells further; <<3, 3>> is nearly four
\* steps away, in the next cell, and its key is that of another zone.
Corner == {<<2, 0>>}
Places == {<<1, 1>>, <<5, 0>>, <<3, 3>>}
Given == {0, 1}
Zones == {<<0, 0>>}

OnePart == [k \in Key |-> q1]
Owner == q1 :> x1
Everywhere == d1 :> Places

\* d1 drives in and out of the zone, while d2 stays in the cell of it that d1
\* comes through, too far away for the query although in a cell of its disk.
OneMoves == d1 :> {<<3, 3>>, <<5, 0>>} @@ d2 :> {<<3, 3>>}
===============================================================================
