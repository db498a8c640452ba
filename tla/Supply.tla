--------------------------------- MODULE Supply ---------------------------------
(***************************************************************************)
(* services/surge/main.go, supplyInZone(): for every zone with demand the  *)
(* surge service counts the members of the Sets of the zone's cells, one   *)
(* after the other, while the indexers move drivers between them.  Module  *)
(* Surge takes the result as given; here it is put next to the index.      *)
(*                                                                         *)
(* The count and the queries of Nearby only read: one of them runs at a    *)
(* time.                                                                   *)
(***************************************************************************)
EXTENDS Nearby

CONSTANT Zone  \* the zones with demand, cells of key resolution

ASSUME SupplyAssumption == None \notin Zone

VARIABLES counting,   \* the zone being counted, or None
          kids,       \* those of its cells whose Set was not counted yet
          total,      \* the sum so far
          disturbed   \* history: drivers with a report under way since it began

count == <<counting, kids, total, disturbed>>

\* The sum has been taken over all cells.
Counted == counting # None /\ kids = {}

SupplyTypeOK == /\ NearbyTypeOK
                /\ counting \in Zone \union {None} /\ kids \subseteq Cell
                /\ total \in 0..(Cardinality(Cell) * Cardinality(Driver))
                /\ disturbed \subseteq Driver

SupplyInit == NearbyInit /\ counting = None /\ kids = {} /\ total = 0 /\ disturbed = {}

-------------------------------------------------------------------------------
\* supplyInZone(z) puts its pipeline together.  (The Set of a cell where no
\* driver was is empty: counting it is left out.)
CountZone(z) ==
    /\ counting = None /\ qstage = "idle"
    /\ counting' = z
    /\ kids' = Children(z) \intersect Cell
    /\ disturbed' = {d \in Driver : Pending(d)}
    /\ UNCHANGED <<nvars, total>>

\* Variant: the sum is set where it should be added to.
SCardLast(c) ==
    /\ counting # None /\ c \in kids
    /\ kids' = kids \ {c}
    /\ total' = Cardinality(members[c])
    /\ UNCHANGED <<nvars, counting, disturbed>>

\* SCARD h3:<c>.
SCard(c) ==
    /\ counting # None /\ c \in kids
    /\ kids' = kids \ {c}
    /\ total' = total + Cardinality(members[c])
    /\ UNCHANGED <<nvars, counting, disturbed>>

\* The sum is returned, and the multiplier made from it.
Return ==
    /\ Counted
    /\ counting' = None /\ total' = 0 /\ disturbed' = {}
    /\ UNCHANGED <<nvars, kids>>

SupplyNext ==
    \/ \E z \in Zone : CountZone(z)
    \/ \E c \in Cell : SCard(c)
    \/ Return
    \/ counting = None /\ Query /\ UNCHANGED count
    \/ /\ ~Counted /\ Meanwhile
       /\ disturbed' = IF counting = None THEN {}
                       ELSE disturbed \union {d \in Driver : reports'[d] # reports[d]}
       /\ UNCHANGED <<counting, kids, total>>

SupplySpec == SupplyInit /\ [][SupplyNext]_<<nvars, count>>

-------------------------------------------------------------------------------
InZone(d, z) == geoPos[d] # NoPos /\ cellOf[geoPos[d].at] \in Children(z)

\* The supply of a zone is the number of drivers whose position rolls up to it,
\* each counted once, if no report of a driver was under way meanwhile; one
\* that crosses cells may be counted twice or not at all, but the others are
\* counted whatever it does.
SupplyExact ==
    Counted =>
        LET still == {d \in Driver \ disturbed : InZone(d, counting)}
        IN  /\ total >= Cardinality(still)
            /\ disturbed = {} => total = Cardinality(still)

\* "available drivers": nobody is counted who is offline by now.
\* (It does not hold; see supply_offline.cfg.)
SupplyIsAvailable ==
    Counted => total <= Cardinality({d \in Driver : Fresh(d)})
===============================================================================
