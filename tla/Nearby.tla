--------------------------------- MODULE Nearby ---------------------------------
(***************************************************************************)
(* services/indexer/main.go, the reading side: GET /nearby, which the      *)
(* matcher asks for candidates, next to the indexers that keep writing.    *)
(* A query reads the Sets of the cells around the point one by one, then   *)
(* the positions of everybody found, then when they were last seen; the    *)
(* index changes between these reads.  One query runs at a time here:      *)
(* queries write nothing, so they do not disturb each other.               *)
(*                                                                         *)
(* The reads succeed here.  The code drops their errors: a cell whose      *)
(* SMEMBERS failed counts as empty, and so do all if HMGET geo:pos did;    *)
(* after a failed HMGET geo:seen the handler panics when it looks for the  *)
(* first time, and the client gets no answer.                              *)
(***************************************************************************)
EXTENDS SpatialIndex

CONSTANTS Asked,    \* the points queries ask about
          Radii,    \* the radii they give
          Usual     \* the radius of a query that gives none, 1000 m

ASSUME NearbyAssumption == Radii \subseteq Int /\ Usual \in Nat \ {0}

VARIABLES qstage,   \* where the query is
          point,    \* the point it asks about
          radius,   \* its radius
          unread,   \* cells of the disk whose Set it has not read yet
          ids,      \* idset: the drivers found in the Sets read so far
          qpos,     \* vals: their positions, as read
          reply,    \* the drivers in the answer
          touched,  \* history: drivers with a report under way since it began
          stayed    \* history: drivers the index had in range ever since then

query == <<qstage, point, radius, unread, ids, qpos, reply>>
nvars == <<vars, query, touched, stayed>>

NoReads == [d \in Driver |-> NoPos]

NearbyTypeOK == /\ TypeOK
                /\ qstage \in {"idle", "cells", "pos", "seen", "answered"}
                /\ point \in Asked /\ radius \in Nat
                /\ unread \in SUBSET Cell /\ ids \in SUBSET Driver
                /\ qpos \in [Driver -> Pos \union {NoPos}]
                /\ reply \in SUBSET Driver
                /\ touched \in SUBSET Driver /\ stayed \in SUBSET Driver

NearbyInit == /\ Init
              /\ qstage = "idle" /\ unread = {} /\ ids = {} /\ qpos = NoReads
              /\ point \in Asked /\ radius = Usual
              /\ reply = {} /\ touched = {} /\ stayed = {}

\* A driver passes the stale filter: geo:seen is recent, or not there.
Fresh(d) == geoSeen[d] = NoTime \/ now - geoSeen[d] <= StaleAfter
InRange(pos) == pos # NoPos /\ Within(point, pos.at, radius)
IndexedInRange == {d \in Driver : InRange(geoPos[d]) /\ Fresh(d)}

\* A report of the driver may still be indexed, for the first time or again.
Pending(d) == \E q \in Part : \E k \in (committed[q] + 1)..Len(log[q]) : log[q][k].d = d

-------------------------------------------------------------------------------
\* A query arrives; broad phase: the cells that cover the radius.  (The Set of
\* a cell where no driver was is empty: reading it is left out.)
StartQuery(p, r) ==
    /\ qstage = "idle"
    /\ UNCHANGED <<vars, ids, qpos, reply>>
    /\ point' = p
    /\ radius' = IF r <= 0 THEN Usual ELSE r
    /\ unread' = DiskCells(p, radius') \intersect Cell
    /\ qstage' = IF unread' # {} THEN "cells" ELSE "pos"
    /\ touched' = {d \in Driver : Pending(d)}
    /\ stayed' = IndexedInRange'

\* Variant: each Set replaces what was found before it.
ReadMembersLast(c) ==
    /\ qstage = "cells" /\ c \in unread
    /\ unread' = unread \ {c}
    /\ ids' = members[c]
    /\ qstage' = IF unread' # {} THEN "cells" ELSE "pos"
    /\ UNCHANGED <<vars, point, radius, qpos, reply, touched, stayed>>

\* SMEMBERS h3:<c>, one command of a pipeline that is not a transaction.
ReadMembers(c) ==
    /\ qstage = "cells" /\ c \in unread
    /\ unread' = unread \ {c}
    /\ ids' = ids \union members[c]
    /\ qstage' = IF unread' # {} THEN "cells" ELSE "pos"
    /\ UNCHANGED <<vars, point, radius, qpos, reply, touched, stayed>>

\* HMGET geo:pos.
ReadPositions ==
    /\ qstage = "pos"
    /\ qpos' = [d \in Driver |-> IF d \in ids THEN geoPos[d] ELSE NoPos]
    /\ qstage' = "seen"
    /\ UNCHANGED <<vars, point, radius, unread, ids, reply, touched, stayed>>

\* HMGET geo:seen, the stale filter, and the exact distance filter.
ReadSeenAndAnswer ==
    /\ qstage = "seen"
    /\ reply' = {d \in ids : InRange(qpos[d]) /\ Fresh(d)}
    /\ qstage' = "answered"
    /\ UNCHANGED <<vars, point, radius, unread, ids, qpos, touched, stayed>>

\* The answer is sent and forgotten.
EndQuery ==
    /\ qstage = "answered"
    /\ qstage' = "idle" /\ radius' = Usual /\ ids' = {} /\ qpos' = NoReads
    /\ reply' = {} /\ touched' = {} /\ stayed' = {}
    /\ UNCHANGED <<vars, point, unread>>

\* The index, the topic or the clock moves on under the query.  (Once it is
\* answered nothing happens to it: the answer is judged at that moment.)
Meanwhile ==
    /\ qstage # "answered"
    /\ Next
    /\ UNCHANGED query
    /\ touched' = IF qstage = "idle" THEN {}
                  ELSE touched \union {d \in Driver : reports'[d] # reports[d]}
    /\ stayed' = stayed \intersect IndexedInRange'

Query == \/ \E p \in Asked, r \in Radii : StartQuery(p, r)
         \/ \E c \in Cell : ReadMembers(c)
         \/ ReadPositions \/ ReadSeenAndAnswer \/ EndQuery

NearbyNext == Query \/ Meanwhile
NearbySpec == NearbyInit /\ [][NearbyNext]_nvars

-------------------------------------------------------------------------------
\* For a driver no report of which was under way during the query the answer is
\* exact, however often indexers crashed and polls were redelivered before: it
\* is there if its distance is within the radius and it is fresh, whichever
\* cell of the disk it is in, and not there if it is farther away.
SettledDriversExact ==
    qstage = "answered" =>
        \A d \in Driver \ touched :
            /\ d \in IndexedInRange => d \in reply
            /\ d \in reply => InRange(geoPos[d])

\* "Find everyone within 2km": a driver the index had in range from the first
\* read of the query to the last is in the answer.
\* (It does not hold; see nearby_moving.cfg.)
EveryoneInRangeFound == qstage = "answered" => stayed \subseteq reply

\* "driver not updated within 8s is considered offline".
\* (It does not hold; see supply_offline.cfg.)
OfflineFiltered ==
    qstage = "answered" => \A d \in reply : now - reported[d] <= StaleAfter
===============================================================================
