------------------------------ MODULE SpatialIndex ------------------------------
(***************************************************************************)
(* services/indexer/main.go, the writing side: indexers of one consumer    *)
(* group read driver positions from the partitioned positions topic and    *)
(* keep four structures in Redis: the Sets h3:<cell> of the drivers in     *)
(* each cell, and the hashes geo:cell, geo:pos and geo:seen.  In front of  *)
(* them the ingest-gateway, which answers a report with 202 as soon as the *)
(* client library has it in a buffer, and may crash before it is sent.     *)
(*                                                                         *)
(* index() reads geo:cell, then sends a pipeline.  A pipeline is not a     *)
(* transaction: its commands are applied one at a time, other clients'     *)
(* in between, and when the connection breaks the rest of it is not.       *)
(* Offsets are committed after a poll's records are processed.             *)
(*                                                                         *)
(* The topic is keyed by the coarse cell of the position (bus.KeyRes), so  *)
(* the reports of a driver are in one partition only as long as it stays   *)
(* among that partition's cells; two places in one index cell may even     *)
(* have different keys.                                                    *)
(***************************************************************************)
EXTENDS Spatial, Sequences, SequencesExt

CONSTANTS Indexer,         \* the processes of group "indexer"
          Driver, Place,   \* drivers, the points they drive to
          None,            \* an absent hash field
          Part, PartOf,    \* partitions, and the one a key's records go to
          OwnerOf,         \* OwnerOf[q]: the indexer partition q is assigned to
          Roam,            \* Roam[d]: the places of driver d
          MaxReports,      \* bound on the reports of one driver
          MaxPoll,         \* bound on the records one poll returns
          MaxCrashes,      \* bound on the crashes of indexers and gateway
          PipeMayBreak,    \* whether Redis commands may fail: an HGET, the rest of a pipeline
          FetchMayFail,    \* whether a poll may report an error
          MaxTime, StaleAfter \* bound on the clock; the 8 s of the stale filter

\* Of a place, its cell and the key of its reports.
cellOf == [p \in Place |-> CellOf(p, "index")]
keyOf == [p \in Place |-> CellOf(p, "key")]
Cell == {cellOf[p] : p \in Place}
Key == {keyOf[p] : p \in Place}

ASSUME IndexAssumption ==
    /\ PartOf \in [Key -> Part] /\ OwnerOf \in [Part -> Indexer]
    /\ Roam \in [Driver -> SUBSET Place] /\ None \notin Cell \union Place \union Part
    /\ MaxReports \in Nat /\ MaxPoll \in Nat \ {0} /\ MaxCrashes \in Nat
    /\ PipeMayBreak \in BOOLEAN /\ FetchMayFail \in BOOLEAN
    /\ MaxTime \in Nat /\ StaleAfter \in Nat

VARIABLES
    log,        \* log[q]: the records the gateway produced to partition q
    sent,       \* sent[q]: how many of them have left its buffer
    reports,    \* reports[d]: how often d reported
    reported,   \* reported[d]: when it did so last
    committed,  \* committed[q]: the group's committed offset
    fetched,    \* fetched[q]: how far q's owner has read
    indexed,    \* indexed[q]: how far it has gone through what it read, records
                \* it did not index or not in full included
    members,    \* members[c]: Redis Set h3:<c>
    geoCell, geoPos, geoSeen,  \* Redis hashes geo:cell, geo:pos, geo:seen
    stage,      \* stage[i]: where indexer i is in its loop
    turn,       \* turn[i]: the partition whose records of the poll it is at
    cmds,       \* cmds[i]: the commands of its pipeline still to be applied
    now, crashes

topic == <<log, sent, reports, reported>>
offsets == <<committed, fetched, indexed>>
worker == <<stage, turn, cmds>>
geo == <<members, geoCell, geoPos, geoSeen>>
vars == <<log, sent, reports, reported, committed, fetched, indexed, members, geoCell,
          geoPos, geoSeen, stage, turn, cmds, now, crashes>>

\* A position report: the driver's n-th, and where it is.
Report == [d : Driver, at : Place, n : 1..MaxReports]
Pos == [at : Place, n : 1..MaxReports]
NoPos == [at |-> None, n |-> 0]
NoTime == -1

\* Commands of index()'s pipeline.
Cmd == [op : {"SREM", "SADD", "CELL"}, d : Driver, c : Cell]
       \union [op : {"POS"}, d : Driver, p : Pos] \union [op : {"SEEN"}, d : Driver, t : 0..MaxTime]

TypeOK == /\ log \in [Part -> Seq(Report)]
          /\ reports \in [Driver -> 0..MaxReports] /\ reported \in [Driver -> 0..MaxTime]
          /\ sent \in [Part -> Nat] /\ committed \in [Part -> Nat]
          /\ fetched \in [Part -> Nat] /\ indexed \in [Part -> Nat]
          /\ \A q \in Part : /\ committed[q] <= indexed[q] /\ indexed[q] <= fetched[q]
                             /\ fetched[q] <= sent[q] /\ sent[q] <= Len(log[q])
          /\ members \in [Cell -> SUBSET Driver]
          /\ geoCell \in [Driver -> Cell \union {None}]
          /\ geoPos \in [Driver -> Pos \union {NoPos}]
          /\ geoSeen \in [Driver -> -1..MaxTime]
          /\ stage \in [Indexer -> {"poll", "read", "send", "commit"}]
          /\ turn \in [Indexer -> Part \union {None}] /\ cmds \in [Indexer -> Seq(Cmd)]
          /\ now \in 0..MaxTime /\ crashes \in 0..MaxCrashes

Init == /\ log = [q \in Part |-> << >>] /\ sent = [q \in Part |-> 0]
        /\ reports = [d \in Driver |-> 0] /\ reported = [d \in Driver |-> 0]
        /\ committed = [q \in Part |-> 0] /\ fetched = [q \in Part |-> 0]
        /\ indexed = [q \in Part |-> 0]
        /\ members = [c \in Cell |-> {}]
        /\ geoCell = [d \in Driver |-> None] /\ geoPos = [d \in Driver |-> NoPos]
        /\ geoSeen = [d \in Driver |-> NoTime]
        /\ stage = [i \in Indexer |-> "poll"]
        /\ turn = [i \in Indexer |-> None] /\ cmds = [i \in Indexer |-> << >>]
        /\ now = 0 /\ crashes = 0


\* The partitions the group has assigned to indexer i.
Owned(i) == {q \in Part : OwnerOf[q] = i}

-------------------------------------------------------------------------------
\* A driver reports where it is; ingest-gateway produces a record to the
\* partition of the key, that is, puts it in the client's buffer.
DriverReports(d, p) ==
    /\ reports[d] < MaxReports /\ p \in Roam[d]
    /\ reports' = [reports EXCEPT ![d] = @ + 1]
    /\ reported' = [reported EXCEPT ![d] = now]
    /\ log' = [log EXCEPT ![PartOf[CellOf(p, "key")]] =
                    Append(@, [d |-> d, at |-> p, n |-> reports[d] + 1])]
    /\ UNCHANGED <<sent, offsets, geo, worker, now, crashes>>

\* What the buffer has for a partition is sent, in order and once.
Flush(q) ==
    /\ sent[q] < Len(log[q])
    /\ sent' = [sent EXCEPT ![q] = Len(log[q])]
    /\ UNCHANGED <<log, reports, reported, offsets, geo, worker, now, crashes>>

\* The gateway crashes, and its buffer is gone.
GatewayCrash ==
    /\ crashes < MaxCrashes
    /\ \E q \in Part : sent[q] < Len(log[q])
    /\ crashes' = crashes + 1
    /\ log' = [q \in Part |-> SubSeq(log[q], 1, sent[q])]
    /\ UNCHANGED <<sent, reports, reported, offsets, geo, worker, now>>

Goto(i, label) == stage' = [stage EXCEPT ![i] = label]

Unread(q) == sent[q] - fetched[q]

\* PollFetches returns: up to MaxPoll unread records of each partition the
\* indexer owns.
Fetches(i) == {take \in [Owned(i) -> 0..MaxPoll] :
                  /\ \A q \in Owned(i) : take[q] <= Unread(q)
                  /\ \E q \in Owned(i) : take[q] > 0}
Advance(take) == fetched' = [q \in Part |-> IF q \in DOMAIN take
                                            THEN fetched[q] + take[q] ELSE fetched[q]]

\* Variant: the offsets are committed before the records are processed.
PollCommitting(i) ==
    /\ stage[i] = "poll"
    /\ \E take \in Fetches(i) : Advance(take)
    /\ committed' = [q \in Part |-> IF q \in Owned(i) THEN fetched'[q] ELSE committed[q]]
    /\ Goto(i, "read")
    /\ UNCHANGED <<topic, indexed, geo, turn, cmds, now, crashes>>

Poll(i) ==
    /\ stage[i] = "poll"
    /\ \E take \in Fetches(i) : Advance(take)
    /\ Goto(i, "read")
    /\ UNCHANGED <<topic, committed, indexed, geo, turn, cmds, now, crashes>>

\* The poll also carries an error: consume() logs it and polls again, and the
\* records that came with it are not indexed.  The client has moved past them:
\* they are gone through, and lost unless a crash has them read again.
PollFailed(i) ==
    /\ FetchMayFail
    /\ stage[i] = "poll"
    /\ \E take \in Fetches(i) : Advance(take)
    /\ indexed' = [q \in Part |-> IF q \in Owned(i) THEN fetched'[q] ELSE indexed[q]]
    /\ UNCHANGED <<topic, committed, geo, worker, now, crashes>>

\* The partitions with records of i's poll that are not indexed yet, and those
\* its next one may be of: EachRecord takes one partition after the other.
Left(i, upTo) == {q \in Owned(i) : upTo[q] < fetched[q]}
Turns(i) == IF turn[i] \in Left(i, indexed) THEN {turn[i]} ELSE Left(i, indexed)

\* What index() writes in any case, position and time, and what if the driver
\* changed cells.
Refresh(rec) == << [op |-> "POS", d |-> rec.d, p |-> [at |-> rec.at, n |-> rec.n]],
                   [op |-> "SEEN", d |-> rec.d, t |-> now] >>
Enter(d, c) == << [op |-> "SADD", d |-> d, c |-> c], [op |-> "CELL", d |-> d, c |-> c] >>
Quit(d, prev) == IF prev = None THEN << >> ELSE << [op |-> "SREM", d |-> d, c |-> prev] >>

\* Variant: the driver is not taken out of the Set of the cell it left.
PipelineNoSRem(rec, prev) ==
    LET c == cellOf[rec.at]
    IN  (IF prev = c THEN << >> ELSE Enter(rec.d, c)) \o Refresh(rec)

\* Variant: nothing is written unless the cell changed.
PipelineOnMove(rec, prev) ==
    LET c == cellOf[rec.at]
    IN  IF prev = c THEN Tail(Refresh(rec))
        ELSE Quit(rec.d, prev) \o Enter(rec.d, c) \o Refresh(rec)

\* The pipeline of index().
Pipeline(rec, prev) ==
    LET c == cellOf[rec.at]
    IN  (IF prev = c THEN << >> ELSE Quit(rec.d, prev) \o Enter(rec.d, c)) \o Refresh(rec)

\* index(), first part: HGET geo:cell, and the pipeline is put together.  A
\* failing HGET looks like a driver that was nowhere before.
ReadCell(i) ==
    /\ stage[i] = "read"
    /\ \E q \in Turns(i) :
          LET rec == log[q][indexed[q] + 1]
          IN  /\ turn' = [turn EXCEPT ![i] = q]
              /\ \E prev \in {geoCell[rec.d]} \union (IF PipeMayBreak THEN {None} ELSE {}) :
                    cmds' = [cmds EXCEPT ![i] = Pipeline(rec, prev)]
    /\ Goto(i, "send")
    /\ UNCHANGED <<topic, offsets, geo, now, crashes>>

\* Variant: the Set of the cell that was left is deleted.
ApplyDel(cmd) ==
    /\ members' = CASE cmd.op = "SREM" -> [members EXCEPT ![cmd.c] = {}]
                    [] cmd.op = "SADD" -> [members EXCEPT ![cmd.c] = @ \union {cmd.d}]
                    [] OTHER -> members
    /\ geoCell' = IF cmd.op = "CELL" THEN [geoCell EXCEPT ![cmd.d] = cmd.c] ELSE geoCell
    /\ geoPos' = IF cmd.op = "POS" THEN [geoPos EXCEPT ![cmd.d] = cmd.p] ELSE geoPos
    /\ geoSeen' = IF cmd.op = "SEEN" THEN [geoSeen EXCEPT ![cmd.d] = cmd.t] ELSE geoSeen

\* Redis applies one command.
Apply(cmd) ==
    /\ members' = CASE cmd.op = "SREM" -> [members EXCEPT ![cmd.c] = @ \ {cmd.d}]
                    [] cmd.op = "SADD" -> [members EXCEPT ![cmd.c] = @ \union {cmd.d}]
                    [] OTHER -> members
    /\ geoCell' = IF cmd.op = "CELL" THEN [geoCell EXCEPT ![cmd.d] = cmd.c] ELSE geoCell
    /\ geoPos' = IF cmd.op = "POS" THEN [geoPos EXCEPT ![cmd.d] = cmd.p] ELSE geoPos
    /\ geoSeen' = IF cmd.op = "SEEN" THEN [geoSeen EXCEPT ![cmd.d] = cmd.t] ELSE geoSeen

\* The next record of the poll, or the commit after the last one.
NextRecord(i) ==
    /\ cmds' = [cmds EXCEPT ![i] = << >>]
    /\ indexed' = [indexed EXCEPT ![turn[i]] = @ + 1]
    /\ Goto(i, IF Left(i, indexed') # {} THEN "read" ELSE "commit")
    /\ UNCHANGED <<committed, fetched, turn>>

\* index(), second part: the pipeline is executed, command by command.
Send(i) ==
    /\ stage[i] = "send"
    /\ Apply(Head(cmds[i]))
    /\ IF Len(cmds[i]) = 1 THEN NextRecord(i)
       ELSE cmds' = [cmds EXCEPT ![i] = Tail(@)] /\ UNCHANGED <<offsets, stage, turn>>
    /\ UNCHANGED <<topic, now, crashes>>

\* The connection breaks: what was not sent is dropped with the error, and
\* consume() goes on as if the record had been indexed.
PipelineBreaks(i) ==
    /\ PipeMayBreak
    /\ stage[i] = "send"
    /\ NextRecord(i)
    /\ UNCHANGED <<topic, geo, now, crashes>>

\* Offsets with those of i's partitions replaced.
Replace(i, old, new) == [q \in Part |-> IF q \in Owned(i) THEN new[q] ELSE old[q]]

\* Variant: the offset committed is that of the record after the next.
CommitBeyond(i) ==
    /\ stage[i] = "commit"
    /\ committed' = [q \in Part |-> IF q \in Owned(i) THEN fetched[q] + 1 ELSE committed[q]]
    /\ Goto(i, "poll")
    /\ turn' = [turn EXCEPT ![i] = None]
    /\ UNCHANGED <<topic, fetched, indexed, geo, cmds, now, crashes>>

\* Variant: after a failed commit the records are read again.
CommitRewinds(i) ==
    /\ stage[i] = "commit"
    /\ \/ /\ committed' = Replace(i, committed, fetched)
          /\ UNCHANGED <<fetched, indexed>>
       \/ /\ fetched' = Replace(i, fetched, committed)
          /\ indexed' = Replace(i, indexed, committed)
          /\ UNCHANGED committed
    /\ Goto(i, "poll")
    /\ turn' = [turn EXCEPT ![i] = None]
    /\ UNCHANGED <<topic, geo, cmds, now, crashes>>

\* CommitUncommittedOffsets, for everything fetched so far; a failure is logged.
Commit(i) ==
    /\ stage[i] = "commit"
    /\ \/ committed' = Replace(i, committed, fetched)
       \/ UNCHANGED committed
    /\ Goto(i, "poll")
    /\ turn' = [turn EXCEPT ![i] = None]
    /\ UNCHANGED <<topic, fetched, indexed, geo, cmds, now, crashes>>

Work(i) == \/ Poll(i) \/ PollFailed(i) \/ ReadCell(i)
           \/ Send(i) \/ PipelineBreaks(i) \/ Commit(i)

\* An indexer dies and comes back: it reads on from the committed offsets.
Crash(i) ==
    /\ crashes < MaxCrashes
    /\ crashes' = crashes + 1
    /\ Goto(i, "poll")
    /\ turn' = [turn EXCEPT ![i] = None]
    /\ cmds' = [cmds EXCEPT ![i] = << >>]
    /\ fetched' = Replace(i, fetched, committed)
    /\ indexed' = Replace(i, indexed, committed)
    /\ UNCHANGED <<topic, committed, geo, now>>

Tick == /\ now < MaxTime
        /\ now' = now + 1
        /\ UNCHANGED <<topic, offsets, geo, worker, crashes>>

Next == \/ \E d \in Driver, p \in Place : DriverReports(d, p)
        \/ \E q \in Part : Flush(q)
        \/ GatewayCrash
        \/ \E i \in Indexer : Work(i) \/ Crash(i)
        \/ Tick

Spec == Init /\ [][Next]_vars

\* Indexers keep polling, every Redis command returns, the client library sends.
Fairness == (\A i \in Indexer : WF_vars(Work(i))) /\ (\A q \in Part : WF_vars(Flush(q)))

-------------------------------------------------------------------------------
\* The gateway's buffer is empty, and every record has been fetched and gone
\* through, whether it was indexed or given up on.
CaughtUp == /\ \A i \in Indexer : stage[i] \in {"poll", "commit"}
            /\ \A q \in Part : fetched[q] = Len(log[q])

\* A driver is in the Set of the cell geo:cell names, and in no other.
Exact(d) == \A c \in Cell : d \in members[c] <=> geoCell[d] = c

\* "processing twice must equal processing once": whatever was redelivered
\* after crashes and lost commits, the Sets and geo:cell agree once the
\* indexers have caught up.
IndexExact == CaughtUp => \A d \in Driver : Exact(d)

\* The number of the last report of d that is in the topic.
Newest(d) == Max({0} \union {r.n : r \in {x \in UNION {ToSet(log[q]) : q \in Part} : x.d = d}})

\* A report that made it into geo:pos made it into the Sets: what an earlier
\* report left half done is repaired by the next one.
\* (It does not hold; see index_pipeline.cfg.)
NextReportRepairs ==
    CaughtUp => \A d \in Driver : geoPos[d].n = Newest(d) => Exact(d)

\* "refresh the latest position": once the indexers have caught up, geo:pos and
\* geo:cell are those of the last report of the driver that came through, also
\* if the gateway lost others in a crash.
LatestPosition ==
    CaughtUp => \A d \in Driver : Newest(d) > 0 =>
        geoPos[d].n = Newest(d) /\ geoCell[d] = cellOf[geoPos[d].at]

\* A report that was answered with 202 is indexed, or a later one.
\* (It does not hold; see index_lost.cfg.)
AcceptedIsIndexed == CaughtUp => \A d \in Driver : geoPos[d].n = reports[d]

\* While nothing crashes a driver's position never goes back in time, not even
\* when polls fail and pipelines are cut short.
PositionsMoveForward ==
    [][crashes = 0 => \A d \in Driver : geoPos'[d].n >= geoPos[d].n]_vars
===============================================================================
