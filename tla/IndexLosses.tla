------------------------------- MODULE IndexLosses -------------------------------
(***************************************************************************)
(* SpatialIndex with a history variable: which records the indexers gave   *)
(* up on.  consume() goes past a record it did not index, or not in full,  *)
(* in two ways: the poll it came with also carried an error, or the        *)
(* connection broke while its pipeline was sent.                           *)
(***************************************************************************)
EXTENDS SpatialIndex

VARIABLE lost  \* <<q, o>>: the o-th record of partition q was given up on when last read

LossInit == Init /\ lost = {}

\* The records a step goes past.
Gone == UNION {{q} \X ((indexed[q] + 1)..indexed'[q]) : q \in Part}

Lossy(i) == PollFailed(i) \/ PipelineBreaks(i)
Lossless(i) == Poll(i) \/ ReadCell(i) \/ Send(i) \/ Commit(i) \/ Crash(i)

LossNext ==
    \/ \E i \in Indexer : Lossy(i) /\ lost' = lost \union Gone
    \/ \E i \in Indexer : Lossless(i) /\ lost' = lost \ Gone
    \/ (\E d \in Driver, p \in Place : DriverReports(d, p)) /\ UNCHANGED lost
    \/ (\E q \in Part : Flush(q)) /\ UNCHANGED lost
    \/ (GatewayCrash \/ Tick) /\ UNCHANGED lost

LossSpec == LossInit /\ [][LossNext]_<<vars, lost>> /\ Fairness

-------------------------------------------------------------------------------
\* The last report of d that reached the topic and was not given up on.
Survivor(d) ==
    Max({0} \union {log[q][o].n : <<q, o>> \in {x \in UNION {{q} \X DOMAIN log[q] : q \in Part} :
                                       x \notin lost /\ log[x[1]][x[2]].d = d}})

\* At-least-once, as far as it goes: of a driver that stays in one partition
\* the last report that reached the topic is in geo:pos in the end, or a later
\* one, whatever was read again after crashes and failing commits.  Only the
\* records of a failing poll, and the record whose pipeline was cut short, may
\* be missing: none is taken along, and no later one is held up.
OnlyGivenUpAreLost == []<>(CaughtUp /\ \A d \in Driver : geoPos[d].n >= Survivor(d))
===============================================================================
