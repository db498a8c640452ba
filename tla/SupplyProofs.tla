------------------------------ MODULE SupplyProofs ------------------------------
(***************************************************************************)
(* Theorems about SpatialIndex, and about Nearby and Supply, whose queries *)
(* and counts read an index that keeps moving; for any indexers,           *)
(* partitions, drivers and places and any number of reports and crashes.   *)
(*                                                                         *)
(* The first two parts are about the index: its types and the order of     *)
(* positions, and whom its Sets hold in every state, not only once it has  *)
(* caught up.  What queries find and what surge counts rests on the latter.*)
(* Of the geometry the first two use only that a place has a cell and a    *)
(* key.                                                                    *)
(***************************************************************************)
EXTENDS Supply, SequenceTheorems, WellFoundedInduction, FiniteSetTheorems, TLAPS

\* The record indexer i is at, and what its pipeline consists of at most.
Record(i) == log[turn[i]][indexed[turn[i]] + 1]
PosOf(rec) == [at |-> rec.at, n |-> rec.n]
Whole(rec, prev, t) == << [op |-> "SREM", d |-> rec.d, c |-> prev],
                          [op |-> "SADD", d |-> rec.d, c |-> cellOf[rec.at]],
                          [op |-> "CELL", d |-> rec.d, c |-> cellOf[rec.at]],
                          [op |-> "POS", d |-> rec.d, p |-> PosOf(rec)],
                          [op |-> "SEEN", d |-> rec.d, t |-> t] >>
IsRest(s, rec, prev, t) ==
    /\ Len(s) \in 1..5 /\ (Len(s) = 5 => prev # None)
    /\ \A j \in 1..Len(s) : s[j] = Whole(rec, prev, t)[5 - Len(s) + j]

\* Where an indexer is in its loop tells how far it is in its partitions.
Working(i) ==
    /\ stage[i] \in {"poll", "commit"} => \A q \in Owned(i) : indexed[q] = fetched[q]
    /\ stage[i] = "read" => Left(i, indexed) # {}
    /\ stage[i] = "send" =>
          /\ turn[i] \in Left(i, indexed)
          /\ \E prev \in Cell \union {None}, t \in 0..MaxTime :
                IsRest(cmds[i], Record(i), prev, t)

\* The records of a driver are where their key says, and numbered as reported.
Numbered ==
    \A q \in Part : \A k \in 1..Len(log[q]) :
        LET rec == log[q][k]
        IN  /\ rec.at \in Roam[rec.d] /\ PartOf[keyOf[rec.at]] = q
            /\ rec.n <= reports[rec.d]
            /\ \A l \in 1..Len(log[q]) : k < l /\ log[q][l].d = rec.d => rec.n < log[q][l].n

LoopInv == TypeOK /\ (\A i \in Indexer : Working(i)) /\ Numbered

(* The types in parts.                                                       *)

TopicTypes == /\ log \in [Part -> Seq(Report)]
              /\ reports \in [Driver -> 0..MaxReports] /\ reported \in [Driver -> 0..MaxTime]
              /\ now \in 0..MaxTime /\ crashes \in 0..MaxCrashes
OffsetTypes == /\ sent \in [Part -> Nat] /\ committed \in [Part -> Nat]
               /\ fetched \in [Part -> Nat] /\ indexed \in [Part -> Nat]
Ordered == \A q \in Part : /\ committed[q] <= indexed[q] /\ indexed[q] <= fetched[q]
                           /\ fetched[q] <= sent[q] /\ sent[q] <= Len(log[q])
GeoTypes == /\ members \in [Cell -> SUBSET Driver]
            /\ geoCell \in [Driver -> Cell \union {None}]
            /\ geoPos \in [Driver -> Pos \union {NoPos}]
            /\ geoSeen \in [Driver -> -1..MaxTime]
WorkerTypes == /\ stage \in [Indexer -> {"poll", "read", "send", "commit"}]
               /\ turn \in [Indexer -> Part \union {None}] /\ cmds \in [Indexer -> Seq(Cmd)]

\* The types are those of the parts.
LEMMA TypeParts ==
    TypeOK <=> TopicTypes /\ OffsetTypes /\ Ordered /\ GeoTypes /\ WorkerTypes
  BY Zenon DEF TypeOK, TopicTypes, OffsetTypes, Ordered, GeoTypes, WorkerTypes

\* The parts of the next state.
LEMMA TypePartsNext ==
    TopicTypes' /\ OffsetTypes' /\ Ordered' /\ GeoTypes' /\ WorkerTypes' => TypeOK'
  BY TypeParts, PTL

Limits == /\ MaxReports \in Nat /\ MaxPoll \in Nat \ {0} /\ MaxCrashes \in Nat
          /\ MaxTime \in Nat

\* The bounds are numbers.
LEMMA LimitsHold == Limits
  BY IndexAssumption DEF Limits

\* A place has a cell, and its key a partition, which somebody owns.
LEMMA PlacesHave ==
    ASSUME NEW p \in Place
    PROVE  /\ cellOf[p] \in Cell /\ cellOf[p] # None
           /\ keyOf[p] = CellOf(p, "key") /\ PartOf[keyOf[p]] \in Part
  <1>1. cellOf[p] \in Cell /\ keyOf[p] \in Key
    BY DEF Cell, Key
  <1>2. keyOf[p] = CellOf(p, "key")
    BY DEF keyOf
  <1> QED BY <1>1, <1>2, IndexAssumption

\* Nothing stands for no cell.
LEMMA NoneIsNone == None \notin Cell /\ None \notin Part /\ None \notin Place
  BY IndexAssumption

\* What the parts of a pipeline are together.
LEMMA PartsTogether ==
    ASSUME NEW S, NEW a \in S, NEW b \in S, NEW e \in S, NEW f \in S
    PROVE  /\ << a, b >> \o << e, f >> = << a, b, e, f >>
           /\ \A g \in S : (<< g >> \o << a, b >>) \o << e, f >> = << g, a, b, e, f >>
  <1>1. << a, b >> \o << e, f >> = << a, b, e, f >>
    <2> DEFINE s == << a, b >> \o << e, f >>
               t == << a, b, e, f >>
    <2>1. << a, b >> \in Seq(S) /\ << e, f >> \in Seq(S) /\ Len(<< a, b >>) = 2 /\ Len(<< e, f >>) = 2
      OBVIOUS
    <2>2. s \in Seq(S) /\ Len(s) = 4
      BY <2>1, ConcatProperties
    <2>3. s[1] = a /\ s[2] = b /\ s[3] = e /\ s[4] = f
      BY <2>1
    <2>4. t \in Seq(S) /\ Len(t) = 4 /\ t[1] = a /\ t[2] = b /\ t[3] = e /\ t[4] = f
      OBVIOUS
    <2> HIDE DEF s, t
    <2>5. \A j \in 1..Len(s) : s[j] = t[j]
      BY <2>2, <2>3, <2>4
    <2>6. s = t
      BY <2>2, <2>4, <2>5, SeqEqual
    <2> QED BY <2>6 DEF s, t
  <1>2. ASSUME NEW g \in S PROVE (<< g >> \o << a, b >>) \o << e, f >> = << g, a, b, e, f >>
    <2>1. << g >> \in Seq(S) /\ << a, b >> \in Seq(S) /\ << e, f >> \in Seq(S)
      OBVIOUS
    <2>2. (<< g >> \o << a, b >>) \o << e, f >> = << g >> \o (<< a, b >> \o << e, f >>)
      BY <2>1, ConcatAssociative
    <2> DEFINE h == << g >>
               r == << a, b, e, f >>
               s == h \o r
               t == << g, a, b, e, f >>
    <2>3. r \in Seq(S) /\ Len(r) = 4 /\ r[1] = a /\ r[2] = b /\ r[3] = e /\ r[4] = f
      OBVIOUS
    <2>4. h \in Seq(S) /\ Len(h) = 1 /\ h[1] = g
      OBVIOUS
    <2> HIDE DEF h, r
    <2>5. s \in Seq(S) /\ Len(s) = 5
      <3>1. Len(h \o r) = Len(h) + Len(r) /\ h \o r \in Seq(S)
        BY <2>3, <2>4, ConcatProperties, Zenon
      <3> QED BY <2>3, <2>4, <3>1
    <2>6. s[1] = g /\ s[2] = a /\ s[3] = b /\ s[4] = e /\ s[5] = f
      <3>1. \A j \in 1..(Len(h) + Len(r)) : s[j] = IF j <= Len(h) THEN h[j] ELSE r[j - Len(h)]
        BY <2>3, <2>4, ConcatProperties, Zenon
      <3> HIDE DEF s
      <3> QED BY <2>3, <2>4, <3>1
    <2>7. t \in Seq(S) /\ Len(t) = 5 /\ t[1] = g /\ t[2] = a /\ t[3] = b /\ t[4] = e /\ t[5] = f
      OBVIOUS
    <2> HIDE DEF s, t
    <2>8. \A j \in 1..Len(s) : s[j] = t[j]
      BY <2>5, <2>6, <2>7
    <2>9. s = t
      BY <2>5, <2>7, <2>8, SeqEqual
    <2> QED BY <1>1, <2>2, <2>9 DEF s, t, r, h
  <1> QED BY <1>1, <1>2

\* The pipeline index() puts together is the whole or the last two or four of it.
LEMMA PipelineIsRest ==
    ASSUME NEW rec \in Report, NEW prev \in Cell \union {None}, now \in 0..MaxTime
    PROVE  /\ Pipeline(rec, prev) \in Seq(Cmd)
           /\ IsRest(Pipeline(rec, prev), rec, prev, now)
           /\ Len(Pipeline(rec, prev)) = IF prev = cellOf[rec.at] THEN 2
                                         ELSE IF prev = None THEN 4 ELSE 5
  <1> DEFINE c == cellOf[rec.at]
             w == Whole(rec, prev, now)
  <1>1. rec.d \in Driver /\ rec.at \in Place /\ PosOf(rec) \in Pos /\ c \in Cell /\ c # None
    BY PlacesHave DEF Report, Pos, PosOf
  <1>2. w[2] \in Cmd /\ w[3] \in Cmd /\ w[4] \in Cmd /\ w[5] \in Cmd /\ (prev # None => w[1] \in Cmd)
    BY <1>1 DEF Whole, Cmd
  <1>3. Refresh(rec) = << w[4], w[5] >> /\ Enter(rec.d, c) = << w[2], w[3] >>
        /\ (prev # None => Quit(rec.d, prev) = << w[1] >>) /\ (prev = None => Quit(rec.d, prev) = << >>)
    BY DEF Refresh, Enter, Quit, Whole, PosOf
  <1> HIDE DEF w, c
  <1>4. CASE prev = c
    <2>1. Pipeline(rec, prev) = << >> \o << w[4], w[5] >>
      BY <1>3, <1>4 DEF Pipeline, c
    <2>2. Pipeline(rec, prev) = << w[4], w[5] >>
      BY <2>1
    <2>3. \A j \in 1..2 : << w[4], w[5] >>[j] = w[5 - 2 + j]
      OBVIOUS
    <2>4. << w[4], w[5] >> \in Seq(Cmd) /\ Len(<< w[4], w[5] >>) = 2
      BY <1>2
    <2> QED BY <1>4, <2>2, <2>3, <2>4 DEF IsRest, w, c
  <1>5. CASE prev # c /\ prev = None
    <2>1. Pipeline(rec, prev) = (<< >> \o << w[2], w[3] >>) \o << w[4], w[5] >>
      BY <1>3, <1>5 DEF Pipeline, c
    <2>2. Pipeline(rec, prev) = << w[2], w[3], w[4], w[5] >>
      <3>1. << >> \o << w[2], w[3] >> = << w[2], w[3] >>
        OBVIOUS
      <3> QED BY <1>2, <2>1, <3>1, PartsTogether
    <2>3. \A j \in 1..4 : << w[2], w[3], w[4], w[5] >>[j] = w[5 - 4 + j]
      OBVIOUS
    <2>4. << w[2], w[3], w[4], w[5] >> \in Seq(Cmd) /\ Len(<< w[2], w[3], w[4], w[5] >>) = 4
      BY <1>2
    <2> QED BY <1>5, <2>2, <2>3, <2>4 DEF IsRest, w, c
  <1>6. CASE prev # c /\ prev # None
    <2>1. Pipeline(rec, prev) = (<< w[1] >> \o << w[2], w[3] >>) \o << w[4], w[5] >>
      BY <1>3, <1>6 DEF Pipeline, c
    <2>2. Pipeline(rec, prev) = << w[1], w[2], w[3], w[4], w[5] >>
      BY <1>2, <1>6, <2>1, PartsTogether
    <2>3. \A j \in 1..5 : << w[1], w[2], w[3], w[4], w[5] >>[j] = w[5 - 5 + j]
      OBVIOUS
    <2>4. << w[1], w[2], w[3], w[4], w[5] >> \in Seq(Cmd) /\ Len(<< w[1], w[2], w[3], w[4], w[5] >>) = 5
      BY <1>2, <1>6
    <2> QED BY <1>6, <2>2, <2>3, <2>4 DEF IsRest, w, c
  <1> QED BY <1>4, <1>5, <1>6

\* What is left after one command.
LEMMA TailIsRest ==
    ASSUME NEW s \in Seq(Cmd), NEW rec, NEW prev, NEW t, IsRest(s, rec, prev, t), Len(s) # 1
    PROVE  Tail(s) \in Seq(Cmd) /\ Len(Tail(s)) = Len(s) - 1 /\ IsRest(Tail(s), rec, prev, t)
  <1>1. Len(s) \in 2..5 /\ \A j \in 1..Len(s) : s[j] = Whole(rec, prev, t)[5 - Len(s) + j]
    BY DEF IsRest
  <1>2. s # << >> /\ Tail(s) \in Seq(Cmd) /\ Len(Tail(s)) = Len(s) - 1
        /\ \A j \in 1..(Len(s) - 1) : Tail(s)[j] = s[j + 1]
    BY <1>1
  <1>3. \A j \in 1..(Len(s) - 1) : j + 1 \in 1..Len(s) /\ 5 - Len(s) + (j + 1) = 5 - (Len(s) - 1) + j
    BY <1>1
  <1>4. \A j \in 1..(Len(s) - 1) : Tail(s)[j] = Whole(rec, prev, t)[5 - (Len(s) - 1) + j]
    BY <1>1, <1>2, <1>3
  <1> QED BY <1>1, <1>2, <1>4 DEF IsRest

\* The command that comes next.
LEMMA NextCommand ==
    ASSUME NEW s \in Seq(Cmd), NEW rec, NEW prev, NEW t, IsRest(s, rec, prev, t)
    PROVE  /\ s # << >> /\ Head(s) \in Cmd /\ Len(s) \in 1..5 /\ (Len(s) = 5 => prev # None)
           /\ Len(s) = 5 => Head(s) = [op |-> "SREM", d |-> rec.d, c |-> prev]
           /\ Len(s) = 4 => Head(s) = [op |-> "SADD", d |-> rec.d, c |-> cellOf[rec.at]]
           /\ Len(s) = 3 => Head(s) = [op |-> "CELL", d |-> rec.d, c |-> cellOf[rec.at]]
           /\ Len(s) = 2 => Head(s) = [op |-> "POS", d |-> rec.d, p |-> PosOf(rec)]
           /\ Len(s) = 1 => Head(s) = [op |-> "SEEN", d |-> rec.d, t |-> t]
  <1>1. Len(s) \in 1..5 /\ (Len(s) = 5 => prev # None)
        /\ \A j \in 1..Len(s) : s[j] = Whole(rec, prev, t)[5 - Len(s) + j]
    BY DEF IsRest
  <1>2. s # << >> /\ Head(s) = s[1] /\ 1 \in 1..Len(s) /\ Head(s) \in Cmd
    BY <1>1
  <1>3. Head(s) = Whole(rec, prev, t)[6 - Len(s)]
    BY <1>1, <1>2
  <1>4. /\ Whole(rec, prev, t)[1] = [op |-> "SREM", d |-> rec.d, c |-> prev]
        /\ Whole(rec, prev, t)[2] = [op |-> "SADD", d |-> rec.d, c |-> cellOf[rec.at]]
        /\ Whole(rec, prev, t)[3] = [op |-> "CELL", d |-> rec.d, c |-> cellOf[rec.at]]
        /\ Whole(rec, prev, t)[4] = [op |-> "POS", d |-> rec.d, p |-> PosOf(rec)]
        /\ Whole(rec, prev, t)[5] = [op |-> "SEEN", d |-> rec.d, t |-> t]
    BY DEF Whole
  <1>5. /\ Len(s) = 5 => Head(s) = Whole(rec, prev, t)[1]
        /\ Len(s) = 4 => Head(s) = Whole(rec, prev, t)[2]
        /\ Len(s) = 3 => Head(s) = Whole(rec, prev, t)[3]
        /\ Len(s) = 2 => Head(s) = Whole(rec, prev, t)[4]
        /\ Len(s) = 1 => Head(s) = Whole(rec, prev, t)[5]
    <2>1. \A k \in 1..5 : Len(s) = k => 6 - Len(s) = 6 - k
      OBVIOUS
    <2>2. 6 - 5 = 1 /\ 6 - 4 = 2 /\ 6 - 3 = 3 /\ 6 - 2 = 4 /\ 6 - 1 = 5
      OBVIOUS
    <2> QED BY <1>3, <2>1, <2>2
  <1>6. Len(s) = 5 => Head(s) = [op |-> "SREM", d |-> rec.d, c |-> prev]
    BY <1>4, <1>5, Zenon
  <1>7. Len(s) = 4 => Head(s) = [op |-> "SADD", d |-> rec.d, c |-> cellOf[rec.at]]
    BY <1>4, <1>5, Zenon
  <1>8. Len(s) = 3 => Head(s) = [op |-> "CELL", d |-> rec.d, c |-> cellOf[rec.at]]
    BY <1>4, <1>5, Zenon
  <1>9. Len(s) = 2 => Head(s) = [op |-> "POS", d |-> rec.d, p |-> PosOf(rec)]
    BY <1>4, <1>5, Zenon
  <1>10. Len(s) = 1 => Head(s) = [op |-> "SEEN", d |-> rec.d, t |-> t]
    BY <1>4, <1>5, Zenon
  <1> QED BY <1>1, <1>2, <1>6, <1>7, <1>8, <1>9, <1>10, Zenon

\* The record an indexer is at has been sent.
LEMMA AtRecord ==
    ASSUME LoopInv, NEW i \in Indexer, NEW q \in Left(i, indexed)
    PROVE  /\ q \in Part /\ OwnerOf[q] = i /\ indexed[q] \in Nat /\ fetched[q] \in Nat
           /\ sent[q] \in Nat /\ indexed[q] + 1 \in 1..sent[q] /\ indexed[q] + 1 \in 1..Len(log[q])
           /\ indexed[q] + 1 <= fetched[q]
           /\ log[q][indexed[q] + 1] \in Report
  <1>1. q \in Part /\ OwnerOf[q] = i /\ indexed[q] < fetched[q]
    BY DEF Left, Owned
  <1>2. /\ indexed[q] \in Nat /\ fetched[q] \in Nat /\ sent[q] \in Nat
        /\ log[q] \in Seq(Report) /\ fetched[q] <= sent[q] /\ sent[q] <= Len(log[q])
    BY <1>1, TypeParts DEF LoopInv, OffsetTypes, Ordered, TopicTypes
  <1>3. Len(log[q]) \in Nat
    BY <1>2
  <1>4. indexed[q] + 1 \in 1..sent[q] /\ indexed[q] + 1 \in 1..Len(log[q])
    BY <1>1, <1>2, <1>3
  <1> QED BY <1>1, <1>2, <1>4

(* The gateway's steps only add to the topic.                                *)

Grows == \A q \in Part : /\ sent[q] <= sent'[q] /\ sent'[q] <= Len(log'[q])
                         /\ \A k \in 1..sent[q] : log'[q][k] = log[q][k]

\* A report joins a log, numbered.
LEMMA ReportsGrow ==
    ASSUME LoopInv, NEW d \in Driver, NEW p \in Place, DriverReports(d, p)
    PROVE  TopicTypes' /\ OffsetTypes' /\ Grows /\ Numbered'
  <1> DEFINE h == PartOf[CellOf(p, "key")]
             new == [d |-> d, at |-> p, n |-> reports[d] + 1]
  <1>1. /\ reports[d] < MaxReports /\ p \in Roam[d]
        /\ reports' = [reports EXCEPT ![d] = reports[d] + 1]
        /\ reported' = [reported EXCEPT ![d] = now]
        /\ log' = [log EXCEPT ![h] = Append(log[h], new)]
        /\ UNCHANGED <<sent, offsets, now, crashes>>
    BY DEF DriverReports
  <1>2. TopicTypes /\ OffsetTypes /\ Ordered /\ Numbered
    BY TypeParts DEF LoopInv
  <1>3. reports[d] \in 0..MaxReports /\ reports[d] + 1 \in 1..MaxReports
    BY <1>1, <1>2, LimitsHold DEF TopicTypes, Limits
  <1>4. h \in Part /\ h = PartOf[keyOf[p]] /\ new \in Report /\ log[h] \in Seq(Report)
    BY <1>2, <1>3, PlacesHave DEF Report, TopicTypes
  <1>5. /\ Append(log[h], new) \in Seq(Report) /\ Len(Append(log[h], new)) = Len(log[h]) + 1
        /\ Append(log[h], new)[Len(log[h]) + 1] = new /\ Len(log[h]) \in Nat
        /\ \A k \in 1..Len(log[h]) : Append(log[h], new)[k] = log[h][k]
    BY <1>4
  <1>6. TopicTypes'
    <2>1. reports' \in [Driver -> 0..MaxReports] /\ reported' \in [Driver -> 0..MaxTime]
      <3>1. reports[d] + 1 \in 0..MaxReports
        BY <1>3, LimitsHold DEF Limits
      <3> QED BY <1>1, <1>2, <3>1 DEF TopicTypes
    <2>2. log' \in [Part -> Seq(Report)]
      BY <1>1, <1>2, <1>5 DEF TopicTypes
    <2> QED BY <1>1, <1>2, <2>1, <2>2 DEF TopicTypes
  <1>7. OffsetTypes'
    BY <1>1, <1>2 DEF OffsetTypes, offsets
  <1>8. \A q \in Part \ {h} : log'[q] = log[q]
    BY <1>1, <1>2 DEF TopicTypes
  <1>9. log'[h] = Append(log[h], new)
    BY <1>1, <1>2, <1>4 DEF TopicTypes
  <1> HIDE DEF h, new
  <1>10. Grows
    <2> SUFFICES ASSUME NEW q \in Part
                 PROVE  /\ sent[q] <= sent'[q] /\ sent'[q] <= Len(log'[q])
                        /\ \A k \in 1..sent[q] : log'[q][k] = log[q][k]
      BY DEF Grows
    <2>1. sent'[q] = sent[q] /\ sent[q] \in Nat /\ sent[q] <= Len(log[q])
      BY <1>1, <1>2 DEF OffsetTypes, Ordered
    <2>2. CASE q = h
      BY <1>5, <1>9, <2>1, <2>2
    <2>3. CASE q # h
      BY <1>8, <2>1, <2>3
    <2> QED BY <2>2, <2>3
  <1>11. \A e \in Driver : reports[e] <= reports'[e] /\ reports[e] \in Nat /\ reports'[e] \in Nat
    BY <1>1, <1>2, LimitsHold DEF TopicTypes, Limits
  <1>12. Numbered'
    <2> SUFFICES ASSUME NEW q \in Part, NEW k \in 1..Len(log'[q])
                 PROVE  /\ log'[q][k].at \in Roam[log'[q][k].d] /\ PartOf[keyOf[log'[q][k].at]] = q
                        /\ log'[q][k].n <= reports'[log'[q][k].d]
                        /\ \A l \in 1..Len(log'[q]) : k < l /\ log'[q][l].d = log'[q][k].d
                                                        => log'[q][k].n < log'[q][l].n
      BY DEF Numbered
    <2>1. ASSUME NEW m \in 1..Len(log[q])
          PROVE  /\ log[q][m].at \in Roam[log[q][m].d] /\ PartOf[keyOf[log[q][m].at]] = q
                 /\ log[q][m].n <= reports[log[q][m].d] /\ log[q][m].d \in Driver /\ log[q][m].n \in Nat
                 /\ log[q][m].n <= reports'[log[q][m].d]
                 /\ \A l \in 1..Len(log[q]) : m < l /\ log[q][l].d = log[q][m].d => log[q][m].n < log[q][l].n
      <3>1. /\ log[q][m].at \in Roam[log[q][m].d] /\ PartOf[keyOf[log[q][m].at]] = q
            /\ log[q][m].n <= reports[log[q][m].d]
            /\ \A l \in 1..Len(log[q]) : m < l /\ log[q][l].d = log[q][m].d => log[q][m].n < log[q][l].n
        BY <1>2 DEF Numbered
      <3>2. log[q][m] \in Report
        BY <1>2 DEF TopicTypes
      <3>3. log[q][m].d \in Driver /\ log[q][m].n \in Nat
        BY <3>2, LimitsHold DEF Report, Limits
      <3> QED BY <1>11, <3>1, <3>3
    <2>2. CASE q # h
      BY <1>8, <2>1, <2>2
    <2>3. CASE q = h /\ k # Len(log[h]) + 1
      <3>1. k \in 1..Len(log[h]) /\ log'[q][k] = log[q][k]
        BY <1>5, <1>9, <2>3
      <3>2. ASSUME NEW l \in 1..Len(log'[q]), k < l, log'[q][l].d = log'[q][k].d
            PROVE  log'[q][k].n < log'[q][l].n
        <4>1. CASE l = Len(log[h]) + 1
          <5>1. log'[q][l].d = d /\ log'[q][l].n = reports[d] + 1
            BY <1>5, <1>9, <2>3, <4>1 DEF new
          <5>2. log[q][k].n <= reports[d] /\ log[q][k].n \in Nat
            BY <2>1, <2>3, <3>1, <3>2, <5>1
          <5> QED BY <1>3, <3>1, <5>1, <5>2
        <4>2. CASE l # Len(log[h]) + 1
          <5>1. l \in 1..Len(log[h]) /\ log'[q][l] = log[q][l]
            BY <1>5, <1>9, <2>3, <4>2
          <5> QED BY <2>1, <2>3, <3>1, <3>2, <5>1
        <4> QED BY <4>1, <4>2
      <3> QED BY <2>1, <2>3, <3>1, <3>2
    <2>4. CASE q = h /\ k = Len(log[h]) + 1
      <3>1. log'[q][k] = new /\ \A l \in 1..Len(log'[q]) : ~(k < l)
        BY <1>5, <1>9, <2>4
      <3>2. reports'[d] = reports[d] + 1
        BY <1>1, <1>2 DEF TopicTypes
      <3>3. new.n <= reports'[new.d] /\ new.d = d /\ new.at = p
        BY <1>3, <3>2 DEF new
      <3> QED BY <1>1, <1>4, <2>4, <3>1, <3>3
    <2> QED BY <2>2, <2>3, <2>4
  <1> QED BY <1>6, <1>7, <1>10, <1>12

\* The buffer is sent.
LEMMA FlushGrows ==
    ASSUME LoopInv, NEW r \in Part, Flush(r)
    PROVE  TopicTypes' /\ OffsetTypes' /\ Grows /\ Numbered'
  <1>1. /\ sent' = [sent EXCEPT ![r] = Len(log[r])]
        /\ UNCHANGED <<log, reports, reported, offsets, now, crashes>>
    BY DEF Flush
  <1>2. TopicTypes /\ OffsetTypes /\ Ordered /\ Numbered
    BY TypeParts DEF LoopInv
  <1>3. \A q \in Part : Len(log[q]) \in Nat
    BY <1>2 DEF TopicTypes
  <1>4. TopicTypes' /\ Numbered'
    BY <1>1, <1>2 DEF TopicTypes, Numbered
  <1>5. OffsetTypes'
    BY <1>1, <1>2, <1>3 DEF OffsetTypes, offsets
  <1>6. Grows
    BY <1>1, <1>2, <1>3 DEF OffsetTypes, Ordered, Grows
  <1> QED BY <1>4, <1>5, <1>6

\* The buffer is lost.
LEMMA CrashCuts ==
    ASSUME LoopInv, GatewayCrash
    PROVE  TopicTypes' /\ OffsetTypes' /\ Grows /\ Numbered'
  <1>1. /\ crashes < MaxCrashes /\ crashes' = crashes + 1
        /\ log' = [q \in Part |-> SubSeq(log[q], 1, sent[q])]
        /\ UNCHANGED <<sent, reports, reported, offsets, now>>
    BY DEF GatewayCrash
  <1>2. TopicTypes /\ OffsetTypes /\ Ordered /\ Numbered
    BY TypeParts DEF LoopInv
  <1>3. ASSUME NEW q \in Part
        PROVE  /\ log'[q] \in Seq(Report) /\ Len(log'[q]) = sent[q] /\ sent[q] \in Nat
               /\ sent[q] <= Len(log[q]) /\ Len(log[q]) \in Nat
               /\ \A k \in 1..sent[q] : log'[q][k] = log[q][k] /\ k \in 1..Len(log[q])
    <2>1. log[q] \in Seq(Report) /\ sent[q] \in Nat /\ sent[q] <= Len(log[q])
      BY <1>2 DEF TopicTypes, OffsetTypes, Ordered
    <2>2. log'[q] = SubSeq(log[q], 1, sent[q])
      BY <1>1
    <2> QED BY <2>1, <2>2
  <1>4. TopicTypes'
    <2>1. log' \in [Part -> Seq(Report)]
      BY <1>1, <1>3
    <2>2. crashes' \in 0..MaxCrashes
      BY <1>1, <1>2, LimitsHold DEF TopicTypes, Limits
    <2> QED BY <1>1, <1>2, <2>1, <2>2 DEF TopicTypes
  <1>5. OffsetTypes'
    BY <1>1, <1>2 DEF OffsetTypes, offsets
  <1>6. Grows
    BY <1>1, <1>3 DEF Grows
  <1>7. Numbered'
    BY <1>1, <1>2, <1>3 DEF Numbered
  <1> QED BY <1>4, <1>5, <1>6, <1>7

\* What was sent stays, so the indexers are where they were.
LEMMA GrowsKeeps ==
    ASSUME LoopInv, TopicTypes', OffsetTypes', Grows, Numbered', UNCHANGED <<offsets, geo, worker>>
    PROVE  LoopInv'
  <1>1. OffsetTypes /\ Ordered /\ GeoTypes /\ WorkerTypes
    BY TypeParts DEF LoopInv
  <1>2. GeoTypes' /\ WorkerTypes'
    BY <1>1 DEF geo, worker, GeoTypes, WorkerTypes
  <1>3. Ordered'
    <2> SUFFICES ASSUME NEW q \in Part
                 PROVE  /\ committed'[q] <= indexed'[q] /\ indexed'[q] <= fetched'[q]
                        /\ fetched'[q] <= sent'[q] /\ sent'[q] <= Len(log'[q])
      BY DEF Ordered
    <2>1. /\ committed[q] <= indexed[q] /\ indexed[q] <= fetched[q]
          /\ fetched[q] <= sent[q] /\ sent[q] <= sent'[q] /\ sent'[q] <= Len(log'[q])
      BY <1>1 DEF Ordered, Grows
    <2>2. fetched[q] \in Nat /\ sent[q] \in Nat /\ sent'[q] \in Nat
      BY <1>1 DEF OffsetTypes
    <2> QED BY <2>1, <2>2 DEF offsets
  <1>4. ASSUME NEW i \in Indexer PROVE Working(i)'
    <2>1. Working(i) /\ turn' = turn /\ stage' = stage /\ cmds' = cmds /\ indexed' = indexed
          /\ fetched' = fetched
      BY DEF LoopInv, worker, offsets
    <2>2. ASSUME turn[i] \in Left(i, indexed) PROVE Record(i)' = Record(i)
      BY <2>1, <2>2, AtRecord DEF Record, Grows
    <2> QED BY <2>1, <2>2 DEF Working, Left, Owned
  <1> QED BY <1>2, <1>3, <1>4, TypePartsNext DEF LoopInv

\* What an indexer does leaves the others where they are.
LEMMA OthersWork ==
    ASSUME LoopInv, NEW i \in Indexer, NEW j \in Indexer \ {i},
           stage'[j] = stage[j], turn'[j] = turn[j], cmds'[j] = cmds[j], log' = log,
           \A q \in Part : OwnerOf[q] # i => indexed'[q] = indexed[q] /\ fetched'[q] = fetched[q]
    PROVE  Working(j)'
  <1>1. \A q \in Owned(j) : q \in Part /\ indexed'[q] = indexed[q] /\ fetched'[q] = fetched[q]
    BY DEF Owned
  <1>2. Left(j, indexed)' = Left(j, indexed)
    BY <1>1 DEF Left, Owned
  <1>3. Working(j)
    BY DEF LoopInv
  <1>4. turn[j] \in Left(j, indexed) => Record(j)' = Record(j)
    BY <1>1 DEF Left, Record
  <1> QED BY <1>1, <1>2, <1>3, <1>4 DEF Working, Owned

\* Polling, with or without an error.
LEMMA PollKeeps ==
    ASSUME LoopInv, NEW i \in Indexer, Poll(i) \/ PollFailed(i)
    PROVE  LoopInv'
  <1>1. PICK take \in Fetches(i) : Advance(take)
    BY DEF Poll, PollFailed
  <1>2. /\ stage[i] = "poll" /\ UNCHANGED <<topic, committed, geo, turn, cmds, now, crashes>>
        /\ \/ stage' = [stage EXCEPT ![i] = "read"] /\ indexed' = indexed
           \/ /\ stage' = stage
              /\ indexed' = [q \in Part |-> IF q \in Owned(i) THEN fetched'[q] ELSE indexed[q]]
    BY DEF Poll, PollFailed, Goto, worker
  <1>3. TopicTypes /\ OffsetTypes /\ Ordered /\ GeoTypes /\ WorkerTypes /\ Numbered /\ Working(i)
    BY TypeParts DEF LoopInv
  <1>4. ASSUME NEW q \in Owned(i)
        PROVE  /\ q \in Part /\ take[q] \in Nat /\ fetched'[q] = fetched[q] + take[q]
               /\ fetched[q] \in Nat /\ indexed[q] = fetched[q] /\ fetched'[q] <= sent[q]
    <2>1. take \in [Owned(i) -> 0..MaxPoll] /\ take[q] <= Unread(q) /\ take[q] \in Nat
      BY <1>1, LimitsHold DEF Fetches, Limits
    <2>2. q \in Part /\ fetched'[q] = fetched[q] + take[q]
      BY <1>1, <2>1 DEF Advance, Owned
    <2>3. fetched[q] \in Nat /\ sent[q] \in Nat /\ indexed[q] = fetched[q]
      BY <1>2, <1>3, <2>2 DEF OffsetTypes, Working
    <2> QED BY <2>1, <2>2, <2>3 DEF Unread
  <1>5. \A q \in Part : q \notin Owned(i) => fetched'[q] = fetched[q]
    BY <1>1 DEF Advance, Fetches
  <1>6. \A q \in Part : q \notin Owned(i) => indexed'[q] = indexed[q]
    BY <1>2
  <1>7. TopicTypes' /\ GeoTypes' /\ Numbered'
    BY <1>2, <1>3 DEF topic, geo, TopicTypes, GeoTypes, Numbered
  <1>8. WorkerTypes'
    BY <1>2, <1>3 DEF WorkerTypes
  <1>9. OffsetTypes'
    <2>1. fetched' \in [Part -> Nat]
      <3>1. \A q \in Part : fetched'[q] \in Nat
        BY <1>3, <1>4, <1>5 DEF OffsetTypes
      <3>2. fetched' = [q \in Part |-> fetched'[q]]
        BY <1>1 DEF Advance
      <3> QED BY <3>1, <3>2
    <2>2. indexed' \in [Part -> Nat]
      BY <1>2, <1>3, <2>1 DEF OffsetTypes
    <2> QED BY <1>2, <1>3, <2>1, <2>2 DEF OffsetTypes, topic
  <1>10. Ordered'
    <2> SUFFICES ASSUME NEW q \in Part
                 PROVE  /\ committed[q] <= indexed'[q] /\ indexed'[q] <= fetched'[q]
                        /\ fetched'[q] <= sent[q] /\ sent[q] <= Len(log[q])
      BY <1>2 DEF Ordered, topic
    <2>1. /\ committed[q] <= indexed[q] /\ indexed[q] <= fetched[q] /\ fetched[q] <= sent[q]
          /\ sent[q] <= Len(log[q])
      BY <1>3 DEF Ordered
    <2>2. committed[q] \in Nat /\ indexed[q] \in Nat /\ fetched[q] \in Nat
      BY <1>3 DEF OffsetTypes
    <2>3. CASE q \in Owned(i)
      <3>1. indexed'[q] = indexed[q] \/ indexed'[q] = fetched'[q]
        BY <1>2, <2>3
      <3>2. fetched[q] <= fetched'[q] /\ fetched'[q] <= sent[q] /\ fetched'[q] \in Nat
        BY <1>4, <2>3
      <3> QED BY <2>1, <2>2, <3>1, <3>2
    <2>4. CASE q \notin Owned(i)
      BY <1>5, <1>6, <2>1, <2>4
    <2> QED BY <2>3, <2>4
  <1>11. Working(i)'
    <2>1. CASE stage' = [stage EXCEPT ![i] = "read"] /\ indexed' = indexed
      <3>1. PICK q \in Owned(i) : take[q] > 0
        BY <1>1 DEF Fetches
      <3>2. indexed'[q] < fetched'[q]
        BY <1>4, <2>1, <3>1
      <3>3. q \in Left(i, indexed)' /\ stage'[i] = "read"
        BY <1>3, <2>1, <3>1, <3>2 DEF Left, Owned, WorkerTypes
      <3> QED BY <3>3 DEF Working
    <2>2. CASE /\ stage' = stage
               /\ indexed' = [q \in Part |-> IF q \in Owned(i) THEN fetched'[q] ELSE indexed[q]]
      BY <1>2, <2>2 DEF Working, Owned
    <2> QED BY <1>2, <2>1, <2>2
  <1>12. ASSUME NEW j \in Indexer, j # i PROVE Working(j)'
    <2>1. stage'[j] = stage[j] /\ turn'[j] = turn[j] /\ cmds'[j] = cmds[j] /\ log' = log
      BY <1>2, <1>3, <1>12 DEF WorkerTypes, topic
    <2>2. \A q \in Part : OwnerOf[q] # i => indexed'[q] = indexed[q] /\ fetched'[q] = fetched[q]
      BY <1>5, <1>6 DEF Owned
    <2> QED BY <1>12, <2>1, <2>2, OthersWork
  <1> QED BY <1>7, <1>8, <1>9, <1>10, <1>11, <1>12, TypePartsNext DEF LoopInv

\* The pipeline is put together.
LEMMA ReadKeeps ==
    ASSUME LoopInv, NEW i \in Indexer, ReadCell(i)
    PROVE  LoopInv'
  <1>1. PICK q \in Turns(i), prev \in Cell \union {None} :
               /\ turn' = [turn EXCEPT ![i] = q]
               /\ cmds' = [cmds EXCEPT ![i] = Pipeline(log[q][indexed[q] + 1], prev)]
    <2>1. PICK q \in Turns(i) :
               /\ turn' = [turn EXCEPT ![i] = q]
               /\ \E prev \in {geoCell[log[q][indexed[q] + 1].d]} \union (IF PipeMayBreak THEN {None} ELSE {}) :
                     cmds' = [cmds EXCEPT ![i] = Pipeline(log[q][indexed[q] + 1], prev)]
      BY DEF ReadCell
    <2>2. q \in Left(i, indexed)
      BY <2>1 DEF Turns
    <2>3. log[q][indexed[q] + 1].d \in Driver
      BY <2>2, AtRecord DEF Report
    <2>4. geoCell[log[q][indexed[q] + 1].d] \in Cell \union {None}
      BY <2>3, TypeParts DEF LoopInv, GeoTypes
    <2> QED BY <2>1, <2>4
  <1>2. /\ stage[i] = "read" /\ stage' = [stage EXCEPT ![i] = "send"]
        /\ UNCHANGED <<topic, offsets, geo, now, crashes>>
    BY DEF ReadCell, Goto
  <1>3. TopicTypes /\ OffsetTypes /\ Ordered /\ GeoTypes /\ WorkerTypes /\ Numbered
    BY TypeParts DEF LoopInv
  <1>4. q \in Left(i, indexed) /\ q \in Part /\ log[q][indexed[q] + 1] \in Report
    <2>1. q \in Left(i, indexed)
      BY <1>1 DEF Turns
    <2> QED BY <2>1, AtRecord
  <1> DEFINE rec == log[q][indexed[q] + 1]
  <1>5. Pipeline(rec, prev) \in Seq(Cmd) /\ IsRest(Pipeline(rec, prev), rec, prev, now)
    BY <1>3, <1>4, PipelineIsRest DEF TopicTypes
  <1>6. TopicTypes' /\ OffsetTypes' /\ Ordered' /\ GeoTypes' /\ Numbered'
    BY <1>2, <1>3 DEF topic, offsets, geo, TopicTypes, OffsetTypes, Ordered, GeoTypes, Numbered
  <1>7. WorkerTypes'
    BY <1>1, <1>2, <1>3, <1>4, <1>5 DEF WorkerTypes
  <1>8. Working(i)'
    <2>1. stage'[i] = "send" /\ turn'[i] = q /\ cmds'[i] = Pipeline(rec, prev)
      BY <1>1, <1>2, <1>3 DEF WorkerTypes
    <2>2. Left(i, indexed)' = Left(i, indexed) /\ Record(i)' = rec
      BY <1>2, <2>1 DEF Left, Owned, offsets, topic, Record
    <2>3. now \in 0..MaxTime
      BY <1>3 DEF TopicTypes
    <2> QED BY <1>4, <1>5, <2>1, <2>2, <2>3 DEF Working
  <1>9. ASSUME NEW j \in Indexer, j # i PROVE Working(j)'
    <2>1. stage'[j] = stage[j] /\ turn'[j] = turn[j] /\ cmds'[j] = cmds[j]
      BY <1>1, <1>2, <1>3, <1>9 DEF WorkerTypes
    <2> QED BY <1>2, <1>9, <2>1, OthersWork DEF topic, offsets
  <1> QED BY <1>6, <1>7, <1>8, <1>9, TypePartsNext DEF LoopInv

\* On to the next record, or to the commit.
LEMMA NextRecordKeeps ==
    ASSUME LoopInv, NEW i \in Indexer, stage[i] = "send", NextRecord(i),
           UNCHANGED <<topic, now, crashes>>, GeoTypes'
    PROVE  LoopInv'
  <1> DEFINE q == turn[i]
  <1>1. /\ cmds' = [cmds EXCEPT ![i] = << >>]
        /\ indexed' = [indexed EXCEPT ![q] = indexed[q] + 1]
        /\ stage' = [stage EXCEPT ![i] = IF Left(i, indexed') # {} THEN "read" ELSE "commit"]
        /\ UNCHANGED <<committed, fetched, turn>>
    BY DEF NextRecord, Goto
  <1>2. TopicTypes /\ OffsetTypes /\ Ordered /\ WorkerTypes /\ Numbered /\ Working(i)
    BY TypeParts DEF LoopInv
  <1>3. /\ q \in Left(i, indexed) /\ q \in Part /\ OwnerOf[q] = i /\ indexed[q] \in Nat
        /\ fetched[q] \in Nat /\ indexed[q] + 1 <= fetched[q]
    BY <1>2, AtRecord DEF Working
  <1> HIDE DEF q
  <1>4. TopicTypes' /\ Numbered'
    BY <1>2 DEF topic, TopicTypes, Numbered
  <1>5. OffsetTypes'
    BY <1>1, <1>2, <1>3 DEF OffsetTypes, topic
  <1>6. Ordered'
    BY <1>1, <1>2, <1>3 DEF Ordered, OffsetTypes, topic
  <1>7. WorkerTypes'
    <2>1. << >> \in Seq(Cmd)
      OBVIOUS
    <2> QED BY <1>1, <1>2, <2>1 DEF WorkerTypes
  <1>8. Working(i)'
    <2>1. stage'[i] = IF Left(i, indexed') # {} THEN "read" ELSE "commit"
      BY <1>1, <1>2 DEF WorkerTypes
    <2>2. Left(i, indexed)' = Left(i, indexed')
      BY <1>1 DEF Left, Owned
    <2>3. CASE Left(i, indexed') # {}
      BY <2>1, <2>2, <2>3 DEF Working
    <2>4. CASE Left(i, indexed') = {}
      <3>1. \A r \in Owned(i) : indexed'[r] = fetched'[r]
        <4> SUFFICES ASSUME NEW r \in Owned(i) PROVE indexed'[r] = fetched'[r]
          OBVIOUS
        <4>1. ~(indexed'[r] < fetched'[r])
          BY <1>1, <2>4 DEF Left
        <4>2. r \in Part
          BY DEF Owned
        <4> QED BY <1>5, <1>6, <4>1, <4>2 DEF OffsetTypes, Ordered
      <3> QED BY <2>1, <2>4, <3>1 DEF Working, Owned
    <2> QED BY <2>3, <2>4
  <1>9. ASSUME NEW j \in Indexer, j # i PROVE Working(j)'
    <2>1. stage'[j] = stage[j] /\ turn'[j] = turn[j] /\ cmds'[j] = cmds[j]
      BY <1>1, <1>2, <1>9 DEF WorkerTypes
    <2>2. \A r \in Part : OwnerOf[r] # i => indexed'[r] = indexed[r] /\ fetched'[r] = fetched[r]
      BY <1>1, <1>2, <1>3 DEF OffsetTypes
    <2> QED BY <1>9, <2>1, <2>2, OthersWork DEF topic
  <1> QED BY <1>4, <1>5, <1>6, <1>7, <1>8, <1>9, TypePartsNext DEF LoopInv

\* Redis keeps its types.
LEMMA ApplyTypes ==
    ASSUME GeoTypes, NEW cmd \in Cmd, Apply(cmd)
    PROVE  GeoTypes'
  <1>1. \/ cmd.op \in {"SREM", "SADD", "CELL"} /\ cmd.d \in Driver /\ cmd.c \in Cell
        \/ cmd.op = "POS" /\ cmd.d \in Driver /\ cmd.p \in Pos
        \/ cmd.op = "SEEN" /\ cmd.d \in Driver /\ cmd.t \in 0..MaxTime
    BY DEF Cmd
  <1>2. members' \in [Cell -> SUBSET Driver]
    <2>1. CASE cmd.op = "SREM"
      BY <1>1, <2>1 DEF Apply, GeoTypes
    <2>2. CASE cmd.op = "SADD"
      <3>1. members' = [members EXCEPT ![cmd.c] = @ \union {cmd.d}]
        BY <2>2 DEF Apply
      <3> QED BY <1>1, <2>2, <3>1 DEF GeoTypes
    <2>3. CASE cmd.op # "SREM" /\ cmd.op # "SADD"
      <3>1. members' = members
        BY <2>3 DEF Apply
      <3> QED BY <3>1 DEF GeoTypes
    <2> QED BY <2>1, <2>2, <2>3
  <1>3. geoCell' \in [Driver -> Cell \union {None}]
    BY <1>1 DEF Apply, GeoTypes
  <1>4. geoPos' \in [Driver -> Pos \union {NoPos}]
    BY <1>1 DEF Apply, GeoTypes
  <1>5. geoSeen' \in [Driver -> -1..MaxTime]
    <2>1. \A x \in 0..MaxTime : x \in -1..MaxTime
      BY LimitsHold DEF Limits
    <2> QED BY <1>1, <2>1 DEF Apply, GeoTypes
  <1> QED BY <1>2, <1>3, <1>4, <1>5 DEF GeoTypes

\* Sending a command, or having the rest dropped.
LEMMA SendKeeps ==
    ASSUME LoopInv, NEW i \in Indexer, Send(i) \/ PipelineBreaks(i)
    PROVE  LoopInv'
  <1>1. stage[i] = "send" /\ UNCHANGED <<topic, now, crashes>>
    BY DEF Send, PipelineBreaks
  <1>2. TopicTypes /\ OffsetTypes /\ Ordered /\ GeoTypes /\ WorkerTypes /\ Numbered /\ Working(i)
    BY TypeParts DEF LoopInv
  <1>3. CASE PipelineBreaks(i)
    <2>1. NextRecord(i) /\ UNCHANGED geo
      BY <1>3 DEF PipelineBreaks
    <2>2. GeoTypes'
      BY <1>2, <2>1 DEF geo, GeoTypes
    <2> QED BY <1>1, <2>1, <2>2, NextRecordKeeps
  <1>4. CASE Send(i)
    <2>1. PICK prev \in Cell \union {None}, t \in 0..MaxTime :
                 IsRest(cmds[i], Record(i), prev, t)
      BY <1>1, <1>2 DEF Working
    <2>2. cmds[i] \in Seq(Cmd)
      BY <1>2 DEF WorkerTypes
    <2>3. Head(cmds[i]) \in Cmd
      BY <2>1, <2>2, NextCommand
    <2>4. GeoTypes'
      BY <1>2, <1>4, <2>3, ApplyTypes DEF Send
    <2>5. CASE Len(cmds[i]) = 1
      BY <1>1, <1>4, <2>4, <2>5, NextRecordKeeps DEF Send
    <2>6. CASE Len(cmds[i]) # 1
      <3>1. cmds' = [cmds EXCEPT ![i] = Tail(cmds[i])] /\ UNCHANGED <<offsets, stage, turn>>
        BY <1>4, <2>6 DEF Send
      <3>2. Tail(cmds[i]) \in Seq(Cmd) /\ IsRest(Tail(cmds[i]), Record(i), prev, t)
        BY <2>1, <2>2, <2>6, TailIsRest
      <3>3. TopicTypes' /\ OffsetTypes' /\ Ordered' /\ Numbered'
        BY <1>1, <1>2, <3>1 DEF topic, offsets, TopicTypes, OffsetTypes, Ordered, Numbered
      <3>4. WorkerTypes'
        BY <1>2, <3>1, <3>2 DEF WorkerTypes
      <3>5. Working(i)'
        <4>1. stage'[i] = "send" /\ turn'[i] = turn[i] /\ cmds'[i] = Tail(cmds[i])
          BY <1>1, <1>2, <3>1 DEF WorkerTypes
        <4>2. Left(i, indexed)' = Left(i, indexed) /\ Record(i)' = Record(i)
          BY <1>1, <3>1 DEF Left, Owned, offsets, topic, Record
        <4> QED BY <1>1, <1>2, <3>2, <4>1, <4>2 DEF Working
      <3>6. ASSUME NEW j \in Indexer, j # i PROVE Working(j)'
        <4>1. stage'[j] = stage[j] /\ turn'[j] = turn[j] /\ cmds'[j] = cmds[j]
          BY <1>2, <3>1, <3>6 DEF WorkerTypes
        <4> QED BY <1>1, <3>1, <3>6, <4>1, OthersWork DEF topic, offsets
      <3> QED BY <2>4, <3>3, <3>4, <3>5, <3>6, TypePartsNext DEF LoopInv
    <2> QED BY <2>5, <2>6
  <1> QED BY <1>3, <1>4

\* Committing, also in vain.
LEMMA CommitKeeps ==
    ASSUME LoopInv, NEW i \in Indexer, Commit(i)
    PROVE  LoopInv'
  <1>1. /\ stage[i] = "commit" /\ stage' = [stage EXCEPT ![i] = "poll"]
        /\ turn' = [turn EXCEPT ![i] = None]
        /\ committed' = Replace(i, committed, fetched) \/ committed' = committed
        /\ UNCHANGED <<topic, fetched, indexed, geo, cmds, now, crashes>>
    BY DEF Commit, Goto
  <1>2. TopicTypes /\ OffsetTypes /\ Ordered /\ GeoTypes /\ WorkerTypes /\ Numbered /\ Working(i)
    BY TypeParts DEF LoopInv
  <1>3. TopicTypes' /\ GeoTypes' /\ Numbered' /\ WorkerTypes'
    BY <1>1, <1>2 DEF topic, geo, TopicTypes, GeoTypes, Numbered, WorkerTypes
  <1>4. OffsetTypes'
    BY <1>1, <1>2 DEF OffsetTypes, Replace, topic
  <1>5. Ordered'
    <2> SUFFICES ASSUME NEW q \in Part PROVE committed'[q] <= indexed[q]
      BY <1>1, <1>2 DEF Ordered, topic
    <2>1. committed[q] <= indexed[q] /\ indexed[q] \in Nat
      BY <1>2 DEF Ordered, OffsetTypes
    <2>2. q \in Owned(i) => indexed[q] = fetched[q]
      BY <1>1, <1>2 DEF Working
    <2> QED BY <1>1, <2>1, <2>2 DEF Replace
  <1>6. Working(i)'
    BY <1>1, <1>2 DEF Working, Owned, WorkerTypes
  <1>7. ASSUME NEW j \in Indexer, j # i PROVE Working(j)'
    <2>1. stage'[j] = stage[j] /\ turn'[j] = turn[j] /\ cmds'[j] = cmds[j]
      BY <1>1, <1>2, <1>7 DEF WorkerTypes
    <2> QED BY <1>1, <1>7, <2>1, OthersWork DEF topic
  <1> QED BY <1>3, <1>4, <1>5, <1>6, <1>7, TypePartsNext DEF LoopInv

\* Dying, and reading on from what was committed.
LEMMA CrashKeeps ==
    ASSUME LoopInv, NEW i \in Indexer, Crash(i)
    PROVE  LoopInv'
  <1>1. /\ crashes < MaxCrashes /\ crashes' = crashes + 1 /\ stage' = [stage EXCEPT ![i] = "poll"]
        /\ turn' = [turn EXCEPT ![i] = None] /\ cmds' = [cmds EXCEPT ![i] = << >>]
        /\ fetched' = Replace(i, fetched, committed) /\ indexed' = Replace(i, indexed, committed)
        /\ UNCHANGED <<topic, committed, geo, now>>
    BY DEF Crash, Goto
  <1>2. TopicTypes /\ OffsetTypes /\ Ordered /\ GeoTypes /\ WorkerTypes /\ Numbered
    BY TypeParts DEF LoopInv
  <1>3. GeoTypes' /\ Numbered'
    BY <1>1, <1>2 DEF topic, geo, GeoTypes, Numbered
  <1>4. TopicTypes'
    BY <1>1, <1>2, LimitsHold DEF topic, TopicTypes, Limits
  <1>5. OffsetTypes'
    BY <1>1, <1>2 DEF OffsetTypes, Replace, topic
  <1>6. WorkerTypes'
    <2>1. << >> \in Seq(Cmd)
      OBVIOUS
    <2> QED BY <1>1, <1>2, <2>1 DEF WorkerTypes
  <1>7. \A q \in Part : /\ q \in Owned(i) => fetched'[q] = committed[q] /\ indexed'[q] = committed[q]
                        /\ q \notin Owned(i) => fetched'[q] = fetched[q] /\ indexed'[q] = indexed[q]
    BY <1>1 DEF Replace
  <1>8. Ordered'
    <2> SUFFICES ASSUME NEW q \in Part
                 PROVE  /\ committed[q] <= indexed'[q] /\ indexed'[q] <= fetched'[q]
                        /\ fetched'[q] <= sent[q] /\ sent[q] <= Len(log[q])
      BY <1>1 DEF Ordered, topic
    <2>1. /\ committed[q] <= indexed[q] /\ indexed[q] <= fetched[q] /\ fetched[q] <= sent[q]
          /\ sent[q] <= Len(log[q])
          /\ committed[q] \in Nat /\ indexed[q] \in Nat /\ fetched[q] \in Nat /\ sent[q] \in Nat
      BY <1>2 DEF Ordered, OffsetTypes
    <2> QED BY <1>7, <2>1
  <1>9. Working(i)'
    <2>1. \A q \in Owned(i) : indexed'[q] = fetched'[q]
      BY <1>7 DEF Owned
    <2> QED BY <1>1, <1>2, <2>1 DEF Working, Owned, WorkerTypes
  <1>10. ASSUME NEW j \in Indexer, j # i PROVE Working(j)'
    <2>1. stage'[j] = stage[j] /\ turn'[j] = turn[j] /\ cmds'[j] = cmds[j]
      BY <1>1, <1>2, <1>10 DEF WorkerTypes
    <2>2. \A q \in Part : OwnerOf[q] # i => indexed'[q] = indexed[q] /\ fetched'[q] = fetched[q]
      BY <1>7 DEF Owned
    <2> QED BY <1>1, <1>10, <2>1, <2>2, OthersWork DEF topic
  <1> QED BY <1>3, <1>4, <1>5, <1>6, <1>8, <1>9, <1>10, TypePartsNext DEF LoopInv

\* The gateway's steps.
LEMMA GatewayKeeps ==
    ASSUME LoopInv, \/ \E d \in Driver, p \in Place : DriverReports(d, p)
                    \/ \E q \in Part : Flush(q)
                    \/ GatewayCrash
    PROVE  LoopInv' /\ Grows /\ UNCHANGED <<offsets, geo, worker>>
  <1>1. TopicTypes' /\ OffsetTypes' /\ Grows /\ Numbered'
    BY ReportsGrow, FlushGrows, CrashCuts
  <1>2. UNCHANGED <<offsets, geo, worker>>
    BY DEF DriverReports, Flush, GatewayCrash
  <1> QED BY <1>1, <1>2, GrowsKeeps

\* Nothing but the clock moves.
LEMMA TickKeeps ==
    ASSUME LoopInv, Tick \/ UNCHANGED vars
    PROVE  LoopInv' /\ UNCHANGED <<topic, offsets, geo, worker>>
  <1>1. UNCHANGED <<topic, offsets, geo, worker, crashes>> /\ (now' = now \/ (now < MaxTime /\ now' = now + 1))
    BY DEF Tick, vars, topic, offsets, geo, worker
  <1>2. TopicTypes /\ OffsetTypes /\ Ordered /\ GeoTypes /\ WorkerTypes /\ Numbered
    BY TypeParts DEF LoopInv
  <1>3. TopicTypes'
    BY <1>1, <1>2, LimitsHold DEF topic, TopicTypes, Limits
  <1>4. OffsetTypes' /\ Ordered' /\ GeoTypes' /\ WorkerTypes' /\ Numbered'
    BY <1>1, <1>2 DEF topic, offsets, geo, worker, OffsetTypes, Ordered, GeoTypes, WorkerTypes, Numbered
  <1>5. ASSUME NEW i \in Indexer PROVE Working(i)'
    <2>1. Working(i) /\ Left(i, indexed)' = Left(i, indexed) /\ Record(i)' = Record(i)
      BY <1>1 DEF LoopInv, Left, Owned, Record, topic, offsets, worker
    <2> QED BY <1>1, <2>1 DEF Working, Owned, offsets, worker
  <1> QED BY <1>1, <1>3, <1>4, <1>5, TypePartsNext DEF LoopInv

\* The start: nothing reported, nothing indexed.
LEMMA LoopInvInit == Init => LoopInv
  <1> SUFFICES ASSUME Init PROVE LoopInv
    OBVIOUS
  <1>1. 0 \in 0..MaxReports /\ 0 \in 0..MaxTime /\ 0 \in 0..MaxCrashes /\ NoTime \in -1..MaxTime
    BY LimitsHold DEF Limits, NoTime
  <1>2. << >> \in Seq(Report) /\ << >> \in Seq(Cmd) /\ Len(<< >>) = 0
    OBVIOUS
  <1>3. TopicTypes /\ OffsetTypes /\ Ordered /\ GeoTypes /\ WorkerTypes
    BY <1>1, <1>2 DEF Init, TopicTypes, OffsetTypes, Ordered, GeoTypes, WorkerTypes
  <1>4. Numbered
    BY <1>2 DEF Init, Numbered
  <1>5. \A i \in Indexer : Working(i)
    BY DEF Init, Working, Owned
  <1> QED BY <1>3, <1>4, <1>5, TypeParts DEF LoopInv

\* Every step keeps the loops where they should be.
LEMMA LoopInvStep == LoopInv /\ [Next]_vars => LoopInv'
  <1> SUFFICES ASSUME LoopInv, [Next]_vars PROVE LoopInv'
    OBVIOUS
  <1>1. CASE \E i \in Indexer : Work(i) \/ Crash(i)
    BY <1>1, PollKeeps, ReadKeeps, SendKeeps, CommitKeeps, CrashKeeps DEF Work
  <1>2. CASE \/ \E d \in Driver, p \in Place : DriverReports(d, p)
             \/ \E q \in Part : Flush(q)
             \/ GatewayCrash
    BY <1>2, GatewayKeeps
  <1>3. CASE Tick \/ UNCHANGED vars
    BY <1>3, TickKeeps
  <1> QED BY <1>1, <1>2, <1>3 DEF Next

\* They always are.
LEMMA LoopInvHolds == Spec => []LoopInv
  BY LoopInvInit, LoopInvStep, PTL DEF Spec

\* consume() and index(): topic, offsets, pipelines and Redis keep their types,
\* and no offset passes another, whatever crashes or fails.
THEOREM IndexTypeCorrect == Spec => []TypeOK
  <1>1. LoopInv => TypeOK
    BY DEF LoopInv
  <1> QED BY <1>1, LoopInvHolds, PTL

-------------------------------------------------------------------------------
(* The Sets and geo:cell.  The records of a driver must be handled by one    *)
(* indexer, or two of them get in each other's way, and nothing may fail but *)
(* by a crash: a crash makes the records come again, a failure does not.     *)

OneIndexerEach ==
    \A d \in Driver : \A p, r \in Roam[d] : OwnerOf[PartOf[keyOf[p]]] = OwnerOf[PartOf[keyOf[r]]]
NothingFails == ~PipeMayBreak /\ ~FetchMayFail

\* The cells driver d will be put into by records that were sent and are still
\* to be indexed, the one being indexed among them.
Coming(d) == {x \in Cell : \E q \in Part : \E k \in (indexed[q] + 1)..sent[q] :
                              log[q][k].d = d /\ cellOf[log[q][k].at] = x}

\* The cell of the position in geo:pos.
PosCell(d) == IF geoPos[d] = NoPos THEN None ELSE cellOf[geoPos[d].at]

\* Whatever is wrong about a driver, a record is coming that puts it right: one
\* of the cell whose Set it should not be in, one of another cell than that
\* whose Set it is missing from, one that goes on to write the position.
Recoverable(d) ==
    /\ \A x \in Cell : d \in members[x] => x = geoCell[d] \/ x \in Coming(d)
    /\ geoCell[d] # None /\ d \notin members[geoCell[d]] => \E x \in Coming(d) : x # geoCell[d]
    /\ geoCell[d] # PosCell(d) => Coming(d) # {}

\* What the commands sent so far have brought about for the driver of the record.
Midway(i) ==
    stage[i] = "send" =>
        LET d == Record(i).d
            c == cellOf[Record(i).at]
            left == Len(cmds[i])
        IN  /\ left = 5 => geoCell[d] # None /\ geoCell[d] # c /\ Head(cmds[i]).c = geoCell[d]
            /\ left \in {3, 4} => /\ geoCell[d] # c
                                  /\ geoCell[d] # None => d \notin members[geoCell[d]]
            /\ left = 3 => d \in members[c]
            /\ left \in {1, 2} => geoCell[d] = c
            /\ left = 1 => geoPos[d] = PosOf(Record(i))

ExactInv == LoopInv /\ (\A i \in Indexer : Midway(i)) /\ (\A d \in Driver : Recoverable(d))

\* The last record of a driver, once indexed, is what Redis says of it.
Latest ==
    \A q \in Part : \A k \in 1..indexed[q] :
        LET rec == log[q][k]
        IN  (\A l \in (k + 1)..sent[q] : log[q][l].d # rec.d) =>
                geoPos[rec.d] = PosOf(rec) /\ geoCell[rec.d] = cellOf[rec.at]

\* While nothing has crashed, what is still to be indexed is not older.
Forward ==
    crashes = 0 =>
        /\ \A d \in Driver : geoPos[d].n <= reports[d]
        /\ \A q \in Part : \A k \in (indexed[q] + 1)..Len(log[q]) :
              geoPos[log[q][k].d].n <= log[q][k].n

\* A command changes what Redis has of the record's driver only.
Others(d) == \A e \in Driver \ {d} :
                /\ geoCell'[e] = geoCell[e] /\ geoPos'[e] = geoPos[e]
                /\ \A x \in Cell : e \in members'[x] <=> e \in members[x]

\* Redis' answer to each command.
LEMMA ApplyEffect ==
    ASSUME NEW cmd, Apply(cmd)
    PROVE  /\ cmd.op = "SREM" => /\ members' = [members EXCEPT ![cmd.c] = @ \ {cmd.d}]
                                 /\ UNCHANGED <<geoCell, geoPos>>
           /\ cmd.op = "SADD" => /\ members' = [members EXCEPT ![cmd.c] = @ \union {cmd.d}]
                                 /\ UNCHANGED <<geoCell, geoPos>>
           /\ cmd.op = "CELL" => /\ geoCell' = [geoCell EXCEPT ![cmd.d] = cmd.c]
                                 /\ UNCHANGED <<members, geoPos>>
           /\ cmd.op = "POS" => /\ geoPos' = [geoPos EXCEPT ![cmd.d] = cmd.p]
                                /\ UNCHANGED <<members, geoCell>>
           /\ cmd.op = "SEEN" => UNCHANGED <<members, geoCell, geoPos>>
  BY DEF Apply

\* What follows from the loops being where they should be.
LEMMA LoopTypes == LoopInv => TopicTypes /\ OffsetTypes /\ Ordered /\ GeoTypes /\ WorkerTypes /\ Numbered
  BY TypeParts DEF LoopInv

\* And of the next state.
LEMMA LoopTypesNext == LoopInv' => (TopicTypes /\ OffsetTypes /\ Ordered /\ GeoTypes /\ WorkerTypes /\ Numbered)'
  BY LoopTypes, PTL

\* What a command does.
LEMMA SendEffect ==
    ASSUME LoopInv, NEW i \in Indexer, Send(i)
    PROVE  LET rec == Record(i)
               left == Len(cmds[i])
           IN  /\ stage[i] = "send" /\ turn[i] \in Left(i, indexed) /\ left \in 1..5 /\ Others(rec.d)
               /\ left = 5 => /\ Head(cmds[i]).c \in Cell
                              /\ members' = [members EXCEPT ![Head(cmds[i]).c] = @ \ {rec.d}]
                              /\ UNCHANGED <<geoCell, geoPos>>
               /\ left = 4 => /\ members' = [members EXCEPT ![cellOf[rec.at]] = @ \union {rec.d}]
                              /\ UNCHANGED <<geoCell, geoPos>>
               /\ left = 3 => /\ geoCell' = [geoCell EXCEPT ![rec.d] = cellOf[rec.at]]
                              /\ UNCHANGED <<members, geoPos>>
               /\ left = 2 => /\ geoPos' = [geoPos EXCEPT ![rec.d] = PosOf(rec)]
                              /\ UNCHANGED <<members, geoCell>>
               /\ left = 1 => UNCHANGED <<members, geoCell, geoPos>> /\ NextRecord(i)
               /\ left # 1 => /\ cmds' = [cmds EXCEPT ![i] = Tail(cmds[i])]
                              /\ Len(Tail(cmds[i])) = left - 1
                              /\ UNCHANGED <<offsets, stage, turn>>
               /\ UNCHANGED <<topic, now, crashes>>
  <1>1. stage[i] = "send" /\ UNCHANGED <<topic, now, crashes>> /\ Apply(Head(cmds[i]))
    BY DEF Send
  <1>2. GeoTypes /\ WorkerTypes /\ Working(i)
    BY TypeParts DEF LoopInv
  <1>3. PICK prev \in Cell \union {None}, t \in 0..MaxTime : IsRest(cmds[i], Record(i), prev, t)
    BY <1>1, <1>2 DEF Working
  <1>4. turn[i] \in Left(i, indexed) /\ Record(i) \in Report /\ cmds[i] \in Seq(Cmd)
    BY <1>1, <1>2, AtRecord DEF Working, Record, WorkerTypes
  <1>5. Record(i).d \in Driver /\ cellOf[Record(i).at] \in Cell
    BY <1>4, PlacesHave DEF Report
  <1> DEFINE rec == Record(i)
             cmd == Head(cmds[i])
             left == Len(cmds[i])
  <1>6. /\ left \in 1..5 /\ (left = 5 => prev # None)
        /\ left = 5 => cmd = [op |-> "SREM", d |-> rec.d, c |-> prev]
        /\ left = 4 => cmd = [op |-> "SADD", d |-> rec.d, c |-> cellOf[rec.at]]
        /\ left = 3 => cmd = [op |-> "CELL", d |-> rec.d, c |-> cellOf[rec.at]]
        /\ left = 2 => cmd = [op |-> "POS", d |-> rec.d, p |-> PosOf(rec)]
        /\ left = 1 => cmd = [op |-> "SEEN", d |-> rec.d, t |-> t]
    BY <1>3, <1>4, NextCommand
  <1>7. left # 1 => Len(Tail(cmds[i])) = left - 1
    BY <1>3, <1>4, TailIsRest
  <1> HIDE DEF rec, cmd, left
  <1>8. CASE left = 5
    <2>1. cmd.op = "SREM" /\ cmd.d = rec.d /\ cmd.c = prev /\ prev \in Cell
      BY <1>6, <1>8
    <2>2. /\ members' = [members EXCEPT ![prev] = @ \ {rec.d}] /\ UNCHANGED <<geoCell, geoPos>>
      BY <1>1, <2>1, ApplyEffect DEF cmd
    <2>3. Others(rec.d)
      <3>1. /\ geoCell' = geoCell /\ geoPos' = geoPos /\ members' = [members EXCEPT ![prev] = @ \ {rec.d}]
        BY <2>2
      <3>2. \A e \in Driver \ {rec.d} : \A x \in Cell : e \in members'[x] <=> e \in members[x]
        BY <1>2, <3>1 DEF GeoTypes
      <3> QED BY <3>1, <3>2 DEF Others
    <2>4. cmd.c \in Cell /\ members' = [members EXCEPT ![cmd.c] = @ \ {rec.d}]
      BY <2>1, <2>2
    <2>5. left # 1 /\ left # 2 /\ left # 3 /\ left # 4
      BY <1>8
    <2> QED BY <1>1, <1>4, <1>6, <1>7, <2>2, <2>3, <2>4, <2>5 DEF Send, left, rec, cmd
  <1>9. CASE left = 4
    <2>1. cmd.op = "SADD" /\ cmd.d = rec.d /\ cmd.c = cellOf[rec.at]
      BY <1>6, <1>9
    <2>2. /\ members' = [members EXCEPT ![cellOf[rec.at]] = @ \union {rec.d}] /\ UNCHANGED <<geoCell, geoPos>>
      BY <1>1, <2>1, ApplyEffect DEF cmd
    <2>3. Others(rec.d)
      BY <1>2, <1>5, <2>1, <2>2 DEF Others, GeoTypes, rec
    <2> QED BY <1>1, <1>4, <1>6, <1>7, <1>9, <2>2, <2>3 DEF Send, left, rec, cmd
  <1>10. CASE left = 3
    <2>1. cmd.op = "CELL" /\ cmd.d = rec.d /\ cmd.c = cellOf[rec.at]
      BY <1>6, <1>10
    <2>2. /\ geoCell' = [geoCell EXCEPT ![rec.d] = cellOf[rec.at]] /\ UNCHANGED <<members, geoPos>>
      BY <1>1, <2>1, ApplyEffect DEF cmd
    <2>3. Others(rec.d)
      BY <1>2, <2>1, <2>2 DEF Others, GeoTypes
    <2> QED BY <1>1, <1>4, <1>6, <1>7, <1>10, <2>2, <2>3 DEF Send, left, rec, cmd
  <1>11. CASE left = 2
    <2>1. cmd.op = "POS" /\ cmd.d = rec.d /\ cmd.p = PosOf(rec)
      BY <1>6, <1>11
    <2>2. /\ geoPos' = [geoPos EXCEPT ![rec.d] = PosOf(rec)] /\ UNCHANGED <<members, geoCell>>
      BY <1>1, <2>1, ApplyEffect DEF cmd
    <2>3. Others(rec.d)
      BY <1>2, <2>1, <2>2 DEF Others, GeoTypes
    <2> QED BY <1>1, <1>4, <1>6, <1>7, <1>11, <2>2, <2>3 DEF Send, left, rec, cmd
  <1>12. CASE left = 1
    <2>1. cmd.op = "SEEN" /\ cmd.d = rec.d /\ cmd.t = t
      BY <1>6, <1>12
    <2>2. UNCHANGED <<members, geoCell, geoPos>>
      BY <1>1, <2>1, ApplyEffect DEF cmd
    <2>3. Others(rec.d)
      BY <2>2 DEF Others
    <2> QED BY <1>1, <1>4, <1>6, <1>12, <2>2, <2>3 DEF Send, left, rec, cmd
  <1> QED BY <1>6, <1>8, <1>9, <1>10, <1>11, <1>12

\* The records of one driver are with one indexer.
LEMMA OneIndexerOf ==
    ASSUME LoopInv, OneIndexerEach, NEW q \in Part, NEW r \in Part,
           NEW k \in 1..Len(log[q]), NEW l \in 1..Len(log[r]), log[q][k].d = log[r][l].d
    PROVE  OwnerOf[q] = OwnerOf[r]
  <1>1. log[q] \in Seq(Report) /\ log[r] \in Seq(Report)
    BY TypeParts DEF LoopInv, TopicTypes
  <1>2. log[q][k] \in Report /\ log[r][l] \in Report
    BY <1>1
  <1>3. /\ log[q][k].at \in Roam[log[q][k].d] /\ PartOf[keyOf[log[q][k].at]] = q
        /\ log[r][l].at \in Roam[log[r][l].d] /\ PartOf[keyOf[log[r][l].at]] = r
    BY DEF LoopInv, Numbered
  <1>4. log[q][k].d \in Driver
    BY <1>2 DEF Report
  <1> QED BY <1>3, <1>4 DEF OneIndexerEach

\* The records coming are those of the state before, or more, unless one was
\* indexed or skipped.
LEMMA ComingStays ==
    ASSUME LoopInv, LoopInv', Grows, \A q \in Part : indexed'[q] <= indexed[q], NEW d
    PROVE  Coming(d) \subseteq Coming(d)'
  <1> SUFFICES ASSUME NEW q \in Part, NEW k \in (indexed[q] + 1)..sent[q], log[q][k].d = d
               PROVE  k \in (indexed'[q] + 1)..sent'[q] /\ log'[q][k] = log[q][k]
    BY DEF Coming
  <1>1. indexed[q] \in Nat /\ sent[q] \in Nat
    BY TypeParts DEF LoopInv, OffsetTypes
  <1>2. indexed'[q] \in Nat /\ sent'[q] \in Nat
    <2>1. OffsetTypes'
      BY LoopTypesNext
    <2> QED BY <2>1 DEF OffsetTypes
  <1>3. sent[q] <= sent'[q] /\ k \in 1..sent[q] /\ log'[q][k] = log[q][k]
    BY <1>1 DEF Grows
  <1> QED BY <1>1, <1>2, <1>3

\* A topic that stays the same has grown, too.
LEMMA SameGrows == LoopInv /\ UNCHANGED topic => Grows
  BY TypeParts DEF LoopInv, topic, Grows, Ordered, OffsetTypes

\* An indexer that sends is at a record.
LEMMA SendingAt ==
    ASSUME LoopInv, NEW i \in Indexer, stage[i] = "send"
    PROVE  /\ turn[i] \in Left(i, indexed) /\ turn[i] \in Part /\ OwnerOf[turn[i]] = i
           /\ indexed[turn[i]] \in Nat /\ indexed[turn[i]] + 1 \in 1..Len(log[turn[i]])
           /\ indexed[turn[i]] + 1 \in 1..sent[turn[i]]
           /\ Record(i) = log[turn[i]][indexed[turn[i]] + 1]
           /\ Record(i) \in Report /\ Record(i).d \in Driver
           /\ cellOf[Record(i).at] \in Cell /\ cellOf[Record(i).at] # None
  <1>1. turn[i] \in Left(i, indexed)
    BY DEF LoopInv, Working
  <1>2. Record(i) = log[turn[i]][indexed[turn[i]] + 1]
    BY DEF Record
  <1>3. Record(i) \in Report
    BY <1>1, <1>2, AtRecord
  <1>4. Record(i).d \in Driver /\ Record(i).at \in Place
    BY <1>3 DEF Report
  <1> QED BY <1>1, <1>2, <1>3, <1>4, AtRecord, PlacesHave

\* Two of them are at records of different drivers.
LEMMA SendApart ==
    ASSUME LoopInv, OneIndexerEach, NEW i \in Indexer, NEW j \in Indexer \ {i},
           stage[i] = "send", stage[j] = "send"
    PROVE  Record(i).d # Record(j).d
  <1> DEFINE k == indexed[turn[i]] + 1
             l == indexed[turn[j]] + 1
  <1>1. /\ turn[i] \in Part /\ OwnerOf[turn[i]] = i /\ k \in 1..Len(log[turn[i]])
        /\ Record(i) = log[turn[i]][k]
    BY SendingAt
  <1>2. /\ turn[j] \in Part /\ OwnerOf[turn[j]] = j /\ l \in 1..Len(log[turn[j]])
        /\ Record(j) = log[turn[j]][l]
    BY SendingAt
  <1> HIDE DEF k, l
  <1>3. ASSUME Record(i).d = Record(j).d PROVE FALSE
    <2>1. log[turn[i]][k].d = log[turn[j]][l].d
      BY <1>1, <1>2, <1>3
    <2>2. OwnerOf[turn[i]] = OwnerOf[turn[j]]
      BY <1>1, <1>2, <2>1, OneIndexerOf
    <2> QED BY <1>1, <1>2, <2>2
  <1> QED BY <1>3

MidInv == LoopInv /\ \A i \in Indexer : Midway(i)

\* A pipeline nobody interferes with is where it was.
LEMMA MidwayStays ==
    ASSUME MidInv, NEW j \in Indexer, Grows,
           stage'[j] = "send" => stage[j] = "send" /\ turn'[j] = turn[j] /\ cmds'[j] = cmds[j]
                                 /\ indexed'[turn[j]] = indexed[turn[j]],
           stage[j] = "send" =>
               /\ geoCell'[Record(j).d] = geoCell[Record(j).d]
               /\ geoPos'[Record(j).d] = geoPos[Record(j).d]
               /\ \A x \in Cell : Record(j).d \in members'[x] <=> Record(j).d \in members[x]
    PROVE  Midway(j)'
  <1> SUFFICES ASSUME stage'[j] = "send" PROVE Midway(j)'
    BY DEF Midway
  <1>1. stage[j] = "send" /\ Midway(j)
    BY DEF MidInv
  <1>2. Record(j)' = Record(j) /\ cmds'[j] = cmds[j]
    <2>1. turn'[j] = turn[j] /\ cmds'[j] = cmds[j] /\ indexed'[turn[j]] = indexed[turn[j]]
      OBVIOUS
    <2>2. turn[j] \in Part /\ indexed[turn[j]] + 1 \in 1..sent[turn[j]]
      BY <1>1, SendingAt DEF MidInv
    <2>3. log'[turn[j]][indexed[turn[j]] + 1] = log[turn[j]][indexed[turn[j]] + 1]
      BY <2>2 DEF Grows
    <2> QED BY <2>1, <2>3 DEF Record
  <1>3. Record(j).d \in Driver /\ cellOf[Record(j).at] \in Cell
    BY <1>1, SendingAt DEF MidInv
  <1>4. geoCell[Record(j).d] \in Cell \union {None}
    BY <1>3, LoopTypes DEF MidInv, GeoTypes
  <1> QED BY <1>1, <1>2, <1>3, <1>4 DEF Midway

\* Putting a pipeline together.
LEMMA MidwayRead ==
    ASSUME MidInv, NothingFails, NEW i \in Indexer, ReadCell(i)
    PROVE  Midway(i)'
  <1>1. PICK q \in Turns(i) :
               /\ turn' = [turn EXCEPT ![i] = q]
               /\ cmds' = [cmds EXCEPT ![i] = Pipeline(log[q][indexed[q] + 1],
                                                      geoCell[log[q][indexed[q] + 1].d])]
    BY DEF ReadCell, NothingFails
  <1>2. /\ stage' = [stage EXCEPT ![i] = "send"] /\ UNCHANGED <<topic, offsets, geo>>
    BY DEF ReadCell, Goto
  <1> DEFINE rec == log[q][indexed[q] + 1]
             prev == geoCell[rec.d]
  <1>3. TopicTypes /\ GeoTypes /\ WorkerTypes
    BY LoopTypes DEF MidInv
  <1>4. rec \in Report
    <2>1. q \in Left(i, indexed)
      BY <1>1 DEF Turns
    <2> QED BY <2>1, AtRecord DEF MidInv
  <1>5. rec.d \in Driver /\ rec.at \in Place
    BY <1>4 DEF Report
  <1>6. prev \in Cell \union {None} /\ cellOf[rec.at] # None
    BY <1>3, <1>5, PlacesHave DEF GeoTypes
  <1>7. cmds'[i] = Pipeline(rec, prev) /\ Record(i)' = rec
    BY <1>1, <1>2, <1>3 DEF WorkerTypes, Record, topic, offsets
  <1>8. geoCell' = geoCell /\ members' = members
    BY <1>2 DEF geo
  <1> HIDE DEF rec, prev
  <1>9. /\ Pipeline(rec, prev) \in Seq(Cmd) /\ IsRest(Pipeline(rec, prev), rec, prev, now)
        /\ Len(Pipeline(rec, prev)) = IF prev = cellOf[rec.at] THEN 2 ELSE IF prev = None THEN 4 ELSE 5
    BY <1>3, <1>4, <1>6, PipelineIsRest DEF TopicTypes
  <1>10. Len(Pipeline(rec, prev)) = 5 => Head(Pipeline(rec, prev)).c = prev
    <2>1. Len(Pipeline(rec, prev)) = 5
          => Head(Pipeline(rec, prev)) = [op |-> "SREM", d |-> rec.d, c |-> prev]
      BY <1>9, NextCommand
    <2> QED BY <2>1
  <1>11. geoCell'[rec.d] = prev
    BY <1>8 DEF prev
  <1> QED BY <1>7, <1>8, <1>9, <1>10, <1>11 DEF Midway

\* Sending one command brings about what the next relies on.
LEMMA MidwaySend ==
    ASSUME MidInv, NEW i \in Indexer, Send(i)
    PROVE  Midway(i)'
  <1> DEFINE d == Record(i).d
             c == cellOf[Record(i).at]
             left == Len(cmds[i])
  <1>1. /\ stage[i] = "send" /\ left \in 1..5 /\ UNCHANGED topic
        /\ left = 1 => NextRecord(i)
        /\ left # 1 => /\ cmds' = [cmds EXCEPT ![i] = Tail(cmds[i])] /\ Len(Tail(cmds[i])) = left - 1
                       /\ UNCHANGED <<offsets, stage, turn>>
    BY SendEffect DEF MidInv
  <1>2. GeoTypes /\ WorkerTypes
    BY LoopTypes DEF MidInv
  <1>3. d \in Driver /\ c \in Cell /\ c # None
    BY <1>1, SendingAt DEF MidInv
  <1>4. /\ left = 5 => geoCell[d] # None /\ geoCell[d] # c /\ Head(cmds[i]).c = geoCell[d]
        /\ left \in {3, 4} => geoCell[d] # c /\ (geoCell[d] # None => d \notin members[geoCell[d]])
        /\ left = 3 => d \in members[c]
        /\ left \in {1, 2} => geoCell[d] = c
    BY <1>1 DEF MidInv, Midway
  <1>5. left = 1 => stage'[i] # "send"
    BY <1>1, <1>2 DEF NextRecord, Goto, WorkerTypes
  <1>6. left # 1 => cmds'[i] = Tail(cmds[i]) /\ Record(i)' = Record(i)
    BY <1>1, <1>2 DEF WorkerTypes, Record, topic, offsets
  <1>7. /\ left = 5 => members' = [members EXCEPT ![Head(cmds[i]).c] = @ \ {d}] /\ geoCell' = geoCell
        /\ left = 4 => members' = [members EXCEPT ![c] = @ \union {d}] /\ geoCell' = geoCell
        /\ left = 3 => geoCell' = [geoCell EXCEPT ![d] = c]
        /\ left = 2 => geoPos' = [geoPos EXCEPT ![d] = PosOf(Record(i))] /\ geoCell' = geoCell
    BY SendEffect DEF MidInv
  <1> DEFINE rec == Record(i)
  <1>8. left # 1 => Len(cmds'[i]) = left - 1
    BY <1>1, <1>6
  <1>9. CASE left = 5
    <2>1. geoCell'[d] = geoCell[d] /\ d \notin members'[geoCell[d]]
      BY <1>2, <1>3, <1>4, <1>7, <1>9 DEF GeoTypes
    <2>2. Len(cmds'[i]) = 4 /\ Record(i)' = Record(i)
      BY <1>6, <1>8, <1>9
    <2>3. geoCell'[d] # c
      BY <1>4, <1>9, <2>1
    <2> HIDE DEF left
    <2> QED BY <2>1, <2>2, <2>3 DEF Midway
  <1>10. CASE left = 4
    <2>1. geoCell'[d] = geoCell[d] /\ d \in members'[c] /\ geoCell[d] # c
      BY <1>2, <1>3, <1>4, <1>7, <1>10 DEF GeoTypes
    <2>2. geoCell[d] # None => d \notin members'[geoCell[d]]
      BY <1>2, <1>3, <1>4, <1>7, <1>10 DEF GeoTypes
    <2>3. Len(cmds'[i]) = 3 /\ Record(i)' = Record(i)
      BY <1>6, <1>8, <1>10
    <2> HIDE DEF left
    <2> QED BY <2>1, <2>2, <2>3 DEF Midway
  <1>11. CASE left = 3
    <2>1. geoCell'[d] = c
      BY <1>2, <1>3, <1>7, <1>11 DEF GeoTypes
    <2>2. Len(cmds'[i]) = 2 /\ Record(i)' = Record(i)
      BY <1>6, <1>8, <1>11
    <2> HIDE DEF left
    <2> QED BY <2>1, <2>2 DEF Midway
  <1>12. CASE left = 2
    <2>1. geoCell'[d] = c /\ geoPos'[d] = PosOf(Record(i))
      BY <1>2, <1>3, <1>4, <1>7, <1>12 DEF GeoTypes
    <2>2. Len(cmds'[i]) = 1 /\ Record(i)' = Record(i)
      BY <1>6, <1>8, <1>12
    <2> HIDE DEF left
    <2> QED BY <2>1, <2>2 DEF Midway
  <1>13. CASE left = 1
    BY <1>5, <1>13 DEF Midway
  <1> QED BY <1>1, <1>9, <1>10, <1>11, <1>12, <1>13

\* What an indexer does to itself leaves the pipelines of the others.
LEMMA MidwayOthers ==
    ASSUME MidInv, NEW i \in Indexer, NEW j \in Indexer \ {i}, UNCHANGED topic,
           stage'[j] = stage[j], turn'[j] = turn[j], cmds'[j] = cmds[j],
           \A q \in Part : OwnerOf[q] # i => indexed'[q] = indexed[q],
           \/ UNCHANGED geo
           \/ OneIndexerEach /\ stage[i] = "send" /\ Others(Record(i).d)
    PROVE  Midway(j)'
  <1>1. Grows
    BY SameGrows DEF MidInv
  <1>2. CASE stage[j] = "send"
    <2>1. indexed'[turn[j]] = indexed[turn[j]] /\ Record(j).d \in Driver
      BY <1>2, SendingAt DEF MidInv
    <2>2. /\ geoCell'[Record(j).d] = geoCell[Record(j).d]
          /\ geoPos'[Record(j).d] = geoPos[Record(j).d]
          /\ \A x \in Cell : Record(j).d \in members'[x] <=> Record(j).d \in members[x]
      <3>1. CASE UNCHANGED geo
        BY <3>1 DEF geo
      <3>2. CASE OneIndexerEach /\ stage[i] = "send" /\ Others(Record(i).d)
        <4>1. Record(i).d # Record(j).d
          BY <1>2, <3>2, SendApart DEF MidInv
        <4> QED BY <2>1, <3>2, <4>1 DEF Others
      <3> QED BY <3>1, <3>2
    <2> QED BY <1>1, <1>2, <2>1, <2>2, MidwayStays
  <1>3. CASE stage[j] # "send"
    BY <1>3 DEF Midway
  <1> QED BY <1>2, <1>3

\* Pipelines do what they are meant to.
LEMMA MidInvStep ==
    ASSUME OneIndexerEach, NothingFails, MidInv, [Next]_vars
    PROVE  MidInv'
  <1>0. LoopInv'
    BY LoopInvStep DEF MidInv
  <1>t. WorkerTypes
    BY LoopTypes DEF MidInv
  <1>1. ASSUME NEW i \in Indexer, Send(i) PROVE \A j \in Indexer : Midway(j)'
    <2>1. Midway(i)'
      BY <1>1, MidwaySend
    <2>2. ASSUME NEW j \in Indexer \ {i} PROVE Midway(j)'
      <3>1. /\ stage[i] = "send" /\ Others(Record(i).d) /\ UNCHANGED topic
            /\ \/ NextRecord(i)
               \/ cmds' = [cmds EXCEPT ![i] = Tail(cmds[i])] /\ UNCHANGED <<offsets, stage, turn>>
        BY <1>1, SendEffect DEF MidInv
      <3>2. turn[i] \in Part /\ OwnerOf[turn[i]] = i
        BY <3>1, SendingAt DEF MidInv
      <3>3. stage'[j] = stage[j] /\ turn'[j] = turn[j] /\ cmds'[j] = cmds[j]
        BY <1>t, <3>1 DEF NextRecord, Goto, WorkerTypes
      <3>4. \A q \in Part : OwnerOf[q] # i => indexed'[q] = indexed[q]
        <4>1. OffsetTypes
          BY LoopTypes DEF MidInv
        <4> QED BY <3>1, <3>2, <4>1 DEF NextRecord, offsets, OffsetTypes
      <3> QED BY <3>1, <3>3, <3>4, MidwayOthers
    <2> QED BY <2>1, <2>2
  <1>2. ASSUME NEW i \in Indexer, ReadCell(i) PROVE \A j \in Indexer : Midway(j)'
    <2>1. Midway(i)'
      BY <1>2, MidwayRead
    <2>2. ASSUME NEW j \in Indexer \ {i} PROVE Midway(j)'
      <3>1. UNCHANGED <<topic, geo, offsets>>
        BY <1>2 DEF ReadCell
      <3>2. stage'[j] = stage[j] /\ turn'[j] = turn[j] /\ cmds'[j] = cmds[j]
        BY <1>2, <1>t DEF ReadCell, Goto, WorkerTypes
      <3> QED BY <3>1, <3>2, MidwayOthers DEF offsets
    <2> QED BY <2>1, <2>2
  <1>3. ASSUME NEW i \in Indexer, Poll(i) \/ Commit(i) \/ Crash(i) PROVE \A j \in Indexer : Midway(j)'
    <2>1. /\ UNCHANGED <<topic, geo>> /\ stage'[i] # "send"
          /\ \A j \in Indexer \ {i} : stage'[j] = stage[j] /\ turn'[j] = turn[j] /\ cmds'[j] = cmds[j]
          /\ \A q \in Part : OwnerOf[q] # i => indexed'[q] = indexed[q]
      <3>1. CASE Poll(i)
        BY <1>t, <3>1 DEF Poll, Goto, WorkerTypes
      <3>2. CASE Commit(i)
        BY <1>t, <3>2 DEF Commit, Goto, WorkerTypes
      <3>3. CASE Crash(i)
        BY <1>t, <3>3 DEF Crash, Goto, Replace, Owned, WorkerTypes
      <3> QED BY <1>3, <3>1, <3>2, <3>3
    <2>2. Midway(i)'
      BY <2>1 DEF Midway
    <2>3. ASSUME NEW j \in Indexer \ {i} PROVE Midway(j)'
      BY <2>1, MidwayOthers
    <2> QED BY <2>2, <2>3
  <1>4. ASSUME Grows, UNCHANGED <<offsets, geo, worker>> PROVE \A j \in Indexer : Midway(j)'
    BY <1>4, MidwayStays DEF offsets, geo, worker
  <1>5. CASE \E i \in Indexer : Work(i) \/ Crash(i)
    BY <1>0, <1>1, <1>2, <1>3, <1>5 DEF MidInv, Work, PollFailed, PipelineBreaks, NothingFails
  <1>6. CASE \/ \E d \in Driver, p \in Place : DriverReports(d, p)
             \/ \E q \in Part : Flush(q)
             \/ GatewayCrash
    BY <1>0, <1>4, <1>6, GatewayKeeps DEF MidInv
  <1>7. CASE Tick \/ UNCHANGED vars
    BY <1>0, <1>4, <1>7, TickKeeps, SameGrows DEF MidInv
  <1> QED BY <1>5, <1>6, <1>7 DEF Next

\* A step either sends a command or leaves Redis alone, and then what was to be
\* indexed is still.
Quiet == Grows /\ UNCHANGED geo /\ \A q \in Part : indexed'[q] <= indexed[q]

\* Every other step is quiet.
LEMMA QuietOrSend ==
    ASSUME NothingFails, LoopInv, [Next]_vars
    PROVE  Quiet \/ \E i \in Indexer : Send(i)
  <1>0. OffsetTypes /\ Ordered
    BY LoopTypes
  <1>1. \A q \in Part : indexed[q] \in Nat /\ committed[q] <= indexed[q] /\ indexed[q] <= indexed[q]
    BY <1>0 DEF OffsetTypes, Ordered
  <1>2. ASSUME UNCHANGED <<topic, geo>>, \A q \in Part : indexed'[q] = indexed[q] \/ indexed'[q] = committed[q]
        PROVE  Quiet
    BY <1>1, <1>2, SameGrows DEF Quiet
  <1>3. ASSUME NEW i \in Indexer, Poll(i) \/ ReadCell(i) \/ Commit(i) \/ Crash(i) PROVE Quiet
    <2>1. CASE Poll(i)
      BY <1>2, <2>1 DEF Poll
    <2>2. CASE ReadCell(i)
      BY <1>2, <2>2 DEF ReadCell, offsets
    <2>3. CASE Commit(i)
      BY <1>2, <2>3 DEF Commit
    <2>4. CASE Crash(i)
      BY <1>2, <2>4 DEF Crash, Replace
    <2> QED BY <1>3, <2>1, <2>2, <2>3, <2>4
  <1>4. CASE \E i \in Indexer : Work(i) \/ Crash(i)
    BY <1>3, <1>4 DEF Work, PollFailed, PipelineBreaks, NothingFails
  <1>5. CASE \/ \E d \in Driver, p \in Place : DriverReports(d, p)
             \/ \E q \in Part : Flush(q)
             \/ GatewayCrash
    BY <1>1, <1>5, GatewayKeeps DEF Quiet, offsets
  <1>6. CASE Tick \/ UNCHANGED vars
    BY <1>2, <1>6, TickKeeps DEF offsets
  <1> QED BY <1>4, <1>5, <1>6 DEF Next

\* A quiet step leaves the records that put things right.
LEMMA QuietRecovers ==
    ASSUME LoopInv, LoopInv', Quiet, NEW d \in Driver, Recoverable(d)
    PROVE  Recoverable(d)'
  <1>1. Coming(d) \subseteq Coming(d)'
    BY ComingStays DEF Quiet
  <1>2. members' = members /\ geoCell' = geoCell /\ PosCell(d)' = PosCell(d)
    BY DEF Quiet, geo, PosCell, NoPos, cellOf
  <1> QED BY <1>1, <1>2 DEF Recoverable

\* The record being indexed is one of those coming, and the only one that is
\* gone when its last command is sent.
LEMMA SendComing ==
    ASSUME LoopInv, NEW i \in Indexer, Send(i), NEW e \in Driver
    PROVE  /\ cellOf[Record(i).at] \in Coming(Record(i).d)
           /\ Len(cmds[i]) # 1 => Coming(e)' = Coming(e)
           /\ e # Record(i).d => Coming(e) \subseteq Coming(e)'
           /\ Coming(e) \subseteq Coming(e)' \union {cellOf[Record(i).at]}
  <1> DEFINE t == turn[i]
             c == cellOf[Record(i).at]
  <1>1. /\ stage[i] = "send" /\ UNCHANGED topic
        /\ Len(cmds[i]) = 1 => NextRecord(i)
        /\ Len(cmds[i]) # 1 => UNCHANGED offsets
    BY SendEffect
  <1>2. /\ t \in Part /\ indexed[t] \in Nat /\ indexed[t] + 1 \in 1..sent[t]
        /\ Record(i) = log[t][indexed[t] + 1] /\ c \in Cell
    BY <1>1, SendingAt
  <1>3. OffsetTypes
    BY LoopTypes
  <1>4. log' = log /\ sent' = sent
    BY <1>1 DEF topic
  <1>5. c \in Coming(Record(i).d)
    <2>1. indexed[t] + 1 \in (indexed[t] + 1)..sent[t]
      BY <1>2, <1>3 DEF OffsetTypes
    <2> QED BY <1>2, <2>1 DEF Coming
  <1>6. Len(cmds[i]) # 1 => Coming(e)' = Coming(e)
    BY <1>1, <1>4 DEF offsets, Coming
  <1>7. ASSUME Len(cmds[i]) = 1, NEW x \in Coming(e) PROVE x \in Coming(e)' \/ (x = c /\ e = Record(i).d)
    <2>1. indexed' = [indexed EXCEPT ![t] = @ + 1]
      BY <1>1, <1>7 DEF NextRecord
    <2>0. PICK q \in Part : \E k \in (indexed[q] + 1)..sent[q] : log[q][k].d = e /\ cellOf[log[q][k].at] = x
      BY DEF Coming
    <2>2. PICK k \in (indexed[q] + 1)..sent[q] : log[q][k].d = e /\ cellOf[log[q][k].at] = x
      BY <2>0
    <2>3. indexed[q] \in Nat /\ sent[q] \in Nat /\ k \in Nat /\ x \in Cell
      BY <1>3, <2>2 DEF OffsetTypes, Coming
    <2>4. CASE q = t /\ k = indexed[t] + 1
      BY <1>2, <2>2, <2>4
    <2>5. CASE ~(q = t /\ k = indexed[t] + 1)
      <3>1. k \in (indexed'[q] + 1)..sent'[q]
        BY <1>2, <1>3, <1>4, <2>1, <2>2, <2>3, <2>5 DEF OffsetTypes
      <3> QED BY <1>4, <2>2, <2>3, <3>1 DEF Coming
    <2> QED BY <2>4, <2>5
  <1> QED BY <1>5, <1>6, <1>7

\* What is wrong in between is put right by the commands that follow.
LEMMA SendRecovers ==
    ASSUME MidInv, NEW i \in Indexer, Send(i), \A e \in Driver : Recoverable(e), NEW e \in Driver
    PROVE  Recoverable(e)'
  <1> DEFINE d == Record(i).d
             c == cellOf[Record(i).at]
             left == Len(cmds[i])
  <1>1. /\ stage[i] = "send" /\ left \in 1..5 /\ Others(d)
        /\ left = 5 => /\ members' = [members EXCEPT ![Head(cmds[i]).c] = @ \ {d}] /\ UNCHANGED <<geoCell, geoPos>>
        /\ left = 4 => /\ members' = [members EXCEPT ![c] = @ \union {d}] /\ UNCHANGED <<geoCell, geoPos>>
        /\ left = 3 => /\ geoCell' = [geoCell EXCEPT ![d] = c] /\ UNCHANGED <<members, geoPos>>
        /\ left = 2 => /\ geoPos' = [geoPos EXCEPT ![d] = PosOf(Record(i))] /\ UNCHANGED <<members, geoCell>>
        /\ left = 1 => UNCHANGED <<members, geoCell, geoPos>>
    BY SendEffect DEF MidInv
  <1>2. GeoTypes
    BY LoopTypes DEF MidInv
  <1>3. d \in Driver /\ c \in Cell /\ c # None
    BY <1>1, SendingAt DEF MidInv
  <1>4. /\ left = 5 => geoCell[d] # None /\ geoCell[d] # c /\ Head(cmds[i]).c = geoCell[d]
        /\ left \in {3, 4} => geoCell[d] # c /\ (geoCell[d] # None => d \notin members[geoCell[d]])
        /\ left = 3 => d \in members[c]
        /\ left \in {1, 2} => geoCell[d] = c
        /\ left = 1 => geoPos[d] = PosOf(Record(i))
    BY <1>1 DEF MidInv, Midway
  <1>5. /\ c \in Coming(d)
        /\ left # 1 => Coming(e)' = Coming(e)
        /\ e # d => Coming(e) \subseteq Coming(e)'
        /\ Coming(e) \subseteq Coming(e)' \union {c}
    BY SendComing DEF MidInv
  <1>6. /\ \A x \in Cell : e \in members[x] => x = geoCell[e] \/ x \in Coming(e)
        /\ geoCell[e] # None /\ e \notin members[geoCell[e]] => \E x \in Coming(e) : x # geoCell[e]
        /\ geoCell[e] # PosCell(e) => Coming(e) # {}
    BY DEF Recoverable
  <1>7. geoCell[e] \in Cell \union {None} /\ (geoPos'[e] = geoPos[e] => PosCell(e)' = PosCell(e))
    BY <1>2 DEF GeoTypes, PosCell, NoPos, cellOf
  <1>8. CASE e # d
    <2>1. /\ geoCell'[e] = geoCell[e] /\ geoPos'[e] = geoPos[e]
          /\ \A x \in Cell : e \in members'[x] <=> e \in members[x]
      BY <1>1, <1>8 DEF Others
    <2>2. geoCell[e] # None => (e \in members'[geoCell[e]] <=> e \in members[geoCell[e]])
      BY <1>7, <2>1
    <2> HIDE DEF d, c, left
    <2> QED BY <1>5, <1>6, <1>7, <1>8, <2>1, <2>2 DEF Recoverable
  <1>9. CASE e = d /\ left = 5
    <2>1. geoCell'[e] = geoCell[e] /\ geoPos'[e] = geoPos[e] /\ Coming(e)' = Coming(e)
      BY <1>1, <1>5, <1>9
    <2>2. \A x \in Cell : e \in members'[x] => e \in members[x]
      BY <1>1, <1>2, <1>9 DEF GeoTypes
    <2>3. c \in Coming(e)' /\ c # geoCell'[e]
      BY <1>4, <1>5, <1>9, <2>1
    <2> HIDE DEF d, c, left
    <2> QED BY <1>6, <2>1, <2>2, <2>3 DEF Recoverable
  <1>10. CASE e = d /\ left = 4
    <2>1. geoCell'[e] = geoCell[e] /\ geoPos'[e] = geoPos[e] /\ Coming(e)' = Coming(e)
      BY <1>1, <1>5, <1>10
    <2>2. \A x \in Cell : e \in members'[x] => e \in members[x] \/ x = c
      BY <1>1, <1>2, <1>10 DEF GeoTypes
    <2>3. c \in Coming(e)' /\ c # geoCell'[e]
      BY <1>4, <1>5, <1>10, <2>1
    <2> HIDE DEF d, c, left
    <2> QED BY <1>6, <2>1, <2>2, <2>3 DEF Recoverable
  <1>11. CASE e = d /\ left = 3
    <2>1. geoCell'[e] = c /\ geoPos'[e] = geoPos[e] /\ members' = members /\ Coming(e)' = Coming(e)
      BY <1>1, <1>2, <1>3, <1>5, <1>11 DEF GeoTypes
    <2>2. e \in members'[c] /\ c \in Coming(e)'
      BY <1>4, <1>5, <1>11, <2>1
    <2>3. \A x \in Cell : e \in members[x] => x \in Coming(e)
      BY <1>3, <1>4, <1>6, <1>11, NoneIsNone
    <2> HIDE DEF d, c, left
    <2> QED BY <2>1, <2>2, <2>3 DEF Recoverable
  <1>12. CASE e = d /\ left = 2
    <2>1. geoCell' = geoCell /\ members' = members /\ Coming(e)' = Coming(e) /\ c \in Coming(e)
      BY <1>1, <1>5, <1>12
    <2> HIDE DEF d, c, left
    <2> QED BY <1>6, <2>1 DEF Recoverable
  <1>13. CASE e = d /\ left = 1
    <2>1. geoCell' = geoCell /\ members' = members /\ geoPos' = geoPos /\ geoCell[e] = c
          /\ geoPos[e] = PosOf(Record(i))
      BY <1>1, <1>4, <1>13
    <2>2. \A x \in Coming(e) : x # geoCell[e] => x \in Coming(e)'
      BY <1>5, <2>1
    <2>3. geoCell[e] = PosCell(e)
      <3>1. Record(i) \in Report
        BY <1>1, SendingAt DEF MidInv
      <3>2. Record(i).n # 0
        BY <3>1 DEF Report
      <3> QED BY <2>1, <3>2 DEF PosOf, PosCell, NoPos
    <2>4. PosCell(e)' = PosCell(e)
      BY <1>7, <2>1
    <2> HIDE DEF d, c, left
    <2> QED BY <1>6, <2>1, <2>2, <2>3, <2>4 DEF Recoverable
  <1> QED BY <1>1, <1>8, <1>9, <1>10, <1>11, <1>12, <1>13

\* At first nothing is wrong.
LEMMA ExactInvInit == Init => ExactInv
  <1> SUFFICES ASSUME Init PROVE ExactInv
    OBVIOUS
  <1>1. LoopInv
    BY LoopInvInit
  <1>2. \A i \in Indexer : Midway(i)
    BY DEF Init, Midway
  <1>3. ASSUME NEW d \in Driver PROVE Recoverable(d)
    <2>1. geoCell[d] = None /\ geoPos[d] = NoPos /\ \A x \in Cell : members[x] = {}
      BY DEF Init
    <2> QED BY <2>1 DEF Recoverable, PosCell
  <1> QED BY <1>1, <1>2, <1>3 DEF ExactInv

\* Whatever gets wrong is put right by a record to come.
LEMMA ExactInvStep ==
    OneIndexerEach /\ NothingFails /\ ExactInv /\ [Next]_vars => ExactInv'
  <1> SUFFICES ASSUME OneIndexerEach, NothingFails, ExactInv, [Next]_vars PROVE ExactInv'
    OBVIOUS
  <1>1. MidInv /\ \A d \in Driver : Recoverable(d)
    BY DEF ExactInv, MidInv
  <1>2. MidInv'
    BY <1>1, MidInvStep
  <1>3. ASSUME NEW d \in Driver PROVE Recoverable(d)'
    <2>1. CASE Quiet
      BY <1>1, <1>2, <2>1, QuietRecovers DEF MidInv
    <2>2. CASE \E i \in Indexer : Send(i)
      BY <1>1, <2>2, SendRecovers
    <2> QED BY <1>1, <2>1, <2>2, QuietOrSend DEF MidInv
  <1> QED BY <1>2, <1>3 DEF ExactInv, MidInv

\* Once the indexers have caught up nothing is to come.
LEMMA NothingComes ==
    ASSUME LoopInv, CaughtUp, NEW q \in Part
    PROVE  indexed[q] = Len(log[q]) /\ sent[q] = Len(log[q]) /\ Len(log[q]) \in Nat
  <1>1. OffsetTypes /\ Ordered /\ TopicTypes /\ WorkerTypes
    BY LoopTypes
  <1>2. OwnerOf[q] \in Indexer /\ q \in Owned(OwnerOf[q])
    BY IndexAssumption DEF Owned
  <1>3. indexed[q] = fetched[q]
    BY <1>2 DEF LoopInv, Working, CaughtUp
  <1>4. fetched[q] = Len(log[q]) /\ fetched[q] \in Nat /\ sent[q] \in Nat
        /\ fetched[q] <= sent[q] /\ sent[q] <= Len(log[q])
    BY <1>1 DEF CaughtUp, OffsetTypes, Ordered
  <1> QED BY <1>3, <1>4

\* "processing twice must equal processing once": whatever crashes and lost
\* commits make come again, once the indexers have caught up a driver is in the
\* Set of the cell geo:cell names and in no other, if its records are all one
\* indexer's and no command or poll fails.
THEOREM SetsAreExact ==
    ASSUME OneIndexerEach, NothingFails
    PROVE  Spec => []IndexExact
  <1>1. ExactInv => IndexExact
    <2> SUFFICES ASSUME ExactInv, CaughtUp, NEW d \in Driver PROVE Exact(d)
      BY DEF IndexExact
    <2>1. LoopInv /\ Recoverable(d)
      BY DEF ExactInv
    <2>2. Coming(d) = {}
      <3> SUFFICES ASSUME NEW q \in Part, NEW k \in (indexed[q] + 1)..sent[q] PROVE FALSE
        BY DEF Coming
      <3> QED BY <2>1, NothingComes
    <2>3. geoCell[d] \in Cell \union {None}
      BY <2>1, LoopTypes DEF GeoTypes
    <2> QED BY <2>1, <2>2, <2>3, NoneIsNone DEF Recoverable, Exact
  <1>2. Init => ExactInv
    BY ExactInvInit
  <1>3. ExactInv /\ [Next]_vars => ExactInv'
    BY ExactInvStep
  <1> QED BY <1>1, <1>2, <1>3, PTL DEF Spec

(* geo:pos.  For the last position to be the last one written, the records   *)
(* of a driver must be in one partition.                                     *)

OnePartitionEach ==
    \A d \in Driver : \A p, r \in Roam[d] : PartOf[keyOf[p]] = PartOf[keyOf[r]]

\* The records of one driver are in one partition.
LEMMA OnePartitionOf ==
    ASSUME LoopInv, OnePartitionEach, NEW q \in Part, NEW r \in Part,
           NEW k \in 1..Len(log[q]), NEW l \in 1..Len(log[r]), log[q][k].d = log[r][l].d
    PROVE  q = r
  <1>1. log[q] \in Seq(Report) /\ log[r] \in Seq(Report)
    BY TypeParts DEF LoopInv, TopicTypes
  <1>2. log[q][k] \in Report /\ log[r][l] \in Report
    BY <1>1
  <1>3. /\ log[q][k].at \in Roam[log[q][k].d] /\ PartOf[keyOf[log[q][k].at]] = q
        /\ log[r][l].at \in Roam[log[r][l].d] /\ PartOf[keyOf[log[r][l].at]] = r
    BY DEF LoopInv, Numbered
  <1>4. log[q][k].d \in Driver
    BY <1>2 DEF Report
  <1> QED BY <1>3, <1>4 DEF OnePartitionEach

\* Then they are with one indexer.
LEMMA OnePartitionOneIndexer == OnePartitionEach => OneIndexerEach
  BY DEF OnePartitionEach, OneIndexerEach

\* The records that were indexed have been sent.
LEMMA IndexedSent ==
    ASSUME LoopInv, NEW q \in Part, NEW k \in 1..indexed[q]
    PROVE  /\ indexed[q] \in Nat /\ sent[q] \in Nat /\ Len(log[q]) \in Nat /\ k \in 1..sent[q]
           /\ k \in 1..Len(log[q]) /\ log[q][k] \in Report /\ log[q][k].d \in Driver
           /\ indexed[q] <= sent[q] /\ sent[q] <= Len(log[q])
  <1>1. OffsetTypes /\ Ordered /\ TopicTypes
    BY LoopTypes
  <1>2. /\ indexed[q] \in Nat /\ fetched[q] \in Nat /\ sent[q] \in Nat /\ log[q] \in Seq(Report)
        /\ indexed[q] <= fetched[q] /\ fetched[q] <= sent[q] /\ sent[q] <= Len(log[q])
    BY <1>1 DEF OffsetTypes, Ordered, TopicTypes
  <1>3. Len(log[q]) \in Nat /\ k \in Nat
    BY <1>2
  <1>4. k \in 1..sent[q] /\ k \in 1..Len(log[q])
    BY <1>2, <1>3
  <1>5. log[q][k] \in Report
    BY <1>2, <1>4
  <1> QED BY <1>2, <1>3, <1>4, <1>5 DEF Report

\* A quiet step leaves the last record of a driver what it is.
LEMMA QuietLatest ==
    ASSUME LoopInv, LoopInv', Quiet, Latest
    PROVE  Latest'
  <1> SUFFICES ASSUME NEW q \in Part, NEW k \in 1..indexed'[q],
                      \A l \in (k + 1)..sent'[q] : log'[q][l].d # log'[q][k].d
               PROVE  /\ geoPos'[log'[q][k].d] = PosOf(log'[q][k])
                      /\ geoCell'[log'[q][k].d] = cellOf[log'[q][k].at]
    BY DEF Latest, PosOf, cellOf
  <1>1. indexed'[q] \in Nat /\ sent'[q] \in Nat
    <2>1. OffsetTypes'
      BY LoopTypesNext
    <2> QED BY <2>1 DEF OffsetTypes
  <1>2. indexed[q] \in Nat /\ indexed'[q] <= indexed[q]
    BY LoopTypes DEF Quiet, OffsetTypes
  <1>3. k \in 1..indexed[q]
    BY <1>1, <1>2
  <1>4. k \in 1..sent[q] /\ sent[q] \in Nat
    BY <1>3, IndexedSent
  <1>5. sent[q] <= sent'[q] /\ \A l \in 1..sent[q] : log'[q][l] = log[q][l]
    BY DEF Quiet, Grows
  <1>6. \A l \in (k + 1)..sent[q] : l \in (k + 1)..sent'[q] /\ log'[q][l] = log[q][l]
    BY <1>1, <1>4, <1>5
  <1>7. log'[q][k] = log[q][k]
    BY <1>4, <1>5
  <1>8. geoPos[log[q][k].d] = PosOf(log[q][k]) /\ geoCell[log[q][k].d] = cellOf[log[q][k].at]
    BY <1>3, <1>6, <1>7 DEF Latest
  <1> QED BY <1>7, <1>8 DEF Quiet, geo

\* The record being indexed is later than those of its driver that were; when
\* its last command is sent, Redis says what it says.
LEMMA SendLatest ==
    ASSUME OnePartitionEach, MidInv, NEW i \in Indexer, Send(i), Latest
    PROVE  Latest'
  <1> DEFINE t == turn[i]
             rec == Record(i)
  <1>1. /\ stage[i] = "send" /\ UNCHANGED topic /\ Others(rec.d)
        /\ Len(cmds[i]) = 1 => NextRecord(i) /\ UNCHANGED <<members, geoCell, geoPos>>
        /\ Len(cmds[i]) # 1 => UNCHANGED offsets
    BY SendEffect DEF MidInv
  <1>2. /\ t \in Part /\ indexed[t] \in Nat /\ indexed[t] + 1 \in 1..sent[t]
        /\ indexed[t] + 1 \in 1..Len(log[t]) /\ rec = log[t][indexed[t] + 1] /\ rec.d \in Driver
    BY <1>1, SendingAt DEF MidInv
  <1>3. OffsetTypes
    BY LoopTypes DEF MidInv
  <1>4. log' = log /\ sent' = sent
    BY <1>1 DEF topic
  <1>5. Len(cmds[i]) = 1 => geoCell[rec.d] = cellOf[rec.at] /\ geoPos[rec.d] = PosOf(rec)
    BY <1>1 DEF MidInv, Midway
  <1> HIDE DEF rec
  <1> SUFFICES ASSUME NEW q \in Part, NEW k \in 1..indexed'[q],
                      \A l \in (k + 1)..sent[q] : log[q][l].d # log[q][k].d
               PROVE  /\ geoPos'[log[q][k].d] = PosOf(log[q][k])
                      /\ geoCell'[log[q][k].d] = cellOf[log[q][k].at]
    BY <1>4 DEF Latest, PosOf, cellOf
  <1>6. CASE k \in 1..indexed[q]
    <2>1. /\ k \in 1..sent[q] /\ k \in 1..Len(log[q]) /\ log[q][k].d \in Driver
          /\ indexed[q] \in Nat /\ sent[q] \in Nat
      BY <1>6, IndexedSent DEF MidInv
    <2>2. geoPos[log[q][k].d] = PosOf(log[q][k]) /\ geoCell[log[q][k].d] = cellOf[log[q][k].at]
      BY <1>6 DEF Latest
    <2>3. log[q][k].d # rec.d
      <3> SUFFICES ASSUME log[q][k].d = rec.d PROVE FALSE
        OBVIOUS
      <3>1. log[q][k].d = log[t][indexed[t] + 1].d
        BY <1>2
      <3>2. q = t
        BY <1>2, <2>1, <3>1, OnePartitionOf DEF MidInv
      <3>3. indexed[t] + 1 \in (k + 1)..sent[t]
        BY <1>2, <1>6, <2>1, <3>2
      <3> QED BY <3>1, <3>2, <3>3
    <2> QED BY <1>1, <2>1, <2>2, <2>3 DEF Others
  <1>7. CASE k \notin 1..indexed[q]
    <2>1. Len(cmds[i]) = 1 /\ indexed' = [indexed EXCEPT ![t] = @ + 1]
      BY <1>1, <1>7 DEF NextRecord, offsets
    <2>2. q = t /\ k = indexed[t] + 1
      BY <1>2, <1>3, <1>7, <2>1 DEF OffsetTypes
    <2> QED BY <1>1, <1>2, <1>5, <2>1, <2>2
  <1> QED BY <1>6, <1>7

\* What Redis says of a driver is what the last record indexed says.
LEMMA LatestStep ==
    OnePartitionEach /\ NothingFails /\ MidInv /\ Latest /\ [Next]_vars => MidInv' /\ Latest'
  <1> SUFFICES ASSUME OnePartitionEach, NothingFails, MidInv, Latest, [Next]_vars
               PROVE  MidInv' /\ Latest'
    OBVIOUS
  <1>1. MidInv'
    BY OnePartitionOneIndexer, MidInvStep
  <1>2. CASE Quiet
    BY <1>1, <1>2, QuietLatest DEF MidInv
  <1>3. CASE \E i \in Indexer : Send(i)
    BY <1>1, <1>3, SendLatest
  <1> QED BY <1>2, <1>3, QuietOrSend DEF MidInv

\* A set of numbers with a bound has a greatest.
LEMMA BoundedHasMax ==
    ASSUME NEW S \in SUBSET Nat, S # {}, NEW m \in Nat, \A x \in S : x <= m
    PROVE  Max(S) \in S /\ \A y \in S : y <= Max(S)
  <1> DEFINE T == {m - x : x \in S}
  <1>1. T \subseteq Nat /\ T # {}
    <2>1. \A x \in S : m - x \in Nat
      OBVIOUS
    <2> QED BY <2>1
  <1>2. \E t \in T : \A u \in T : ~ (<<u, t>> \in OpToRel(<, Nat))
    BY <1>1, NatLessThanWellFounded, WFMin
  <1>3. PICK t \in T : \A u \in T : ~ (<<u, t>> \in OpToRel(<, Nat))
    BY <1>2
  <1>4. PICK x \in S : t = m - x
    OBVIOUS
  <1>5. ASSUME NEW y \in S PROVE x >= y
    <2>1. m - y \in T /\ m - y \in Nat /\ t \in Nat
      BY <1>1
    <2>2. ~ (m - y < t)
      BY <1>3, <2>1 DEF OpToRel
    <2> QED BY <1>4, <2>2
  <1>6. \E z \in S : \A y \in S : z >= y
    BY <1>5
  <1>7. Max(S) \in S /\ \A y \in S : Max(S) >= y
    BY <1>6 DEF Max
  <1> QED BY <1>7

\* Reports of d that are in the topic have numbers.
Numbers(d) == {0} \union {r.n : r \in {x \in UNION {ToSet(log[q]) : q \in Part} : x.d = d}}

\* The greatest number of a report of d in the topic is that of a record, and
\* the record is the last of its driver.
LEMMA NewestIs ==
    ASSUME LoopInv, OnePartitionEach, NEW d \in Driver, Newest(d) > 0
    PROVE  \E q \in Part : \E k \in 1..Len(log[q]) :
              /\ log[q][k].d = d /\ log[q][k].n = Newest(d)
              /\ \A l \in (k + 1)..Len(log[q]) : log[q][l].d # d
  <1>0. TopicTypes /\ Numbered
    BY LoopTypes
  <1>1. ASSUME NEW q \in Part, NEW k \in 1..Len(log[q])
        PROVE  /\ log[q] \in Seq(Report) /\ Len(log[q]) \in Nat /\ log[q][k] \in Report
               /\ log[q][k].n \in 1..MaxReports /\ log[q][k] \in ToSet(log[q])
    <2>1. log[q] \in Seq(Report)
      BY <1>0 DEF TopicTypes
    <2>2. log[q][k] \in Report /\ Len(log[q]) \in Nat /\ k \in DOMAIN log[q]
      BY <2>1
    <2> QED BY <2>1, <2>2 DEF ToSet, Report
  <1>2. ASSUME NEW n \in Numbers(d), n # 0
        PROVE  \E q \in Part : \E k \in 1..Len(log[q]) : log[q][k].d = d /\ log[q][k].n = n
    <2>1. PICK r \in UNION {ToSet(log[q]) : q \in Part} : r.d = d /\ r.n = n
      BY <1>2 DEF Numbers
    <2>2. PICK q \in Part : r \in ToSet(log[q])
      OBVIOUS
    <2>3. log[q] \in Seq(Report)
      BY <1>0 DEF TopicTypes
    <2>4. PICK k \in 1..Len(log[q]) : r = log[q][k]
      BY <2>2, <2>3 DEF ToSet
    <2> QED BY <2>1, <2>4
  <1>3. MaxReports \in Nat
    BY LimitsHold DEF Limits
  <1>4. Numbers(d) \in SUBSET Nat /\ \A n \in Numbers(d) : n <= MaxReports
    <2>1. ASSUME NEW n \in Numbers(d) PROVE n \in 0..MaxReports
      <3>1. n # 0 => n \in 1..MaxReports
        BY <1>1, <1>2
      <3> QED BY <1>3, <3>1
    <2> QED BY <1>3, <2>1
  <1>5. 0 \in Numbers(d)
    BY DEF Numbers
  <1>6. Newest(d) = Max(Numbers(d))
    BY DEF Newest, Numbers
  <1>7. Newest(d) \in Numbers(d) /\ (\A n \in Numbers(d) : n <= Newest(d)) /\ Newest(d) # 0
    <2>1. Max(Numbers(d)) \in Numbers(d) /\ \A n \in Numbers(d) : n <= Max(Numbers(d))
      BY <1>3, <1>4, <1>5, BoundedHasMax
    <2>2. Newest(d) \in Nat
      BY <1>4, <1>6, <2>1
    <2> QED BY <1>6, <2>1, <2>2
  <1>8. PICK q \in Part : \E k \in 1..Len(log[q]) : log[q][k].d = d /\ log[q][k].n = Newest(d)
    BY <1>2, <1>7
  <1>9. PICK k \in 1..Len(log[q]) : log[q][k].d = d /\ log[q][k].n = Newest(d)
    BY <1>8
  <1>10. ASSUME NEW l \in (k + 1)..Len(log[q]), log[q][l].d = d PROVE FALSE
    <2>1. l \in 1..Len(log[q]) /\ k < l /\ Len(log[q]) \in Nat
      BY <1>1, <1>9
    <2>2. log[q][k].n < log[q][l].n
      BY <1>0, <1>9, <1>10, <2>1 DEF Numbered
    <2>3. log[q][l].n \in Numbers(d)
      <3>1. log[q][l] \in UNION {ToSet(log[r]) : r \in Part}
        BY <1>1, <2>1
      <3> QED BY <1>10, <3>1 DEF Numbers
    <2> QED BY <1>1, <1>7, <1>9, <2>1, <2>2, <2>3
  <1> QED BY <1>9, <1>10

\* "refresh the latest position": if the places of a driver have keys of one
\* partition and no command or poll fails, then once the indexers have caught up
\* geo:pos and geo:cell are those of the last report in the topic, also after
\* crashes that lost reports or made records come again.
THEOREM LatestPositionKept ==
    ASSUME OnePartitionEach, NothingFails
    PROVE  Spec => []LatestPosition
  <1>1. MidInv /\ Latest => LatestPosition
    <2> SUFFICES ASSUME MidInv, Latest, CaughtUp, NEW d \in Driver, Newest(d) > 0
                 PROVE  geoPos[d].n = Newest(d) /\ geoCell[d] = cellOf[geoPos[d].at]
      BY DEF LatestPosition
    <2>1. PICK q \in Part : \E k \in 1..Len(log[q]) :
                 /\ log[q][k].d = d /\ log[q][k].n = Newest(d)
                 /\ \A l \in (k + 1)..Len(log[q]) : log[q][l].d # d
      BY NewestIs DEF MidInv
    <2>2. PICK k \in 1..Len(log[q]) :
                 /\ log[q][k].d = d /\ log[q][k].n = Newest(d)
                 /\ \A l \in (k + 1)..Len(log[q]) : log[q][l].d # d
      BY <2>1
    <2>3. indexed[q] = Len(log[q]) /\ sent[q] = Len(log[q])
      BY NothingComes DEF MidInv
    <2>4. geoPos[d] = PosOf(log[q][k]) /\ geoCell[d] = cellOf[log[q][k].at]
      BY <2>2, <2>3 DEF Latest
    <2> QED BY <2>2, <2>4 DEF PosOf
  <1>2. Init => MidInv /\ Latest
    <2> SUFFICES ASSUME Init PROVE MidInv /\ Latest
      OBVIOUS
    <2>1. MidInv
      BY ExactInvInit DEF ExactInv, MidInv
    <2>2. \A q \in Part : indexed[q] = 0
      BY DEF Init
    <2> QED BY <2>1, <2>2 DEF Latest
  <1>3. MidInv /\ Latest /\ [Next]_vars => MidInv' /\ Latest'
    BY LatestStep
  <1> QED BY <1>1, <1>2, <1>3, PTL DEF Spec

(* Positions and time.  Failures do no harm here.                            *)

\* What is indexed or skipped need not be compared any more.
LEMMA SkipForward ==
    ASSUME LoopInv, LoopInv', Forward, UNCHANGED <<log, reports, geoPos, crashes>>,
           \A q \in Part : indexed[q] <= indexed'[q]
    PROVE  Forward'
  <1> SUFFICES ASSUME crashes = 0, NEW q \in Part, NEW k \in (indexed'[q] + 1)..Len(log[q])
               PROVE  geoPos[log[q][k].d].n <= log[q][k].n
    BY DEF Forward
  <1>1. indexed[q] \in Nat /\ log[q] \in Seq(Report)
    BY LoopTypes DEF OffsetTypes, TopicTypes
  <1>2. indexed'[q] \in Nat
    <2>1. OffsetTypes'
      BY LoopTypesNext
    <2> QED BY <2>1 DEF OffsetTypes
  <1>3. k \in (indexed[q] + 1)..Len(log[q])
    BY <1>1, <1>2
  <1> QED BY <1>3 DEF Forward

\* A report is numbered after the position known.
LEMMA ReportForward ==
    ASSUME LoopInv, Forward, NEW d \in Driver, NEW p \in Place, DriverReports(d, p)
    PROVE  Forward'
  <1> DEFINE h == PartOf[CellOf(p, "key")]
             new == [d |-> d, at |-> p, n |-> reports[d] + 1]
  <1>1. /\ reports' = [reports EXCEPT ![d] = reports[d] + 1]
        /\ log' = [log EXCEPT ![h] = Append(log[h], new)]
        /\ UNCHANGED <<indexed, geoPos, crashes>> /\ reports[d] < MaxReports
    BY DEF DriverReports, offsets, geo
  <1>2. TopicTypes /\ OffsetTypes /\ GeoTypes
    BY LoopTypes
  <1>3. h \in Part /\ log[h] \in Seq(Report) /\ MaxReports \in Nat
    BY <1>2, PlacesHave, LimitsHold DEF TopicTypes, Limits
  <1>4. new \in Report
    <2>1. reports[d] \in 0..MaxReports
      BY <1>2 DEF TopicTypes
    <2>2. reports[d] + 1 \in 1..MaxReports
      BY <1>1, <1>3, <2>1
    <2> QED BY <2>2 DEF Report
  <1>5. \A e \in Driver : reports[e] \in Nat /\ geoPos[e].n \in Nat
    <2>1. ASSUME NEW e \in Driver PROVE geoPos[e].n \in Nat
      <3>1. geoPos[e] \in Pos \union {NoPos}
        BY <1>2 DEF GeoTypes
      <3> QED BY <3>1 DEF Pos, NoPos
    <2>2. ASSUME NEW e \in Driver PROVE reports[e] \in Nat
      BY <1>2 DEF TopicTypes
    <2> QED BY <2>1, <2>2
  <1> SUFFICES ASSUME crashes = 0
               PROVE  /\ \A e \in Driver : geoPos[e].n <= reports'[e]
                      /\ \A q \in Part : \A k \in (indexed[q] + 1)..Len(log'[q]) :
                            geoPos[log'[q][k].d].n <= log'[q][k].n
    BY <1>1 DEF Forward
  <1>6. ASSUME NEW e \in Driver PROVE geoPos[e].n <= reports'[e]
    <2>1. geoPos[e].n <= reports[e] /\ reports[e] \in Nat /\ geoPos[e].n \in Nat
      BY <1>5 DEF Forward
    <2>2. reports'[e] = reports[e] \/ reports'[e] = reports[e] + 1
      BY <1>1, <1>2 DEF TopicTypes
    <2> QED BY <2>1, <2>2
  <1>7. ASSUME NEW q \in Part, NEW k \in (indexed[q] + 1)..Len(log'[q])
        PROVE  geoPos[log'[q][k].d].n <= log'[q][k].n
    <2>1. CASE q = h /\ k = Len(log[h]) + 1
      <3>1. log'[q][k] = new
        BY <1>1, <1>2, <1>3, <1>4, <2>1 DEF TopicTypes
      <3>2. geoPos[d].n <= reports[d] /\ reports[d] \in Nat /\ geoPos[d].n \in Nat
        BY <1>5 DEF Forward
      <3>3. new.d = d /\ new.n = reports[d] + 1
        OBVIOUS
      <3> HIDE DEF new, h
      <3> QED BY <3>1, <3>2, <3>3
    <2>2. CASE ~(q = h /\ k = Len(log[h]) + 1)
      <3>1. k \in (indexed[q] + 1)..Len(log[q]) /\ log'[q][k] = log[q][k]
        <4>1. indexed[q] \in Nat
          BY <1>2 DEF OffsetTypes
        <4>2. CASE q = h
          <5>1. log'[q] = Append(log[h], new) /\ Len(log[h]) \in Nat
            BY <1>1, <1>2, <1>3, <4>2 DEF TopicTypes
          <5> HIDE DEF new, h
          <5>2. Len(log'[q]) = Len(log[h]) + 1 /\ \A l \in 1..Len(log[h]) : log'[q][l] = log[h][l]
            BY <1>3, <1>4, <5>1
          <5>3. k \in (indexed[q] + 1)..Len(log[h]) /\ k \in 1..Len(log[h])
            BY <2>2, <4>1, <4>2, <5>1, <5>2
          <5> QED BY <4>2, <5>2, <5>3
        <4>3. CASE q # h
          <5>1. log'[q] = log[q]
            BY <1>1, <1>2, <4>3 DEF TopicTypes
          <5> QED BY <5>1
        <4> QED BY <4>2, <4>3
      <3> QED BY <3>1 DEF Forward
    <2> QED BY <2>1, <2>2
  <1> QED BY <1>6, <1>7

\* The position written is not older than that it replaces, and not newer than
\* those that follow.
LEMMA SendForward ==
    ASSUME OnePartitionEach, LoopInv, LoopInv', Forward, NEW i \in Indexer, Send(i)
    PROVE  Forward' /\ (crashes = 0 => \A d \in Driver : geoPos'[d].n >= geoPos[d].n)
  <1> DEFINE t == turn[i]
             rec == Record(i)
  <1>1. /\ stage[i] = "send" /\ UNCHANGED <<topic, now, crashes>> /\ Len(cmds[i]) \in 1..5
        /\ Len(cmds[i]) = 1 => NextRecord(i)
        /\ Len(cmds[i]) # 1 => UNCHANGED offsets
        /\ Len(cmds[i]) = 2 => geoPos' = [geoPos EXCEPT ![rec.d] = PosOf(rec)]
        /\ Len(cmds[i]) # 2 => geoPos' = geoPos
    BY SendEffect
  <1>2. /\ t \in Part /\ indexed[t] \in Nat /\ indexed[t] + 1 \in 1..Len(log[t])
        /\ rec = log[t][indexed[t] + 1] /\ rec.d \in Driver /\ rec \in Report
    BY <1>1, SendingAt
  <1>3. OffsetTypes /\ TopicTypes /\ GeoTypes /\ Numbered
    BY LoopTypes
  <1>4. log' = log /\ reports' = reports /\ crashes' = crashes
    BY <1>1 DEF topic
  <1>5. ASSUME NEW d \in Driver PROVE geoPos[d].n \in Nat
    <2>1. geoPos[d] \in Pos \union {NoPos}
      BY <1>3 DEF GeoTypes
    <2> QED BY <2>1 DEF Pos, NoPos
  <1>6. CASE Len(cmds[i]) # 2
    <2>0. indexed' = [indexed EXCEPT ![t] = indexed[t] + 1] \/ indexed' = indexed
      BY <1>1 DEF NextRecord, offsets
    <2>1. \A q \in Part : indexed[q] <= indexed'[q]
      BY <1>3, <2>0 DEF OffsetTypes
    <2>2. geoPos' = geoPos
      BY <1>1, <1>6
    <2> QED BY <1>4, <1>5, <2>1, <2>2, SkipForward
  <1>7. CASE Len(cmds[i]) = 2
    <2> HIDE DEF rec
    <2>1. geoPos' = [geoPos EXCEPT ![rec.d] = PosOf(rec)] /\ indexed' = indexed
      BY <1>1, <1>7 DEF offsets
    <2>2. geoPos'[rec.d].n = rec.n /\ rec.n \in Nat
          /\ \A d \in Driver \ {rec.d} : geoPos'[d] = geoPos[d]
      BY <1>2, <1>3, <2>1 DEF GeoTypes, PosOf, Report
    <2>3. ASSUME crashes = 0 PROVE geoPos[rec.d].n <= rec.n
      <3>1. indexed[t] + 1 \in (indexed[t] + 1)..Len(log[t])
        BY <1>2
      <3> QED BY <1>2, <2>3, <3>1 DEF Forward
    <2>4. rec.n <= reports[rec.d]
      BY <1>2, <1>3 DEF Numbered
    <2>5. ASSUME crashes = 0, NEW d \in Driver
          PROVE  geoPos'[d].n <= reports[d] /\ geoPos'[d].n >= geoPos[d].n
      <3>1. CASE d = rec.d
        BY <1>5, <2>2, <2>3, <2>4, <2>5, <3>1
      <3>2. CASE d # rec.d
        BY <1>5, <2>2, <2>5, <3>2 DEF Forward
      <3> QED BY <3>1, <3>2
    <2>6. ASSUME crashes = 0, NEW q \in Part, NEW k \in (indexed[q] + 1)..Len(log[q])
          PROVE  geoPos'[log[q][k].d].n <= log[q][k].n
      <3>1. indexed[q] \in Nat /\ log[q] \in Seq(Report)
        BY <1>3 DEF OffsetTypes, TopicTypes
      <3>2. k \in 1..Len(log[q]) /\ Len(log[q]) \in Nat /\ k \in Nat
        BY <3>1
      <3>3. log[q][k] \in Report
        BY <3>1, <3>2
      <3>4. log[q][k].d \in Driver
        BY <3>3 DEF Report
      <3>5. CASE log[q][k].d = rec.d
        <4>1. log[q][k].d = log[t][indexed[t] + 1].d
          BY <1>2, <3>5
        <4>2. q = t
          BY <1>2, <3>2, <4>1, OnePartitionOf
        <4>3. CASE k = indexed[t] + 1
          BY <1>2, <2>2, <4>2, <4>3
        <4>4. CASE k # indexed[t] + 1
          <5>1. indexed[t] + 1 < k
            BY <3>1, <4>2, <4>4
          <5>2. rec.n < log[q][k].n
            BY <1>2, <1>3, <3>2, <3>5, <4>2, <5>1 DEF Numbered
          <5>3. log[q][k].n \in Nat
            BY <3>3 DEF Report
          <5> QED BY <2>2, <3>5, <5>2, <5>3
        <4> QED BY <4>3, <4>4
      <3>6. CASE log[q][k].d # rec.d
        BY <2>2, <2>6, <3>4, <3>6 DEF Forward
      <3> QED BY <3>5, <3>6
    <2> QED BY <1>4, <2>1, <2>5, <2>6 DEF Forward
  <1> QED BY <1>6, <1>7

\* Positions and reports go forward until something crashes.
LEMMA ForwardStep ==
    ASSUME OnePartitionEach, LoopInv, Forward, [Next]_vars
    PROVE  Forward' /\ (crashes = 0 => \A d \in Driver : geoPos'[d].n >= geoPos[d].n)
  <1>0. LoopInv' /\ OffsetTypes /\ Ordered /\ TopicTypes
    BY LoopInvStep, LoopTypes
  <1>1. ASSUME NEW d \in Driver PROVE geoPos[d].n \in Nat
    <2>1. geoPos[d] \in Pos \union {NoPos}
      BY LoopTypes DEF GeoTypes
    <2> QED BY <2>1 DEF Pos, NoPos
  <1>2. ASSUME UNCHANGED geoPos PROVE crashes = 0 => \A d \in Driver : geoPos'[d].n >= geoPos[d].n
    BY <1>1, <1>2
  <1>3. ASSUME UNCHANGED <<log, reports, geoPos, crashes>>, \A q \in Part : indexed[q] <= indexed'[q]
        PROVE  Forward'
    BY <1>0, <1>3, SkipForward
  <1>4. \A q \in Part : indexed[q] \in Nat /\ indexed[q] <= indexed[q]
    BY <1>0 DEF OffsetTypes
  <1>5. ASSUME NEW i \in Indexer, Send(i)
        PROVE  Forward' /\ (crashes = 0 => \A d \in Driver : geoPos'[d].n >= geoPos[d].n)
    BY <1>0, <1>5, SendForward
  <1>6. ASSUME NEW i \in Indexer, Poll(i) \/ ReadCell(i) \/ Commit(i) PROVE Forward' /\ UNCHANGED geoPos
    <2>1. UNCHANGED <<log, reports, geoPos, crashes, indexed>>
      BY <1>6 DEF Poll, ReadCell, Commit, topic, offsets, geo
    <2> QED BY <1>3, <1>4, <2>1
  <1>7. ASSUME NEW i \in Indexer, PollFailed(i) PROVE Forward' /\ UNCHANGED geoPos
    <2>1. UNCHANGED <<log, reports, geoPos, crashes>>
      BY <1>7 DEF PollFailed, topic, geo
    <2>2. ASSUME NEW q \in Part PROVE indexed[q] <= indexed'[q]
      <3>1. CASE q \in Owned(i)
        <4>1. indexed'[q] = fetched'[q]
          BY <1>7, <3>1 DEF PollFailed
        <4>2. PICK take \in Fetches(i) : Advance(take)
          BY <1>7 DEF PollFailed
        <4>3. take[q] \in Nat /\ DOMAIN take = Owned(i)
          BY <3>1, <4>2, LimitsHold DEF Fetches, Limits
        <4>4. fetched'[q] = fetched[q] + take[q]
          BY <3>1, <4>2, <4>3 DEF Advance
        <4>5. indexed[q] \in Nat /\ fetched[q] \in Nat /\ indexed[q] <= fetched[q]
          BY <1>0 DEF OffsetTypes, Ordered
        <4> QED BY <4>1, <4>3, <4>4, <4>5
      <3>2. CASE q \notin Owned(i)
        BY <1>4, <1>7, <3>2 DEF PollFailed
      <3> QED BY <3>1, <3>2
    <2> QED BY <1>3, <2>1, <2>2
  <1>8. ASSUME NEW i \in Indexer, PipelineBreaks(i) PROVE Forward' /\ UNCHANGED geoPos
    <2>1. UNCHANGED <<log, reports, geoPos, crashes>> /\ indexed' = [indexed EXCEPT ![turn[i]] = @ + 1]
      BY <1>8 DEF PipelineBreaks, NextRecord, topic, geo
    <2>2. \A q \in Part : indexed[q] <= indexed'[q]
      BY <1>0, <2>1 DEF OffsetTypes
    <2> QED BY <1>3, <2>1, <2>2
  <1>9. ASSUME UNCHANGED geo, crashes' = crashes + 1 PROVE Forward' /\ UNCHANGED geoPos
    <2>1. crashes' # 0
      BY <1>0, <1>9 DEF TopicTypes
    <2> QED BY <1>9, <2>1 DEF Forward, geo
  <1>10. ASSUME NEW d \in Driver, NEW p \in Place, DriverReports(d, p) PROVE Forward' /\ UNCHANGED geoPos
    BY <1>10, ReportForward DEF DriverReports, geo
  <1>11. ASSUME (\E q \in Part : Flush(q)) \/ Tick \/ UNCHANGED vars PROVE Forward' /\ UNCHANGED geoPos
    <2>1. UNCHANGED <<log, reports, geoPos, crashes, indexed>>
      BY <1>11 DEF Flush, Tick, vars, topic, offsets, geo
    <2> QED BY <1>3, <1>4, <2>1
  <1>12. CASE \E i \in Indexer : Work(i) \/ Crash(i)
    BY <1>2, <1>5, <1>6, <1>7, <1>8, <1>9, <1>12 DEF Work, Crash
  <1>13. CASE GatewayCrash
    BY <1>2, <1>9, <1>13 DEF GatewayCrash
  <1> QED BY <1>2, <1>10, <1>11, <1>12, <1>13 DEF Next

\* While nothing crashes a driver's position never goes back in time, polls that
\* fail and pipelines cut short or not, if the places of a driver have keys of
\* one partition.
THEOREM PositionsGoForward ==
    ASSUME OnePartitionEach
    PROVE  Spec => PositionsMoveForward
  <1>1. Init => LoopInv /\ Forward
    <2> SUFFICES ASSUME Init PROVE LoopInv /\ Forward
      OBVIOUS
    <2>1. LoopInv
      BY LoopInvInit
    <2>2. \A d \in Driver : geoPos[d].n = 0 /\ reports[d] = 0
      BY DEF Init, NoPos
    <2>3. ASSUME NEW q \in Part PROVE (indexed[q] + 1)..Len(log[q]) = {}
      <3>1. indexed[q] = 0 /\ log[q] = << >>
        BY DEF Init
      <3> QED BY <3>1
    <2> QED BY <2>1, <2>2, <2>3 DEF Forward
  <1>2. LoopInv /\ Forward /\ [Next]_vars => LoopInv' /\ Forward'
    BY LoopInvStep, ForwardStep
  <1>3. LoopInv /\ Forward /\ [Next]_vars
        => [crashes = 0 => \A d \in Driver : geoPos'[d].n >= geoPos[d].n]_vars
    BY ForwardStep
  <1> QED BY <1>1, <1>2, <1>3, PTL DEF Spec, PositionsMoveForward

-------------------------------------------------------------------------------
(* Queries and counts.                                                       *)

\* What queries rely on, of module Spatial: whatever is within the radius of a
\* point asked about is in one of the cells of the disk.
Geometry ==
    \A p \in Asked, q \in Place, r \in Radii \union {Usual} :
        r > 0 /\ Within(p, q, r) => cellOf[q] \in DiskCells(p, r)

\* A query has found whoever is in range and had no report under way, or will
\* in a Set it has not read yet.
QueryInv ==
    LET still == Driver \ touched
    IN  /\ qstage # "idle" => \A d \in still : ~Pending(d)
        /\ qstage = "cells" =>
              \A d \in still : InRange(geoPos[d]) => d \in ids \/ PosCell(d) \in unread
        /\ qstage \in {"pos", "seen"} => \A d \in still : InRange(geoPos[d]) => d \in ids
        /\ qstage = "seen" => \A d \in still \intersect ids : qpos[d] = geoPos[d]

\* The drivers counted so far that had no report under way.
CellsCounted == (Children(counting) \intersect Cell) \ kids
Got == {d \in Driver \ disturbed : PosCell(d) \in CellsCounted}

\* The sum is what was counted, and drivers that move on top.
CountInv ==
    counting # None =>
         /\ \A d \in Driver \ disturbed : ~Pending(d)
         /\ kids \subseteq Children(counting)
         /\ total >= Cardinality(Got)
         /\ disturbed = {} => total = Cardinality(Got)

\* No more than all drivers per cell.
CountBound == total <= (Cardinality(Cell) - Cardinality(kids)) * Cardinality(Driver)

-------------------------------------------------------------------------------
(* A driver no report of which is under way.                                 *)

\* Such a driver is where the Sets, geo:cell and geo:pos agree it is.
LEMMA StillIsExact ==
    ASSUME ExactInv, NEW d \in Driver, ~Pending(d)
    PROVE  /\ Coming(d) = {} /\ PosCell(d) \in Cell \union {None}
           /\ \A x \in Cell : d \in members[x] <=> PosCell(d) = x
  <1>1. OffsetTypes /\ Ordered /\ TopicTypes /\ GeoTypes /\ Recoverable(d)
    BY LoopTypes DEF ExactInv
  <1>2. Coming(d) = {}
    <2> SUFFICES ASSUME NEW q \in Part, NEW k \in (indexed[q] + 1)..sent[q], log[q][k].d = d PROVE FALSE
      BY DEF Coming
    <2>1. /\ committed[q] \in Nat /\ indexed[q] \in Nat /\ sent[q] \in Nat /\ Len(log[q]) \in Nat
          /\ committed[q] <= indexed[q] /\ sent[q] <= Len(log[q])
      BY <1>1 DEF OffsetTypes, Ordered, TopicTypes
    <2>2. k \in (committed[q] + 1)..Len(log[q])
      BY <2>1
    <2> QED BY <2>2 DEF Pending
  <1>3. geoCell[d] = PosCell(d) /\ geoCell[d] \in Cell \union {None}
    BY <1>1, <1>2 DEF Recoverable, GeoTypes
  <1> QED BY <1>1, <1>2, <1>3, NoneIsNone DEF Recoverable

\* Nothing happens to it in Redis.
LEMMA StillInRedis ==
    ASSUME NothingFails, ExactInv, [Next]_vars, NEW d \in Driver, ~Pending(d)
    PROVE  geoPos'[d] = geoPos[d] /\ PosCell(d)' = PosCell(d)
  <1>1. LoopInv
    BY DEF ExactInv
  <1>2. geoPos'[d] = geoPos[d]
    <2>1. CASE Quiet
      BY <2>1 DEF Quiet, geo
    <2>2. ASSUME NEW i \in Indexer, Send(i) PROVE geoPos'[d] = geoPos[d]
      <3>1. cellOf[Record(i).at] \in Coming(Record(i).d)
        BY <1>1, <2>2, SendComing
      <3>2. Record(i).d # d
        BY <3>1, StillIsExact
      <3>3. Others(Record(i).d)
        BY <1>1, <2>2, SendEffect
      <3> QED BY <3>2, <3>3 DEF Others
    <2> QED BY <1>1, <2>1, <2>2, QuietOrSend
  <1> QED BY <1>2 DEF PosCell, NoPos, cellOf

\* A topic to which no report of d is added, and no offset goes back.
LEMMA StillStays ==
    ASSUME LoopInv, NEW d \in Driver, ~Pending(d),
           \A q \in Part : /\ committed'[q] \in Nat /\ committed[q] <= committed'[q]
                           /\ \A k \in 1..Len(log'[q]) :
                                 \/ k \in 1..Len(log[q]) /\ log'[q][k] = log[q][k]
                                 \/ log'[q][k].d # d
    PROVE  ~Pending(d)'
  <1> SUFFICES ASSUME NEW q \in Part, NEW k \in (committed'[q] + 1)..Len(log'[q]), log'[q][k].d = d
               PROVE  FALSE
    BY DEF Pending
  <1>1. committed[q] \in Nat /\ committed'[q] \in Nat /\ committed[q] <= committed'[q]
    BY LoopTypes DEF OffsetTypes
  <1>2. k \in 1..Len(log'[q])
    BY <1>1
  <1>3. k \in 1..Len(log[q]) /\ log[q][k].d = d
    BY <1>2
  <1>4. k \in (committed[q] + 1)..Len(log[q])
    BY <1>1, <1>3
  <1> QED BY <1>3, <1>4 DEF Pending

\* Nor does a report get under way unless it is made.
LEMMA StillUnlessReported ==
    ASSUME LoopInv, [Next]_vars, NEW d \in Driver, ~Pending(d), reports'[d] = reports[d]
    PROVE  ~Pending(d)'
  <1>0. TopicTypes /\ OffsetTypes /\ Ordered
    BY LoopTypes
  <1>1. \A q \in Part : /\ committed[q] \in Nat /\ fetched[q] \in Nat /\ committed[q] <= committed[q]
                        /\ committed[q] <= fetched[q] /\ log[q] \in Seq(Report)
    BY <1>0 DEF OffsetTypes, Ordered, TopicTypes
  <1>2. ASSUME UNCHANGED log, \A q \in Part : committed'[q] = committed[q] \/ committed'[q] = fetched[q]
        PROVE  ~Pending(d)'
    BY <1>1, <1>2, StillStays
  <1>3. ASSUME NEW i \in Indexer, Work(i) \/ Crash(i) PROVE ~Pending(d)'
    <2>1. UNCHANGED log
      BY <1>3 DEF Work, Poll, PollFailed, ReadCell, Send, PipelineBreaks, Commit, Crash, topic
    <2>2. CASE Commit(i)
      BY <1>2, <2>1, <2>2 DEF Commit, Replace
    <2>3. CASE Send(i)
      <3>1. UNCHANGED committed
        BY <2>3 DEF Send, NextRecord, offsets
      <3> QED BY <1>2, <2>1, <3>1
    <2>4. CASE ~Commit(i) /\ ~Send(i)
      <3>1. UNCHANGED committed
        BY <1>3, <2>4 DEF Work, Poll, PollFailed, ReadCell, PipelineBreaks, NextRecord, Crash, offsets
      <3> QED BY <1>2, <2>1, <3>1
    <2> QED BY <2>2, <2>3, <2>4
  <1>4. ASSUME NEW e \in Driver, NEW p \in Place, DriverReports(e, p) PROVE ~Pending(d)'
    <2> DEFINE h == PartOf[CellOf(p, "key")]
               new == [d |-> e, at |-> p, n |-> reports[e] + 1]
    <2>1. /\ reports' = [reports EXCEPT ![e] = reports[e] + 1] /\ reports[e] < MaxReports
          /\ log' = [log EXCEPT ![h] = Append(log[h], new)] /\ UNCHANGED committed
      BY <1>4 DEF DriverReports, offsets
    <2>2. reports[e] \in Nat /\ reports[e] + 1 # reports[e] /\ new.d = e
      BY <1>0 DEF TopicTypes
    <2>3. e # d
      BY <1>0, <2>1, <2>2 DEF TopicTypes
    <2>4. new \in Report
      <3>1. reports[e] + 1 \in 1..MaxReports
        BY <2>1, <2>2, LimitsHold DEF Limits
      <3> QED BY <3>1 DEF Report
    <2> HIDE DEF new, h
    <2>5. ASSUME NEW q \in Part, NEW k \in 1..Len(log'[q])
          PROVE  \/ k \in 1..Len(log[q]) /\ log'[q][k] = log[q][k]
                 \/ log'[q][k].d # d
      <3>1. CASE q = h
        <4>1. log'[q] = Append(log[q], new) /\ log[q] \in Seq(Report)
          BY <1>0, <2>1, <3>1 DEF TopicTypes
        <4>2. /\ Len(Append(log[q], new)) = Len(log[q]) + 1 /\ Len(log[q]) \in Nat
              /\ Append(log[q], new)[Len(log[q]) + 1] = new
              /\ \A l \in 1..Len(log[q]) : Append(log[q], new)[l] = log[q][l]
          BY <2>4, <4>1
        <4>3. k \in 1..(Len(log[q]) + 1)
          BY <4>1, <4>2
        <4>4. k = Len(log[q]) + 1 \/ k \in 1..Len(log[q])
          BY <4>2, <4>3
        <4>5. CASE k = Len(log[q]) + 1
          BY <2>2, <2>3, <4>1, <4>2, <4>5
        <4>6. CASE k \in 1..Len(log[q])
          BY <4>1, <4>2, <4>6
        <4> QED BY <4>4, <4>5, <4>6
      <3>2. CASE q # h
        <4>1. log'[q] = log[q]
          BY <1>0, <2>1, <3>2 DEF TopicTypes
        <4> QED BY <4>1
      <3> QED BY <3>1, <3>2
    <2> QED BY <1>1, <2>1, <2>5, StillStays
  <1>5. ASSUME GatewayCrash PROVE ~Pending(d)'
    <2>1. log' = [q \in Part |-> SubSeq(log[q], 1, sent[q])] /\ UNCHANGED committed
      BY <1>5 DEF GatewayCrash, offsets
    <2>2. ASSUME NEW q \in Part, NEW k \in 1..Len(log'[q])
          PROVE  k \in 1..Len(log[q]) /\ log'[q][k] = log[q][k]
      <3>1. log[q] \in Seq(Report) /\ sent[q] \in Nat /\ sent[q] <= Len(log[q])
        BY <1>0 DEF TopicTypes, OffsetTypes, Ordered
      <3>2. log'[q] = SubSeq(log[q], 1, sent[q])
        BY <2>1
      <3> QED BY <3>1, <3>2
    <2> QED BY <1>1, <2>1, <2>2, StillStays
  <1>6. CASE (\E q \in Part : Flush(q)) \/ Tick \/ UNCHANGED vars
    <2>1. UNCHANGED <<log, committed>>
      BY <1>6 DEF Flush, Tick, vars, topic, offsets
    <2> QED BY <1>2, <2>1
  <1> QED BY <1>3, <1>4, <1>5, <1>6 DEF Next

(* The steps of Supply.                                                      *)

\* Each is one of the index, or leaves the index alone.
LEMMA StepsOfIndex == [SupplyNext]_<<nvars, count>> => [Next]_vars
  <1> SUFFICES ASSUME [SupplyNext]_<<nvars, count>> PROVE [Next]_vars
    OBVIOUS
  <1>1. CASE Query
    BY <1>1 DEF Query, StartQuery, ReadMembers, ReadPositions, ReadSeenAndAnswer, EndQuery
  <1>2. CASE Meanwhile
    BY <1>2 DEF Meanwhile
  <1>3. CASE UNCHANGED nvars
    BY <1>3 DEF nvars
  <1>4. CASE \/ \E z \in Zone : CountZone(z)
             \/ \E c \in Cell : SCard(c)
             \/ Return
    BY <1>3, <1>4 DEF CountZone, SCard, Return
  <1> QED BY <1>1, <1>2, <1>3, <1>4 DEF SupplyNext

\* What goes on beside the index does not disturb it.
THEOREM IndexBeside == SupplySpec => Spec
  <1>1. SupplyInit => Init
    BY DEF SupplyInit, NearbyInit
  <1> QED BY <1>1, StepsOfIndex, PTL DEF SupplySpec, Spec

\* Where the indexers are, and what is wrong in between.
LEMMA ExactBeside ==
    ASSUME OneIndexerEach, NothingFails
    PROVE  SupplySpec => []ExactInv
  <1>1. Spec => []ExactInv
    BY ExactInvInit, ExactInvStep, PTL DEF Spec
  <1> QED BY <1>1, IndexBeside, PTL

-------------------------------------------------------------------------------
(* Queries.                                                                  *)

QueryTypes == /\ qstage \in {"idle", "cells", "pos", "seen", "answered"}
              /\ point \in Asked /\ radius \in Nat
              /\ unread \in SUBSET Cell /\ ids \in SUBSET Driver
              /\ qpos \in [Driver -> Pos \union {NoPos}]
              /\ reply \in SUBSET Driver
              /\ touched \in SUBSET Driver /\ stayed \in SUBSET Driver

\* The types of a query and of the index.
LEMMA NearbyParts == NearbyTypeOK <=> TypeOK /\ QueryTypes
  BY DEF NearbyTypeOK, QueryTypes

\* The same of the next state.
LEMMA NearbyPartsNext == TypeOK' /\ QueryTypes' => NearbyTypeOK'
  BY NearbyParts, PTL

\* A query starts with a radius, whatever it was given.
LEMMA StartsWith ==
    ASSUME NEW p \in Asked, NEW r \in Radii, StartQuery(p, r)
    PROVE  radius' \in Nat /\ radius' > 0 /\ radius' \in Radii \union {Usual}
  <1>1. r \in Int /\ Usual \in Nat \ {0}
    BY NearbyAssumption
  <1>2. radius' = IF r <= 0 THEN Usual ELSE r
    BY DEF StartQuery
  <1>3. CASE r <= 0
    BY <1>1, <1>2, <1>3
  <1>4. CASE ~ (r <= 0)
    BY <1>1, <1>2, <1>4
  <1> QED BY <1>3, <1>4

\* Queries keep their types.
LEMMA QueryTypesStep ==
    ASSUME TypeOK, QueryTypes, [SupplyNext]_<<nvars, count>>
    PROVE  QueryTypes'
  <1>1. ASSUME NEW p \in Asked, NEW r \in Radii, StartQuery(p, r) PROVE QueryTypes'
    <2>1. radius' \in Nat
      BY <1>1, StartsWith
    <2>2. /\ point' = p /\ unread' \in SUBSET Cell /\ qstage' \in {"cells", "pos"}
          /\ UNCHANGED <<ids, qpos, reply>>
      BY <1>1 DEF StartQuery
    <2>3. touched' \in SUBSET Driver /\ stayed' \in SUBSET Driver
      BY <1>1 DEF StartQuery, IndexedInRange
    <2> QED BY <2>1, <2>2, <2>3 DEF QueryTypes, Pos, NoPos
  <1>2. ASSUME NEW c \in Cell, ReadMembers(c) PROVE QueryTypes'
    <2>1. members[c] \in SUBSET Driver
      BY DEF TypeOK
    <2> QED BY <1>2, <2>1 DEF ReadMembers, QueryTypes, Pos, NoPos
  <1>3. CASE ReadPositions
    <2>1. geoPos \in [Driver -> Pos \union {NoPos}]
      BY DEF TypeOK
    <2>2. qpos' \in [Driver -> Pos \union {NoPos}]
      BY <1>3, <2>1 DEF ReadPositions
    <2> QED BY <1>3, <2>2 DEF ReadPositions, QueryTypes, Pos, NoPos
  <1>4. CASE ReadSeenAndAnswer
    BY <1>4 DEF ReadSeenAndAnswer, QueryTypes, Pos, NoPos
  <1>5. CASE EndQuery
    BY <1>5, NearbyAssumption DEF EndQuery, QueryTypes, NoReads, Pos, NoPos
  <1>6. CASE Meanwhile
    BY <1>6 DEF Meanwhile, query, QueryTypes, Pos, NoPos
  <1>7. CASE UNCHANGED nvars
    BY <1>7 DEF nvars, query, QueryTypes, Pos, NoPos
  <1> QED BY <1>1, <1>2, <1>3, <1>4, <1>5, <1>6, <1>7
          DEF SupplyNext, Query, CountZone, SCard, Return

\* A query starts with the cells that cover the radius.
LEMMA StartFinds ==
    ASSUME Geometry, ExactInv, NEW p \in Asked, NEW r \in Radii, StartQuery(p, r)
    PROVE  QueryInv'
  <1>1. /\ UNCHANGED vars /\ point' = p /\ unread' = DiskCells(p, radius') \intersect Cell
        /\ touched' = {d \in Driver : Pending(d)}
        /\ qstage' = IF unread' # {} THEN "cells" ELSE "pos"
    BY DEF StartQuery
  <1>2. \A d \in Driver : Pending(d)' <=> Pending(d)
    BY <1>1 DEF vars, Pending
  <1>3. GeoTypes /\ geoPos' = geoPos
    BY <1>1, LoopTypes DEF ExactInv, vars
  <1>4. ASSUME NEW d \in Driver, InRange(geoPos[d])' PROVE PosCell(d)' \in unread'
    <2>1. geoPos[d] # NoPos /\ Within(p, geoPos[d].at, radius')
      BY <1>1, <1>3, <1>4 DEF InRange, NoPos
    <2>2. geoPos[d].at \in Place
      BY <1>3, <2>1 DEF GeoTypes, Pos
    <2>3. cellOf[geoPos[d].at] \in DiskCells(p, radius') /\ cellOf[geoPos[d].at] \in Cell
      BY <2>1, <2>2, StartsWith, PlacesHave DEF Geometry
    <2>4. PosCell(d)' = cellOf[geoPos[d].at]
      BY <1>3, <2>1 DEF PosCell, NoPos, cellOf
    <2> QED BY <1>1, <2>3, <2>4
  <1> QED BY <1>1, <1>2, <1>4 DEF QueryInv

\* A Set that is read has the drivers of its cell.
LEMMA ReadFinds ==
    ASSUME ExactInv, QueryTypes, QueryInv, NEW c \in Cell, ReadMembers(c)
    PROVE  QueryInv'
  <1>1. /\ qstage = "cells" /\ unread' = unread \ {c} /\ ids' = ids \union members[c]
        /\ qstage' = IF unread' # {} THEN "cells" ELSE "pos"
        /\ UNCHANGED <<vars, point, radius, touched>>
    BY DEF ReadMembers
  <1>2. \A d \in Driver : (Pending(d)' <=> Pending(d)) /\ PosCell(d)' = PosCell(d)
                          /\ (InRange(geoPos[d])' <=> InRange(geoPos[d]))
    BY <1>1 DEF vars, Pending, PosCell, NoPos, cellOf, InRange
  <1>3. \A d \in Driver \ touched : ~Pending(d)
    BY <1>1 DEF QueryInv
  <1>4. ASSUME NEW d \in Driver \ touched, InRange(geoPos[d])
        PROVE  d \in ids' \/ PosCell(d) \in unread'
    <2>1. d \in ids \/ PosCell(d) \in unread
      BY <1>1, <1>4 DEF QueryInv
    <2>2. PosCell(d) = c => d \in members[c]
      BY <1>3, StillIsExact
    <2> QED BY <1>1, <2>1, <2>2
  <1> QED BY <1>1, <1>2, <1>3, <1>4 DEF QueryInv

\* The positions read are those of the index, and the answer goes by them.
LEMMA AnswerFinds ==
    ASSUME QueryTypes, QueryInv, ReadPositions \/ ReadSeenAndAnswer
    PROVE  QueryInv' /\ SettledDriversExact'
  <1>1. UNCHANGED <<vars, point, radius, ids, touched>>
    BY DEF ReadPositions, ReadSeenAndAnswer
  <1>2. \A d \in Driver : (Pending(d)' <=> Pending(d)) /\ geoPos'[d] = geoPos[d]
                          /\ (InRange(geoPos[d])' <=> InRange(geoPos[d]))
                          /\ (Fresh(d)' <=> Fresh(d))
    BY <1>1 DEF vars, Pending, NoPos, InRange, Fresh, NoTime
  <1>3. CASE ReadPositions
    <2>1. qstage = "pos" /\ qstage' = "seen" /\ \A d \in Driver \intersect ids : qpos'[d] = geoPos[d]
      BY <1>3 DEF ReadPositions
    <2>2. /\ \A d \in Driver \ touched : ~Pending(d)
          /\ \A d \in Driver \ touched : InRange(geoPos[d]) => d \in ids
      BY <2>1 DEF QueryInv
    <2>3. QueryInv'
      BY <1>1, <1>2, <2>1, <2>2 DEF QueryInv
    <2> QED BY <2>1, <2>3 DEF SettledDriversExact
  <1>4. CASE ReadSeenAndAnswer
    <2>1. /\ qstage = "seen" /\ qstage' = "answered"
          /\ reply' = {d \in ids : InRange(qpos[d]) /\ Fresh(d)}
      BY <1>4 DEF ReadSeenAndAnswer
    <2>2. /\ \A d \in Driver \ touched : ~Pending(d)
          /\ \A d \in Driver \ touched : InRange(geoPos[d]) => d \in ids
          /\ \A d \in (Driver \ touched) \intersect ids : qpos[d] = geoPos[d]
      BY <2>1 DEF QueryInv
    <2>3. QueryInv'
      BY <1>1, <1>2, <2>1, <2>2 DEF QueryInv
    <2>4. ASSUME NEW d \in Driver \ touched
          PROVE  /\ InRange(geoPos[d]) /\ Fresh(d) => d \in reply'
                 /\ d \in reply' => InRange(geoPos[d])
      BY <2>1, <2>2
    <2>5. SettledDriversExact'
      BY <1>1, <1>2, <2>4 DEF SettledDriversExact, IndexedInRange
    <2> QED BY <2>3, <2>5
  <1> QED BY <1>3, <1>4

\* What was found of a driver that stays still remains true of it.
LEMMA MeanwhileFinds ==
    ASSUME NothingFails, ExactInv, QueryInv, Meanwhile
    PROVE  QueryInv' /\ SettledDriversExact'
  <1>1. /\ qstage # "answered" /\ Next /\ UNCHANGED <<qstage, point, radius, unread, ids, qpos>>
        /\ qstage # "idle" => touched' = touched \union {d \in Driver : reports'[d] # reports[d]}
    BY DEF Meanwhile, query
  <1>2. SettledDriversExact'
    BY <1>1 DEF SettledDriversExact
  <1>3. ASSUME qstage # "idle", NEW d \in Driver \ touched'
        PROVE  /\ d \notin touched /\ ~Pending(d) /\ ~Pending(d)'
               /\ geoPos'[d] = geoPos[d] /\ PosCell(d)' = PosCell(d)
               /\ InRange(geoPos[d])' <=> InRange(geoPos[d])
    <2>1. d \in Driver \ touched /\ reports'[d] = reports[d]
      BY <1>1, <1>3
    <2>2. ~Pending(d)
      BY <1>3, <2>1 DEF QueryInv
    <2>3. ~Pending(d)'
      BY <1>1, <2>1, <2>2, StillUnlessReported DEF ExactInv
    <2>4. geoPos'[d] = geoPos[d] /\ PosCell(d)' = PosCell(d)
      BY <1>1, <2>2, StillInRedis
    <2> QED BY <1>1, <2>1, <2>2, <2>3, <2>4 DEF InRange, NoPos
  <1>4. QueryInv'
    <2>1. CASE qstage = "idle"
      BY <1>1, <2>1 DEF QueryInv
    <2>2. CASE qstage # "idle"
      BY <1>1, <1>3, <2>2 DEF QueryInv
    <2> QED BY <2>1, <2>2
  <1> QED BY <1>2, <1>4

\* No step loses a driver that stays still.
LEMMA QueryInvStep ==
    ASSUME NothingFails, Geometry, ExactInv, QueryTypes, QueryInv, SettledDriversExact,
           [SupplyNext]_<<nvars, count>>
    PROVE  QueryInv' /\ SettledDriversExact'
  <1>1. ASSUME NEW p \in Asked, NEW r \in Radii, StartQuery(p, r)
        PROVE  QueryInv' /\ SettledDriversExact'
    <2>1. qstage' # "answered"
      BY <1>1 DEF StartQuery
    <2> QED BY <1>1, <2>1, StartFinds DEF SettledDriversExact
  <1>2. ASSUME NEW c \in Cell, ReadMembers(c)
        PROVE  QueryInv' /\ SettledDriversExact'
    <2>1. qstage' # "answered"
      BY <1>2 DEF ReadMembers
    <2> QED BY <1>2, <2>1, ReadFinds DEF SettledDriversExact
  <1>3. CASE EndQuery
    <2>1. qstage' = "idle"
      BY <1>3 DEF EndQuery
    <2> QED BY <2>1 DEF QueryInv, SettledDriversExact
  <1>4. CASE UNCHANGED nvars
    BY <1>4 DEF nvars, vars, query, QueryInv, SettledDriversExact, Pending, InRange, NoPos,
                PosCell, cellOf, IndexedInRange, Fresh, NoTime
  <1>5. CASE Meanwhile
    BY <1>5, MeanwhileFinds
  <1>6. CASE ReadPositions \/ ReadSeenAndAnswer
    BY <1>6, AnswerFinds
  <1> QED BY <1>1, <1>2, <1>3, <1>4, <1>5, <1>6 DEF SupplyNext, Query, CountZone, SCard, Return

\* At first there is no query.
LEMMA QueryInit == NearbyInit => QueryTypes /\ QueryInv /\ SettledDriversExact
  <1> SUFFICES ASSUME NearbyInit PROVE QueryTypes /\ QueryInv /\ SettledDriversExact
    OBVIOUS
  <1>1. QueryTypes
    BY NearbyAssumption DEF NearbyInit, QueryTypes, NoReads, Pos, NoPos
  <1>2. qstage = "idle"
    BY DEF NearbyInit
  <1> QED BY <1>1, <1>2 DEF QueryInv, SettledDriversExact

\* GET /nearby is exact about every driver no report of which was under way
\* during the query: it is in the answer if it is in range and fresh, and not
\* if it is not in range, whatever the other drivers and the indexers do, and
\* whatever crashed before -- provided the disk covers the radius.
THEOREM SettledDriversFound ==
    ASSUME OneIndexerEach, NothingFails, Geometry
    PROVE  SupplySpec => []SettledDriversExact
  <1>1. SupplyInit => QueryTypes /\ QueryInv /\ SettledDriversExact
    BY QueryInit DEF SupplyInit
  <1>2. /\ ExactInv /\ QueryTypes /\ QueryInv /\ SettledDriversExact /\ [SupplyNext]_<<nvars, count>>
        => QueryTypes' /\ QueryInv' /\ SettledDriversExact'
    <2>1. ExactInv => TypeOK
      BY DEF ExactInv, LoopInv
    <2> QED BY <2>1, QueryTypesStep, QueryInvStep
  <1>3. SupplySpec => []ExactInv
    BY ExactBeside
  <1> QED BY <1>1, <1>2, <1>3, PTL DEF SupplySpec

-------------------------------------------------------------------------------
(* Counts.  There are finitely many drivers, and places for them to be.      *)

Finite == IsFiniteSet(Driver) /\ IsFiniteSet(Place)

CountTypes == /\ counting \in Zone \union {None} /\ kids \subseteq Cell
              /\ total \in Nat /\ disturbed \subseteq Driver
              /\ counting = None => total = 0 /\ kids = {}

\* Then the cells are finitely many.
LEMMA CellsFinite ==
    ASSUME Finite
    PROVE  IsFiniteSet(Cell) /\ Cardinality(Cell) \in Nat /\ Cardinality(Driver) \in Nat
  <1>1. cellOf \in Surjection(Place, Cell)
    <2>1. cellOf \in [Place -> Cell]
      BY DEF cellOf, Cell
    <2>2. \A c \in Cell : \E p \in Place : cellOf[p] = c
      BY DEF Cell
    <2> QED BY <2>1, <2>2 DEF Surjection
  <1>2. IsFiniteSet(Cell)
    BY <1>1, FS_Surjection DEF Finite
  <1> QED BY <1>2, FS_CardinalityType DEF Finite

\* A step of the sum.
LEMMA OneMore ==
    ASSUME NEW n \in Nat, NEW D \in Nat, NEW s \in Nat, NEW x \in Nat, s <= n * D, x <= D
    PROVE  s + x <= (n + 1) * D
  <1>1. (n + 1) * D = n * D + D /\ n * D \in Nat
    OBVIOUS
  <1> QED BY <1>1

\* Cells that are left out make no sum greater.
LEMMA Fewer ==
    ASSUME NEW m \in Nat, NEW k \in Nat, k <= m, NEW D \in Nat
    PROVE  0 <= (m - k) * D /\ (m - k) * D <= m * D /\ (m - k) * D \in Int /\ m * D \in Nat
  <1>1. m - k \in Nat /\ (m - k) * D \in Nat /\ k * D \in Nat /\ m * D \in Nat
    OBVIOUS
  <1>2. m * D = (m - k) * D + k * D
    OBVIOUS
  <1> QED BY <1>1, <1>2

\* The cells still to be counted.
LEMMA KidsFinite ==
    ASSUME Finite, NEW k \in SUBSET Cell
    PROVE  IsFiniteSet(k) /\ Cardinality(k) \in Nat /\ Cardinality(k) <= Cardinality(Cell)
  BY CellsFinite, FS_Subset, FS_CardinalityType

\* Sets of drivers.
LEMMA DriversFinite ==
    ASSUME Finite, NEW s \in SUBSET Driver
    PROVE  IsFiniteSet(s) /\ Cardinality(s) \in Nat /\ Cardinality(s) <= Cardinality(Driver)
  BY CellsFinite, FS_Subset, FS_CardinalityType DEF Finite

\* A count keeps its types, and its bound: a Set has no more than all drivers.
LEMMA CountTypesStep ==
    ASSUME Finite, LoopInv, CountTypes, CountBound, [SupplyNext]_<<nvars, count>>
    PROVE  CountTypes' /\ CountBound'
  <1>0. Cell' = Cell
    BY DEF Cell, cellOf
  <1>1. ASSUME NEW z \in Zone, CountZone(z) PROVE CountTypes' /\ CountBound'
    <2>1. /\ counting = None /\ counting' = z /\ z # None /\ kids' = Children(z) \intersect Cell
          /\ disturbed' = {d \in Driver : Pending(d)} /\ total' = total
      BY <1>1, SupplyAssumption DEF CountZone
    <2>2. total' = 0 /\ kids' \in SUBSET Cell
      BY <2>1 DEF CountTypes
    <2>3. CountTypes'
      BY <1>0, <2>1, <2>2 DEF CountTypes
    <2> QED BY <1>0, <2>2, <2>3, CellsFinite, KidsFinite, Fewer DEF CountBound
  <1>2. ASSUME NEW c \in Cell, SCard(c) PROVE CountTypes' /\ CountBound'
    <2>1. /\ counting # None /\ c \in kids /\ kids' = kids \ {c}
          /\ total' = total + Cardinality(members[c]) /\ UNCHANGED <<counting, disturbed>>
      BY <1>2 DEF SCard
    <2>2. members[c] \in SUBSET Driver
      BY LoopTypes DEF GeoTypes
    <2>3. Cardinality(members[c]) \in Nat /\ Cardinality(members[c]) <= Cardinality(Driver)
      BY <2>2, DriversFinite
    <2>4. CountTypes'
      BY <1>0, <2>1, <2>3 DEF CountTypes
    <2>5. /\ Cardinality(kids) \in Nat /\ Cardinality(kids) <= Cardinality(Cell) /\ IsFiniteSet(kids)
          /\ Cardinality(Cell) \in Nat /\ Cardinality(Driver) \in Nat
      BY CellsFinite, KidsFinite DEF CountTypes
    <2>6. Cardinality(kids') = Cardinality(kids) - 1
      BY <2>1, <2>5, FS_RemoveElement
    <2> DEFINE n == Cardinality(Cell) - Cardinality(kids)
    <2>7. n \in Nat /\ Cardinality(Cell) - Cardinality(kids') = n + 1
      BY <2>5, <2>6
    <2>8. total \in Nat /\ total <= n * Cardinality(Driver)
      BY DEF CountTypes, CountBound
    <2> HIDE DEF n
    <2>9. total' <= (n + 1) * Cardinality(Driver)
      BY <2>1, <2>3, <2>5, <2>7, <2>8, OneMore
    <2> QED BY <1>0, <2>4, <2>7, <2>9 DEF CountBound
  <1>3. CASE Return
    <2>1. counting' = None /\ total' = 0 /\ disturbed' = {} /\ kids' = kids /\ kids = {}
      BY <1>3 DEF Return, Counted
    <2>2. kids' \in SUBSET Cell
      BY <2>1
    <2> QED BY <1>0, <2>1, <2>2, CellsFinite, KidsFinite, Fewer DEF CountTypes, CountBound
  <1>4. CASE UNCHANGED <<counting, kids, total>> /\ disturbed' \subseteq Driver
    BY <1>0, <1>4 DEF CountTypes, CountBound
  <1>5. CASE \/ UNCHANGED count
             \/ disturbed' = (IF counting = None THEN {}
                              ELSE disturbed \union {d \in Driver : reports'[d] # reports[d]})
                /\ UNCHANGED <<counting, kids, total>>
    BY <1>4, <1>5 DEF count, CountTypes
  <1> QED BY <1>1, <1>2, <1>3, <1>5 DEF SupplyNext

\* What a count begins with.
LEMMA CountBegins ==
    ASSUME NEW z \in Zone, CountTypes, CountZone(z)
    PROVE  CountInv'
  <1>1. /\ counting = None /\ counting' = z /\ kids' = Children(z) \intersect Cell
        /\ disturbed' = {d \in Driver : Pending(d)} /\ UNCHANGED vars /\ total' = total
    BY DEF CountZone, nvars
  <1>2. total' = 0
    BY <1>1 DEF CountTypes
  <1>3. Got' = {}
    BY <1>1 DEF Got, CellsCounted, Cell, cellOf
  <1>4. \A d \in Driver : Pending(d)' <=> Pending(d)
    BY <1>1 DEF vars, Pending
  <1>5. Cardinality(Got') = 0
    BY <1>3, FS_EmptySet
  <1> QED BY <1>1, <1>2, <1>4, <1>5 DEF CountInv

\* A Set that is counted adds the drivers that stay still in its cell, and
\* whoever else is in it.
LEMMA CountGoesOn ==
    ASSUME Finite, ExactInv, CountTypes, CountInv, NEW c \in Cell, SCard(c)
    PROVE  CountInv'
  <1>1. /\ counting # None /\ c \in kids /\ kids' = kids \ {c}
        /\ total' = total + Cardinality(members[c])
        /\ UNCHANGED <<counting, disturbed>> /\ UNCHANGED vars
    BY DEF SCard, nvars
  <1>2. members[c] \in SUBSET Driver
    <2>1. GeoTypes
      BY LoopTypes DEF ExactInv
    <2> QED BY <2>1 DEF GeoTypes
  <1>3. /\ Cardinality(members[c]) \in Nat /\ Cardinality(members[c]) <= Cardinality(Driver)
        /\ IsFiniteSet(members[c])
    BY <1>2, DriversFinite
  <1>6. /\ \A d \in Driver : (Pending(d)' <=> Pending(d)) /\ PosCell(d)' = PosCell(d)
        /\ Cell' = Cell
    BY <1>1 DEF vars, Pending, PosCell, NoPos, cellOf, Cell
  <1> DEFINE here == members[c] \ disturbed
  <1>7. /\ \A d \in Driver \ disturbed : ~Pending(d)
        /\ kids \subseteq Children(counting)
        /\ total >= Cardinality(Got) /\ (disturbed = {} => total = Cardinality(Got))
    BY <1>1 DEF CountInv
  <1>8. \A d \in Driver \ disturbed : d \in members[c] <=> PosCell(d) = c
    BY <1>7, StillIsExact
  <1>9. Got' = Got \union here /\ Got \intersect here = {}
    BY <1>1, <1>2, <1>6, <1>7, <1>8 DEF Got, CellsCounted
  <1>10. Got \in SUBSET Driver /\ here \in SUBSET members[c] /\ here \in SUBSET Driver
    BY <1>2 DEF Got
  <1>11. /\ IsFiniteSet(Got) /\ Cardinality(Got) \in Nat /\ IsFiniteSet(here) /\ Cardinality(here) \in Nat
         /\ Cardinality(here) <= Cardinality(members[c])
         /\ disturbed = {} => Cardinality(here) = Cardinality(members[c])
    <2>1. IsFiniteSet(Got) /\ Cardinality(Got) \in Nat /\ IsFiniteSet(here) /\ Cardinality(here) \in Nat
      BY <1>10, DriversFinite
    <2>2. Cardinality(here) <= Cardinality(members[c])
      BY <1>3, <1>10, FS_Subset
    <2>3. disturbed = {} => here = members[c]
      OBVIOUS
    <2> QED BY <2>1, <2>2, <2>3
  <1> HIDE DEF here
  <1>12. Cardinality(Got') = Cardinality(Got) + Cardinality(here)
    <2>1. Cardinality(Got \union here) = Cardinality(Got) + Cardinality(here) - Cardinality(Got \cap here)
      BY <1>11, FS_Union
    <2>2. Cardinality(Got \cap here) = 0
      BY <1>9, FS_EmptySet
    <2> QED BY <1>9, <1>11, <2>1, <2>2
  <1>13. total' >= Cardinality(Got') /\ (disturbed = {} => total' = Cardinality(Got'))
    <2>1. total \in Nat
      BY DEF CountTypes
    <2> QED BY <1>1, <1>3, <1>7, <1>11, <1>12, <2>1
  <1> QED BY <1>1, <1>6, <1>7, <1>13 DEF CountInv

\* Drivers that report while the count goes on are not relied on any more.
LEMMA CountMeanwhile ==
    ASSUME Finite, NothingFails, ExactInv, CountTypes, CountInv, Meanwhile,
           disturbed' = IF counting = None THEN {}
                        ELSE disturbed \union {d \in Driver : reports'[d] # reports[d]},
           UNCHANGED <<counting, kids, total>>
    PROVE  CountInv'
  <1>2. CASE counting = None
    BY <1>2 DEF CountInv
  <1>3. CASE counting # None
    <2>1. /\ \A d \in Driver \ disturbed : ~Pending(d)
          /\ kids \subseteq Children(counting)
          /\ total >= Cardinality(Got) /\ (disturbed = {} => total = Cardinality(Got))
      BY <1>3 DEF CountInv
    <2>2. Next
      BY DEF Meanwhile
    <2>3. ASSUME NEW d \in Driver \ disturbed'
          PROVE  d \notin disturbed /\ ~Pending(d)' /\ PosCell(d)' = PosCell(d)
      <3>1. d \in Driver \ disturbed /\ reports'[d] = reports[d]
        BY <1>3
      <3>2. ~Pending(d)
        BY <2>1, <3>1
      <3>3. ~Pending(d)'
        BY <2>2, <3>1, <3>2, StillUnlessReported DEF ExactInv
      <3>4. PosCell(d)' = PosCell(d)
        BY <2>2, <3>2, StillInRedis
      <3> QED BY <3>1, <3>3, <3>4
    <2>4. CellsCounted' = CellsCounted
      BY DEF CellsCounted, Cell, cellOf
    <2>5. Got' \subseteq Got
      BY <2>3, <2>4 DEF Got
    <2>6. disturbed' = {} => disturbed = {} /\ Got' = Got
      <3> SUFFICES ASSUME disturbed' = {} PROVE disturbed = {} /\ Got' = Got
        OBVIOUS
      <3>1. disturbed = {}
        BY <1>3
      <3>2. \A d \in Driver : PosCell(d)' = PosCell(d)
        BY <2>3
      <3> QED BY <2>4, <3>1, <3>2 DEF Got
    <2>7. Got \in SUBSET Driver /\ Got' \in SUBSET Got
      BY <2>5 DEF Got
    <2>8. /\ IsFiniteSet(Got) /\ Cardinality(Got) \in Nat /\ Cardinality(Got') \in Nat
          /\ Cardinality(Got') <= Cardinality(Got)
      <3>1. IsFiniteSet(Got) /\ Cardinality(Got) \in Nat
        BY <2>7, DriversFinite
      <3>2. Got' \in SUBSET Driver
        BY <2>7
      <3> QED BY <2>7, <3>1, <3>2, DriversFinite, FS_Subset
    <2>9. total' = total /\ total \in Nat /\ kids' = kids /\ counting' = counting
      BY DEF CountTypes
    <2>10. total' >= Cardinality(Got')
      BY <2>1, <2>8, <2>9
    <2>11. disturbed' = {} => total' = Cardinality(Got')
      BY <2>1, <2>6, <2>9
    <2> QED BY <1>3, <2>1, <2>3, <2>9, <2>10, <2>11 DEF CountInv
  <1> QED BY <1>2, <1>3

\* The count is right at every step.
LEMMA CountInvStep ==
    ASSUME Finite, NothingFails, ExactInv, CountTypes, CountInv, [SupplyNext]_<<nvars, count>>
    PROVE  CountInv'
  <1>1. ASSUME NEW z \in Zone, CountZone(z) PROVE CountInv'
    BY <1>1, CountBegins
  <1>2. ASSUME NEW c \in Cell, SCard(c) PROVE CountInv'
    BY <1>2, CountGoesOn
  <1>3. CASE Return \/ (counting = None /\ Query /\ UNCHANGED count)
    BY <1>3 DEF Return, count, CountInv
  <1>4. CASE UNCHANGED <<nvars, count>>
    BY <1>4 DEF count, nvars, vars, CountInv, Cell, cellOf, Got, CellsCounted, Pending, PosCell, NoPos
  <1>5. CASE /\ ~Counted /\ Meanwhile
             /\ disturbed' = IF counting = None THEN {}
                             ELSE disturbed \union {d \in Driver : reports'[d] # reports[d]}
             /\ UNCHANGED <<counting, kids, total>>
    BY <1>5, CountMeanwhile
  <1> QED BY <1>1, <1>2, <1>3, <1>4, <1>5 DEF SupplyNext

\* Nothing is counted yet.
LEMMA CountInit ==
    ASSUME Finite
    PROVE  SupplyInit => CountTypes /\ CountBound /\ CountInv
  <1> SUFFICES ASSUME SupplyInit PROVE CountTypes /\ CountBound /\ CountInv
    OBVIOUS
  <1>1. counting = None /\ kids = {} /\ total = 0 /\ disturbed = {}
    BY DEF SupplyInit
  <1>2. kids \in SUBSET Cell
    BY <1>1
  <1>3. CountBound
    BY <1>1, <1>2, CellsFinite, KidsFinite, Fewer DEF CountBound
  <1> QED BY <1>1, <1>3 DEF CountTypes, CountInv

\* Index, queries and counts keep their types: a sum is no greater than all
\* drivers in every cell, and no query is left without a radius.
THEOREM SupplyTypeCorrect ==
    ASSUME Finite
    PROVE  SupplySpec => []SupplyTypeOK
  <1>1. LoopInv /\ QueryTypes /\ CountTypes /\ CountBound => SupplyTypeOK
    <2> SUFFICES ASSUME LoopInv, QueryTypes, CountTypes, CountBound PROVE SupplyTypeOK
      OBVIOUS
    <2>1. NearbyTypeOK
      BY NearbyParts DEF LoopInv
    <2> DEFINE m == Cardinality(Cell)
               k == Cardinality(kids)
               D == Cardinality(Driver)
    <2>2. m \in Nat /\ k \in Nat /\ k <= m /\ D \in Nat
      BY CellsFinite, KidsFinite DEF CountTypes
    <2>3. total \in Nat /\ total <= (m - k) * D
      BY DEF CountTypes, CountBound
    <2> HIDE DEF m, k, D
    <2>4. (m - k) * D <= m * D /\ (m - k) * D \in Int /\ m * D \in Nat
      BY <2>2, Fewer
    <2>5. total \in 0..(m * D)
      <3> DEFINE u == (m - k) * D
                 v == m * D
      <3>1. u \in Int /\ v \in Nat /\ u <= v /\ total <= u
        BY <2>3, <2>4
      <3> HIDE DEF u, v
      <3>2. total \in 0..v
        BY <2>3, <3>1
      <3> QED BY <3>2 DEF v
    <2> QED BY <2>1, <2>5 DEF SupplyTypeOK, CountTypes, m, D
  <1>2. SupplyInit => LoopInv /\ QueryTypes /\ CountTypes /\ CountBound
    BY CountInit, QueryInit, LoopInvInit DEF SupplyInit, NearbyInit
  <1>3. LoopInv /\ QueryTypes /\ CountTypes /\ CountBound /\ [SupplyNext]_<<nvars, count>>
        => LoopInv' /\ QueryTypes' /\ CountTypes' /\ CountBound'
    <2> SUFFICES ASSUME LoopInv, QueryTypes, CountTypes, CountBound, [SupplyNext]_<<nvars, count>>
                 PROVE  LoopInv' /\ QueryTypes' /\ CountTypes' /\ CountBound'
      OBVIOUS
    <2>1. LoopInv'
      BY StepsOfIndex, LoopInvStep
    <2>2. TypeOK
      BY DEF LoopInv
    <2> QED BY <2>1, <2>2, QueryTypesStep, CountTypesStep
  <1> QED BY <1>1, <1>2, <1>3, PTL DEF SupplySpec

\* The supply of a zone, counted Set by Set while drivers cross from one cell to
\* the next, is no less than the drivers in the zone no report of which was
\* under way meanwhile, and exactly their number if there was none at all.
THEOREM SupplyIsExact ==
    ASSUME OneIndexerEach, NothingFails, Finite
    PROVE  SupplySpec => []SupplyExact
  <1>1. ExactInv /\ CountTypes /\ CountInv => SupplyExact
    <2> SUFFICES ASSUME ExactInv, CountTypes, CountInv, Counted PROVE SupplyExact
      BY DEF SupplyExact
    <2> DEFINE still == {d \in Driver \ disturbed : InZone(d, counting)}
    <2>1. ASSUME NEW d \in Driver PROVE InZone(d, counting) <=> PosCell(d) \in CellsCounted
      <3>1. geoPos[d] \in Pos \union {NoPos} /\ kids = {}
        BY LoopTypes DEF ExactInv, GeoTypes, Counted
      <3>2. CASE geoPos[d] = NoPos
        BY <3>2, NoneIsNone DEF InZone, PosCell, CellsCounted
      <3>3. CASE geoPos[d] # NoPos
        <4>1. geoPos[d].at \in Place
          BY <3>1, <3>3 DEF Pos
        <4>2. cellOf[geoPos[d].at] \in Cell
          BY <4>1, PlacesHave
        <4> QED BY <3>1, <3>3, <4>2 DEF InZone, PosCell, CellsCounted
      <3> QED BY <3>2, <3>3
    <2>2. still = Got
      BY <2>1 DEF Got
    <2>3. total >= Cardinality(Got) /\ (disturbed = {} => total = Cardinality(Got))
      BY DEF Counted, CountInv
    <2> QED BY <2>2, <2>3 DEF SupplyExact
  <1>2. SupplyInit => CountTypes /\ CountBound /\ CountInv
    BY CountInit
  <1>3. ExactInv /\ CountTypes /\ CountBound /\ CountInv /\ [SupplyNext]_<<nvars, count>>
        => CountTypes' /\ CountBound' /\ CountInv'
    <2>1. ExactInv => LoopInv
      BY DEF ExactInv
    <2> QED BY <2>1, CountTypesStep, CountInvStep
  <1>4. SupplySpec => []ExactInv
    BY ExactBeside
  <1> QED BY <1>1, <1>2, <1>3, <1>4, PTL DEF SupplySpec
===============================================================================
