------------------------------ MODULE FanoutProofs ------------------------------
(***************************************************************************)
(* Theorems about Fanout, for any connections, keys, channel capacity and  *)
(* number of records.                                                      *)
(***************************************************************************)
EXTENDS Fanout, SequenceTheorems, TLAPS

\* The handlers whose channel is in the map.
InMap == {"select", "write", "remove"}

\* A broadcast sends to channels in the map only, and holds the lock while it
\* has some left; a channel is in the map until its handler has deleted it, and
\* is not closed before.
HubInv == /\ clients = {c \in Conn : phase[c] \in InMap}
          /\ casting = 0 => todo = {}
          /\ clients \cap closed = {}

\* A handler has a record in hand exactly while it writes.
Writes == \A c \in Conn : writing[c] # 0 <=> phase[c] = "write"

FanoutInv == TypeOK /\ HubInv /\ Writes

\* It holds when nobody is connected.
LEMMA FanoutInvInit == Init => FanoutInv
  BY FanoutAssumption DEF Init, FanoutInv, TypeOK, HubInv, Writes, Phase, InMap, Record

\* The step of the invariant, an action at a time.
LEMMA FanoutInvStep == FanoutInv /\ [Next]_vars => FanoutInv'
  <1> SUFFICES ASSUME FanoutInv, [Next]_vars PROVE FanoutInv'
    OBVIOUS
  <1> USE FanoutAssumption DEF FanoutInv, TypeOK, HubInv, Writes, Phase, InMap, Record
  <1>1. ASSUME NEW k \in Key, Broadcast(k) PROVE FanoutInv'
    <2>1. /\ key' = Append(key, k) /\ Len(key') = Len(key) + 1 /\ casting' = Len(key')
          /\ key' \in Seq(Key) /\ Len(key) \in Nat
      BY <1>1 DEF Broadcast
    <2>2. /\ todo' = clients
          /\ UNCHANGED <<clients, phase, chan, closed, writing, gone, since, seen>>
      BY <1>1 DEF Broadcast, browser
    <2> QED BY <1>1, <2>1, <2>2 DEF Broadcast
  <1>2. CASE BroadcastEnds
    BY <1>2 DEF BroadcastEnds, browser
  <1>3. ASSUME NEW c \in Conn, Send(c) PROVE FanoutInv'
    <2>1. casting \in Record
      BY <1>3 DEF Send
    <2>2. Append(chan[c], casting) \in Seq(Record)
      BY <2>1
    <2> QED BY <1>3, <2>2 DEF Send, browser
  <1>4. ASSUME NEW c \in Conn, Add(c) PROVE FanoutInv'
    <2>1. todo = {} /\ todo' = todo /\ casting' = casting /\ key' = key
      BY <1>4 DEF Add, WriteLock, source
    <2>2. phase' = [phase EXCEPT ![c] = "select"] /\ clients' = clients \union {c}
      BY <1>4 DEF Add, Goto
    <2>3. /\ closed' = closed \ {c} /\ gone' = gone \ {c} /\ writing' = writing
          /\ chan' = [chan EXCEPT ![c] = << >>] /\ seen' = [seen EXCEPT ![c] = << >>]
          /\ since' = [since EXCEPT ![c] = Len(key)]
      BY <1>4 DEF Add
    <2>4. phase[c] = "absent" /\ writing[c] = 0
      BY <1>4 DEF Add
    <2>5. TypeOK'
      BY <2>1, <2>2, <2>3
    <2>6. HubInv'
      BY <2>1, <2>2, <2>3
    <2>7. Writes'
      BY <2>2, <2>3, <2>4
    <2> QED BY <2>5, <2>6, <2>7
  <1>5. ASSUME NEW c \in Conn, Receive(c) PROVE FanoutInv'
    <2>1. Head(chan[c]) \in Record /\ Tail(chan[c]) \in Seq(Record)
      BY <1>5 DEF Receive
    <2> QED BY <1>5, <2>1 DEF Receive, Goto, source, browser
  <1>6. ASSUME NEW c \in Conn, Leave(c) PROVE FanoutInv'
    BY <1>6 DEF Leave, Goto, source, browser
  <1>7. ASSUME NEW c \in Conn, Delete(c) PROVE FanoutInv'
    <2>1. todo = {} /\ todo' = todo /\ casting' = casting /\ key' = key
      BY <1>7 DEF Delete, WriteLock, source
    <2>2. phase' = [phase EXCEPT ![c] = "close"] /\ clients' = clients \ {c}
      BY <1>7 DEF Delete, Goto
    <2>3. UNCHANGED <<chan, closed, writing, gone, since, seen>>
      BY <1>7 DEF Delete, browser
    <2>4. phase[c] = "remove" /\ writing[c] = 0
      BY <1>7 DEF Delete
    <2>5. TypeOK'
      BY <2>1, <2>2, <2>3
    <2>6. HubInv'
      BY <2>1, <2>2, <2>3
    <2>7. Writes'
      BY <2>2, <2>3, <2>4
    <2> QED BY <2>5, <2>6, <2>7
  <1>8. ASSUME NEW c \in Conn, Close(c) PROVE FanoutInv'
    <2>1. c \notin clients
      BY <1>8 DEF Close
    <2>2. phase' = [phase EXCEPT ![c] = "absent"] /\ closed' = closed \union {c}
      BY <1>8 DEF Close, Goto
    <2>3. UNCHANGED <<key, casting, todo, clients, chan, writing, gone, since, seen>>
      BY <1>8 DEF Close, source, browser
    <2> QED BY <1>8, <2>1, <2>2, <2>3 DEF Close
  <1>9. ASSUME NEW c \in Conn, Write(c) PROVE FanoutInv'
    <2>1. Append(seen[c], writing[c]) \in Seq(Record)
      BY <1>9 DEF Write
    <2> QED BY <1>9, <2>1 DEF Write, Goto, source
  <1>10. ASSUME NEW c \in Conn, Disconnect(c) PROVE FanoutInv'
    BY <1>10 DEF Disconnect, source
  <1>11. CASE UNCHANGED vars
    BY <1>11 DEF vars
  <1> QED
    BY <1>1, <1>2, <1>3, <1>4, <1>5, <1>6, <1>7, <1>8, <1>9, <1>10, <1>11 DEF Next, Handle

\* And in every state.
LEMMA FanoutInductive == Spec => []FanoutInv
  BY FanoutInvInit, FanoutInvStep, PTL DEF Spec

\* The hub's map, its channels and what the handlers hold are what they should
\* be; in particular nothing but records is in a channel.
THEOREM FanoutTypeCorrect == Spec => []TypeOK
  <1>1. FanoutInv => TypeOK
    BY DEF FanoutInv
  <1> QED BY <1>1, FanoutInductive, PTL

\* However many browsers come, go and stop reading, broadcast() never sends to
\* a closed channel: remove() takes a channel out of the map under the lock
\* that a broadcast holds for all its sends, and closes it after that.
THEOREM HubNeverSendsOnClosed == Spec => []NeverSendsOnClosed
  <1>1. FanoutInv => NeverSendsOnClosed
    BY DEF FanoutInv, HubInv, TypeOK, NeverSendsOnClosed
  <1> QED BY <1>1, FanoutInductive, PTL

-------------------------------------------------------------------------------
(* Order.  What a connection was given is in three places: seen by the       *)
(* browser, being written, waiting.  Each place is in order, each is before  *)
(* the next, and nothing is newer than the last record sent to it.           *)

Before(m, s) == \A n \in 1..Len(s) : m < s[n]
After(s, m) == \A n \in 1..Len(s) : s[n] < m
Ordered(s) == \A m, n \in 1..Len(s) : m < n => s[m] < s[n]
Precedes(s, t) == \A n \in 1..Len(s) : Before(s[n], t)

\* Everything before it has been sent to c, or passed over.
Bound(c) == IF c \in todo THEN casting ELSE Len(key) + 1

InPlace(c) ==
    /\ Ordered(seen[c]) /\ Ordered(chan[c])
    /\ Before(since[c], seen[c]) /\ Before(since[c], chan[c])
    /\ Precedes(seen[c], chan[c])
    /\ writing[c] # 0 => /\ since[c] < writing[c] /\ writing[c] < Bound(c)
                         /\ After(seen[c], writing[c]) /\ Before(writing[c], chan[c])
    /\ since[c] < Bound(c) /\ After(seen[c], Bound(c)) /\ After(chan[c], Bound(c))

OrderInv == /\ FanoutInv
            /\ casting # 0 => casting = Len(key)
            /\ \A c \in Conn \ gone : InPlace(c)

\* The strengthening holds at the start.
LEMMA OrderInvInit == Init => OrderInv
  BY FanoutInvInit, FanoutAssumption
  DEF Init, OrderInv, InPlace, Ordered, Before, After, Precedes, Bound

\* Records are numbers.
LEMMA Elements ==
    ASSUME NEW s \in Seq(Record)
    PROVE  Len(s) \in Nat /\ \A n \in 1..Len(s) : s[n] \in Int
  <1>1. \A n \in 1..Len(s) : s[n] \in Record
    OBVIOUS
  <1> QED BY <1>1, FanoutAssumption DEF Record

\* A newer record at the end of a queue keeps it in order.
LEMMA AppendInOrder ==
    ASSUME NEW s \in Seq(Record), NEW v \in Record, Ordered(s), After(s, v)
    PROVE  /\ Ordered(Append(s, v))
           /\ \A m \in Int : Before(m, s) /\ m < v => Before(m, Append(s, v))
           /\ \A m \in Int : After(s, m) /\ v < m => After(Append(s, v), m)
  <1> DEFINE t == Append(s, v)
  <1>1. /\ Len(t) = Len(s) + 1 /\ t[Len(s) + 1] = v
        /\ \A n \in 1..Len(s) : t[n] = s[n]
    OBVIOUS
  <1>2. Len(s) \in Nat /\ v \in Int /\ \A n \in 1..Len(s) : s[n] \in Int
    BY Elements, FanoutAssumption DEF Record
  <1> HIDE DEF t
  <1>3. ASSUME NEW n \in 1..Len(t)
        PROVE  (n \in 1..Len(s) /\ t[n] = s[n]) \/ (n = Len(s) + 1 /\ t[n] = v)
    <2>1. n \in 1..Len(s) \/ n = Len(s) + 1
      BY <1>1, <1>2
    <2>2. CASE n \in 1..Len(s)
      BY <1>1, <2>2
    <2>3. CASE n = Len(s) + 1
      BY <1>1, <2>3
    <2> QED BY <2>1, <2>2, <2>3
  <1>4. ASSUME NEW m \in 1..Len(t), NEW n \in 1..Len(t), m < n PROVE t[m] < t[n]
    <2>1. m \in 1..Len(s) /\ t[m] = s[m]
      BY <1>1, <1>2, <1>3, <1>4
    <2>2. CASE n \in 1..Len(s)
      BY <1>1, <1>4, <2>1, <2>2 DEF Ordered
    <2>3. CASE n = Len(s) + 1
      BY <1>1, <2>1, <2>3 DEF After
    <2> QED BY <1>3, <2>2, <2>3
  <1>5. Ordered(t)
    BY <1>4 DEF Ordered
  <1>6. \A m \in Int : Before(m, s) /\ m < v => Before(m, t)
    BY <1>3 DEF Before
  <1>7. \A m \in Int : After(s, m) /\ v < m => After(t, m)
    BY <1>3 DEF After
  <1> QED BY <1>5, <1>6, <1>7 DEF t

\* So does taking the first.
LEMMA TailInOrder ==
    ASSUME NEW s \in Seq(Record), s # << >>, Ordered(s)
    PROVE  /\ Ordered(Tail(s)) /\ Before(Head(s), Tail(s))
           /\ \A m \in Int : Before(m, s) => m < Head(s) /\ Before(m, Tail(s))
           /\ \A m \in Int : After(s, m) => Head(s) < m /\ After(Tail(s), m)
  <1> DEFINE t == Tail(s)
  <1>1. /\ Len(s) \in Nat \ {0} /\ Len(t) = Len(s) - 1 /\ Head(s) = s[1]
        /\ \A n \in 1..Len(t) : t[n] = s[n + 1]
    OBVIOUS
  <1> HIDE DEF t
  <1>2. 1 \in 1..Len(s) /\ \A n \in 1..Len(t) : n + 1 \in 1..Len(s) /\ 1 < n + 1
    BY <1>1
  <1>3. ASSUME NEW m \in 1..Len(t), NEW n \in 1..Len(t), m < n PROVE t[m] < t[n]
    <2>1. s[m + 1] < s[n + 1]
      BY <1>2, <1>3 DEF Ordered
    <2> QED BY <1>1, <2>1
  <1>4. Ordered(t)
    BY <1>3 DEF Ordered
  <1>5. Before(Head(s), t)
    BY <1>1, <1>2 DEF Ordered, Before
  <1>6. \A m \in Int : Before(m, s) => m < Head(s) /\ Before(m, t)
    BY <1>1, <1>2 DEF Before
  <1>7. \A m \in Int : After(s, m) => Head(s) < m /\ After(t, m)
    BY <1>1, <1>2 DEF After
  <1> QED BY <1>4, <1>5, <1>6, <1>7 DEF t

\* Nothing changes for a connection whose places stay and whose bound grows.
LEMMA StaysInPlace ==
    ASSUME FanoutInv, FanoutInv', NEW c \in Conn, InPlace(c), Bound(c) <= Bound(c)',
           UNCHANGED <<seen[c], writing[c], chan[c], since[c]>>
    PROVE  InPlace(c)'
  <1>1. /\ seen'[c] = seen[c] /\ chan'[c] = chan[c]
        /\ writing'[c] = writing[c] /\ since'[c] = since[c]
    OBVIOUS
  <1>2. /\ seen[c] \in Seq(Record) /\ chan[c] \in Seq(Record)
        /\ writing[c] \in Int /\ since[c] \in Int
    BY FanoutAssumption DEF FanoutInv, TypeOK, Record
  <1>3. /\ \A n \in 1..Len(seen[c]) : seen[c][n] \in Int
        /\ \A n \in 1..Len(chan[c]) : chan[c][n] \in Int
    BY <1>2, Elements
  <1>4. Bound(c) \in Int /\ Bound(c)' \in Int
    BY FanoutAssumption DEF FanoutInv, TypeOK, Bound
  <1>5. since[c] < Bound(c)' /\ After(seen[c], Bound(c)') /\ After(chan[c], Bound(c)')
    <2>1. \A n \in 1..Len(seen[c]) : seen[c][n] < Bound(c)
      BY DEF InPlace, After
    <2>2. \A n \in 1..Len(chan[c]) : chan[c][n] < Bound(c)
      BY DEF InPlace, After
    <2>3. since[c] < Bound(c)
      BY DEF InPlace
    <2>4. \A x \in Int : x < Bound(c) => x < Bound(c)'
      BY <1>4
    <2> QED BY <2>1, <2>2, <2>3, <2>4, <1>2, <1>3 DEF After
  <1>6. writing[c] # 0 => writing[c] < Bound(c)'
    BY <1>2, <1>4 DEF InPlace
  <1> QED BY <1>1, <1>5, <1>6 DEF InPlace, Ordered, Before, After, Precedes

\* The step of the strengthening, an action at a time.
LEMMA OrderInvStep == OrderInv /\ [Next]_vars => OrderInv'
  <1> SUFFICES ASSUME OrderInv, [Next]_vars PROVE OrderInv'
    OBVIOUS
  <1>0. FanoutInv /\ FanoutInv'
    BY FanoutInvStep DEF OrderInv
  <1>t. TypeOK /\ TypeOK' /\ HubInv /\ HubInv' /\ Writes
    BY <1>0 DEF FanoutInv
  <1>1. ASSUME NEW k \in Key, Broadcast(k) PROVE OrderInv'
    <2>1. /\ key' = Append(key, k) /\ Len(key') = Len(key) + 1 /\ casting' = Len(key')
          /\ Len(key) \in Nat /\ casting = 0 /\ todo = {}
      BY <1>1, <1>t DEF Broadcast, TypeOK, HubInv
    <2>2. \A c \in Conn : UNCHANGED <<seen[c], writing[c], chan[c], since[c]>>
      BY <1>1 DEF Broadcast, browser
    <2>3. \A c \in Conn : Bound(c) <= Bound(c)'
      BY <2>1 DEF Bound
    <2>4. \A c \in Conn \ gone : InPlace(c)'
      BY <1>0, <2>2, <2>3, StaysInPlace DEF OrderInv
    <2>5. gone' = gone
      BY <1>1 DEF Broadcast, browser
    <2> QED BY <1>0, <2>1, <2>4, <2>5 DEF OrderInv
  <1>2. CASE BroadcastEnds
    <2>1. \A c \in Conn : /\ UNCHANGED <<seen[c], writing[c], chan[c], since[c]>>
                          /\ Bound(c)' = Bound(c)
      BY <1>2 DEF BroadcastEnds, browser, Bound
    <2>2. \A c \in Conn : Bound(c) <= Bound(c)'
      BY <2>1, <1>t DEF Bound, TypeOK
    <2>3. \A c \in Conn \ gone : InPlace(c)'
      BY <1>0, <2>1, <2>2, StaysInPlace DEF OrderInv
    <2> QED BY <1>0, <1>2, <2>3 DEF OrderInv, BroadcastEnds, browser
  <1>3. ASSUME NEW c \in Conn, Send(c) PROVE OrderInv'
    <2>1. /\ casting \in 1..MaxRecords /\ casting = Len(key) /\ c \in todo
          /\ casting' = casting /\ key' = key /\ gone' = gone
      BY <1>3, <1>t, FanoutAssumption DEF Send, TypeOK, HubInv, OrderInv, browser
    <2>2. Bound(c) = casting /\ Bound(c)' = casting + 1
      BY <1>3, <2>1 DEF Send, Bound
    <2>3. /\ UNCHANGED <<seen, writing, since>>
          /\ chan'[c] = IF Len(chan[c]) < Cap THEN Append(chan[c], casting) ELSE chan[c]
          /\ \A d \in Conn \ {c} : chan'[d] = chan[d] /\ Bound(d)' = Bound(d)
      BY <1>3, <1>t DEF Send, TypeOK, Bound, browser
    <2>4. ASSUME c \notin gone PROVE InPlace(c)'
      <3>1. InPlace(c)
        BY <2>4 DEF OrderInv
      <3>2. chan[c] \in Seq(Record) /\ seen[c] \in Seq(Record)
        BY <1>t DEF TypeOK
      <3>e. /\ Len(seen[c]) \in Nat /\ \A n \in 1..Len(seen[c]) : seen[c][n] \in Int
            /\ Len(chan[c]) \in Nat /\ \A n \in 1..Len(chan[c]) : chan[c][n] \in Int
            /\ casting \in Int /\ writing[c] \in Int /\ since[c] \in Int
        BY <3>2, <2>1, <1>t, Elements, FanoutAssumption DEF TypeOK, Record
      <3>s. /\ seen'[c] = seen[c] /\ writing'[c] = writing[c] /\ since'[c] = since[c]
            /\ After(seen[c], casting) /\ After(chan[c], casting) /\ since[c] < casting
            /\ writing[c] # 0 => writing[c] < casting
        BY <3>1, <2>2, <2>3 DEF InPlace
      <3>n. \A x \in Int : x < casting => x < casting + 1
        BY <3>e
      <3>b. /\ After(seen[c], casting + 1) /\ After(chan[c], casting + 1)
            /\ since[c] < casting + 1
            /\ writing[c] # 0 => writing[c] < casting + 1
        BY <3>e, <3>s, <3>n DEF After
      <3>3. CASE Len(chan[c]) >= Cap
        <4>1. chan'[c] = chan[c]
          BY <3>3, <3>e, <2>3, FanoutAssumption
        <4> QED BY <3>1, <3>s, <3>b, <2>2, <4>1 DEF InPlace, Ordered, Before, After, Precedes
      <3>4. CASE Len(chan[c]) < Cap
        <4>1. chan'[c] = Append(chan[c], casting) /\ casting \in Record
          BY <3>4, <3>e, <2>3, <2>1, FanoutAssumption DEF Record
        <4>2. /\ Ordered(chan'[c])
              /\ \A m \in Int : Before(m, chan[c]) /\ m < casting => Before(m, chan'[c])
              /\ \A m \in Int : After(chan[c], m) /\ casting < m => After(chan'[c], m)
          BY <3>1, <3>2, <3>s, <4>1, AppendInOrder DEF InPlace
        <4>3. /\ Before(since[c], chan'[c])
              /\ writing[c] # 0 => Before(writing[c], chan'[c])
          BY <3>1, <3>e, <3>s, <4>2 DEF InPlace
        <4>4. ASSUME NEW n \in 1..Len(seen[c]) PROVE Before(seen[c][n], chan'[c])
          <5>1. Before(seen[c][n], chan[c]) /\ seen[c][n] < casting /\ seen[c][n] \in Int
            BY <3>1, <3>e, <3>s DEF InPlace, After, Precedes
          <5> QED BY <4>2, <5>1
        <4>5. After(chan'[c], casting + 1)
          BY <3>b, <3>e, <4>2
        <4> QED
          BY <3>1, <3>s, <3>b, <2>2, <4>2, <4>3, <4>4, <4>5 DEF InPlace, Precedes
      <3> QED BY <3>3, <3>4, <3>e, FanoutAssumption
    <2>5. \A d \in Conn \ gone : d # c => InPlace(d)'
      <3>1. \A d \in Conn : d # c => Bound(d) <= Bound(d)'
        BY <2>3, <1>t DEF Bound, TypeOK
      <3> QED BY <1>0, <2>3, <3>1, StaysInPlace DEF OrderInv
    <2> QED BY <1>0, <2>1, <2>4, <2>5 DEF OrderInv
  <1>4. ASSUME NEW c \in Conn, Add(c) PROVE OrderInv'
    <2>1. /\ UNCHANGED <<key, casting, todo, writing>> /\ gone' = gone \ {c} /\ todo = {}
          /\ casting = 0 /\ phase[c] = "absent"
      BY <1>4, <1>t DEF Add, source, WriteLock, HubInv
    <2>2. /\ chan'[c] = << >> /\ seen'[c] = << >> /\ since'[c] = Len(key)
          /\ \A d \in Conn \ {c} : UNCHANGED <<seen[d], chan[d], since[d]>>
      BY <1>4, <1>t DEF Add, TypeOK
    <2>3. writing'[c] = 0
      BY <2>1, <1>t DEF Writes
    <2>4. InPlace(c)'
      <3>1. Len(key) \in Nat /\ Bound(c)' = Len(key) + 1
        BY <2>1, <1>t DEF Bound, TypeOK
      <3> QED BY <2>2, <2>3, <3>1 DEF InPlace, Ordered, Before, After, Precedes
    <2>5. \A d \in Conn \ gone : d # c => InPlace(d)'
      <3>1. \A d \in Conn : Bound(d) <= Bound(d)'
        BY <2>1, <1>t DEF Bound, TypeOK
      <3> QED BY <1>0, <2>1, <2>2, <3>1, StaysInPlace DEF OrderInv
    <2> QED BY <1>0, <2>1, <2>4, <2>5 DEF OrderInv
  <1>5. ASSUME NEW c \in Conn, Receive(c) PROVE OrderInv'
    <2>1. /\ UNCHANGED <<key, casting, todo, gone, seen, since>> /\ chan[c] # << >>
          /\ writing'[c] = Head(chan[c]) /\ chan'[c] = Tail(chan[c]) /\ writing[c] = 0
          /\ \A d \in Conn \ {c} : UNCHANGED <<writing[d], chan[d]>>
      BY <1>5, <1>t DEF Receive, TypeOK, Writes, source, browser
    <2>2. \A d \in Conn : Bound(d)' = Bound(d) /\ Bound(d) \in Int
      BY <2>1, <1>t DEF Bound, TypeOK
    <2>3. ASSUME c \notin gone PROVE InPlace(c)'
      <3>1. InPlace(c)
        BY <2>3 DEF OrderInv
      <3>2. chan[c] \in Seq(Record) /\ seen[c] \in Seq(Record)
        BY <1>t DEF TypeOK
      <3>3. /\ seen'[c] = seen[c] /\ since'[c] = since[c] /\ Bound(c)' = Bound(c)
            /\ Bound(c) \in Int /\ since[c] \in Int
            /\ \A n \in 1..Len(seen[c]) : seen[c][n] \in Int
        BY <3>2, <2>1, <2>2, <1>t, Elements DEF TypeOK
      <3>4. /\ Ordered(chan'[c]) /\ Before(writing'[c], chan'[c])
            /\ \A m \in Int : Before(m, chan[c]) => m < writing'[c] /\ Before(m, chan'[c])
            /\ \A m \in Int : After(chan[c], m) => writing'[c] < m /\ After(chan'[c], m)
        BY <3>1, <3>2, <2>1, TailInOrder DEF InPlace
      <3>5. /\ since[c] < writing'[c] /\ writing'[c] < Bound(c)
            /\ Before(since[c], chan'[c]) /\ After(chan'[c], Bound(c))
        BY <3>1, <3>3, <3>4 DEF InPlace
      <3>6. /\ \A n \in 1..Len(seen[c]) : Before(seen[c][n], chan'[c])
            /\ After(seen[c], writing'[c])
        BY <3>1, <3>3, <3>4 DEF InPlace, After, Precedes
      <3> QED BY <3>1, <3>3, <3>4, <3>5, <3>6 DEF InPlace, Precedes
    <2>4. \A d \in Conn \ gone : d # c => InPlace(d)'
      BY <1>0, <2>1, <2>2, StaysInPlace DEF OrderInv
    <2> QED BY <1>0, <2>1, <2>3, <2>4 DEF OrderInv
  <1>6. ASSUME NEW c \in Conn, Leave(c) PROVE OrderInv'
    <2>1. /\ UNCHANGED <<key, casting, todo, gone, seen, since, chan>> /\ c \in gone
          /\ \A d \in Conn \ {c} : writing'[d] = writing[d]
      BY <1>6, <1>t DEF Leave, TypeOK, source, browser
    <2>2. \A d \in Conn : Bound(d) <= Bound(d)'
      BY <2>1, <1>t DEF Bound, TypeOK
    <2>3. \A d \in Conn \ gone : InPlace(d)'
      BY <1>0, <2>1, <2>2, StaysInPlace DEF OrderInv
    <2> QED BY <1>0, <2>1, <2>3 DEF OrderInv
  <1>7. ASSUME NEW c \in Conn,
               Delete(c) \/ Close(c) \/ Disconnect(c)
        PROVE  OrderInv'
    <2>1. UNCHANGED <<key, casting, todo, seen, since, chan, writing>> /\ gone \subseteq gone'
      BY <1>7 DEF Delete, Close, Disconnect, source, browser
    <2>2. \A d \in Conn : Bound(d) <= Bound(d)'
      BY <2>1, <1>t DEF Bound, TypeOK
    <2>3. \A d \in Conn \ gone : InPlace(d)'
      BY <1>0, <2>1, <2>2, StaysInPlace DEF OrderInv
    <2> QED BY <1>0, <2>1, <2>3 DEF OrderInv
  <1>8. ASSUME NEW c \in Conn, Write(c) PROVE OrderInv'
    <2>1. /\ UNCHANGED <<key, casting, todo, gone, chan, since>>
          /\ writing[c] # 0 /\ writing'[c] = 0
          /\ seen'[c] = IF c \in gone THEN seen[c] ELSE Append(seen[c], writing[c])
          /\ \A d \in Conn \ {c} : UNCHANGED <<writing[d], seen[d]>>
      BY <1>8, <1>t DEF Write, TypeOK, Writes, source
    <2>2. \A d \in Conn : Bound(d)' = Bound(d) /\ Bound(d) \in Int
      BY <2>1, <1>t DEF Bound, TypeOK
    <2>3. ASSUME c \notin gone PROVE InPlace(c)'
      <3>1. InPlace(c)
        BY <2>3 DEF OrderInv
      <3>2. seen[c] \in Seq(Record) /\ chan[c] \in Seq(Record) /\ writing[c] \in Record
        BY <2>1, <1>t DEF TypeOK
      <3>3. /\ chan'[c] = chan[c] /\ since'[c] = since[c] /\ Bound(c)' = Bound(c)
            /\ Bound(c) \in Int /\ since[c] \in Int
            /\ seen'[c] = Append(seen[c], writing[c])
        BY <2>1, <2>2, <2>3, <1>t DEF TypeOK
      <3>4. /\ Ordered(seen'[c]) /\ Before(since[c], seen'[c]) /\ After(seen'[c], Bound(c))
        BY <3>1, <3>2, <3>3, <2>1, AppendInOrder DEF InPlace
      <3>5. ASSUME NEW n \in 1..Len(seen'[c]) PROVE Before(seen'[c][n], chan[c])
        <4>1. \/ n \in 1..Len(seen[c]) /\ seen'[c][n] = seen[c][n]
              \/ seen'[c][n] = writing[c]
          BY <3>2, <3>3
        <4> QED BY <4>1, <3>1, <2>1 DEF InPlace, Precedes
      <3> QED BY <3>1, <3>3, <3>4, <3>5, <2>1 DEF InPlace, Precedes
    <2>4. \A d \in Conn \ gone : d # c => InPlace(d)'
      BY <1>0, <2>1, <2>2, StaysInPlace DEF OrderInv
    <2> QED BY <1>0, <2>1, <2>3, <2>4 DEF OrderInv
  <1>9. CASE UNCHANGED vars
    <2>1. UNCHANGED <<key, casting, todo, seen, since, chan, writing, gone>>
      BY <1>9 DEF vars
    <2>2. \A d \in Conn : Bound(d) <= Bound(d)'
      BY <2>1, <1>t DEF Bound, TypeOK
    <2>3. \A d \in Conn \ gone : InPlace(d)'
      BY <1>0, <2>1, <2>2, StaysInPlace DEF OrderInv
    <2> QED BY <1>0, <2>1, <2>3 DEF OrderInv
  <1> QED
    BY <1>1, <1>2, <1>3, <1>4, <1>5, <1>6, <1>7, <1>8, <1>9 DEF Next, Handle

\* Everything is in its place in every behaviour.
LEMMA OrderInductive == Spec => []OrderInv
  BY OrderInvInit, OrderInvStep, PTL DEF Spec

\* Two places in order, one before the other, are in order together.
LEMMA JoinInOrder ==
    ASSUME NEW s \in Seq(Int), NEW t \in Seq(Int), Ordered(s), Ordered(t), Precedes(s, t)
    PROVE  /\ s \o t \in Seq(Int) /\ Ordered(s \o t)
           /\ \A m : Before(m, s) /\ Before(m, t) => Before(m, s \o t)
           /\ \A r : Precedes(s, r) /\ Precedes(t, r) => Precedes(s \o t, r)
  <1> DEFINE u == s \o t
  <1>2. Len(s) \in Nat /\ Len(t) \in Nat
    OBVIOUS
  <1>1. /\ u \in Seq(Int) /\ Len(u) = Len(s) + Len(t)
        /\ \A n \in 1..(Len(s) + Len(t)) :
              u[n] = IF n <= Len(s) THEN s[n] ELSE t[n - Len(s)]
    BY ConcatProperties, Zenon
  <1> HIDE DEF u
  <1>3. ASSUME NEW n \in 1..Len(u)
        PROVE  /\ n \in Nat
               /\ n <= Len(s) => n \in 1..Len(s) /\ u[n] = s[n]
               /\ n > Len(s) => n - Len(s) \in 1..Len(t) /\ u[n] = t[n - Len(s)]
    <2>1. /\ n \in Nat
          /\ n <= Len(s) => n \in 1..Len(s)
          /\ n > Len(s) => n - Len(s) \in 1..Len(t) /\ ~(n <= Len(s))
      BY <1>2, <1>1
    <2> QED BY <2>1, <1>1
  <1>4. ASSUME NEW m \in 1..Len(u), NEW n \in 1..Len(u), m < n PROVE u[m] < u[n]
    <2>1. CASE n <= Len(s)
      <3>1. /\ m \in 1..Len(s) /\ u[m] = s[m]
            /\ n \in 1..Len(s) /\ u[n] = s[n]
        BY <1>2, <1>3, <1>4, <2>1
      <3> QED BY <1>4, <3>1 DEF Ordered
    <2>2. CASE m <= Len(s) /\ n > Len(s)
      <3>1. /\ m \in 1..Len(s) /\ u[m] = s[m]
            /\ n - Len(s) \in 1..Len(t) /\ u[n] = t[n - Len(s)]
        BY <1>3, <2>2
      <3> QED BY <3>1 DEF Precedes, Before
    <2>3. CASE m > Len(s)
      <3>1. /\ m - Len(s) \in 1..Len(t) /\ u[m] = t[m - Len(s)]
            /\ n - Len(s) \in 1..Len(t) /\ u[n] = t[n - Len(s)]
            /\ m - Len(s) < n - Len(s)
        BY <1>2, <1>3, <1>4, <2>3
      <3> QED BY <3>1 DEF Ordered
    <2> QED BY <1>2, <1>3, <2>1, <2>2, <2>3
  <1>5. Ordered(u)
    BY <1>4 DEF Ordered
  <1>3a. ASSUME NEW n \in 1..Len(u)
        PROVE  \/ \E i \in 1..Len(s) : u[n] = s[i]
               \/ \E i \in 1..Len(t) : u[n] = t[i]
    <2>1. CASE n <= Len(s)
      BY <1>3, <2>1
    <2>2. CASE n > Len(s)
      BY <1>3, <2>2
    <2> QED BY <1>2, <1>3, <2>1, <2>2
  <1>6. \A m : Before(m, s) /\ Before(m, t) => Before(m, u)
    <2>1. ASSUME NEW m, Before(m, s), Before(m, t), NEW n \in 1..Len(u) PROVE m < u[n]
      <3>1. CASE \E i \in 1..Len(s) : u[n] = s[i]
        BY <2>1, <3>1, Zenon DEF Before
      <3>2. CASE \E i \in 1..Len(t) : u[n] = t[i]
        BY <2>1, <3>2, Zenon DEF Before
      <3> QED BY <1>3a, <3>1, <3>2
    <2> QED BY <2>1 DEF Before
  <1>7. \A r : Precedes(s, r) /\ Precedes(t, r) => Precedes(u, r)
    BY <1>3a DEF Precedes
  <1> QED BY <1>1, <1>5, <1>6, <1>7 DEF u

\* The three places, read one after the other, are in order.
LEMMA InPlaceInOrder == OrderInv => InOrderOnce
  <1> SUFFICES ASSUME OrderInv, NEW c \in Conn \ gone
               PROVE  LET got == <<since[c]>> \o Got(c)
                      IN  \A i \in 1..(Len(got) - 1) : got[i] < got[i + 1]
    BY DEF InOrderOnce
  <1> DEFINE mid == IF writing[c] = 0 THEN << >> ELSE <<writing[c]>>
             first == <<since[c]>>
             front == seen[c] \o mid
             rest == front \o chan[c]
             got == first \o rest
  <1>1. InPlace(c) /\ TypeOK
    BY DEF OrderInv, FanoutInv
  <1>2. /\ seen[c] \in Seq(Int) /\ chan[c] \in Seq(Int)
        /\ writing[c] \in Int /\ since[c] \in Int
    BY <1>1, FanoutAssumption DEF TypeOK, Record
  <1>3. mid \in Seq(Int) /\ Ordered(mid)
    BY <1>2 DEF Ordered
  <1>4. Precedes(seen[c], mid)
    BY <1>1, <1>2 DEF InPlace, Precedes, Before, After
  <1>5. Before(since[c], mid)
    BY <1>1, <1>2 DEF InPlace, Before
  <1>6. Precedes(mid, chan[c])
    BY <1>1, <1>2 DEF InPlace, Precedes
  <1> HIDE DEF mid
  <1>7. /\ front \in Seq(Int) /\ Ordered(front)
        /\ Before(since[c], front) /\ Precedes(front, chan[c])
    BY <1>1, <1>2, <1>3, <1>4, <1>5, <1>6, JoinInOrder DEF InPlace
  <1> HIDE DEF front
  <1>8. rest \in Seq(Int) /\ Ordered(rest) /\ Before(since[c], rest)
    BY <1>1, <1>2, <1>7, JoinInOrder DEF InPlace
  <1> HIDE DEF rest
  <1>9. first \in Seq(Int) /\ Ordered(first) /\ Precedes(first, rest)
    BY <1>2, <1>8 DEF Ordered, Precedes
  <1> HIDE DEF first
  <1>10. got \in Seq(Int) /\ Ordered(got)
    BY <1>8, <1>9, JoinInOrder
  <1> HIDE DEF got
  <1>11. \A i \in 1..(Len(got) - 1) : got[i] < got[i + 1]
    BY <1>10 DEF Ordered
  <1> QED BY <1>11 DEF Got, got, first, rest, front, mid

\* However slow a browser is and however connections come and go, a connection
\* gets records in the order they were read, none twice, none from before it
\* joined.
THEOREM HubKeepsOrder == Spec => []InOrderOnce
  BY InPlaceInOrder, OrderInductive, PTL
-------------------------------------------------------------------------------
(* Refinement.  A connection that is up is an open stream: what waits for it *)
(* is the record in hand and its channel, and what it lacks is what it was   *)
(* offered and not given.                                                    *)

InHand(c) == IF writing[c] = 0 THEN << >> ELSE <<writing[c]>>
Waits(c) == InHand(c) \o chan[c]
Lacks(c) == Offered(c) - Len(Got(c))

\* What waits for a connection and what it lacks, in numbers.
Measured(c) ==
    /\ InHand(c) \in Seq(Record) /\ Waits(c) \in Seq(Record)
    /\ Len(Waits(c)) = Len(InHand(c)) + Len(chan[c])
    /\ Len(InHand(c)) \in Int /\ Len(InHand(c)) <= 1
    /\ Lacks(c) = Offered(c) - Len(seen[c]) - Len(Waits(c))
    /\ Len(seen[c]) \in Nat /\ Len(chan[c]) \in Nat /\ Len(Waits(c)) \in Nat
    /\ Offered(c) \in Int /\ Lacks(c) \in Int /\ Lacks(c) <= MaxRecords

\* In particular it lacks no more than was ever read.
LEMMA AllMeasured == FanoutInv => \A c \in Conn : Measured(c)
  <1> SUFFICES ASSUME FanoutInv, NEW c \in Conn PROVE Measured(c)
    OBVIOUS
  <1>1. seen[c] \in Seq(Record) /\ chan[c] \in Seq(Record) /\ writing[c] \in Record \union {0}
    BY DEF FanoutInv, TypeOK
  <1>2. /\ InHand(c) \in Seq(Record)
        /\ Len(InHand(c)) \in Int /\ Len(InHand(c)) <= 1
    <2>1. CASE writing[c] = 0
      BY <2>1 DEF InHand
    <2>2. CASE writing[c] # 0
      BY <1>1, <2>2 DEF InHand
    <2> QED BY <2>1, <2>2
  <1>3. /\ Len(seen[c]) \in Nat /\ Len(chan[c]) \in Nat /\ Len(InHand(c)) \in Nat
    BY <1>1, <1>2
  <1>4. /\ Waits(c) \in Seq(Record) /\ Len(Waits(c)) = Len(InHand(c)) + Len(chan[c])
    BY <1>1, <1>2, ConcatProperties, Zenon DEF Waits
  <1>5. Got(c) = seen[c] \o Waits(c)
    <2>1. Got(c) = (seen[c] \o InHand(c)) \o chan[c]
      BY DEF Got, InHand
    <2>2. (seen[c] \o InHand(c)) \o chan[c] = seen[c] \o (InHand(c) \o chan[c])
      <3>1. \A s, t, u \in Seq(Record) : (s \o t) \o u = s \o (t \o u)
        BY ConcatAssociative
      <3> QED BY <1>1, <1>2, <3>1, Zenon
    <2> QED BY <2>1, <2>2 DEF Waits
  <1>6. Len(Got(c)) = Len(seen[c]) + Len(Waits(c))
    BY <1>1, <1>4, <1>5, ConcatProperties, Zenon
  <1>7. Offered(c) \in Int /\ Offered(c) <= MaxRecords
    BY FanoutAssumption DEF Offered, FanoutInv, TypeOK
  <1>8. Lacks(c) = Offered(c) - Len(seen[c]) - Len(Waits(c))
    <2>1. Len(Waits(c)) \in Nat
      BY <1>4
    <2> QED BY <2>1, <1>3, <1>6, <1>7 DEF Lacks
  <1>9. Lacks(c) \in Int /\ Lacks(c) <= MaxRecords
    BY <1>3, <1>4, <1>7, <1>8, FanoutAssumption
  <1> QED BY <1>2, <1>3, <1>4, <1>7, <1>8, <1>9 DEF Measured

\* The same of the next state.
LEMMA AllMeasuredNext == FanoutInv' => (\A c \in Conn : Measured(c))'
  BY AllMeasured, PTL

\* Connection d neither goes up or down nor gets or loses anything.
Same(d) == (d \in upNow' <=> d \in upNow) /\ Waits(d)' = Waits(d) /\ Lacks(d)' = Lacks(d)

\* What the mapping says, a connection at a time.
LEMMA Mapping ==
    /\ upNow \subseteq Conn
    /\ waits = [c \in Conn |-> IF c \in upNow THEN Waits(c) ELSE << >>]
    /\ lacks = [c \in Conn |-> IF c \in upNow THEN Lacks(c) ELSE 0]
  BY DEF waits, lacks, upNow, Waits, InHand, Lacks

\* A step after which every stream is as it was is a stutter.
LEMMA Stutter ==
    ASSUME \A d \in Conn : Same(d) \/ (d \notin upNow /\ d \notin upNow')
    PROVE  UNCHANGED <<upNow, waits, lacks>>
  <1>1. upNow' = upNow
    BY DEF Same, upNow
  <1>2. waits' = waits
    BY <1>1 DEF Same, waits, upNow, Waits, InHand
  <1>3. lacks' = lacks
    BY <1>1 DEF Same, lacks, upNow, Lacks
  <1> QED BY <1>1, <1>2, <1>3

\* What waits for a connection grows at its end and shrinks at its front.
LEMMA WaitsChange ==
    ASSUME NEW h \in Seq(Record), NEW s \in Seq(Record), NEW v \in Record
    PROVE  /\ h \o Append(s, v) = Append(h \o s, v)
           /\ << >> \o s = s
           /\ <<v>> \o s # << >> /\ Tail(<<v>> \o s) = s /\ Head(<<v>> \o s) = v
           /\ s # << >> => <<Head(s)>> \o Tail(s) = s
  <1>1. h \o Append(s, v) = Append(h \o s, v)
    <2>1. h \o s \in Seq(Record) /\ <<v>> \in Seq(Record)
      <3>1. <<v>> \in Seq(Record)
        OBVIOUS
      <3> QED BY <3>1, ConcatProperties, Zenon
    <2>2. Append(s, v) = s \o <<v>> /\ Append(h \o s, v) = (h \o s) \o <<v>>
      BY <2>1, AppendIsConcat, Zenon
    <2>3. (h \o s) \o <<v>> = h \o (s \o <<v>>)
      BY <2>1, ConcatAssociative
    <2> QED BY <2>2, <2>3
  <1>2. << >> \o s = s
    BY ConcatEmptySeq, Zenon
  <1>3. <<v>> \o s # << >> /\ Tail(<<v>> \o s) = s /\ Head(<<v>> \o s) = v
    OBVIOUS
  <1>4. s # << >> => <<Head(s)>> \o Tail(s) = s
    OBVIOUS
  <1> QED BY <1>1, <1>2, <1>3, <1>4
\* No stream is open at the start.
LEMMA RefinementInit == Init => Abstract!Init
  BY DEF Init, Abstract!Init, upNow, waits, lacks

\* One action of the hub at a time: most say nothing of any stream.
LEMMA RefinementStep ==
    FanoutInv /\ [Next]_vars => [Abstract!Next]_Abstract!svars
  <1> SUFFICES ASSUME FanoutInv, [Next]_vars
               PROVE  Abstract!Next \/ UNCHANGED <<upNow, waits, lacks>>
    BY DEF Abstract!svars
  <1>t. TypeOK /\ HubInv
    BY DEF FanoutInv
  <1>m. /\ waits = [c \in Conn |-> IF c \in upNow THEN Waits(c) ELSE << >>]
        /\ lacks = [c \in Conn |-> IF c \in upNow THEN Lacks(c) ELSE 0]
    BY Mapping
  <1>b. \A c \in Conn : Measured(c) /\ Measured(c)'
    BY FanoutInvStep, AllMeasured, AllMeasuredNext
  <1>n. /\ waits' = [c \in Conn |-> IF c \in upNow' THEN Waits(c)' ELSE << >>]
        /\ lacks' = [c \in Conn |-> IF c \in upNow' THEN Lacks(c)' ELSE 0]
    BY DEF waits, lacks, upNow, Waits, InHand, Lacks
  <1>1. ASSUME NEW k \in Key, Broadcast(k) PROVE UNCHANGED <<upNow, waits, lacks>>
    <2>1. /\ Len(key') = Len(key) + 1 /\ Len(key) \in Nat /\ todo = {} /\ todo' = clients
          /\ UNCHANGED <<phase, chan, writing, gone, since, seen>>
      BY <1>1, <1>t DEF Broadcast, HubInv, TypeOK, browser
    <2>2. ASSUME NEW d \in Conn, d \in upNow PROVE Same(d)
      <3>1. d \in clients /\ since[d] \in Int
        BY <2>2, <1>t, FanoutAssumption DEF upNow, HubInv, InMap, TypeOK
      <3>2. Offered(d)' = Offered(d) /\ Got(d)' = Got(d)
        BY <2>1, <3>1 DEF Offered, Got
      <3> QED BY <2>1, <3>2 DEF Same, upNow, Waits, InHand, Lacks
    <2>3. \A d \in Conn : d \in upNow' <=> d \in upNow
      BY <2>1 DEF upNow
    <2> QED BY <2>2, <2>3, Stutter
  <1>2. CASE BroadcastEnds
    <2>1. \A d \in Conn : Same(d)
      BY <1>2 DEF BroadcastEnds, browser, Same, upNow, Waits, InHand, Lacks, Offered, Got
    <2> QED BY <2>1, Stutter
  <1>3. ASSUME NEW c \in Conn, Send(c) PROVE Abstract!Next \/ UNCHANGED <<upNow, waits, lacks>>
    <2>1. /\ UNCHANGED <<key, casting, phase, writing, gone, since, seen>>
          /\ c \in todo /\ todo' = todo \ {c} /\ upNow' = upNow /\ casting \in Record
          /\ chan' = [chan EXCEPT ![c] = IF Len(@) < Cap THEN Append(@, casting) ELSE @]
      <3>1. /\ UNCHANGED <<key, casting, phase, writing, gone, since, seen>>
            /\ c \in todo /\ todo' = todo \ {c}
            /\ chan' = [chan EXCEPT ![c] = IF Len(@) < Cap THEN Append(@, casting) ELSE @]
        BY <1>3 DEF Send, browser
      <3>2. casting \in Record
        BY <3>1, <1>t, FanoutAssumption DEF HubInv, TypeOK, Record
      <3> QED BY <3>1, <3>2 DEF upNow
    <2>2. \A d \in Conn : d # c => Same(d)
      BY <2>1, <1>t DEF TypeOK, Same, Waits, InHand, Lacks, Offered, Got
    <2>3. CASE c \notin upNow
      BY <2>1, <2>2, <2>3, Stutter
    <2>4. CASE c \in upNow
      <3>1. /\ chan[c] \in Seq(Record) /\ Len(chan[c]) \in Nat /\ Len(key) \in Int
            /\ since[c] \in Int /\ seen[c] \in Seq(Record)
        BY <1>t, FanoutAssumption DEF TypeOK
      <3>2. Offered(c)' = Offered(c) + 1
        BY <2>1, <3>1 DEF Offered
      <3>3. CASE Len(chan[c]) < Cap
        <4>1. chan'[c] = Append(chan[c], casting)
          BY <2>1, <3>3, <1>t DEF TypeOK
        <4>2. Waits(c)' = Append(Waits(c), casting)
          <5>1. InHand(c)' = InHand(c)
            BY <2>1 DEF InHand
          <5>2. InHand(c) \in Seq(Record)
            BY <1>b DEF Measured
          <5>3. InHand(c) \o Append(chan[c], casting) = Append(InHand(c) \o chan[c], casting)
            BY <2>1, <3>1, <5>2, WaitsChange
          <5> QED BY <4>1, <5>1, <5>3 DEF Waits
        <4>3. Lacks(c)' = Lacks(c)
          <5>1. Len(Waits(c)') = Len(Waits(c)) + 1 /\ Len(Waits(c)) \in Nat
            BY <4>2, <2>1, <1>b DEF Measured
          <5>2. Lacks(c)' = Offered(c)' - Len(seen[c])' - Len(Waits(c)')
            BY <1>b DEF Measured
          <5> QED BY <5>1, <5>2, <3>2, <2>1, <1>b DEF Measured
        <4>4. Len(Waits(c)) <= Cap
          <5>1. Measured(c)
            BY <1>b
          <5>2. Len(Waits(c)) = Len(InHand(c)) + Len(chan[c])
            BY <5>1 DEF Measured
          <5>3. Len(InHand(c)) \in Int /\ Len(InHand(c)) <= 1
            BY <5>1 DEF Measured
          <5>4. Len(chan[c]) \in Int /\ Len(chan[c]) + 1 <= Cap /\ Cap \in Int
            BY <3>1, <3>3, FanoutAssumption
          <5> QED BY <5>2, <5>3, <5>4
        <4>5. Abstract!Accept(c, casting)
          BY <4>2, <4>3, <4>4, <2>1, <2>2, <2>4, <1>m, <1>n DEF Abstract!Accept, Same
        <4> QED BY <4>5, <2>1 DEF Abstract!Next
      <3>4. CASE Len(chan[c]) >= Cap
        <4>1. Waits(c)' = Waits(c) /\ seen'[c] = seen[c] /\ Got(c)' = Got(c)
          <5>1. chan'[c] = chan[c]
            BY <2>1, <3>4, <3>1, <1>t, FanoutAssumption DEF TypeOK
          <5> QED BY <2>1, <5>1 DEF Waits, InHand, Got
        <4>2. Lacks(c)' = Lacks(c) + 1
          <5>1. Len(Got(c)) \in Nat
            BY <1>b DEF Measured, Lacks
          <5> QED BY <5>1, <4>1, <3>2, <1>b DEF Measured, Lacks
        <4>3. Lacks(c) < MaxRecords + 1
          BY <1>b, FanoutAssumption DEF Measured
        <4>4. Len(Waits(c)) >= Cap
          BY <3>1, <3>4, <1>b, FanoutAssumption DEF Measured
        <4>5. Abstract!Drop(c)
          BY <4>1, <4>2, <4>3, <4>4, <2>1, <2>2, <2>4, <1>m, <1>n DEF Abstract!Drop, Same
        <4> QED BY <4>5 DEF Abstract!Next
      <3> QED BY <3>1, <3>3, <3>4, FanoutAssumption
    <2> QED BY <2>3, <2>4
  <1>4. ASSUME NEW c \in Conn, Add(c) PROVE Abstract!Next
    <2>1. /\ UNCHANGED <<key, casting, todo, writing>> /\ todo = {} /\ writing[c] = 0
          /\ phase[c] = "absent" /\ phase' = [phase EXCEPT ![c] = "select"]
          /\ gone' = gone \ {c} /\ chan' = [chan EXCEPT ![c] = << >>]
          /\ since' = [since EXCEPT ![c] = Len(key)] /\ seen' = [seen EXCEPT ![c] = << >>]
      BY <1>4 DEF Add, Goto, source, WriteLock, FanoutInv, HubInv, Writes
    <2>2. c \notin upNow /\ upNow' = upNow \union {c}
      BY <2>1, <1>t DEF upNow, TypeOK
    <2>3. \A d \in Conn : d # c => Same(d)
      BY <2>1, <1>t DEF TypeOK, Same, upNow, Waits, InHand, Lacks, Offered, Got
    <2>4. Waits(c)' = << >> /\ Lacks(c)' = 0
      BY <2>1, <1>t DEF TypeOK, Waits, InHand, Lacks, Offered, Got
    <2>5. waits' = waits /\ lacks' = lacks
      BY <2>2, <2>3, <2>4, <1>m, <1>n DEF Same
    <2> QED BY <2>2, <2>5 DEF Abstract!Next, Abstract!Open
  <1>5. ASSUME NEW c \in Conn, Receive(c) PROVE UNCHANGED <<upNow, waits, lacks>>
    <2>1. /\ UNCHANGED <<key, todo, gone, since, seen>> /\ chan[c] # << >>
          /\ writing[c] = 0 /\ writing' = [writing EXCEPT ![c] = Head(chan[c])]
          /\ chan' = [chan EXCEPT ![c] = Tail(@)]
          /\ phase[c] = "select" /\ phase' = [phase EXCEPT ![c] = "write"]
      BY <1>5 DEF Receive, Goto, source, browser, FanoutInv, Writes
    <2>2. \A d \in Conn : d # c => Same(d)
      BY <2>1, <1>t DEF TypeOK, Same, upNow, Waits, InHand, Lacks, Offered, Got
    <2>3. Same(c)
      <3>1. chan[c] \in Seq(Record) /\ Head(chan[c]) \in Record
        BY <2>1, <1>t DEF TypeOK
      <3>2. InHand(c) = << >> /\ InHand(c)' = <<Head(chan[c])>> /\ chan'[c] = Tail(chan[c])
        BY <2>1, <3>1, <1>t DEF TypeOK, InHand, Record
      <3>3. Waits(c) = chan[c] /\ Waits(c)' = chan[c]
        BY <2>1, <3>1, <3>2, WaitsChange DEF Waits
      <3>4. Lacks(c)' = Offered(c)' - Len(seen[c])' - Len(Waits(c)')
        BY <1>b DEF Measured
      <3>5. Offered(c)' = Offered(c) /\ seen'[c] = seen[c]
        BY <2>1 DEF Offered
      <3> QED BY <2>1, <3>3, <3>4, <3>5, <1>b, <1>t DEF Measured, Same, upNow, TypeOK
    <2> QED BY <2>2, <2>3, Stutter
  <1>6. ASSUME NEW c \in Conn, Leave(c) \/ Delete(c) \/ Close(c)
        PROVE  UNCHANGED <<upNow, waits, lacks>>
    <2>1. /\ UNCHANGED <<key, todo, gone, since, seen, chan>>
          /\ \A d \in Conn : d # c => phase'[d] = phase[d] /\ writing'[d] = writing[d]
          /\ c \notin upNow /\ c \notin upNow'
      BY <1>6, <1>t DEF TypeOK, Leave, Delete, Close, Goto, source, browser, upNow
    <2>2. \A d \in Conn : d # c => Same(d)
      BY <2>1 DEF Same, upNow, Waits, InHand, Lacks, Offered, Got
    <2> QED BY <2>1, <2>2, Stutter
  <1>7. ASSUME NEW c \in Conn, Write(c)
        PROVE  Abstract!Next \/ UNCHANGED <<upNow, waits, lacks>>
    <2>1. /\ UNCHANGED <<key, todo, gone, since, chan>>
          /\ writing[c] \in Record /\ writing' = [writing EXCEPT ![c] = 0]
          /\ seen' = [seen EXCEPT ![c] = IF c \in gone THEN @ ELSE Append(@, writing[c])]
          /\ phase[c] = "write" /\ phase' = [phase EXCEPT ![c] = "select"]
      BY <1>7, <1>t DEF Write, Goto, source, TypeOK, FanoutInv, Writes
    <2>2. \A d \in Conn : d # c => Same(d)
      BY <2>1, <1>t DEF TypeOK, Same, upNow, Waits, InHand, Lacks, Offered, Got
    <2>3. upNow' = upNow
      BY <2>1, <1>t DEF upNow, TypeOK
    <2>4. CASE c \in gone
      BY <2>2, <2>3, <2>4, Stutter DEF upNow
    <2>5. CASE c \notin gone
      <3>1. chan[c] \in Seq(Record) /\ seen[c] \in Seq(Record)
        BY <1>t DEF TypeOK
      <3>2. /\ InHand(c) = <<writing[c]>> /\ InHand(c)' = << >>
            /\ chan'[c] = chan[c] /\ seen'[c] = Append(seen[c], writing[c])
        BY <2>1, <2>5, <1>t, FanoutAssumption DEF InHand, TypeOK, Record
      <3>3. Waits(c) # << >> /\ Waits(c)' = Tail(Waits(c)) /\ Waits(c)' = chan[c]
        BY <2>1, <3>1, <3>2, WaitsChange DEF Waits
      <3>4. Lacks(c)' = Lacks(c)
        <4>1. Lacks(c)' = Offered(c)' - Len(seen'[c]) - Len(Waits(c)')
          BY <1>b DEF Measured
        <4>2. Offered(c)' = Offered(c) /\ Len(seen'[c]) = Len(seen[c]) + 1
          BY <2>1, <3>1, <3>2 DEF Offered
        <4>3. Len(Waits(c)) = 1 + Len(chan[c])
          <5>1. Len(InHand(c)) = 1
            BY <3>2
          <5> QED BY <5>1, <1>b DEF Measured
        <4>4. /\ Lacks(c) = Offered(c) - Len(seen[c]) - Len(Waits(c))
              /\ Len(seen[c]) \in Nat /\ Len(chan[c]) \in Nat /\ Offered(c) \in Int
          BY <1>b DEF Measured
        <4>5. Lacks(c)' = Offered(c) - (Len(seen[c]) + 1) - Len(chan[c])
          BY <4>1, <4>2, <3>3
        <4> QED BY <4>3, <4>4, <4>5
      <3>5. c \in upNow
        BY <2>1, <2>5 DEF upNow
      <3>6. Abstract!Hear(c)
        BY <2>2, <2>3, <3>3, <3>4, <3>5, <1>m, <1>n DEF Abstract!Hear, Same
      <3> QED BY <3>6 DEF Abstract!Next
    <2> QED BY <2>4, <2>5
  <1>8. ASSUME NEW c \in Conn, Disconnect(c)
        PROVE  Abstract!Next \/ UNCHANGED <<upNow, waits, lacks>>
    <2>1. UNCHANGED <<key, todo, phase, chan, writing, since, seen>> /\ gone' = gone \union {c}
      BY <1>8 DEF Disconnect, source
    <2>2. \A d \in Conn : d # c => Same(d)
      BY <2>1 DEF Same, upNow, Waits, InHand, Lacks, Offered, Got
    <2>3. upNow' = upNow \ {c}
      BY <2>1 DEF upNow
    <2>4. CASE c \in upNow
      <3>1. Abstract!Shut(c)
        BY <2>2, <2>3, <2>4, <1>m, <1>n DEF Abstract!Shut, Same
      <3> QED BY <3>1 DEF Abstract!Next
    <2>5. CASE c \notin upNow
      BY <2>2, <2>3, <2>5, Stutter
    <2> QED BY <2>4, <2>5
  <1>9. CASE UNCHANGED vars
    <2>1. \A d \in Conn : Same(d)
      BY <1>9 DEF vars, Same, upNow, Waits, InHand, Lacks, Offered, Got
    <2> QED BY <2>1, Stutter
  <1> QED
    BY <1>1, <1>2, <1>3, <1>4, <1>5, <1>6, <1>7, <1>8, <1>9 DEF Next, Handle

\* Whatever connections come and go and however slowly they read, each of them
\* is a Stream of its own: what a browser that stays gets is what was read since
\* it joined, in that order and once, and broadcast() drops a record only for a
\* connection whose channel is full.
THEOREM HubImplementsStreams == Spec => ImplementsStream
  BY RefinementInit, RefinementStep, FanoutInductive, PTL
  DEF Spec, ImplementsStream, Abstract!Spec
===============================================================================
