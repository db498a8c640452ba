-------------------------------- MODULE Fanout --------------------------------
(***************************************************************************)
(* services/ws-fanout/main.go: one goroutine polls the positions and trips *)
(* topics and broadcasts every record to the channels of all connections;  *)
(* one goroutine per WebSocket takes from its channel and writes.  They    *)
(* share the map of channels under an RWMutex; the channels themselves are *)
(* sent to, received from and closed outside or under a read lock only.    *)
(*                                                                         *)
(* A record is its position in the order the poller reads them; key[n] is  *)
(* the driver or trip it is about.  A browser may be slow, stop reading,   *)
(* or go away.                                                             *)
(***************************************************************************)
EXTENDS Integers, Sequences, FiniteSets, SequencesExt

CONSTANTS Conn,       \* connections
          Key,        \* what records are about
          Cap,        \* capacity of a channel, 256
          MaxRecords  \* bound on the records read

ASSUME FanoutAssumption == Cap \in Nat \ {0} /\ MaxRecords \in Nat

Record == 1..MaxRecords

VARIABLES
    key,      \* the records read so far
    casting,  \* the record being broadcast, 0 if none
    todo,     \* the connections the loop of broadcast has yet to send to
    clients,  \* h.clients
    phase,    \* phase[c]: where the handler of connection c is
    chan,     \* chan[c]: its channel
    closed,   \* the connections whose channel is closed
    writing,  \* writing[c]: the record c.Write is sending, 0 if none
    gone,     \* the connections whose browser went away
    since,    \* since[c]: the record being broadcast or last read when c joined
    seen      \* seen[c]: what the browser received

vars == <<key, casting, todo, clients, phase, chan, closed, writing, gone, since, seen>>
source == <<key, casting, todo>>
browser == <<gone, since, seen>>

\* A handler: not there yet, in its select, in c.Write, in remove() before its
\* delete, and between the delete and close(ch).
Phase == {"absent", "select", "write", "remove", "close"}

TypeOK == /\ key \in Seq(Key) /\ Len(key) <= MaxRecords
          /\ casting \in 0..Len(key) /\ todo \subseteq clients
          /\ clients \subseteq Conn /\ closed \subseteq Conn /\ gone \subseteq Conn
          /\ phase \in [Conn -> Phase]
          /\ chan \in [Conn -> Seq(Record)]
          /\ writing \in [Conn -> Record \union {0}]
          /\ since \in [Conn -> 0..MaxRecords]
          /\ seen \in [Conn -> Seq(Record)]

Init == /\ key = << >> /\ casting = 0 /\ todo = {}
        /\ clients = {} /\ closed = {} /\ gone = {}
        /\ phase = [c \in Conn |-> "absent"]
        /\ chan = [c \in Conn |-> << >>]
        /\ writing = [c \in Conn |-> 0]
        /\ since = [c \in Conn |-> 0]
        /\ seen = [c \in Conn |-> << >>]

-------------------------------------------------------------------------------
Goto(c, p) == phase' = [phase EXCEPT ![c] = p]

\* The mutex.  A broadcast holds it for reading from its first send to its
\* last; add() and remove() hold it for one step.
WriteLock == casting = 0

\* A record is read; broadcast() takes the lock and starts on the map.
Broadcast(k) ==
    /\ casting = 0 /\ Len(key) < MaxRecords
    /\ key' = Append(key, k)
    /\ casting' = Len(key')
    /\ todo' = clients
    /\ UNCHANGED <<clients, phase, chan, closed, writing, browser>>

\* Variant: a send is tried until there is room.
SendInsisting(c) ==
    /\ c \in todo
    /\ IF Len(chan[c]) < Cap
       THEN todo' = todo \ {c} /\ chan' = [chan EXCEPT ![c] = Append(@, casting)]
       ELSE UNCHANGED <<todo, chan>>
    /\ UNCHANGED <<key, casting, clients, phase, closed, writing, browser>>

\* Variant: the loop comes back to a channel it has sent to.
SendAgain(c) ==
    /\ c \in todo
    /\ todo' \in {todo, todo \ {c}}
    /\ chan' = [chan EXCEPT ![c] = IF Len(@) < Cap THEN Append(@, casting) ELSE @]
    /\ UNCHANGED <<key, casting, clients, phase, closed, writing, browser>>

\* Variant: one place of the channel stays empty.
SendOneLess(c) ==
    /\ c \in todo
    /\ todo' = todo \ {c}
    /\ chan' = [chan EXCEPT ![c] = IF Len(@) < Cap - 1 THEN Append(@, casting) ELSE @]
    /\ UNCHANGED <<key, casting, clients, phase, closed, writing, browser>>

\* It sends to one of the channels, unless that is full.  A send to a closed
\* channel would panic, see NeverSendsOnClosed.
Send(c) ==
    /\ c \in todo
    /\ todo' = todo \ {c}
    /\ chan' = [chan EXCEPT ![c] = IF Len(@) < Cap THEN Append(@, casting) ELSE @]
    /\ UNCHANGED <<key, casting, clients, phase, closed, writing, browser>>

\* It has sent to all of them and lets go of the lock.
BroadcastEnds ==
    /\ casting # 0 /\ todo = {}
    /\ casting' = 0
    /\ UNCHANGED <<key, todo, clients, phase, chan, closed, writing, browser>>

\* A WebSocket is accepted and add() puts a new channel into the map.
Add(c) ==
    /\ phase[c] = "absent" /\ WriteLock
    /\ clients' = clients \union {c}
    /\ chan' = [chan EXCEPT ![c] = << >>]
    /\ closed' = closed \ {c}
    /\ Goto(c, "select")
    /\ gone' = gone \ {c}
    /\ since' = [since EXCEPT ![c] = Len(key)]
    /\ seen' = [seen EXCEPT ![c] = << >>]
    /\ UNCHANGED <<source, writing>>

\* The handler takes a record and calls c.Write, which may block for as long
\* as the browser does not read.
Receive(c) ==
    /\ phase[c] = "select" /\ chan[c] # << >>
    /\ writing' = [writing EXCEPT ![c] = Head(chan[c])]
    /\ chan' = [chan EXCEPT ![c] = Tail(@)]
    /\ Goto(c, "write")
    /\ UNCHANGED <<source, clients, closed, browser>>

\* c.Write returns.  What is written to a browser that is gone is lost, and
\* c.Write need not notice at once.
Write(c) ==
    /\ phase[c] = "write"
    /\ seen' = [seen EXCEPT ![c] = IF c \in gone THEN @ ELSE Append(@, writing[c])]
    /\ writing' = [writing EXCEPT ![c] = 0]
    /\ Goto(c, "select")
    /\ UNCHANGED <<source, clients, chan, closed, gone, since>>

\* Variant: the channel is closed before it is out of the map.
LeaveClosing(c) ==
    /\ phase[c] \in {"select", "write"} /\ c \in gone
    /\ closed' = closed \union {c}
    /\ writing' = [writing EXCEPT ![c] = 0]
    /\ Goto(c, "remove")
    /\ UNCHANGED <<source, clients, chan, browser>>

\* c.Write fails, or the request's context is done: the handler returns.
Leave(c) ==
    /\ phase[c] \in {"select", "write"} /\ c \in gone
    /\ writing' = [writing EXCEPT ![c] = 0]
    /\ Goto(c, "remove")
    /\ UNCHANGED <<source, clients, chan, closed, browser>>

\* Variant: the map is changed without the lock.
DeleteUnlocked(c) ==
    /\ phase[c] = "remove"
    /\ clients' = clients \ {c}
    /\ Goto(c, "close")
    /\ UNCHANGED <<source, chan, closed, writing, browser>>

\* remove(): the channel is taken out of the map, under the lock,
Delete(c) ==
    /\ phase[c] = "remove" /\ WriteLock
    /\ clients' = clients \ {c}
    /\ Goto(c, "close")
    /\ UNCHANGED <<source, chan, closed, writing, browser>>

\* and closed after it.
Close(c) ==
    /\ phase[c] = "close"
    /\ closed' = closed \union {c}
    /\ Goto(c, "absent")
    /\ UNCHANGED <<source, clients, chan, writing, browser>>

\* A browser goes away.
Disconnect(c) ==
    /\ phase[c] # "absent" /\ c \notin gone
    /\ gone' = gone \union {c}
    /\ UNCHANGED <<source, clients, phase, chan, closed, writing, since, seen>>

Handle(c) == Receive(c) \/ Leave(c) \/ Delete(c) \/ Close(c)

Next == \/ \E k \in Key : Broadcast(k)
        \/ BroadcastEnds
        \/ \E c \in Conn : Send(c) \/ Add(c) \/ Handle(c) \/ Write(c) \/ Disconnect(c)

Spec == Init /\ [][Next]_vars

\* The poller's goroutine and those of the handlers run, and an RWMutex lets a
\* waiting writer in before the next reader; a browser is not obliged to read,
\* so c.Write is not obliged to return, and the context of a
\* hijacked connection is not obliged to be done.
FairSpec == Spec /\ WF_vars(BroadcastEnds)
                 /\ \A c \in Conn : WF_vars(Send(c)) /\ WF_vars(Receive(c))
                                    /\ SF_vars(Delete(c)) /\ WF_vars(Close(c))

-------------------------------------------------------------------------------
\* What a connection was given: written, being written, waiting.
Got(c) == seen[c] \o (IF writing[c] = 0 THEN << >> ELSE <<writing[c]>>) \o chan[c]

\* However joining, leaving and broadcasting interleave, broadcast() never
\* sends to a channel that is closed, which would panic and end the service.
NeverSendsOnClosed == todo \cap closed = {}

\* A connection gets records in the order they were read, none twice, none
\* from before it joined.
InOrderOnce ==
    \A c \in Conn \ gone :
        LET got == <<since[c]>> \o Got(c)
        IN  \A i \in 1..(Len(got) - 1) : got[i] < got[i + 1]

\* All of it together is a Stream per connection: whatever connections come and
\* go, what a browser that stays gets is what was read since it joined, in that
\* order and once, and a record is dropped only while Cap others are waiting.
upNow == {c \in Conn : phase[c] \in {"select", "write"} /\ c \notin gone}
waits == [c \in Conn |-> IF c \in upNow
                         THEN (IF writing[c] = 0 THEN << >> ELSE <<writing[c]>>) \o chan[c]
                         ELSE << >>]
Offered(c) == Len(key) - since[c] - (IF c \in todo THEN 1 ELSE 0)
lacks == [c \in Conn |-> IF c \in upNow THEN Offered(c) - Len(Got(c)) ELSE 0]
Abstract == INSTANCE Stream WITH MaxMissed <- MaxRecords + 1,
                                 open <- upNow, queue <- waits, missed <- lacks
ImplementsStream == Abstract!Spec

\* "full -> DROP, never block others": every broadcast ends, so the poller
\* gets to the next record, whatever the browsers do.
BroadcastsEnd == casting # 0 ~> casting = 0

\* A handler that began to leave leaves: its channel ends up out of the map
\* and closed, although broadcasts hold the lock again and again.
LeaversLeave == \A c \in Conn : phase[c] = "remove" ~> c \in closed

\* "latest wins, so dropping is correct": a browser that has caught up knows
\* the last record about everything it was ever told about.
Latest(k, s) == IF \E i \in DOMAIN s : key[s[i]] = k
                THEN Max({s[i] : i \in {j \in DOMAIN s : key[s[j]] = k}})
                ELSE 0

\* (It does not hold; see fanout_stale.cfg.)
LatestWins ==
    \A c \in clients \ gone, k \in Key :
        casting = 0 /\ phase[c] = "select" /\ chan[c] = << >> =>
            \/ Latest(k, seen[c]) = 0
            \/ \A n \in (Latest(k, seen[c]) + 1)..Len(key) : key[n] # k
===============================================================================
