-------------------------------- MODULE Stream --------------------------------
(***************************************************************************)
(* What ws-fanout promises a browser, without the hub: while its           *)
(* connection is open the records offered to it come in the order they     *)
(* were offered, each once, except those offered while Cap records were    *)
(* waiting already, which are dropped.  Module Fanout implements it; the   *)
(* map of LiveMap hangs on one of its connections.                         *)
(***************************************************************************)
EXTENDS Naturals, Sequences, FiniteSets

CONSTANTS Conn, Record,
          Cap,       \* how many records may wait before one is dropped
          MaxMissed  \* dropped records are counted up to here

ASSUME StreamAssumption == Cap \in Nat \ {0} /\ MaxMissed \in Nat

VARIABLES open,   \* the connections that are up
          queue,  \* queue[c]: what c is still to hear, the record being written first
          missed  \* missed[c]: records dropped since c was opened

svars == <<open, queue, missed>>

Init == /\ open = {}
        /\ queue = [c \in Conn |-> << >>]
        /\ missed = [c \in Conn |-> 0]

Open(c) ==
    /\ c \notin open
    /\ open' = open \union {c}
    /\ UNCHANGED <<queue, missed>>

\* The record joins the queue: there may be Cap behind the one being written.
Accept(c, r) ==
    /\ c \in open /\ Len(queue[c]) <= Cap
    /\ queue' = [queue EXCEPT ![c] = Append(@, r)]
    /\ UNCHANGED <<open, missed>>

\* It is dropped, which takes Cap records that are waiting.
Drop(c) ==
    /\ c \in open /\ Len(queue[c]) >= Cap
    /\ missed' = [missed EXCEPT ![c] = IF @ < MaxMissed THEN @ + 1 ELSE @]
    /\ UNCHANGED <<open, queue>>

\* The browser gets the first record of the queue.
Hear(c) ==
    /\ c \in open /\ queue[c] # << >>
    /\ queue' = [queue EXCEPT ![c] = Tail(@)]
    /\ UNCHANGED <<open, missed>>

\* The browser goes away, and all that waited for it.
Shut(c) ==
    /\ c \in open
    /\ open' = open \ {c}
    /\ queue' = [queue EXCEPT ![c] = << >>]
    /\ missed' = [missed EXCEPT ![c] = 0]

Next == \E c \in Conn : \/ Open(c) \/ Drop(c) \/ Hear(c) \/ Shut(c)
                        \/ \E r \in Record : Accept(c, r)

Spec == Init /\ [][Next]_svars
===============================================================================
