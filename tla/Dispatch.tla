------------------------------- MODULE Dispatch -------------------------------
(***************************************************************************)
(* What the matching engine promises about drivers (docs/adr/0006, and the *)
(* header of services/matcher/main.go): a driver is held for one request   *)
(* at a time, a trip runs only on a held driver, and a driver passes from  *)
(* one request to another only by becoming free in between.  How the hold  *)
(* is implemented -- a Redis key, its TTL, the order in which a matcher    *)
(* sets and deletes it -- is the business of module Matcher, which refines *)
(* this one.                                                               *)
(***************************************************************************)
CONSTANTS Driver,    \* the drivers
          Req,       \* the ids riders give to their requests
          None       \* no request

VARIABLES hold,      \* hold[d]: the request the driver is held for, or None
          riders     \* riders[d]: the requests whose trip driver d is on

vars == <<hold, riders>>

TypeOK == /\ hold \in [Driver -> Req \union {None}]
          /\ riders \in [Driver -> SUBSET Req]

Init == /\ hold = [d \in Driver |-> None]
        /\ riders = [d \in Driver |-> {}]

\* A free driver is held for a request.
Book(d, r) == /\ hold[d] = None
              /\ hold' = [hold EXCEPT ![d] = r]
              /\ UNCHANGED riders

\* The trip of the request the driver is held for begins.
Start(d) == /\ hold[d] # None
            /\ riders[d] = {}
            /\ riders' = [riders EXCEPT ![d] = {hold[d]}]
            /\ UNCHANGED hold

\* Some trips end, and some holds without a trip are given up.  Both may
\* happen to several drivers at once: time passes for all of them, and a
\* crash takes down everything a matcher instance was doing.
Lapse(done, freed) ==
    /\ \A d \in done : riders[d] # {}
    /\ \A d \in freed : hold[d] # None /\ riders[d] = {}
    /\ riders' = [d \in Driver |-> IF d \in done THEN {} ELSE riders[d]]
    /\ hold' = [d \in Driver |-> IF d \in freed THEN None ELSE hold[d]]

Next == \/ \E d \in Driver, r \in Req : Book(d, r)
        \/ \E d \in Driver : Start(d)
        \/ \E done, freed \in SUBSET Driver : Lapse(done, freed)

Spec == Init /\ [][Next]_vars

-------------------------------------------------------------------------------
\* A driver carries at most one request, the one it is held for, until the
\* trip is over: no second trip starts and the hold is not given away.
TripOnHeldDriver ==
    \A d \in Driver : riders[d] # {} => hold[d] # None /\ riders[d] = {hold[d]}
===============================================================================
