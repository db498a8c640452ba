-------------------------------- MODULE Matcher --------------------------------
(***************************************************************************)
(* services/matcher/main.go in its default greedy mode: any number of      *)
(* matcher instances serve POST /request against one Redis.  Each handler  *)
(* goroutine, and the goroutine assign() leaves behind to end the trip,    *)
(* is one Handler here, moving through                                     *)
(*                                                                         *)
(*   idle -> check -> search -> claim -> assign -> route -> riding         *)
(*        -> release -> forget -> idle                                     *)
(*                                                                         *)
(* One Redis command, one HTTP call or one Produce is one step; everything *)
(* another goroutine or instance can do happens in between.  Redis may     *)
(* answer with an error, or apply a command and lose the answer; an        *)
(* instance may crash and restart.  "orphan" is a trip that was announced  *)
(* by an instance that has crashed since: the rider is under way, and no   *)
(* goroutine is left to end it.                                            *)
(*                                                                         *)
(* Time advances in Tick.  A key's TTL counts down in Redis; age[h] is the *)
(* time since h's SET NX was applied.  MaxLag bounds everything the code   *)
(* does not bound itself: Redis round trips, Produce blocking on a full    *)
(* buffer (it is given context.Background()), and scheduling delays.       *)
(***************************************************************************)
EXTENDS Integers, Sequences, FiniteSets

CONSTANTS Instance,       \* the matcher processes
          Handler,        \* their goroutines
          HostOf,         \* HostOf[h]: the process goroutine h runs in
          Driver, Req,    \* driver ids, request ids
          MaxNearby,      \* bound on the length of a /nearby answer
          None,           \* an absent hash field or key
          LockTTL,        \* lockTTL, 30 s
          RouteTimeout,   \* httpClient.Timeout, 3 s: the longest pickupRoute
          MinDur, MaxDur, \* bounds of dur: 3 s and 12 s
          MaxLag,         \* bound on all other delays of one assignment
          Faults,         \* the Redis commands that may fail, see Fault
          MayCrash,       \* whether instances crash
          ConcurrentRetries \* whether a rider may repeat a reqId before
                            \* its earlier request was answered

\* "HGET", "HSET", "DEL" and "HDEL": the command is not applied.  "SETNX": it is
\* not, or it is and its answer is lost.  "REDEL", "REHSET" and "REHDEL": the
\* command is applied, its answer is lost, and go-redis sends it again.
Fault == {"HGET", "SETNX", "HSET", "REHSET", "DEL", "REDEL", "HDEL", "REHDEL"}

ASSUME MatcherAssumption ==
    /\ HostOf \in [Handler -> Instance]
    /\ None \notin Req /\ None \notin Driver
    /\ LockTTL \in Nat \ {0} /\ MaxNearby \in Nat
    /\ RouteTimeout \in Nat /\ MaxLag \in Nat
    /\ MinDur \in Nat \ {0} /\ MaxDur \in Nat /\ MinDur <= MaxDur
    /\ Faults \subseteq Fault
    /\ MayCrash \in BOOLEAN /\ ConcurrentRetries \in BOOLEAN

\* The longest time between SET NX and DEL, and the condition under which the
\* lock outlives it.  Timely is a hypothesis of the theorems, not of the model.
RouteMax == RouteTimeout + MaxLag
HoldMax == RouteMax + MaxDur
Timely == HoldMax < LockTTL

VARIABLES
    ttl,         \* ttl[d]: remaining life of key lock:driver:d, 0 if absent
    lockVal,     \* lockVal[d]: its value, the reqId that took it
    assigned,    \* the Redis hash req:assigned
    waiting,     \* requests whose last event on the trips topic is "requested"
    activeTrips, \* activeTrips[i]: instance i's counter of that name
    pc, req,     \* a handler's program counter and the request it serves
    cands,       \* the drivers fetchNearby found, nearest first, yet to try
    drv,         \* the driver it locked
    age,         \* time since it locked that driver
    left         \* what remains of its time.Sleep(dur)

redis == <<ttl, lockVal, assigned>>
locals == <<pc, req, cands, drv, age, left>>
vars == <<ttl, lockVal, assigned, waiting, activeTrips,
          pc, req, cands, drv, age, left>>

PC == {"idle", "check", "search", "claim", "assign", "route",
       "riding", "release", "forget", "orphan"}

\* The lists of distinct drivers, in every order: what /nearby may answer.
NearbyList == {s \in UNION {[1..n -> Driver] : n \in 0..MaxNearby} :
                  \A i, j \in DOMAIN s : s[i] = s[j] => i = j}

Unanswered == {"check", "search", "claim", "assign", "route"}
Holding == {"assign", "route", "riding", "release"}   \* from SET NX to DEL
Announced == {"riding", "orphan"}                     \* a trip is under way

TypeOK == /\ ttl \in [Driver -> 0..LockTTL]
          /\ lockVal \in [Driver -> Req \union {None}]
          /\ assigned \in [Req -> Driver \union {None}]
          /\ waiting \in SUBSET Req
          /\ activeTrips \in [Instance -> Int]
          /\ pc \in [Handler -> PC]
          /\ req \in [Handler -> Req \union {None}]
          /\ cands \in [Handler -> Seq(Driver)]
          /\ drv \in [Handler -> Driver \union {None}]
          /\ age \in [Handler -> Nat]
          /\ left \in [Handler -> 0..MaxDur]
          /\ \A h \in Handler : pc[h] # "idle" => req[h] \in Req
          /\ \A h \in Handler : pc[h] \in Holding \union Announced => drv[h] \in Driver

Init == /\ ttl = [d \in Driver |-> 0]
        /\ lockVal = [d \in Driver |-> None]
        /\ assigned = [r \in Req |-> None]
        /\ waiting = {}
        /\ activeTrips = [i \in Instance |-> 0]
        /\ pc = [h \in Handler |-> "idle"]
        /\ req = [h \in Handler |-> None]
        /\ cands = [h \in Handler |-> << >>]
        /\ drv = [h \in Handler |-> None]
        /\ age = [h \in Handler |-> 0]
        /\ left = [h \in Handler |-> 0]

-------------------------------------------------------------------------------
Goto(h, label) == pc' = [pc EXCEPT ![h] = label]

\* publish(): the trips topic keeps, of all its events, who is left waiting.
Publish(r, event) ==
    waiting' = IF event = "requested" THEN waiting \union {r} ELSE waiting \ {r}

\* The goroutine ends and its locals with it.
Return(h) == /\ Goto(h, "idle")
             /\ req' = [req EXCEPT ![h] = None]
             /\ cands' = [cands EXCEPT ![h] = << >>]
             /\ drv' = [drv EXCEPT ![h] = None]
             /\ age' = [age EXCEPT ![h] = 0]
             /\ left' = [left EXCEPT ![h] = 0]

\* A POST /request is accepted and announced as "requested".  Without
\* ConcurrentRetries a rider repeats a reqId only after it got its answer.
HandleRequest(h, r) ==
    /\ pc[h] = "idle"
    /\ \/ ConcurrentRetries
       \/ \A g \in Handler : pc[g] \in Unanswered => req[g] # r
    /\ Goto(h, "check")
    /\ req' = [req EXCEPT ![h] = r]
    /\ Publish(r, "requested")
    /\ UNCHANGED <<redis, activeTrips, cands, drv, age, left>>

\* HGET req:assigned: a repeated reqId gets the assignment it already has.
AnswerExisting(h) ==
    /\ pc[h] = "check"
    /\ assigned[req[h]] # None
    /\ Return(h)
    /\ UNCHANGED <<redis, waiting, activeTrips>>

\* Variant: the request is matched whatever the hash says.
MatchAnyway(h) ==
    /\ pc[h] = "check"
    /\ Goto(h, "search")
    /\ UNCHANGED <<redis, waiting, activeTrips, req, cands, drv, age, left>>

\* There is none, or HGET failed: its error is dropped, so the two look alike.
NotAssigned(h) ==
    /\ pc[h] = "check"
    /\ assigned[req[h]] = None \/ "HGET" \in Faults
    /\ Goto(h, "search")
    /\ UNCHANGED <<redis, waiting, activeTrips, req, cands, drv, age, left>>

\* GET /nearby, sorted by distance; every failure of it gives the empty list.
FetchNearby(h) ==
    /\ pc[h] = "search"
    /\ \E s \in NearbyList : cands' = [cands EXCEPT ![h] = s]
    /\ Goto(h, "claim")
    /\ UNCHANGED <<redis, waiting, activeTrips, req, drv, age, left>>

\* Variant: SET without NX.
SetAlways(d, r) == /\ ttl' = [ttl EXCEPT ![d] = LockTTL]
                   /\ lockVal' = [lockVal EXCEPT ![d] = r]
                   /\ UNCHANGED assigned

\* Variant: the TTL covers the search for a route, not the ride.
SetForRoute(d, r) == /\ ttl[d] = 0
                     /\ ttl' = [ttl EXCEPT ![d] = RouteMax]
                     /\ lockVal' = [lockVal EXCEPT ![d] = r]
                     /\ UNCHANGED assigned

\* SET lock:driver:<d> <reqId> NX EX: Redis sets the key if it is absent.
SetNX(d, r) == /\ ttl[d] = 0
               /\ ttl' = [ttl EXCEPT ![d] = LockTTL]
               /\ lockVal' = [lockVal EXCEPT ![d] = r]
               /\ UNCHANGED assigned

NextCandidate(h) == cands' = [cands EXCEPT ![h] = Tail(@)]

\* The nearest driver left to try is free: the handler has it.
Claim(h) ==
    /\ pc[h] = "claim" /\ cands[h] # << >>
    /\ SetNX(Head(cands[h]), req[h])
    /\ Goto(h, "assign")
    /\ drv' = [drv EXCEPT ![h] = Head(cands[h])]
    /\ age' = [age EXCEPT ![h] = 0]
    /\ cands' = [cands EXCEPT ![h] = << >>]
    /\ UNCHANGED <<waiting, activeTrips, req, left>>

\* Variant: claim() does not tell an error from a lock.
ErrorClaims(h) ==
    /\ pc[h] = "claim" /\ cands[h] # << >>
    /\ ttl[Head(cands[h])] > 0 \/ "SETNX" \in Faults
    /\ IF "SETNX" \in Faults
       THEN /\ Goto(h, "assign")
            /\ drv' = [drv EXCEPT ![h] = Head(cands[h])]
            /\ UNCHANGED cands
       ELSE NextCandidate(h) /\ UNCHANGED <<pc, drv>>
    /\ UNCHANGED <<redis, waiting, activeTrips, req, age, left>>

\* Variant: whoever finds a driver held gives its key another TTL.
RefusedExtends(h) ==
    /\ pc[h] = "claim" /\ cands[h] # << >>
    /\ ttl[Head(cands[h])] > 0
    /\ ttl' = [ttl EXCEPT ![Head(cands[h])] = LockTTL]
    /\ NextCandidate(h)
    /\ UNCHANGED <<lockVal, assigned, waiting, activeTrips, pc, req, drv, age, left>>

\* It is held already, or the command failed before Redis applied it.
ClaimRefused(h) ==
    /\ pc[h] = "claim" /\ cands[h] # << >>
    /\ ttl[Head(cands[h])] > 0 \/ "SETNX" \in Faults
    /\ NextCandidate(h)
    /\ UNCHANGED <<redis, waiting, activeTrips, pc, req, drv, age, left>>

\* Redis applied the command and the answer was lost: claim() reports failure
\* (so does the go-redis retry, which meets the key it set itself), and the
\* key is left to its TTL.
ClaimLost(h) ==
    /\ "SETNX" \in Faults
    /\ pc[h] = "claim" /\ cands[h] # << >>
    /\ SetNX(Head(cands[h]), req[h])
    /\ NextCandidate(h)
    /\ UNCHANGED <<waiting, activeTrips, pc, req, drv, age, left>>

\* No driver could be claimed: "unmatched" is published, the answer is a 503.
Unmatched(h) ==
    /\ pc[h] = "claim" /\ cands[h] = << >>
    /\ Publish(req[h], "unmatched")
    /\ Return(h)
    /\ UNCHANGED <<redis, activeTrips>>

\* Variant: the assignment is not recorded.
RecordNothing(h) ==
    /\ pc[h] = "assign"
    /\ activeTrips' = [activeTrips EXCEPT ![HostOf[h]] = @ + 1]
    /\ Goto(h, "route")
    /\ UNCHANGED <<redis, waiting, req, cands, drv, age, left>>

\* assign(), first part: HSET req:assigned, its error dropped, and the counter.
RecordAssigned(h) ==
    /\ pc[h] = "assign"
    /\ \/ assigned' = [assigned EXCEPT ![req[h]] = drv[h]]
       \/ "HSET" \in Faults /\ UNCHANGED assigned
    /\ activeTrips' = [activeTrips EXCEPT ![HostOf[h]] = @ + 1]
    /\ Goto(h, "route")
    /\ UNCHANGED <<ttl, lockVal, waiting, req, cands, drv, age, left>>

\* The HSET is applied, its answer is lost, and go-redis will send it again.
RecordRetried(h) ==
    /\ pc[h] = "assign"
    /\ "REHSET" \in Faults
    /\ assigned' = [assigned EXCEPT ![req[h]] = drv[h]]
    /\ UNCHANGED <<ttl, lockVal, waiting, activeTrips, locals>>

\* Variant: the driver is released as soon as it is assigned.
PublishAndRelease(h) ==
    /\ pc[h] = "route"
    /\ Publish(req[h], "assigned")
    /\ \E dur \in MinDur..MaxDur : left' = [left EXCEPT ![h] = dur]
    /\ ttl' = [ttl EXCEPT ![drv[h]] = 0]
    /\ lockVal' = [lockVal EXCEPT ![drv[h]] = None]
    /\ Goto(h, "riding")
    /\ UNCHANGED <<assigned, activeTrips, req, cands, drv, age>>

\* Second part, once pickupRoute has answered or given up: "assigned" is
\* published with the trip's duration, the rider is answered, and a goroutine
\* goes to sleep for that long.
PublishAssigned(h) ==
    /\ pc[h] = "route"
    /\ Publish(req[h], "assigned")
    /\ \E dur \in MinDur..MaxDur : left' = [left EXCEPT ![h] = dur]
    /\ Goto(h, "riding")
    /\ UNCHANGED <<redis, activeTrips, req, cands, drv, age>>

\* The goroutine wakes up and publishes "completed".
PublishCompleted(h) ==
    /\ pc[h] = "riding" /\ left[h] = 0
    /\ Publish(req[h], "completed")
    /\ Goto(h, "release")
    /\ UNCHANGED <<redis, activeTrips, req, cands, drv, age, left>>

\* DEL lock:driver:<d>, whoever the key belongs to by now.
Del(d) == /\ ttl' = [ttl EXCEPT ![d] = 0]
          /\ lockVal' = [lockVal EXCEPT ![d] = None]

\* The goroutine deletes the key; the error, if the DEL failed, is dropped.
ReleaseLock(h) ==
    /\ pc[h] = "release"
    /\ \/ Del(drv[h])
       \/ "DEL" \in Faults /\ UNCHANGED <<ttl, lockVal>>
    /\ Goto(h, "forget")
    /\ age' = [age EXCEPT ![h] = 0]
    /\ UNCHANGED <<assigned, waiting, activeTrips, req, cands, drv, left>>

\* The DEL is applied, its answer is lost, and go-redis will send it again.
ReleaseRetried(h) ==
    /\ pc[h] = "release"
    /\ "REDEL" \in Faults
    /\ Del(drv[h])
    /\ UNCHANGED <<assigned, waiting, activeTrips, locals>>

\* Variant: a failing HDEL returns before the counter.
ForgetEarlyReturn(h) ==
    /\ pc[h] = "forget"
    /\ \/ /\ assigned' = [assigned EXCEPT ![req[h]] = None]
          /\ activeTrips' = [activeTrips EXCEPT ![HostOf[h]] = @ - 1]
       \/ "HDEL" \in Faults /\ UNCHANGED <<assigned, activeTrips>>
    /\ Return(h)
    /\ UNCHANGED <<ttl, lockVal, waiting>>

\* HDEL req:assigned, its error dropped, and the counter.
ForgetRequest(h) ==
    /\ pc[h] = "forget"
    /\ \/ assigned' = [assigned EXCEPT ![req[h]] = None]
       \/ "HDEL" \in Faults /\ UNCHANGED assigned
    /\ activeTrips' = [activeTrips EXCEPT ![HostOf[h]] = @ - 1]
    /\ Return(h)
    /\ UNCHANGED <<ttl, lockVal, waiting>>

\* The HDEL is applied, its answer is lost, and go-redis will send it again:
\* by then the entry may be that of another attempt.
ForgetRetried(h) ==
    /\ pc[h] = "forget"
    /\ "REHDEL" \in Faults
    /\ assigned' = [assigned EXCEPT ![req[h]] = None]
    /\ UNCHANGED <<ttl, lockVal, waiting, activeTrips, locals>>

Step(h) == \/ AnswerExisting(h) \/ NotAssigned(h) \/ FetchNearby(h)
           \/ Claim(h) \/ ClaimRefused(h) \/ ClaimLost(h) \/ Unmatched(h)
           \/ RecordAssigned(h) \/ RecordRetried(h) \/ PublishAssigned(h)
           \/ PublishCompleted(h) \/ ReleaseLock(h) \/ ReleaseRetried(h)
           \/ ForgetRequest(h) \/ ForgetRetried(h)

-------------------------------------------------------------------------------
\* An instance dies and is restarted.  Redis keeps what it has; a trip that
\* was announced goes on until its time is over, with nobody to end it.
Survives(h, i) == \/ HostOf[h] # i \/ pc[h] = "orphan"
                  \/ pc[h] = "riding" /\ left[h] > 0

Crash(i) ==
    /\ MayCrash
    /\ pc' = [h \in Handler |->
                 CASE ~Survives(h, i) -> "idle"
                   [] HostOf[h] = i /\ pc[h] = "riding" /\ left[h] > 0 -> "orphan"
                   [] OTHER -> pc[h]]
    /\ req' = [h \in Handler |-> IF Survives(h, i) THEN req[h] ELSE None]
    /\ cands' = [h \in Handler |-> IF Survives(h, i) THEN cands[h] ELSE << >>]
    /\ drv' = [h \in Handler |-> IF Survives(h, i) THEN drv[h] ELSE None]
    /\ age' = [h \in Handler |-> IF HostOf[h] = i THEN 0 ELSE age[h]]
    /\ left' = [h \in Handler |-> IF Survives(h, i) THEN left[h] ELSE 0]
    /\ activeTrips' = [activeTrips EXCEPT ![i] = 0]
    /\ UNCHANGED <<redis, waiting>>

\* Time may pass unless a goroutine that holds a driver is already as late as
\* RouteTimeout, MaxDur and MaxLag allow.
MayWait(h) ==
    /\ pc[h] \in {"assign", "route"} => age[h] < RouteMax
    /\ pc[h] = "release" \/ (pc[h] = "riding" /\ left[h] = 0) => age[h] < HoldMax

\* The trip of a crashed instance comes to its end in this tick.
OrphanEnds(h) == pc[h] = "orphan" /\ left[h] <= 1

Tick ==
    /\ \A h \in Handler : MayWait(h)
    /\ ttl' = [d \in Driver |-> IF ttl[d] > 0 THEN ttl[d] - 1 ELSE 0]
    /\ lockVal' = [d \in Driver |-> IF ttl[d] > 1 THEN lockVal[d] ELSE None]
    /\ age' = [h \in Handler |-> IF pc[h] \in Holding THEN age[h] + 1 ELSE age[h]]
    /\ left' = [h \in Handler |-> IF left[h] > 0 THEN left[h] - 1 ELSE 0]
    /\ pc' = [h \in Handler |-> IF OrphanEnds(h) THEN "idle" ELSE pc[h]]
    /\ req' = [h \in Handler |-> IF OrphanEnds(h) THEN None ELSE req[h]]
    /\ drv' = [h \in Handler |-> IF OrphanEnds(h) THEN None ELSE drv[h]]
    /\ UNCHANGED <<assigned, waiting, activeTrips, cands>>

Next == \/ \E h \in Handler, r \in Req : HandleRequest(h, r)
        \/ \E h \in Handler : Step(h)
        \/ \E i \in Instance : Crash(i)
        \/ Tick

Spec == Init /\ [][Next]_vars

\* Time passes, every command, call and Produce returns, and go-redis sends a
\* command a few times, not for ever.  Nothing obliges a rider to ask, an
\* instance to crash or a command to fail.
Fairness == /\ WF_vars(Tick)
            /\ \A h \in Handler :
                  /\ WF_vars(Step(h)) /\ WF_vars(RecordAssigned(h))
                  /\ WF_vars(ReleaseLock(h)) /\ WF_vars(ForgetRequest(h))
FairSpec == Spec /\ Fairness

-------------------------------------------------------------------------------
\* The attempts driver d is tied up in, and the trips it is on.
Occupies(h) == pc[h] \in Holding \union Announced
OnTrip(d) == {h \in Handler : pc[h] \in Announced /\ drv[h] = d}

\* However requests, instances, crashes and failing commands interleave, two
\* attempts never have the same driver: SET NX picks one, and the key stays
\* until that one is through, although DEL does not look at the key's value.
NoDoubleBooking ==
    \A g, h \in Handler :
        Occupies(g) /\ Occupies(h) /\ drv[g] = drv[h] => g = h

\* While a trip is under way -- its matcher may have crashed -- the key of its
\* driver is there and names its request: no TTL ran out under it, and no
\* other goroutine's DEL took it away.
TripsAreLocked ==
    \A h \in Handler : pc[h] \in Announced => lockVal[drv[h]] = req[h]

\* The drivers' side of it: the matcher implements Dispatch.
ridersOf == [d \in Driver |-> {req[h] : h \in OnTrip(d)}]
Abstract == INSTANCE Dispatch WITH hold <- lockVal, riders <- ridersOf
ImplementsDispatch == Abstract!Spec

\* /stats counts the trips an instance is running: every path that increments
\* activeTrips decrements it once, and a crash forgets the trips with the count.
ActiveTripsExact ==
    \A i \in Instance :
        activeTrips[i] =
            Cardinality({h \in Handler : /\ HostOf[h] = i
                                         /\ pc[h] \in {"route", "riding", "release", "forget"}})

\* Every lock goes away, by DEL or by TTL, even if the goroutine that took it
\* crashed, lost the answer to its SET NX, or failed to send its DEL.
LocksHeal == \A d \in Driver : lockVal[d] # None ~> lockVal[d] = None

-------------------------------------------------------------------------------
(* Why it works.  NoDoubleBooking and TripsAreLocked are not inductive: they *)
(* need to know how far each goroutine's clock and its key's TTL are apart.  *)

\* A key is there exactly while it has time to live.
KeysHaveValues == \A d \in Driver : (ttl[d] = 0) <=> (lockVal[d] = None)

\* The key of a goroutine is the one its SET NX created, age[h] ago.
OwnsKey(h) == pc[h] \in Holding =>
    ttl[drv[h]] = LockTTL - age[h] /\ lockVal[drv[h]] = req[h]

\* What MayWait enforces: how long the goroutine can have had it.
InTime(h) == /\ pc[h] \in {"assign", "route"} => age[h] <= RouteMax
             /\ pc[h] = "riding" => age[h] + left[h] <= HoldMax
             /\ pc[h] = "release" => age[h] <= HoldMax

\* The key of a crashed instance's trip outlives the trip.
OrphanCovered(h) == pc[h] = "orphan" =>
    0 < left[h] /\ left[h] < ttl[drv[h]] /\ lockVal[drv[h]] = req[h]

\* The inductive invariant behind the safety theorems of MatcherProofs.
IInv == /\ TypeOK
        /\ KeysHaveValues
        /\ \A h \in Handler : OwnsKey(h) /\ InTime(h) /\ OrphanCovered(h)
        /\ NoDoubleBooking

-------------------------------------------------------------------------------
(* Idempotency: "a repeated reqId returns the existing assignment".  Of a    *)
(* rider who waits for each answer it is true as long as no HGET or HSET of  *)
(* req:assigned fails and no HDEL is sent twice: matcher_twice.cfg and       *)
(* matcher_resent.cfg show two of the ways it goes wrong.                    *)

\* A request never has two trips under way, hence never two drivers.
OneTripPerRequest ==
    \A g, h \in Handler :
        /\ pc[g] \in Announced /\ pc[h] \in Announced
        /\ req[g] = req[h]
        => g = h

\* While a trip is under way, its matcher crashed or not, the hash holds its
\* driver under its request, so that a retry of the request finds it.
EntryCoversTrip ==
    \A h \in Handler : pc[h] \in Announced => assigned[req[h]] = drv[h]

\* An entry of req:assigned goes away once its trip is over.
\* (It does not hold; see matcher_stuck.cfg.)
AssignmentsHeal == \A r \in Req : assigned[r] # None ~> assigned[r] = None

\* "Announce a waiting rider so the map can show unassigned demand": when no
\* request of a rider is being handled and the last the map heard of it is
\* "requested", that rider has no driver.
\* (It does not hold; see matcher_stuck.cfg.)
WaitingIsUnassigned ==
    \A r \in Req, h \in Handler :
        /\ r \in waiting
        /\ \A g \in Handler : pc[g] \in Unanswered => req[g] # r
        => ~(pc[h] \in Announced /\ req[h] = r)
===============================================================================
