------------------------------ MODULE BatchMatcher ------------------------------
(***************************************************************************)
(* services/matcher/main.go with MATCH_MODE=optimal: handlers put accepted *)
(* requests into the channel batchCh, and one goroutine, batchLoop, takes  *)
(* them out, and at each tick of its window solves all of them together.   *)
(*                                                                         *)
(* Riders and drivers stand at points of a line, in units of length; what  *)
(* /nearby answers does not depend on locks, so a batch is planned over    *)
(* busy drivers too.  Hungarian shows that match.Optimal returns one of    *)
(* Assignment's Best, which is what Solve picks from.                      *)
(*                                                                         *)
(* Claims, TTLs and crashes are those of Matcher: SET NX, HSET and Produce *)
(* are steps of their own, commands may fail, an instance may crash, and   *)
(* time passes in Tick.  Two things are coarser here.  The goroutine that  *)
(* ends a trip announces that, deletes the lock and then the assignment in *)
(* one step, and no command is sent a second time by go-redis.             *)
(*                                                                         *)
(* A Rival is another matcher instance.  It holds a driver's key until it  *)
(* deletes it or the key expires, and deletes no key but its own: that is  *)
(* what TripsStayLocked of MatcherProofs says of this code.                *)
(***************************************************************************)
EXTENDS Assignment, Sequences, SequencesExt

CONSTANTS Req, Driver, None, Rival,
          RiderAt, DriverAt, \* where they are
          Radius,            \* radiusM, 2500
          ChanCap,           \* capacity of batchCh, 4096
          MaxTries,          \* MaxTries[r]: bound on the requests of rider r
          MaxRival,          \* bound on the claims of other instances
          FetchMayFail,      \* whether GET /nearby may fail
          LockTTL,           \* lockTTL
          RouteMax,          \* the longest time from a claim to "assigned"
          MinDur, MaxDur,    \* bounds of dur
          Faults,            \* the Redis commands that may fail
          MayCrash           \* whether this instance crashes

ASSUME BatchAssumption ==
    /\ RiderAt \in [Req -> Int] /\ DriverAt \in [Driver -> Int] /\ IsFiniteSet(Driver)
    /\ None \notin Req \union Driver /\ Rival \notin Req /\ Rival # None
    /\ Radius \in Nat /\ ChanCap \in Nat \ {0}
    /\ MaxTries \in [Req -> Nat] /\ MaxRival \in Nat /\ FetchMayFail \in BOOLEAN
    /\ LockTTL \in Nat \ {0} /\ RouteMax \in Nat
    /\ MinDur \in Nat \ {0} /\ MaxDur \in Nat /\ MinDur <= MaxDur
    /\ Faults \subseteq {"HGET", "SETNX", "HSET", "DEL", "HDEL"} /\ MayCrash \in BOOLEAN

\* The longest a driver is tied up, and the hypothesis, as in Matcher, that its
\* lock outlives that.
HoldMax == RouteMax + MaxDur
Timely == HoldMax < LockTTL

VARIABLES
    at,        \* at[r]: where the handler of r's request is
    tries,     \* tries[r]: requests r has sent
    waiting,   \* riders whose last event on the trips topic is "requested"
    batchCh,   \* the channel
    pending,   \* what batchLoop took out since the last tick
    loop,      \* where batchLoop is
    k,         \* the rider of pending it is at
    found,     \* driverPos: driver -> the Dist kept for it
    plan,      \* RiderToDriver, as drivers
    cands,     \* candidates of greedyAssign for rider k
    pick,      \* the driver just claimed for rider k, with the distance kept
    held,      \* time since that claim
    lock, ttl, \* lock[d]: lock:driver:<d>, and the time it has to live
    assigned,  \* req:assigned
    trips,     \* trips under way: request, driver, published pickupDist, time
               \* since the claim and yet to go, and whether the goroutine
               \* that is to end it lives
    rivals,    \* claims of other instances so far
    given,     \* history: the batch's riders and the driver each one got
    free,      \* history: the drivers free at the tick, of those near a rider
    disturbed  \* history: a lock changed hands or a fetch failed meanwhile

handlers == <<at, tries, waiting>>
history == <<given, free, disturbed>>
holding == <<pick, held>>
loopVars == <<pending, loop, k, found, plan, cands, holding>>
redis == <<lock, ttl, assigned>>
vars == <<at, tries, waiting, batchCh, pending, loop, k, found, plan, cands, pick, held,
          lock, ttl, assigned, trips, rivals, given, free, disturbed>>

Abs(x) == IF x < 0 THEN -x ELSE x
Dist(r, d) == Abs(RiderAt[r] - DriverAt[d])
NearbyOf(r) == {d \in Driver : Dist(r, d) <= Radius}

Holding == {"record", "route"}   \* from claim() to the end of assign()
NoPick == [d |-> None, dist |-> 0]

TypeOK == /\ at \in [Req -> {"idle", "check", "enqueue"}]
          /\ tries \in [Req -> Nat] /\ waiting \in SUBSET Req
          /\ batchCh \in Seq(Req) /\ Len(batchCh) <= ChanCap
          /\ pending \in Seq(Req)
          /\ loop \in {"select", "fetch", "plan", "claim", "refetch", "greedy"} \union Holding
          /\ k \in 1..(Len(pending) + 1)
          /\ DOMAIN found \subseteq Driver
          /\ \A j \in DOMAIN plan : plan[j] \in Driver \union {None}
          /\ cands \in Seq(Driver)
          /\ pick \in [d : Driver \union {None}, dist : Nat] /\ held \in Nat
          /\ lock \in [Driver -> Req \union {None, Rival}]
          /\ ttl \in [Driver -> 0..LockTTL]
          /\ assigned \in [Req -> Driver \union {None}]
          /\ trips \subseteq [r : Req, d : Driver, dist : Nat,
                             age : Nat, left : 0..MaxDur, live : BOOLEAN]
          /\ rivals \in 0..MaxRival

Init == /\ at = [r \in Req |-> "idle"] /\ tries = [r \in Req |-> 0] /\ waiting = {}
        /\ batchCh = << >> /\ pending = << >> /\ loop = "select" /\ k = 1
        /\ found = << >> /\ plan = << >> /\ cands = << >>
        /\ pick = NoPick /\ held = 0
        /\ lock = [d \in Driver |-> None] /\ ttl = [d \in Driver |-> 0]
        /\ assigned = [r \in Req |-> None]
        /\ trips = {} /\ rivals = 0
        /\ given = << >> /\ free = {} /\ disturbed = FALSE

-------------------------------------------------------------------------------
\* POST /request: announced as "requested".
HandleRequest(r) ==
    /\ at[r] = "idle" /\ tries[r] < MaxTries[r]
    /\ at' = [at EXCEPT ![r] = "check"]
    /\ tries' = [tries EXCEPT ![r] = @ + 1]
    /\ waiting' = waiting \union {r}
    /\ UNCHANGED <<batchCh, loopVars, redis, trips, rivals, history>>

\* The request has an assignment already: that is the answer.
AnswerExisting(r) ==
    /\ at[r] = "check" /\ assigned[r] # None
    /\ at' = [at EXCEPT ![r] = "idle"]
    /\ UNCHANGED <<tries, waiting, batchCh, loopVars, redis, trips, rivals, history>>

\* It has none, or HGET failed: the handler goes on to batchCh.
NotAssigned(r) ==
    /\ at[r] = "check"
    /\ assigned[r] = None \/ "HGET" \in Faults
    /\ at' = [at EXCEPT ![r] = "enqueue"]
    /\ UNCHANGED <<tries, waiting, batchCh, loopVars, redis, trips, rivals, history>>

\* Variant: the channel is an unbounded queue.
EnqueueAlways(r) ==
    /\ at[r] = "enqueue"
    /\ batchCh' = Append(batchCh, r)
    /\ at' = [at EXCEPT ![r] = "idle"]
    /\ UNCHANGED <<tries, waiting, loopVars, redis, trips, rivals, history>>

\* batchCh <- req, which blocks while the channel is full; then 202 Accepted.
Enqueue(r) ==
    /\ at[r] = "enqueue" /\ Len(batchCh) < ChanCap
    /\ batchCh' = Append(batchCh, r)
    /\ at' = [at EXCEPT ![r] = "idle"]
    /\ UNCHANGED <<tries, waiting, loopVars, redis, trips, rivals, history>>

\* Variant: a request replaces the one before it.
ReceiveLast ==
    /\ loop = "select" /\ batchCh # << >>
    /\ pending' = <<Head(batchCh)>>
    /\ batchCh' = Tail(batchCh)
    /\ UNCHANGED <<handlers, loop, k, found, plan, cands, holding, redis, trips, rivals, history>>

\* batchLoop: a request is taken out of the channel ...
Receive ==
    /\ loop = "select" /\ batchCh # << >>
    /\ pending' = Append(pending, Head(batchCh))
    /\ batchCh' = Tail(batchCh)
    /\ UNCHANGED <<handlers, loop, k, found, plan, cands, holding, redis, trips, rivals, history>>

\* ... or the window is over and solveBatch begins.
WindowEnds ==
    /\ loop = "select" /\ pending # << >>
    /\ loop' = "fetch" /\ k' = 1
    /\ found' = << >>
    /\ given' = [j \in DOMAIN pending |-> [r |-> pending[j], d |-> None]]
    /\ free' = {d \in UNION {NearbyOf(r) : r \in ToSet(pending)} : lock[d] = None}
    /\ disturbed' = FALSE
    /\ UNCHANGED <<handlers, batchCh, pending, plan, cands, holding, redis, trips, rivals>>

\* The batch is done with; whoever got no driver is not heard of again.
BatchDone == /\ loop' = "select" /\ k' = 1
             /\ pending' = << >> /\ plan' = << >> /\ found' = << >>

\* GET /nearby for the next rider.  A driver near several riders is kept once,
\* with the distance to the last of them.
FetchRider ==
    /\ loop = "fetch"
    /\ \/ /\ found' = [d \in NearbyOf(pending[k]) \union DOMAIN found |->
                          IF d \in NearbyOf(pending[k]) THEN Dist(pending[k], d) ELSE found[d]]
          /\ UNCHANGED disturbed
       \/ /\ FetchMayFail
          /\ disturbed' = TRUE
          /\ UNCHANGED found
    /\ IF k < Len(pending) THEN k' = k + 1 /\ UNCHANGED loop
                           ELSE k' = 1 /\ loop' = "plan"
    /\ UNCHANGED <<handlers, batchCh, pending, plan, cands, holding, redis, trips, rivals,
                   given, free>>

\* No rider has a driver nearby: solveBatch returns.
NobodyFound ==
    /\ loop = "plan" /\ DOMAIN found = {}
    /\ BatchDone
    /\ UNCHANGED <<handlers, batchCh, cands, holding, redis, trips, rivals, history>>

\* Variant: Greedy in place of Optimal.
SolveGreedily ==
    /\ loop = "plan" /\ DOMAIN found # {}
    /\ LET drivers == SetToSeq(DOMAIN found)
           a == Greedy([j \in DOMAIN pending |->
                           [m \in DOMAIN drivers |-> Dist(pending[j], drivers[m])]],
                       Len(drivers))
       IN  plan' = [j \in DOMAIN pending |-> IF a[j] = 0 THEN None ELSE drivers[a[j]]]
    /\ loop' = "claim"
    /\ UNCHANGED <<handlers, batchCh, pending, k, found, cands, holding, redis, trips,
                   rivals, history>>

\* CostMatrix and Optimal: all riders of the batch against all drivers found,
\* at their true distances, within the radius of that rider or not.
Solve ==
    /\ loop = "plan" /\ DOMAIN found # {}
    /\ LET drivers == SetToSeq(DOMAIN found)
           cost == [j \in DOMAIN pending |->
                       [m \in DOMAIN drivers |-> Dist(pending[j], drivers[m])]]
       IN  \E a \in Best(cost, Len(drivers)) :
               plan' = [j \in DOMAIN pending |-> IF a[j] = 0 THEN None ELSE drivers[a[j]]]
    /\ loop' = "claim"
    /\ UNCHANGED <<handlers, batchCh, pending, k, found, cands, holding, redis, trips,
                   rivals, history>>

NextRider ==
    IF k < Len(pending)
    THEN loop' = "claim" /\ k' = k + 1 /\ UNCHANGED <<pending, plan, found>>
    ELSE BatchDone

\* Variant: SET without NX.
SetAlways(d, r) == /\ lock' = [lock EXCEPT ![d] = r]
                   /\ ttl' = [ttl EXCEPT ![d] = LockTTL]

\* SET lock:driver:<d> <reqId> NX EX.
SetNX(d, r) == /\ lock[d] = None
               /\ lock' = [lock EXCEPT ![d] = r]
               /\ ttl' = [ttl EXCEPT ![d] = LockTTL]

\* claim() succeeds: driver d is taken for rider k, at distance dist.
Claimed(d, dist) ==
    /\ SetNX(d, pending[k])
    /\ loop' = "record"
    /\ pick' = [d |-> d, dist |-> dist] /\ held' = 0
    /\ given' = [given EXCEPT ![k].d = d]

\* claim() says no: the driver is taken, or the command failed.  If Redis had
\* applied it by then the key is there, for nobody, until its TTL is over.
Refused(d) ==
    \/ lock[d] # None /\ UNCHANGED <<lock, ttl, disturbed>>
    \/ /\ "SETNX" \in Faults
       /\ SetNX(d, pending[k]) \/ UNCHANGED <<lock, ttl>>
       /\ disturbed' = TRUE

\* Optimal left the rider out.
SkipRider ==
    /\ loop = "claim" /\ plan[k] = None
    /\ NextRider
    /\ UNCHANGED <<handlers, batchCh, cands, holding, redis, trips, rivals, history>>

\* The rider gets the driver planned for it, with the distance kept for it.
ClaimPlanned ==
    /\ loop = "claim" /\ plan[k] # None
    /\ Claimed(plan[k], found[plan[k]])
    /\ UNCHANGED <<handlers, batchCh, pending, k, found, plan, cands, assigned, trips,
                   rivals, free, disturbed>>

\* It does not: greedyAssign looks again.
PlanRefused ==
    /\ loop = "claim" /\ plan[k] # None
    /\ Refused(plan[k])
    /\ loop' = "refetch"
    /\ UNCHANGED <<handlers, batchCh, pending, k, found, plan, cands, holding, assigned,
                   trips, rivals, given, free>>

\* assign(): the assignment is recorded, the error dropped if that fails ...
Record ==
    /\ loop = "record"
    /\ \/ assigned' = [assigned EXCEPT ![pending[k]] = pick.d]
       \/ "HSET" \in Faults /\ UNCHANGED assigned
    /\ loop' = "route"
    /\ UNCHANGED <<handlers, batchCh, pending, k, found, plan, cands, holding, lock, ttl,
                   trips, rivals, history>>

\* ... and, when pickupRoute is through, announced; the trip begins.
Announce ==
    /\ loop = "route"
    /\ waiting' = waiting \ {pending[k]}
    /\ \E dur \in MinDur..MaxDur :
          trips' = trips \union {[r |-> pending[k], d |-> pick.d, dist |-> pick.dist,
                                 age |-> held, left |-> dur, live |-> TRUE]}
    /\ pick' = NoPick /\ held' = 0
    /\ NextRider
    /\ UNCHANGED <<at, tries, batchCh, cands, redis, rivals, history>>

\* greedyAssign: GET /nearby once more, nearest first.
SortedNearby(r) ==
    {s \in SetToSeqs(NearbyOf(r)) :
        \A x, y \in DOMAIN s : x < y => Dist(r, s[x]) <= Dist(r, s[y])}
Refetch ==
    /\ loop = "refetch"
    /\ \/ cands' \in SortedNearby(pending[k]) /\ UNCHANGED disturbed
       \/ FetchMayFail /\ cands' = << >> /\ disturbed' = TRUE
    /\ loop' = "greedy"
    /\ UNCHANGED <<handlers, batchCh, pending, k, found, plan, holding, redis, trips,
                   rivals, given, free>>

\* Its first free candidate is taken ...
ClaimNearest ==
    /\ loop = "greedy" /\ cands # << >>
    /\ Claimed(Head(cands), Dist(pending[k], Head(cands)))
    /\ cands' = << >>
    /\ UNCHANGED <<handlers, batchCh, pending, k, found, plan, assigned, trips, rivals,
                   free, disturbed>>

\* ... those that are not free are passed over ...
PassOver ==
    /\ loop = "greedy" /\ cands # << >>
    /\ Refused(Head(cands))
    /\ cands' = Tail(cands)
    /\ UNCHANGED <<handlers, batchCh, pending, loop, k, found, plan, holding, assigned,
                   trips, rivals, given, free>>

\* ... and when there is none the rider is dropped without a word.
GiveUp ==
    /\ loop = "greedy" /\ cands = << >>
    /\ NextRider
    /\ UNCHANGED <<handlers, batchCh, cands, holding, redis, trips, rivals, history>>

\* A trip is over: its goroutine deletes the lock and the assignment, and does
\* not hear of it when that fails.
TripEnds(t) ==
    /\ t \in trips /\ t.live /\ t.left = 0
    /\ trips' = trips \ {t}
    /\ \/ lock' = [lock EXCEPT ![t.d] = None] /\ ttl' = [ttl EXCEPT ![t.d] = 0]
       \/ "DEL" \in Faults /\ UNCHANGED <<lock, ttl>>
    /\ \/ assigned' = [assigned EXCEPT ![t.r] = None]
       \/ "HDEL" \in Faults /\ UNCHANGED assigned
    /\ disturbed' = TRUE
    /\ UNCHANGED <<handlers, batchCh, loopVars, rivals, given, free>>

\* Another instance takes a free driver, or is through with one.
RivalClaims(d) ==
    /\ rivals < MaxRival
    /\ SetNX(d, Rival)
    /\ rivals' = rivals + 1
    /\ disturbed' = TRUE
    /\ UNCHANGED <<handlers, batchCh, loopVars, assigned, trips, given, free>>
RivalReleases(d) ==
    /\ lock[d] = Rival
    /\ lock' = [lock EXCEPT ![d] = None] /\ ttl' = [ttl EXCEPT ![d] = 0]
    /\ disturbed' = TRUE
    /\ UNCHANGED <<handlers, batchCh, loopVars, assigned, trips, rivals, given, free>>

\* The instance dies and is restarted: channel, batch and goroutines are gone.
\* Redis keeps what it has, and trips that were announced go on.
Crash ==
    /\ MayCrash
    /\ at' = [r \in Req |-> "idle"] /\ batchCh' = << >>
    /\ BatchDone /\ cands' = << >> /\ pick' = NoPick /\ held' = 0
    /\ trips' = {[t EXCEPT !.live = FALSE, !.age = 0] : t \in {t \in trips : t.left > 0}}
    /\ given' = << >> /\ free' = {} /\ disturbed' = TRUE
    /\ UNCHANGED <<tries, waiting, redis, rivals>>

\* Time may pass unless a claim or the end of a trip is as late as can be.  Keys
\* expire; a trip with nobody to end it is over when its time is.
Tick ==
    /\ loop \in Holding => held < RouteMax
    /\ \A t \in trips : (t.live /\ t.left = 0) => t.age < HoldMax
    /\ ttl' = [d \in Driver |-> IF ttl[d] > 0 THEN ttl[d] - 1 ELSE 0]
    /\ lock' = [d \in Driver |-> IF ttl[d] > 1 THEN lock[d] ELSE None]
    /\ held' = IF loop \in Holding THEN held + 1 ELSE held
    /\ trips' = {[t EXCEPT !.age = IF t.live THEN @ + 1 ELSE 0,
                          !.left = IF @ > 0 THEN @ - 1 ELSE 0] :
                    t \in {t \in trips : t.live \/ t.left > 1}}
    /\ disturbed' = (disturbed \/ \E d \in Driver : ttl[d] = 1)
    /\ UNCHANGED <<handlers, batchCh, pending, loop, k, found, plan, cands, pick, assigned,
                   rivals, given, free>>

Handle(r) == AnswerExisting(r) \/ NotAssigned(r) \/ Enqueue(r)
SolveBatch == \/ FetchRider \/ NobodyFound \/ Solve \/ SkipRider \/ ClaimPlanned
              \/ PlanRefused \/ Record \/ Announce
              \/ Refetch \/ ClaimNearest \/ PassOver \/ GiveUp
Elsewhere == \/ \E t \in trips : TripEnds(t)
             \/ \E d \in Driver : RivalClaims(d) \/ RivalReleases(d)

Next == \/ \E r \in Req : HandleRequest(r) \/ Handle(r)
        \/ Receive \/ WindowEnds \/ SolveBatch
        \/ Elsewhere \/ Crash \/ Tick

Spec == Init /\ [][Next]_vars

\* The loop and the handlers run.  With both cases of its select ready Go
\* chooses at random, so neither the channel nor the ticker is passed over for
\* ever.  Time passes, so trips end and keys expire.
FairSpec == /\ Spec
            /\ \A r \in Req : WF_vars(AnswerExisting(r) \/ NotAssigned(r)) /\ SF_vars(Enqueue(r))
            /\ SF_vars(Receive) /\ SF_vars(WindowEnds) /\ WF_vars(SolveBatch)
            /\ WF_vars(Elsewhere) /\ WF_vars(Tick)

-------------------------------------------------------------------------------
\* The plan is made over drivers whose locks nobody looked at, and carried out
\* while trips end, keys expire, rivals claim and commands fail.  Still a driver
\* is on one trip at a time, and as long as it is, also after a crash, its lock
\* names the rider.
TripsHoldLocks ==
    /\ \A t, s \in trips : t.d = s.d => t = s
    /\ \A t \in trips : lock[t.d] = t.r

\* "Assignments are idempotent by reqId": a rider who asks again after the answer
\* gets no second trip.
\* (It does not hold; see batch_busy.cfg.)
OneTripPerRider == \A t, s \in trips : t.r = s.r => t = s

\* The batch just solved found its riders the drivers in `free`, and nothing
\* else happened meanwhile.
JustSolved == loop = "select" /\ given # << >> /\ ~disturbed
FreeList == SetToSeq(free)
Got == [j \in DOMAIN given |->
           IF given[j].d = None THEN 0 ELSE CHOOSE m \in DOMAIN FreeList : FreeList[m] = given[j].d]
GotBest ==
    Got \in Best([j \in DOMAIN given |->
                     [m \in DOMAIN FreeList |-> Dist(given[j].r, FreeList[m])]],
                 Len(FreeList))

\* With all its drivers free the batch is assigned optimally: claiming one by
\* one, and doing without those nobody is given, takes nothing from the plan.
OptimalWhenAllFree ==
    JustSolved /\ free = UNION {NearbyOf(given[j].r) : j \in DOMAIN given} => GotBest

\* "Solve the whole batch at once for the globally minimal total cost": also
\* when some of the drivers nearby are on a trip.
\* (It does not hold; see batch_busy.cfg.)
GloballyMinimal == JustSolved => GotBest

\* The pickup distance published with a trip, which /stats averages and which
\* sets the trip's duration, is that of its rider and its driver.
\* (It does not hold; see batch_dist.cfg.)
PickupDistIsOwn == \A t \in trips : t.dist = Dist(t.r, t.d)

\* "assigns riders to nearby drivers": nobody waits for a driver from beyond
\* the radius.
\* (It does not hold; see batch_dist.cfg.)
DriversAreNearby == \A t \in trips : Dist(t.r, t.d) <= Radius

\* A handler blocked on a full batchCh gets its request in, and every request
\* that is in gets into a batch.
RequestsReachABatch ==
    \A r \in Req : at[r] = "enqueue" ~> \E j \in DOMAIN given : given[j].r = r

\* A rider shown as waiting gets a driver, or is announced as "unmatched".
\* (It does not hold; see batch_silent.cfg.)
RidersHear == \A r \in Req : r \in waiting ~> r \notin waiting
===============================================================================
