--------------------------------- MODULE Surge ---------------------------------
(***************************************************************************)
(* services/surge/main.go: a consumer goroutine tallies rider requests     *)
(* into a ring of time slots per zone, and computeLoop, once per slot,     *)
(* evicts a slot, sums the ring and publishes a multiplier per zone.  The  *)
(* two share `zones` under a mutex; the clock is read outside it.          *)
(*                                                                         *)
(* Time is the number of the current slot, modulo Horizon.  The ticker     *)
(* fires once per slot; how long after its beginning depends on when the   *)
(* process was started, so requests come before and after it.              *)
(***************************************************************************)
EXTENDS Integers, FiniteSets, FiniteSetsExt, Functions

CONSTANTS Zone,           \* H3 res-7 cells
          windowSize,     \* slots in the ring, 30
          Horizon,        \* the clock's modulus, a multiple of windowSize
          MaxSupply,      \* bound on the drivers of a zone
          MaxRequests,    \* bound on the requests
          MaxLate,        \* bound on the slots that end before their tick is served
          MaxCrashes,     \* bound on the crashes of the service
          RedisMayFail    \* whether writing the hash may fail

ASSUME SurgeAssumption ==
    /\ "none" \notin Zone
    /\ windowSize \in Nat /\ windowSize > 2
    /\ Horizon \in Nat /\ Horizon > windowSize /\ Horizon % windowSize = 0
    /\ MaxSupply \in Nat /\ MaxRequests \in Nat /\ MaxLate \in Nat /\ MaxCrashes \in Nat
    /\ RedisMayFail \in BOOLEAN

Slot == 0..(windowSize - 1)
Time == 0..(Horizon - 1)

VARIABLES
    now,         \* the current slot
    requests,    \* requests made so far
    queued,      \* queued[z]: requests of zone z on the topic, unread
    uncommitted, \* uncommitted[z]: read since the last commit
    taken,       \* the request being tallied and the slot read for it, if any
    zones,       \* the zones there is an entry for
    demand,      \* their rings
    loop,        \* computeLoop waits for its ticker or publishes
    ticked,      \* the slot whose tick it has served
    snaps,       \* the snapshots it has yet to publish
    surge,       \* Redis hash "surge", in hundredths, 0 if absent
    kept,        \* history: zones forgotten although their HDEL failed
    tallied,     \* history: tallied[z][t], requests tallied for slot t
    punctual,    \* history: slots since one ended too early, at most windowSize
    lates,       \* how many did
    crashes

pace == <<punctual, lates>>
input == <<requests, queued, uncommitted>>
published == <<surge, kept>>
svars == <<now, requests, queued, uncommitted, taken, zones, demand, loop, ticked,
          snaps, surge, kept, tallied, pace, crashes>>

Idle == [z |-> "none", t |-> 0]
NoDemand == [s \in Slot |-> 0]

\* Variant: no lower bound.
multiplierBelowOne(dem, sup) ==
    LET supply == IF sup <= 0 THEN 1 ELSE sup
        m == (2 * (40 * supply + 60 * dem) + supply) \div (2 * supply)
    IN  Min({m, 300})

\* multiplier(): 1 + 0.6 * (demand / supply - 1), between 1 and 3, rounded to
\* hundredths; an empty zone counts as one driver.
multiplier(dem, sup) ==
    LET supply == IF sup <= 0 THEN 1 ELSE sup
        m == (2 * (40 * supply + 60 * dem) + supply) \div (2 * supply)
    IN  Min({Max({m, 100}), 300})

SurgeTypeOK ==
    /\ now \in Time /\ ticked \in Time
    /\ requests \in 0..MaxRequests
    /\ queued \in [Zone -> 0..MaxRequests] /\ uncommitted \in [Zone -> 0..MaxRequests]
    /\ taken \in [z : Zone, t : Time] \union {Idle}
    /\ zones \in SUBSET Zone
    /\ demand \in [Zone -> [Slot -> 0..MaxRequests]]
    /\ loop \in {"wait", "publish"}
    /\ snaps \subseteq [z : Zone, demand : Nat, m : 100..300]
    /\ surge \in [Zone -> {0} \union (100..300)] /\ kept \in SUBSET Zone
    /\ punctual \in 0..windowSize /\ lates \in 0..MaxLate /\ crashes \in 0..MaxCrashes

\* The ticker first fires one slot after the start.
SurgeInit ==
    /\ now = 0 /\ ticked = 0
    /\ requests = 0 /\ queued = [z \in Zone |-> 0] /\ uncommitted = [z \in Zone |-> 0]
    /\ taken = Idle /\ zones = {} /\ demand = [z \in Zone |-> NoDemand]
    /\ loop = "wait" /\ snaps = {} /\ surge = [z \in Zone |-> 0] /\ kept = {}
    /\ tallied = [z \in Zone |-> [t \in Time |-> 0]]
    /\ punctual = windowSize /\ lates = 0 /\ crashes = 0

-------------------------------------------------------------------------------
\* The matcher puts a request on the topic.
Request(z) ==
    /\ requests < MaxRequests
    /\ requests' = requests + 1
    /\ queued' = [queued EXCEPT ![z] = @ + 1]
    /\ UNCHANGED <<now, uncommitted, taken, zones, demand, loop, ticked, snaps,
                   published, tallied, pace, crashes>>

\* consume(): a record is read, and the slot it will count for with it.
Take(z) ==
    /\ taken = Idle /\ queued[z] > 0
    /\ queued' = [queued EXCEPT ![z] = @ - 1]
    /\ uncommitted' = [uncommitted EXCEPT ![z] = @ + 1]
    /\ taken' = [z |-> z, t |-> now]
    /\ UNCHANGED <<now, requests, zones, demand, loop, ticked, snaps, published,
                   tallied, pace, crashes>>

\* Under the mutex, the zone is looked up or made, and its slot incremented.
Tally ==
    /\ taken # Idle
    /\ zones' = zones \union {taken.z}
    /\ demand' = [demand EXCEPT ![taken.z][taken.t % windowSize] = @ + 1]
    /\ tallied' = [tallied EXCEPT ![taken.z][taken.t] = @ + 1]
    /\ taken' = Idle
    /\ kept' = kept \ {taken.z}
    /\ UNCHANGED <<now, input, loop, ticked, snaps, surge, pace, crashes>>

\* The offsets of the poll are committed; a failure changes nothing.
Commit ==
    /\ taken = Idle
    /\ uncommitted' = [z \in Zone |-> 0]
    /\ UNCHANGED <<now, requests, queued, taken, zones, demand, loop, ticked,
                   snaps, published, tallied, pace, crashes>>

\* Variant: the current slot is evicted.
EvictCurrent(z) == [demand[z] EXCEPT ![now % windowSize] = 0]

\* The next slot is evicted, ahead of the requests it will count.
Evicted(z) == [demand[z] EXCEPT ![((now % windowSize) + 1) % windowSize] = 0]
Demand(z) == SumFunction(Evicted(z))

\* Variant: a zone without demand keeps its multiplier.
HDelNone(zs) == UNCHANGED published

\* Zones are taken out of Redis, but for those whose HDEL fails: the error is
\* dropped.
HDel(zs) ==
    \E failed \in SUBSET (IF RedisMayFail THEN zs ELSE {}) :
        /\ surge' = [z \in Zone |-> IF z \in zs \ failed THEN 0 ELSE surge[z]]
        /\ kept' = kept \union failed

\* computeLoop, under the mutex: the next slot is evicted in every zone, zones
\* without demand are dropped, here and in Redis, the others are summed.  (The
\* clock is read before the lock is taken.  Here it is one step: if the slot
\* ended in between, its tick was late, and WindowSlides says nothing of it.)
Compute ==
    /\ loop = "wait" /\ ticked # now
    /\ ticked' = now
    /\ zones' = {z \in zones : Demand(z) # 0}
    /\ demand' = [z \in Zone |-> IF z \in zones' THEN Evicted(z) ELSE NoDemand]
    /\ HDel(zones \ zones')
    /\ \E supply \in [zones' -> 0..MaxSupply] :
          snaps' = {[z |-> z, demand |-> Demand(z), m |-> multiplier(Demand(z), supply[z])] :
                       z \in zones'}
    /\ loop' = IF snaps' = {} THEN "wait" ELSE "publish"
    /\ UNCHANGED <<now, input, taken, tallied, pace, crashes>>

\* After the mutex is released: HSET surge, whose error is dropped, and a row in
\* Timescale per zone.
Publish(s) ==
    /\ s \in snaps
    /\ \/ surge' = [surge EXCEPT ![s.z] = s.m]
       \/ RedisMayFail /\ UNCHANGED surge
    /\ UNCHANGED kept
    /\ snaps' = snaps \ {s}
    /\ loop' = IF snaps' = {} THEN "wait" ELSE "publish"
    /\ UNCHANGED <<now, input, taken, zones, demand, ticked, tallied, pace, crashes>>

\* What a healthy process has done by the end of a slot: its tick is served, and
\* what was read before the slot is tallied.
OnTime == ticked = now /\ loop = "wait" /\ (taken # Idle => taken.t = now)

\* The slot ends.  If computeLoop did not get to it, its tick is dropped.
NextSlot ==
    /\ OnTime \/ lates < MaxLate
    /\ punctual' = IF OnTime THEN Min({punctual + 1, windowSize}) ELSE 0
    /\ lates' = IF OnTime THEN lates ELSE lates + 1
    /\ now' = (now + 1) % Horizon
    /\ tallied' = [z \in Zone |-> [tallied[z] EXCEPT ![now'] = 0]]
    /\ UNCHANGED <<input, taken, zones, demand, loop, ticked, snaps, published, crashes>>

\* The service is restarted: memory is gone, what was not committed comes back.
Crash ==
    /\ crashes < MaxCrashes
    /\ crashes' = crashes + 1
    /\ queued' = [z \in Zone |-> queued[z] + uncommitted[z]]
    /\ uncommitted' = [z \in Zone |-> 0]
    /\ taken' = Idle /\ zones' = {} /\ demand' = [z \in Zone |-> NoDemand]
    /\ loop' = "wait" /\ snaps' = {} /\ ticked' = now
    /\ tallied' = [z \in Zone |-> [t \in Time |-> 0]]
    /\ punctual' = windowSize
    /\ UNCHANGED <<now, requests, published, lates>>

Consume == Tally \/ (\E z \in Zone : Take(z)) \/ Commit
ComputeLoop == Compute \/ \E s \in snaps : Publish(s)

SurgeNext == (\E z \in Zone : Request(z)) \/ Consume \/ ComputeLoop \/ NextSlot \/ Crash

SurgeSpec == SurgeInit /\ [][SurgeNext]_svars

\* Slots pass, the ticker fires, on time but for MaxLate slots, and the consumer consumes.
SurgeFairSpec == SurgeSpec /\ WF_svars(NextSlot) /\ WF_svars(ComputeLoop) /\ WF_svars(Tally)
                           /\ \A z \in Zone : WF_svars(Take(z))

-------------------------------------------------------------------------------
\* The demand of the last n slots, the current one included.
Ago(k) == (now + Horizon - k) % Horizon
Recent(z, n) == SumFunction([k \in 0..(n - 1) |-> tallied[z][Ago(k)]])

\* The demand of zone z in the snapshots: none if it was dropped.
Counted(z) == SumFunction([s \in {x \in snaps : x.z = z} |-> s.demand])

\* The ring slides: however requests, the ticker and the mutex interleave, and
\* although the slot of a request is read before the lock is taken, a tick
\* counts every request of the last windowSize - 1 slots once, those of the
\* current slot so far among them, and nothing older.  A dropped tick leaves a
\* slot in the ring that should be gone, but not for ever: a window later the
\* ring is exact again.
WindowSlides ==
    [][Compute /\ punctual = windowSize =>
          \A z \in Zone : Counted(z)' = Recent(z, windowSize - 1)]_svars

\* "window = 30 slots = 5 minutes": a tick counts the last windowSize slots.
\* (It does not hold; see surge_late.cfg.)
FullWindow ==
    [][Compute => \A z \in Zone : Counted(z)' = Recent(z, windowSize)]_svars

\* The window is a sliding one: nothing older than windowSize slots counts.
\* (It does not hold; see surge_late.cfg.)
NothingStale ==
    [][Compute => \A z \in Zone : Counted(z)' <= Recent(z, windowSize)]_svars

\* A multiplier is live: once its demand has gone by it is taken down, whatever
\* was published meanwhile and failed to be, unless the process that knows of
\* the zone is restarted before, or the one HDEL it tries for the zone fails.
SurgeFades ==
    \A z \in Zone, k \in 0..MaxCrashes :
        (surge[z] # 0 /\ z \in zones /\ crashes = k)
            ~> (surge[z] = 0 \/ crashes # k \/ z \in kept)

\* Without these exceptions: no multiplier stays.
\* (It does not hold, neither across a restart nor when an HDEL fails; see
\* surge_stays.cfg.)
MultipliersFade == \A z \in Zone : surge[z] # 0 ~> surge[z] = 0
===============================================================================
