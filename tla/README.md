# GeoSpatial: a verification project

TLA+ models of the GeoSpatial dispatch platform, the TLC configurations that
check them and proofs of the central results. Everything is translated from
the Go code under `src/services` and `src/internal`; the documents (`src/docs`,
`src/docs-site`) are used only where a run compares the code with what they say.

Run a model with `tlc -config X.cfg M` (the table in section 3 gives M), a
proof with `tlapm M.tla`.

## 1. The system

Drivers (the simulator, or aircraft of the OpenSky feed) report positions;
riders request a driver; a browser map shows both.

    simulator ──POST /loc──> ingest-gateway ──> [positions] ──> indexer ──> Redis (h3:*, geo:*)
    feeds ───────────────────────────────────────^    │                        │
                                                      └──> ws-fanout ──> map   │ GET /nearby
    riders ──POST /request──> matcher <─────────────────────────────────────────┘
                                 │  lock:driver:*, req:assigned in Redis
                                 └──> [trips] ──> ws-fanout ──> map
                                         └──────> surge ──> Redis hash surge, Timescale

Brackets are topics of a Kafka-compatible broker, keyed by a coarse H3 cell.

| part | state | operations | hard behaviour | what makes it correct |
|---|---|---|---|---|
| matcher, greedy (`services/matcher`) | Redis keys `lock:driver:<d>` with TTL, hash `req:assigned`; counters | `POST /request`: announce, look the request up, `/nearby`, claim with SET NX EX, HSET, route, publish, answer; a goroutine sleeps for the trip, then DEL, HDEL | several goroutines and instances on one Redis; lost answers; crash during a trip; TTL against trip; dropped errors | a driver is on one trip at a time; its lock outlasts the trip; a repeated request gets the trip it has; locks go away |
| matcher, batched optimal | `batchCh`, the loop's batch, plan over distances | buffer requests, solve a batch every window, claim the planned driver or fall back to greedy | a full channel blocks handlers; the plan is stale when it is carried out; claims fail, lose their answer or outlive a crash | with all drivers free the batch's total is minimal; a driver on a trip is locked for it; no request waits for ever to get into a batch |
| `internal/match` | none (algorithm) | Greedy, Optimal (Hungarian) | potentials, padding of a rectangular problem | Optimal returns an optimal assignment, and ends |
| indexer, consumer (`services/indexer`) | committed offsets, Redis Sets `h3:<cell>`, hashes `geo:cell`, `geo:pos`, `geo:seen` | poll, HGET, pipeline per record, commit | at-least-once delivery, crash before commit, several indexers, pipelines are not transactions | a driver is in the Set of its cell and no other, at its latest position |
| indexer, `GET /nearby` | reads only | SMEMBERS per cell, HMGET positions, HMGET times, filters | the index changes between the reads | who is in range and fresh is found, and nobody else |
| surge (`services/surge`) | per zone a ring of 30 demand slots; Redis hash `surge` | consume requests, tick every 10 s, count the zone's drivers in Redis, publish | slot computed before the lock; dropped ticks; restart; dropped errors of Redis; the index moves during the count | the window slides, and does so again after a late tick; multipliers are current; a driver is counted once |
| ws-fanout (`services/ws-fanout`) | set of connections with a buffered channel each, RWMutex | add, remove, broadcast | a channel closed during a broadcast; slow and silent browsers | no send on a closed channel; order; nobody blocks the hub |
| feeds (`services/feeds`) | enabled flag, cancel function, status | switch on, switch off, poll | goroutines of earlier switchings overlap | one poller; cancelled ones end; bad input does no harm |
| ingest-gateway, `internal/bus`, `internal/event` | client buffers | produce, consume | records in buffers are lost in a crash | accepted means delivered; order within a key |
| `internal/spatial` | none (algorithm) | CellOf, DiskCells, Children | rounding: how many rings cover a radius, which cell a point on an edge is in | the disk covers the radius; each cell is in one zone |
| simulator (`services/simulator`) | a goroutine and a cancel function per driver | setDrivers, `/control`, riders | cancelling during a report | drivers taken out of the fleet stop, for good |
| web map (`web/src/App.tsx`) | maps of tracks, trips, waiting riders | onmessage, tick | events that were dropped or never sent; a connection that breaks | what is shown happened; what is over fades |
| TimescaleDB, docs, deployment | - | one insert per snapshot | - | - |

`PROJECT.json` lists the hazards of this code line by line.

## 2. The modules

| module | models | state and actions |
|---|---|---|
| `Dispatch` | what the matching engine promises | `hold`, `riders`; Book, Start, Lapse |
| `Matcher` | matcher, greedy | one Handler is a request's goroutine and the one `assign()` leaves behind; one Redis command, HTTP call or Produce is one action; Crash per instance; Tick moves TTLs, clocks and trips. Refines Dispatch |
| `Assignment` | Greedy, and the definition of an optimal assignment, as operators | - |
| `Hungarian` | `hungarian()` in three loops, on every problem up to the bounds | StartRow, Grow, Flip, Finish; RiderToDriver is what Optimal makes of the result |
| `BatchMatcher` | matcher, batched optimal | handlers up to the channel, the loop's select, solveBatch rider by rider with its fallback; claim, record and announcement as steps of their own, with TTLs, failing commands, Crash and Tick as in Matcher; trips of this instance and claims of rival ones. Uses Assignment for the plan, so Hungarian's result (ReturnsBest) is what justifies it |
| `Spatial` | `internal/spatial` as operators, on a plane of regular hexagons | CellOf at two resolutions, DiskCells, Children |
| `SpatialIndex` | the gateway, the topic, the consumer group, `index()`; extends Spatial | DriverReports is `POST /loc`, into the gateway's buffer; Flush sends it, GatewayCrash loses it; Poll, PollFailed, ReadCell, Send (one command of the pipeline), PipelineBreaks, Commit, Crash. What a poll returned is not copied: `fetched` and `indexed` say how far into each partition the indexer has read and worked, `turn` whose records it is at |
| `IndexLosses` | SpatialIndex with a history of the records the consumer gave up on | its actions, those that go past a record without indexing it told apart from the others |
| `Nearby` | `GET /nearby`, extends SpatialIndex | the reads of a query, any step of the index between them |
| `Supply` | surge's `supplyInZone`, extends Nearby | one SCARD after the other, any step of the index between them |
| `Surge` | surge, but for how the supply is counted | Request, Take (record and slot), Tally (under the mutex), Commit, Compute, Publish, NextSlot, Crash |
| `Stream` | what ws-fanout promises a browser | per connection a queue: Open, Accept, Drop (only when Cap records are waiting), Hear, Shut |
| `Fanout` | ws-fanout | WriteLock/Broadcast/Send/BroadcastEnds against Add, Receive, Write, Leave, Delete, Close of each connection. Refines Stream |
| `Feeds` | feeds | Enable, Disable, and every exit of `poll()` and `emit()` per goroutine |
| `Simulator` | the drivers of the simulator | SetDrivers, Clamp, HandleControl; Stop and Post of each driver's goroutine |
| `LiveMap` | the web map with its sources; extends Simulator and Stream, whose connection is the page's | Report, Requested, Unmatched, Assigned, Completed, Orphaned are what ws-fanout reads, accepted or dropped by the connection; OnMessage, Frame (`tick`), Second, Load, Disconnect |
| `MC*` | values for TLC | - |
| `MatcherProofs`, `FanoutProofs`, `HungarianProofs`, `BatchMatcherProofs`, `LiveMapProofs` | theorems about the module of that name, in MatcherProofs also about Dispatch, in LiveMapProofs about Simulator | - |
| `SupplyProofs` | theorems about SpatialIndex, Nearby and Supply | - |
| `TickerProofs` | theorems about the two services that live by a ticker, Feeds and Surge | - |
| `SumProofs` | lemmas about sums over finite sets, for HungarianProofs, BatchMatcherProofs and TickerProofs | - |

Operators under a comment "Variant:" are not part of a specification: each is
what an action would be with a plausible mistake in the code it models, and
`PROJECT.json` ("mutants") says which property notices it. Every property of
every passing run has one.

`map` in `PROJECT.json` gives the lines each definition stands for.

Modules are composed in three ways. Nearby and Supply extend SpatialIndex: they
read, step by step, the Redis structures the indexers write. LiveMap takes
ws-fanout by its abstract specification: the page hangs on one connection of
Stream, and Fanout implements Stream (the run fanout_order, the theorem
HubImplementsStreams), so what LiveMap concludes from Stream holds behind the
hub. Dispatch is to Matcher what Stream is to Fanout.

## 3. The runs

| run | module | result | what it shows |
|---|---|---|---|
| matcher_faults | MCMatcher | passes | two instances, two drivers, two requests, crashes and every failing or repeated command but a repeated DEL: NoDoubleBooking, TripsAreLocked, the refinement of Dispatch, and IInv, the inductive invariant of the proofs |
| matcher_retry | MCMatcher | passes | two goroutines of one process that crashes, riders repeat a request only after an answer, HGET and HSET work and no HDEL is repeated: one trip per request, a retry finds it, the shared counter is exact; every lock goes away, even with repeated DELs |
| hungarian | Hungarian | passes | every problem up to 3 x 3 with distances 0..2 |
| index_faults | MCSpatialIndex | passes | failing polls and Redis commands, a crash of the indexer or the gateway: of the reports on the topic only those the consumer gave up on are missing, and uncrashed it never goes back in time; the ASSUMEs of MCSpatialIndex check DiskCells and Children on every point and cell around the origin |
| index_race | MCSpatialIndex | IndexExact violated | two indexers leave a driver in two Sets |
| nearby_settled | MCNearby | passes | queries and counts of a zone next to an indexer that crashes, a gateway that loses reports and two drivers of which one, the other or both move: index exact when caught up, answers exact for settled drivers, in range over several rings of cells, counts exact when both are settled and never short of the one that is |
| batch_optimal | MCBatchMatcher | passes | optimal when all drivers are free; a full channel empties |
| batch_faults | MCBatchMatcher | passes | failing commands, lost answers, expiring keys, rivals and a crash: a driver is on one trip, and locked for it |
| surge_window | Surge | passes | the ring counts exactly the last windowSize - 1 slots, and again one window after a tick was dropped, with a Redis that may fail; multipliers fade unless their HDEL failed or the service was restarted |
| fanout_order | Fanout | passes | no send on a closed channel; Fanout implements Stream: order, no gaps but for records that found Cap others waiting; broadcasts end, leavers leave |
| feeds_switch | Feeds | passes | one live poller, cancelled ones end, stale errors go away |
| livemap | MCLiveMap | passes | a page that lost no event shows each trip exactly while it lasts; the car of a driver taken out by the slider is drawn no more, unless for a trip whose end the page missed; pins fade, answered or not |

### Bounds

* Matcher: one unit of time is 6 s, so `lockTTL` 30 s is 5, `pickupRoute`'s 3 s
  is 1, and a trip, 3 to 12 s, is 1 to 2. MaxLag = 1 bounds what the code does
  not: Redis round trips, a Produce blocked on a full buffer, the scheduler.
  1 + 1 + 2 < 5, as 3 + 6 + 12 < 30. Two attempts and two drivers let one
  attempt meet another's lock, try the next driver, and meet what a crash left;
  the theorems need no bound. In matcher_retry answers of `/nearby` have at most
  one driver, to afford liveness.
* Hungarian: three rows is the smallest size at which an augmenting path runs
  through two matched columns; both shapes of a rectangle are included. Big
  stands for 1e9.
* Spatial: edges of two steps, so that there are points inside a cell, on its
  rim and on a corner; all points within five steps, radii from one to six.
* SpatialIndex: three reports of a driver (old cell, new cell, and one more),
  two partitions, polls of up to two records, one or two indexers.
* Nearby and Supply: a query at the rim of its cell, with places in the same
  cell, two cells away but in range, and just out of range in the next cell,
  where the key is that of another zone; the radius that is given and the usual one. MCNearby says where.
  Of the two drivers one drives in and out of the zone and the other stays in
  the cell of it the first comes through, so that one keeps still while the
  other comes, leaves and is counted or missed. Two reports each, polls of one
  record (of which many may be uncommitted), and no time, hence nothing stale: three reports, polls of two
  and time are in index_faults and supply_offline, and the theorems have them all.
* BatchMatcher: two riders, a channel of one, two drivers of which only one
  division is optimal (greedy takes the other), one rival claim, one rider who
  asks twice. In batch_faults a key lives for 4 and a trip is over by 1 + 2, the
  least that is Timely.
* Surge: a ring of three slots (evicted next, current, previous) for 30, a
  clock that wraps at twice that, two zones and two requests, one late slot.
  Three is the smallest ring for which the code is right: with two, a tally
  that gets the mutex one slot late lands in the slot that was just evicted, and
  TLC finds WindowSlides violated. SurgeAssumption therefore asks for more than
  two; all larger rings are the theorems' business.
* Fanout: channels of two for 256, four records, two connections.
* Feeds: two goroutines, four switchings, answers of one row.
* LiveMap: two drivers ever started and a slider from -1 to one beyond the
  largest fleet; one request made twice, so that it is repeated during its trip
  or made again after it; a connection with one place behind the record being
  written, which makes drops common. TrackLife and WaitLife stand for 6 s and
  15 s; with 0 an age is either "in time" or "out of time", which is all that
  `tick` tells apart.

Deadlock is checked except where a bounded run comes to its natural end
(`CHECK_DEADLOCK FALSE` in hungarian, index, nearby, supply, batch: no more reports,
requests or rounds).

### Fairness

* Matcher: time passes; a goroutine that can go on does (every Redis command
  and HTTP call of the code returns, go-redis repeats a command finitely often,
  hence weak fairness of ReleaseLock by itself). No fairness on riders, crashes
  or faults.
* SpatialIndex: an indexer keeps working, and franz-go sends what is in its
  buffer. Commit may fail every time.
* BatchMatcher: strong fairness of the two cases of `batchLoop`'s select, and
  of a handler's send: Go chooses among ready cases at random and queues blocked
  senders. The same for `ctx.Done()` in Feeds.
* Fanout: strong fairness of the write lock: Go's RWMutex does not let new
  readers pass a waiting writer. None on browsers: they may never read.
* Surge: slots pass, the ticker fires and the consumer consumes.
* LiveMap: the browser reads, its clock runs and it draws frames; a cancelled
  driver's goroutine stops (its HTTP calls have a timeout, and select comes to
  `ctx.Done()` in the end); a report that was posted arrives or is lost; a trip
  ends, as its goroutine only sleeps and makes calls that return, or the matcher
  crashes. None on riders, the slider, or loading the page.

## 4. What the failing runs show

* **index_race.** HGET `geo:cell` and the pipeline that relies on it are
  separate; a driver that crosses partitions is handled by two indexers at once,
  and stays in a Set it is never taken out of.

The following configurations are kept next to the regular runs. Each checks one
property that the code does not have, and TLC gives the trace. The property's
comment in the module names its file.

| configuration | property | what happens |
|---|---|---|
| matcher_twice | OneTripPerRequest | `handleRequest` looks `req:assigned` up first (main.go:130) and writes it after `/nearby` and the claim (main.go:230): two POSTs of one id in between get two drivers. The docs (ADR 0006, Phase03.astro:91) say a retry never creates a second trip; with retries only after an answer, and a Redis that does not fail, the promise holds (matcher_retry) |
| matcher_late | NoDoubleBooking | the DEL at main.go:248 does not look at the key's value: a goroutine that comes to it later than the TTL deletes the lock the next request has taken since, and a further request claims the driver too. This is why the theorems assume `Timely` |
| matcher_resent | NoDoubleBooking | a DEL sent twice by go-redis deletes the next trip's lock, however timely everything is |
| matcher_resent | EntryCoversTrip | so with the HDEL at main.go:249, which names a request, not an attempt: applied, its answer lost, it is sent again when the rider, trip over, has asked anew, and takes away the new trip's entry; the next retry gets a second trip |
| matcher_stuck | AssignmentsHeal | after a crash during a trip the entry of `req:assigned` stays for ever and answers every later request of that id |
| matcher_stuck | WaitingIsUnassigned | "requested" is published before the retry is recognised (main.go:126), so the map shows a rider on a trip as waiting |
| index_reorder | LatestPosition | reports in two partitions are applied in the order the partitions are read; `ts` is not compared |
| index_pipeline | NextReportRepairs | a pipeline cut after SADD, or an HGET whose error is dropped, leaves a Set entry the next report does not remove |
| index_skips | LatestPosition | records that come with a fetch error are skipped (indexer main.go:56) and committed with the next poll |
| index_lost | AcceptedIsIndexed | a report answered with 202 is only in the producer's buffer (bus.go:49) and dies with the gateway |
| nearby_moving | EveryoneInRangeFound | a driver that changes cells between two SMEMBERS is missed |
| supply_offline | OfflineFiltered | `geo:seen` is the time of indexing, so redelivered old reports look fresh |
| supply_offline | SupplyIsAvailable | `supplyInZone` counts Sets, in which drivers stay that went offline (or are on a trip); its comment says "available drivers" |
| batch_busy | GloballyMinimal | busy drivers are planned, and the fallback rider by rider is not optimal |
| batch_busy | OneTripPerRider | the answer, 202, is given before there is an assignment (main.go:136-138): asked again after it, the handler finds no entry, and the rider is in a batch twice |
| batch_dist | PickupDistIsOwn, DriversAreNearby | `driverPos` keeps the distance to the last rider that found the driver, and a driver found by one rider may be given to another out of its radius |
| batch_silent | RidersHear | a rider left over in a batch is never announced as unmatched |
| surge_late | FullWindow | the slot evicted is one of the 30: the window is 29 slots |
| surge_late | NothingStale | a tick that is dropped leaves a slot with the demand of five minutes ago, for one window |
| surge_stays | MultipliersFade | the zone is forgotten before its HDEL, whose error is dropped: if it fails the multiplier stays, though nothing was restarted; and zones of the process before a restart keep theirs |
| fanout_stale | LatestWins | a full channel drops the newest record, not the oldest |
| livemap (last line of the cfg) | GhostsFade | a trip whose "completed" was dropped or never sent stays on the map until the page is reloaded, and hides its driver |
| feeds_crash | NeverCrashes | a row of 11 to 13 elements passes the check for 11 (opensky.go:92) and is indexed at 13 |
| feeds_crash | BacksOff | after a 429 the next poll comes at the usual interval |

## 5. What is proved

All theorems hold for every value of the constants that the modules' ASSUMEs
admit: any numbers of processes, drivers, requests, records, crashes. Where a
theorem needs more it says so in its own ASSUME. The proof modules are ordered
here by what they are about; each begins with the invariants it uses.

### Hypotheses

| hypothesis | says | does the code guarantee it? |
|---|---|---|
| `Timely` (Matcher) | the longest hold, RouteTimeout + MaxLag + MaxDur, is below LockTTL | in regular operation (3 + 12 s and delays against 30 s), not under arbitrary delay: matcher_late refutes NoDoubleBooking without it |
| `"REDEL" \notin Faults` | no DEL is sent a second time | no, go-redis repeats a command whose answer is lost: matcher_resent |
| `Careful` (MatcherProofs) | riders repeat a request only after its answer; HGET and HSET of `req:assigned` do not fail; no HDEL is sent a second time | no; the simulator's riders do not repeat at all. matcher_twice refutes OneTripPerRequest without the first part; the errors are dropped by main.go, so the second is Redis being up; go-redis repeats an HDEL whose answer is lost, and matcher_resent refutes EntryCoversTrip without the third |
| `Timely` (BatchMatcher) | the longest route and ride, RouteMax + MaxDur, are below LockTTL | as for Matcher |
| `OneIndexerEach` (SupplyProofs) | all partitions of a driver's places belong to one indexer | with one indexer, which is what is deployed; index_race refutes IndexExact without it |
| `OnePartitionEach` | all places of a driver have keys of one partition | only for drivers that stay among the coarse cells of one partition; index_reorder refutes LatestPosition without it |
| `NothingFails` | no poll and no Redis command fails; crashes may happen | no; index_skips and index_pipeline show what failures do |
| `Geometry` | the disk of cells around a point asked about covers the radius | a fact about the operators of Spatial, which the ASSUMEs of MCSpatialIndex check on the plane, for all points around the origin |
| `Finite` | finitely many drivers and places | yes |

The run matcher_faults is under the first two, matcher_retry under the third,
batch_faults under the fourth, nearby_settled under the other five, so states satisfy all of them.

### Matcher and Dispatch (`MatcherProofs`)

* `TypeCorrect`: `Spec => []TypeOK`, without hypotheses.
* `Inductive`, `DriversNotDoubleBooked`, `TripsStayLocked`: from the first two
  hypotheses, IInv, NoDoubleBooking and TripsAreLocked always hold.
* `MatcherImplementsDispatch`: under the same two, `Spec => Abstract!Spec` with
  hold = the value of the driver's key and riders = the requests of the trips
  under way. Claim and ClaimLost are Book, PublishAssigned is Start,
  PublishCompleted, ReleaseLock, Crash and Tick are Lapse, the others stutter.
* `OneRiderEach` is about Dispatch alone: a driver carries at most one request,
  the one it is held for. `MatcherKeepsPromise` takes it through the refinement.
* `RetriesGetNoSecondTrip`, `RetriesFindTheTrip`: if `Careful`, no request has
  two trips, and its entry is there from the answer to the end of the trip.
  This needs neither `Timely` nor the locks.
* `StatsAreExact`: `activeTrips` is the number of the process's trips, without
  hypotheses.

NoDoubleBooking is not inductive: DEL takes a key away whoever owns it. What
keeps it harmless is that a goroutine that has not deleted its key yet still
owns it, and that is a matter of time. `IInv` says so:

* KeysHaveValues: a key has a value exactly while it has time to live;
* OwnsKey: from SET NX to DEL the key carries the goroutine's request, and its
  TTL plus the goroutine's age is LockTTL;
* InTime: the age is at most RouteMax before the trip and at most HoldMax until
  the DEL, with the remaining trip counted in (this is what MayWait enforces);
* OrphanCovered: the key of a crashed instance's trip outlives the trip;
* NoDoubleBooking itself.

A claim finds ttl = 0; with Timely every other attempt's key has ttl > 0, so the
driver is nobody else's. TTL and age move together in Tick; a crash only removes
owners. TLC checks IInv in matcher_faults; the proof has one step per action.

`RetryInv` says which two goroutines may have one request at a time: one that
looks `req:assigned` up and one that has answered, whose entry it is about to
find. OneTripPerRequest by itself would let a second goroutine wait behind the
lookup. `CountInv` counts the goroutines between the two additions to
`activeTrips`, a set that stays finite although Handler need not be.

### ws-fanout and Stream (`FanoutProofs`)

* `FanoutTypeCorrect`: `Spec => []TypeOK`.
* `HubNeverSendsOnClosed`: that no channel of a broadcast's loop is closed
  follows from where the channels are. FanoutInv says that the map holds the
  channels of handlers up to their delete, that no channel in it is closed, and
  that while the lock is free no broadcast has anything left to send; so when a
  delete gets the lock, no loop has that channel any more.
* `HubKeepsOrder`: what a connection was given is in three places, and
  InOrderOnce only speaks of their concatenation. OrderInv says that each place
  is in order, that each comes before the next, that all is newer than the
  joining, and that nothing is as new as the connection's Bound: the record
  being broadcast as long as the loop has not sent to it, the next one after
  that. So what Send appends is the newest, Receive and Write move the oldest
  one place on, and the three joined are in order (JoinInOrder).
* `HubImplementsStreams`: for each connection, `Spec` implies Stream's, with the
  record in hand and the channel as what waits. Add is Open, Send is Accept or
  Drop, Write is Hear, Disconnect is Shut; all other steps stutter. The capacity is
  what makes Drop a step of Stream: only with Cap records waiting. LiveMap
  relies on this theorem: its page hangs on a connection of Stream.

### internal/match (`SumProofs`, `HungarianProofs`)

* `HungarianTypeCorrect`, `PotentialsCertify`: CertInv, of which Certified is a
  part, holds after every step of the three loops. It adds to Certified what
  the inner loop is in the middle of: `minv` is the least slack of a column over
  the rows of the tree, attained at `way`, and the tree reaches back to column
  0. "Reaches back" is what a rank function says: each column's `way` has a
  smaller rank, so Flip, which follows `way`, ends and never meets a column
  twice. The rank is bound by an \E inside the invariant, so it costs no variable.
* `OptimalReturnsBest`: what Optimal returns is an assignment of as many riders
  as there can be, at the least total distance, for every shape of problem and
  every distance the padding exceeds (ReturnsBest, against Best of
  Assignment, which compares with all assignments there are). The argument
  is weak duality: any full matching costs at least the sum of all potentials,
  the one found costs exactly that (Certified), and costs of padding are Big,
  so that fewer unserved riders always pay.
* `OptimalBeatsGreedy`: Optimal serves as many riders as Greedy and its drivers
  drive no farther altogether (OptimalNeverWorse); match_test.go:42 tries this on
  random batches with a driver for each rider, the theorem is about all. Greedy is
  a recursive function; that it is defined for every rider, and what each one
  gets in its turn (GreedyTurns), is shown by a first rider for whom it would
  not be. A rider gets nobody only when every driver is taken, so no assignment
  serves more (GreedyIsFullest), and Best is the least of those.
* `OptimalEnds`: the comment at match.go:93 says O(n^3). Of the loops at lines
  110 and 142 neither has a bound of its own; together they take at most
  1 + n(2n + 4) iterations, none of which goes over the columns more than
  a constant number of times. Left is a natural number of at most that size, and every
  iteration lessens it: Grow because the tree takes a column it did not have
  (TreeGrows), Flip because what is left of the path, the smallest set of
  columns that holds j0 and is closed under `way`, no longer holds j0
  (PathShortens, by the ranks of CertInv), and the start of a row because a
  round is longer than all a row can take. That is the safety half of
  Terminates; that the program takes its steps at all is fairness.

That the result is the least rests on sums over finite sets, which by nature are
inductive. The lemmas of SumProofs get by without induction: of the subsets for
which a claim about a sum fails there would be a smallest one (finite sets are
well-founded under inclusion), and that has a smaller one. So sums exist and are
unique, do not depend on the order, are monotone, split, and can be reindexed.

### Batched mode (`BatchMatcherProofs`)

* `BatchTypeCorrect`: `Spec => []TypeOK`.
* `TripsAreHeld`: if `Timely`, a driver is on one trip of this instance and its
  lock names the rider until the trip is over, whatever was planned, also when
  commands fail or lose their answer and when a crash cuts claim, record and
  announcement apart. The converse, that every lock has its trip, is not true: a
  claim whose answer was lost, or that a crash cut off, holds a driver for
  nobody until its TTL is over. HoldInv is Matcher's IInv once more: a key has a
  value while it has time to live, the TTL of a key in use and the age of its
  claim add up to LockTTL, and that of a crashed instance's trip outlives it.
* `PlanIsCarriedOut`: OptimalWhenAllFree. If all drivers of a batch were free
  and nobody else came near them, what its riders got is optimal. Between the
  plan and the claims are as many steps as there are riders; PlanInv says that
  up to rider k each has what the plan gives it, after k nobody has anything,
  and that whoever locked a driver of the batch did so for this plan. So no
  claim fails, the fallback is never taken, and at the end the result is the
  plan, which is among Best. TLC checked PlanInv on the instance of
  batch_optimal before it was proved.

### Index, queries, counts (`SupplyProofs`)

* `IndexTypeCorrect`: TypeOK of SpatialIndex, with the offsets of a partition in
  order: committed <= indexed <= fetched <= sent <= Len(log).
* `SetsAreExact`: OneIndexerEach, NothingFails give IndexExact.
* `LatestPositionKept`: OnePartitionEach, NothingFails give LatestPosition.
* `PositionsGoForward`: OnePartitionEach gives PositionsMoveForward, failing
  commands and polls included.
* `IndexBeside`: Supply's steps are steps of SpatialIndex or leave it alone, so
  that all of the above holds under queries and counts.
* `SettledDriversFound`: with OneIndexerEach, NothingFails, Geometry, a reply
  has every fresh driver in range that had no report under way meanwhile, and
  none of those that was not in range.
* `SupplyTypeCorrect` (Finite), `SupplyIsExact` (OneIndexerEach, NothingFails,
  Finite): the count of a zone is bounded, exact if no driver had a report under
  way, and never below those that had none.

IndexExact speaks of the moment the indexers have caught up; the invariant has
to speak of all the others, crashes between any two commands of a pipeline among
them. `LoopInv` ties an indexer's place to its offsets and its pipeline to the
record it is at. `Midway` says what a pipeline has already done, command by
command. `Recoverable` says that whatever is wrong about a driver, a record is
still to be indexed that puts it right: a Set it should not be in is that of a
cell it is coming to, and a driver missing from the Set of its cell is about to
get another cell. A crash drops the pipeline but leaves the record to be
indexed, so what was half done is done again: ExactInv is preserved by Crash,
and when nothing is coming any more, nothing is wrong. `Latest` says that the
last record of a driver, once indexed, is what Redis has of it; `Forward` that,
before the first crash, what is still to be indexed is not older than what Redis
has.

For queries, `QueryInv` says that a settled driver in range is among the ids
read or in a Set not read yet; ExactInv is what puts it in a Set at all, in
every state and not only when the indexers have caught up, which is why both
live in one module. `CountInv` does the same for the cells counted.

### Surge (`TickerProofs`)

* `SurgeTypeCorrect`: `SurgeSpec => []SurgeTypeOK`. No slot holds more than
  the requests made, and a multiplier is between 100 and 300.
* `WindowIsExact`: `SurgeSpec => WindowSlides`. When a tick computes the
  multipliers, the demand it counts in a zone is that of the requests tallied
  in the last windowSize - 1 slots, each once and none older, provided those
  slots ended on time (`punctual = windowSize`): from the start, and a whole
  window after one that did not.

The code adds up 30 counters that are overwritten one at a time, by index modulo
30, from a goroutine that read the clock before it got the mutex. The property
adds up what was tallied by time, without a ring. SurgeInv connects them:

* Ring: up to the last slot that ended too early, the slot of the ring for time
  t holds what was tallied for t;
* Recently: a tally under way is of this slot or the one before, so it cannot hit
  a slot that was evicted (this is where a ring of two fails);
* Ahead: when the tick of a slot was served, the oldest place is empty for the
  next slot to come;
* Unknown, Loads: zones without an entry have no demand; a request is on the
  topic, being tallied or in one slot, which bounds each slot.

Then Compute empties the oldest place, the other places are the times
Ago(0), ..., Ago(windowSize - 2) under the renaming t -> t % windowSize
(SlotsApart, SlotsCover), and the two sums are the same by the lemmas of
SumProofs on reindexing (CountedIsDemand, DemandIsRecent). Nothing is assumed
about the order in which the ticker, the consumer and the clock take turns.

### Feeds, simulator, web map (`TickerProofs`, `LiveMapProofs`)

* `FeedsTypeCorrect`, `FeedHasOnePoller`: however the feed is switched, while it
  is on exactly one poller is not cancelled, the one the manager can cancel, and
  while it is off there is none. FeedsInv adds that what emit() has counted and
  what is left to it come from one answer, which bounds the counters.
* `FleetIsExact`: `listed` (driverCncls), the contexts and the goroutines tell
  one story (FleetExact): a driver is listed from its start until it is
  cancelled, once and in the order of the numbers, and only cancelled ones
  return. So no goroutine is out of the slider's reach, whatever it did before.
* `SliderIsObeyed`: after a request to `/control` as many drivers report as it
  asked for, clamped to 0..MaxDrivers: by FleetExact those that report are the
  entries of the list, one to one.
* `LiveMapTypeCorrect`, `MapIsExact`: a connected page that missed no event of a
  request shows its trip exactly while it goes on. LiveMapInv says of every
  moment what the page will show: once the queues between the matcher and the
  page are heard to the end, the page shows the state of the trip (Agrees: the
  last message about the trip decides, and without one the page is right).
* `ConnectionIsStream`: what LiveMap does to the page's connection is what
  Stream allows, `LiveMapSpec => Spec`. With HubImplementsStreams this closes
  the composition: LiveMap uses no step of a connection that Stream, which
  ws-fanout implements, does not have.

### What is only model-checked, and why

* Liveness (LocksHeal, OnlyGivenUpAreLost, RequestsReachABatch, Terminates,
  SurgeFades, BroadcastsEnd, LeaversLeave, CancelledEnd, StatusRecovers,
  FleetFades, PinsFade): out of the prover's reach, as is all about ENABLED. Of
  Terminates the measure is proved (OptimalEnds).
* Spatial: that DiskCells covers a radius (`Geometry`) is a hypothesis of
  SettledDriversFound, and checked for all points around the origin by the
  ASSUMEs of MCSpatialIndex. It is not proved: a point on the rim of cells is
  in whichever of them CHOOSE gives it, and for radii that are a multiple of the
  edge the margin is exactly such points.
* What the exceptions in a property stand for: OnlyGivenUpAreLost says nothing
  of records that were given up on, SurgeFades nothing of zones whose HDEL
  failed, MapExact and FleetFades nothing of trips an event of which was lost.
  There the code makes no promise; section 4 has the traces.
* The properties of section 4, which do not hold.

## 6. What is not modelled

* Matcher: totals for `/stats`, routes, what a message says. In BatchMatcher a
  trip's goroutine ends it in one step, and go-redis sends no command twice; both
  are in Matcher.
* Floating point (costs, potentials, multipliers are integers or hundredths),
  and rebalancing of consumer groups: the partitions of an indexer are fixed.
* Spatial: the globe. Cells are regular hexagons on a plane, so that the margin
  by which a disk of H3's slightly distorted cells covers its radius is not
  checked, only the number of rings; seven index cells make a zone, not 49;
  errors of H3, which only points off the globe cause.
* Redis errors in `GET /nearby` and in surge's count. A failing SMEMBERS, SCARD
  or HMGET of `geo:pos` makes the answer smaller; after a failing HMGET of
  `geo:seen` the handler indexes a nil slice (main.go:154) and panics, which
  net/http confines to that request. None of them changes any state. So
  SettledDriversExact and SupplyExact are about reads that succeed. A query and
  a count at the same time are left out too.
* Surge: the row written to TimescaleDB: one insert whose error is logged. That
  it may take long is: ticks may be late.
* Feeds: `lastPoll`, the translation of a row.
* Simulator: routes, `resample`, the positions drivers drive to, the rate of
  riders. In LiveMap riders ask at any time, and repeat themselves, which the
  simulator does not but other clients may.
* Web map: aircraft, the surge layer, the result of a nearby query, drawing; and
  the matcher behind the events is reduced to the order in which it publishes
  them. `Cinematic.tsx` keeps the same maps with another way of drawing them.
* Docs site, deployment: no program state.

## 7. Plan

1. Done: all models of section 2; proofs of every safety property the passing
   runs check, and of both refinements.
2. Models, if there is more to say: the page's slider, whose POSTs may overtake
   each other; rebalancing of the indexer's group, which the code leaves to
   franz-go.
3. Proofs: with a prover for ENABLED, the liveness properties of section 5, for
   most of which the invariants are there.
