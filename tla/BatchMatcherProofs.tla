--------------------------- MODULE BatchMatcherProofs ---------------------------
(***************************************************************************)
(* Theorems about BatchMatcher, for any riders and drivers, wherever they  *)
(* are, any window, channel, number of rivals and lengths of the timers:   *)
(* the types, that the lock of a trip outlives it whatever planned picks,  *)
(* fallbacks, rivals, crashes and failing commands do, and that a plan     *)
(* nobody is in the way of is carried out as it is.                        *)
(***************************************************************************)
EXTENDS BatchMatcher, SumProofs

\* The types, by component.
QueueTypes == /\ at \in [Req -> {"idle", "check", "enqueue"}]
              /\ tries \in [Req -> Nat] /\ waiting \in SUBSET Req
              /\ batchCh \in Seq(Req) /\ Len(batchCh) <= ChanCap
              /\ pending \in Seq(Req)
Acting == {"claim", "refetch", "greedy"} \union Holding
LoopTypes == loop \in {"select", "fetch", "plan"} \union Acting
RedisTypes == /\ lock \in [Driver -> Req \union {None, Rival}]
              /\ ttl \in [Driver -> 0..LockTTL]
              /\ assigned \in [Req -> Driver \union {None}]
              /\ trips \subseteq [r : Req, d : Driver, dist : Nat,
                                 age : Nat, left : 0..MaxDur, live : BOOLEAN]
              /\ rivals \in 0..MaxRival

\* While a batch is being solved k is one of its riders.
Position == IF loop = "select" THEN k = 1 ELSE k \in 1..Len(pending)

\* The drivers found are kept with distances, and plans are made of them.
Found == /\ DOMAIN found \subseteq Driver
         /\ \A d \in DOMAIN found : found[d] \in Nat
Planned == /\ DOMAIN plan = IF loop \in Acting THEN DOMAIN pending ELSE {}
           /\ \A j \in DOMAIN plan : plan[j] \in DOMAIN found \union {None}
Candidates == cands \in Seq(Driver)

\* From the claim to the end of assign() a driver is at hand.
Picked == /\ pick \in [d : Driver \union {None}, dist : Nat] /\ held \in Nat
          /\ loop \in Holding => pick.d \in Driver

LoopInv == /\ QueueTypes /\ LoopTypes /\ RedisTypes /\ Position /\ Found /\ Planned
           /\ Candidates /\ Picked

-------------------------------------------------------------------------------
(* Distances, sequences, functions.                                          *)

\* Distances are natural numbers.
LEMMA Distances == \A r \in Req, d \in Driver : Dist(r, d) \in Nat
  <1> SUFFICES ASSUME NEW r \in Req, NEW d \in Driver PROVE Dist(r, d) \in Nat
    OBVIOUS
  <1>1. RiderAt[r] \in Int /\ DriverAt[d] \in Int
    BY BatchAssumption
  <1>2. RiderAt[r] - DriverAt[d] \in Int
    BY <1>1
  <1>3. \A x \in Int : Abs(x) \in Nat
    BY DEF Abs
  <1> QED BY <1>2, <1>3 DEF Dist

\* The drivers found, as a list.
LEMMA DriverList ==
    ASSUME NEW S \in SUBSET Driver
    PROVE  /\ SetToSeq(S) \in [1..Cardinality(S) -> S] /\ IsInjective(SetToSeq(S))
           /\ Cardinality(S) \in Nat /\ Len(SetToSeq(S)) = Cardinality(S)
           /\ SetToSeq(S) \in Seq(S)
  <1>1. IsFiniteSet(S)
    BY BatchAssumption, FS_Subset
  <1>2. Cardinality(S) \in Nat /\ ExistsBijection(1..Cardinality(S), S)
    BY <1>1, FS_CardinalityType
  <1>3. \E f \in [1..Cardinality(S) -> S] : IsInjective(f)
    BY <1>2 DEF ExistsBijection, Bijection, Injection
  <1>4. SetToSeq(S) \in [1..Cardinality(S) -> S] /\ IsInjective(SetToSeq(S))
    BY <1>3 DEF SetToSeq
  <1> HIDE DEF SetToSeq
  <1> QED BY <1>2, <1>4

\* Init: types.
LEMMA InitLoopInv == Init => LoopInv
  <1> SUFFICES ASSUME Init PROVE LoopInv
    OBVIOUS
  <1>1. QueueTypes /\ LoopTypes /\ Candidates /\ Position
    BY BatchAssumption DEF Init, QueueTypes, LoopTypes, Candidates, Position
  <1>2. RedisTypes
    BY BatchAssumption DEF Init, RedisTypes
  <1>3. Found /\ Planned
    BY DEF Init, Found, Planned, Acting, Holding
  <1>4. Picked
    BY DEF Init, Picked, NoPick, Holding
  <1> QED BY <1>1, <1>2, <1>3, <1>4 DEF LoopInv

-------------------------------------------------------------------------------
(* Every step keeps the types.                                               *)

\* The rider the loop is at.
LEMMA RiderAtHand ==
    ASSUME LoopInv, loop # "select"
    PROVE  k \in 1..Len(pending) /\ Len(pending) \in Nat /\ pending[k] \in Req /\ pending # << >>
  <1>1. k \in 1..Len(pending) /\ pending \in Seq(Req)
    BY DEF LoopInv, Position, QueueTypes
  <1>2. Len(pending) \in Nat
    BY <1>1
  <1> QED BY <1>1, <1>2

\* Going on to the next rider, or done.
LEMMA NextRiderTypes ==
    ASSUME LoopInv, loop \in Acting, NextRider
    PROVE  /\ LoopTypes' /\ Position' /\ Found' /\ Planned' /\ pending' \in Seq(Req)
           /\ loop' \in {"claim", "select"}
  <1>1. k \in 1..Len(pending) /\ Len(pending) \in Nat /\ pending[k] \in Req
    BY RiderAtHand DEF Acting, Holding
  <1>2. CASE k < Len(pending)
    <2>1. loop' = "claim" /\ k' = k + 1 /\ UNCHANGED <<pending, plan, found>>
      BY <1>2 DEF NextRider
    <2>2. k' \in 1..Len(pending')
      BY <1>1, <1>2, <2>1
    <2> QED BY <2>1, <2>2
        DEF LoopInv, QueueTypes, LoopTypes, Position, Found, Planned, Acting, Holding
  <1>3. CASE ~ (k < Len(pending))
    <2>1. loop' = "select" /\ k' = 1 /\ pending' = << >> /\ plan' = << >> /\ found' = << >>
      BY <1>3 DEF NextRider, BatchDone
    <2> QED BY <2>1 DEF LoopTypes, Position, Found, Planned, Acting, Holding
  <1> QED BY <1>2, <1>3

\* The driver taken for the rider at hand.
LEMMA ClaimedTypes ==
    ASSUME LoopInv, loop \in {"claim", "greedy"}, NEW d \in Driver, NEW dist \in Nat,
           Claimed(d, dist), UNCHANGED <<pending, k, found, plan, assigned, trips, rivals>>
    PROVE  RedisTypes' /\ LoopTypes' /\ Position' /\ Found' /\ Planned' /\ Picked'
  <1>1. /\ lock' = [lock EXCEPT ![d] = pending[k]] /\ ttl' = [ttl EXCEPT ![d] = LockTTL]
        /\ loop' = "record" /\ pick' = [d |-> d, dist |-> dist] /\ held' = 0
    BY DEF Claimed, SetNX
  <1>2. pending[k] \in Req
    BY RiderAtHand
  <1>3. RedisTypes'
    BY <1>1, <1>2, BatchAssumption DEF LoopInv, RedisTypes
  <1>4. Picked'
    BY <1>1 DEF Picked
  <1>5. LoopTypes' /\ Position' /\ Found' /\ Planned'
    BY <1>1 DEF LoopInv, LoopTypes, Position, Found, Planned, Acting, Holding
  <1> QED BY <1>3, <1>4, <1>5

\* A claim that was refused.
LEMMA RefusedTypes ==
    ASSUME LoopInv, loop # "select", NEW d \in Driver, Refused(d),
           UNCHANGED <<assigned, trips, rivals>>
    PROVE  RedisTypes'
  <1>1. pending[k] \in Req
    BY RiderAtHand
  <1>2. CASE UNCHANGED <<lock, ttl>>
    BY <1>2 DEF LoopInv, RedisTypes
  <1>3. CASE SetNX(d, pending[k])
    BY <1>1, <1>3, BatchAssumption DEF SetNX, LoopInv, RedisTypes
  <1> QED BY <1>2, <1>3 DEF Refused

\* The handlers.
LEMMA HandlerStep ==
    ASSUME LoopInv, NEW r \in Req, HandleRequest(r) \/ Handle(r)
    PROVE  LoopInv'
  <1>1. QueueTypes'
    <2>1. CASE HandleRequest(r)
      BY <2>1 DEF HandleRequest, loopVars, LoopInv, QueueTypes
    <2>2. CASE AnswerExisting(r) \/ NotAssigned(r)
      BY <2>2 DEF AnswerExisting, NotAssigned, loopVars, LoopInv, QueueTypes
    <2>3. CASE Enqueue(r)
      <3>1. batchCh \in Seq(Req) /\ Len(batchCh) < ChanCap /\ batchCh' = Append(batchCh, r)
        BY <2>3 DEF Enqueue, LoopInv, QueueTypes
      <3>2. batchCh' \in Seq(Req) /\ Len(batchCh') = Len(batchCh) + 1 /\ Len(batchCh) \in Nat
        BY <3>1
      <3>3. Len(batchCh') <= ChanCap
        BY <3>1, <3>2, BatchAssumption
      <3> QED BY <2>3, <3>2, <3>3 DEF Enqueue, loopVars, LoopInv, QueueTypes
    <2> QED BY <2>1, <2>2, <2>3 DEF Handle
  <1>2. UNCHANGED <<pending, loop, k, found, plan, cands, pick, held, lock, ttl, assigned,
                    trips, rivals>>
    BY DEF HandleRequest, Handle, AnswerExisting, NotAssigned, Enqueue, redis, loopVars, holding
  <1> QED BY <1>1, <1>2
    DEF LoopInv, LoopTypes, RedisTypes, Position, Found, Planned, Candidates, Picked

\* The select of batchLoop.
LEMMA SelectStep ==
    ASSUME LoopInv, Receive \/ WindowEnds
    PROVE  LoopInv'
  <1>1. CASE Receive
    <2>1. /\ loop = "select" /\ batchCh # << >>
          /\ pending' = Append(pending, Head(batchCh)) /\ batchCh' = Tail(batchCh)
          /\ UNCHANGED <<at, tries, waiting, loop, k, found, plan, cands, pick, held,
                         lock, ttl, assigned, trips, rivals>>
      BY <1>1 DEF Receive, handlers, redis, holding
    <2>2. batchCh \in Seq(Req) /\ pending \in Seq(Req) /\ Len(batchCh) <= ChanCap
      BY DEF LoopInv, QueueTypes
    <2>3. /\ pending' \in Seq(Req) /\ batchCh' \in Seq(Req)
          /\ Len(batchCh') = Len(batchCh) - 1 /\ Len(batchCh) \in Nat
      BY <2>1, <2>2
    <2>4. QueueTypes'
      BY <2>1, <2>2, <2>3, BatchAssumption DEF LoopInv, QueueTypes
    <2>5. Planned'
      BY <2>1 DEF LoopInv, Planned, Acting, Holding
    <2> QED BY <2>1, <2>4, <2>5
        DEF LoopInv, LoopTypes, RedisTypes, Position, Found, Candidates, Picked
  <1>2. CASE WindowEnds
    <2>1. /\ loop = "select" /\ pending # << >> /\ loop' = "fetch" /\ k' = 1 /\ found' = << >>
          /\ UNCHANGED <<at, tries, waiting, batchCh, pending, plan, cands, pick, held,
                         lock, ttl, assigned, trips, rivals>>
      BY <1>2 DEF WindowEnds, handlers, redis, holding
    <2>2. 1 \in 1..Len(pending)
      BY <2>1 DEF LoopInv, QueueTypes
    <2>3. Position' /\ Found' /\ LoopTypes'
      BY <2>1, <2>2 DEF Position, Found, LoopTypes
    <2>4. Planned'
      BY <2>1 DEF LoopInv, Planned, Acting, Holding
    <2>5. Picked'
      BY <2>1 DEF LoopInv, Picked, Holding
    <2> QED BY <2>1, <2>3, <2>4, <2>5 DEF LoopInv, QueueTypes, RedisTypes, Candidates
  <1> QED BY <1>1, <1>2

\* Asking /nearby for the riders, one after the other.
LEMMA FetchStep ==
    ASSUME LoopInv, FetchRider \/ NobodyFound
    PROVE  LoopInv'
  <1>1. CASE FetchRider
    <2>1. /\ loop = "fetch"
          /\ UNCHANGED <<at, tries, waiting, batchCh, pending, plan, cands, pick, held,
                         lock, ttl, assigned, trips, rivals>>
      BY <1>1 DEF FetchRider, handlers, redis, holding
    <2>2. k \in 1..Len(pending) /\ Len(pending) \in Nat /\ pending[k] \in Req /\ pending # << >>
      BY <2>1, RiderAtHand
    <2>3. Found'
      <3> DEFINE near == NearbyOf(pending[k])
      <3>1. near \subseteq Driver
        BY DEF NearbyOf
      <3>2. CASE found' = [d \in near \union DOMAIN found |->
                              IF d \in near THEN Dist(pending[k], d) ELSE found[d]]
        BY <2>2, <3>1, <3>2, Distances DEF LoopInv, Found
      <3>3. CASE found' = found
        BY <3>3 DEF LoopInv, Found
      <3> QED BY <1>1, <3>2, <3>3 DEF FetchRider
    <2>4. Position' /\ LoopTypes' /\ loop' \in {"fetch", "plan"}
      <3>1. CASE k < Len(pending)
        <4>1. k' = k + 1 /\ loop' = "fetch" /\ k' \in 1..Len(pending)
          BY <1>1, <2>1, <2>2, <3>1 DEF FetchRider
        <4> QED BY <2>1, <4>1 DEF Position, LoopTypes
      <3>2. CASE ~ (k < Len(pending))
        <4>1. k' = 1 /\ loop' = "plan" /\ k' \in 1..Len(pending)
          BY <1>1, <2>2, <3>2 DEF FetchRider
        <4> QED BY <2>1, <4>1 DEF Position, LoopTypes
      <3> QED BY <3>1, <3>2
    <2>5. Planned'
      <3>1. DOMAIN plan = {}
        BY <2>1 DEF LoopInv, Planned, Acting, Holding
      <3> QED BY <2>1, <2>4, <3>1 DEF Planned, Acting, Holding
    <2>6. Picked'
      BY <2>1, <2>4 DEF LoopInv, Picked, Holding
    <2> QED BY <2>1, <2>3, <2>4, <2>5, <2>6 DEF LoopInv, QueueTypes, RedisTypes, Candidates
  <1>2. CASE NobodyFound
    <2>1. /\ loop' = "select" /\ k' = 1 /\ pending' = << >> /\ plan' = << >> /\ found' = << >>
          /\ UNCHANGED <<at, tries, waiting, batchCh, cands, pick, held, lock, ttl,
                         assigned, trips, rivals>>
      BY <1>2 DEF NobodyFound, BatchDone, handlers, redis, holding
    <2>2. LoopTypes' /\ Position' /\ Found' /\ Planned'
      BY <2>1 DEF LoopTypes, Position, Found, Planned, Acting, Holding
    <2>3. Picked'
      BY <2>1 DEF LoopInv, Picked, Holding
    <2> QED BY <2>1, <2>2, <2>3 DEF LoopInv, QueueTypes, RedisTypes, Candidates
  <1> QED BY <1>1, <1>2

\* What Optimal returns is read back as drivers that were found.
LEMMA SolveStep ==
    ASSUME LoopInv, Solve
    PROVE  LoopInv'
  <1> DEFINE drivers == SetToSeq(DOMAIN found)
             cost == [j \in DOMAIN pending |-> [m \in DOMAIN drivers |-> Dist(pending[j], drivers[m])]]
             Read(a) == [j \in DOMAIN pending |-> IF a[j] = 0 THEN None ELSE drivers[a[j]]]
  <1>1. /\ loop = "plan" /\ loop' = "claim" /\ \E a \in Best(cost, Len(drivers)) : plan' = Read(a)
        /\ UNCHANGED <<at, tries, waiting, batchCh, pending, k, found, cands, pick, held, lock, ttl,
                       assigned, trips, rivals>>
    BY DEF Solve, handlers, redis, holding
  <1>2. PICK a \in Best(cost, Len(drivers)) : plan' = Read(a)
    BY <1>1
  <1>3. DOMAIN found \subseteq Driver
    BY DEF LoopInv, Found
  <1>4. /\ drivers \in [1..Cardinality(DOMAIN found) -> DOMAIN found]
        /\ Cardinality(DOMAIN found) \in Nat /\ Len(drivers) = Cardinality(DOMAIN found)
    BY <1>3, DriverList
  <1>5. a \in [DOMAIN pending -> 0..Len(drivers)]
    <2>1. a \in [Riders(cost) -> 0..Len(drivers)]
      BY DEF Best, Fullest, Assignments
    <2>2. Riders(cost) = DOMAIN pending
      BY DEF Riders
    <2> QED BY <2>1, <2>2
  <1> HIDE DEF drivers
  <1>6. \A j \in DOMAIN pending : plan'[j] \in DOMAIN found \union {None}
    <2> SUFFICES ASSUME NEW j \in DOMAIN pending PROVE plan'[j] \in DOMAIN found \union {None}
      OBVIOUS
    <2>1. a[j] \in 0..Len(drivers) /\ plan'[j] = IF a[j] = 0 THEN None ELSE drivers[a[j]]
      BY <1>2, <1>5
    <2>2. a[j] # 0 => a[j] \in 1..Cardinality(DOMAIN found)
      BY <1>4, <2>1
    <2> QED BY <1>4, <2>1, <2>2
  <1>7. DOMAIN plan' = DOMAIN pending
    BY <1>2
  <1>8. Planned'
    BY <1>1, <1>6, <1>7 DEF Planned, Acting
  <1>9. LoopTypes' /\ Position'
    BY <1>1 DEF LoopInv, LoopTypes, Position, Acting
  <1>10. Picked'
    BY <1>1 DEF LoopInv, Picked, Holding
  <1> QED BY <1>1, <1>8, <1>9, <1>10 DEF LoopInv, QueueTypes, RedisTypes, Found, Candidates

\* Acting on the plan, rider by rider.
LEMMA ClaimStep ==
    ASSUME LoopInv, SkipRider \/ ClaimPlanned \/ PlanRefused
    PROVE  LoopInv'
  <1>1. CASE SkipRider
    <2>1. /\ loop = "claim" /\ NextRider
          /\ UNCHANGED <<at, tries, waiting, batchCh, cands, pick, held, lock, ttl,
                         assigned, trips, rivals>>
      BY <1>1 DEF SkipRider, handlers, redis, holding
    <2>2. /\ LoopTypes' /\ Position' /\ Found' /\ Planned' /\ pending' \in Seq(Req)
          /\ loop' \in {"claim", "select"}
      BY <2>1, NextRiderTypes DEF Acting
    <2>3. Picked'
      BY <2>1, <2>2 DEF LoopInv, Picked, Holding
    <2> QED BY <2>1, <2>2, <2>3 DEF LoopInv, QueueTypes, RedisTypes, Candidates
  <1>2. ASSUME loop = "claim", plan[k] # None
        PROVE  plan[k] \in Driver /\ found[plan[k]] \in Nat
    <2>1. k \in 1..Len(pending) /\ pending \in Seq(Req)
      BY <1>2, RiderAtHand DEF LoopInv, QueueTypes
    <2>2. k \in DOMAIN plan
      BY <1>2, <2>1 DEF LoopInv, Planned, Acting
    <2>3. plan[k] \in DOMAIN found
      BY <1>2, <2>2 DEF LoopInv, Planned
    <2> QED BY <2>3 DEF LoopInv, Found
  <1>3. CASE ClaimPlanned
    <2>1. /\ loop = "claim" /\ plan[k] # None /\ Claimed(plan[k], found[plan[k]])
          /\ UNCHANGED <<at, tries, waiting, batchCh, pending, k, found, plan, cands,
                         assigned, trips, rivals>>
      BY <1>3 DEF ClaimPlanned, handlers
    <2>2. RedisTypes' /\ LoopTypes' /\ Position' /\ Found' /\ Planned' /\ Picked'
      BY <1>2, <2>1, ClaimedTypes
    <2> QED BY <2>1, <2>2 DEF LoopInv, QueueTypes, Candidates
  <1>4. CASE PlanRefused
    <2>1. /\ loop = "claim" /\ plan[k] # None /\ loop' = "refetch" /\ Refused(plan[k])
          /\ UNCHANGED <<at, tries, waiting, batchCh, pending, k, found, plan, cands,
                         pick, held, assigned, trips, rivals>>
      BY <1>4 DEF PlanRefused, handlers, holding
    <2>2. RedisTypes'
      BY <1>2, <2>1, RefusedTypes
    <2> QED BY <2>1, <2>2 DEF LoopInv, QueueTypes, LoopTypes, Position, Found, Planned,
                              Candidates, Picked, Acting, Holding
  <1> QED BY <1>1, <1>3, <1>4

\* assign().
LEMMA HoldingStep ==
    ASSUME LoopInv, Record \/ Announce
    PROVE  LoopInv'
  <1>1. loop \in Holding /\ pick.d \in Driver /\ pick.dist \in Nat /\ held \in Nat
    BY DEF Record, Announce, LoopInv, Picked, Holding
  <1>2. pending[k] \in Req
    BY <1>1, RiderAtHand DEF Holding
  <1>3. CASE Record
    <2>1. /\ loop = "record" /\ loop' = "route"
          /\ UNCHANGED <<at, tries, waiting, batchCh, pending, k, found, plan, cands,
                         pick, held, lock, ttl, trips, rivals>>
      BY <1>3 DEF Record, handlers, holding
    <2>2. assigned' \in [Req -> Driver \union {None}]
      BY <1>1, <1>2, <1>3 DEF Record, LoopInv, RedisTypes
    <2> QED BY <1>1, <2>1, <2>2 DEF LoopInv, QueueTypes, LoopTypes, RedisTypes, Position,
                                    Found, Planned, Candidates, Picked, Acting, Holding
  <1>4. CASE Announce
    <2>1. /\ loop = "route" /\ NextRider /\ pick' = NoPick /\ held' = 0
          /\ waiting' = waiting \ {pending[k]}
          /\ UNCHANGED <<at, tries, batchCh, cands, lock, ttl, assigned, rivals>>
      BY <1>4 DEF Announce, redis
    <2>2. PICK dur \in MinDur..MaxDur :
             trips' = trips \union {[r |-> pending[k], d |-> pick.d, dist |-> pick.dist,
                                    age |-> held, left |-> dur, live |-> TRUE]}
      BY <1>4 DEF Announce
    <2>3. dur \in 0..MaxDur
      BY BatchAssumption
    <2>4. RedisTypes'
      <3>1. [r |-> pending[k], d |-> pick.d, dist |-> pick.dist,
             age |-> held, left |-> dur, live |-> TRUE]
            \in [r : Req, d : Driver, dist : Nat, age : Nat, left : 0..MaxDur, live : BOOLEAN]
        BY <1>1, <1>2, <2>3
      <3> QED BY <2>1, <2>2, <3>1 DEF LoopInv, RedisTypes
    <2>5. /\ LoopTypes' /\ Position' /\ Found' /\ Planned' /\ pending' \in Seq(Req)
          /\ loop' \in {"claim", "select"}
      BY <1>1, <2>1, NextRiderTypes DEF Acting
    <2>6. Picked'
      BY <2>1, <2>5 DEF Picked, NoPick, Holding
    <2> QED BY <2>1, <2>4, <2>5, <2>6 DEF LoopInv, QueueTypes, Candidates
  <1> QED BY <1>3, <1>4

\* greedyAssign, for a rider whose planned driver was taken.
LEMMA GreedyStep ==
    ASSUME LoopInv, Refetch \/ ClaimNearest \/ PassOver \/ GiveUp
    PROVE  LoopInv'
  <1>1. CASE Refetch
    <2>1. /\ loop = "refetch" /\ loop' = "greedy"
          /\ cands' \in SortedNearby(pending[k]) \/ cands' = << >>
          /\ UNCHANGED <<at, tries, waiting, batchCh, pending, k, found, plan, pick, held,
                         lock, ttl, assigned, trips, rivals>>
      BY <1>1 DEF Refetch, handlers, redis, holding
    <2>2. NearbyOf(pending[k]) \subseteq Driver
      BY DEF NearbyOf
    <2>3. Cardinality(NearbyOf(pending[k])) \in Nat
      BY <2>2, DriverList
    <2>4. Candidates'
      <3>1. CASE cands' \in SortedNearby(pending[k])
        <4>1. cands' \in [1..Cardinality(NearbyOf(pending[k])) -> NearbyOf(pending[k])]
          BY <3>1 DEF SortedNearby, SetToSeqs
        <4>2. cands' \in [1..Cardinality(NearbyOf(pending[k])) -> Driver]
          BY <2>2, <4>1
        <4> QED BY <2>3, <4>2 DEF Candidates
      <3>2. CASE cands' = << >>
        BY <3>2 DEF Candidates
      <3> QED BY <2>1, <3>1, <3>2
    <2> QED BY <2>1, <2>4 DEF LoopInv, QueueTypes, LoopTypes, RedisTypes, Position, Found,
                              Planned, Picked, Acting, Holding
  <1>2. CASE ClaimNearest
    <2>1. /\ loop = "greedy" /\ cands # << >> /\ cands' = << >>
          /\ Claimed(Head(cands), Dist(pending[k], Head(cands)))
          /\ UNCHANGED <<at, tries, waiting, batchCh, pending, k, found, plan, assigned,
                         trips, rivals>>
      BY <1>2 DEF ClaimNearest, handlers
    <2>2. pending[k] \in Req
      BY <2>1, RiderAtHand
    <2>3. Head(cands) \in Driver
      BY <2>1 DEF LoopInv, Candidates
    <2>4. Dist(pending[k], Head(cands)) \in Nat
      BY <2>2, <2>3, Distances
    <2>5. RedisTypes' /\ LoopTypes' /\ Position' /\ Found' /\ Planned' /\ Picked'
      BY <2>1, <2>3, <2>4, ClaimedTypes
    <2>6. Candidates'
      BY <2>1 DEF Candidates
    <2> QED BY <2>1, <2>5, <2>6 DEF LoopInv, QueueTypes
  <1>3. CASE PassOver
    <2>1. /\ loop = "greedy" /\ cands # << >> /\ cands' = Tail(cands) /\ Refused(Head(cands))
          /\ UNCHANGED <<at, tries, waiting, batchCh, pending, loop, k, found, plan, pick,
                         held, assigned, trips, rivals>>
      BY <1>3 DEF PassOver, handlers, holding
    <2>2. Candidates' /\ Head(cands) \in Driver
      BY <2>1 DEF LoopInv, Candidates
    <2>3. RedisTypes'
      BY <2>1, <2>2, RefusedTypes
    <2> QED BY <2>1, <2>2, <2>3 DEF LoopInv, QueueTypes, LoopTypes, Position, Found,
                                    Planned, Picked
  <1>4. CASE GiveUp
    <2>1. /\ loop = "greedy" /\ NextRider
          /\ UNCHANGED <<at, tries, waiting, batchCh, cands, pick, held, lock, ttl,
                         assigned, trips, rivals>>
      BY <1>4 DEF GiveUp, handlers, redis, holding
    <2>2. /\ LoopTypes' /\ Position' /\ Found' /\ Planned' /\ pending' \in Seq(Req)
          /\ loop' \in {"claim", "select"}
      BY <2>1, NextRiderTypes DEF Acting
    <2>3. Picked'
      BY <2>1, <2>2 DEF LoopInv, Picked, Holding
    <2> QED BY <2>1, <2>2, <2>3 DEF LoopInv, QueueTypes, RedisTypes, Candidates
  <1> QED BY <1>1, <1>2, <1>3, <1>4

\* Trips end and rivals come and go.
LEMMA ElsewhereStep ==
    ASSUME LoopInv, Elsewhere
    PROVE  LoopInv'
  <1>1. UNCHANGED <<at, tries, waiting, batchCh, pending, loop, k, found, plan, cands, pick, held>>
    BY DEF Elsewhere, TripEnds, RivalClaims, RivalReleases, handlers, loopVars, holding
  <1>2. RedisTypes'
    <2>1. ASSUME NEW t \in trips, TripEnds(t) PROVE RedisTypes'
      <3>1. 0 \in 0..LockTTL
        BY BatchAssumption
      <3>2. lock' \in [Driver -> Req \union {None, Rival}] /\ ttl' \in [Driver -> 0..LockTTL]
        BY <2>1, <3>1 DEF TripEnds, LoopInv, RedisTypes
      <3>3. assigned' \in [Req -> Driver \union {None}]
        BY <2>1 DEF TripEnds, LoopInv, RedisTypes
      <3>4. trips' \subseteq trips /\ UNCHANGED rivals
        BY <2>1 DEF TripEnds
      <3> QED BY <3>2, <3>3, <3>4 DEF LoopInv, RedisTypes
    <2>2. ASSUME NEW d \in Driver, RivalClaims(d) PROVE RedisTypes'
      <3>1. rivals \in 0..MaxRival /\ rivals < MaxRival /\ rivals' = rivals + 1
        BY <2>2 DEF RivalClaims, LoopInv, RedisTypes
      <3>2. rivals' \in 0..MaxRival
        BY <3>1, BatchAssumption
      <3> QED BY <2>2, <3>2, BatchAssumption DEF RivalClaims, SetNX, LoopInv, RedisTypes
    <2>3. ASSUME NEW d \in Driver, RivalReleases(d) PROVE RedisTypes'
      BY <2>3, BatchAssumption DEF RivalReleases, LoopInv, RedisTypes
    <2> QED BY <2>1, <2>2, <2>3 DEF Elsewhere
  <1> QED BY <1>1, <1>2
    DEF LoopInv, QueueTypes, LoopTypes, Position, Found, Planned, Candidates, Picked

\* A crash, and time.
LEMMA CrashTickStep ==
    ASSUME LoopInv, Crash \/ Tick
    PROVE  LoopInv'
  <1>1. CASE Crash
    <2>1. /\ at' = [r \in Req |-> "idle"] /\ batchCh' = << >> /\ loop' = "select" /\ k' = 1
          /\ pending' = << >> /\ plan' = << >> /\ found' = << >> /\ cands' = << >>
          /\ pick' = NoPick /\ held' = 0
          /\ UNCHANGED <<tries, waiting, lock, ttl, assigned, rivals>>
      BY <1>1 DEF Crash, BatchDone, redis
    <2>2. QueueTypes'
      <3>1. batchCh' \in Seq(Req) /\ pending' \in Seq(Req) /\ Len(batchCh') = 0
        BY <2>1
      <3>2. at' \in [Req -> {"idle", "check", "enqueue"}]
        BY <2>1
      <3>3. 0 <= ChanCap
        BY BatchAssumption
      <3> QED BY <2>1, <3>1, <3>2, <3>3 DEF LoopInv, QueueTypes
    <2>3. RedisTypes'
      <3>1. ASSUME NEW t \in trips
            PROVE  [t EXCEPT !.live = FALSE, !.age = 0]
                   \in [r : Req, d : Driver, dist : Nat,
                        age : Nat, left : 0..MaxDur, live : BOOLEAN]
        BY DEF LoopInv, RedisTypes
      <3>2. trips' \subseteq [r : Req, d : Driver, dist : Nat,
                              age : Nat, left : 0..MaxDur, live : BOOLEAN]
        BY <1>1, <3>1 DEF Crash
      <3> QED BY <2>1, <3>2 DEF LoopInv, RedisTypes
    <2>4. LoopTypes' /\ Position' /\ Candidates'
      BY <2>1 DEF LoopTypes, Position, Candidates
    <2>6. Picked'
      BY <2>1 DEF Picked, NoPick, Holding
    <2>5. Found' /\ Planned'
      BY <2>1 DEF Found, Planned, Acting, Holding
    <2> QED BY <2>2, <2>3, <2>4, <2>5, <2>6 DEF LoopInv
  <1>2. CASE Tick
    <2>1. UNCHANGED <<at, tries, waiting, batchCh, pending, loop, k, found, plan, cands, pick,
                      assigned, rivals>>
      BY <1>2 DEF Tick, handlers
    <2>2. lock' \in [Driver -> Req \union {None, Rival}] /\ ttl' \in [Driver -> 0..LockTTL]
      <3>1. /\ ttl' = [d \in Driver |-> IF ttl[d] > 0 THEN ttl[d] - 1 ELSE 0]
            /\ lock' = [d \in Driver |-> IF ttl[d] > 1 THEN lock[d] ELSE None]
        BY <1>2 DEF Tick
      <3>2. /\ lock \in [Driver -> Req \union {None, Rival}] /\ ttl \in [Driver -> 0..LockTTL]
            /\ LockTTL \in Nat
        BY BatchAssumption DEF LoopInv, RedisTypes
      <3> QED BY <3>1, <3>2
    <2>3. trips' \subseteq [r : Req, d : Driver, dist : Nat,
                           age : Nat, left : 0..MaxDur, live : BOOLEAN]
      <3>1. ASSUME NEW t \in trips
            PROVE  [t EXCEPT !.age = IF t.live THEN @ + 1 ELSE 0,
                             !.left = IF @ > 0 THEN @ - 1 ELSE 0]
                   \in [r : Req, d : Driver, dist : Nat,
                        age : Nat, left : 0..MaxDur, live : BOOLEAN]
        <4>1. /\ t \in [r : Req, d : Driver, dist : Nat,
                        age : Nat, left : 0..MaxDur, live : BOOLEAN]
              /\ MaxDur \in Nat
          BY BatchAssumption DEF LoopInv, RedisTypes
        <4>2. (IF t.live THEN t.age + 1 ELSE 0) \in Nat
          BY <4>1
        <4>3. (IF t.left > 0 THEN t.left - 1 ELSE 0) \in 0..MaxDur
          BY <4>1
        <4> QED BY <4>1, <4>2, <4>3
      <3> QED BY <1>2, <3>1 DEF Tick
    <2>4. held' \in Nat
      <3>1. held \in Nat /\ held' = IF loop \in Holding THEN held + 1 ELSE held
        BY <1>2 DEF Tick, LoopInv, Picked
      <3> QED BY <3>1
    <2> QED BY <2>1, <2>2, <2>3, <2>4 DEF LoopInv, QueueTypes, LoopTypes, RedisTypes, Position,
                                          Found, Planned, Candidates, Picked
  <1> QED BY <1>1, <1>2

\* Every step.
LEMMA LoopInvStep == LoopInv /\ [Next]_vars => LoopInv'
  <1> SUFFICES ASSUME LoopInv, [Next]_vars PROVE LoopInv'
    OBVIOUS
  <1>1. CASE UNCHANGED vars
    BY <1>1 DEF vars, LoopInv, QueueTypes, LoopTypes, RedisTypes, Position, Found, Planned,
                Candidates, Picked
  <1>2. CASE Next
    BY <1>2, HandlerStep, SelectStep, FetchStep, SolveStep, ClaimStep, HoldingStep, GreedyStep,
       ElsewhereStep, CrashTickStep
    DEF Next, SolveBatch
  <1> QED BY <1>1, <1>2

\* The types hold in every state.
LEMMA LoopInvHolds == Spec => []LoopInv
  BY InitLoopInv, LoopInvStep, PTL DEF Spec

\* batchLoop, its channel, its plan and what it keeps in Redis are typed: it goes
\* through its batch and no further, and plans drivers only.
THEOREM BatchTypeCorrect == Spec => []TypeOK
  <1>1. LoopInv => TypeOK
    <2> SUFFICES ASSUME LoopInv PROVE TypeOK
      OBVIOUS
    <2>1. k \in 1..(Len(pending) + 1)
      <3>1. Len(pending) \in Nat
        BY DEF LoopInv, QueueTypes
      <3> QED BY <3>1 DEF LoopInv, Position
    <2>2. \A j \in DOMAIN plan : plan[j] \in Driver \union {None}
      BY DEF LoopInv, Planned, Found
    <2> QED BY <2>1, <2>2 DEF LoopInv, QueueTypes, LoopTypes, RedisTypes, Found, Candidates,
                              Picked, Acting, TypeOK
  <1> QED BY <1>1, LoopInvHolds, PTL

-------------------------------------------------------------------------------
(* Trips and locks.  As in MatcherProofs the invariant compares the clocks:  *)
(* how long a driver has been held, and what its key has left.               *)

\* A key is there exactly while it has time to live.
KeysHaveValues == \A d \in Driver : (ttl[d] = 0) <=> (lock[d] = None)

\* The driver at hand is locked for the rider at hand, in time, and on no trip.
Owned == loop \in Holding =>
    /\ lock[pick.d] = pending[k] /\ ttl[pick.d] = LockTTL - held
    /\ held <= RouteMax
    /\ \A t \in trips : t.d # pick.d

\* The key of a trip has as long to live as its goroutine can take; without a
\* goroutine, longer than the trip.
Covered(t) ==
    /\ lock[t.d] = t.r
    /\ t.live => ttl[t.d] = LockTTL - t.age /\ t.age + t.left <= HoldMax
    /\ ~ t.live => 0 < t.left /\ t.left < ttl[t.d]

HoldInv == /\ KeysHaveValues /\ Owned
           /\ \A t \in trips : Covered(t)
           /\ \A t, s \in trips : t.d = s.d => t = s

\* What a trip is.
LEMMA TripTypes ==
    ASSUME LoopInv, NEW t \in trips
    PROVE  /\ t.r \in Req /\ t.d \in Driver /\ t.age \in Nat /\ t.left \in Nat
           /\ t.live \in BOOLEAN /\ ttl[t.d] \in Nat
  BY BatchAssumption DEF LoopInv, RedisTypes

\* The bounds are numbers.
LEMMA BatchBounds == RouteMax \in Nat /\ MaxDur \in Nat /\ HoldMax \in Nat /\ LockTTL \in Nat
                     /\ HoldMax = RouteMax + MaxDur
  BY BatchAssumption DEF HoldMax

\* Drivers at hand or on a trip are locked, so SET NX takes none of them.
LEMMA TiedUpIsLocked ==
    ASSUME LoopInv, HoldInv
    PROVE  /\ \A t \in trips : lock[t.d] # None
           /\ loop \in Holding => lock[pick.d] # None
  <1>1. \A t \in trips : t.r # None /\ lock[t.d] = t.r
    BY TripTypes, BatchAssumption DEF HoldInv, Covered
  <1>2. ASSUME loop \in Holding PROVE lock[pick.d] # None
    <2>1. pending[k] \in Req
      BY <1>2, RiderAtHand DEF Holding
    <2> QED BY <1>2, <2>1, BatchAssumption DEF HoldInv, Owned
  <1> QED BY <1>1, <1>2

\* SET NX changes nothing for those who have their driver.
LEMMA SetNXHolds ==
    ASSUME LoopInv, HoldInv, NEW d \in Driver, NEW r \in Req \union {Rival}, SetNX(d, r),
           UNCHANGED trips
    PROVE  /\ KeysHaveValues' /\ \A t \in trips' : Covered(t)'
           /\ \A t \in trips : t.d # d
           /\ loop \in Holding =>
                 pick.d # d /\ lock'[pick.d] = lock[pick.d] /\ ttl'[pick.d] = ttl[pick.d]
  <1>1. /\ lock[d] = None /\ lock' = [lock EXCEPT ![d] = r] /\ ttl' = [ttl EXCEPT ![d] = LockTTL]
    BY DEF SetNX
  <1>2. /\ lock \in [Driver -> Req \union {None, Rival}] /\ ttl \in [Driver -> 0..LockTTL]
        /\ r # None /\ LockTTL # 0
    BY BatchAssumption DEF LoopInv, RedisTypes
  <1>3. KeysHaveValues'
    BY <1>1, <1>2 DEF HoldInv, KeysHaveValues
  <1>4. \A t \in trips : t.d # d /\ t.d \in Driver
    BY <1>1, TiedUpIsLocked, TripTypes
  <1>5. \A t \in trips' : Covered(t)'
    BY <1>1, <1>2, <1>4 DEF HoldInv, Covered
  <1>6. ASSUME loop \in Holding
        PROVE  pick.d # d /\ lock'[pick.d] = lock[pick.d] /\ ttl'[pick.d] = ttl[pick.d]
    <2>1. pick.d # d /\ pick.d \in Driver
      BY <1>1, <1>6, TiedUpIsLocked DEF LoopInv, Picked
    <2> QED BY <1>1, <1>2, <2>1
  <1> QED BY <1>3, <1>4, <1>5, <1>6

\* Steps that touch no key, no trip and no clock.
LEMMA HoldQuiet ==
    ASSUME HoldInv, UNCHANGED <<lock, ttl, trips>>,
           loop' \notin Holding \/ (loop \in Holding /\ UNCHANGED <<pick, held, pending, k>>)
    PROVE  HoldInv'
  <1>1. KeysHaveValues' /\ Owned'
    BY DEF HoldInv, KeysHaveValues, Owned
  <1>2. (\A t \in trips' : Covered(t)') /\ \A t, s \in trips' : t.d = s.d => t = s
    BY DEF HoldInv, Covered
  <1> QED BY <1>1, <1>2 DEF HoldInv

\* A driver is claimed.
LEMMA ClaimedHolds ==
    ASSUME LoopInv, HoldInv, loop \in {"claim", "greedy"}, NEW d \in Driver, NEW dist,
           Claimed(d, dist), UNCHANGED <<pending, k, trips>>
    PROVE  HoldInv'
  <1>1. /\ SetNX(d, pending[k]) /\ loop' = "record" /\ pick' = [d |-> d, dist |-> dist]
        /\ held' = 0
    BY DEF Claimed
  <1>2. pending[k] \in Req
    BY RiderAtHand
  <1>3. /\ KeysHaveValues' /\ \A t \in trips' : Covered(t)'
        /\ \A t \in trips : t.d # d
    BY <1>1, <1>2, SetNXHolds
  <1>4. lock'[d] = pending[k] /\ ttl'[d] = LockTTL
    BY <1>1 DEF SetNX, LoopInv, RedisTypes
  <1>5. pick'.d = d
    BY <1>1
  <1>6. Owned'
    BY <1>1, <1>3, <1>4, <1>5, BatchBounds DEF Owned
  <1> QED BY <1>3, <1>6 DEF HoldInv

\* A claim is refused, its key set or not.
LEMMA RefusedHolds ==
    ASSUME LoopInv, HoldInv, loop \in {"claim", "greedy"}, NEW d \in Driver, Refused(d),
           UNCHANGED trips, loop' \notin Holding
    PROVE  HoldInv'
  <1>1. pending[k] \in Req
    BY RiderAtHand
  <1>2. CASE UNCHANGED <<lock, ttl>>
    BY <1>2, HoldQuiet
  <1>3. CASE SetNX(d, pending[k])
    <2>1. KeysHaveValues' /\ \A t \in trips' : Covered(t)'
      BY <1>1, <1>3, SetNXHolds
    <2>2. Owned'
      BY DEF Owned
    <2> QED BY <2>1, <2>2 DEF HoldInv
  <1> QED BY <1>2, <1>3 DEF Refused

\* The driver at hand goes on its trip.
LEMMA AnnounceHolds ==
    ASSUME LoopInv, HoldInv, Announce
    PROVE  HoldInv'
  <1>1. /\ loop \in Holding /\ NextRider /\ UNCHANGED <<lock, ttl>>
    BY DEF Announce, Holding, redis
  <1>2. \E new : /\ trips' = trips \union {new} /\ new.r = pending[k] /\ new.d = pick.d
                 /\ new.age = held /\ new.left \in MinDur..MaxDur /\ new.live = TRUE
    <2>1. PICK dur \in MinDur..MaxDur :
             trips' = trips \union {[r |-> pending[k], d |-> pick.d, dist |-> pick.dist,
                                    age |-> held, left |-> dur, live |-> TRUE]}
      BY DEF Announce
    <2> WITNESS [r |-> pending[k], d |-> pick.d, dist |-> pick.dist,
                 age |-> held, left |-> dur, live |-> TRUE]
    <2> QED BY <2>1
  <1>3. PICK new : /\ trips' = trips \union {new} /\ new.r = pending[k] /\ new.d = pick.d
                   /\ new.age = held /\ new.left \in MinDur..MaxDur /\ new.live = TRUE
    BY <1>2
  <1>4. new.left \in Nat /\ new.left <= MaxDur /\ held \in Nat
    BY <1>3, BatchAssumption DEF LoopInv, Picked
  <1>5. /\ lock[pick.d] = pending[k] /\ ttl[pick.d] = LockTTL - held /\ held <= RouteMax
        /\ \A t \in trips : t.d # pick.d
    BY <1>1 DEF HoldInv, Owned
  <1>6. held + new.left <= HoldMax
    BY <1>4, <1>5, BatchBounds
  <1>8. Covered(new)'
    BY <1>1, <1>3, <1>5, <1>6 DEF Covered
  <1>9. \A t \in trips : Covered(t)'
    BY <1>1 DEF HoldInv, Covered
  <1>10. \A t, s \in trips' : t.d = s.d => t = s
    BY <1>3, <1>5 DEF HoldInv
  <1>11. loop' \notin Holding
    BY <1>1 DEF NextRider, BatchDone, Holding
  <1>12. KeysHaveValues' /\ Owned'
    BY <1>1, <1>11 DEF HoldInv, KeysHaveValues, Owned
  <1>13. \A t \in trips' : Covered(t)'
    BY <1>3, <1>8, <1>9
  <1> QED BY <1>10, <1>12, <1>13 DEF HoldInv

\* The goroutine of a trip deletes the key of a driver that no other trip has
\* and that is not at hand.
LEMMA TripEndHolds ==
    ASSUME LoopInv, HoldInv, NEW t \in trips, TripEnds(t)
    PROVE  HoldInv'
  <1>1. /\ trips' = trips \ {t} /\ UNCHANGED <<pending, loop, k, pick, held>>
        /\ \/ lock' = [lock EXCEPT ![t.d] = None] /\ ttl' = [ttl EXCEPT ![t.d] = 0]
           \/ UNCHANGED <<lock, ttl>>
    BY DEF TripEnds, loopVars, holding
  <1>2. /\ lock \in [Driver -> Req \union {None, Rival}] /\ ttl \in [Driver -> 0..LockTTL]
        /\ t.d \in Driver /\ \A s \in trips : s.d \in Driver
    BY TripTypes DEF LoopInv, RedisTypes
  <1>3. \A e \in Driver : e # t.d => lock'[e] = lock[e] /\ ttl'[e] = ttl[e]
    BY <1>1, <1>2
  <1>4. \A s \in trips' : s \in trips /\ s.d # t.d
    BY <1>1 DEF HoldInv
  <1>5. \A s \in trips' : Covered(s)'
    BY <1>2, <1>3, <1>4 DEF HoldInv, Covered
  <1>6. KeysHaveValues'
    BY <1>1, <1>2 DEF HoldInv, KeysHaveValues
  <1>7. Owned'
    <2> SUFFICES ASSUME loop \in Holding PROVE Owned'
      BY <1>1 DEF Owned
    <2>1. pick.d \in Driver /\ pick.d # t.d
      BY DEF LoopInv, Picked, HoldInv, Owned
    <2> QED BY <1>1, <1>3, <1>4, <2>1 DEF HoldInv, Owned
  <1> QED BY <1>4, <1>5, <1>6, <1>7 DEF HoldInv

\* Rivals take free drivers and give back their own.
LEMMA RivalHolds ==
    ASSUME LoopInv, HoldInv, NEW d \in Driver, RivalClaims(d) \/ RivalReleases(d)
    PROVE  HoldInv'
  <1>1. UNCHANGED <<pending, loop, k, pick, held, trips>>
    BY DEF RivalClaims, RivalReleases, loopVars, holding
  <1>2. CASE RivalClaims(d)
    <2>1. SetNX(d, Rival)
      BY <1>2 DEF RivalClaims
    <2>2. /\ KeysHaveValues' /\ \A t \in trips' : Covered(t)'
          /\ loop \in Holding => lock'[pick.d] = lock[pick.d] /\ ttl'[pick.d] = ttl[pick.d]
      BY <1>1, <2>1, SetNXHolds
    <2>3. Owned'
      BY <1>1, <2>2 DEF HoldInv, Owned
    <2> QED BY <1>1, <2>2, <2>3 DEF HoldInv
  <1>3. CASE RivalReleases(d)
    <2>1. /\ lock[d] = Rival /\ lock' = [lock EXCEPT ![d] = None] /\ ttl' = [ttl EXCEPT ![d] = 0]
      BY <1>3 DEF RivalReleases
    <2>2. lock \in [Driver -> Req \union {None, Rival}] /\ ttl \in [Driver -> 0..LockTTL]
      BY DEF LoopInv, RedisTypes
    <2>3. \A t \in trips : t.d \in Driver /\ t.d # d
      BY <2>1, TripTypes, BatchAssumption DEF HoldInv, Covered
    <2>4. KeysHaveValues' /\ \A t \in trips' : Covered(t)'
      BY <1>1, <2>1, <2>2, <2>3 DEF HoldInv, KeysHaveValues, Covered
    <2>5. Owned'
      <3> SUFFICES ASSUME loop \in Holding PROVE Owned'
        BY <1>1 DEF Owned
      <3>1. pending[k] \in Req /\ pick.d \in Driver
        BY RiderAtHand DEF Holding, LoopInv, Picked
      <3>2. pick.d # d
        BY <2>1, <3>1, BatchAssumption DEF HoldInv, Owned
      <3> QED BY <1>1, <2>1, <2>2, <3>1, <3>2 DEF HoldInv, Owned
    <2> QED BY <1>1, <2>4, <2>5 DEF HoldInv
  <1> QED BY <1>2, <1>3

\* A crash leaves trips whose keys, by Timely, outlive them.
LEMMA CrashHolds ==
    ASSUME Timely, LoopInv, HoldInv, Crash
    PROVE  HoldInv'
  <1> DEFINE Left(t) == [t EXCEPT !.live = FALSE, !.age = 0]
  <1>1. /\ trips' = {Left(t) : t \in {t \in trips : t.left > 0}}
        /\ loop' = "select" /\ UNCHANGED <<lock, ttl>>
    BY DEF Crash, BatchDone, redis
  <1>2. \A t \in trips : Left(t).r = t.r /\ Left(t).d = t.d /\ Left(t).left = t.left /\ ~ Left(t).live
    BY DEF LoopInv, RedisTypes
  <1>3. ASSUME NEW t \in trips, t.left > 0 PROVE t.left < ttl[t.d] /\ lock[t.d] = t.r
    <2>1. Covered(t)
      BY DEF HoldInv
    <2> QED BY <1>3, <2>1, TripTypes, BatchBounds DEF Covered, Timely
  <1> HIDE DEF Left
  <1>4. \A t \in trips' : Covered(t)'
    BY <1>1, <1>2, <1>3 DEF Covered
  <1>5. \A t, s \in trips' : t.d = s.d => t = s
    BY <1>1, <1>2 DEF HoldInv
  <1>6. KeysHaveValues' /\ Owned'
    BY <1>1 DEF HoldInv, KeysHaveValues, Owned, Holding
  <1> QED BY <1>4, <1>5, <1>6 DEF HoldInv

\* Time takes no key from a driver that is tied up.
LEMMA TickHolds ==
    ASSUME Timely, LoopInv, HoldInv, Tick
    PROVE  HoldInv'
  <1> DEFINE Older(t) == [t EXCEPT !.age = IF t.live THEN @ + 1 ELSE 0,
                                   !.left = IF @ > 0 THEN @ - 1 ELSE 0]
  <1>1. /\ trips' = {Older(t) : t \in {t \in trips : t.live \/ t.left > 1}}
        /\ UNCHANGED <<pending, loop, k, pick>>
        /\ ttl' = [d \in Driver |-> IF ttl[d] > 0 THEN ttl[d] - 1 ELSE 0]
        /\ lock' = [d \in Driver |-> IF ttl[d] > 1 THEN lock[d] ELSE None]
        /\ \A t \in trips : (t.live /\ t.left = 0) => t.age < HoldMax
        /\ loop \in Holding => held < RouteMax /\ held' = held + 1
    BY DEF Tick
  <1>2. \A t \in trips :
           /\ Older(t).r = t.r /\ Older(t).d = t.d /\ Older(t).live = t.live
           /\ Older(t).age = IF t.live THEN t.age + 1 ELSE 0
           /\ Older(t).left = IF t.left > 0 THEN t.left - 1 ELSE 0
    BY DEF LoopInv, RedisTypes
  <1>3. ttl \in [Driver -> 0..LockTTL] /\ LockTTL \in Nat
    BY BatchBounds DEF LoopInv, RedisTypes
  <1> HIDE DEF Older
  <1>4. ASSUME NEW t \in trips, t.live \/ t.left > 1 PROVE Covered(Older(t))'
    <2>1. /\ t.d \in Driver /\ t.age \in Nat /\ t.left \in Nat /\ ttl[t.d] \in Nat
          /\ t.live \in BOOLEAN
      BY TripTypes
    <2>2. Covered(t)
      BY DEF HoldInv
    <2>3. CASE t.live
      <3>1. /\ ttl[t.d] = LockTTL - t.age /\ t.age + t.left <= HoldMax /\ lock[t.d] = t.r
            /\ t.left = 0 => t.age < HoldMax
        BY <1>1, <2>2, <2>3 DEF Covered
      <3>2. t.age < HoldMax
        <4>1. CASE t.left = 0
          BY <3>1, <4>1
        <4>2. CASE t.left > 0
          BY <2>1, <3>1, <4>2, BatchBounds
        <4> QED BY <2>1, <4>1, <4>2
      <3>3. ttl[t.d] > 1
        BY <2>1, <3>1, <3>2, BatchBounds DEF Timely
      <3>4. lock'[t.d] = t.r /\ ttl'[t.d] = LockTTL - (t.age + 1)
        BY <1>1, <1>3, <2>1, <3>1, <3>3
      <3>5. (t.age + 1) + (IF t.left > 0 THEN t.left - 1 ELSE 0) <= HoldMax
        BY <2>1, <3>1, <3>2, BatchBounds
      <3> QED BY <1>2, <2>3, <3>4, <3>5 DEF Covered
    <2>4. CASE ~ t.live
      <3>1. t.left > 1 /\ t.left < ttl[t.d] /\ lock[t.d] = t.r
        BY <1>4, <2>2, <2>4 DEF Covered
      <3>2. lock'[t.d] = t.r /\ ttl'[t.d] = ttl[t.d] - 1
        BY <1>1, <1>3, <2>1, <3>1
      <3>3. 0 < t.left - 1 /\ t.left - 1 < ttl[t.d] - 1
        BY <2>1, <3>1
      <3> QED BY <1>2, <2>1, <2>4, <3>1, <3>2, <3>3 DEF Covered
    <2> QED BY <2>1, <2>3, <2>4
  <1>5. \A t, s \in trips' : t.d = s.d => t = s
    BY <1>1, <1>2 DEF HoldInv
  <1>6. KeysHaveValues'
    BY <1>1, <1>3 DEF HoldInv, KeysHaveValues
  <1>7. Owned'
    <2> SUFFICES ASSUME loop \in Holding PROVE Owned'
      BY <1>1 DEF Owned
    <2>1. pick.d \in Driver /\ held \in Nat
      BY DEF LoopInv, Picked
    <2>2. /\ lock[pick.d] = pending[k] /\ ttl[pick.d] = LockTTL - held /\ held < RouteMax
          /\ held' = held + 1
      BY <1>1 DEF HoldInv, Owned
    <2>3. ttl[pick.d] > 1
      BY <2>1, <2>2, BatchBounds DEF Timely
    <2>4. lock'[pick.d] = pending[k] /\ ttl'[pick.d] = LockTTL - held'
      BY <1>1, <1>3, <2>1, <2>2, <2>3
    <2>5. \A t \in trips' : t.d # pick.d
      BY <1>1, <1>2 DEF HoldInv, Owned
    <2>6. held' <= RouteMax
      BY <2>1, <2>2, BatchBounds
    <2> QED BY <1>1, <2>4, <2>5, <2>6 DEF Owned
  <1> QED BY <1>1, <1>4, <1>5, <1>6, <1>7 DEF HoldInv

\* Every step keeps the clocks together.
LEMMA HoldInvStep ==
    ASSUME Timely, LoopInv, HoldInv, [Next]_vars
    PROVE  HoldInv'
  <1>1. CASE ClaimPlanned \/ PlanRefused
    <2>1. loop = "claim" /\ plan[k] # None /\ UNCHANGED <<pending, k, trips>>
      BY <1>1 DEF ClaimPlanned, PlanRefused
    <2>2. plan[k] \in Driver
      <3>1. k \in DOMAIN pending
        BY <2>1, RiderAtHand DEF LoopInv, QueueTypes
      <3>2. k \in DOMAIN plan
        BY <2>1, <3>1 DEF LoopInv, Planned, Acting
      <3> QED BY <2>1, <3>2 DEF LoopInv, Planned, Found
    <2>3. CASE ClaimPlanned
      BY <2>1, <2>2, <2>3, ClaimedHolds DEF ClaimPlanned
    <2>4. CASE PlanRefused
      <3>1. loop' \notin Holding /\ Refused(plan[k])
        BY <2>4 DEF PlanRefused, Holding
      <3> QED BY <2>1, <2>2, <3>1, RefusedHolds
    <2> QED BY <1>1, <2>3, <2>4
  <1>2. CASE ClaimNearest \/ PassOver
    <2>1. loop = "greedy" /\ cands # << >> /\ UNCHANGED <<pending, k, trips>>
      BY <1>2 DEF ClaimNearest, PassOver
    <2>2. Head(cands) \in Driver
      BY <2>1 DEF LoopInv, Candidates
    <2>3. CASE ClaimNearest
      BY <2>1, <2>2, <2>3, ClaimedHolds DEF ClaimNearest
    <2>4. CASE PassOver
      <3>1. loop' \notin Holding /\ Refused(Head(cands))
        BY <2>1, <2>4 DEF PassOver, Holding
      <3> QED BY <2>1, <2>2, <3>1, RefusedHolds
    <2> QED BY <1>2, <2>3, <2>4
  <1>3. CASE Record
    <2>1. loop \in Holding /\ UNCHANGED <<lock, ttl, trips, pick, held, pending, k>>
      BY <1>3 DEF Record, Holding, holding
    <2> QED BY <2>1, HoldQuiet
  <1>4. CASE SkipRider \/ GiveUp
    <2>1. UNCHANGED <<lock, ttl, trips>> /\ NextRider
      BY <1>4 DEF SkipRider, GiveUp, redis
    <2>2. loop' \notin Holding
      BY <2>1 DEF NextRider, BatchDone, Holding
    <2> QED BY <2>1, <2>2, HoldQuiet
  <1>5. CASE WindowEnds \/ FetchRider \/ NobodyFound \/ Solve \/ Refetch
    <2>1. UNCHANGED <<lock, ttl, trips>>
      BY <1>5 DEF WindowEnds, FetchRider, NobodyFound, Solve, Refetch, redis
    <2>2. loop' \notin Holding
      BY <1>5 DEF WindowEnds, FetchRider, NobodyFound, BatchDone, Solve, Refetch, Holding
    <2> QED BY <2>1, <2>2, HoldQuiet
  <1>6. CASE Receive
    BY <1>6, HoldQuiet DEF Receive, redis, Holding
  <1>7. ASSUME NEW r \in Req, HandleRequest(r) \/ Handle(r) PROVE HoldInv'
    <2>1. UNCHANGED <<lock, ttl, trips, loop, pick, held, pending, k>>
      BY <1>7 DEF HandleRequest, Handle, AnswerExisting, NotAssigned, Enqueue, loopVars,
                  holding, redis
    <2> QED BY <2>1, HoldQuiet
  <1>8. CASE Elsewhere
    BY <1>8, TripEndHolds, RivalHolds DEF Elsewhere
  <1>9. CASE UNCHANGED vars
    BY <1>9, HoldQuiet DEF vars
  <1> QED BY <1>1, <1>2, <1>3, <1>4, <1>5, <1>6, <1>7, <1>8, <1>9, AnnounceHolds, CrashHolds,
             TickHolds DEF Next, SolveBatch

\* However the batch was planned, whatever became of its drivers meanwhile and
\* whatever other instances do, crashes, lost answers and failing commands
\* included: if the TTL is longer than the longest route and ride, a driver is
\* on one trip at a time and its lock names the rider until that trip is over.
THEOREM TripsAreHeld == ASSUME Timely PROVE Spec => []TripsHoldLocks
  <1>1. Init => HoldInv
    BY BatchAssumption DEF Init, HoldInv, KeysHaveValues, Owned, Holding
  <1>2. LoopInv /\ HoldInv /\ [Next]_vars => HoldInv'
    BY HoldInvStep
  <1>3. HoldInv => TripsHoldLocks
    BY DEF HoldInv, Covered, TripsHoldLocks
  <1> QED BY <1>1, <1>2, <1>3, LoopInvHolds, PTL DEF Spec

-------------------------------------------------------------------------------
(* The plan is carried out.                                                  *)

\* Who is near the riders of batch q, what it costs to send them the drivers of
\* list L, and assignment a as drivers of that list.
AllNear(q) == UNION {NearbyOf(q[j]) : j \in DOMAIN q}
CostOf(q, L) == [j \in DOMAIN q |-> [m \in DOMAIN L |-> Dist(q[j], L[m])]]
DriversOf(q, a, L) == [j \in DOMAIN q |-> IF a[j] = 0 THEN None ELSE L[a[j]]]

\* While the batch is being solved `given` is about its riders.
GivenOK ==
    /\ free \subseteq Driver
    /\ loop # "select" =>
          /\ DOMAIN given = DOMAIN pending
          /\ \A j \in DOMAIN pending : /\ given[j] \in [r : Req, d : Driver \union {None}]
                                       /\ given[j].r = pending[j]

\* Nothing stands in the way of the plan.
AllFree == loop # "select" /\ ~disturbed /\ free = AllNear(pending)

\* How many riders have been dealt with.
Settled == IF loop \in Holding THEN k ELSE k - 1

\* Then the drivers found are the free ones, those planned for riders to come are
\* still free, and the riders before have theirs.
Unhindered ==
    /\ loop \in {"fetch", "plan", "claim"} \union Holding /\ (loop = "plan" => k = 1)
    /\ DOMAIN found = IF loop = "fetch" THEN UNION {NearbyOf(pending[j]) : j \in 1..(k - 1)}
                                        ELSE free
    /\ \A d \in free : lock[d] # None =>
          loop \in Acting /\ \E j \in 1..Settled : plan[j] = d
    /\ \A j \in DOMAIN pending :
          given[j].d = IF loop \in Acting /\ j <= Settled THEN plan[j] ELSE None
    /\ loop \in Acting =>
          \E a \in Best(CostOf(pending, SetToSeq(free)), Len(SetToSeq(free))) :
              plan = DriversOf(pending, a, SetToSeq(free))

PlanInv == GivenOK /\ (AllFree => Unhindered) /\ OptimalWhenAllFree

\* Nobody else is near the riders that `given` is about.
LEMMA NearGiven ==
    ASSUME NEW q, NEW g, DOMAIN g = DOMAIN q, \A j \in DOMAIN q : g[j].r = q[j]
    PROVE  UNION {NearbyOf(g[j].r) : j \in DOMAIN g} = AllNear(q)
  <1>1. \A x : (\E j \in DOMAIN g : x \in NearbyOf(g[j].r)) <=> (\E j \in DOMAIN q : x \in NearbyOf(q[j]))
    OBVIOUS
  <1> QED BY <1>1 DEF AllNear

\* When everybody has the driver the plan gives it, the result is the plan.
LEMMA GotIsPlan ==
    ASSUME NEW q, NEW S \in SUBSET Driver,
           NEW a \in Best(CostOf(q, SetToSeq(S)), Len(SetToSeq(S))),
           NEW g, DOMAIN g = DOMAIN q,
           \A j \in DOMAIN q : g[j].r = q[j] /\ g[j].d = DriversOf(q, a, SetToSeq(S))[j]
    PROVE  [j \in DOMAIN g |->
               IF g[j].d = None THEN 0
               ELSE CHOOSE m \in DOMAIN SetToSeq(S) : SetToSeq(S)[m] = g[j].d]
           \in Best([j \in DOMAIN g |->
                        [m \in DOMAIN SetToSeq(S) |-> Dist(g[j].r, SetToSeq(S)[m])]],
                    Len(SetToSeq(S)))
  <1> DEFINE L == SetToSeq(S)
             len == Len(L)
             got == [j \in DOMAIN g |->
                        IF g[j].d = None THEN 0 ELSE CHOOSE m \in DOMAIN L : L[m] = g[j].d]
             cost == [j \in DOMAIN g |-> [m \in DOMAIN L |-> Dist(g[j].r, L[m])]]
  <1>1. /\ L \in [1..len -> S] /\ IsInjective(L) /\ len \in Nat
    BY DriverList
  <1>2. a \in [DOMAIN q -> 0..len]
    <2>1. a \in [Riders(CostOf(q, L)) -> 0..len]
      BY DEF Best, Fullest, Assignments
    <2>2. Riders(CostOf(q, L)) = DOMAIN q
      BY DEF Riders, CostOf
    <2> QED BY <2>1, <2>2
  <1>3. cost = CostOf(q, L)
    <2> HIDE DEF L
    <2> QED BY DEF CostOf
  <1> HIDE DEF L, len
  <1>4. \A j \in DOMAIN q : got[j] = a[j]
    <2> SUFFICES ASSUME NEW j \in DOMAIN q PROVE got[j] = a[j]
      OBVIOUS
    <2>1. a[j] \in 0..len /\ g[j].d = IF a[j] = 0 THEN None ELSE L[a[j]]
      BY <1>2 DEF DriversOf, L
    <2>2. got[j] = IF g[j].d = None THEN 0 ELSE CHOOSE m \in DOMAIN L : L[m] = g[j].d
      OBVIOUS
    <2>3. CASE a[j] = 0
      BY <2>1, <2>2, <2>3
    <2>4. CASE a[j] # 0
      <3>1. a[j] \in 1..len
        BY <1>1, <2>1, <2>4
      <3>2. a[j] \in DOMAIN L /\ L[a[j]] \in S /\ g[j].d = L[a[j]]
        BY <1>1, <2>1, <2>4, <3>1
      <3>3. g[j].d # None
        BY <3>2, BatchAssumption
      <3>4. \A m \in DOMAIN L : L[m] = g[j].d => m = a[j]
        BY <1>1, <3>2 DEF IsInjective
      <3> QED BY <2>2, <3>2, <3>3, <3>4
    <2> QED BY <2>3, <2>4
  <1>5. got = a
    <2>1. got = [j \in DOMAIN q |-> got[j]] /\ a = [j \in DOMAIN q |-> a[j]]
      BY <1>2
    <2> HIDE DEF got
    <2> QED BY <1>4, <2>1
  <1> HIDE DEF got, cost
  <1>6. got \in Best(cost, len)
    BY <1>3, <1>5 DEF L, len
  <1> QED BY <1>6 DEF got, cost, L, len

\* With no drivers giving nobody one is best.
LEMMA BestOfNone ==
    ASSUME NEW q \in Seq(Req)
    PROVE  [j \in DOMAIN q |-> 0] \in Best(CostOf(q, SetToSeq({})), Len(SetToSeq({})))
  <1> DEFINE L == SetToSeq({})
             z == [j \in DOMAIN q |-> 0]
             cost == CostOf(q, L)
  <1>1. Len(L) = 0
    <2>1. {} \in SUBSET Driver
      OBVIOUS
    <2> QED BY <2>1, DriverList, FS_EmptySet
  <1>2. Riders(cost) = DOMAIN q
    BY DEF Riders, CostOf
  <1>3. IsFiniteSet(Riders(cost))
    <2>1. DOMAIN q = 1..Len(q) /\ Len(q) \in Nat
      OBVIOUS
    <2> QED BY <1>2, <2>1, FS_Interval
  <1> HIDE DEF L, cost
  <1>4. \A f \in Assignments(cost, 0) : f = z
    <2> SUFFICES ASSUME NEW f \in Assignments(cost, 0) PROVE f = z
      OBVIOUS
    <2>1. f \in [DOMAIN q -> 0..0]
      BY <1>2 DEF Assignments
    <2> QED BY <2>1
  <1>5. z \in Assignments(cost, 0)
    BY <1>2 DEF Assignments
  <1>6. Served(z) = {}
    BY DEF Served
  <1>7. Cardinality(Served(z)) \in Int
    BY <1>6, FS_EmptySet
  <1>8. TotalCost(cost, z) \in Int
    <2> DEFINE w == [j \in Riders(cost) |-> IF z[j] = 0 THEN 0 ELSE cost[j][z[j]]]
    <2>1. \A j \in Riders(cost) : w[j] \in Int
      BY <1>2
    <2>2. TotalCost(cost, z) = Sum(w, Riders(cost))
      <3>1. TotalCost(cost, z) = SumFunction(w) /\ DOMAIN w = Riders(cost)
        BY DEF TotalCost
      <3> HIDE DEF w
      <3> QED BY <3>1, SumOfFunction
    <2> HIDE DEF w, z
    <2>3. Sum(w, Riders(cost)) \in Int
      BY <1>3, <2>1, SumInt
    <2> QED BY <2>2, <2>3
  <1> HIDE DEF z
  <1>9. z \in Fullest(cost, 0)
    BY <1>4, <1>5, <1>7 DEF Fullest
  <1>10. \A g \in Fullest(cost, 0) : g = z
    BY <1>4 DEF Fullest
  <1>11. z \in Best(cost, 0)
    BY <1>8, <1>9, <1>10 DEF Best
  <1> QED BY <1>1, <1>11 DEF z, cost, L

\* The batch is done: what was planned, if nothing was in the way, is what is given.
LEMMA DoneOptimal ==
    ASSUME LoopInv, GivenOK, BatchDone, UNCHANGED <<free, disturbed>>,
           loop # "select", DOMAIN given' = DOMAIN pending,
           \A j \in DOMAIN pending : given'[j].r = pending[j],
           AllFree =>
              \E a \in Best(CostOf(pending, SetToSeq(free)), Len(SetToSeq(free))) :
                 \A j \in DOMAIN pending :
                    given'[j].d = DriversOf(pending, a, SetToSeq(free))[j]
    PROVE  PlanInv'
  <1>1. loop' = "select" /\ free \subseteq Driver
    BY DEF BatchDone, GivenOK
  <1>2. GivenOK' /\ ~ AllFree'
    BY <1>1 DEF GivenOK, AllFree
  <1>3. OptimalWhenAllFree'
    <2> SUFFICES ASSUME ~ disturbed', free' = UNION {NearbyOf(given'[j].r) : j \in DOMAIN given'}
                 PROVE  GotBest'
      BY DEF OptimalWhenAllFree, JustSolved
    <2>1. free = AllNear(pending)
      BY NearGiven
    <2>2. AllFree
      BY <2>1 DEF AllFree
    <2>3. PICK a \in Best(CostOf(pending, SetToSeq(free)), Len(SetToSeq(free))) :
             \A j \in DOMAIN pending : given'[j].d = DriversOf(pending, a, SetToSeq(free))[j]
      BY <2>2
    <2>4. PICK S, g : S = free /\ g = given'
      OBVIOUS
    <2>5. [j \in DOMAIN g |->
              IF g[j].d = None THEN 0
              ELSE CHOOSE m \in DOMAIN SetToSeq(S) : SetToSeq(S)[m] = g[j].d]
          \in Best([j \in DOMAIN g |->
                       [m \in DOMAIN SetToSeq(S) |-> Dist(g[j].r, SetToSeq(S)[m])]],
                   Len(SetToSeq(S)))
      <3>1. /\ a \in Best(CostOf(pending, SetToSeq(S)), Len(SetToSeq(S)))
            /\ S \in SUBSET Driver /\ DOMAIN g = DOMAIN pending
            /\ \A j \in DOMAIN pending :
                  g[j].r = pending[j] /\ g[j].d = DriversOf(pending, a, SetToSeq(S))[j]
        BY <1>1, <2>3, <2>4
      <3> QED BY <3>1, GotIsPlan
    <2>6. S = free' /\ g = given'
      BY <2>4
    <2> QED BY <2>5, <2>6 DEF GotBest, Got, FreeList
  <1> QED BY <1>2, <1>3 DEF PlanInv

\* Steps that leave the batch alone.
LEMMA BatchStays ==
    ASSUME PlanInv,
           UNCHANGED <<pending, loop, k, found, plan, given, free>>,
           disturbed' \/ \A d \in Driver : lock'[d] # None => lock[d] # None,
           disturbed => disturbed'
    PROVE  PlanInv'
  <1>1. GivenOK'
    BY DEF PlanInv, GivenOK
  <1>2. free' = AllNear(pending') <=> free = AllNear(pending)
    BY DEF AllNear
  <1>3. AllFree' => AllFree /\ \A d \in free : lock'[d] # None => lock[d] # None
    BY <1>2 DEF AllFree, AllNear, PlanInv, GivenOK
  <1>4. AllFree' => Unhindered'
    BY <1>3 DEF PlanInv, Unhindered, Settled
  <1>5. OptimalWhenAllFree'
    BY DEF PlanInv, OptimalWhenAllFree, JustSolved, GotBest, Got, FreeList
  <1> QED BY <1>1, <1>4, <1>5 DEF PlanInv

\* A batch begins.
LEMMA WindowEndsPlan ==
    ASSUME LoopInv, PlanInv, WindowEnds
    PROVE  PlanInv'
  <1>1. /\ loop = "select" /\ loop' = "fetch" /\ k' = 1 /\ found' = << >>
        /\ given' = [j \in DOMAIN pending |-> [r |-> pending[j], d |-> None]]
        /\ free' = {d \in UNION {NearbyOf(r) : r \in ToSet(pending)} : lock[d] = None}
        /\ UNCHANGED <<pending, plan, lock>>
    BY DEF WindowEnds, redis
  <1>2. pending \in Seq(Req)
    BY DEF LoopInv, QueueTypes
  <1>3. GivenOK'
    <2>1. free' \subseteq Driver
      BY <1>1 DEF NearbyOf
    <2>2. \A j \in DOMAIN pending : /\ given'[j] \in [r : Req, d : Driver \union {None}]
                                    /\ given'[j].r = pending[j]
      BY <1>1, <1>2
    <2> QED BY <1>1, <2>1, <2>2 DEF GivenOK
  <1>4. Unhindered'
    <2>1. DOMAIN found' = {} /\ 1..(k' - 1) = {}
      BY <1>1
    <2>2. \A d \in free' : lock'[d] = None
      BY <1>1
    <2>3. \A j \in DOMAIN pending' : given'[j].d = None
      BY <1>1
    <2> QED BY <1>1, <2>1, <2>2, <2>3 DEF Unhindered, Acting, Holding
  <1>5. OptimalWhenAllFree'
    BY <1>1 DEF OptimalWhenAllFree, JustSolved
  <1> QED BY <1>3, <1>4, <1>5 DEF PlanInv

\* The drivers near the next rider are found.
LEMMA FetchRiderPlan ==
    ASSUME LoopInv, PlanInv, FetchRider
    PROVE  PlanInv'
  <1>1. /\ loop = "fetch" /\ loop' \in {"fetch", "plan"}
        /\ UNCHANGED <<pending, plan, lock, given, free>>
        /\ disturbed' \/ (UNCHANGED disturbed /\ DOMAIN found' = NearbyOf(pending[k]) \union DOMAIN found)
        /\ IF k < Len(pending) THEN k' = k + 1 /\ UNCHANGED loop ELSE k' = 1 /\ loop' = "plan"
    BY DEF FetchRider, redis
  <1>2. /\ k \in 1..Len(pending) /\ Len(pending) \in Nat
        /\ DOMAIN pending = 1..Len(pending)
    BY <1>1, RiderAtHand DEF LoopInv, QueueTypes
  <1>3. GivenOK'
    BY <1>1 DEF PlanInv, GivenOK
  <1>4. OptimalWhenAllFree'
    BY <1>1 DEF OptimalWhenAllFree, JustSolved
  <1>5. ASSUME AllFree' PROVE Unhindered'
    <2>1. /\ AllFree /\ free = AllNear(pending)
          /\ DOMAIN found' = NearbyOf(pending[k]) \union DOMAIN found
      BY <1>1, <1>5 DEF AllFree, AllNear
    <2>2. Unhindered
      BY <2>1 DEF PlanInv
    <2>3. \A x : x \in DOMAIN found' <=> \E j \in 1..k : x \in NearbyOf(pending[j])
      <3>1. \A x : x \in DOMAIN found <=> \E j \in 1..(k - 1) : x \in NearbyOf(pending[j])
        BY <1>1, <2>2 DEF Unhindered, Acting, Holding
      <3>2. \A j : j \in 1..k <=> j = k \/ j \in 1..(k - 1)
        BY <1>2
      <3> QED BY <2>1, <3>1, <3>2
    <2>4. DOMAIN found' = IF loop' = "fetch"
                          THEN UNION {NearbyOf(pending[j]) : j \in 1..(k' - 1)} ELSE free
      <3>1. CASE k < Len(pending)
        <4>1. loop' = "fetch" /\ k' - 1 = k
          BY <1>1, <1>2, <3>1
        <4> QED BY <2>3, <4>1
      <3>2. CASE ~ (k < Len(pending))
        <4>1. loop' = "plan" /\ 1..k = DOMAIN pending
          <5>1. \A len \in Nat : \A m \in 1..len : ~ (m < len) => m = len
            OBVIOUS
          <5>2. k = Len(pending)
            BY <1>2, <3>2, <5>1
          <5> QED BY <1>1, <1>2, <3>2, <5>2
        <4>2. \A x : x \in free <=> \E j \in DOMAIN pending : x \in NearbyOf(pending[j])
          BY <2>1 DEF AllNear
        <4> QED BY <2>3, <4>1, <4>2
      <3> QED BY <3>1, <3>2
    <2>5. \A d \in free' : lock'[d] = None
      BY <1>1, <2>2 DEF Unhindered, Acting, Holding
    <2>6. \A j \in DOMAIN pending' : given'[j].d = None
      BY <1>1, <2>2 DEF Unhindered, Acting, Holding
    <2>7. loop' \notin Acting /\ (loop' = "plan" => k' = 1)
      BY <1>1 DEF Acting, Holding
    <2> QED BY <1>1, <2>4, <2>5, <2>6, <2>7 DEF Unhindered
  <1> QED BY <1>3, <1>4, <1>5 DEF PlanInv

\* No driver was found because none is free.
LEMMA NobodyFoundPlan ==
    ASSUME LoopInv, PlanInv, NobodyFound
    PROVE  PlanInv'
  <1>1. /\ loop = "plan" /\ DOMAIN found = {} /\ BatchDone
        /\ UNCHANGED <<given, free, disturbed>>
    BY DEF NobodyFound, history
  <1>2. /\ DOMAIN given' = DOMAIN pending
        /\ \A j \in DOMAIN pending : given'[j].r = pending[j]
    BY <1>1 DEF PlanInv, GivenOK
  <1>3. ASSUME AllFree
        PROVE  \E a \in Best(CostOf(pending, SetToSeq(free)), Len(SetToSeq(free))) :
                  \A j \in DOMAIN pending :
                     given'[j].d = DriversOf(pending, a, SetToSeq(free))[j]
    <2>1. Unhindered
      BY <1>3 DEF PlanInv
    <2>2. free = {} /\ \A j \in DOMAIN pending : given'[j].d = None
      BY <1>1, <2>1 DEF Unhindered, Acting, Holding
    <2>3. pending \in Seq(Req)
      BY DEF LoopInv, QueueTypes
    <2> DEFINE z == [j \in DOMAIN pending |-> 0]
    <2>4. z \in Best(CostOf(pending, SetToSeq(free)), Len(SetToSeq(free)))
      BY <2>2, <2>3, BestOfNone
    <2>5. \A j \in DOMAIN pending : DriversOf(pending, z, SetToSeq(free))[j] = None
      BY DEF DriversOf
    <2> HIDE DEF z
    <2> QED BY <2>2, <2>4, <2>5
  <1>4. GivenOK
    BY DEF PlanInv
  <1> QED BY <1>1, <1>2, <1>3, <1>4, DoneOptimal

\* Optimal plans over the free drivers.
LEMMA SolvePlan ==
    ASSUME LoopInv, PlanInv, Solve
    PROVE  PlanInv'
  <1>1. /\ loop = "plan" /\ loop' = "claim"
        /\ \E a \in Best(CostOf(pending, SetToSeq(DOMAIN found)), Len(SetToSeq(DOMAIN found))) :
              plan' = DriversOf(pending, a, SetToSeq(DOMAIN found))
        /\ UNCHANGED <<pending, k, found, lock, given, free, disturbed>>
    BY DEF Solve, redis, history, CostOf, DriversOf
  <1>2. GivenOK'
    BY <1>1 DEF PlanInv, GivenOK
  <1>3. OptimalWhenAllFree'
    BY <1>1 DEF OptimalWhenAllFree, JustSolved
  <1>4. k \in Nat
    BY <1>1, RiderAtHand
  <1>5. ASSUME AllFree' PROVE Unhindered'
    <2>1. AllFree
      BY <1>1, <1>5 DEF AllFree, AllNear
    <2>2. Unhindered
      BY <2>1 DEF PlanInv
    <2>3. DOMAIN found = free
      BY <1>1, <2>2 DEF Unhindered, Acting, Holding
    <2>4. \A d \in free : lock[d] = None
      BY <1>1, <2>2 DEF Unhindered, Acting, Holding
    <2>5. k = 1 /\ \A j \in DOMAIN pending : given[j].d = None /\ j \in Nat \ {0}
      <3>1. \A j \in DOMAIN pending : j \in Nat \ {0}
        BY DEF LoopInv, QueueTypes
      <3> QED BY <1>1, <2>2, <3>1 DEF Unhindered, Acting, Holding
    <2>6. Settled' = 0 /\ loop' \in Acting
      BY <1>1, <2>5 DEF Settled, Acting, Holding
    <2>7. \A j \in DOMAIN pending : ~ (j <= 0)
      BY <2>5
    <2> QED BY <1>1, <2>3, <2>4, <2>5, <2>6, <2>7 DEF Unhindered
  <1> QED BY <1>2, <1>3, <1>5 DEF PlanInv

\* With nothing in the way the driver planned for the rider at hand is still free, and
\* the riders before have theirs.
LEMMA PlanAtHand ==
    ASSUME LoopInv, PlanInv, loop = "claim", AllFree
    PROVE  /\ plan[k] # None => plan[k] \in free /\ lock[plan[k]] = None
           /\ \A j \in DOMAIN plan : j # k /\ plan[j] = plan[k] => plan[k] = None
  <1>1. Unhindered /\ free \subseteq Driver
    BY DEF PlanInv, GivenOK
  <1>2. k \in DOMAIN pending /\ DOMAIN plan = DOMAIN pending /\ k \in Nat
    BY RiderAtHand DEF LoopInv, Planned, QueueTypes, Acting
  <1>3. plan[k] # None => plan[k] \in free
    BY <1>1, <1>2 DEF LoopInv, Planned, Unhindered
  <1>4. ASSUME NEW j \in DOMAIN plan, j # k, plan[j] = plan[k] PROVE plan[k] = None
    <2> DEFINE L == SetToSeq(free)
    <2>1. PICK a \in Best(CostOf(pending, L), Len(L)) : plan = DriversOf(pending, a, L)
      BY <1>1 DEF Unhindered, Acting
    <2>2. L \in [1..Len(L) -> free] /\ IsInjective(L) /\ Len(L) \in Nat
      BY <1>1, DriverList
    <2> HIDE DEF L
    <2>3. /\ a \in [DOMAIN pending -> 0..Len(L)]
          /\ \A r, s \in DOMAIN pending : a[r] = a[s] /\ a[r] # 0 => r = s
      <3>1. a \in Assignments(CostOf(pending, L), Len(L))
        BY DEF Best, Fullest
      <3>2. Riders(CostOf(pending, L)) = DOMAIN pending
        BY DEF Riders, CostOf
      <3> QED BY <3>1, <3>2 DEF Assignments
    <2>4. /\ plan[j] = IF a[j] = 0 THEN None ELSE L[a[j]]
          /\ plan[k] = IF a[k] = 0 THEN None ELSE L[a[k]]
      BY <1>2, <2>1 DEF DriversOf
    <2>5. \A m \in 1..Len(L) : L[m] \in free /\ L[m] # None
      BY <1>1, <2>2, BatchAssumption
    <2>6. \A x \in 0..Len(L) : x # 0 => x \in 1..Len(L)
      BY <2>2
    <2> SUFFICES ASSUME a[k] # 0 PROVE FALSE
      BY <2>4
    <2>7. a[k] \in 1..Len(L) /\ L[a[k]] # None
      BY <1>2, <2>3, <2>5, <2>6
    <2>8. a[j] # 0
      BY <1>4, <2>4, <2>7
    <2>9. a[j] \in 1..Len(L)
      BY <1>2, <1>4, <2>3, <2>6, <2>8
    <2>10. a[j] = a[k]
      BY <1>4, <2>2, <2>4, <2>7, <2>8, <2>9 DEF IsInjective
    <2> QED BY <1>2, <1>4, <2>3, <2>8, <2>10
  <1>5. plan[k] # None => lock[plan[k]] = None
    <2> SUFFICES ASSUME plan[k] # None, lock[plan[k]] # None PROVE FALSE
      OBVIOUS
    <2>1. PICK j \in 1..(k - 1) : plan[j] = plan[k]
      BY <1>1, <1>3 DEF Unhindered, Settled, Holding
    <2>2. j \in DOMAIN plan /\ j # k
      <3>1. k \in 1..Len(pending) /\ Len(pending) \in Nat /\ DOMAIN pending = 1..Len(pending)
        BY RiderAtHand DEF LoopInv, QueueTypes
      <3> QED BY <1>2, <3>1
    <2> QED BY <1>4, <2>1, <2>2
  <1> QED BY <1>3, <1>4, <1>5

\* On to the next rider, or done, after the rider at hand got what was planned.
LEMMA NextRiderPlan ==
    ASSUME LoopInv, PlanInv, loop \in Acting, NextRider,
           UNCHANGED <<lock, given, free, disturbed>>, loop = "claim" => plan[k] = None
    PROVE  PlanInv'
  <1>1. /\ k \in 1..Len(pending) /\ Len(pending) \in Nat /\ DOMAIN pending = 1..Len(pending)
        /\ GivenOK /\ free \subseteq Driver /\ loop # "select"
    BY RiderAtHand DEF LoopInv, QueueTypes, PlanInv, GivenOK, Acting, Holding
  <1>2. /\ DOMAIN given = DOMAIN pending
        /\ \A j \in DOMAIN pending : given[j].r = pending[j]
    BY <1>1 DEF GivenOK
  \* When nothing is in the way the first k riders have what was planned.
  <1>3. ASSUME AllFree
        PROVE  /\ Unhindered
               /\ \A j \in DOMAIN pending : given[j].d = IF j <= k THEN plan[j] ELSE None
               /\ \A d \in free : lock[d] # None => \E j \in 1..k : plan[j] = d
    <2>1. Unhindered
      BY <1>3 DEF PlanInv
    <2>2. CASE loop \in Holding
      <3>1. Settled = k
        BY <2>2 DEF Settled
      <3> QED BY <2>1, <2>2, <3>1 DEF Unhindered, Acting
    <2>3. CASE loop \notin Holding
      <3>1. loop = "claim" /\ Settled = k - 1 /\ plan[k] = None
        BY <2>1, <2>3 DEF Unhindered, Acting, Settled
      <3>2. \A j \in DOMAIN pending : j <= k <=> j = k \/ j <= k - 1
        BY <1>1
      <3>3. \A j \in 1..(k - 1) : j \in 1..k
        BY <1>1
      <3>4. ASSUME NEW j \in DOMAIN pending
            PROVE  given[j].d = IF j <= k THEN plan[j] ELSE None
        <4>1. given[j].d = IF j <= k - 1 THEN plan[j] ELSE None
          BY <2>1, <3>1 DEF Unhindered, Acting
        <4> QED BY <3>1, <3>2, <4>1
      <3>5. \A d \in free : lock[d] # None => \E j \in 1..k : plan[j] = d
        BY <2>1, <3>1, <3>3 DEF Unhindered
      <3> QED BY <2>1, <3>4, <3>5
    <2> QED BY <2>2, <2>3
  <1>4. CASE k < Len(pending)
    <2>1. loop' = "claim" /\ k' = k + 1 /\ UNCHANGED <<pending, plan, found>>
      BY <1>4 DEF NextRider
    <2>2. GivenOK'
      BY <1>1, <2>1 DEF GivenOK
    <2>3. OptimalWhenAllFree'
      BY <2>1 DEF OptimalWhenAllFree, JustSolved
    <2>4. ASSUME AllFree' PROVE Unhindered'
      <3>1. AllFree
        BY <1>1, <2>1, <2>4 DEF AllFree, AllNear
      <3>2. Settled' = k /\ loop' \in Acting
        BY <1>1, <2>1 DEF Settled, Acting, Holding
      <3>3. DOMAIN found' = free'
        BY <1>3, <2>1, <3>1 DEF Unhindered, Acting, Holding
      <3>4. \E a \in Best(CostOf(pending, SetToSeq(free)), Len(SetToSeq(free))) :
               plan = DriversOf(pending, a, SetToSeq(free))
        BY <1>3, <3>1 DEF Unhindered
      <3>5. \E a \in Best(CostOf(pending', SetToSeq(free')), Len(SetToSeq(free'))) :
               plan' = DriversOf(pending', a, SetToSeq(free'))
        <4>1. pending' = pending /\ plan' = plan /\ free' = free
          BY <2>1
        <4> QED BY <3>4, <4>1
      <3>6. \A d \in free' : lock'[d] # None => \E j \in 1..Settled' : plan'[j] = d
        BY <1>3, <2>1, <3>1, <3>2
      <3>7. \A j \in DOMAIN pending' :
               given'[j].d = IF loop' \in Acting /\ j <= Settled' THEN plan'[j] ELSE None
        BY <1>3, <2>1, <3>1, <3>2
      <3> QED BY <2>1, <3>2, <3>3, <3>5, <3>6, <3>7 DEF Unhindered
    <2> QED BY <2>2, <2>3, <2>4 DEF PlanInv
  <1>5. CASE ~ (k < Len(pending))
    <2>1. BatchDone /\ k = Len(pending)
      <3>1. \A len \in Nat : \A m \in 1..len : ~ (m < len) => m = len
        OBVIOUS
      <3>2. k = Len(pending)
        BY <1>1, <1>5, <3>1
      <3> QED BY <1>5, <3>2 DEF NextRider
    <2>2. ASSUME AllFree
          PROVE  \E a \in Best(CostOf(pending, SetToSeq(free)), Len(SetToSeq(free))) :
                    \A j \in DOMAIN pending :
                       given'[j].d = DriversOf(pending, a, SetToSeq(free))[j]
      <3>1. PICK a \in Best(CostOf(pending, SetToSeq(free)), Len(SetToSeq(free))) :
               plan = DriversOf(pending, a, SetToSeq(free))
        BY <1>3, <2>2 DEF Unhindered
      <3>2. \A j \in DOMAIN pending : j <= k
        BY <1>1, <2>1
      <3>3. \A j \in DOMAIN pending : given'[j].d = plan[j]
        BY <1>3, <2>2, <3>2
      <3> QED BY <3>1, <3>3
    <2> QED BY <1>1, <1>2, <2>1, <2>2, DoneOptimal
  <1> QED BY <1>4, <1>5

\* A claim gives the rider at hand the driver.
LEMMA ClaimedGives ==
    ASSUME LoopInv, PlanInv, loop # "select", NEW d \in Driver, NEW dist, Claimed(d, dist)
    PROVE  /\ DOMAIN given' = DOMAIN pending
           /\ \A j \in DOMAIN pending :
                 /\ given'[j] \in [r : Req, d : Driver \union {None}]
                 /\ given'[j].r = pending[j]
                 /\ given'[j].d = IF j = k THEN d ELSE given[j].d
           /\ \A e \in Driver : e # d => lock'[e] = lock[e]
  <1>1. /\ given' = [given EXCEPT ![k].d = d] /\ lock' = [lock EXCEPT ![d] = pending[k]]
    BY DEF Claimed, SetNX
  <1>2. /\ DOMAIN given = DOMAIN pending
        /\ \A j \in DOMAIN pending : /\ given[j] \in [r : Req, d : Driver \union {None}]
                                     /\ given[j].r = pending[j]
    BY DEF PlanInv, GivenOK
  <1>3. lock \in [Driver -> Req \union {None, Rival}]
    BY DEF LoopInv, RedisTypes
  <1>4. ASSUME NEW j \in DOMAIN pending
        PROVE  /\ given'[j] \in [r : Req, d : Driver \union {None}]
               /\ given'[j].r = pending[j]
               /\ given'[j].d = IF j = k THEN d ELSE given[j].d
    <2>1. CASE j = k
      <3>1. given'[j] = [given[j] EXCEPT !.d = d]
        BY <1>1, <1>2, <2>1
      <3> QED BY <1>2, <2>1, <3>1
    <2>2. CASE j # k
      <3>1. given'[j] = given[j]
        BY <1>1, <1>2, <2>2
      <3> QED BY <1>2, <2>2, <3>1
    <2> QED BY <2>1, <2>2
  <1>5. DOMAIN given' = DOMAIN pending
    BY <1>1, <1>2
  <1> QED BY <1>1, <1>3, <1>4, <1>5

\* Carrying out the plan.
LEMMA ClaimPlan ==
    ASSUME LoopInv, PlanInv, SkipRider \/ ClaimPlanned \/ PlanRefused
    PROVE  PlanInv'
  <1>0. /\ loop = "claim" /\ k \in DOMAIN pending /\ pending[k] \in Req
        /\ DOMAIN plan = DOMAIN pending /\ \A j \in DOMAIN pending : j \in Nat
    <2>1. loop = "claim"
      BY DEF SkipRider, ClaimPlanned, PlanRefused
    <2> QED BY <2>1, RiderAtHand DEF LoopInv, Planned, QueueTypes, Acting
  <1>1. CASE SkipRider
    <2>1. plan[k] = None /\ NextRider /\ UNCHANGED <<lock, given, free, disturbed>>
      BY <1>1 DEF SkipRider, redis, history
    <2> QED BY <1>0, <2>1, NextRiderPlan DEF Acting
  <1>2. CASE ClaimPlanned
    <2>1. /\ plan[k] # None /\ loop' = "record" /\ Claimed(plan[k], found[plan[k]])
          /\ UNCHANGED <<pending, k, found, plan, free, disturbed>>
      BY <1>2 DEF ClaimPlanned, Claimed
    <2>2. plan[k] \in Driver
      BY <1>0, <2>1 DEF LoopInv, Planned, Found
    <2>3. /\ DOMAIN given' = DOMAIN pending
          /\ \A j \in DOMAIN pending :
                /\ given'[j] \in [r : Req, d : Driver \union {None}]
                /\ given'[j].r = pending[j]
                /\ given'[j].d = IF j = k THEN plan[k] ELSE given[j].d
          /\ \A e \in Driver : e # plan[k] => lock'[e] = lock[e]
      BY <1>0, <2>1, <2>2, ClaimedGives
    <2>4. GivenOK' /\ free \subseteq Driver
      BY <2>1, <2>3 DEF PlanInv, GivenOK
    <2>5. OptimalWhenAllFree'
      BY <2>1 DEF OptimalWhenAllFree, JustSolved
    <2>6. ASSUME AllFree' PROVE Unhindered'
      <3>1. AllFree
        BY <1>0, <2>1, <2>6 DEF AllFree, AllNear
      <3>2. Unhindered
        BY <3>1 DEF PlanInv
      <3>3. Settled = k - 1 /\ Settled' = k /\ loop \in Acting /\ loop' \in Acting
        BY <1>0, <2>1 DEF Settled, Acting, Holding
      <3>4. ASSUME NEW d \in free, lock'[d] # None PROVE \E j \in 1..k : plan[j] = d
        <4>1. k \in 1..k /\ \A j \in 1..(k - 1) : j \in 1..k
          <5>1. k \in Nat /\ k >= 1
            BY <1>0 DEF LoopInv, QueueTypes
          <5> QED BY <5>1
        <4>2. CASE d = plan[k]
          BY <4>1, <4>2
        <4>3. CASE d # plan[k]
          <5>1. lock[d] # None
            BY <2>3, <2>4, <3>4, <4>3
          <5>2. \E j \in 1..(k - 1) : plan[j] = d
            BY <3>2, <3>3, <5>1 DEF Unhindered
          <5> QED BY <4>1, <5>2
        <4> QED BY <4>2, <4>3
      <3>5. ASSUME NEW j \in DOMAIN pending
            PROVE  given'[j].d = IF j <= k THEN plan[j] ELSE None
        <4>1. given[j].d = IF j <= k - 1 THEN plan[j] ELSE None
          BY <3>2, <3>3 DEF Unhindered
        <4>2. j <= k <=> j = k \/ j <= k - 1
          BY <1>0
        <4> QED BY <2>3, <4>1, <4>2
      <3>6. DOMAIN found = free
        BY <1>0, <3>2 DEF Unhindered
      <3>7. \E a \in Best(CostOf(pending, SetToSeq(free)), Len(SetToSeq(free))) :
               plan = DriversOf(pending, a, SetToSeq(free))
        BY <3>2, <3>3 DEF Unhindered
      <3>8. \E a \in Best(CostOf(pending', SetToSeq(free')), Len(SetToSeq(free'))) :
               plan' = DriversOf(pending', a, SetToSeq(free'))
        BY <2>1, <3>7 DEF CostOf, DriversOf
      <3>9. loop' \in Holding
        BY <2>1 DEF Holding
      <3> QED BY <2>1, <3>3, <3>4, <3>5, <3>6, <3>8, <3>9 DEF Unhindered
    <2> QED BY <2>4, <2>5, <2>6 DEF PlanInv
  <1>3. CASE PlanRefused
    <2>1. /\ plan[k] # None /\ loop' = "refetch" /\ UNCHANGED <<pending, given, free>>
          /\ disturbed' \/ (lock[plan[k]] # None /\ UNCHANGED disturbed)
      BY <1>3 DEF PlanRefused, Refused
    <2>2. ~ AllFree'
      <3>1. CASE disturbed'
        BY <3>1 DEF AllFree
      <3>2. CASE lock[plan[k]] # None /\ UNCHANGED disturbed
        <4>1. ~ AllFree
          BY <1>0, <2>1, <3>2, PlanAtHand
        <4> QED BY <1>0, <2>1, <3>2, <4>1 DEF AllFree, AllNear
      <3> QED BY <2>1, <3>1, <3>2
    <2>3. GivenOK' /\ OptimalWhenAllFree'
      BY <1>0, <2>1 DEF PlanInv, GivenOK, OptimalWhenAllFree, JustSolved
    <2> QED BY <2>2, <2>3 DEF PlanInv
  <1> QED BY <1>1, <1>2, <1>3

\* assign() leaves what was given as it is.
LEMMA HoldingPlan ==
    ASSUME LoopInv, PlanInv, Record \/ Announce
    PROVE  PlanInv'
  <1>1. CASE Record
    <2>1. /\ loop = "record" /\ loop' = "route"
          /\ UNCHANGED <<pending, k, found, plan, lock, given, free, disturbed>>
      BY <1>1 DEF Record, history
    <2>2. GivenOK' /\ OptimalWhenAllFree'
      BY <2>1 DEF PlanInv, GivenOK, OptimalWhenAllFree, JustSolved
    <2>3. AllFree' => AllFree
      BY <2>1 DEF AllFree, AllNear
    <2>4. Settled' = Settled /\ loop \in Acting /\ loop' \in Acting
      BY <2>1 DEF Settled, Acting, Holding
    <2>5. ASSUME Unhindered PROVE Unhindered'
      <3>1. \E a \in Best(CostOf(pending, SetToSeq(free)), Len(SetToSeq(free))) :
               plan = DriversOf(pending, a, SetToSeq(free))
        BY <2>4, <2>5 DEF Unhindered
      <3>2. \E a \in Best(CostOf(pending', SetToSeq(free')), Len(SetToSeq(free'))) :
               plan' = DriversOf(pending', a, SetToSeq(free'))
        <4>1. pending' = pending /\ plan' = plan /\ free' = free
          BY <2>1
        <4> QED BY <3>1, <4>1
      <3>3. \A d \in free' : lock'[d] # None =>
               loop' \in Acting /\ \E j \in 1..Settled' : plan'[j] = d
        BY <2>1, <2>4, <2>5 DEF Unhindered
      <3>4. \A j \in DOMAIN pending' :
               given'[j].d = IF loop' \in Acting /\ j <= Settled' THEN plan'[j] ELSE None
        BY <2>1, <2>4, <2>5 DEF Unhindered
      <3>5. loop' \in Holding /\ DOMAIN found' = free'
        BY <2>1, <2>5 DEF Unhindered, Holding
      <3> QED BY <2>1, <3>2, <3>3, <3>4, <3>5 DEF Unhindered
    <2> QED BY <2>2, <2>3, <2>5 DEF PlanInv
  <1>2. CASE Announce
    <2>1. loop = "route" /\ NextRider /\ UNCHANGED <<lock, given, free, disturbed>>
      BY <1>2 DEF Announce, redis, history
    <2> QED BY <2>1, NextRiderPlan DEF Acting, Holding
  <1> QED BY <1>1, <1>2

\* greedyAssign runs only when something was in the way.
LEMMA GreedyPlan ==
    ASSUME LoopInv, PlanInv, Refetch \/ ClaimNearest \/ PassOver \/ GiveUp
    PROVE  PlanInv'
  <1>1. loop \in {"refetch", "greedy"}
    BY DEF Refetch, ClaimNearest, PassOver, GiveUp
  <1>2. ~ AllFree
    BY <1>1 DEF PlanInv, Unhindered, Holding
  <1>3. GivenOK
    BY DEF PlanInv
  <1>4. CASE Refetch \/ PassOver \/ ClaimNearest
    <2>1. /\ UNCHANGED <<pending, free>> /\ loop' \in {"greedy", "record"}
          /\ disturbed => disturbed'
      BY <1>1, <1>4 DEF Refetch, PassOver, Refused, ClaimNearest, Claimed, history
    <2>2. GivenOK'
      <3>1. CASE Refetch \/ PassOver
        <4>1. UNCHANGED given
          BY <3>1 DEF Refetch, PassOver
        <4> QED BY <1>1, <1>3, <2>1, <4>1 DEF GivenOK
      <3>2. CASE ClaimNearest
        <4>1. /\ loop = "greedy" /\ cands # << >>
              /\ Claimed(Head(cands), Dist(pending[k], Head(cands)))
          BY <3>2 DEF ClaimNearest
        <4>2. Head(cands) \in Driver
          BY <4>1 DEF LoopInv, Candidates
        <4>3. /\ DOMAIN given' = DOMAIN pending
              /\ \A j \in DOMAIN pending :
                    /\ given'[j] \in [r : Req, d : Driver \union {None}]
                    /\ given'[j].r = pending[j]
          BY <4>1, <4>2, ClaimedGives
        <4> QED BY <1>3, <2>1, <4>3 DEF GivenOK
      <3> QED BY <1>4, <3>1, <3>2
    <2>3. ~ AllFree'
      BY <1>1, <1>2, <2>1 DEF AllFree, AllNear
    <2>4. OptimalWhenAllFree'
      BY <2>1 DEF OptimalWhenAllFree, JustSolved
    <2> QED BY <2>2, <2>3, <2>4 DEF PlanInv
  <1>5. CASE GiveUp
    <2>1. loop = "greedy" /\ NextRider /\ UNCHANGED <<lock, given, free, disturbed>>
      BY <1>5 DEF GiveUp, redis, history
    <2> QED BY <2>1, NextRiderPlan DEF Acting
  <1> QED BY <1>4, <1>5

\* With all its drivers free the batch is assigned optimally, whoever they are and
\* wherever: nobody is in the way of a plan that gives no driver twice, so
\* each rider gets its own, and doing without the others takes nothing from it.
THEOREM PlanIsCarriedOut == Spec => []OptimalWhenAllFree
  <1>1. Init => PlanInv
    BY DEF Init, PlanInv, GivenOK, AllFree, OptimalWhenAllFree, JustSolved
  <1>2. LoopInv /\ PlanInv /\ [Next]_vars => PlanInv'
    <2> SUFFICES ASSUME LoopInv, PlanInv, [Next]_vars PROVE PlanInv'
      OBVIOUS
    <2>1. CASE UNCHANGED vars
      BY <2>1, BatchStays DEF vars
    <2>2. ASSUME NEW r \in Req, HandleRequest(r) \/ Handle(r) PROVE PlanInv'
      <3>1. UNCHANGED <<pending, loop, k, found, plan, lock, given, free, disturbed>>
        BY <2>2 DEF HandleRequest, Handle, AnswerExisting, NotAssigned, Enqueue, loopVars,
                    redis, history
      <3> QED BY <3>1, BatchStays
    <2>3. CASE Receive
      <3>1. loop = "select" /\ UNCHANGED <<loop, given, free, disturbed>>
        BY <2>3 DEF Receive, history
      <3> QED BY <3>1 DEF PlanInv, GivenOK, AllFree, OptimalWhenAllFree, JustSolved, GotBest,
                          Got, FreeList
    <2>4. CASE SolveBatch
      BY <2>4, FetchRiderPlan, NobodyFoundPlan, SolvePlan, ClaimPlan, HoldingPlan,
         GreedyPlan DEF SolveBatch
    <2>5. CASE Elsewhere
      <3>1. disturbed' /\ UNCHANGED <<pending, loop, k, found, plan, given, free>>
        BY <2>5 DEF Elsewhere, TripEnds, RivalClaims, RivalReleases, loopVars
      <3> QED BY <3>1, BatchStays
    <2>6. CASE Crash
      <3>1. loop' = "select" /\ free' = {} /\ given' = << >>
        BY <2>6 DEF Crash, BatchDone
      <3> QED BY <3>1 DEF PlanInv, GivenOK, AllFree, OptimalWhenAllFree, JustSolved
    <2>7. CASE Tick
      <3>1. /\ UNCHANGED <<pending, loop, k, found, plan, given, free>>
            /\ disturbed => disturbed'
            /\ \A d \in Driver : lock'[d] # None => lock[d] # None
        BY <2>7 DEF Tick
      <3> QED BY <3>1, BatchStays
    <2> QED BY <2>1, <2>2, <2>3, <2>4, <2>5, <2>6, <2>7, WindowEndsPlan DEF Next
  <1>3. PlanInv => OptimalWhenAllFree
    BY DEF PlanInv
  <1> QED BY <1>1, <1>2, <1>3, LoopInvHolds, PTL DEF Spec
===============================================================================
