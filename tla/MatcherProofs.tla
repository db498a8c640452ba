---------------------------- MODULE MatcherProofs ----------------------------
(***************************************************************************)
(* Theorems about Matcher, for any number of instances, goroutines,        *)
(* drivers and requests and any lengths of the timers.                     *)
(***************************************************************************)
EXTENDS Matcher, FiniteSetTheorems, TLAPS

\* What a /nearby answer holds: drivers.
LEMMA NearbyListType == NearbyList \subseteq Seq(Driver)
  <1>1. \A n \in 0..MaxNearby : n \in Nat
    BY MatcherAssumption
  <1>2. \A n \in Nat : [1..n -> Driver] \subseteq Seq(Driver)
    OBVIOUS
  <1> QED BY <1>1, <1>2 DEF NearbyList

\* Every step keeps the types.
LEMMA TypeStep == TypeOK /\ [Next]_vars => TypeOK'
  <1> USE MatcherAssumption DEF PC, Holding, Announced
  <1> SUFFICES ASSUME TypeOK, [Next]_vars PROVE TypeOK'
    OBVIOUS
  <1> USE DEF TypeOK, Goto, Publish, redis, locals
  <1>1. ASSUME NEW h \in Handler, NEW r \in Req, HandleRequest(h, r)
        PROVE  TypeOK'
    BY <1>1 DEF HandleRequest
  <1>2. ASSUME NEW h \in Handler, AnswerExisting(h)
        PROVE  TypeOK'
    BY <1>2 DEF AnswerExisting, Return
  <1>3. ASSUME NEW h \in Handler, NotAssigned(h)
        PROVE  TypeOK'
    BY <1>3 DEF NotAssigned
  <1>4. ASSUME NEW h \in Handler, FetchNearby(h)
        PROVE  TypeOK'
    BY <1>4, NearbyListType DEF FetchNearby
  <1>5. ASSUME NEW h \in Handler, Claim(h)
        PROVE  TypeOK'
    BY <1>5 DEF Claim, SetNX
  <1>6. ASSUME NEW h \in Handler, ClaimRefused(h)
        PROVE  TypeOK'
    BY <1>6 DEF ClaimRefused, NextCandidate
  <1>7. ASSUME NEW h \in Handler, ClaimLost(h)
        PROVE  TypeOK'
    BY <1>7 DEF ClaimLost, SetNX, NextCandidate
  <1>8. ASSUME NEW h \in Handler, Unmatched(h)
        PROVE  TypeOK'
    BY <1>8 DEF Unmatched, Return
  <1>9. ASSUME NEW h \in Handler, RecordAssigned(h)
        PROVE  TypeOK'
    <2>1. drv[h] \in Driver /\ req[h] \in Req /\ HostOf[h] \in Instance
      BY <1>9 DEF RecordAssigned
    <2>2. assigned' \in [Req -> Driver \union {None}]
      BY <2>1, <1>9 DEF RecordAssigned
    <2>3. activeTrips' \in [Instance -> Int]
      BY <2>1, <1>9 DEF RecordAssigned
    <2> QED BY <2>2, <2>3, <1>9 DEF RecordAssigned
  <1>10. ASSUME NEW h \in Handler, PublishAssigned(h)
         PROVE  TypeOK'
    BY <1>10 DEF PublishAssigned
  <1>11. ASSUME NEW h \in Handler, PublishCompleted(h)
         PROVE  TypeOK'
    BY <1>11 DEF PublishCompleted
  <1>12. ASSUME NEW h \in Handler, ReleaseLock(h)
         PROVE  TypeOK'
    <2>1. drv[h] \in Driver
      BY <1>12 DEF ReleaseLock
    <2>2. ttl' \in [Driver -> 0..LockTTL] /\ lockVal' \in [Driver -> Req \union {None}]
      <3>1. 0 \in 0..LockTTL
        OBVIOUS
      <3>2. CASE Del(drv[h])
        BY <3>1, <3>2, <2>1 DEF Del
      <3>3. CASE UNCHANGED <<ttl, lockVal>>
        BY <3>3
      <3> QED BY <3>2, <3>3, <1>12 DEF ReleaseLock
    <2> QED BY <2>2, <1>12 DEF ReleaseLock
  <1>13. ASSUME NEW h \in Handler, ReleaseRetried(h)
         PROVE  TypeOK'
    BY <1>13 DEF ReleaseRetried, Del
  <1>14. ASSUME NEW h \in Handler, ForgetRequest(h)
         PROVE  TypeOK'
    <2>1. req[h] \in Req /\ HostOf[h] \in Instance
      BY <1>14 DEF ForgetRequest
    <2>2. assigned' \in [Req -> Driver \union {None}]
      BY <2>1, <1>14 DEF ForgetRequest
    <2>3. activeTrips' \in [Instance -> Int]
      BY <2>1, <1>14 DEF ForgetRequest
    <2> QED BY <2>2, <2>3, <1>14 DEF ForgetRequest, Return
  <1>15. ASSUME NEW i \in Instance, Crash(i)
         PROVE  TypeOK'
    BY <1>15 DEF Crash, Survives
  <1>16. CASE Tick
    BY <1>16 DEF Tick, OrphanEnds
  <1>17. CASE UNCHANGED vars
    BY <1>17 DEF vars
  <1>18. ASSUME NEW h \in Handler, RecordRetried(h) \/ ForgetRetried(h)
         PROVE  TypeOK'
    <2>1. req[h] \in Req /\ (pc[h] = "assign" => drv[h] \in Driver)
      BY <1>18 DEF RecordRetried, ForgetRetried
    <2>2. assigned' \in [Req -> Driver \union {None}]
      BY <2>1, <1>18 DEF RecordRetried, ForgetRetried
    <2> QED BY <2>2, <1>18 DEF RecordRetried, ForgetRetried
  <1> QED
    BY <1>1, <1>2, <1>3, <1>4, <1>5, <1>6, <1>7, <1>8, <1>9, <1>10, <1>11,
       <1>12, <1>13, <1>14, <1>15, <1>16, <1>17, <1>18 DEF Next, Step

\* The variables have their types in every reachable state: every program
\* counter, TTL and hash entry is one the code can produce.
THEOREM TypeCorrect == Spec => []TypeOK
  <1>1. Init => TypeOK
    BY MatcherAssumption DEF Init, TypeOK, PC, Holding, Announced
  <1> QED BY <1>1, TypeStep, PTL DEF Spec

-------------------------------------------------------------------------------
(* Double booking.  With Timely the key of a goroutine is never older than   *)
(* HoldMax, so it is there; hence SET NX by another one fails, and DEL by    *)
(* its owner removes the owner's own key.                                    *)

\* What IInv says of one goroutine.
Local(h) == OwnsKey(h) /\ InTime(h) /\ OrphanCovered(h)

\* The time bounds are numbers.
LEMMA Bounds == RouteMax \in Nat /\ HoldMax \in Nat /\ RouteMax + MaxDur = HoldMax
  BY MatcherAssumption DEF RouteMax, HoldMax

\* The key of a driver that is tied up is there.
LEMMA OccupiedIsLocked ==
    ASSUME Timely, IInv, NEW h \in Handler, Occupies(h)
    PROVE  drv[h] \in Driver /\ ttl[drv[h]] > 0 /\ lockVal[drv[h]] = req[h]
  <1>1. drv[h] \in Driver /\ ttl[drv[h]] \in 0..LockTTL /\ age[h] \in Nat /\ left[h] \in Nat
    BY MatcherAssumption DEF IInv, TypeOK, Occupies
  <1>2. OwnsKey(h) /\ InTime(h) /\ OrphanCovered(h)
    BY DEF IInv
  <1>3. CASE pc[h] \in Holding
    <2>1. age[h] <= HoldMax
      BY <1>1, <1>2, <1>3, Bounds, MatcherAssumption DEF InTime, Holding
    <2> QED
      BY <2>1, <1>1, <1>2, <1>3, Bounds, MatcherAssumption DEF Timely, OwnsKey
  <1>4. CASE pc[h] = "orphan"
    BY <1>4, <1>1, <1>2 DEF OrphanCovered
  <1> QED BY <1>3, <1>4 DEF Occupies, Holding, Announced

\* IInv holds to begin with.
LEMMA IInvInit == Init => IInv
  BY MatcherAssumption
  DEF Init, IInv, TypeOK, PC, KeysHaveValues, OwnsKey, InTime, OrphanCovered,
      NoDoubleBooking, Occupies, Holding, Announced

\* Steps of h that touch no key, no clock and nobody's driver keep IInv.
LEMMA QuietStep ==
    ASSUME IInv, TypeOK', UNCHANGED <<ttl, lockVal>>, NEW h \in Handler,
           ~Occupies(h)',
           \A g \in Handler \ {h} :
               /\ pc'[g] = pc[g] /\ req'[g] = req[g] /\ drv'[g] = drv[g]
               /\ age'[g] = age[g] /\ left'[g] = left[g]
    PROVE  IInv'
  <1>1. \A g \in Handler \ {h} : Local(g)'
    BY DEF IInv, Local, OwnsKey, InTime, OrphanCovered
  <1>2. Local(h)'
    BY DEF Occupies, Holding, Announced, Local, OwnsKey, InTime, OrphanCovered
  <1>3. KeysHaveValues'
    BY DEF IInv, KeysHaveValues
  <1>4. NoDoubleBooking'
    BY DEF IInv, NoDoubleBooking, Occupies
  <1> QED BY <1>1, <1>2, <1>3, <1>4 DEF IInv, Local

\* Every step keeps IInv, unless a DEL is sent twice.
LEMMA IInvStep ==
    ASSUME Timely, "REDEL" \notin Faults, IInv, [Next]_vars
    PROVE  IInv'
  <1>0. TypeOK /\ TypeOK'
    BY TypeStep DEF IInv
  <1> USE DEF TypeOK, Goto, Publish, redis, locals
  <1>1. ASSUME NEW h \in Handler, NEW r \in Req, HandleRequest(h, r)
        PROVE  IInv'
    BY <1>0, <1>1, QuietStep DEF HandleRequest, Occupies, Holding, Announced
  <1>2. ASSUME NEW h \in Handler, AnswerExisting(h) \/ Unmatched(h)
        PROVE  IInv'
    BY <1>0, <1>2, QuietStep
    DEF AnswerExisting, Unmatched, Return, Occupies, Holding, Announced
  <1>3. ASSUME NEW h \in Handler, NotAssigned(h) \/ FetchNearby(h) \/ ClaimRefused(h)
        PROVE  IInv'
    BY <1>0, <1>3, QuietStep
    DEF NotAssigned, FetchNearby, ClaimRefused, NextCandidate, Occupies, Holding, Announced
  <1>4. ASSUME NEW h \in Handler, ForgetRequest(h) \/ ForgetRetried(h)
        PROVE  IInv'
    BY <1>0, <1>4, QuietStep
    DEF ForgetRequest, ForgetRetried, Return, Occupies, Holding, Announced
  <1>5. ASSUME NEW h \in Handler, Claim(h)
        PROVE  IInv'
    <2> DEFINE d == Head(cands[h])
    <2>1. d \in Driver /\ req[h] \in Req
      BY <1>0, <1>5 DEF Claim
    <2>2. \A g \in Handler : Occupies(g) => drv[g] # d
      BY <1>5, OccupiedIsLocked DEF Claim, SetNX
    <2>3. Local(h)'
      BY <1>0, <1>5, <2>1, Bounds, MatcherAssumption
      DEF Claim, SetNX, Local, OwnsKey, InTime, OrphanCovered, Holding
    <2>4. ASSUME NEW g \in Handler \ {h} PROVE Local(g)'
      BY <1>0, <1>5, <2>1, <2>2, <2>4
      DEF Claim, SetNX, IInv, Local, OwnsKey, InTime, OrphanCovered, Holding,
          Occupies, Announced
    <2>5. KeysHaveValues'
      BY <1>0, <1>5, <2>1, MatcherAssumption DEF Claim, SetNX, IInv, KeysHaveValues
    <2>6. NoDoubleBooking'
      BY <1>0, <1>5, <2>2 DEF Claim, IInv, NoDoubleBooking, Occupies, Holding, Announced
    <2> QED BY <1>0, <2>3, <2>4, <2>5, <2>6 DEF IInv, Local
  <1>6. ASSUME NEW h \in Handler, ClaimLost(h)
        PROVE  IInv'
    <2> DEFINE d == Head(cands[h])
    <2>1. d \in Driver /\ req[h] \in Req
      BY <1>0, <1>6 DEF ClaimLost
    <2>2. \A g \in Handler : Occupies(g) => drv[g] # d
      BY <1>6, OccupiedIsLocked DEF ClaimLost, SetNX
    <2>3. ASSUME NEW g \in Handler PROVE Local(g)'
      BY <1>0, <1>6, <2>1, <2>2, <2>3
      DEF ClaimLost, SetNX, IInv, Local, OwnsKey, InTime, OrphanCovered, Holding,
          Occupies, Announced
    <2>4. KeysHaveValues'
      BY <1>0, <1>6, <2>1, MatcherAssumption DEF ClaimLost, SetNX, IInv, KeysHaveValues
    <2>5. NoDoubleBooking'
      BY <1>6 DEF ClaimLost, IInv, NoDoubleBooking, Occupies
    <2> QED BY <1>0, <2>3, <2>4, <2>5 DEF IInv, Local
  <1>7. ASSUME NEW h \in Handler, RecordAssigned(h) \/ RecordRetried(h)
        PROVE  IInv'
    <2>1. \A g \in Handler : Local(g)'
      BY <1>0, <1>7
      DEF RecordAssigned, RecordRetried, IInv, Local, OwnsKey, InTime, OrphanCovered, Holding
    <2>2. KeysHaveValues' /\ NoDoubleBooking'
      BY <1>0, <1>7
      DEF RecordAssigned, RecordRetried, IInv, KeysHaveValues, NoDoubleBooking, Occupies, Holding, Announced
    <2> QED BY <1>0, <2>1, <2>2 DEF IInv, Local
  <1>8. ASSUME NEW h \in Handler, PublishAssigned(h)
        PROVE  IInv'
    <2>1. left'[h] \in Nat /\ left'[h] <= MaxDur /\ age[h] \in Nat
      BY <1>0, <1>8, MatcherAssumption DEF PublishAssigned
    <2>2. Local(h)'
      BY <1>0, <1>8, <2>1, Bounds, MatcherAssumption
      DEF PublishAssigned, IInv, Local, OwnsKey, InTime, OrphanCovered, Holding
    <2>3. ASSUME NEW g \in Handler \ {h} PROVE Local(g)'
      BY <1>0, <1>8, <2>3
      DEF PublishAssigned, IInv, Local, OwnsKey, InTime, OrphanCovered, Holding
    <2>4. KeysHaveValues' /\ NoDoubleBooking'
      BY <1>0, <1>8
      DEF PublishAssigned, IInv, KeysHaveValues, NoDoubleBooking, Occupies, Holding, Announced
    <2> QED BY <1>0, <2>2, <2>3, <2>4 DEF IInv, Local
  <1>9. ASSUME NEW h \in Handler, PublishCompleted(h)
        PROVE  IInv'
    <2>1. \A g \in Handler : Local(g)'
      BY <1>0, <1>9 DEF PublishCompleted, IInv, Local, OwnsKey, InTime, OrphanCovered, Holding
    <2>2. KeysHaveValues' /\ NoDoubleBooking'
      BY <1>0, <1>9
      DEF PublishCompleted, IInv, KeysHaveValues, NoDoubleBooking, Occupies, Holding, Announced
    <2> QED BY <1>0, <2>1, <2>2 DEF IInv, Local
  <1>10. ASSUME NEW h \in Handler, ReleaseLock(h)
         PROVE  IInv'
    <2>1. drv[h] \in Driver /\ Occupies(h)
      BY <1>0, <1>10 DEF ReleaseLock, Occupies, Holding
    <2>2. ASSUME NEW g \in Handler \ {h}, Occupies(g) PROVE drv[g] # drv[h]
      BY <2>1, <2>2 DEF IInv, NoDoubleBooking
    <2>3. Local(h)'
      BY <1>0, <1>10 DEF ReleaseLock, Local, OwnsKey, InTime, OrphanCovered, Holding
    <2>4. ASSUME NEW g \in Handler \ {h} PROVE Local(g)'
      BY <1>0, <1>10, <2>1, <2>2, <2>4
      DEF ReleaseLock, Del, IInv, Local, OwnsKey, InTime, OrphanCovered, Holding,
          Occupies, Announced
    <2>5. KeysHaveValues'
      BY <1>0, <1>10, <2>1 DEF ReleaseLock, Del, IInv, KeysHaveValues
    <2>6. NoDoubleBooking'
      BY <1>0, <1>10 DEF ReleaseLock, IInv, NoDoubleBooking, Occupies, Holding, Announced
    <2> QED BY <1>0, <2>3, <2>4, <2>5, <2>6 DEF IInv, Local
  <1>11. ASSUME NEW i \in Instance, Crash(i)
         PROVE  IInv'
    <2>1. ASSUME NEW h \in Handler, HostOf[h] = i, pc[h] = "riding", left[h] > 0
          PROVE  OrphanCovered(h)'
      <3>1. ttl[drv[h]] = LockTTL - age[h] /\ lockVal[drv[h]] = req[h]
        BY <2>1 DEF IInv, OwnsKey, Holding
      <3>2. age[h] + left[h] < LockTTL
        BY <1>0, <2>1, Bounds, MatcherAssumption DEF IInv, InTime, Timely
      <3>3. left[h] < ttl[drv[h]]
        BY <1>0, <3>1, <3>2, MatcherAssumption
      <3> QED BY <1>0, <1>11, <2>1, <3>1, <3>3 DEF Crash, Survives, OrphanCovered
    <2>2. ASSUME NEW h \in Handler PROVE Local(h)'
      BY <1>0, <1>11, <2>1, <2>2
      DEF Crash, Survives, IInv, Local, OwnsKey, InTime, OrphanCovered, Holding
    <2>3. KeysHaveValues'
      BY <1>11 DEF Crash, IInv, KeysHaveValues
    <2>4. \A h \in Handler : Occupies(h)' => Occupies(h) /\ drv'[h] = drv[h]
      BY <1>0, <1>11 DEF Crash, Survives, Occupies, Holding, Announced
    <2>5. NoDoubleBooking'
      BY <2>4 DEF IInv, NoDoubleBooking
    <2> QED BY <1>0, <2>2, <2>3, <2>5 DEF IInv, Local
  <1>12. CASE Tick
    <2>1. ASSUME NEW h \in Handler PROVE OwnsKey(h)'
      <3>1. SUFFICES ASSUME pc'[h] \in Holding PROVE OwnsKey(h)'
        BY DEF OwnsKey
      <3>2. pc[h] \in Holding /\ drv'[h] = drv[h] /\ req'[h] = req[h]
            /\ age'[h] = age[h] + 1 /\ drv[h] \in Driver
        BY <1>0, <1>12, <3>1 DEF Tick, OrphanEnds, Holding
      <3>3. ttl[drv[h]] = LockTTL - age[h] /\ lockVal[drv[h]] = req[h]
        BY <3>2 DEF IInv, OwnsKey
      <3>4. age[h] < HoldMax
        BY <1>0, <1>12, <3>2, Bounds, MatcherAssumption DEF Tick, MayWait, IInv, InTime, Holding
      <3>5. ttl[drv[h]] > 1
        BY <1>0, <3>3, <3>4, Bounds, MatcherAssumption DEF Timely
      <3> QED BY <1>0, <1>12, <3>2, <3>3, <3>5, MatcherAssumption DEF Tick, OwnsKey
    <2>2. ASSUME NEW h \in Handler PROVE InTime(h)'
      BY <1>0, <1>12, Bounds, MatcherAssumption
      DEF Tick, OrphanEnds, MayWait, IInv, InTime, Holding
    <2>3. ASSUME NEW h \in Handler PROVE OrphanCovered(h)'
      BY <1>0, <1>12, MatcherAssumption DEF Tick, OrphanEnds, IInv, OrphanCovered, Announced
    <2>4. KeysHaveValues'
      BY <1>0, <1>12, MatcherAssumption DEF Tick, IInv, KeysHaveValues
    <2>5. NoDoubleBooking'
      BY <1>0, <1>12 DEF Tick, OrphanEnds, IInv, NoDoubleBooking, Occupies, Holding, Announced
    <2> QED BY <1>0, <2>1, <2>2, <2>3, <2>4, <2>5 DEF IInv
  <1>13. CASE UNCHANGED vars
    BY <1>0, <1>13
    DEF vars, IInv, KeysHaveValues, OwnsKey, InTime, OrphanCovered, NoDoubleBooking, Occupies
  <1> QED
    BY <1>1, <1>2, <1>3, <1>4, <1>5, <1>6, <1>7, <1>8, <1>9, <1>10, <1>11, <1>12, <1>13
    DEF Next, Step, ReleaseRetried

\* The keys, the clocks and the goroutines stay in step.
THEOREM Inductive == ASSUME Timely, "REDEL" \notin Faults PROVE Spec => []IInv
  BY IInvInit, IInvStep, PTL DEF Spec

\* No two attempts ever have the same driver, whatever requests, instances,
\* crashes and failing commands there are: the promise of docs/adr/0006.
THEOREM DriversNotDoubleBooked ==
    ASSUME Timely, "REDEL" \notin Faults PROVE Spec => []NoDoubleBooking
  <1>1. IInv => NoDoubleBooking
    BY DEF IInv
  <1> QED BY <1>1, Inductive, PTL

\* A trip's driver is locked for its request as long as the trip lasts, also
\* when the matcher that announced it crashed.
THEOREM TripsStayLocked ==
    ASSUME Timely, "REDEL" \notin Faults PROVE Spec => []TripsAreLocked
  <1>1. IInv => TripsAreLocked
    BY OccupiedIsLocked DEF TripsAreLocked, Occupies
  <1> QED BY <1>1, Inductive, PTL

-------------------------------------------------------------------------------
(* The matcher implements Dispatch.  The trips of a driver change only when  *)
(* a goroutine announces one, or some of those under way are over.           *)

\* When the trips of the goroutines in E end and all others go on, exactly
\* the drivers of E lose their riders: nobody else is on a trip with them.
LEMMA TripsEnd ==
    ASSUME IInv, NEW E \in SUBSET Handler,
           \A g \in E : pc[g] \in Announced,
           \A g \in Handler : pc'[g] \in Announced <=> pc[g] \in Announced /\ g \notin E,
           \A g \in Handler : pc'[g] \in Announced => drv'[g] = drv[g] /\ req'[g] = req[g]
    PROVE  ridersOf' = [d \in Driver |->
                           IF d \in {drv[g] : g \in E} THEN {} ELSE ridersOf[d]]
  <1>1. ASSUME NEW d \in Driver, d \in {drv[g] : g \in E}
        PROVE  OnTrip(d)' = {}
    BY <1>1 DEF OnTrip, IInv, NoDoubleBooking, Occupies
  <1>2. ASSUME NEW d \in Driver, d \notin {drv[g] : g \in E}
        PROVE  OnTrip(d)' = OnTrip(d) /\ \A h \in OnTrip(d) : req'[h] = req[h]
    BY <1>2 DEF OnTrip
  <1> QED BY <1>1, <1>2 DEF ridersOf

\* Its special case: no trip ends and none begins.
LEMMA TripsGoOn ==
    ASSUME IInv,
           \A g \in Handler : pc'[g] \in Announced <=> pc[g] \in Announced,
           \A g \in Handler : pc'[g] \in Announced => drv'[g] = drv[g] /\ req'[g] = req[g]
    PROVE  ridersOf' = ridersOf
  <1>1. \A d \in Driver : OnTrip(d)' = OnTrip(d) /\ \A h \in OnTrip(d) : req'[h] = req[h]
    BY DEF OnTrip
  <1> QED BY <1>1 DEF ridersOf

\* A driver's riders are on trips of goroutines tied up with it.
LEMMA RidersAreTrips ==
    ASSUME NEW d \in Driver PROVE ridersOf[d] = {} <=> OnTrip(d) = {}
  BY DEF ridersOf

\* The initial state is one of Dispatch.
LEMMA DispatchInit == Init => Abstract!Init
  BY DEF Init, Abstract!Init, ridersOf, OnTrip, Announced

\* Every step of the matcher is a step of Dispatch or leaves it unchanged.
LEMMA DispatchStep ==
    ASSUME Timely, "REDEL" \notin Faults, IInv, [Next]_vars
    PROVE  [Abstract!Next]_(Abstract!vars)
  <1>0. TypeOK
    BY DEF IInv
  <1> USE DEF TypeOK, Goto, Publish, redis, locals
  <1>1. ASSUME NEW h \in Handler, NEW r \in Req, HandleRequest(h, r)
        PROVE  UNCHANGED <<lockVal, ridersOf>>
    <2>1. ridersOf' = ridersOf
      BY <1>0, <1>1, TripsGoOn DEF HandleRequest, Announced
    <2> QED BY <1>1, <2>1 DEF HandleRequest
  <1>2. ASSUME NEW h \in Handler,
               \/ AnswerExisting(h) \/ NotAssigned(h) \/ FetchNearby(h) \/ ClaimRefused(h)
               \/ Unmatched(h) \/ RecordAssigned(h) \/ RecordRetried(h)
               \/ ForgetRequest(h) \/ ForgetRetried(h)
        PROVE  UNCHANGED <<lockVal, ridersOf>>
    <2>1. ridersOf' = ridersOf
      BY <1>0, <1>2, TripsGoOn
      DEF AnswerExisting, NotAssigned, FetchNearby, ClaimRefused, NextCandidate,
          Unmatched, RecordAssigned, RecordRetried, ForgetRequest, ForgetRetried,
          Return, Announced
    <2> QED BY <1>2, <2>1 DEF AnswerExisting, NotAssigned, FetchNearby, ClaimRefused,
                              Unmatched, RecordAssigned, RecordRetried,
                              ForgetRequest, ForgetRetried
  <1>3. ASSUME NEW h \in Handler, Claim(h) \/ ClaimLost(h)
        PROVE  \E d \in Driver, r \in Req : Abstract!Book(d, r)
    <2> DEFINE d == Head(cands[h])
    <2>1. d \in Driver /\ req[h] \in Req
      BY <1>0, <1>3 DEF Claim, ClaimLost
    <2>2. lockVal[d] = None /\ lockVal' = [lockVal EXCEPT ![d] = req[h]]
      BY <1>0, <1>3, <2>1 DEF Claim, ClaimLost, SetNX, IInv, KeysHaveValues
    <2>3. ridersOf' = ridersOf
      BY <1>0, <1>3, TripsGoOn DEF Claim, ClaimLost, NextCandidate, Announced
    <2>4. Abstract!Book(d, req[h])
      BY <2>2, <2>3 DEF Abstract!Book
    <2> QED BY <2>1, <2>4
  <1>4. ASSUME NEW h \in Handler, PublishAssigned(h)
        PROVE  \E d \in Driver : Abstract!Start(d)
    <2>0. PICK d \in Driver : d = drv[h]
      BY <1>0, <1>4 DEF PublishAssigned, Holding
    <2>1. Occupies(h)
      BY <1>4 DEF PublishAssigned, Occupies, Holding
    <2>2. lockVal[d] = req[h] /\ lockVal[d] # None
      BY <1>0, <2>0, <2>1, OccupiedIsLocked DEF IInv, KeysHaveValues
    <2>3. OnTrip(d) = {}
      BY <1>4, <2>0, <2>1 DEF OnTrip, PublishAssigned, IInv, NoDoubleBooking, Occupies, Announced
    <2>4. OnTrip(d)' = {h} /\ req' = req
      BY <1>0, <1>4, <2>0, <2>3 DEF OnTrip, PublishAssigned, Announced
    <2>5. ASSUME NEW e \in Driver \ {d} PROVE OnTrip(e)' = OnTrip(e)
      BY <1>0, <1>4, <2>0, <2>5 DEF OnTrip, PublishAssigned, Announced
    <2>6. ridersOf' = [ridersOf EXCEPT ![d] = {lockVal[d]}]
      <3>1. {req'[g] : g \in OnTrip(d)'} = {lockVal[d]}
        BY <2>2, <2>4
      <3>2. \A e \in Driver \ {d} :
               {req'[g] : g \in OnTrip(e)'} = {req[g] : g \in OnTrip(e)}
        BY <2>4, <2>5
      <3>3. ridersOf' = [e \in Driver |-> {req'[g] : g \in OnTrip(e)'}]
        BY DEF ridersOf
      <3>4. \A e \in Driver : ridersOf'[e] = IF e = d THEN {lockVal[d]} ELSE ridersOf[e]
        <4>1. ASSUME NEW e \in Driver \ {d} PROVE ridersOf'[e] = ridersOf[e]
          BY <3>2, <3>3, <4>1 DEF ridersOf
        <4>2. ridersOf'[d] = {lockVal[d]}
          BY <2>2, <3>1, <3>3
        <4> QED BY <4>1, <4>2
      <3>5. ridersOf = [e \in Driver |-> ridersOf[e]]
        BY DEF ridersOf
      <3> QED BY <3>3, <3>4, <3>5
    <2>7. ridersOf[d] = {}
      BY <2>3, RidersAreTrips
    <2>8. Abstract!Start(d)
      BY <1>4, <2>2, <2>6, <2>7 DEF Abstract!Start, PublishAssigned
    <2> QED BY <2>8
  <1>5. ASSUME NEW h \in Handler, PublishCompleted(h)
        PROVE  \E done, freed \in SUBSET Driver : Abstract!Lapse(done, freed)
    <2>1. drv[h] \in Driver /\ pc[h] \in Announced
      BY <1>0, <1>5 DEF PublishCompleted, Announced
    <2>2. ridersOf' = [d \in Driver |->
                          IF d \in {drv[g] : g \in {h}} THEN {} ELSE ridersOf[d]]
      BY <1>0, <1>5, <2>1, TripsEnd DEF PublishCompleted, Announced
    <2>3. ridersOf[drv[h]] # {}
      BY <2>1, RidersAreTrips DEF OnTrip
    <2>4. lockVal' = [d \in Driver |-> IF d \in {} THEN None ELSE lockVal[d]]
      BY <1>0, <1>5 DEF PublishCompleted
    <2>5. Abstract!Lapse({drv[h]}, {})
      BY <2>2, <2>3, <2>4 DEF Abstract!Lapse
    <2> QED BY <2>1, <2>5
  <1>6. ASSUME NEW h \in Handler, ReleaseLock(h)
        PROVE  [Abstract!Next]_(Abstract!vars)
    <2>1. drv[h] \in Driver /\ Occupies(h)
      BY <1>0, <1>6 DEF ReleaseLock, Occupies, Holding
    <2>2. ridersOf' = ridersOf
      BY <1>0, <1>6, TripsGoOn DEF ReleaseLock, Announced
    <2>3. CASE Del(drv[h])
      <3>1. lockVal[drv[h]] # None
        BY <2>1, OccupiedIsLocked DEF IInv, KeysHaveValues
      <3>2. OnTrip(drv[h]) = {}
        BY <1>6, <2>1 DEF ReleaseLock, OnTrip, IInv, NoDoubleBooking, Occupies, Announced
      <3>3. lockVal' = [d \in Driver |-> IF d \in {drv[h]} THEN None ELSE lockVal[d]]
        BY <1>0, <2>3, <2>1 DEF Del
      <3>4. ridersOf' = [d \in Driver |-> IF d \in {} THEN {} ELSE ridersOf[d]]
        BY <2>2 DEF ridersOf
      <3>5. Abstract!Lapse({}, {drv[h]})
        BY <2>1, <3>1, <3>2, <3>3, <3>4, RidersAreTrips DEF Abstract!Lapse
      <3> QED BY <2>1, <3>5 DEF Abstract!Next
    <2>4. CASE UNCHANGED <<ttl, lockVal>>
      BY <2>2, <2>4 DEF Abstract!vars
    <2> QED BY <1>6, <2>3, <2>4 DEF ReleaseLock
  <1>7. ASSUME NEW i \in Instance, Crash(i)
        PROVE  \E done, freed \in SUBSET Driver : Abstract!Lapse(done, freed)
    <2> DEFINE E == {h \in Handler : HostOf[h] = i /\ pc[h] = "riding" /\ left[h] = 0}
               D == {drv[g] : g \in E}
    <2>1. D \in SUBSET Driver /\ \A g \in E : pc[g] \in Announced
      BY <1>0 DEF Announced
    <2>2. \A g \in Handler : pc'[g] \in Announced <=> pc[g] \in Announced /\ g \notin E
      BY <1>0, <1>7, MatcherAssumption DEF Crash, Survives, Announced
    <2>3. \A g \in Handler : pc'[g] \in Announced => drv'[g] = drv[g] /\ req'[g] = req[g]
      BY <1>0, <1>7 DEF Crash, Survives, Announced
    <2>4. ridersOf' = [d \in Driver |-> IF d \in D THEN {} ELSE ridersOf[d]]
      BY <2>1, <2>2, <2>3, TripsEnd
    <2>5. \A d \in D : ridersOf[d] # {}
      BY <2>1, RidersAreTrips DEF OnTrip
    <2>6. lockVal' = [d \in Driver |-> IF d \in {} THEN None ELSE lockVal[d]]
      BY <1>0, <1>7 DEF Crash
    <2>7. Abstract!Lapse(D, {})
      BY <2>4, <2>5, <2>6 DEF Abstract!Lapse
    <2> QED BY <2>1, <2>7
  <1>8. CASE Tick
    <2> DEFINE E == {h \in Handler : OrphanEnds(h)}
               D == {drv[g] : g \in E}
               F == {d \in Driver : ttl[d] = 1}
    <2>1. D \in SUBSET Driver /\ \A g \in E : pc[g] \in Announced
      BY <1>0 DEF OrphanEnds, Announced
    <2>2. \A g \in Handler : pc'[g] \in Announced <=> pc[g] \in Announced /\ g \notin E
      BY <1>0, <1>8 DEF Tick, OrphanEnds, Announced
    <2>3. \A g \in Handler : pc'[g] \in Announced => drv'[g] = drv[g] /\ req'[g] = req[g]
      BY <1>0, <1>8 DEF Tick, OrphanEnds, Announced
    <2>4. ridersOf' = [d \in Driver |-> IF d \in D THEN {} ELSE ridersOf[d]]
      BY <2>1, <2>2, <2>3, TripsEnd
    <2>5. \A d \in D : ridersOf[d] # {}
      BY <2>1, RidersAreTrips DEF OnTrip
    <2>6. ASSUME NEW h \in Handler, pc[h] \in Announced PROVE ttl[drv[h]] > 1
      <3>0. drv[h] \in Driver /\ ttl[drv[h]] \in Nat /\ left[h] \in Nat
        BY <1>0, <2>6, MatcherAssumption
      <3>1. CASE pc[h] = "orphan"
        BY <3>0, <3>1 DEF IInv, OrphanCovered
      <3>2. CASE pc[h] = "riding"
        <4>1. age[h] < HoldMax
          BY <1>0, <1>8, <3>2, Bounds, MatcherAssumption DEF Tick, MayWait, IInv, InTime
        <4>2. ttl[drv[h]] = LockTTL - age[h]
          BY <3>2 DEF IInv, OwnsKey, Holding
        <4> QED BY <1>0, <4>1, <4>2, Bounds, MatcherAssumption DEF Timely
      <3> QED BY <2>6, <3>1, <3>2 DEF Announced
    <2>7. \A d \in F : lockVal[d] # None /\ ridersOf[d] = {}
      <3>1. \A d \in F : lockVal[d] # None
        BY <1>0 DEF IInv, KeysHaveValues
      <3>2. \A d \in F : OnTrip(d) = {}
        BY <2>6 DEF OnTrip
      <3> QED BY <3>1, <3>2, RidersAreTrips
    <2>8. lockVal' = [d \in Driver |-> IF d \in F THEN None ELSE lockVal[d]]
      <3>1. \A d \in Driver : ttl[d] = 0 => lockVal[d] = None
        BY DEF IInv, KeysHaveValues
      <3> QED BY <1>0, <1>8, <3>1, MatcherAssumption DEF Tick
    <2>9. Abstract!Lapse(D, F)
      BY <2>4, <2>5, <2>7, <2>8 DEF Abstract!Lapse
    <2> QED BY <2>1, <2>9 DEF Abstract!Next
  <1>9. CASE UNCHANGED vars
    <2>1. ridersOf' = ridersOf
      BY <1>9, TripsGoOn DEF vars
    <2> QED BY <1>9, <2>1 DEF vars, Abstract!vars
  <1>10. UNCHANGED <<lockVal, ridersOf>> => [Abstract!Next]_(Abstract!vars)
    BY DEF Abstract!vars
  <1>11. \A h \in Handler : ~ReleaseRetried(h)
    BY DEF ReleaseRetried
  <1>12. \A h \in Handler : Step(h) => [Abstract!Next]_(Abstract!vars)
    BY <1>2, <1>3, <1>4, <1>5, <1>6, <1>10, <1>11 DEF Step, Abstract!Next
  <1>13. \A i \in Instance : Crash(i) => [Abstract!Next]_(Abstract!vars)
    BY <1>7 DEF Abstract!Next
  <1> QED BY <1>1, <1>8, <1>9, <1>10, <1>12, <1>13 DEF Next

\* From the drivers' point of view the matcher is Dispatch: Redis keys, TTLs,
\* crashes and failing commands never let a driver pass from one request to
\* another without having been free.
THEOREM MatcherImplementsDispatch ==
    ASSUME Timely, "REDEL" \notin Faults PROVE Spec => ImplementsDispatch
  <1>1. IInv /\ [Next]_vars => [Abstract!Next]_(Abstract!vars)
    BY DispatchStep
  <1> QED BY <1>1, DispatchInit, Inductive, PTL DEF Spec, Abstract!Spec, ImplementsDispatch

\* What Dispatch is for, proved of Dispatch alone: a driver carries one request at
\* most, the one it is held for, which assign() and its goroutine must not break.
THEOREM OneRiderEach == Abstract!Spec => [](Abstract!TypeOK /\ Abstract!TripOnHeldDriver)
  <1> DEFINE DInv == Abstract!TypeOK /\ Abstract!TripOnHeldDriver
  <1>1. Abstract!Init => DInv
    BY DEF Abstract!Init, Abstract!TypeOK, Abstract!TripOnHeldDriver
  <1>2. DInv /\ [Abstract!Next]_(Abstract!vars) => DInv'
    <2> SUFFICES ASSUME Abstract!TypeOK, Abstract!TripOnHeldDriver, [Abstract!Next]_(Abstract!vars)
                 PROVE  DInv'
      OBVIOUS
    <2> USE DEF Abstract!TypeOK, Abstract!TripOnHeldDriver
    <2>1. ASSUME NEW d \in Driver, NEW r \in Req, Abstract!Book(d, r) PROVE DInv'
      BY <2>1 DEF Abstract!Book
    <2>2. ASSUME NEW d \in Driver, Abstract!Start(d) PROVE DInv'
      BY <2>2 DEF Abstract!Start
    <2>3. ASSUME NEW done \in SUBSET Driver, NEW freed \in SUBSET Driver,
                 Abstract!Lapse(done, freed)
          PROVE  DInv'
      BY <2>3 DEF Abstract!Lapse
    <2>4. CASE UNCHANGED Abstract!vars
      BY <2>4 DEF Abstract!vars
    <2> QED BY <2>1, <2>2, <2>3, <2>4 DEF Abstract!Next
  <1> QED BY <1>1, <1>2, PTL DEF Abstract!Spec

\* So the matcher keeps what Dispatch promises: while a trip is under way, its
\* request is the only one on the driver and the one the driver's key names.
THEOREM MatcherKeepsPromise ==
    ASSUME Timely, "REDEL" \notin Faults
    PROVE  Spec => []Abstract!TripOnHeldDriver
  <1>1. Spec => Abstract!Spec
    BY MatcherImplementsDispatch DEF ImplementsDispatch
  <1>2. Abstract!Spec => []Abstract!TripOnHeldDriver
    <2>1. Abstract!TypeOK /\ Abstract!TripOnHeldDriver => Abstract!TripOnHeldDriver
      OBVIOUS
    <2> QED BY <2>1, OneRiderEach, PTL
  <1> QED BY <1>1, <1>2

-------------------------------------------------------------------------------
(* Retries.  A request whose assignment is recorded does not get past the    *)
(* check; one goroutine at a time is past it with nothing recorded yet.      *)
(* Neither locks nor clocks matter, only that every HGET and HSET of         *)
(* req:assigned succeeds and that no HDEL is sent again after its answer was *)
(* lost: the one sent again would take away the entry of a later attempt.    *)

Careful == ~ConcurrentRetries /\ Faults \intersect {"HGET", "HSET", "REHDEL"} = {}

\* The rider has the answer.
Answered == {"riding", "release", "forget", "orphan"}

\* From HSET to HDEL the entry is there.
Recorded(h) == pc[h] \in {"route"} \union Answered =>
    drv[h] \in Driver /\ assigned[req[h]] = drv[h]

\* Of two goroutines with one request, one is a retry about to find the entry
\* of the other.
Retries(g, h) ==
    \/ pc[g] = "check" /\ pc[h] \in Answered
    \/ pc[h] = "check" /\ pc[g] \in Answered

RetryInv ==
    /\ TypeOK
    /\ \A h \in Handler : Recorded(h)
    /\ \A g, h \in Handler :
          g # h /\ pc[g] # "idle" /\ pc[h] # "idle" /\ req[g] = req[h] => Retries(g, h)

\* Nobody has asked yet.
LEMMA RetryInvInit == Init => RetryInv
  BY MatcherAssumption DEF Init, RetryInv, TypeOK, PC, Recorded, Answered, Holding, Announced

\* A step of h that neither begins nor records nor forgets an assignment.
LEMMA RetryQuiet ==
    ASSUME RetryInv, TypeOK', UNCHANGED assigned, NEW h \in Handler,
           \A g \in Handler \ {h} : pc'[g] = pc[g] /\ req'[g] = req[g] /\ drv'[g] = drv[g],
           \/ pc'[h] = "idle"
           \/ /\ req'[h] = req[h] /\ pc[h] \in PC \ {"idle"}
              /\ pc'[h] = pc[h] \/ (pc[h] # "check" /\ pc[h] \notin Answered)
                 \/ (pc[h] \in Answered /\ pc'[h] \in Answered),
           pc'[h] \in Answered => pc[h] \in {"route"} \union Answered /\ drv'[h] = drv[h],
           pc'[h] # "route", pc'[h] = "check" => pc[h] = "check"
    PROVE  RetryInv'
  <1>1. \A g \in Handler : Recorded(g)'
    BY DEF RetryInv, Recorded, Answered
  <1>2. \A f, g \in Handler :
          f # g /\ pc'[f] # "idle" /\ pc'[g] # "idle" /\ req'[f] = req'[g] => Retries(f, g)'
    BY DEF RetryInv, Retries, Answered
  <1> QED BY <1>1, <1>2 DEF RetryInv

\* Every step keeps it, if HGET and HSET do not fail, no HDEL is sent twice and
\* a rider waits for the answer before asking again.
LEMMA RetryInvStep ==
    ASSUME Careful, RetryInv, [Next]_vars
    PROVE  RetryInv'
  <1>0. TypeOK /\ TypeOK'
    BY TypeStep DEF RetryInv
  <1> USE DEF TypeOK, Goto, redis, locals
  <1>1. ASSUME NEW h \in Handler, NEW r \in Req, HandleRequest(h, r)
        PROVE  RetryInv'
    <2>1. /\ pc[h] = "idle" /\ pc' = [pc EXCEPT ![h] = "check"] /\ req' = [req EXCEPT ![h] = r]
          /\ UNCHANGED <<assigned, drv>>
          /\ \A g \in Handler : pc[g] \in Unanswered => req[g] # r
      BY <1>1 DEF HandleRequest, Careful
    <2>2. \A g \in Handler : pc[g] # "idle" /\ req[g] = r => pc[g] \in Answered
      BY <1>0, <2>1 DEF PC, Unanswered, Answered
    <2>3. \A g \in Handler : Recorded(g)'
      BY <1>0, <2>1 DEF RetryInv, Recorded, Answered
    <2>4. \A f, g \in Handler :
          f # g /\ pc'[f] # "idle" /\ pc'[g] # "idle" /\ req'[f] = req'[g] => Retries(f, g)'
      BY <1>0, <2>1, <2>2 DEF RetryInv, Retries, Answered
    <2> QED BY <1>0, <2>3, <2>4 DEF RetryInv
  <1>2. ASSUME NEW h \in Handler, AnswerExisting(h) \/ Unmatched(h)
        PROVE  RetryInv'
    BY <1>0, <1>2, RetryQuiet DEF AnswerExisting, Unmatched, Return, Answered
  <1>3. ASSUME NEW h \in Handler, NotAssigned(h)
        PROVE  RetryInv'
    <2>1. /\ pc[h] = "check" /\ pc' = [pc EXCEPT ![h] = "search"] /\ assigned[req[h]] = None
          /\ UNCHANGED <<assigned, req, drv>>
      BY <1>3 DEF NotAssigned, Careful
    <2>2. \A g \in Handler : pc[g] \in Answered => req[g] # req[h]
      BY <2>1, MatcherAssumption DEF RetryInv, Recorded
    <2>3. \A g \in Handler : Recorded(g)'
      BY <1>0, <2>1 DEF RetryInv, Recorded, Answered
    <2>4. \A f, g \in Handler :
          f # g /\ pc'[f] # "idle" /\ pc'[g] # "idle" /\ req'[f] = req'[g] => Retries(f, g)'
      BY <1>0, <2>1, <2>2 DEF RetryInv, Retries, Answered
    <2> QED BY <1>0, <2>3, <2>4 DEF RetryInv
  <1>4. ASSUME NEW h \in Handler, FetchNearby(h) \/ ClaimRefused(h) \/ ClaimLost(h) \/ Claim(h)
        PROVE  RetryInv'
    BY <1>0, <1>4, RetryQuiet
    DEF FetchNearby, ClaimRefused, ClaimLost, Claim, SetNX, NextCandidate, Answered, PC
  <1>5. ASSUME NEW h \in Handler, RecordAssigned(h)
        PROVE  RetryInv'
    <2>1. /\ pc[h] = "assign" /\ pc' = [pc EXCEPT ![h] = "route"]
          /\ assigned' = [assigned EXCEPT ![req[h]] = drv[h]]
          /\ UNCHANGED <<req, drv>> /\ req[h] \in Req /\ drv[h] \in Driver
      BY <1>0, <1>5 DEF RecordAssigned, Careful, Holding
    <2>2. \A g \in Handler : g # h /\ pc[g] # "idle" => req[g] # req[h]
      BY <2>1 DEF RetryInv, Retries, Answered
    <2>3. \A g \in Handler : Recorded(g)'
      BY <1>0, <2>1, <2>2 DEF RetryInv, Recorded, Answered
    <2>4. \A f, g \in Handler :
          f # g /\ pc'[f] # "idle" /\ pc'[g] # "idle" /\ req'[f] = req'[g] => Retries(f, g)'
      BY <1>0, <2>1, <2>2 DEF RetryInv, Retries, Answered
    <2> QED BY <1>0, <2>3, <2>4 DEF RetryInv
  <1>6. ASSUME NEW h \in Handler, PublishAssigned(h) \/ PublishCompleted(h) \/ ReleaseLock(h)
        PROVE  RetryInv'
    BY <1>0, <1>6, RetryQuiet DEF PublishAssigned, PublishCompleted, ReleaseLock, Answered, PC
  <1>7. ASSUME NEW h \in Handler, ReleaseRetried(h)
        PROVE  RetryInv'
    BY <1>0, <1>7, RetryQuiet DEF ReleaseRetried, Answered, PC
  <1>8. ASSUME NEW h \in Handler, ForgetRequest(h)
        PROVE  RetryInv'
    <2>1. /\ pc[h] = "forget" /\ pc' = [pc EXCEPT ![h] = "idle"] /\ req[h] \in Req
          /\ req' = [req EXCEPT ![h] = None] /\ drv' = [drv EXCEPT ![h] = None]
          /\ \A r \in Req : r # req[h] => assigned'[r] = assigned[r]
      BY <1>0, <1>8 DEF ForgetRequest, Return
    <2>2. \A g \in Handler : g # h /\ pc[g] # "idle" /\ req[g] = req[h] => pc[g] = "check"
      BY <2>1 DEF RetryInv, Retries, Answered
    <2>3. \A g \in Handler : Recorded(g)'
      BY <1>0, <2>1, <2>2 DEF RetryInv, Recorded, Answered
    <2>4. \A f, g \in Handler :
          f # g /\ pc'[f] # "idle" /\ pc'[g] # "idle" /\ req'[f] = req'[g] => Retries(f, g)'
      BY <1>0, <2>1 DEF RetryInv, Retries
    <2> QED BY <1>0, <2>3, <2>4 DEF RetryInv
  <1>9. CASE (\E i \in Instance : Crash(i)) \/ Tick
    <2>1. /\ UNCHANGED assigned
          /\ \A h \in Handler : \/ pc'[h] = "idle"
                                \/ /\ req'[h] = req[h] /\ drv'[h] = drv[h]
                                   /\ pc'[h] = pc[h] \/ (pc[h] \in Answered /\ pc'[h] \in Answered)
      BY <1>0, <1>9 DEF Crash, Survives, Tick, OrphanEnds, Answered
    <2>2. \A g \in Handler : Recorded(g)'
      BY <1>0, <2>1 DEF RetryInv, Recorded, Answered
    <2>3. \A f, g \in Handler :
          f # g /\ pc'[f] # "idle" /\ pc'[g] # "idle" /\ req'[f] = req'[g] => Retries(f, g)'
      BY <1>0, <2>1 DEF RetryInv, Retries, Answered
    <2> QED BY <1>0, <2>2, <2>3 DEF RetryInv
  <1>10. CASE UNCHANGED vars
    BY <1>0, <1>10 DEF vars, RetryInv, Recorded, Retries
  <1>11. ASSUME NEW h \in Handler, RecordRetried(h)
         PROVE  RetryInv'
    <2>1. /\ pc[h] = "assign" /\ assigned' = [assigned EXCEPT ![req[h]] = drv[h]]
          /\ UNCHANGED <<pc, req, drv>>
      BY <1>0, <1>11 DEF RecordRetried
    <2>2. \A g \in Handler : g # h /\ pc[g] # "idle" => req[g] # req[h]
      BY <2>1 DEF RetryInv, Retries, Answered
    <2>3. \A g \in Handler : Recorded(g)'
      BY <1>0, <2>1, <2>2 DEF RetryInv, Recorded, Answered
    <2> QED BY <1>0, <2>1, <2>3 DEF RetryInv, Retries
  <1> QED
    BY <1>1, <1>2, <1>3, <1>4, <1>5, <1>6, <1>7, <1>8, <1>9, <1>10, <1>11
    DEF Next, Step, ForgetRetried, Careful

\* The assignments recorded and the goroutines stay in step.
LEMMA RetryInductive == ASSUME Careful PROVE Spec => []RetryInv
  BY RetryInvInit, RetryInvStep, PTL DEF Spec

\* "A repeated reqId returns the existing assignment" (main.go:129): of a rider
\* who waits for the answer before asking again a request has no second trip
\* while it has one, if no HGET and no HSET of req:assigned fails and no HDEL
\* is sent twice.  Instances may crash, locks may be lost or stay, and the HSET
\* may be sent twice.
THEOREM RetriesGetNoSecondTrip ==
    ASSUME Careful PROVE Spec => []OneTripPerRequest
  <1>1. RetryInv => OneTripPerRequest
    <2> SUFFICES ASSUME RetryInv, NEW g \in Handler, NEW h \in Handler,
                        pc[g] \in Announced, pc[h] \in Announced, req[g] = req[h]
                 PROVE  g = h
      BY DEF OneTripPerRequest
    <2> QED BY DEF RetryInv, Retries, Announced
  <1> QED BY <1>1, RetryInductive, PTL

\* Under the same conditions a retry of a request whose trip is under way, its
\* matcher crashed or not, finds that trip and its driver.
THEOREM RetriesFindTheTrip ==
    ASSUME Careful PROVE Spec => []EntryCoversTrip
  <1>1. RetryInv => EntryCoversTrip
    BY DEF RetryInv, Recorded, EntryCoversTrip, Announced, Answered
  <1> QED BY <1>1, RetryInductive, PTL

-------------------------------------------------------------------------------
(* The counter of /stats.  No hypothesis is needed: whatever fails, a        *)
(* goroutine that counted itself counts itself out, or dies with the count.  *)

Counting == {"route", "riding", "release", "forget"}
Counted(i) == {h \in Handler : HostOf[h] = i /\ pc[h] \in Counting}

CountInv == /\ TypeOK
            /\ \A i \in Instance : /\ IsFiniteSet(Counted(i))
                                   /\ activeTrips[i] = Cardinality(Counted(i))

\* Nothing is counted at the start.
LEMMA CountInvInit == Init => CountInv
  <1> SUFFICES ASSUME Init PROVE CountInv
    OBVIOUS
  <1>1. \A i \in Instance : Counted(i) = {}
    BY DEF Init, Counted, Counting
  <1>2. TypeOK
    BY MatcherAssumption DEF Init, TypeOK, PC, Holding, Announced
  <1> QED BY <1>1, <1>2, FS_EmptySet DEF Init, CountInv

\* A step that leaves the counter and those who are counted keeps it.
LEMMA CountQuiet ==
    ASSUME CountInv, TypeOK', UNCHANGED activeTrips,
           \A h \in Handler : pc'[h] \in Counting <=> pc[h] \in Counting
    PROVE  CountInv'
  <1>1. \A i \in Instance : Counted(i)' = Counted(i)
    BY DEF Counted
  <1> QED BY <1>1 DEF CountInv

\* Every step keeps it: the counter and the goroutines counted change together.
LEMMA CountInvStep == CountInv /\ [Next]_vars => CountInv'
  <1> SUFFICES ASSUME CountInv, [Next]_vars PROVE CountInv'
    OBVIOUS
  <1>0. TypeOK /\ TypeOK'
    BY TypeStep DEF CountInv
  <1> USE DEF Goto, redis, locals
  <1>1. ASSUME NEW h \in Handler, NEW r \in Req, HandleRequest(h, r)
        PROVE  CountInv'
    BY <1>0, <1>1, CountQuiet DEF HandleRequest, Counting, TypeOK
  <1>2. ASSUME NEW h \in Handler, AnswerExisting(h) \/ Unmatched(h)
        PROVE  CountInv'
    BY <1>0, <1>2, CountQuiet DEF AnswerExisting, Unmatched, Return, Counting, TypeOK
  <1>3. ASSUME NEW h \in Handler,
               NotAssigned(h) \/ FetchNearby(h) \/ ClaimRefused(h) \/ ClaimLost(h) \/ Claim(h)
        PROVE  CountInv'
    BY <1>0, <1>3, CountQuiet
    DEF NotAssigned, FetchNearby, ClaimRefused, ClaimLost, Claim, Counting, TypeOK
  <1>4. ASSUME NEW h \in Handler,
               PublishAssigned(h) \/ PublishCompleted(h) \/ ReleaseLock(h) \/ ReleaseRetried(h)
        PROVE  CountInv'
    BY <1>0, <1>4, CountQuiet
    DEF PublishAssigned, PublishCompleted, ReleaseLock, ReleaseRetried, Counting, TypeOK
  <1>5. ASSUME NEW h \in Handler, RecordAssigned(h)
        PROVE  CountInv'
    <2>1. /\ pc[h] = "assign" /\ pc' = [pc EXCEPT ![h] = "route"] /\ HostOf[h] \in Instance
          /\ activeTrips' = [activeTrips EXCEPT ![HostOf[h]] = @ + 1]
      BY <1>5, MatcherAssumption DEF RecordAssigned
    <2>2. /\ Counted(HostOf[h])' = Counted(HostOf[h]) \union {h} /\ h \notin Counted(HostOf[h])
          /\ \A i \in Instance : i # HostOf[h] => Counted(i)' = Counted(i)
      BY <1>0, <2>1 DEF Counted, Counting, TypeOK
    <2>3. /\ IsFiniteSet(Counted(HostOf[h]) \union {h})
          /\ Cardinality(Counted(HostOf[h]) \union {h}) = Cardinality(Counted(HostOf[h])) + 1
      BY <2>1, <2>2, FS_AddElement DEF CountInv
    <2>4. /\ activeTrips'[HostOf[h]] = activeTrips[HostOf[h]] + 1
          /\ activeTrips[HostOf[h]] = Cardinality(Counted(HostOf[h]))
          /\ \A i \in Instance : i # HostOf[h] => activeTrips'[i] = activeTrips[i]
      BY <1>0, <2>1 DEF CountInv, TypeOK
    <2> QED BY <1>0, <2>2, <2>3, <2>4 DEF CountInv
  <1>6. ASSUME NEW h \in Handler, ForgetRequest(h)
        PROVE  CountInv'
    <2>1. /\ pc[h] = "forget" /\ pc' = [pc EXCEPT ![h] = "idle"] /\ HostOf[h] \in Instance
          /\ activeTrips' = [activeTrips EXCEPT ![HostOf[h]] = @ - 1]
      BY <1>6, MatcherAssumption DEF ForgetRequest, Return
    <2>2. /\ Counted(HostOf[h])' = Counted(HostOf[h]) \ {h} /\ h \in Counted(HostOf[h])
          /\ \A i \in Instance : i # HostOf[h] => Counted(i)' = Counted(i)
      BY <1>0, <2>1 DEF Counted, Counting, TypeOK
    <2>3. /\ IsFiniteSet(Counted(HostOf[h]) \ {h})
          /\ Cardinality(Counted(HostOf[h]) \ {h}) = Cardinality(Counted(HostOf[h])) - 1
      BY <2>1, <2>2, FS_RemoveElement DEF CountInv
    <2> QED BY <1>0, <2>1, <2>2, <2>3 DEF CountInv, TypeOK
  <1>7. ASSUME NEW i \in Instance, Crash(i)
        PROVE  CountInv'
    <2>1. Counted(i)' = {} /\ activeTrips' = [activeTrips EXCEPT ![i] = 0]
      BY <1>0, <1>7 DEF Crash, Survives, Counted, Counting, TypeOK
    <2>2. \A j \in Instance : j # i => Counted(j)' = Counted(j)
      BY <1>0, <1>7 DEF Crash, Survives, Counted, Counting, TypeOK
    <2>3. IsFiniteSet({}) /\ Cardinality({}) = 0
      BY FS_EmptySet
    <2> QED BY <1>0, <2>1, <2>2, <2>3 DEF CountInv, TypeOK
  <1>8. CASE Tick
    BY <1>0, <1>8, CountQuiet DEF Tick, OrphanEnds, Counting, TypeOK
  <1>9. CASE UNCHANGED vars
    BY <1>0, <1>9, CountQuiet DEF vars
  <1>10. ASSUME NEW h \in Handler, RecordRetried(h) \/ ForgetRetried(h)
         PROVE  CountInv'
    BY <1>0, <1>10, CountQuiet DEF RecordRetried, ForgetRetried
  <1> QED
    BY <1>1, <1>2, <1>3, <1>4, <1>5, <1>6, <1>7, <1>8, <1>9, <1>10 DEF Next, Step

\* /stats counts the trips an instance is running, whatever crashes and
\* whichever commands fail: what RecordAssigned counts in, ForgetRequest counts
\* out once, and a crash forgets the trips with the count.
THEOREM StatsAreExact == Spec => []ActiveTripsExact
  <1>1. CountInv => ActiveTripsExact
    BY DEF CountInv, ActiveTripsExact, Counted, Counting
  <1> QED BY <1>1, CountInvInit, CountInvStep, PTL DEF Spec
===============================================================================
