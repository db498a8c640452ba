----------------------------- MODULE LiveMapProofs -----------------------------
(***************************************************************************)
(* Theorems about LiveMap and the Simulator in it, for any fleet, requests *)
(* and lives of tracks and pins, and any capacity of the page's connection.*)
(***************************************************************************)
EXTENDS LiveMap, SequenceTheorems, FiniteSetTheorems, TLAPS

(* What a queue of messages still tells of a request: the last of those that *)
(* begin or end its trip.                                                    *)

Trip(m, r) == m.req = r /\ m.event \in {"assigned", "completed"}
Effect(m) == IF m.event = "assigned" THEN m.cab ELSE None

\* Heard to the end, the queue makes the page that shows s show t.
Agrees(q, r, s, t) ==
    /\ (\A i \in 1..Len(q) : ~Trip(q[i], r)) => s = t
    /\ \A i \in 1..Len(q) :
          Trip(q[i], r) /\ (\A j \in 1..Len(q) : i < j => ~Trip(q[j], r)) => Effect(q[i]) = t

\* A message about something else changes nothing.
LEMMA AgreesOther ==
    ASSUME NEW q \in Seq(Message), NEW m \in Message, NEW r, NEW s, NEW t,
           ~Trip(m, r), Agrees(q, r, s, t)
    PROVE  Agrees(Append(q, m), r, s, t)
  <1> DEFINE p == Append(q, m)
  <1>1. /\ Len(p) = Len(q) + 1 /\ Len(q) \in Nat /\ p[Len(q) + 1] = m
        /\ \A i \in 1..Len(q) : p[i] = q[i]
    OBVIOUS
  <1> HIDE DEF p
  <1>2. ASSUME \A i \in 1..Len(p) : ~Trip(p[i], r) PROVE s = t
    <2>1. \A i \in 1..Len(q) : i \in 1..Len(p)
      BY <1>1
    <2> QED BY <1>1, <1>2, <2>1 DEF Agrees
  <1>3. ASSUME NEW i \in 1..Len(p), Trip(p[i], r),
               \A j \in 1..Len(p) : i < j => ~Trip(p[j], r)
        PROVE  Effect(p[i]) = t
    <2>1. i \in 1..Len(q)
      <3>1. i # Len(q) + 1
        BY <1>1, <1>3
      <3> QED BY <1>1, <3>1
    <2>2. \A j \in 1..Len(q) : j \in 1..Len(p)
      BY <1>1
    <2> QED BY <1>1, <1>3, <2>1, <2>2 DEF Agrees
  <1> QED BY <1>2, <1>3 DEF Agrees, p

\* One that begins or ends the trip decides.
LEMMA AgreesTrip ==
    ASSUME NEW q \in Seq(Message), NEW m \in Message, NEW r, NEW s, Trip(m, r)
    PROVE  Agrees(Append(q, m), r, s, Effect(m))
  <1> DEFINE p == Append(q, m)
  <1>1. Len(p) = Len(q) + 1 /\ Len(q) \in Nat /\ p[Len(q) + 1] = m
    OBVIOUS
  <1> HIDE DEF p
  <1>2. Len(q) + 1 \in 1..Len(p)
    BY <1>1
  <1>3. ASSUME NEW i \in 1..Len(p), \A j \in 1..Len(p) : i < j => ~Trip(p[j], r)
        PROVE  p[i] = m
    <2>1. ~(i < Len(q) + 1)
      BY <1>1, <1>2, <1>3
    <2>2. i = Len(q) + 1
      BY <1>1, <2>1
    <2> QED BY <1>1, <2>2
  <1> QED BY <1>1, <1>2, <1>3 DEF Agrees, p

\* Hearing the first message takes it from the queue into what is shown.
LEMMA AgreesTail ==
    ASSUME NEW q \in Seq(Message), q # << >>, NEW r, NEW s, NEW t, Agrees(q, r, s, t)
    PROVE  Agrees(Tail(q), r, IF Trip(Head(q), r) THEN Effect(Head(q)) ELSE s, t)
  <1> DEFINE p == Tail(q)
  <1>1. /\ Len(q) \in Nat \ {0} /\ Len(p) = Len(q) - 1 /\ Head(q) = q[1]
        /\ \A i \in 1..Len(p) : p[i] = q[i + 1]
    OBVIOUS
  <1> HIDE DEF p
  <1>2. 1 \in 1..Len(q) /\ \A i \in 1..Len(p) : i + 1 \in 1..Len(q) /\ 1 < i + 1
    BY <1>1
  <1>3. \A j \in 1..Len(q) : j # 1 => j - 1 \in 1..Len(p) /\ q[j] = p[j - 1]
    <2> SUFFICES ASSUME NEW j \in 1..Len(q), j # 1 PROVE j - 1 \in 1..Len(p) /\ q[j] = p[j - 1]
      OBVIOUS
    <2>1. j - 1 \in 1..Len(p) /\ (j - 1) + 1 = j
      BY <1>1
    <2> QED BY <1>1, <2>1
  <1>4. ASSUME \A i \in 1..Len(p) : ~Trip(p[i], r)
        PROVE  (IF Trip(q[1], r) THEN Effect(q[1]) ELSE s) = t
    <2>1. \A j \in 1..Len(q) : j # 1 => ~Trip(q[j], r)
      BY <1>3, <1>4
    <2>2. CASE Trip(q[1], r)
      <3>1. \A j \in 1..Len(q) : 1 < j => ~Trip(q[j], r)
        BY <2>1
      <3> QED BY <1>2, <2>2, <3>1 DEF Agrees
    <2>3. CASE ~Trip(q[1], r)
      BY <2>1, <2>3 DEF Agrees
    <2> QED BY <2>2, <2>3
  <1>5. ASSUME NEW i \in 1..Len(p), Trip(p[i], r),
               \A j \in 1..Len(p) : i < j => ~Trip(p[j], r)
        PROVE  Effect(p[i]) = t
    <2>1. i + 1 \in 1..Len(q) /\ q[i + 1] = p[i]
      BY <1>1, <1>2
    <2>2. ASSUME NEW j \in 1..Len(q), i + 1 < j PROVE ~Trip(q[j], r)
      <3>1. j # 1 /\ i < j - 1
        BY <1>2, <2>2
      <3> QED BY <1>3, <1>5, <3>1
    <2> QED BY <1>5, <2>1, <2>2 DEF Agrees
  <1> QED BY <1>1, <1>4, <1>5 DEF Agrees, p

(* The types: the Simulator's, the maps', and the rest.                      *)

\* A list of drivers and what a request makes of it.
LEMMA SetDriversTypes ==
    ASSUME SimulatorTypeOK, NEW n \in Nat, SetDrivers(n)
    PROVE  /\ listed' \in Seq(Cab) /\ nextDriver' \in 0..MaxIds
           /\ cancelled' \subseteq Cab /\ loop' \in [Cab -> Loop]
  <1> DEFINE more == IF n > Len(listed) THEN n - Len(listed) ELSE 0
             new == [i \in 1..more |-> nextDriver + i - 1]
             kept == SubSeq(listed, 1, n - more)
             gone == SubSeq(listed, n + 1, Len(listed))
  <1>1. /\ nextDriver + more <= MaxIds
        /\ listed' = kept \o new
        /\ nextDriver' = nextDriver + more
        /\ cancelled' = cancelled \union ToSet(gone)
        /\ loop' = [d \in Cab |-> IF d \in ToSet(new) THEN "drives" ELSE loop[d]]
    BY DEF SetDrivers
  <1>2. listed \in Seq(Cab) /\ Len(listed) \in Nat /\ nextDriver \in Nat
    BY SimulatorAssumption DEF SimulatorTypeOK
  <1>3. more \in Nat /\ n - more \in 0..Len(listed)
    BY <1>2
  <1>4. new \in Seq(Cab)
    <2>1. \A i \in 1..more : nextDriver + i - 1 \in Cab
      <3> HIDE DEF more
      <3> QED BY <1>1, <1>2, <1>3, SimulatorAssumption DEF Cab
    <2>2. new \in [1..more -> Cab]
      <3> HIDE DEF more
      <3> QED BY <2>1
    <2> HIDE DEF new, more
    <2> QED BY <1>3, <2>2
  <1>5. kept \in Seq(Cab)
    <2> HIDE DEF more
    <2> QED BY <1>2, <1>3
  <1>6. gone \in Seq(Cab)
    BY <1>2
  <1> HIDE DEF more, new, kept, gone
  <1>7. kept \o new \in Seq(Cab)
    BY <1>4, <1>5, ConcatProperties
  <1>8. ToSet(gone) \subseteq Cab
    BY <1>6 DEF ToSet
  <1>9. nextDriver + more \in 0..MaxIds
    BY <1>1, <1>2, <1>3, SimulatorAssumption
  <1> QED BY <1>1, <1>7, <1>8, <1>9 DEF SimulatorTypeOK, Loop

\* The fleet keeps its types.
LEMMA SimulatorTypeStep == SimulatorTypeOK /\ Simulate => SimulatorTypeOK'
  <1> SUFFICES ASSUME SimulatorTypeOK, Simulate PROVE SimulatorTypeOK'
    OBVIOUS
  <1>1. ASSUME NEW n \in Slider, HandleControl(n) PROVE SimulatorTypeOK'
    <2>1. Clamp(n) \in Nat
      BY SimulatorAssumption DEF Clamp
    <2>2. SetDrivers(Clamp(n)) /\ posted' = posted
      BY <1>1 DEF HandleControl
    <2> QED BY <2>1, <2>2, SetDriversTypes DEF SimulatorTypeOK
  <1>2. ASSUME NEW d \in Cab, Stop(d) PROVE SimulatorTypeOK'
    BY <1>2 DEF SimulatorTypeOK, Stop, Goto, Loop
  <1>3. ASSUME NEW d \in Cab, Post(d) PROVE SimulatorTypeOK'
    BY <1>3 DEF SimulatorTypeOK, Post, fleet
  <1> QED BY <1>1, <1>2, <1>3 DEF Simulate

\* The fleet of the start.
LEMMA SimulatorTypeInit == SimulatorInit => SimulatorTypeOK
  <1> SUFFICES ASSUME NEW n \in 0..MaxIds,
                      listed = [i \in 1..n |-> i - 1], nextDriver = n,
                      cancelled = {}, posted = {},
                      loop = [d \in Cab |-> IF d < n THEN "drives" ELSE "none"]
               PROVE  SimulatorTypeOK
    BY DEF SimulatorInit
  <1>1. n \in Nat /\ n <= MaxIds
    BY SimulatorAssumption
  <1>2. \A i \in 1..n : i - 1 \in Cab
    BY <1>1, SimulatorAssumption DEF Cab
  <1>3. listed \in Seq(Cab)
    BY <1>1, <1>2
  <1> QED BY <1>3 DEF SimulatorTypeOK, Loop

(* The fleet: the goroutines that drive are those the slider's list can stop. *)

\* What a list of drivers holds, and the list of the drivers after the n-th.
LEMMA InList ==
    ASSUME NEW s \in Seq(Cab), NEW d
    PROVE  d \in ToSet(s) <=> \E i \in 1..Len(s) : s[i] = d
  BY DEF ToSet

\* listed, loop and cancelled tell one story: a driver was started when its
\* number was given out, it is listed from then until it is cancelled, once and
\* in the order of the numbers, and it returns only if it was cancelled.
FleetExact ==
    /\ \A d \in Cab : loop[d] = "none" <=> d >= nextDriver
    /\ \A d \in cancelled : d < nextDriver
    /\ \A d \in Cab : loop[d] = "done" => d \in cancelled
    /\ \A d \in Cab : d \in ToSet(listed) <=> d < nextDriver /\ d \notin cancelled
    /\ \A i, j \in 1..Len(listed) : i < j => listed[i] < listed[j]

\* More are asked for: new ones join the list.
LEMMA FleetGrows ==
    ASSUME SimulatorTypeOK, FleetExact, NEW n \in Nat, SetDrivers(n), n > Len(listed)
    PROVE  FleetExact' /\ Len(listed') = n
  <1> DEFINE more == n - Len(listed)
             new == [i \in 1..more |-> nextDriver + i - 1]
             old == Len(listed)
  <1>1. listed \in Seq(Cab) /\ old \in Nat /\ nextDriver \in Nat /\ more \in Nat
        /\ n = old + more /\ Cab \subseteq Nat /\ cancelled \subseteq Cab
        /\ loop \in [Cab -> Loop] /\ MaxIds \in Nat
    BY SimulatorAssumption DEF SimulatorTypeOK, Cab
  <1>2. /\ nextDriver + more <= MaxIds
        /\ listed' = SubSeq(listed, 1, n - more) \o new
        /\ nextDriver' = nextDriver + more
        /\ cancelled' = cancelled \union ToSet(SubSeq(listed, n + 1, Len(listed)))
        /\ loop' = [d \in Cab |-> IF d \in ToSet(new) THEN "drives" ELSE loop[d]]
    BY DEF SetDrivers
  <1>3. SubSeq(listed, 1, n - more) = listed
    <2>1. n - more = Len(listed)
      BY <1>1
    <2> HIDE DEF more
    <2> QED BY <1>1, <2>1
  <1>4. cancelled' = cancelled
    <2>1. SubSeq(listed, n + 1, Len(listed)) = << >>
      BY <1>1
    <2> QED BY <1>2, <2>1 DEF ToSet
  <1>5. new \in Seq(Cab) /\ Len(new) = more /\ \A i \in 1..more : new[i] = nextDriver + i - 1
    <2>1. \A i \in 1..more : nextDriver + i - 1 \in Cab
      <3> HIDE DEF more
      <3> QED BY <1>1, <1>2 DEF Cab
    <2>2. new \in [1..more -> Cab]
      <3> HIDE DEF more
      <3> QED BY <2>1
    <2>3. \A i \in 1..more : new[i] = nextDriver + i - 1
      OBVIOUS
    <2> HIDE DEF more, new
    <2>4. new \in Seq(Cab) /\ Len(new) = more
      BY <1>1, <2>2
    <2> QED BY <2>3, <2>4
  <1> HIDE DEF more, new, old
  <1>6. /\ listed' \in Seq(Cab) /\ Len(listed') = n
        /\ \A i \in 1..old : listed'[i] = listed[i]
        /\ \A i \in 1..n : i > old => listed'[i] = nextDriver + (i - old) - 1
    <2>1. listed' = listed \o new
      BY <1>2, <1>3
    <2>2. \A i \in 1..n : i > old => i - old \in 1..more
      BY <1>1
    <2>3. listed' \in Seq(Cab) /\ Len(listed') = n
      BY <1>1, <1>5, <2>1 DEF old
    <2>4. \A i \in 1..old : listed'[i] = listed[i]
      BY <1>1, <1>5, <2>1 DEF old
    <2>5. ASSUME NEW i \in 1..n, i > old PROVE listed'[i] = nextDriver + (i - old) - 1
      <3>1. listed'[i] = new[i - old]
        BY <1>1, <1>5, <2>1, <2>5 DEF old
      <3> QED BY <1>5, <2>2, <2>5, <3>1
    <2> QED BY <2>3, <2>4, <2>5
  <1>7. \A d \in Cab : d \in ToSet(new) <=> d >= nextDriver /\ d < nextDriver + more
    <2> SUFFICES ASSUME NEW d \in Cab
                 PROVE  (\E i \in 1..more : new[i] = d) <=> d >= nextDriver /\ d < nextDriver + more
      BY <1>5, InList
    <2>1. ASSUME d >= nextDriver, d < nextDriver + more PROVE \E i \in 1..more : new[i] = d
      <3>1. d - nextDriver + 1 \in 1..more /\ nextDriver + (d - nextDriver + 1) - 1 = d
        BY <1>1, <2>1
      <3> QED BY <1>5, <3>1
    <2>2. ASSUME NEW i \in 1..more, new[i] = d PROVE d >= nextDriver /\ d < nextDriver + more
      BY <1>1, <1>5, <2>2
    <2> QED BY <2>1, <2>2
  <1>8. \A d \in Cab : d \in ToSet(listed') <=> d \in ToSet(listed) \/ d \in ToSet(new)
    <2> SUFFICES ASSUME NEW d \in Cab
                 PROVE  (\E i \in 1..n : listed'[i] = d)
                            <=> (\E i \in 1..old : listed[i] = d) \/ d \in ToSet(new)
      BY <1>1, <1>6, InList DEF old
    <2>1. ASSUME NEW i \in 1..n, listed'[i] = d
          PROVE  (\E k \in 1..old : listed[k] = d) \/ d \in ToSet(new)
      <3>1. CASE i <= old
        BY <1>1, <1>6, <2>1, <3>1
      <3>2. CASE i > old
        BY <1>1, <1>6, <1>7, <2>1, <3>2
      <3> QED BY <1>1, <3>1, <3>2
    <2>2. ASSUME NEW i \in 1..old, listed[i] = d PROVE \E k \in 1..n : listed'[k] = d
      <3>1. i \in 1..n
        BY <1>1
      <3> QED BY <1>6, <2>2, <3>1
    <2>3. ASSUME d \in ToSet(new) PROVE \E k \in 1..n : listed'[k] = d
      <3>1. d >= nextDriver /\ d < nextDriver + more
        BY <1>7, <2>3
      <3>2. (d - nextDriver) + 1 + old \in 1..n /\ (d - nextDriver) + 1 + old > old
            /\ nextDriver + (((d - nextDriver) + 1 + old) - old) - 1 = d
        BY <1>1, <3>1
      <3> QED BY <1>6, <3>2
    <2> QED BY <2>1, <2>2, <2>3
  <1>9. \A d \in Cab : loop'[d] = "none" <=> d >= nextDriver'
    BY <1>1, <1>2, <1>7 DEF FleetExact
  <1>10. \A d \in Cab : loop'[d] = "done" => d \in cancelled'
    BY <1>1, <1>2, <1>4, <1>7 DEF FleetExact
  <1>11. \A d \in cancelled' : d < nextDriver'
    BY <1>1, <1>2, <1>4 DEF FleetExact
  <1>12. \A d \in Cab : d \in ToSet(listed') <=> d < nextDriver' /\ d \notin cancelled'
    BY <1>1, <1>2, <1>4, <1>7, <1>8 DEF FleetExact
  <1>13. ASSUME NEW i \in 1..n, NEW j \in 1..n, i < j PROVE listed'[i] < listed'[j]
    <2>1. CASE j <= old
      <3>1. i \in 1..old /\ j \in 1..old
        BY <1>1, <1>13, <2>1
      <3> QED BY <1>6, <1>13, <3>1 DEF FleetExact, old
    <2>2. CASE i <= old /\ j > old
      <3>1. i \in 1..old
        BY <2>2
      <3>2. listed[i] \in ToSet(listed) /\ listed[i] \in Cab
        BY <1>1, <3>1, InList DEF old
      <3>3. listed[i] < nextDriver
        BY <3>2 DEF FleetExact
      <3>4. listed'[i] = listed[i] /\ listed'[j] = nextDriver + (j - old) - 1
        BY <1>6, <2>2, <3>1
      <3>5. nextDriver <= nextDriver + (j - old) - 1
        BY <1>1, <2>2
      <3>6. \A x \in Nat : x < nextDriver => x < nextDriver + (j - old) - 1
        BY <1>1, <3>5
      <3> QED BY <1>1, <3>2, <3>3, <3>4, <3>6
    <2>3. CASE i > old
      BY <1>1, <1>6, <1>13, <2>3
    <2> QED BY <1>1, <2>1, <2>2, <2>3
  <1> QED BY <1>6, <1>9, <1>10, <1>11, <1>12, <1>13 DEF FleetExact

\* No more are asked for than there are: the newest are cancelled.
LEMMA FleetShrinks ==
    ASSUME SimulatorTypeOK, FleetExact, NEW n \in Nat, SetDrivers(n), n <= Len(listed)
    PROVE  FleetExact' /\ Len(listed') = n
  <1> DEFINE gone == SubSeq(listed, n + 1, Len(listed))
  <1>1. listed \in Seq(Cab) /\ Len(listed) \in Nat /\ nextDriver \in Nat
        /\ Cab \subseteq Nat /\ cancelled \subseteq Cab /\ loop \in [Cab -> Loop]
    BY SimulatorAssumption DEF SimulatorTypeOK, Cab
  <1>2. /\ listed' = SubSeq(listed, 1, n) /\ nextDriver' = nextDriver
        /\ cancelled' = cancelled \union ToSet(gone) /\ loop' = loop
    <2>1. ~(n > Len(listed)) /\ n - 0 = n /\ nextDriver + 0 = nextDriver /\ 1..0 = {}
      BY <1>1
    <2> DEFINE new == [i \in 1..0 |-> nextDriver + i - 1]
    <2>2. new = << >> /\ ToSet(new) = {}
      BY <2>1 DEF ToSet
    <2>3. /\ listed' = SubSeq(listed, 1, n) \o new
          /\ nextDriver' = nextDriver
          /\ cancelled' = cancelled \union ToSet(gone)
          /\ loop' = [d \in Cab |-> IF d \in ToSet(new) THEN "drives" ELSE loop[d]]
      BY <2>1 DEF SetDrivers
    <2>4. SubSeq(listed, 1, n) \in Seq(Cab)
      BY <1>1
    <2> HIDE DEF new
    <2> QED BY <1>1, <2>2, <2>3, <2>4
  <1>3. /\ listed' \in Seq(Cab) /\ Len(listed') = n
        /\ \A i \in 1..n : i \in 1..Len(listed) /\ listed'[i] = listed[i]
    BY <1>1, <1>2
  <1>4. \A d : d \in ToSet(gone) <=> \E i \in 1..Len(listed) : i > n /\ listed[i] = d
    <2> DEFINE more == Len(listed) - n
    <2>1. gone \in Seq(Cab) /\ Len(gone) = more
          /\ \A i \in 1..more : gone[i] = listed[n + i]
      BY <1>1
    <2>2. \A i \in 1..more : n + i \in 1..Len(listed) /\ n + i > n
      BY <1>1
    <2>3. \A i \in 1..Len(listed) : i > n => i - n \in 1..more /\ n + (i - n) = i
      BY <1>1
    <2> HIDE DEF gone, more
    <2> QED BY <2>1, <2>2, <2>3, InList
  <1> HIDE DEF gone
  <1>5. ASSUME NEW i \in 1..Len(listed), NEW j \in 1..Len(listed), listed[i] = listed[j]
        PROVE  i = j
    <2>1. listed[i] \in Nat
      <3>1. listed[i] \in Cab
        BY <1>1
      <3> QED BY <1>1, <3>1
    <2>2. \A x \in Nat : ~(x < x)
      OBVIOUS
    <2>3. ~(listed[i] < listed[j]) /\ ~(listed[j] < listed[i])
      BY <1>5, <2>1, <2>2
    <2> QED BY <1>1, <2>3 DEF FleetExact
  <1>6. \A d \in Cab : d \in ToSet(listed') <=> d \in ToSet(listed) /\ d \notin ToSet(gone)
    <2> SUFFICES ASSUME NEW d \in Cab
                 PROVE  (\E i \in 1..n : listed'[i] = d)
                            <=> /\ \E i \in 1..Len(listed) : listed[i] = d
                                /\ ~\E i \in 1..Len(listed) : i > n /\ listed[i] = d
      BY <1>1, <1>3, <1>4, InList
    <2>1. \A i \in 1..Len(listed) : i > n \/ i \in 1..n
      BY <1>1
    <2>2. \A i \in 1..n : ~(i > n)
      BY <1>1
    <2> QED BY <1>3, <1>5, <2>1, <2>2
  <1>7. \A d \in ToSet(gone) : d \in Cab /\ d \in ToSet(listed)
    BY <1>1, <1>4, InList
  <1>8. \A d \in cancelled' : d < nextDriver'
    BY <1>2, <1>7 DEF FleetExact
  <1>9. \A d \in Cab : d \in ToSet(listed') <=> d < nextDriver' /\ d \notin cancelled'
    BY <1>2, <1>6, <1>7 DEF FleetExact
  <1>10. \A i, j \in 1..n : i < j => listed'[i] < listed'[j]
    BY <1>3 DEF FleetExact
  <1> QED BY <1>2, <1>3, <1>8, <1>9, <1>10 DEF FleetExact

\* The fleet of the start.
LEMMA FleetExactInit == SimulatorInit => FleetExact
  <1> SUFFICES ASSUME NEW n \in 0..MaxIds,
                      listed = [i \in 1..n |-> i - 1], nextDriver = n, cancelled = {},
                      loop = [d \in Cab |-> IF d < n THEN "drives" ELSE "none"]
               PROVE  FleetExact
    BY DEF SimulatorInit
  <1>1. n \in Nat /\ n <= MaxIds /\ MaxIds \in Nat
    BY SimulatorAssumption
  <1>2. /\ listed \in Seq(Cab) /\ Len(listed) = n
        /\ \A i \in 1..n : listed[i] = i - 1
    <2>1. \A i \in 1..n : i - 1 \in Cab
      BY <1>1 DEF Cab
    <2> QED BY <1>1, <2>1
  <1>3. \A d \in Cab : d \in ToSet(listed) <=> d < n
    <2>1. \A d \in Cab : d < n => d + 1 \in 1..n /\ (d + 1) - 1 = d
      BY <1>1 DEF Cab
    <2>2. \A i \in 1..n : i - 1 < n
      BY <1>1
    <2> QED BY <1>2, <2>1, <2>2, InList
  <1>4. \A d \in Cab : d < n <=> ~(d >= n)
    BY <1>1 DEF Cab
  <1> QED BY <1>1, <1>2, <1>3, <1>4 DEF FleetExact

\* Every step of the simulator keeps it.
LEMMA FleetExactStep ==
    SimulatorTypeOK /\ FleetExact /\ (Simulate \/ UNCHANGED fleet) => FleetExact'
  <1> SUFFICES ASSUME SimulatorTypeOK, FleetExact PROVE Simulate \/ UNCHANGED fleet => FleetExact'
    OBVIOUS
  <1>1. ASSUME NEW n \in Slider, HandleControl(n) PROVE FleetExact'
    <2>1. Clamp(n) \in Nat /\ Len(listed) \in Nat
      BY SimulatorAssumption DEF Clamp, SimulatorTypeOK
    <2>2. SetDrivers(Clamp(n))
      BY <1>1 DEF HandleControl
    <2> HIDE DEF FleetExact
    <2> QED BY <2>1, <2>2, FleetGrows, FleetShrinks
  <1>2. ASSUME NEW d \in Cab, Stop(d) PROVE FleetExact'
    BY <1>2 DEF SimulatorTypeOK, FleetExact, Stop, Goto
  <1>3. ASSUME UNCHANGED fleet PROVE FleetExact'
    BY <1>3 DEF FleetExact, fleet
  <1>4. ASSUME NEW d \in Cab, Post(d) PROVE FleetExact'
    BY <1>3, <1>4 DEF Post
  <1> QED BY <1>1, <1>2, <1>3, <1>4 DEF Simulate

(* What the page shows is what it was told.                                  *)

TopicTypes == /\ said \in [Req -> {"nothing", "requested", "assigned"}]
              /\ cab \in [Req -> Cab \union {None}]
              /\ since \subseteq Req
StreamTypes == open \subseteq Conn /\ queue \in [Conn -> Seq(Message)] /\ lost \subseteq Req
MapTypes == /\ tracks \in [Cab -> Ages(TrackLife)]
            /\ waiting \in [Req -> Ages(WaitLife)]
            /\ trips \in [Req -> Cab \union {None}]
AskTypes == asks \in [Req -> 0..MaxAsks]

\* The types are those of the parts.
LEMMA TypeParts ==
    LiveMapTypeOK <=> SimulatorTypeOK /\ TopicTypes /\ StreamTypes /\ MapTypes /\ AskTypes
  BY DEF LiveMapTypeOK, TopicTypes, StreamTypes, MapTypes, AskTypes

\* The driver a connected page that missed nothing is to show for request r.
Shown(r) == IF r \in since THEN cab[r] ELSE None

\* What the topic keeps of requests hangs together: a trip has a driver, and
\* one that began under the page's eyes goes on.
TopicInv == /\ \A r \in Req : said[r] = "assigned" => cab[r] \in Cab
            /\ \A r \in since : said[r] = "assigned"

\* Nothing waits for a page that is not connected.
StreamInv == Tab \notin open => queue[Tab] = << >>

\* What is shown and what is still to hear come, together, to what is so.
PageInv == \A r \in Req \ lost :
              Tab \in open => Agrees(queue[Tab], r, trips[r], Shown(r))

LiveMapInv == LiveMapTypeOK /\ TopicInv /\ StreamInv /\ PageInv

\* The page's connection.
LEMMA OneTab == Tab \in Conn
  BY LiveMapAssumption

\* Telling the page of a message: it is the last in the queue, or one is lost.
LEMMA TellAdds ==
    ASSUME StreamTypes, StreamInv, NEW e, NEW r, NEW d,
           [event |-> e, req |-> r, cab |-> d] \in Message, Tell(e, r, d)
    PROVE  /\ StreamTypes' /\ StreamInv' /\ open' = open /\ lost \subseteq lost'
           /\ \/ Tab \notin open
              \/ queue'[Tab] = Append(queue[Tab], [event |-> e, req |-> r, cab |-> d])
              \/ queue'[Tab] = queue[Tab] /\ (r \in Req => r \in lost')
  <1> DEFINE m == [event |-> e, req |-> r, cab |-> d]
  <1>1. m \in Message
    OBVIOUS
  <1>2. queue \in [Conn -> Seq(Message)] /\ queue[Tab] \in Seq(Message) /\ open \subseteq Conn
        /\ lost \subseteq Req
    BY OneTab DEF StreamTypes
  <1>3. \/ Accept(Tab, m) /\ lost' = lost
        \/ Drop(Tab) /\ lost' = lost \union ({r} \cap Req)
        \/ Tab \notin open /\ UNCHANGED <<svars, lost>>
    BY DEF Tell
  <1> HIDE DEF m
  <1>4. CASE Accept(Tab, m) /\ lost' = lost
    <2>1. Append(queue[Tab], m) \in Seq(Message)
      BY <1>1, <1>2
    <2>2. /\ queue' = [queue EXCEPT ![Tab] = Append(queue[Tab], m)]
          /\ open' = open /\ Tab \in open
      BY <1>4 DEF Accept
    <2>3. queue' \in [Conn -> Seq(Message)] /\ queue'[Tab] = Append(queue[Tab], m)
      BY <1>2, <2>1, <2>2, OneTab
    <2> QED BY <1>2, <1>4, <2>2, <2>3 DEF StreamTypes, StreamInv, m
  <1>5. CASE Drop(Tab) /\ lost' = lost \union ({r} \cap Req)
    BY <1>2, <1>5 DEF Drop, StreamTypes, StreamInv
  <1>6. CASE Tab \notin open /\ UNCHANGED <<svars, lost>>
    BY <1>2, <1>6 DEF svars, StreamTypes, StreamInv
  <1> QED BY <1>3, <1>4, <1>5, <1>6

\* If what is so of each request changes as the message says, the page agrees.
LEMMA TellAgrees ==
    ASSUME LiveMapInv, NEW e, NEW r, NEW d,
           [event |-> e, req |-> r, cab |-> d] \in Message, Tell(e, r, d), trips' = trips,
           \A q \in Req : Shown(q)' = IF q = r /\ e \in {"assigned", "completed"}
                                      THEN (IF e = "assigned" THEN d ELSE None)
                                      ELSE Shown(q)
    PROVE  PageInv'
  <1> DEFINE m == [event |-> e, req |-> r, cab |-> d]
  <1>0. m \in Message /\ m.event = e /\ m.req = r /\ m.cab = d
    OBVIOUS
  <1>1. /\ open' = open /\ lost \subseteq lost'
        /\ \/ Tab \notin open
           \/ queue'[Tab] = Append(queue[Tab], m)
           \/ queue'[Tab] = queue[Tab] /\ (r \in Req => r \in lost')
    BY TellAdds, TypeParts DEF LiveMapInv
  <1> HIDE DEF m
  <1> SUFFICES ASSUME NEW q \in Req \ lost', Tab \in open
               PROVE  Agrees(queue'[Tab], q, trips[q], Shown(q)')
    BY <1>1 DEF PageInv
  <1>2. q \in Req \ lost /\ queue[Tab] \in Seq(Message)
    BY <1>1, OneTab, TypeParts DEF LiveMapInv, StreamTypes
  <1>3. Agrees(queue[Tab], q, trips[q], Shown(q))
    BY <1>2 DEF LiveMapInv, PageInv
  <1>4. CASE Trip(m, q)
    <2>1. q = r /\ e \in {"assigned", "completed"}
      BY <1>0, <1>4 DEF Trip
    <2>2. Shown(q)' = Effect(m)
      BY <1>0, <2>1 DEF Effect
    <2>3. queue'[Tab] = Append(queue[Tab], m)
      BY <1>1, <2>1
    <2>4. Agrees(Append(queue[Tab], m), q, trips[q], Effect(m))
      BY <1>0, <1>2, <1>4, AgreesTrip
    <2> QED BY <2>2, <2>3, <2>4
  <1>5. CASE ~Trip(m, q)
    <2>1. ~(q = r /\ e \in {"assigned", "completed"})
      BY <1>0, <1>5 DEF Trip
    <2>2. Shown(q)' = Shown(q)
      BY <2>1
    <2>3. Agrees(Append(queue[Tab], m), q, trips[q], Shown(q))
      BY <1>0, <1>2, <1>3, <1>5, AgreesOther
    <2> QED BY <1>1, <1>3, <2>2, <2>3
  <1> QED BY <1>4, <1>5

\* Ages stay in their range as they grow and as the old are taken down.
LEMMA AgesKept ==
    ASSUME NEW S, NEW life \in Nat, NEW a \in [S -> Ages(life)]
    PROVE  Older(a, life) \in [S -> Ages(life)] /\ Young(a, life) \in [S -> Ages(life)]
  <1>1. \A x \in S : a[x] \in Ages(life)
    OBVIOUS
  <1>2. ASSUME NEW x \in S
        PROVE  /\ (IF a[x] \in 0..life THEN a[x] + 1 ELSE a[x]) \in Ages(life)
               /\ (IF a[x] > life THEN Absent ELSE a[x]) \in Ages(life)
    <2>1. a[x] \in Ages(life)
      BY <1>1
    <2> QED BY <2>1 DEF Ages, Absent
  <1>3. DOMAIN a = S
    OBVIOUS
  <1> QED BY <1>2, <1>3 DEF Older, Young

\* A page not yet loaded shows nothing, and has nothing to show.
LEMMA LiveMapInvInit == LiveMapInit => LiveMapInv
  <1> SUFFICES ASSUME LiveMapInit PROVE LiveMapInv
    OBVIOUS
  <1>1. SimulatorTypeOK
    BY SimulatorTypeInit DEF LiveMapInit
  <1>2. TopicTypes /\ StreamTypes /\ AskTypes
    BY LiveMapAssumption DEF LiveMapInit, Init, TopicTypes, StreamTypes, AskTypes
  <1>3. MapTypes
    <2>1. Absent \in Ages(TrackLife) /\ Absent \in Ages(WaitLife)
      BY LiveMapAssumption DEF Absent, Ages
    <2> QED BY <2>1 DEF LiveMapInit, MapTypes
  <1>4. TopicInv /\ StreamInv /\ PageInv
    BY OneTab DEF LiveMapInit, Init, TopicInv, StreamInv, PageInv
  <1> QED BY <1>1, <1>2, <1>3, <1>4, TypeParts DEF LiveMapInv

\* What the matcher announces changes what is so, and the page is told.
LEMMA AnnouncedKeeps ==
    ASSUME LiveMapInv, NEW e, NEW r \in Req, NEW d,
           [event |-> e, req |-> r, cab |-> d] \in Message, Tell(e, r, d),
           UNCHANGED <<fleet, posted, maps>>, TopicTypes', TopicInv', AskTypes',
           \A q \in Req : Shown(q)' = IF q = r /\ e \in {"assigned", "completed"} /\ Tab \in open
                                      THEN (IF e = "assigned" THEN d ELSE None)
                                      ELSE Shown(q)
    PROVE  LiveMapInv'
  <1>1. StreamTypes' /\ StreamInv' /\ open' = open
    BY TellAdds, TypeParts DEF LiveMapInv
  <1>2. SimulatorTypeOK' /\ MapTypes'
    BY TypeParts DEF LiveMapInv, fleet, maps, SimulatorTypeOK, MapTypes
  <1>3. PageInv'
    <2>1. CASE Tab \in open
      BY <2>1, TellAgrees DEF maps
    <2>2. CASE Tab \notin open
      BY <1>1, <2>2 DEF PageInv
    <2> QED BY <2>1, <2>2
  <1>4. LiveMapTypeOK'
    BY <1>1, <1>2 DEF LiveMapTypeOK, TopicTypes, StreamTypes, MapTypes, AskTypes
  <1> QED BY <1>1, <1>3, <1>4 DEF LiveMapInv

\* Every step keeps the invariant.
LEMMA LiveMapInvStep == LiveMapInv /\ [LiveMapNext]_mvars => LiveMapInv'
  <1> SUFFICES ASSUME LiveMapInv, [LiveMapNext]_mvars PROVE LiveMapInv'
    OBVIOUS
  <1>0. SimulatorTypeOK /\ TopicTypes /\ StreamTypes /\ MapTypes /\ AskTypes
        /\ TopicInv /\ StreamInv /\ PageInv
    BY TypeParts DEF LiveMapInv
  <1>t. SimulatorTypeOK' /\ TopicTypes' /\ StreamTypes' /\ MapTypes' /\ AskTypes'
        /\ TopicInv' /\ StreamInv' /\ PageInv' => LiveMapInv'
    BY DEF LiveMapInv, LiveMapTypeOK, TopicTypes, StreamTypes, MapTypes, AskTypes
  <1>n. None \notin Req /\ None \notin Cab /\ MaxAsks \in Nat /\ TrackLife \in Nat /\ WaitLife \in Nat
    BY LiveMapAssumption
  <1>1. ASSUME Simulate, UNCHANGED <<svars, topic, lost, maps>> PROVE LiveMapInv'
    <2>1. SimulatorTypeOK'
      BY <1>0, <1>1, SimulatorTypeStep
    <2>2. TopicTypes' /\ StreamTypes' /\ MapTypes' /\ AskTypes' /\ TopicInv' /\ StreamInv'
      BY <1>0, <1>1 DEF svars, topic, maps, TopicTypes, StreamTypes, MapTypes, AskTypes,
                        TopicInv, StreamInv
    <2>3. PageInv'
      BY <1>0, <1>1 DEF svars, topic, maps, PageInv, Shown
    <2> QED BY <1>t, <2>1, <2>2, <2>3
  <1>2. ASSUME NEW d \in Cab, Report(d) PROVE LiveMapInv'
    <2>1. posted' = posted \ {d} /\ UNCHANGED <<fleet, topic, maps>>
      BY <1>2 DEF Report
    <2>2. SimulatorTypeOK' /\ TopicTypes' /\ MapTypes' /\ AskTypes' /\ TopicInv'
      BY <1>0, <2>1 DEF fleet, topic, maps, SimulatorTypeOK, TopicTypes, MapTypes, AskTypes, TopicInv
    <2>3. \A q \in Req : Shown(q)' = Shown(q)
      BY <2>1 DEF topic, Shown
    <2>4. CASE Tell("position", None, d)
      <3>1. [event |-> "position", req |-> None, cab |-> d] \in Message
        BY DEF Message
      <3>2. StreamTypes' /\ StreamInv'
        BY <1>0, <2>4, <3>1, TellAdds
      <3>3. PageInv'
        BY <2>1, <2>3, <2>4, <3>1, TellAgrees DEF maps
      <3> QED BY <1>t, <2>2, <3>2, <3>3
    <2>5. CASE UNCHANGED <<svars, lost>>
      <3>1. StreamTypes' /\ StreamInv'
        BY <1>0, <2>5 DEF svars, StreamTypes, StreamInv
      <3>2. PageInv'
        BY <1>0, <2>1, <2>3, <2>5 DEF svars, maps, PageInv
      <3> QED BY <1>t, <2>2, <3>1, <3>2
    <2> QED BY <1>2, <2>4, <2>5 DEF Report
  <1>3. ASSUME NEW r \in Req, Requested(r) PROVE LiveMapInv'
    <2>1. [event |-> "requested", req |-> r, cab |-> None] \in Message
      BY DEF Message
    <2>2. TopicTypes' /\ TopicInv'
      BY <1>0, <1>3 DEF Requested, TopicTypes, TopicInv
    <2>3. AskTypes'
      <3>1. asks[r] + 1 \in 0..MaxAsks
        BY <1>0, <1>3, <1>n DEF Requested, AskTypes
      <3> QED BY <1>0, <1>3, <3>1 DEF Requested, AskTypes
    <2>4. \A q \in Req : Shown(q)' = Shown(q)
      BY <1>3 DEF Requested, Shown
    <2>5. Tell("requested", r, None) /\ UNCHANGED <<fleet, posted, maps>>
      BY <1>3 DEF Requested
    <2> QED BY <2>1, <2>2, <2>3, <2>4, <2>5, AnnouncedKeeps
  <1>4. ASSUME NEW r \in Req, Unmatched(r) PROVE LiveMapInv'
    <2>1. [event |-> "unmatched", req |-> r, cab |-> None] \in Message
      BY DEF Message
    <2>2. TopicTypes' /\ TopicInv' /\ AskTypes'
      BY <1>0, <1>4 DEF Unmatched, TopicTypes, TopicInv, AskTypes
    <2>4. \A q \in Req : Shown(q)' = Shown(q)
      BY <1>4 DEF Unmatched, Shown
    <2>5. Tell("unmatched", r, None) /\ UNCHANGED <<fleet, posted, maps>>
      BY <1>4 DEF Unmatched
    <2> QED BY <2>1, <2>2, <2>4, <2>5, AnnouncedKeeps
  <1>5. ASSUME NEW r \in Req, NEW d \in Cab, Assigned(r, d) PROVE LiveMapInv'
    <2>1. [event |-> "assigned", req |-> r, cab |-> d] \in Message
      BY DEF Message
    <2>2. TopicTypes' /\ TopicInv' /\ AskTypes'
      BY <1>0, <1>5 DEF Assigned, TopicTypes, TopicInv, AskTypes
    <2>3. r \notin since
      BY <1>0, <1>5 DEF Assigned, TopicInv
    <2>4. \A q \in Req : Shown(q)' = IF q = r /\ Tab \in open THEN d ELSE Shown(q)
      BY <1>0, <1>5, <2>3 DEF Assigned, Shown, TopicTypes
    <2>5. Tell("assigned", r, d) /\ UNCHANGED <<fleet, posted, maps>>
      BY <1>5 DEF Assigned
    <2> QED BY <2>1, <2>2, <2>4, <2>5, AnnouncedKeeps
  <1>6. ASSUME NEW r \in Req, Completed(r) PROVE LiveMapInv'
    <2>1. cab[r] \in Cab
      BY <1>0, <1>6 DEF Completed, TopicInv
    <2>2. [event |-> "completed", req |-> r, cab |-> cab[r]] \in Message
      BY <2>1 DEF Message
    <2>3. TopicTypes' /\ TopicInv' /\ AskTypes'
      BY <1>0, <1>6 DEF Completed, TopicTypes, TopicInv, AskTypes
    <2>4. \A q \in Req : Shown(q)' = IF q = r THEN None ELSE Shown(q)
      BY <1>0, <1>6 DEF Completed, Shown, TopicTypes
    <2>5. Tell("completed", r, cab[r]) /\ UNCHANGED <<fleet, posted, maps>>
      BY <1>6 DEF Completed
    <2>6. LiveMapTypeOK' /\ StreamInv'
      <3>1. StreamTypes' /\ StreamInv'
        BY <1>0, <2>2, <2>5, TellAdds
      <3> QED BY <1>0, <2>3, <2>5, <3>1 DEF fleet, maps, SimulatorTypeOK, MapTypes,
                     LiveMapTypeOK, TopicTypes, StreamTypes, AskTypes
    <2>7. PageInv'
      BY <2>2, <2>4, <2>5, TellAgrees DEF maps
    <2> QED BY <2>3, <2>6, <2>7 DEF LiveMapInv
  <1>7. ASSUME NEW r \in Req, Orphaned(r) PROVE LiveMapInv'
    <2>1. TopicTypes' /\ TopicInv' /\ AskTypes'
      BY <1>0, <1>7 DEF Orphaned, TopicTypes, TopicInv, AskTypes
    <2>2. SimulatorTypeOK' /\ StreamTypes' /\ MapTypes' /\ StreamInv'
      BY <1>0, <1>7 DEF Orphaned, fleet, svars, maps, SimulatorTypeOK, StreamTypes, MapTypes, StreamInv
    <2>3. \A q \in Req \ lost' : q \in Req \ lost /\ Shown(q)' = Shown(q)
      BY <1>0, <1>7 DEF Orphaned, Shown, TopicTypes
    <2>4. PageInv'
      BY <1>0, <1>7, <2>3 DEF Orphaned, svars, maps, PageInv
    <2> QED BY <1>t, <2>1, <2>2, <2>4
  <1>8. ASSUME Load PROVE LiveMapInv'
    <2>1. /\ Tab \notin open /\ open' = open \union {Tab} /\ queue' = queue
          /\ trips' = [r \in Req |-> None] /\ since' = {} /\ lost' = {}
          /\ UNCHANGED <<fleet, posted, said, cab, asks>>
      BY <1>8 DEF Load, Open, Empty
    <2>2. SimulatorTypeOK' /\ TopicTypes' /\ StreamTypes' /\ AskTypes' /\ TopicInv' /\ StreamInv'
      BY <1>0, <2>1, OneTab DEF fleet, SimulatorTypeOK, TopicTypes, StreamTypes, AskTypes,
                               TopicInv, StreamInv
    <2>3. MapTypes'
      <3>1. Absent \in Ages(TrackLife) /\ Absent \in Ages(WaitLife)
        BY <1>n DEF Absent, Ages
      <3> QED BY <1>8, <3>1 DEF Load, Empty, MapTypes
    <2>4. PageInv'
      <3>1. queue'[Tab] = << >>
        BY <1>0, <2>1 DEF StreamInv
      <3>2. \A r \in Req : Shown(r)' = None /\ trips'[r] = None
        BY <2>1 DEF Shown
      <3> QED BY <3>1, <3>2 DEF PageInv, Agrees
    <2> QED BY <1>t, <2>2, <2>3, <2>4
  <1>9. ASSUME Disconnect PROVE LiveMapInv'
    <2>1. /\ open' = open \ {Tab} /\ queue' = [queue EXCEPT ![Tab] = << >>] /\ lost' = {}
          /\ UNCHANGED <<fleet, posted, topic, maps>>
      BY <1>9 DEF Disconnect, Shut
    <2>2. SimulatorTypeOK' /\ TopicTypes' /\ MapTypes' /\ AskTypes' /\ TopicInv'
      BY <1>0, <2>1 DEF fleet, topic, maps, SimulatorTypeOK, TopicTypes, MapTypes, AskTypes, TopicInv
    <2>3. StreamTypes' /\ StreamInv' /\ PageInv'
      <3>1. << >> \in Seq(Message)
        OBVIOUS
      <3> QED BY <1>0, <2>1, <3>1, OneTab DEF StreamTypes, StreamInv, PageInv
    <2> QED BY <1>t, <2>2, <2>3
  <1>10. ASSUME OnMessage PROVE LiveMapInv'
    <2> DEFINE q == queue[Tab]
               m == Head(q)
    <2>1. /\ Tab \in open /\ q # << >> /\ queue' = [queue EXCEPT ![Tab] = Tail(q)] /\ open' = open
          /\ Heard(m) /\ UNCHANGED <<fleet, posted, topic, lost>>
      BY <1>10 DEF OnMessage, Hear
    <2>2. q \in Seq(Message) /\ m \in Message /\ Tail(q) \in Seq(Message)
      BY <1>0, <2>1, OneTab DEF StreamTypes
    <2>3. SimulatorTypeOK' /\ TopicTypes' /\ AskTypes' /\ TopicInv'
      BY <1>0, <2>1 DEF fleet, topic, SimulatorTypeOK, TopicTypes, AskTypes, TopicInv
    <2>4. StreamTypes' /\ StreamInv'
      BY <1>0, <2>1, <2>2, OneTab DEF StreamTypes, StreamInv
    <2> HIDE DEF q, m
    <2>5. \/ m.event = "position" /\ m.cab \in Cab /\ m.req = None
          \/ m.event \in {"requested", "unmatched"} /\ m.req \in Req /\ m.cab = None
          \/ m.event \in {"assigned", "completed"} /\ m.req \in Req /\ m.cab \in Cab
      BY <2>2 DEF Message
    <2>6. /\ 0 \in Ages(TrackLife) /\ 0 \in Ages(WaitLife)
          /\ Absent \in Ages(WaitLife)
      BY <1>n DEF Ages, Absent
    <2>7. MapTypes'
      BY <1>0, <2>1, <2>5, <2>6 DEF Heard, MapTypes
    <2>8. \A r \in Req : trips'[r] = IF Trip(m, r) THEN Effect(m) ELSE trips[r]
      BY <1>0, <1>n, <2>1, <2>5 DEF Heard, MapTypes, Trip, Effect
    <2>9. PageInv'
      <3> SUFFICES ASSUME NEW r \in Req \ lost' PROVE Agrees(queue'[Tab], r, trips'[r], Shown(r)')
        BY DEF PageInv
      <3>1. r \in Req \ lost /\ Shown(r)' = Shown(r)
        BY <2>1 DEF topic, Shown
      <3>2. queue'[Tab] = Tail(q)
        BY <1>0, <2>1, OneTab DEF StreamTypes
      <3>3. Agrees(q, r, trips[r], Shown(r))
        BY <1>0, <2>1, <3>1 DEF PageInv, q
      <3>4. Agrees(Tail(q), r, IF Trip(m, r) THEN Effect(m) ELSE trips[r], Shown(r))
        BY <2>1, <2>2, <3>3, AgreesTail DEF m
      <3> QED BY <2>8, <3>1, <3>2, <3>4
    <2> QED BY <1>t, <2>3, <2>4, <2>7, <2>9
  <1>11. ASSUME Second \/ Frame PROVE LiveMapInv'
    <2>1. UNCHANGED <<fleet, posted, svars, topic, lost, trips>>
      BY <1>11 DEF Second, Frame
    <2>2. SimulatorTypeOK' /\ TopicTypes' /\ StreamTypes' /\ AskTypes' /\ TopicInv' /\ StreamInv'
      BY <1>0, <2>1 DEF fleet, svars, topic, SimulatorTypeOK, TopicTypes, StreamTypes, AskTypes,
                        TopicInv, StreamInv
    <2>3. PageInv'
      BY <1>0, <2>1 DEF svars, topic, PageInv, Shown
    <2>4. MapTypes'
      BY <1>0, <1>n, <1>11, <2>1, AgesKept DEF Second, Frame, MapTypes
    <2> QED BY <1>t, <2>2, <2>3, <2>4
  <1>12. ASSUME UNCHANGED mvars PROVE LiveMapInv'
    <2>1. SimulatorTypeOK' /\ TopicTypes' /\ StreamTypes' /\ MapTypes' /\ AskTypes'
          /\ TopicInv' /\ StreamInv'
      BY <1>0, <1>12 DEF mvars, fleet, svars, topic, maps, SimulatorTypeOK, TopicTypes,
                StreamTypes, MapTypes, AskTypes, TopicInv, StreamInv
    <2>2. PageInv'
      BY <1>0, <1>12 DEF mvars, svars, topic, maps, PageInv, Shown
    <2> QED BY <1>t, <2>1, <2>2
  <1> QED BY <1>1, <1>2, <1>3, <1>4, <1>5, <1>6, <1>7, <1>8, <1>9, <1>10, <1>11, <1>12
          DEF LiveMapNext

\* The invariant holds of every behaviour.
LEMMA LiveMapInvHolds == LiveMapSpec => []LiveMapInv
  BY LiveMapInvInit, LiveMapInvStep, PTL DEF LiveMapSpec

\* The fleet, the events and the page's maps keep their types: what a report
\* or an event names is a driver or a request, however the slider is moved.
THEOREM LiveMapTypeCorrect == LiveMapSpec => []LiveMapTypeOK
  <1>1. LiveMapInv => LiveMapTypeOK
    BY DEF LiveMapInv
  <1> QED BY <1>1, LiveMapInvHolds, PTL

\* ws.onmessage: a connected page that missed no event of a request shows its
\* trip, with the right driver, exactly while it goes on, however many requests
\* and drivers there are and whatever order their events are heard in.
THEOREM MapIsExact == LiveMapSpec => []MapExact
  <1>1. LiveMapInv => MapExact
    <2> SUFFICES ASSUME LiveMapInv, NEW r \in Req \ lost, Tab \in open, ~Unheard(r)
                 PROVE  trips[r] = Shown(r)
      BY DEF MapExact, Shown
    <2>1. queue[Tab] \in Seq(Message)
      BY OneTab, TypeParts DEF LiveMapInv, StreamTypes
    <2>2. \A i \in 1..Len(queue[Tab]) : ~Trip(queue[Tab][i], r)
      BY <2>1 DEF Unheard, Trip
    <2> QED BY <2>2 DEF LiveMapInv, PageInv, Agrees
  <1> QED BY <1>1, LiveMapInvHolds, PTL

\* To tell the page is a step of its connection, or none.
LEMMA TellStreams ==
    ASSUME NEW e, NEW r, NEW d, [event |-> e, req |-> r, cab |-> d] \in Message, Tell(e, r, d)
    PROVE  [Next]_svars
  <1> DEFINE m == [event |-> e, req |-> r, cab |-> d]
  <1>1. m \in Record
    BY LiveMapAssumption
  <1>2. Accept(Tab, m) \/ Drop(Tab) \/ UNCHANGED svars
    BY DEF Tell
  <1> HIDE DEF m
  <1> QED BY <1>1, <1>2, OneTab DEF Next

\* new WebSocket(WS): the connection the page's map hangs on is a Stream, which
\* is what Fanout implements for any number of connections: it is told in order
\* of what the topic says, each record once unless it is dropped.
THEOREM ConnectionIsStream == LiveMapSpec => Spec
  <1>1. LiveMapInit => Init
    BY DEF LiveMapInit
  <1>2. LiveMapInv /\ [LiveMapNext]_mvars => [Next]_svars
    <2> SUFFICES ASSUME LiveMapInv, [LiveMapNext]_mvars PROVE [Next]_svars
      OBVIOUS
    <2>1. CASE UNCHANGED svars
      BY <2>1
    <2>2. ASSUME NEW d \in Cab, Report(d) PROVE [Next]_svars
      <3>1. [event |-> "position", req |-> None, cab |-> d] \in Message
        BY DEF Message
      <3> QED BY <2>2, <3>1, TellStreams DEF Report
    <2>3. ASSUME NEW r \in Req, Requested(r) PROVE [Next]_svars
      <3>1. [event |-> "requested", req |-> r, cab |-> None] \in Message
        BY DEF Message
      <3> QED BY <2>3, <3>1, TellStreams DEF Requested
    <2>4. ASSUME NEW r \in Req, Unmatched(r) PROVE [Next]_svars
      <3>1. [event |-> "unmatched", req |-> r, cab |-> None] \in Message
        BY DEF Message
      <3> QED BY <2>4, <3>1, TellStreams DEF Unmatched
    <2>5. ASSUME NEW r \in Req, NEW d \in Cab, Assigned(r, d) PROVE [Next]_svars
      <3>1. [event |-> "assigned", req |-> r, cab |-> d] \in Message
        BY DEF Message
      <3> QED BY <2>5, <3>1, TellStreams DEF Assigned
    <2>6. ASSUME NEW r \in Req, Completed(r) PROVE [Next]_svars
      <3>1. cab[r] \in Cab
        BY <2>6 DEF Completed, LiveMapInv, TopicInv
      <3>2. [event |-> "completed", req |-> r, cab |-> cab[r]] \in Message
        BY <3>1 DEF Message
      <3> QED BY <2>6, <3>2, TellStreams DEF Completed
    <2>7. CASE Load
      BY <2>7, OneTab DEF Load, Next
    <2>8. CASE Disconnect
      BY <2>8, OneTab DEF Disconnect, Next
    <2>9. CASE OnMessage
      BY <2>9, OneTab DEF OnMessage, Next
    <2>10. CASE \/ Simulate /\ UNCHANGED <<svars, topic, lost, maps>>
                \/ (\E r \in Req : Orphaned(r))
                \/ Second \/ Frame \/ UNCHANGED mvars
      BY <2>1, <2>10 DEF Orphaned, Second, Frame, mvars
    <2> QED BY <2>2, <2>3, <2>4, <2>5, <2>6, <2>7, <2>8, <2>9, <2>10 DEF LiveMapNext
  <1> QED BY <1>1, <1>2, LiveMapInvHolds, PTL DEF LiveMapSpec, Spec

\* setDrivers: however the slider is moved, the goroutines that drive and were
\* not cancelled are those whose cancel functions are kept, each once: none is
\* beyond the slider's reach, and none returns that was not cancelled.
THEOREM FleetIsExact == LiveMapSpec => []FleetExact
  <1>1. LiveMapInit => FleetExact
    BY FleetExactInit DEF LiveMapInit
  <1>2. LiveMapInv /\ FleetExact /\ [LiveMapNext]_mvars => FleetExact'
    <2> SUFFICES ASSUME LiveMapInv, FleetExact, [LiveMapNext]_mvars
                 PROVE  Simulate \/ UNCHANGED fleet
      BY FleetExactStep DEF LiveMapInv, LiveMapTypeOK
    <2> QED BY DEF LiveMapNext, mvars, Report, Requested, Unmatched, Assigned, Completed,
               Orphaned, Load, Disconnect, OnMessage, Second, Frame
  <1> QED BY <1>1, <1>2, LiveMapInvHolds, PTL DEF LiveMapSpec

\* The drivers that report: started and not cancelled.
Driving == {d \in Cab : loop[d] = "drives" /\ d \notin cancelled}

\* POST /control: when a request was handled, as many drivers report as it
\* asked for, within the limits, whatever the requests before it were.
THEOREM SliderIsObeyed ==
    LiveMapSpec => [][\A n \in Slider : HandleControl(n) => Cardinality(Driving') = Clamp(n)]_mvars
  <1> DEFINE Obeyed == \A n \in Slider : HandleControl(n) => Cardinality(Driving') = Clamp(n)
  <1>1. LiveMapInv /\ FleetExact => Obeyed
    <2> SUFFICES ASSUME LiveMapInv, FleetExact, NEW n \in Slider, HandleControl(n)
                 PROVE  Cardinality(Driving') = Clamp(n)
      OBVIOUS
    <2>1. SimulatorTypeOK /\ Clamp(n) \in Nat /\ Len(listed) \in Nat /\ SetDrivers(Clamp(n))
      BY SimulatorAssumption DEF LiveMapInv, LiveMapTypeOK, SimulatorTypeOK, Clamp, HandleControl
    <2>2. FleetExact' /\ Len(listed') = Clamp(n)
      <3> HIDE DEF FleetExact
      <3> QED BY <2>1, FleetGrows, FleetShrinks
    <2>3. SimulatorTypeOK'
      <3>1. Simulate
        BY DEF Simulate
      <3> QED BY <2>1, <3>1, SimulatorTypeStep
    <2> DEFINE k == Clamp(n)
               new == listed'
    <2>4. new \in Seq(Cab) /\ Len(new) = k /\ k \in Nat
      BY <2>1, <2>2, <2>3 DEF SimulatorTypeOK
    <2>5. Driving' = ToSet(new)
      <3>1. \A d \in Cab : d \in Driving' <=> loop'[d] = "drives" /\ d \notin cancelled'
        BY DEF Driving
      <3>2. \A d \in Cab : loop'[d] \in Loop
        BY <2>3 DEF SimulatorTypeOK
      <3>3. \A d \in Cab : d \in Driving' <=> d \in ToSet(new)
        <4>1. nextDriver' \in Nat /\ Cab \subseteq Nat
          BY <2>3, SimulatorAssumption DEF SimulatorTypeOK, Cab
        <4>2. \A d \in Cab : d < nextDriver' <=> ~(d >= nextDriver')
          BY <4>1
        <4> QED BY <2>2, <3>1, <3>2, <4>2 DEF FleetExact, Loop
      <3>4. Driving' \subseteq Cab /\ ToSet(new) \subseteq Cab
        BY <2>4, InList DEF Driving
      <3> QED BY <3>3, <3>4
    <2>6. \A i, j \in 1..k : new[i] = new[j] => i = j
      <3> SUFFICES ASSUME NEW i \in 1..k, NEW j \in 1..k, new[i] = new[j] PROVE i = j
        OBVIOUS
      <3>1. new[i] \in Nat
        BY <2>4, SimulatorAssumption DEF Cab
      <3>2. \A x \in Nat : ~(x < x)
        OBVIOUS
      <3>3. ~(new[i] < new[j]) /\ ~(new[j] < new[i])
        BY <3>1, <3>2
      <3>4. (i < j => new[i] < new[j]) /\ (j < i => new[j] < new[i])
        BY <2>2 DEF FleetExact
      <3> QED BY <2>4, <3>3, <3>4
    <2> HIDE DEF k, new
    <2>7. new \in Bijection(1..k, ToSet(new))
      <3>1. /\ \A i \in 1..k : new[i] \in ToSet(new)
            /\ \A d \in ToSet(new) : \E i \in 1..k : new[i] = d
        BY <2>4, InList
      <3>2. new \in [1..k -> ToSet(new)]
        BY <2>4, <3>1
      <3>3. new \in Injection(1..k, ToSet(new))
        BY <2>6, <3>2 DEF Injection, IsInjective
      <3>4. new \in Surjection(1..k, ToSet(new))
        BY <3>1, <3>2 DEF Surjection
      <3> QED BY <3>3, <3>4 DEF Bijection
    <2>8. IsFiniteSet(1..k) /\ Cardinality(1..k) = k
      BY <2>4, FS_Interval
    <2>9. Cardinality(ToSet(new)) = k
      <3>1. ExistsBijection(1..k, ToSet(new))
        BY <2>7 DEF ExistsBijection
      <3> QED BY <2>8, <3>1, FS_Bijection
    <2> QED BY <2>5, <2>9 DEF k
  <1>2. [](LiveMapInv /\ FleetExact) /\ [][LiveMapNext]_mvars => [][Obeyed]_mvars
    <2> HIDE DEF Obeyed
    <2> QED BY <1>1, PTL
  <1> HIDE DEF Obeyed
  <1>3. LiveMapSpec => [][Obeyed]_mvars
    BY <1>2, LiveMapInvHolds, FleetIsExact, PTL DEF LiveMapSpec
  <1> QED BY <1>3 DEF Obeyed
===============================================================================
