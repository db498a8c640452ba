------------------------------ MODULE TickerProofs -----------------------------
(***************************************************************************)
(* Theorems about the two services that live by a ticker.  Feeds, for any  *)
(* number of goroutines, any period of the ticker, any bound on OpenSky's  *)
(* answers and whatever fails.  Surge, for any zones, any ring of three    *)
(* slots or more, and whenever slots end late or the service restarts.     *)
(***************************************************************************)
EXTENDS Feeds, Surge, SumProofs, SequenceTheorems

-------------------------------------------------------------------------------
(* Feeds.                                                                    *)

\* An answer is a list of rows of bounded length.
LEMMA AnswerIsList ==
    ASSUME NEW a
    PROVE  a \in Answer <=> (a \in Seq(Row) /\ Len(a) <= MaxRows)
  <1>1. ASSUME a \in Answer PROVE a \in Seq(Row) /\ Len(a) <= MaxRows
    <2>1. PICK k \in 0..MaxRows : a \in [1..k -> Row]
      BY <1>1 DEF Answer
    <2>2. k \in Nat /\ k <= MaxRows
      BY FeedsAssumption
    <2> QED BY <2>1, <2>2
  <1>2. ASSUME a \in Seq(Row), Len(a) <= MaxRows PROVE a \in Answer
    <2>1. Len(a) \in 0..MaxRows /\ a \in [1..Len(a) -> Row]
      BY <1>2, FeedsAssumption
    <2> QED BY <2>1 DEF Answer
  <1> QED BY <1>1, <1>2

\* What emit() has counted and what it has before it come from one answer.
Emitting == \A p \in Poller : pc[p] = "emit" => n[p] + Len(rows[p]) <= MaxRows

FeedsInv == TypeOK /\ Emitting /\ OneLivePoller

(* The types in three parts, each for what the provers are good at.         *)

Flags == enabled \in BOOLEAN /\ crashed \in BOOLEAN
Counters == /\ n \in [Poller -> 0..MaxRows] /\ lastCount \in 0..MaxRows
            /\ timer \in [Poller -> 0..pollEvery]
            /\ sent \in 0..(pollEvery + 1) /\ toggles \in 0..MaxToggles
Places == /\ current \in Poller \union {None} /\ cancelled \subseteq Poller
          /\ due \subseteq Poller
          /\ pc \in [Poller -> PC] /\ rows \in [Poller -> Answer]
          /\ lastErr \in {"", "request", "429", "status", "decode"}
          /\ answer \in {"none", "200", "429", "status"}

\* Together they are TypeOK.
LEMMA TypeParts == TypeOK <=> Flags /\ Counters /\ Places
  BY Zenon DEF TypeOK, Flags, Counters, Places

Limits == pollEvery \in Nat \ {0} /\ MaxRows \in Nat /\ MaxToggles \in Nat

\* The bounds are numbers.
LEMMA LimitsHold == Limits
  BY FeedsAssumption DEF Limits

\* An answer without rows is one.
LEMMA NoRows == << >> \in Answer
  <1>1. << >> \in Seq(Row) /\ Len(<< >>) <= MaxRows
    BY LimitsHold DEF Limits
  <1> QED BY <1>1, AnswerIsList

\* The feed is off at the start.
LEMMA FeedsInvInit == Init => FeedsInv
  <1> SUFFICES ASSUME Init PROVE FeedsInv
    OBVIOUS
  <1>1. Flags
    BY DEF Init, Flags
  <1>2. Counters
    <2>1. 0 \in 0..MaxRows /\ 0 \in 0..pollEvery /\ 0 \in 0..MaxToggles
      BY LimitsHold DEF Limits
    <2>2. pollEvery + 1 \in 0..(pollEvery + 1)
      BY LimitsHold DEF Limits
    <2> QED BY <2>1, <2>2 DEF Init, Counters
  <1>3. Places
    BY NoRows DEF Init, Places, PC
  <1>4. Emitting /\ OneLivePoller
    BY DEF Init, Emitting, OneLivePoller, Live
  <1> QED BY <1>1, <1>2, <1>3, <1>4, TypeParts DEF FeedsInv

\* What emit() has before it after one row.
LEMMA OneRowLess ==
    ASSUME FeedsInv, NEW p \in Poller, EmitRow(p)
    PROVE  /\ rows' = [rows EXCEPT ![p] = Tail(rows[p])] /\ Tail(rows[p]) \in Answer
           /\ \E m \in 0..MaxRows : n' = [n EXCEPT ![p] = m] /\ m + Len(Tail(rows[p])) <= MaxRows
  <1>1. /\ rows[p] \in Answer /\ rows[p] # << >> /\ n[p] \in 0..MaxRows
        /\ n[p] + Len(rows[p]) <= MaxRows
    BY TypeParts DEF EmitRow, FeedsInv, Emitting, Counters, Places
  <1>2. /\ rows[p] \in Seq(Row) /\ Len(rows[p]) <= MaxRows
    BY <1>1, AnswerIsList
  <1>3. /\ Tail(rows[p]) \in Seq(Row) /\ Len(Tail(rows[p])) = Len(rows[p]) - 1
        /\ Len(rows[p]) \in Nat \ {0}
    BY <1>1, <1>2
  <1>4. Tail(rows[p]) \in Answer
    <2>1. Len(Tail(rows[p])) <= MaxRows
      BY <1>2, <1>3, LimitsHold DEF Limits
    <2> QED BY <1>3, <2>1, AnswerIsList
  <1> DEFINE m == IF Head(rows[p]) = "full" THEN n[p] + 1 ELSE n[p]
  <1>5. m = n[p] + 1 \/ m = n[p]
    OBVIOUS
  <1>6. n' = [n EXCEPT ![p] = m] /\ rows' = [rows EXCEPT ![p] = Tail(rows[p])]
    BY DEF EmitRow
  <1> HIDE DEF m
  <1>7. m \in 0..MaxRows /\ m + Len(Tail(rows[p])) <= MaxRows
    BY <1>1, <1>3, <1>5, LimitsHold DEF Limits
  <1> QED BY <1>4, <1>6, <1>7

\* Every step keeps the types.
LEMMA FeedsTypeStep == FeedsInv /\ [Next]_vars => TypeOK'
  <1> SUFFICES ASSUME FeedsInv, [Next]_vars PROVE TypeOK'
    OBVIOUS
  <1>0. Flags /\ Counters /\ Places
    BY TypeParts DEF FeedsInv
  <1>t. Flags' /\ Counters' /\ Places' => TypeOK'
    BY DEF TypeOK, Flags, Counters, Places
  <1> USE DEF PC, switch, status, ticker, Goto
  <1>1. ASSUME NEW p \in Poller, Enable(p) PROVE TypeOK'
    <2>1. Flags'
      BY <1>0, <1>1 DEF Flags, Enable
    <2>2. Counters'
      BY <1>0, <1>1, LimitsHold DEF Limits, Counters, Enable
    <2>3. Places'
      BY <1>0, <1>1 DEF Places, Enable
    <2> QED BY <2>1, <2>2, <2>3, <1>t
  <1>2. ASSUME NEW p \in Poller, Ask(p) PROVE TypeOK'
    <2>1. Flags'
      BY <1>0, <1>2 DEF Flags, Ask
    <2>2. Counters'
      BY <1>0, <1>2, LimitsHold DEF Limits, Counters, Ask
    <2>3. Places'
      BY <1>0, <1>2 DEF Places, Ask
    <2> QED BY <2>1, <2>2, <2>3, <1>t
  <1>3. ASSUME NEW p \in Poller, RequestFails(p) PROVE TypeOK'
    <2>1. Flags'
      BY <1>0, <1>3 DEF Flags, RequestFails, SetErr, PollOver
    <2>2. Counters'
      BY <1>0, <1>3, LimitsHold DEF Limits, Counters, RequestFails, SetErr, PollOver
    <2>3. Places'
      BY <1>0, <1>3 DEF Places, RequestFails, SetErr, PollOver
    <2> QED BY <2>1, <2>2, <2>3, <1>t
  <1>4. ASSUME NEW p \in Poller, Refused(p) PROVE TypeOK'
    <2>1. Flags'
      BY <1>0, <1>4 DEF Flags, Refused, SetErr, PollOver
    <2>2. Counters'
      BY <1>0, <1>4, LimitsHold DEF Limits, Counters, Refused, SetErr, PollOver
    <2>3. Places'
      BY <1>0, <1>4 DEF Places, Refused, SetErr, PollOver
    <2> QED BY <2>1, <2>2, <2>3, <1>t
  <1>5. ASSUME NEW p \in Poller, DecodeFails(p) PROVE TypeOK'
    <2>1. Flags'
      BY <1>0, <1>5 DEF Flags, DecodeFails, SetErr, PollOver
    <2>2. Counters'
      BY <1>0, <1>5, LimitsHold DEF Limits, Counters, DecodeFails, SetErr, PollOver
    <2>3. Places'
      BY <1>0, <1>5 DEF Places, DecodeFails, SetErr, PollOver
    <2> QED BY <2>1, <2>2, <2>3, <1>t
  <1>6. ASSUME NEW p \in Poller, Answered(p) PROVE TypeOK'
    <2>1. Flags'
      BY <1>0, <1>6 DEF Flags, Answered
    <2>2. Counters'
      BY <1>0, <1>6, LimitsHold DEF Limits, Counters, Answered
    <2>3. Places'
      BY <1>0, <1>6 DEF Places, Answered
    <2> QED BY <2>1, <2>2, <2>3, <1>t
  <1>7. ASSUME NEW p \in Poller, Stop(p) PROVE TypeOK'
    <2>1. Flags'
      BY <1>0, <1>7 DEF Flags, Stop
    <2>2. Counters'
      BY <1>0, <1>7, LimitsHold DEF Limits, Counters, Stop
    <2>3. Places'
      BY <1>0, <1>7 DEF Places, Stop
    <2> QED BY <2>1, <2>2, <2>3, <1>t
  <1>8. ASSUME NEW p \in Poller, PollAgain(p) PROVE TypeOK'
    <2>1. Flags'
      BY <1>0, <1>8 DEF Flags, PollAgain
    <2>2. Counters'
      BY <1>0, <1>8, LimitsHold DEF Limits, Counters, PollAgain
    <2>3. Places'
      BY <1>0, <1>8 DEF Places, PollAgain
    <2> QED BY <2>1, <2>2, <2>3, <1>t
  <1>9. CASE Disable
    <2>1. Flags'
      BY <1>0, <1>9 DEF Flags, Disable
    <2>2. Counters'
      BY <1>0, <1>9, LimitsHold DEF Limits, Counters, Disable
    <2>3. current \in Poller
      BY <1>9 DEF Disable, FeedsInv, OneLivePoller, Live
    <2>4. Places'
      BY <1>0, <1>9, <2>3 DEF Places, Disable
    <2> QED BY <2>1, <2>2, <2>4, <1>t
  <1>10. ASSUME NEW p \in Poller, EmitRow(p) PROVE TypeOK'
    <2>1. Flags'
      BY <1>0, <1>10 DEF Flags, EmitRow
    <2>2. PICK m \in 0..MaxRows : n' = [n EXCEPT ![p] = m]
      BY <1>10, OneRowLess
    <2>3. Counters'
      BY <1>0, <1>10, <2>2 DEF Counters, EmitRow
    <2>4. rows' \in [Poller -> Answer]
      BY <1>0, <1>10, OneRowLess DEF Places
    <2>5. Places'
      BY <1>0, <1>10, <2>4 DEF Places, EmitRow
    <2> QED BY <2>1, <2>3, <2>5, <1>t
  <1>11. ASSUME NEW p \in Poller, EmitPanics(p) PROVE TypeOK'
    <2>1. Flags'
      BY <1>0, <1>11 DEF Flags, EmitPanics
    <2>2. 0 \in 0..MaxRows /\ 0 \in 0..pollEvery
      BY LimitsHold DEF Limits
    <2>3. Counters'
      BY <1>0, <1>11, <2>2 DEF Counters, EmitPanics
    <2>4. Places'
      BY <1>0, <1>11, NoRows DEF Places, EmitPanics
    <2> QED BY <2>1, <2>3, <2>4, <1>t
  <1>12. ASSUME NEW p \in Poller, Store(p) PROVE TypeOK'
    <2>1. Flags'
      BY <1>0, <1>12 DEF Flags, Store, PollOver
    <2>2. n[p] \in 0..MaxRows /\ pollEvery \in 0..pollEvery
      BY <1>0, LimitsHold DEF Counters, Limits
    <2>3. Counters'
      BY <1>0, <1>12, <2>2 DEF Counters, Store, PollOver
    <2>4. Places'
      BY <1>0, <1>12 DEF Places, Store, PollOver
    <2> QED BY <2>1, <2>3, <2>4, <1>t
  <1>13. CASE Tick
    <2>1. Flags'
      BY <1>0, <1>13 DEF Flags, Tick
    <2>2. Counters'
      BY <1>0, <1>13, LimitsHold DEF Limits, Counters, Tick
    <2>3. Places'
      BY <1>0, <1>13 DEF Places, Tick
    <2> QED BY <2>1, <2>2, <2>3, <1>t
  <1>14. CASE UNCHANGED vars
    <2>1. Flags' /\ Counters' /\ Places'
      BY <1>0, <1>14 DEF Flags, Counters, Places, vars
    <2> QED BY <2>1, <1>t
  <1> QED
    BY <1>1, <1>2, <1>3, <1>4, <1>5, <1>6, <1>7, <1>8, <1>9, <1>10, <1>11, <1>12,
       <1>13, <1>14
    DEF Next, Poll

\* A step of goroutine p that stays within what can be emitted, and leaves
\* alone the switch and the answers, keeps the invariant.
LEMMA PollStep ==
    ASSUME FeedsInv, TypeOK', NEW p \in Poller, UNCHANGED switch,
           \A q \in Poller : pc'[q] # "none" <=> pc[q] # "none",
           \A q \in Poller \ {p} : UNCHANGED <<pc[q], rows[q], n[q]>>,
           pc'[p] = "emit" => n'[p] + Len(rows'[p]) <= MaxRows
    PROVE  FeedsInv'
  <1>1. OneLivePoller'
    BY DEF FeedsInv, OneLivePoller, Live, switch
  <1>2. Emitting'
    BY DEF FeedsInv, Emitting
  <1> QED BY <1>1, <1>2 DEF FeedsInv

\* Every step keeps the invariant.
LEMMA FeedsInvStep == FeedsInv /\ [Next]_vars => FeedsInv'
  <1> SUFFICES ASSUME FeedsInv, [Next]_vars PROVE FeedsInv'
    OBVIOUS
  <1>0. TypeOK' /\ Counters /\ Places
    BY FeedsTypeStep, TypeParts DEF FeedsInv
  <1> USE DEF switch, status, ticker, Goto
  <1>1. ASSUME NEW p \in Poller, Enable(p) PROVE FeedsInv'
    <2>1. OneLivePoller'
      BY <1>0, <1>1 DEF FeedsInv, Places, OneLivePoller, Live, Enable
    <2>2. Emitting'
      BY <1>0, <1>1 DEF FeedsInv, Places, Emitting, Enable
    <2> QED BY <1>0, <2>1, <2>2 DEF FeedsInv
  <1>2. CASE Disable
    <2>1. OneLivePoller'
      BY <1>2 DEF FeedsInv, OneLivePoller, Live, Disable
    <2>2. Emitting'
      BY <1>2 DEF FeedsInv, Emitting, Disable
    <2> QED BY <1>0, <2>1, <2>2 DEF FeedsInv
  <1>3. ASSUME NEW p \in Poller,
               \/ Ask(p) \/ RequestFails(p) \/ Refused(p) \/ DecodeFails(p)
               \/ Store(p) \/ PollAgain(p)
        PROVE  FeedsInv'
    BY <1>0, <1>3, PollStep
    DEF Places, Ask, RequestFails, Refused, DecodeFails, Store, PollAgain, SetErr, PollOver
  <1>4. ASSUME NEW p \in Poller, Answered(p) PROVE FeedsInv'
    <2>1. PICK a \in Answer : rows' = [rows EXCEPT ![p] = a]
      BY <1>4 DEF Answered
    <2>2. Len(a) \in Nat /\ Len(a) <= MaxRows
      BY AnswerIsList
    <2>3. rows'[p] = a /\ n'[p] = 0
      BY <1>0, <1>4, <2>1 DEF Counters, Places, Answered
    <2>4. n'[p] + Len(rows'[p]) <= MaxRows
      BY <2>2, <2>3, LimitsHold DEF Limits
    <2>5. \A q \in Poller \ {p} : UNCHANGED <<pc[q], rows[q], n[q]>>
      BY <1>0, <1>4, <2>1 DEF Counters, Places, Answered
    <2> QED BY <1>0, <1>4, <2>4, <2>5, PollStep DEF Places, Answered
  <1>5. ASSUME NEW p \in Poller, EmitRow(p) PROVE FeedsInv'
    <2>1. PICK m \in 0..MaxRows : n' = [n EXCEPT ![p] = m] /\ m + Len(Tail(rows[p])) <= MaxRows
      BY <1>5, OneRowLess
    <2>2. rows' = [rows EXCEPT ![p] = Tail(rows[p])]
      BY <1>5, OneRowLess
    <2>3. n'[p] + Len(rows'[p]) <= MaxRows
      BY <1>0, <2>1, <2>2 DEF Counters, Places
    <2>4. \A q \in Poller \ {p} : UNCHANGED <<pc[q], rows[q], n[q]>>
      BY <1>0, <1>5, <2>1, <2>2 DEF Counters, Places, EmitRow
    <2> QED BY <1>0, <1>5, <2>3, <2>4, PollStep DEF Places, EmitRow
  <1>6. ASSUME NEW p \in Poller, EmitPanics(p) PROVE FeedsInv'
    <2>1. Emitting' /\ OneLivePoller'
      BY <1>6 DEF EmitPanics, Emitting, OneLivePoller, Live
    <2> QED BY <1>0, <2>1 DEF FeedsInv
  <1>7. ASSUME NEW p \in Poller, Stop(p) PROVE FeedsInv'
    <2>1. OneLivePoller'
      BY <1>0, <1>7 DEF Places, FeedsInv, OneLivePoller, Live, Stop
    <2>2. Emitting'
      BY <1>0, <1>7 DEF Places, FeedsInv, Emitting, Stop
    <2> QED BY <1>0, <2>1, <2>2 DEF FeedsInv
  <1>8. CASE Tick \/ UNCHANGED vars
    <2>1. OneLivePoller' /\ Emitting'
      BY <1>8 DEF Tick, vars, FeedsInv, Emitting, OneLivePoller, Live
    <2> QED BY <1>0, <2>1 DEF FeedsInv
  <1> QED BY <1>1, <1>2, <1>3, <1>4, <1>5, <1>6, <1>7, <1>8 DEF Next, Poll

\* The manager and its goroutines are in step in every behaviour.
LEMMA FeedsInductive == Spec => []FeedsInv
  BY FeedsInvInit, FeedsInvStep, PTL DEF Spec

\* The variables have their types: a goroutine never counts more records than
\* OpenSky's answer had rows.
THEOREM FeedsTypeCorrect == Spec => []TypeOK
  <1>1. FeedsInv => TypeOK
    BY DEF FeedsInv
  <1> QED BY <1>1, FeedsInductive, PTL

\* However often the feed is switched while polls are out, one goroutine polls
\* when it is on, the one whose context the manager can cancel, and none when
\* it is off but those that are to end.
THEOREM FeedHasOnePoller == Spec => []OneLivePoller
  <1>1. FeedsInv => OneLivePoller
    BY DEF FeedsInv
  <1> QED BY <1>1, FeedsInductive, PTL

-------------------------------------------------------------------------------
(* Surge: the slots of the ring.                                             *)

\* Division leaves one remainder.
LEMMA Remainder ==
    ASSUME NEW a \in Int, NEW b \in Nat \ {0}, NEW q \in Int, NEW r \in 0..(b - 1), a = b * q + r
    PROVE  a % b = r
  <1> DEFINE d == a \div b
             m == a % b
  <1>1. d \in Int /\ m \in 0..(b - 1) /\ a = b * d + m
    OBVIOUS
  <1> HIDE DEF d, m
  <1>2. b * (q - d) = m - r
    BY <1>1
  <1>3. \A x \in Int : x >= 1 => b * x >= b
    OBVIOUS
  <1>4. \A x \in Int : x <= -1 => b * x <= -b
    OBVIOUS
  <1>5. q - d = 0
    BY <1>1, <1>2, <1>3, <1>4
  <1>6. m = r
    BY <1>1, <1>2, <1>5
  <1> QED BY <1>6 DEF m

\* And there is one.
LEMMA Divided ==
    ASSUME NEW a \in Int, NEW b \in Nat \ {0}
    PROVE  a % b \in 0..(b - 1) /\ a \div b \in Int /\ a = b * (a \div b) + (a % b)
  OBVIOUS

\* The bounds are numbers.
LEMMA SurgeBounds ==
    /\ windowSize \in Nat \ {0} /\ windowSize > 2
    /\ Horizon \in Nat \ {0} /\ Horizon > windowSize
    /\ MaxSupply \in Nat /\ MaxRequests \in Nat /\ MaxLate \in Nat /\ MaxCrashes \in Nat
  BY SurgeAssumption

\* The clock's modulus is a number of windows.
LEMMA Window == \E h \in Int : Horizon = windowSize * h
  <1> DEFINE h == Horizon \div windowSize
  <1>1. h \in Int /\ Horizon = windowSize * h + (Horizon % windowSize)
    BY SurgeBounds, Divided
  <1> HIDE DEF h
  <1>2. Horizon % windowSize = 0
    BY SurgeAssumption
  <1>3. windowSize * h \in Int /\ Horizon = windowSize * h
    BY <1>1, <1>2, SurgeBounds
  <1> QED BY <1>1, <1>3

\* The clock k slots back.
LEMMA ClockBack ==
    ASSUME NEW t \in Time, NEW k \in 0..(windowSize - 1)
    PROVE  (t + Horizon - k) % Horizon = IF t >= k THEN t - k ELSE t + Horizon - k
  <1>1. /\ windowSize \in Nat \ {0} /\ Horizon \in Nat \ {0} /\ Horizon > windowSize
        /\ t \in Nat /\ t < Horizon
    BY SurgeBounds DEF Time
  <1>2. CASE t >= k
    <2>1. t + Horizon - k = Horizon * 1 + (t - k) /\ t - k \in 0..(Horizon - 1)
      BY <1>1, <1>2
    <2>2. t + Horizon - k \in Int /\ 1 \in Int
      BY <1>1
    <2>3. (t + Horizon - k) % Horizon = t - k
      BY <1>1, <2>1, <2>2, Remainder
    <2> QED BY <1>2, <2>3
  <1>3. CASE t < k
    <2>1. /\ t + Horizon - k = Horizon * 0 + (t + Horizon - k)
          /\ t + Horizon - k \in 0..(Horizon - 1)
      BY <1>1, <1>3
    <2>2. t + Horizon - k \in Int /\ 0 \in Int
      BY <1>1
    <2>3. (t + Horizon - k) % Horizon = t + Horizon - k
      BY <1>1, <2>1, <2>2, Remainder
    <2> QED BY <1>1, <1>3, <2>3
  <1> QED BY <1>1, <1>2, <1>3

\* There is a place.
LEMMA SomeSlot == 0 \in Slot
  BY SurgeBounds DEF Slot

\* The slot of k slots ago, and its place in the ring.
LEMMA SlotsAgo ==
    ASSUME now \in Time, NEW k \in 0..(windowSize - 1)
    PROVE  /\ Ago(k) = IF now >= k THEN now - k ELSE now + Horizon - k
           /\ Ago(k) \in Time /\ now % windowSize \in Slot
           /\ Ago(k) % windowSize = IF (now % windowSize) >= k THEN (now % windowSize) - k
                                    ELSE (now % windowSize) + windowSize - k
  <1>1. /\ windowSize \in Nat \ {0} /\ Horizon \in Nat \ {0} /\ Horizon > windowSize
        /\ now \in Nat /\ now < Horizon
    BY SurgeBounds DEF Time
  <1>2. Ago(k) = IF now >= k THEN now - k ELSE now + Horizon - k
    BY ClockBack DEF Ago
  <1>3. Ago(k) \in Time
    BY <1>1, <1>2 DEF Time
  <1> DEFINE r == now % windowSize
             q == now \div windowSize
  <1>4. q \in Int /\ r \in 0..(windowSize - 1) /\ now = windowSize * q + r
    BY <1>1, Divided
  <1>5. PICK h \in Int : Horizon = windowSize * h
    BY Window
  <1> HIDE DEF r, q
  <1>6. \A x \in Int : /\ windowSize * (x + h) = windowSize * x + Horizon
                       /\ windowSize * (x - 1) = windowSize * x - windowSize
                       /\ windowSize * x \in Int /\ x + h \in Int /\ x - 1 \in Int
    BY <1>1, <1>5
  <1> DEFINE s == IF r >= k THEN r - k ELSE r + windowSize - k
             b == IF now >= k THEN q ELSE q + h
             e == IF r >= k THEN b ELSE b - 1
  <1>7. s \in 0..(windowSize - 1) /\ e \in Int
    BY <1>1, <1>4, <1>6
  <1>8. Ago(k) = windowSize * b + (r - k) /\ b \in Int
    BY <1>1, <1>2, <1>4, <1>6
  <1> HIDE DEF b
  <1>9. Ago(k) = windowSize * e + s
    BY <1>1, <1>4, <1>6, <1>8
  <1> HIDE DEF s, e
  <1>10. Ago(k) % windowSize = s
    BY <1>1, <1>3, <1>7, <1>9, Remainder DEF Time
  <1> QED BY <1>2, <1>3, <1>4, <1>10 DEF s, r, Slot

\* Every slot of the clock has a place.
LEMMA HasPlace ==
    ASSUME NEW t \in Time
    PROVE  t % windowSize \in Slot
  <1>1. t \in Int /\ windowSize \in Nat \ {0}
    BY SurgeBounds DEF Time
  <1>2. t % windowSize \in 0..(windowSize - 1)
    BY <1>1, Divided
  <1> QED BY <1>2 DEF Slot

\* The slot that is evicted is the oldest.
OldestSlot == ((now % windowSize) + 1) % windowSize

LEMMA OldestIsAgo ==
    ASSUME now \in Time
    PROVE  OldestSlot = Ago(windowSize - 1) % windowSize /\ OldestSlot \in Slot
  <1> DEFINE r == now % windowSize
  <1>1. windowSize \in Nat \ {0} /\ windowSize - 1 \in 0..(windowSize - 1)
    BY SurgeBounds
  <1>2. /\ r \in Slot
        /\ Ago(windowSize - 1) % windowSize = IF r >= windowSize - 1 THEN r - (windowSize - 1)
                                              ELSE r + windowSize - (windowSize - 1)
    BY <1>1, SlotsAgo
  <1> HIDE DEF r
  <1>3. CASE r = windowSize - 1
    <2>1. r + 1 = windowSize * 1 + 0 /\ 0 \in 0..(windowSize - 1) /\ r + 1 \in Int
      BY <1>1, <1>3
    <2>2. (r + 1) % windowSize = 0
      BY <1>1, <2>1, Remainder
    <2> QED BY <1>1, <1>2, <1>3, <2>2 DEF r, OldestSlot, Slot
  <1>4. CASE r # windowSize - 1
    <2>1. r + 1 = windowSize * 0 + (r + 1) /\ r + 1 \in 0..(windowSize - 1) /\ r + 1 \in Int
      BY <1>1, <1>2, <1>4 DEF Slot
    <2>2. (r + 1) % windowSize = r + 1
      BY <1>1, <2>1, Remainder
    <2> QED BY <1>1, <1>2, <1>4, <2>2 DEF r, OldestSlot, Slot
  <1> QED BY <1>3, <1>4

\* The slots of a window have places of their own.
LEMMA SlotsApart ==
    ASSUME now \in Time, NEW a \in 0..(windowSize - 1), NEW k \in 0..(windowSize - 1),
           Ago(a) % windowSize = Ago(k) % windowSize
    PROVE  a = k
  <1> DEFINE r == now % windowSize
  <1>1. r \in 0..(windowSize - 1) /\ windowSize \in Nat
    BY SlotsAgo, SurgeBounds DEF Slot
  <1>2. /\ Ago(a) % windowSize = IF r >= a THEN r - a ELSE r + windowSize - a
        /\ Ago(k) % windowSize = IF r >= k THEN r - k ELSE r + windowSize - k
    BY SlotsAgo
  <1> HIDE DEF r
  <1> QED BY <1>1, <1>2

\* Every place of the ring is one of them.
LEMMA SlotsCover ==
    ASSUME now \in Time, NEW s \in Slot
    PROVE  \E k \in 0..(windowSize - 1) : Ago(k) % windowSize = s
  <1> DEFINE r == now % windowSize
             k == IF r >= s THEN r - s ELSE r + windowSize - s
  <1>1. windowSize \in Nat \ {0} /\ s \in 0..(windowSize - 1)
    BY SurgeBounds DEF Slot
  <1>2. r \in 0..(windowSize - 1)
    BY <1>1, Divided DEF Time
  <1> HIDE DEF r
  <1>3. k \in 0..(windowSize - 1)
    BY <1>1, <1>2
  <1>4. s = IF r >= k THEN r - k ELSE r + windowSize - k
    BY <1>1, <1>2
  <1> HIDE DEF k
  <1>5. Ago(k) % windowSize = s
    BY <1>3, <1>4, SlotsAgo DEF r
  <1> QED BY <1>3, <1>5

\* When the slot ends, every one is a slot longer ago; the new one has the place
\* of the oldest.
LEMMA NextAgo ==
    ASSUME now \in Time, now' = (now + 1) % Horizon
    PROVE  /\ now' \in Time /\ now' # now /\ Ago(0)' = now' /\ now' % windowSize = OldestSlot
           /\ \A k \in 1..(windowSize - 1) : Ago(k)' = Ago(k - 1)
  <1>1. /\ windowSize \in Nat \ {0} /\ windowSize > 2 /\ Horizon \in Nat \ {0}
        /\ Horizon > windowSize /\ now \in Nat /\ now < Horizon
    BY SurgeBounds DEF Time
  <1>2. now' = IF now + 1 = Horizon THEN 0 ELSE now + 1
    <2>1. CASE now + 1 = Horizon
      <3>1. now + 1 = Horizon * 1 + 0 /\ 0 \in 0..(Horizon - 1) /\ now + 1 \in Int
        BY <1>1, <2>1
      <3>2. (now + 1) % Horizon = 0
        BY <1>1, <3>1, Remainder
      <3> QED BY <2>1, <3>2
    <2>2. CASE now + 1 # Horizon
      <3>1. now + 1 = Horizon * 0 + (now + 1) /\ now + 1 \in 0..(Horizon - 1) /\ now + 1 \in Int
        BY <1>1, <2>2
      <3>2. (now + 1) % Horizon = now + 1
        BY <1>1, <3>1, Remainder
      <3> QED BY <2>2, <3>2
    <2> QED BY <2>1, <2>2
  <1>3. now' \in Time /\ now' # now
    BY <1>1, <1>2 DEF Time
  <1>4. ASSUME NEW k \in 0..(windowSize - 1)
        PROVE  Ago(k)' = IF now' >= k THEN now' - k ELSE now' + Horizon - k
    BY <1>3, ClockBack DEF Ago
  <1>5. Ago(0)' = now'
    BY <1>1, <1>3, <1>4 DEF Time
  <1>6. ASSUME NEW k \in 1..(windowSize - 1) PROVE Ago(k)' = Ago(k - 1)
    <2>1. k \in 0..(windowSize - 1) /\ k - 1 \in 0..(windowSize - 1)
      BY <1>1
    <2>2. Ago(k - 1) = IF now >= k - 1 THEN now - (k - 1) ELSE now + Horizon - (k - 1)
      BY <2>1, SlotsAgo
    <2> QED BY <1>1, <1>2, <1>4, <2>1, <2>2
  <1>7. now' % windowSize = OldestSlot
    <2> DEFINE r == now % windowSize
               q == now \div windowSize
               s == IF r = windowSize - 1 THEN 0 ELSE r + 1
    <2>3. q \in Int /\ r \in 0..(windowSize - 1) /\ now = windowSize * q + r
      BY <1>1, Divided
    <2>4. OldestSlot = s
      <3>1. /\ windowSize - 1 \in 0..(windowSize - 1) /\ OldestSlot = Ago(windowSize - 1) % windowSize
            /\ Ago(windowSize - 1) % windowSize = IF r >= windowSize - 1 THEN r - (windowSize - 1)
                                                  ELSE r + windowSize - (windowSize - 1)
        BY <1>1, OldestIsAgo, SlotsAgo
      <3> HIDE DEF r
      <3> QED BY <1>1, <2>3, <3>1
    <2> HIDE DEF r, q
    <2>5. s \in 0..(windowSize - 1)
      BY <1>1, <2>3
    <2>6. windowSize * (q + 1) = windowSize * q + windowSize /\ windowSize * 0 = 0
      BY <1>1, <2>3
    <2> DEFINE e == IF now + 1 = Horizon THEN 0 ELSE IF r = windowSize - 1 THEN q + 1 ELSE q
    <2>7. now + 1 = Horizon => r = windowSize - 1
      <3> SUFFICES ASSUME now + 1 = Horizon, r # windowSize - 1 PROVE FALSE
        OBVIOUS
      <3>1. Horizon = windowSize * q + (r + 1) /\ r + 1 \in 0..(windowSize - 1)
        BY <1>1, <2>3
      <3>2. Horizon % windowSize = r + 1
        BY <1>1, <2>3, <3>1, Remainder
      <3> QED BY <2>3, <3>2, SurgeAssumption
    <2>8. now' \in Int /\ now' = windowSize * e + s /\ e \in Int
      BY <1>1, <1>2, <2>3, <2>6, <2>7
    <2> HIDE DEF e, s
    <2>9. now' % windowSize = s
      BY <1>1, <1>3, <2>5, <2>8, Remainder DEF Time
    <2> QED BY <2>4, <2>9
  <1> QED BY <1>3, <1>5, <1>6, <1>7

-------------------------------------------------------------------------------
(* Surge: the invariant.                                                     *)

\* Since the last slot that ended too early, the ring is what was tallied.
Ring == \A z \in Zone : \A k \in 0..(punctual - 2) :
            demand[z][Ago(k) % windowSize] = tallied[z][Ago(k)]

\* A request that is being tallied is of this slot or the last.
Recently == punctual >= 1 /\ taken # Idle => taken.t \in {Ago(0), Ago(1)}

\* Once its tick is served, the next slot has its place empty.
Ahead == punctual >= 1 /\ ticked = now => \A z \in Zone : demand[z][OldestSlot] = 0

\* There is no entry without demand.
Unknown == \A z \in Zone \ zones : demand[z] = NoDemand

\* A request is on the topic, being tallied or in one slot.
Held(z) == IF taken.z = z THEN 1 ELSE 0
Loads == \A z \in Zone :
             /\ queued[z] + uncommitted[z] <= requests
             /\ \A s \in Slot : queued[z] + demand[z][s] + Held(z) <= requests

Tallies == tallied \in [Zone -> [Time -> Nat]]

SurgeInv == SurgeTypeOK /\ Ring /\ Recently /\ Ahead /\ Unknown /\ Loads /\ Tallies

\* The smaller and the larger of two.
LEMMA OfTwo ==
    ASSUME NEW a \in Int, NEW b \in Int
    PROVE  Min({a, b}) = (IF a <= b THEN a ELSE b) /\ Max({a, b}) = (IF a <= b THEN b ELSE a)
  <1>1. ASSUME NEW c \in {a, b}, \A y \in {a, b} : c <= y PROVE Min({a, b}) = c
    <2>1. \E x \in {a, b} : \A y \in {a, b} : x <= y
      BY <1>1
    <2>2. Min({a, b}) \in {a, b} /\ \A y \in {a, b} : Min({a, b}) <= y
      BY <2>1 DEF Min
    <2> QED BY <1>1, <2>2
  <1>2. ASSUME NEW c \in {a, b}, \A y \in {a, b} : c >= y PROVE Max({a, b}) = c
    <2>1. \E x \in {a, b} : \A y \in {a, b} : x >= y
      BY <1>2
    <2>2. Max({a, b}) \in {a, b} /\ \A y \in {a, b} : Max({a, b}) >= y
      BY <2>1 DEF Max
    <2> QED BY <1>2, <2>2
  <1>3. CASE a <= b
    <2>1. Min({a, b}) = a /\ Max({a, b}) = b
      BY <1>1, <1>2, <1>3
    <2> QED BY <1>3, <2>1
  <1>4. CASE ~ (a <= b)
    <2>1. Min({a, b}) = b /\ Max({a, b}) = a
      BY <1>1, <1>2, <1>4
    <2> QED BY <1>4, <2>1
  <1> QED BY <1>3, <1>4

\* A multiplier is between 1 and 3.
LEMMA MultiplierRange ==
    ASSUME NEW dem \in Int, NEW sup \in Int
    PROVE  multiplier(dem, sup) \in 100..300
  <1> DEFINE supply == IF sup <= 0 THEN 1 ELSE sup
             m == (2 * (40 * supply + 60 * dem) + supply) \div (2 * supply)
             top == IF m <= 100 THEN 100 ELSE m
  <1>1. supply \in Nat \ {0}
    OBVIOUS
  <1> HIDE DEF supply
  <1>2. 2 * (40 * supply + 60 * dem) + supply \in Int /\ 2 * supply \in Nat \ {0}
    BY <1>1
  <1>3. m \in Int
    BY <1>2, Divided
  <1> HIDE DEF m
  <1>4. Max({m, 100}) = top /\ top \in Int /\ top >= 100
    BY <1>3, OfTwo
  <1> HIDE DEF top
  <1>5. Min({top, 300}) = IF top <= 300 THEN top ELSE 300
    BY <1>4, OfTwo
  <1>6. multiplier(dem, sup) = Min({top, 300})
    BY <1>4 DEF multiplier, supply, m
  <1> QED BY <1>4, <1>5, <1>6

\* The slots are finitely many, and so are their requests.
LEMMA DemandIsSum ==
    ASSUME SurgeTypeOK, NEW z \in Zone
    PROVE  /\ IsFiniteSet(Slot) /\ Evicted(z) \in [Slot -> 0..MaxRequests]
           /\ Demand(z) = Sum(Evicted(z), Slot) /\ Demand(z) \in Nat
           /\ Demand(z) = 0 => \A s \in Slot : Evicted(z)[s] = 0
           /\ (\A s \in Slot : Evicted(z)[s] = 0) => Demand(z) = 0
  <1>1. IsFiniteSet(Slot)
    BY FS_Interval, SurgeBounds DEF Slot
  <1> DEFINE w == Evicted(z)
  <1>2. w \in [Slot -> 0..MaxRequests] /\ MaxRequests \in Nat
    <2>1. w = [demand[z] EXCEPT ![OldestSlot] = 0]
      BY DEF Evicted, OldestSlot
    <2>2. demand[z] \in [Slot -> 0..MaxRequests]
      BY DEF SurgeTypeOK
    <2> HIDE DEF w
    <2>3. 0 \in 0..MaxRequests /\ MaxRequests \in Nat
      BY SurgeBounds
    <2>4. w \in [Slot -> 0..MaxRequests]
      BY <2>1, <2>2, <2>3
    <2> QED BY <2>3, <2>4
  <1>3. Demand(z) = Sum(w, Slot)
    <2>1. DOMAIN w = Slot /\ Demand(z) = SumFunction(w)
      BY <1>2 DEF Demand
    <2> HIDE DEF w
    <2> QED BY <2>1, SumOfFunction
  <1> HIDE DEF w
  <1>4. ASSUME NEW A \in SUBSET Slot PROVE Sum(w, A) \in Nat
    <2> DEFINE none == [s \in Slot |-> 0]
    <2>1. IsFiniteSet(A) /\ \A s \in A : w[s] \in Int /\ none[s] \in Int /\ none[s] <= w[s]
      BY <1>1, <1>2, FS_Subset
    <2>2. Sum(none, A) = Sum(none, {})
      <3>1. {} \in SUBSET A /\ \A s \in A : none[s] \in Int /\ none[s] = 0
        OBVIOUS
      <3> HIDE DEF none
      <3> QED BY <2>1, <3>1, SumSparse
    <2> HIDE DEF none
    <2>3. Sum(none, A) <= Sum(w, A) /\ Sum(w, A) \in Int
      BY <2>1, SumAtMost, SumInt
    <2> QED BY <2>2, <2>3, SumNone
  <1>5. ASSUME Sum(w, Slot) = 0, NEW s \in Slot PROVE w[s] = 0
    <2>1. Sum(w, Slot) = w[s] + Sum(w, Slot \ {s})
      BY <1>1, <1>2, SumAny
    <2>2. Sum(w, Slot \ {s}) \in Nat /\ w[s] \in Nat
      BY <1>2, <1>4
    <2> QED BY <1>5, <2>1, <2>2
  <1>6. ASSUME \A s \in Slot : w[s] = 0 PROVE Sum(w, Slot) = 0
    <2>1. {} \in SUBSET Slot /\ \A s \in Slot : w[s] \in Int
      BY <1>2
    <2> QED BY <1>1, <1>6, <2>1, SumSparse, SumNone
  <1> QED BY <1>1, <1>2, <1>3, <1>4, <1>5, <1>6 DEF w

\* A tick evicts the slot everywhere: the zones it drops have nothing else.
LEMMA AllEvicted ==
    ASSUME SurgeInv, Compute, NEW z \in Zone
    PROVE  /\ demand'[z] = Evicted(z) /\ zones' \subseteq zones
           /\ z \notin zones' => Demand(z) = 0
  <1>1. /\ zones' = {x \in zones : Demand(x) # 0} /\ demand \in [Zone -> [Slot -> 0..MaxRequests]]
        /\ demand'[z] = IF z \in zones' THEN Evicted(z) ELSE NoDemand
    BY DEF Compute, SurgeInv, SurgeTypeOK
  <1>2. CASE z \in zones'
    BY <1>1, <1>2
  <1>3. CASE z \notin zones'
    <2>1. ASSUME z \in zones PROVE Demand(z) = 0
      BY <1>1, <1>3, <2>1
    <2>2. ASSUME z \notin zones PROVE Demand(z) = 0
      <3>1. demand[z] = NoDemand
        BY <2>2 DEF SurgeInv, Unknown
      <3>2. \A s \in Slot : Evicted(z)[s] = 0
        BY <3>1 DEF Evicted, NoDemand
      <3> QED BY <3>2, DemandIsSum DEF SurgeInv
    <2>3. Demand(z) = 0
      BY <1>1, <1>3, <2>1, <2>2
    <2>4. Evicted(z) \in [Slot -> 0..MaxRequests] /\ \A s \in Slot : Evicted(z)[s] = 0
      BY <2>3, DemandIsSum DEF SurgeInv
    <2>5. Evicted(z) = NoDemand
      BY <2>4 DEF NoDemand
    <2> QED BY <1>1, <1>3, <2>3, <2>5
  <1> QED BY <1>2, <1>3

\* At the start nothing was tallied.
LEMMA SurgeInvInit == SurgeInit => SurgeInv
  <1> SUFFICES ASSUME SurgeInit PROVE SurgeInv
    OBVIOUS
  <1>1. /\ 0 \in Time /\ 0 \in 0..MaxRequests /\ 0 \in 0..MaxLate /\ 0 \in 0..MaxCrashes
        /\ windowSize \in 0..windowSize /\ windowSize \in Nat
    BY SurgeBounds DEF Time
  <1>2. NoDemand \in [Slot -> 0..MaxRequests] /\ \A s \in Slot : NoDemand[s] = 0
    BY <1>1 DEF NoDemand
  <1>3. SurgeTypeOK
    BY <1>1, <1>2 DEF SurgeInit, SurgeTypeOK
  <1>4. now \in Time
    BY <1>3 DEF SurgeTypeOK
  <1>5. \A k \in 0..(windowSize - 2) : Ago(k) \in Time /\ Ago(k) % windowSize \in Slot
    BY <1>1, <1>4, SlotsAgo, HasPlace
  <1>6. Ring
    BY <1>2, <1>5 DEF SurgeInit, Ring
  <1>7. Recently /\ Unknown /\ Tallies
    BY DEF SurgeInit, Recently, Unknown, Tallies
  <1>8. Ahead
    BY <1>2, <1>4, OldestIsAgo DEF SurgeInit, Ahead
  <1>9. Loads
    BY <1>2, SurgeAssumption DEF SurgeInit, Loads, Held, Idle
  <1> QED BY <1>3, <1>6, <1>7, <1>8, <1>9 DEF SurgeInv

(* The types, step by step.                                                  *)

LEMMA SurgeTypeStep == SurgeInv /\ [SurgeNext]_svars => SurgeTypeOK'
  <1> SUFFICES ASSUME SurgeInv, [SurgeNext]_svars PROVE SurgeTypeOK'
    OBVIOUS
  <1>0. SurgeTypeOK /\ Loads
    BY DEF SurgeInv
  <1> USE SurgeBounds DEF SurgeTypeOK, pace, input, published
  <1>1. ASSUME NEW z \in Zone, Request(z) PROVE SurgeTypeOK'
    <2>1. queued[z] + 1 \in 0..MaxRequests /\ requests + 1 \in 0..MaxRequests
      BY <1>0, <1>1 DEF Loads, Request
    <2> QED BY <1>0, <1>1, <2>1 DEF Request
  <1>2. ASSUME NEW z \in Zone, Take(z) PROVE SurgeTypeOK'
    <2>1. queued[z] - 1 \in 0..MaxRequests /\ uncommitted[z] + 1 \in 0..MaxRequests
      BY <1>0, <1>2 DEF Loads, Take
    <2> QED BY <1>0, <1>2, <2>1 DEF Take
  <1>3. CASE Tally
    <2>1. taken.z \in Zone /\ taken.t \in Time
      BY <1>0, <1>3 DEF Tally
    <2>2. taken.t % windowSize \in Slot
      BY <2>1, HasPlace
    <2> DEFINE s == taken.t % windowSize
    <2>3. demand[taken.z][s] + 1 \in 0..MaxRequests
      BY <1>0, <2>1, <2>2 DEF Loads, Held
    <2>4. demand' = [demand EXCEPT ![taken.z] = [demand[taken.z] EXCEPT ![s] = demand[taken.z][s] + 1]]
      BY <1>3 DEF Tally
    <2> HIDE DEF s
    <2>5. demand' \in [Zone -> [Slot -> 0..MaxRequests]]
      BY <1>0, <2>1, <2>2, <2>3, <2>4
    <2> QED BY <1>0, <1>3, <2>1, <2>5 DEF Tally
  <1>4. CASE Commit
    BY <1>0, <1>4 DEF Commit
  <1>5. CASE Compute
    <2>1. /\ demand' = [z \in Zone |-> IF z \in zones' THEN Evicted(z) ELSE NoDemand]
          /\ zones' \in SUBSET Zone
      BY <1>0, <1>5 DEF Compute
    <2>2. /\ \A z \in Zone : Evicted(z) \in [Slot -> 0..MaxRequests] /\ Demand(z) \in Nat
          /\ NoDemand \in [Slot -> 0..MaxRequests]
      BY <1>0, DemandIsSum DEF NoDemand
    <2>3. demand' \in [Zone -> [Slot -> 0..MaxRequests]]
      BY <2>1, <2>2
    <2>4. PICK supply \in [zones' -> 0..MaxSupply] :
             snaps' = {[z |-> z, demand |-> Demand(z), m |-> multiplier(Demand(z), supply[z])] :
                          z \in zones'}
      BY <1>5 DEF Compute
    <2>5. ASSUME NEW z \in zones' PROVE multiplier(Demand(z), supply[z]) \in 100..300
      <3>1. Demand(z) \in Int /\ supply[z] \in Int
        BY <2>1, <2>2
      <3> QED BY <3>1, MultiplierRange
    <2>6. snaps' \subseteq [z : Zone, demand : Nat, m : 100..300]
      BY <2>1, <2>2, <2>4, <2>5
    <2>7. surge' \in [Zone -> {0} \union (100..300)] /\ kept' \in SUBSET Zone
      <3>1. PICK failed \in SUBSET (zones \ zones') :
               /\ surge' = [z \in Zone |-> IF z \in (zones \ zones') \ failed THEN 0 ELSE surge[z]]
               /\ kept' = kept \union failed
        BY <1>5 DEF Compute, HDel
      <3> QED BY <1>0, <3>1
    <2>8. loop' \in {"wait", "publish"}
      BY <1>5 DEF Compute
    <2> QED BY <1>0, <1>5, <2>1, <2>3, <2>6, <2>7, <2>8 DEF Compute
  <1>6. ASSUME NEW s \in snaps, Publish(s) PROVE SurgeTypeOK'
    <2>1. s.z \in Zone /\ s.m \in 100..300
      BY <1>0
    <2>2. surge' \in [Zone -> {0} \union (100..300)]
      BY <1>0, <1>6, <2>1 DEF Publish
    <2> QED BY <1>0, <1>6, <2>2 DEF Publish
  <1>7. CASE NextSlot
    <2>1. now' \in Time
      BY <1>0, <1>7, NextAgo DEF NextSlot
    <2>2. punctual' \in 0..windowSize
      <3>1. punctual + 1 \in Int /\ punctual + 1 >= 0 /\ windowSize \in Int
        BY <1>0
      <3>2. Min({punctual + 1, windowSize}) \in 0..windowSize
        BY <3>1, OfTwo
      <3> QED BY <1>7, <3>2 DEF NextSlot
    <2>3. lates' \in 0..MaxLate
      BY <1>0, <1>7 DEF NextSlot
    <2> QED BY <1>0, <1>7, <2>1, <2>2, <2>3 DEF NextSlot
  <1>8. CASE Crash
    <2>1. queued' \in [Zone -> 0..MaxRequests]
      <3>1. \A z \in Zone : queued[z] + uncommitted[z] \in 0..MaxRequests
        BY <1>0 DEF Loads
      <3> QED BY <1>8, <3>1 DEF Crash
    <2>2. demand' \in [Zone -> [Slot -> 0..MaxRequests]] /\ uncommitted' \in [Zone -> 0..MaxRequests]
      BY <1>8 DEF Crash, NoDemand
    <2> QED BY <1>0, <1>8, <2>1, <2>2 DEF Crash
  <1>9. CASE UNCHANGED svars
    BY <1>0, <1>9 DEF svars
  <1> QED BY <1>1, <1>2, <1>3, <1>4, <1>5, <1>6, <1>7, <1>8, <1>9
          DEF SurgeNext, Consume, ComputeLoop

(* The ring, step by step.                                                   *)

\* What does not move the clock moves no slot.
LEMMA SameSlots ==
    ASSUME UNCHANGED now
    PROVE  OldestSlot' = OldestSlot /\ \A k \in Int : Ago(k)' = Ago(k)
  BY DEF OldestSlot, Ago

\* A request is tallied once.
LEMMA TallyStep ==
    ASSUME SurgeInv, Tally
    PROVE  Ring' /\ Recently' /\ Ahead' /\ Unknown' /\ Loads' /\ Tallies'
  <1> DEFINE z == taken.z
             t == taken.t
             s == t % windowSize
  <1>1. /\ SurgeTypeOK /\ z \in Zone /\ t \in Time /\ now \in Time /\ punctual \in 0..windowSize
        /\ s \in Slot /\ UNCHANGED <<now, punctual, ticked, queued, uncommitted, requests>>
    <2>1. z \in Zone /\ t \in Time
      BY DEF SurgeInv, SurgeTypeOK, Tally
    <2>2. s \in Slot
      BY <2>1, HasPlace
    <2> QED BY <2>1, <2>2 DEF SurgeInv, SurgeTypeOK, Tally, pace, input
  <1>2. /\ demand' = [demand EXCEPT ![z] = [demand[z] EXCEPT ![s] = demand[z][s] + 1]]
        /\ tallied' = [tallied EXCEPT ![z] = [tallied[z] EXCEPT ![t] = tallied[z][t] + 1]]
        /\ taken' = Idle /\ zones' = zones \union {z} /\ taken # Idle
    BY DEF Tally
  <1> HIDE DEF s
  <1>3. demand \in [Zone -> [Slot -> 0..MaxRequests]] /\ tallied \in [Zone -> [Time -> Nat]]
    BY DEF SurgeInv, SurgeTypeOK, Tallies
  <1>4. Ring'
    <2> SUFFICES ASSUME NEW x \in Zone, NEW k \in 0..(punctual' - 2)
                 PROVE  demand'[x][Ago(k)' % windowSize] = tallied'[x][Ago(k)']
      BY DEF Ring
    <2> DEFINE e == Ago(k) % windowSize
    <2>1. /\ Ago(k)' = Ago(k) /\ k \in 0..(windowSize - 1) /\ k \in 0..(punctual - 2)
          /\ Ago(k) \in Time /\ e \in Slot
      <3>1. k \in 0..(windowSize - 1) /\ k \in 0..(punctual - 2)
        BY <1>1, SurgeBounds
      <3>2. Ago(k) \in Time
        BY <1>1, <3>1, SlotsAgo
      <3> QED BY <1>1, <3>1, <3>2, SameSlots, HasPlace
    <2>2. demand[x][e] = tallied[x][Ago(k)]
      BY <2>1 DEF SurgeInv, Ring
    <2>3. ASSUME x = z PROVE e = s <=> Ago(k) = t
      <3>1. PICK a \in {0, 1} : t = Ago(a)
        <4>1. t \in {Ago(0), Ago(1)}
          BY <1>1, <1>2, <2>1 DEF SurgeInv, Recently
        <4> QED BY <4>1
      <3>2. a \in 0..(windowSize - 1)
        BY SurgeBounds
      <3>3. e = s => a = k
        BY <1>1, <2>1, <3>1, <3>2, SlotsApart DEF s
      <3> QED BY <3>1, <3>3 DEF s
    <2> HIDE DEF e, z, t
    <2>4. demand'[x][e] = tallied'[x][Ago(k)]
      BY <1>1, <1>2, <1>3, <2>1, <2>2, <2>3
    <2> QED BY <2>1, <2>4 DEF e
  <1>5. Recently'
    BY <1>2 DEF Recently
  <1>6. Ahead'
    <2> SUFFICES ASSUME punctual >= 1, ticked = now, NEW x \in Zone
                 PROVE  demand'[x][OldestSlot] = 0
      BY <1>1, SameSlots DEF Ahead
    <2>1. demand[x][OldestSlot] = 0 /\ OldestSlot \in Slot
      BY <1>1, OldestIsAgo DEF SurgeInv, Ahead
    <2>2. s # OldestSlot
      <3>1. PICK a \in {0, 1} : t = Ago(a)
        <4>1. t \in {Ago(0), Ago(1)}
          BY <1>1, <1>2 DEF SurgeInv, Recently
        <4> QED BY <4>1
      <3>2. a \in 0..(windowSize - 1) /\ windowSize - 1 \in 0..(windowSize - 1) /\ a # windowSize - 1
        BY SurgeBounds
      <3> QED BY <1>1, <3>1, <3>2, OldestIsAgo, SlotsApart DEF s
    <2> HIDE DEF z, t
    <2> QED BY <1>1, <1>2, <1>3, <2>1, <2>2
  <1>7. Unknown'
    BY <1>1, <1>2, <1>3 DEF SurgeInv, Unknown
  <1>8. Loads'
    <2> SUFFICES ASSUME NEW x \in Zone, NEW y \in Slot
                 PROVE  /\ queued[x] + uncommitted[x] <= requests
                        /\ queued[x] + demand'[x][y] + Held(x)' <= requests
      BY <1>1, SomeSlot DEF Loads
    <2>1. /\ queued[x] + uncommitted[x] <= requests /\ queued[x] + demand[x][y] + Held(x) <= requests
          /\ queued[x] \in Nat /\ requests \in Nat /\ demand[x][y] \in Nat
      <3>1. queued[x] \in 0..MaxRequests /\ requests \in 0..MaxRequests /\ demand[x][y] \in 0..MaxRequests
        BY DEF SurgeInv, SurgeTypeOK
      <3> QED BY <3>1 DEF SurgeInv, Loads
    <2>2. Held(x)' = 0 /\ Held(x) = IF x = z THEN 1 ELSE 0
      BY <1>2, SurgeAssumption DEF Held, Idle
    <2> HIDE DEF z
    <2>3. demand'[x][y] = IF x = z /\ y = s THEN demand[x][y] + 1 ELSE demand[x][y]
      BY <1>1, <1>2, <1>3
    <2> QED BY <2>1, <2>2, <2>3
  <1>9. Tallies'
    <2>1. tallied[z][t] + 1 \in Nat
      BY <1>1, <1>3
    <2> HIDE DEF z, t
    <2> QED BY <1>1, <1>2, <1>3, <2>1 DEF Tallies
  <1> QED BY <1>4, <1>5, <1>6, <1>7, <1>8, <1>9

\* A tick leaves the window as it was, and the oldest slot empty.
LEMMA ComputeStep ==
    ASSUME SurgeInv, Compute
    PROVE  Ring' /\ Recently' /\ Ahead' /\ Unknown' /\ Loads' /\ Tallies'
  <1>1. /\ now \in Time /\ punctual \in 0..windowSize
        /\ UNCHANGED <<now, punctual, queued, uncommitted, requests, taken, tallied>>
    BY DEF SurgeInv, SurgeTypeOK, Compute, pace, input
  <1>2. \A z \in Zone : demand'[z] = [demand[z] EXCEPT ![OldestSlot] = 0]
    BY AllEvicted DEF Evicted, OldestSlot
  <1>3. demand \in [Zone -> [Slot -> 0..MaxRequests]] /\ OldestSlot \in Slot
    BY <1>1, OldestIsAgo DEF SurgeInv, SurgeTypeOK
  <1>4. Ring'
    <2> SUFFICES ASSUME NEW x \in Zone, NEW k \in 0..(punctual' - 2)
                 PROVE  demand'[x][Ago(k)' % windowSize] = tallied'[x][Ago(k)']
      BY DEF Ring
    <2> DEFINE e == Ago(k) % windowSize
    <2>1. /\ Ago(k)' = Ago(k) /\ k \in 0..(windowSize - 1) /\ k \in 0..(punctual - 2)
          /\ k # windowSize - 1 /\ windowSize - 1 \in 0..(windowSize - 1)
      BY <1>1, SurgeBounds, SameSlots
    <2>2. e \in Slot /\ e # OldestSlot
      BY <1>1, <2>1, SlotsAgo, HasPlace, OldestIsAgo, SlotsApart
    <2>3. demand[x][e] = tallied[x][Ago(k)]
      BY <2>1 DEF SurgeInv, Ring
    <2> HIDE DEF e
    <2>4. demand'[x][e] = tallied[x][Ago(k)]
      BY <1>2, <1>3, <2>2, <2>3
    <2> QED BY <1>1, <2>1, <2>4 DEF e
  <1>5. Recently'
    BY <1>1, SameSlots DEF SurgeInv, Recently
  <1>6. Ahead'
    BY <1>1, <1>2, <1>3, SameSlots DEF Ahead
  <1>7. Unknown'
    BY DEF Compute, Unknown
  <1>8. Loads'
    <2> SUFFICES ASSUME NEW x \in Zone, NEW y \in Slot
                 PROVE  /\ queued[x] + uncommitted[x] <= requests
                        /\ queued[x] + demand'[x][y] + Held(x)' <= requests
      BY <1>1, SomeSlot DEF Loads
    <2>1. /\ queued[x] + uncommitted[x] <= requests /\ queued[x] + demand[x][y] + Held(x) <= requests
          /\ queued[x] \in Nat /\ requests \in Nat /\ demand[x][y] \in Nat /\ Held(x) \in Nat
      <3>1. queued[x] \in 0..MaxRequests /\ requests \in 0..MaxRequests /\ demand[x][y] \in 0..MaxRequests
        BY DEF SurgeInv, SurgeTypeOK
      <3> QED BY <3>1 DEF SurgeInv, Loads, Held
    <2>2. demand'[x][y] = demand[x][y] \/ demand'[x][y] = 0
      <3>1. demand'[x] = [demand[x] EXCEPT ![OldestSlot] = 0]
        BY <1>2
      <3>2. demand[x] \in [Slot -> 0..MaxRequests]
        BY <1>3
      <3>3. y # OldestSlot => demand'[x][y] = demand[x][y]
        BY <3>1, <3>2
      <3>4. y = OldestSlot => demand'[x][y] = 0
        BY <3>1, <3>2
      <3> QED BY <3>3, <3>4
    <2>3. Held(x)' = Held(x)
      BY <1>1 DEF Held
    <2> QED BY <2>1, <2>2, <2>3
  <1>9. Tallies'
    BY <1>1 DEF SurgeInv, Tallies
  <1> QED BY <1>4, <1>5, <1>6, <1>7, <1>8, <1>9

\* When a slot ends, the place of the new one is empty if the process was in time.
LEMMA SlotStep ==
    ASSUME SurgeInv, NextSlot
    PROVE  Ring' /\ Recently' /\ Ahead' /\ Unknown' /\ Loads' /\ Tallies'
  <1>1. /\ now \in Time /\ punctual \in 0..windowSize /\ now' = (now + 1) % Horizon
        /\ UNCHANGED <<demand, zones, ticked, queued, uncommitted, requests, taken>>
        /\ tallied \in [Zone -> [Time -> Nat]]
        /\ tallied' = [z \in Zone |-> [tallied[z] EXCEPT ![now'] = 0]]
    BY DEF SurgeInv, SurgeTypeOK, Tallies, NextSlot, input
  <1>2. /\ now' \in Time /\ now' # now /\ Ago(0)' = now' /\ now' % windowSize = OldestSlot
        /\ \A k \in 1..(windowSize - 1) : Ago(k)' = Ago(k - 1)
    BY <1>1, NextAgo
  <1>3. CASE ~ OnTime
    <2>1. punctual' = 0
      BY <1>3 DEF NextSlot
    <2>2. Ring' /\ Recently' /\ Ahead'
      BY <2>1 DEF Ring, Recently, Ahead
    <2>3. Unknown' /\ Loads'
      BY <1>1 DEF SurgeInv, Unknown, Loads, Held
    <2>4. Tallies'
      BY <1>1, <1>2 DEF Tallies
    <2> QED BY <2>2, <2>3, <2>4
  <1>4. CASE OnTime
    <2>1. /\ ticked = now /\ (taken # Idle => taken.t = now) /\ punctual' <= windowSize
          /\ punctual' = punctual + 1 \/ punctual' = windowSize
          /\ punctual' <= punctual + 1 /\ punctual' \in Nat /\ punctual \in Nat
      <3>1. punctual' = Min({punctual + 1, windowSize})
        BY <1>4 DEF NextSlot
      <3>2. punctual + 1 \in Int /\ windowSize \in Int
        BY <1>1, SurgeBounds
      <3> QED BY <1>1, <1>4, <3>1, <3>2, OfTwo DEF OnTime
    <2>2. Ring'
      <3> SUFFICES ASSUME NEW x \in Zone, NEW k \in 0..(punctual' - 2)
                   PROVE  demand[x][Ago(k)' % windowSize] = tallied'[x][Ago(k)']
        BY <1>1 DEF Ring
      <3> DEFINE b == punctual'
      <3>0. /\ b \in Nat /\ punctual \in Nat /\ b <= windowSize /\ b <= punctual + 1
            /\ windowSize \in Nat
        BY <2>1, SurgeBounds
      <3>k. k \in 0..(b - 2)
        OBVIOUS
      <3> HIDE DEF b
      <3>1. k \in 0..(windowSize - 2) /\ k <= punctual - 1 /\ punctual >= 1
        BY <3>0, <3>k
      <3>2. CASE k = 0
        <4>1. demand[x][OldestSlot] = 0
          BY <2>1, <3>1 DEF SurgeInv, Ahead
        <4> QED BY <1>1, <1>2, <3>2, <4>1
      <3>3. CASE k # 0
        <4>1. /\ k \in 1..(windowSize - 1) /\ k - 1 \in 0..(punctual - 2)
              /\ k - 1 \in 0..(windowSize - 1) /\ windowSize - 1 \in 0..(windowSize - 1)
              /\ k - 1 # windowSize - 1
          BY <3>0, <3>1, <3>3
        <4>2. demand[x][Ago(k - 1) % windowSize] = tallied[x][Ago(k - 1)] /\ Ago(k)' = Ago(k - 1)
          BY <1>2, <4>1 DEF SurgeInv, Ring
        <4>3. Ago(k - 1) # now' /\ Ago(k - 1) \in Time
          BY <1>1, <1>2, <4>1, OldestIsAgo, SlotsApart, SlotsAgo
        <4>4. tallied'[x][Ago(k - 1)] = tallied[x][Ago(k - 1)]
          BY <1>1, <4>3
        <4> QED BY <4>2, <4>4
      <3> QED BY <3>2, <3>3
    <2>3. Recently'
      <3>1. Ago(1)' = Ago(0) /\ Ago(0) = now
        <4>1. 0 \in 0..(windowSize - 1) /\ 1 \in 1..(windowSize - 1) /\ now \in Nat
          BY <1>1, SurgeBounds DEF Time
        <4> QED BY <1>1, <1>2, <4>1, SlotsAgo
      <3> QED BY <1>1, <2>1, <3>1 DEF Recently
    <2>4. Ahead'
      BY <1>1, <1>2, <2>1 DEF Ahead
    <2>5. Unknown' /\ Loads'
      BY <1>1 DEF SurgeInv, Unknown, Loads, Held
    <2>6. Tallies'
      BY <1>1, <1>2 DEF Tallies
    <2> QED BY <2>2, <2>3, <2>4, <2>5, <2>6
  <1> QED BY <1>3, <1>4

\* Every step keeps the invariant.
LEMMA SurgeInvStep == SurgeInv /\ [SurgeNext]_svars => SurgeInv'
  <1> SUFFICES ASSUME SurgeInv, [SurgeNext]_svars
               PROVE  Ring' /\ Recently' /\ Ahead' /\ Unknown' /\ Loads' /\ Tallies'
    BY SurgeTypeStep DEF SurgeInv
  <1>0. /\ now \in Time /\ punctual \in 0..windowSize /\ SurgeTypeOK
        /\ \A z \in Zone : \A s \in Slot : /\ demand[z][s] \in Nat /\ queued[z] \in Nat
                                           /\ uncommitted[z] \in Nat /\ requests \in Nat
    <2>1. \A z \in Zone : \A s \in Slot : /\ demand[z][s] \in 0..MaxRequests
                                          /\ queued[z] \in 0..MaxRequests
                                          /\ uncommitted[z] \in 0..MaxRequests
                                          /\ requests \in 0..MaxRequests
      BY DEF SurgeInv, SurgeTypeOK
    <2> QED BY <2>1 DEF SurgeInv, SurgeTypeOK
  <1>s. ASSUME UNCHANGED <<now, zones, demand, ticked, tallied, punctual>>
        PROVE  Ring' /\ Ahead' /\ Unknown' /\ Tallies'
    <2>1. \A k \in 0..(punctual - 2) : Ago(k)' = Ago(k)
      BY <1>s, SameSlots
    <2>2. Ring'
      BY <1>s, <2>1 DEF SurgeInv, Ring
    <2> QED BY <1>s, <2>2, SameSlots DEF SurgeInv, Ahead, Unknown, Tallies
  <1>r. ASSUME UNCHANGED <<now, punctual, taken>> PROVE Recently'
    BY <1>r, SameSlots DEF SurgeInv, Recently
  <1>1. ASSUME NEW z \in Zone, Request(z)
        PROVE  Ring' /\ Recently' /\ Ahead' /\ Unknown' /\ Loads' /\ Tallies'
    <2>1. /\ UNCHANGED <<now, zones, demand, ticked, tallied, punctual, taken>>
          /\ queued' = [queued EXCEPT ![z] = queued[z] + 1] /\ requests' = requests + 1
          /\ UNCHANGED uncommitted
      BY <1>1 DEF Request, pace
    <2>2. Loads'
      <3> SUFFICES ASSUME NEW x \in Zone, NEW y \in Slot
                   PROVE  /\ queued'[x] + uncommitted[x] <= requests + 1
                          /\ queued'[x] + demand[x][y] + Held(x)' <= requests + 1
        BY <2>1, SomeSlot DEF Loads
      <3>1. Held(x)' = Held(x) /\ Held(x) \in Nat
        BY <2>1 DEF Held
      <3>2. queued'[x] = queued[x] \/ queued'[x] = queued[x] + 1
        BY <1>0, <2>1 DEF SurgeTypeOK
      <3>3. /\ queued[x] + uncommitted[x] <= requests
            /\ queued[x] + demand[x][y] + Held(x) <= requests
        BY DEF SurgeInv, Loads
      <3> QED BY <1>0, <3>1, <3>2, <3>3
    <2> QED BY <1>s, <1>r, <2>1, <2>2
  <1>2. ASSUME NEW z \in Zone, Take(z)
        PROVE  Ring' /\ Recently' /\ Ahead' /\ Unknown' /\ Loads' /\ Tallies'
    <2>1. /\ UNCHANGED <<now, zones, demand, ticked, tallied, punctual, requests>>
          /\ taken = Idle /\ taken' = [z |-> z, t |-> now] /\ queued[z] > 0
          /\ queued' = [queued EXCEPT ![z] = queued[z] - 1]
          /\ uncommitted' = [uncommitted EXCEPT ![z] = uncommitted[z] + 1]
      BY <1>2 DEF Take, pace
    <2>2. Recently'
      <3>1. Ago(0) = now
        <4>1. 0 \in 0..(windowSize - 1) /\ now \in Nat
          BY <1>0, SurgeBounds DEF Time
        <4> QED BY <1>0, <4>1, SlotsAgo
      <3>2. Ago(0)' = now
        BY <2>1, <3>1, SameSlots
      <3> QED BY <2>1, <3>2 DEF Recently
    <2>3. Loads'
      <3> SUFFICES ASSUME NEW x \in Zone, NEW y \in Slot
                   PROVE  /\ queued'[x] + uncommitted'[x] <= requests
                          /\ queued'[x] + demand[x][y] + Held(x)' <= requests
        BY <2>1, SomeSlot DEF Loads
      <3>1. Held(x) = 0 /\ Held(x)' = IF x = z THEN 1 ELSE 0
        BY <2>1, SurgeAssumption DEF Held, Idle
      <3>2. /\ queued'[x] = IF x = z THEN queued[x] - 1 ELSE queued[x]
            /\ uncommitted'[x] = IF x = z THEN uncommitted[x] + 1 ELSE uncommitted[x]
        BY <1>0, <2>1 DEF SurgeTypeOK
      <3>3. /\ queued[x] + uncommitted[x] <= requests
            /\ queued[x] + demand[x][y] + Held(x) <= requests
        BY DEF SurgeInv, Loads
      <3> QED BY <1>0, <3>1, <3>2, <3>3
    <2> QED BY <1>s, <2>1, <2>2, <2>3
  <1>3. CASE Commit
    <2>1. /\ UNCHANGED <<now, zones, demand, ticked, tallied, punctual, taken, requests, queued>>
          /\ uncommitted' = [x \in Zone |-> 0]
      BY <1>3 DEF Commit, pace
    <2>2. Loads'
      <3> SUFFICES ASSUME NEW x \in Zone, NEW y \in Slot
                   PROVE  /\ queued[x] <= requests
                          /\ queued[x] + demand[x][y] + Held(x) <= requests
        BY <1>0, <2>1, SomeSlot DEF Loads, Held
      <3>1. /\ queued[x] + uncommitted[x] <= requests
            /\ queued[x] + demand[x][y] + Held(x) <= requests
        BY DEF SurgeInv, Loads
      <3> QED BY <1>0, <3>1
    <2> QED BY <1>s, <1>r, <2>1, <2>2
  <1>4. ASSUME NEW s \in snaps, Publish(s)
        PROVE  Ring' /\ Recently' /\ Ahead' /\ Unknown' /\ Loads' /\ Tallies'
    <2>1. UNCHANGED <<now, zones, demand, ticked, tallied, punctual, taken, requests, queued, uncommitted>>
      BY <1>4 DEF Publish, pace, input
    <2>2. Loads'
      BY <2>1 DEF SurgeInv, Loads, Held
    <2> QED BY <1>s, <1>r, <2>1, <2>2
  <1>5. CASE Crash
    <2>1. /\ UNCHANGED <<now, requests>> /\ taken' = Idle /\ zones' = {}
          /\ demand' = [x \in Zone |-> NoDemand] /\ punctual' = windowSize
          /\ queued' = [x \in Zone |-> queued[x] + uncommitted[x]]
          /\ uncommitted' = [x \in Zone |-> 0]
          /\ tallied' = [x \in Zone |-> [t \in Time |-> 0]]
      BY <1>5 DEF Crash
    <2>2. \A s \in Slot : NoDemand[s] = 0
      BY DEF NoDemand
    <2>3. Ring'
      <3> SUFFICES ASSUME NEW x \in Zone, NEW k \in 0..(windowSize - 2)
                   PROVE  demand'[x][Ago(k)' % windowSize] = tallied'[x][Ago(k)']
        BY <2>1 DEF Ring
      <3>1. Ago(k)' = Ago(k) /\ k \in 0..(windowSize - 1)
        BY <2>1, SameSlots, SurgeBounds
      <3>2. Ago(k) \in Time
        BY <1>0, <3>1, SlotsAgo
      <3>3. Ago(k) % windowSize \in Slot
        BY <3>2, HasPlace
      <3> QED BY <2>1, <2>2, <3>1, <3>2, <3>3
    <2>4. Recently' /\ Unknown' /\ Tallies'
      BY <2>1 DEF Recently, Unknown, Tallies
    <2>5. Ahead'
      BY <1>0, <2>1, <2>2, SameSlots, OldestIsAgo DEF Ahead
    <2>6. Loads'
      <3> SUFFICES ASSUME NEW x \in Zone, NEW y \in Slot
                   PROVE  /\ queued[x] + uncommitted[x] + 0 <= requests
                          /\ queued[x] + uncommitted[x] + 0 + Held(x)' <= requests
        BY <2>1, <2>2, SomeSlot DEF Loads
      <3>1. Held(x)' = 0
        BY <2>1, SurgeAssumption DEF Held, Idle
      <3>2. queued[x] + uncommitted[x] <= requests
        BY DEF SurgeInv, Loads
      <3> QED BY <1>0, <3>1, <3>2
    <2> QED BY <2>3, <2>4, <2>5, <2>6
  <1>6. CASE UNCHANGED svars
    <2>1. UNCHANGED <<now, zones, demand, ticked, tallied, punctual, taken, requests, queued, uncommitted>>
      BY <1>6 DEF svars, pace
    <2>2. Loads'
      BY <2>1 DEF SurgeInv, Loads, Held
    <2> QED BY <1>s, <1>r, <2>1, <2>2
  <1> QED BY <1>1, <1>2, <1>3, <1>4, <1>5, <1>6, TallyStep, ComputeStep, SlotStep
          DEF SurgeNext, Consume, ComputeLoop

\* The ring and the tallies agree in every behaviour.
LEMMA SurgeInductive == SurgeSpec => []SurgeInv
  BY SurgeInvInit, SurgeInvStep, PTL DEF SurgeSpec

\* The variables have their types: a request is in one place, so that no slot
\* holds more than were made, and no multiplier leaves 1 to 3.
THEOREM SurgeTypeCorrect == SurgeSpec => []SurgeTypeOK
  <1>1. SurgeInv => SurgeTypeOK
    BY DEF SurgeInv
  <1> QED BY <1>1, SurgeInductive, PTL

-------------------------------------------------------------------------------
(* Surge: what a tick counts.                                                *)

\* A zone's snapshot carries its demand; it has none if it was dropped.
LEMMA CountedIsDemand ==
    ASSUME SurgeInv, Compute, NEW z \in Zone
    PROVE  Counted(z)' = Demand(z)
  <1>1. PICK supply \in [zones' -> 0..MaxSupply] :
           snaps' = {[z |-> x, demand |-> Demand(x), m |-> multiplier(Demand(x), supply[x])] :
                        x \in zones'}
    BY DEF Compute
  <1> DEFINE mine == {x \in snaps' : x.z = z}
             w == [s \in mine |-> s.demand]
  <1>2. Counted(z)' = Sum(w, mine)
    <2>1. Counted(z)' = SumFunction(w) /\ DOMAIN w = mine
      BY DEF Counted
    <2> HIDE DEF w, mine
    <2> QED BY <2>1, SumOfFunction
  <1>3. CASE z \notin zones'
    <2>1. mine = {}
      BY <1>1, <1>3
    <2>2. Demand(z) = 0
      BY <1>3, AllEvicted
    <2> HIDE DEF w, mine
    <2> QED BY <1>2, <2>1, <2>2, SumNone
  <1>4. CASE z \in zones'
    <2> DEFINE s == [z |-> z, demand |-> Demand(z), m |-> multiplier(Demand(z), supply[z])]
    <2>1. s \in snaps' /\ s.z = z /\ s.demand = Demand(z)
      BY <1>1, <1>4
    <2>2. ASSUME NEW x \in snaps', x.z = z PROVE x = s
      BY <1>1, <2>2
    <2> HIDE DEF s
    <2>3. mine = {s}
      BY <2>1, <2>2
    <2>4. w[s] = Demand(z) /\ Demand(z) \in Int
      BY <2>1, <2>3, DemandIsSum DEF SurgeInv
    <2> HIDE DEF w, mine
    <2>5. IsFiniteSet(mine) /\ s \in mine /\ \A x \in mine : w[x] \in Int
      BY <2>3, <2>4, FS_Singleton
    <2>6. Sum(w, mine) = w[s] + Sum(w, mine \ {s})
      BY <2>5, SumAny
    <2>7. Sum(w, mine \ {s}) = 0
      <3>1. mine \ {s} = {}
        BY <2>3
      <3> QED BY <3>1, SumNone
    <2> QED BY <1>2, <2>4, <2>6, <2>7
  <1> QED BY <1>3, <1>4

\* What is left of the ring once the oldest slot is evicted is the window.
LEMMA DemandIsRecent ==
    ASSUME SurgeInv, punctual = windowSize, NEW z \in Zone
    PROVE  Demand(z) = Recent(z, windowSize - 1)
  <1> DEFINE K == 0..(windowSize - 2)
             w == [k \in K |-> tallied[z][Ago(k)]]
             ring == Evicted(z)
             left == Slot \ {OldestSlot}
             m == [k \in K |-> Ago(k) % windowSize]
  <1>1. /\ SurgeTypeOK /\ now \in Time /\ OldestSlot \in Slot
        /\ windowSize - 1 \in 0..(windowSize - 1) /\ windowSize - 1 - 1 = windowSize - 2
        /\ \A k \in K : k \in 0..(windowSize - 1) /\ k # windowSize - 1
        /\ \A k \in 0..(windowSize - 1) : k # windowSize - 1 => k \in K
    <2>1. SurgeTypeOK /\ now \in Time
      BY DEF SurgeInv, SurgeTypeOK
    <2> QED BY <2>1, OldestIsAgo, SurgeBounds
  <1>2. Recent(z, windowSize - 1) = Sum(w, K) /\ IsFiniteSet(K)
    <2>1. Recent(z, windowSize - 1) = SumFunction(w) /\ DOMAIN w = K
      BY <1>1 DEF Recent
    <2>2. IsFiniteSet(K)
      BY SurgeBounds, FS_Interval
    <2> HIDE DEF w, K
    <2> QED BY <2>1, <2>2, SumOfFunction
  <1>3. /\ Demand(z) = Sum(ring, Slot) /\ IsFiniteSet(Slot) /\ \A s \in Slot : ring[s] \in Int
        /\ ring = [demand[z] EXCEPT ![OldestSlot] = 0]
    <2>1. Evicted(z) \in [Slot -> 0..MaxRequests] /\ MaxRequests \in Nat
      BY <1>1, DemandIsSum, SurgeBounds
    <2>2. \A s \in Slot : ring[s] \in Int
      BY <2>1
    <2> QED BY <1>1, <2>2, DemandIsSum DEF Evicted, OldestSlot
  <1>4. demand[z] \in [Slot -> 0..MaxRequests]
    BY <1>1 DEF SurgeTypeOK
  <1> HIDE DEF ring
  <1>5. Sum(ring, Slot) = Sum(ring, left)
    <2>1. left \in SUBSET Slot /\ \A s \in Slot \ left : ring[s] = 0
      BY <1>3, <1>4
    <2> HIDE DEF left
    <2> QED BY <1>3, <2>1, SumSparse
  <1>6. ASSUME NEW k \in K PROVE Ago(k) % windowSize \in left
    <2>1. Ago(k) % windowSize \in Slot
      BY <1>1, SlotsAgo, HasPlace
    <2>2. Ago(k) % windowSize # OldestSlot
      BY <1>1, OldestIsAgo, SlotsApart
    <2> QED BY <2>1, <2>2
  <1>7. m \in [K -> left] /\ \A k \in K : m[k] = Ago(k) % windowSize
    BY <1>6
  <1>8. \A a, b \in K : m[a] = m[b] => a = b
    BY <1>1, <1>7, SlotsApart
  <1>9. \A s \in left : \E k \in K : m[k] = s
    <2> SUFFICES ASSUME NEW s \in left PROVE \E k \in K : m[k] = s
      OBVIOUS
    <2>1. PICK k \in 0..(windowSize - 1) : Ago(k) % windowSize = s
      BY <1>1, SlotsCover
    <2>2. k # windowSize - 1
      BY <1>1, <2>1, OldestIsAgo
    <2> QED BY <1>1, <1>7, <2>1, <2>2
  <1>10. \A k \in K : w[k] = ring[m[k]] /\ ring[m[k]] \in Int
    <2> SUFFICES ASSUME NEW k \in K PROVE w[k] = ring[m[k]] /\ ring[m[k]] \in Int
      OBVIOUS
    <2>1. m[k] \in left /\ m[k] = Ago(k) % windowSize
      BY <1>7
    <2>2. demand[z][m[k]] = tallied[z][Ago(k)]
      BY <2>1 DEF SurgeInv, Ring
    <2>3. w[k] = tallied[z][Ago(k)]
      OBVIOUS
    <2> HIDE DEF m, w
    <2> QED BY <1>3, <1>4, <2>1, <2>2, <2>3
  <1> HIDE DEF K, w, left, m
  <1>11. Sum(w, K) = Sum(ring, left)
    BY <1>2, <1>7, <1>8, <1>9, <1>10, SumRenamed
  <1> QED BY <1>2, <1>3, <1>5, <1>11

\* However requests, ticks and the mutex interleave, a tick counts the requests
\* of the last windowSize - 1 slots, each once, unless a slot of the window
\* ended before its tick was served or its last request tallied.
THEOREM WindowIsExact == SurgeSpec => WindowSlides
  <1>1. SurgeInv => (Compute /\ punctual = windowSize =>
                        \A z \in Zone : Counted(z)' = Recent(z, windowSize - 1))
    BY CountedIsDemand, DemandIsRecent
  <1>2. SurgeInv => [Compute /\ punctual = windowSize =>
                        \A z \in Zone : Counted(z)' = Recent(z, windowSize - 1)]_svars
    BY <1>1
  <1> QED BY <1>2, SurgeInductive, PTL DEF WindowSlides
===============================================================================
