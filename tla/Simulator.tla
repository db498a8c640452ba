------------------------------- MODULE Simulator -------------------------------
(***************************************************************************)
(* services/simulator/main.go: a goroutine per driver that reports its     *)
(* position once a second, and POST /control, which starts and cancels     *)
(* them as the page's slider says.                                         *)
(*                                                                         *)
(* Where a driver is and the route it follows are data: of its loop only   *)
(* what it waits for and when it reports is kept.                          *)
(***************************************************************************)
EXTENDS Integers, Sequences, FiniteSets, SequencesExt

CONSTANTS MaxIds,      \* bound on the drivers ever started
          MaxDrivers,  \* the largest fleet handleControl allows, 1000
          Slider       \* the values a request may ask for

ASSUME SimulatorAssumption ==
    MaxIds \in Nat /\ MaxDrivers \in Nat /\ Slider \subseteq Int

Cab == 0..(MaxIds - 1)  \* the drivers d0000, d0001, ...

VARIABLES
    listed,      \* driverCncls: the drivers whose cancel function is kept
    nextDriver,  \* the number of the next one
    cancelled,   \* the drivers whose context is done
    loop,        \* loop[d]: where the goroutine of driver d is
    posted       \* drivers with a report that was sent and not yet broadcast

fleet == <<listed, nextDriver, cancelled, loop>>

\* A goroutine: not started, in its loop, returned.
Loop == {"none", "drives", "done"}

SimulatorTypeOK == /\ listed \in Seq(Cab)
                   /\ nextDriver \in 0..MaxIds
                   /\ cancelled \subseteq Cab /\ posted \subseteq Cab
                   /\ loop \in [Cab -> Loop]

\* setDrivers(n) of main(), with the number in DRIVERS, which nothing clamps.
SimulatorInit ==
    \E n \in 0..MaxIds :
        /\ listed = [i \in 1..n |-> i - 1]
        /\ nextDriver = n
        /\ cancelled = {} /\ posted = {}
        /\ loop = [d \in Cab |-> IF d < n THEN "drives" ELSE "none"]

-------------------------------------------------------------------------------
Goto(d, place) == loop' = [loop EXCEPT ![d] = place]

\* Variant: the oldest drivers are cancelled, the newest taken off the list.
SetDriversOldest(n) ==
    LET more == IF n > Len(listed) THEN n - Len(listed) ELSE 0
        new == [i \in 1..more |-> nextDriver + i - 1]
    IN  /\ nextDriver + more <= MaxIds
        /\ listed' = SubSeq(listed, 1, n - more) \o new
        /\ nextDriver' = nextDriver + more
        /\ cancelled' = cancelled \union ToSet(SubSeq(listed, 1, Len(listed) - n))
        /\ loop' = [d \in Cab |-> IF d \in ToSet(new) THEN "drives" ELSE loop[d]]

\* setDrivers(n): goroutines are started up to n of them, or the last ones
\* cancelled and taken off the list.
SetDrivers(n) ==
    LET more == IF n > Len(listed) THEN n - Len(listed) ELSE 0
        new == [i \in 1..more |-> nextDriver + i - 1]
    IN  /\ nextDriver + more <= MaxIds
        /\ listed' = SubSeq(listed, 1, n - more) \o new
        /\ nextDriver' = nextDriver + more
        /\ cancelled' = cancelled \union ToSet(SubSeq(listed, n + 1, Len(listed)))
        /\ loop' = [d \in Cab |-> IF d \in ToSet(new) THEN "drives" ELSE loop[d]]

Clamp(n) == CASE n < 0 -> 0 [] n > MaxDrivers -> MaxDrivers [] OTHER -> n

\* A request to /control is handled.
HandleControl(n) == SetDrivers(Clamp(n)) /\ UNCHANGED posted

\* ctx.Done(): the goroutine returns.
Stop(d) ==
    /\ loop[d] = "drives" /\ d \in cancelled
    /\ Goto(d, "done")
    /\ UNCHANGED <<listed, nextDriver, cancelled, posted>>

\* The ticker: the driver moves on, which may take a search for a route, and
\* posts its position, which may fail.  With both ready select takes either, and
\* a driver that is cancelled during the two HTTP calls still posts.
Post(d) ==
    /\ loop[d] = "drives"
    /\ posted' = posted \union {d}
    /\ UNCHANGED fleet

Simulate == \/ \E n \in Slider : HandleControl(n)
            \/ \E d \in Cab : Stop(d) \/ Post(d)

\* The HTTP calls have a timeout, and select, choosing at random among what is
\* ready, comes to ctx.Done() in the end.
SimulatorFairness == \A d \in Cab : WF_<<fleet, posted>>(Stop(d))

===============================================================================
