--------------------------------- MODULE Feeds ---------------------------------
(***************************************************************************)
(* services/feeds: the manager of main.go switches the OpenSky feed on and *)
(* off, the goroutines of opensky.go poll it.  Switching on starts a new   *)
(* goroutine, switching off cancels the context of the last one, which may *)
(* be anywhere in poll() and lives on until it looks at its context; so    *)
(* goroutines overlap, and all of them write the same status.              *)
(*                                                                         *)
(* Time is in units of half of pollEvery (6 s); a poll takes less than the *)
(* client's timeout of 10 s, so it is over when the ticker fires again.    *)
(***************************************************************************)
EXTENDS Integers, Sequences, FiniteSets

CONSTANTS Poller,      \* goroutines
          None,        \* no goroutine
          pollEvery,   \* in units of time
          MaxRows,     \* bound on the rows of an answer
          ShortRows,   \* whether OpenSky may send rows of 11 to 13 elements
          MayFail,     \* whether OpenSky may answer with anything but 200
          MaxToggles   \* bound on the calls that switch the feed

ASSUME FeedsAssumption ==
    /\ None \notin Poller
    /\ pollEvery \in Nat \ {0} /\ MaxRows \in Nat /\ MaxToggles \in Nat
    /\ ShortRows \in BOOLEAN /\ MayFail \in BOOLEAN

VARIABLES
    enabled,   \* f.enabled
    current,   \* the goroutine f.cancel cancels
    cancelled, \* the goroutines whose context is cancelled
    pc,        \* pc[p]: where goroutine p is
    rows,      \* rows[p]: the rows it has yet to emit
    n,         \* n[p]: how many it has emitted
    timer,     \* timer[p]: time until its ticker fires
    due,       \* the goroutines whose ticker's channel is full
    lastErr,   \* "" or an error
    lastCount,
    answer,    \* history: the status of OpenSky's last answer
    sent,      \* history: time since OpenSky was last asked, up to pollEvery + 1
    crashed,   \* history: the process has panicked
    toggles

vars == <<enabled, current, cancelled, pc, rows, n, timer, due, lastErr, lastCount,
          answer, sent, crashed, toggles>>
switch == <<enabled, current, cancelled, toggles>>
status == <<lastErr, lastCount>>
ticker == <<timer, due>>

\* A row is a full vector of an airborne aircraft with a position; one that is
\* skipped -- fewer than 11 elements, no position, on the ground, no id; or
\* one of 11 to 13 elements.
Row == {"full", "skip"} \union (IF ShortRows THEN {"short"} ELSE {})
Answer == UNION {[1..k -> Row] : k \in 0..MaxRows}

\* Not running, in poll() before and after the request went out, in emit(), and
\* in the select of its loop.
PC == {"none", "ask", "wait", "emit", "select"}

TypeOK == /\ enabled \in BOOLEAN /\ current \in Poller \union {None}
          /\ cancelled \subseteq Poller
          /\ pc \in [Poller -> PC] /\ rows \in [Poller -> Answer]
          /\ n \in [Poller -> 0..MaxRows]
          /\ timer \in [Poller -> 0..pollEvery] /\ due \subseteq Poller
          /\ lastErr \in {"", "request", "429", "status", "decode"}
          /\ lastCount \in 0..MaxRows
          /\ answer \in {"none", "200", "429", "status"}
          /\ sent \in 0..(pollEvery + 1)
          /\ crashed \in BOOLEAN /\ toggles \in 0..MaxToggles

Init == /\ enabled = FALSE /\ current = None /\ cancelled = {}
        /\ pc = [p \in Poller |-> "none"] /\ rows = [p \in Poller |-> << >>]
        /\ n = [p \in Poller |-> 0]
        /\ timer = [p \in Poller |-> 0] /\ due = {}
        /\ lastErr = "" /\ lastCount = 0
        /\ answer = "none" /\ sent = pollEvery + 1
        /\ crashed = FALSE /\ toggles = 0

-------------------------------------------------------------------------------
Goto(p, label) == pc' = [pc EXCEPT ![p] = label]

\* POST /feeds {enabled: true}: nothing if it is, else a new goroutine.
Enable(p) ==
    /\ toggles < MaxToggles
    /\ ~enabled /\ pc[p] = "none"
    /\ enabled' = TRUE /\ current' = p /\ toggles' = toggles + 1
    /\ cancelled' = cancelled \ {p}
    /\ Goto(p, "ask")
    /\ UNCHANGED <<rows, n, ticker, status, answer, sent, crashed>>

\* Variant: the flag is cleared and the goroutine goes on.
DisableFlagOnly ==
    /\ toggles < MaxToggles
    /\ enabled
    /\ enabled' = FALSE /\ toggles' = toggles + 1
    /\ UNCHANGED <<current, cancelled, pc, rows, n, ticker, status, answer, sent, crashed>>

\* POST /feeds {enabled: false}.
Disable ==
    /\ toggles < MaxToggles
    /\ enabled
    /\ enabled' = FALSE /\ toggles' = toggles + 1
    /\ cancelled' = cancelled \union {current}
    /\ UNCHANGED <<current, pc, rows, n, ticker, status, answer, sent, crashed>>

\* The first poll is over when the ticker is made; later ones find it running.
PollOver(p) ==
    /\ Goto(p, "select")
    /\ timer' = [timer EXCEPT ![p] = IF @ = 0 THEN pollEvery ELSE @]

\* setErr(): lastErr and lastPoll; lastCount stays.
SetErr(p, msg) == lastErr' = msg /\ UNCHANGED lastCount /\ PollOver(p)

\* cli.Do: the request goes out, unless the context is cancelled.
Ask(p) ==
    /\ pc[p] = "ask" /\ p \notin cancelled
    /\ sent' = 0
    /\ Goto(p, "wait")
    /\ UNCHANGED <<switch, rows, n, ticker, status, answer, crashed>>

\* The request fails, and does so if the context is cancelled meanwhile.
RequestFails(p) ==
    /\ pc[p] \in {"ask", "wait"}
    /\ p \in cancelled \/ MayFail
    /\ SetErr(p, "request")
    /\ UNCHANGED <<switch, rows, n, due, answer, sent, crashed>>

\* OpenSky refuses: 429, or any other status.  The poller may be cancelled by
\* the time it says so in the status.
Refused(p) ==
    /\ pc[p] = "wait" /\ MayFail
    /\ answer' \in {"429", "status"}
    /\ SetErr(p, answer')
    /\ UNCHANGED <<switch, rows, n, due, sent, crashed>>

\* The body cannot be read -- cancelled after its head came -- or decoded.
DecodeFails(p) ==
    /\ pc[p] = "wait" /\ (p \in cancelled \/ MayFail)
    /\ answer' = "200"
    /\ SetErr(p, "decode")
    /\ UNCHANGED <<switch, rows, n, due, sent, crashed>>

\* Variant: n goes on from the last poll.
AnsweredOnTop(p) ==
    /\ pc[p] = "wait"
    /\ answer' = "200"
    /\ rows' \in {[rows EXCEPT ![p] = a] : a \in Answer}
    /\ Goto(p, "emit")
    /\ UNCHANGED <<switch, n, ticker, status, sent, crashed>>

\* It can; emit() begins.
Answered(p) ==
    /\ pc[p] = "wait"
    /\ answer' = "200"
    /\ rows' \in {[rows EXCEPT ![p] = a] : a \in Answer}
    /\ n' = [n EXCEPT ![p] = 0]
    /\ Goto(p, "emit")
    /\ UNCHANGED <<switch, ticker, status, sent, crashed>>

\* emit(): a row is skipped, or produced and counted; it is counted also when
\* a cancelled context keeps it from the topic.
EmitRow(p) ==
    /\ pc[p] = "emit" /\ rows[p] # << >>
    /\ Head(rows[p]) \in {"full", "skip"}
    /\ rows' = [rows EXCEPT ![p] = Tail(@)]
    /\ n' = [n EXCEPT ![p] = IF Head(rows[p]) = "full" THEN @ + 1 ELSE @]
    /\ UNCHANGED <<switch, pc, ticker, status, answer, sent, crashed>>

\* A row of 11 to 13 elements passes the length check and is indexed at 11 and
\* at 13: the goroutine panics, and all of the process ends with it.  It comes
\* back, when somebody starts it again, with the feed off.
EmitPanics(p) ==
    /\ pc[p] = "emit" /\ rows[p] # << >>
    /\ Head(rows[p]) = "short"
    /\ crashed' = TRUE
    /\ enabled' = FALSE /\ current' = None /\ cancelled' = {}
    /\ pc' = [q \in Poller |-> "none"] /\ rows' = [q \in Poller |-> << >>]
    /\ n' = [q \in Poller |-> 0]
    /\ timer' = [q \in Poller |-> 0] /\ due' = {}
    /\ lastErr' = "" /\ lastCount' = 0
    /\ UNCHANGED <<answer, sent, toggles>>

\* Variant: the error of an earlier poll stays.
StoreCount(p) ==
    /\ pc[p] = "emit" /\ rows[p] = << >>
    /\ lastCount' = n[p] /\ UNCHANGED lastErr
    /\ PollOver(p)
    /\ UNCHANGED <<switch, rows, n, due, answer, sent, crashed>>

\* All rows are done: the status is written, under the mutex.
Store(p) ==
    /\ pc[p] = "emit" /\ rows[p] = << >>
    /\ lastCount' = n[p] /\ lastErr' = ""
    /\ PollOver(p)
    /\ UNCHANGED <<switch, rows, n, due, answer, sent, crashed>>

\* Variant: the goroutine looks at the feed's flag, not at its context.
StopIfOff(p) ==
    /\ pc[p] = "select" /\ p \in cancelled /\ ~enabled
    /\ Goto(p, "none")
    /\ timer' = [timer EXCEPT ![p] = 0]
    /\ due' = due \ {p}
    /\ UNCHANGED <<switch, rows, n, status, answer, sent, crashed>>

\* The loop's select: the context is done, or the ticker fired -- either, when
\* both hold.
Stop(p) ==
    /\ pc[p] = "select" /\ p \in cancelled
    /\ Goto(p, "none")
    /\ timer' = [timer EXCEPT ![p] = 0]
    /\ due' = due \ {p}
    /\ UNCHANGED <<switch, rows, n, status, answer, sent, crashed>>

PollAgain(p) ==
    /\ pc[p] = "select" /\ p \in due
    /\ due' = due \ {p}
    /\ Goto(p, "ask")
    /\ UNCHANGED <<switch, rows, n, timer, status, answer, sent, crashed>>

\* Time passes, though not while a poll is out for pollEvery.
Tick ==
    /\ \A p \in Poller : timer[p] = 1 => pc[p] = "select" /\ p \notin due
    /\ timer' = [p \in Poller |-> CASE timer[p] = 0 -> 0
                                    [] timer[p] = 1 -> pollEvery
                                    [] OTHER -> timer[p] - 1]
    /\ due' = due \union {p \in Poller : timer[p] = 1}
    /\ sent' = IF sent > pollEvery THEN sent ELSE sent + 1
    /\ UNCHANGED <<switch, pc, rows, n, status, answer, crashed>>

Poll(p) == \/ Ask(p) \/ RequestFails(p) \/ Refused(p) \/ DecodeFails(p) \/ Answered(p)
           \/ EmitRow(p) \/ EmitPanics(p) \/ Store(p) \/ PollAgain(p)

Next == \/ Disable \/ Tick
        \/ \E p \in Poller : Enable(p) \/ Poll(p) \/ Stop(p)

Spec == Init /\ [][Next]_vars

\* The goroutines run, and select does not ignore a context that is done.
FairSpec == Spec /\ WF_vars(Tick)
                 /\ \A p \in Poller : WF_vars(Poll(p)) /\ SF_vars(Stop(p))

-------------------------------------------------------------------------------
Live == {p \in Poller : pc[p] # "none" /\ p \notin cancelled}

\* However it is switched on and off while polls are out, one goroutine polls
\* when the feed is on, the one it can be switched off by, and none else.
OneLivePoller == Live = IF enabled THEN {current} ELSE {}

\* A goroutine that was cancelled ends.
CancelledEnd == \A p \in Poller : p \in cancelled ~> pc[p] = "none"

\* "live stats": when the feed stays on and its poller is not failed any more
\* the error goes away, whatever goroutines were around to write one before.
PollFailsStep == \E p \in Poller \ cancelled :
                    RequestFails(p) \/ Refused(p) \/ DecodeFails(p)
StatusRecovers ==
    <>[]enabled /\ <>[][~PollFailsStep]_vars => <>[](lastErr = "")

\* "skip-bad-record": no answer of OpenSky ends the service.
\* (It does not hold; see feeds_crash.cfg.)
NeverCrashes == ~crashed

\* "rate limited (429) -- backing off": after a 429 OpenSky is left alone for
\* longer than between any two polls.
\* (It does not hold; see feeds_crash.cfg.)
BacksOff ==
    [][\A p \in Poller : Ask(p) /\ answer = "429" => sent > pollEvery]_vars
===============================================================================
