-------------------------------- MODULE LiveMap --------------------------------
(***************************************************************************)
(* web/src/App.tsx on its way from the sources: the drivers of module      *)
(* Simulator report, the matcher announces requests and trips, ws-fanout   *)
(* reads both and passes them on over the page's connection, a Stream,     *)
(* and the page keeps three maps of what it heard: tracks of drivers,      *)
(* trips, and pins of waiting riders.  Nothing but these events tells it   *)
(* what is going on, and some are dropped.                                 *)
(*                                                                         *)
(* What the topic said of a request is what ws-fanout has read of it, in   *)
(* the order the matcher published it: events of a request share a key.    *)
(***************************************************************************)
EXTENDS Simulator, Stream

CONSTANTS Tab,       \* the page's connection
          Req,       \* the requests riders make
          None,      \* no driver, no request
          MaxAsks,   \* bound on how often a request is made
          TrackLife, \* seconds a driver stays on the map unheard of, 6
          WaitLife   \* seconds a pin stays, 15

Message == [event : {"position"}, req : {None}, cab : Cab]
           \union [event : {"requested", "unmatched"}, req : Req, cab : {None}]
           \union [event : {"assigned", "completed"}, req : Req, cab : Cab]

ASSUME LiveMapAssumption == /\ Conn = {Tab} /\ Message \subseteq Record
                            /\ None \notin Req \union Cab
                            /\ MaxAsks \in Nat /\ TrackLife \in Nat /\ WaitLife \in Nat

VARIABLES
    said,    \* said[r]: what the trips topic last said of request r, "nothing" after the end
    cab,     \* cab[r]: the driver of its trip
    asks,    \* asks[r]: how often it was made
    since,   \* the requests whose trip began since the page was loaded, and goes on
    lost,    \* those of which the page missed an event since, or a crash did
    tracks,  \* tracks[d]: seconds since driver d was last heard of, or Absent
    waiting, \* waiting[r]: the age of the pin, or Absent
    trips    \* trips[r]: the driver the trip is shown with, or None

topic == <<said, cab, asks, since>>
maps == <<tracks, waiting, trips>>
mvars == <<fleet, posted, svars, topic, lost, maps>>

Absent == -1
Ages(life) == Absent..(life + 1)

LiveMapTypeOK == /\ SimulatorTypeOK
                 /\ open \subseteq Conn /\ queue \in [Conn -> Seq(Message)]
                 /\ said \in [Req -> {"nothing", "requested", "assigned"}]
                 /\ cab \in [Req -> Cab \union {None}]
                 /\ asks \in [Req -> 0..MaxAsks]
                 /\ since \subseteq Req /\ lost \subseteq Req
                 /\ tracks \in [Cab -> Ages(TrackLife)]
                 /\ waiting \in [Req -> Ages(WaitLife)]
                 /\ trips \in [Req -> Cab \union {None}]

Empty == /\ tracks' = [d \in Cab |-> Absent]
         /\ waiting' = [r \in Req |-> Absent]
         /\ trips' = [r \in Req |-> None]

LiveMapInit ==
    /\ SimulatorInit /\ Init
    /\ said = [r \in Req |-> "nothing"] /\ cab = [r \in Req |-> None]
    /\ asks = [r \in Req |-> 0] /\ since = {} /\ lost = {}
    /\ tracks = [d \in Cab |-> Absent]
    /\ waiting = [r \in Req |-> Absent]
    /\ trips = [r \in Req |-> None]

-------------------------------------------------------------------------------
\* ws-fanout reads a record and passes it to the page, if there is one and it
\* is not too far behind.
Tell(e, r, d) ==
    \/ Accept(Tab, [event |-> e, req |-> r, cab |-> d]) /\ UNCHANGED lost
    \/ Drop(Tab) /\ lost' = lost \union ({r} \cap Req)
    \/ Tab \notin open /\ UNCHANGED <<svars, lost>>

\* Of a report, the record arrives, or the gateway dies with its buffer.
Report(d) ==
    /\ d \in posted
    /\ posted' = posted \ {d}
    /\ \/ Tell("position", None, d)
       \/ UNCHANGED <<svars, lost>>
    /\ UNCHANGED <<fleet, topic, maps>>

\* The matcher says "requested" before it looks whether the request is a
\* repeated one, whose trip goes on.  (Two attempts at once count as one: what
\* the second may do is the business of Matcher.)
Requested(r) ==
    /\ asks[r] < MaxAsks
    /\ asks' = [asks EXCEPT ![r] = @ + 1]
    /\ said' = [said EXCEPT ![r] = IF @ = "assigned" THEN @ ELSE "requested"]
    /\ Tell("requested", r, None)
    /\ UNCHANGED <<fleet, posted, cab, since, maps>>

Unmatched(r) ==
    /\ said[r] = "requested"
    /\ said' = [said EXCEPT ![r] = "nothing"]
    /\ Tell("unmatched", r, None)
    /\ UNCHANGED <<fleet, posted, cab, asks, since, maps>>

\* A driver that was started some time -- the index finds it for a while after
\* it was stopped -- and that is on no trip.
Assigned(r, d) ==
    /\ said[r] = "requested" /\ loop[d] # "none"
    /\ \A q \in Req : said[q] = "assigned" => cab[q] # d
    /\ said' = [said EXCEPT ![r] = "assigned"]
    /\ cab' = [cab EXCEPT ![r] = d]
    /\ since' = IF Tab \in open THEN since \union {r} ELSE since
    /\ Tell("assigned", r, d)
    /\ UNCHANGED <<fleet, posted, asks, maps>>

Completed(r) ==
    /\ said[r] = "assigned"
    /\ said' = [said EXCEPT ![r] = "nothing"]
    /\ cab' = [cab EXCEPT ![r] = None]
    /\ since' = since \ {r}
    /\ Tell("completed", r, cab[r])
    /\ UNCHANGED <<fleet, posted, asks, maps>>

\* The matcher crashes during the trip: it ends and nobody says so.
Orphaned(r) ==
    /\ said[r] = "assigned"
    /\ said' = [said EXCEPT ![r] = "nothing"]
    /\ cab' = [cab EXCEPT ![r] = None]
    /\ since' = since \ {r} /\ lost' = lost \union {r}
    /\ UNCHANGED <<fleet, posted, asks, svars, maps>>

-------------------------------------------------------------------------------
\* Variant: the page opens another connection and keeps its maps.
Reconnect ==
    /\ Open(Tab)
    /\ since' = {} /\ lost' = {}
    /\ UNCHANGED <<fleet, posted, said, cab, asks, maps>>

\* The page is loaded, with empty maps, and its WebSocket accepted.
Load ==
    /\ Open(Tab) /\ Empty
    /\ since' = {} /\ lost' = {}
    /\ UNCHANGED <<fleet, posted, said, cab, asks>>

\* The connection breaks.  The page stays as it is, and opens no other.
Disconnect == Shut(Tab) /\ lost' = {} /\ UNCHANGED <<fleet, posted, topic, maps>>

\* Variant: "completed" relies on the trip being there.
HeardTrusting(m) ==
    CASE m.event = "position" ->
            tracks' = [tracks EXCEPT ![m.cab] = 0] /\ UNCHANGED <<waiting, trips>>
      [] m.event \in {"requested", "unmatched"} ->
            waiting' = [waiting EXCEPT ![m.req] = 0] /\ UNCHANGED <<tracks, trips>>
      [] m.event = "assigned" ->
            /\ waiting' = [waiting EXCEPT ![m.req] = Absent]
            /\ trips' = [trips EXCEPT ![m.req] = m.cab]
            /\ UNCHANGED tracks
      [] m.event = "completed" ->
            /\ trips' = [trips EXCEPT ![m.req] = None]
            /\ tracks' = [d \in Cab \union {trips[m.req]} |->
                             IF d = trips[m.req] THEN 0 ELSE tracks[d]]
            /\ UNCHANGED waiting

Heard(m) ==
    CASE m.event = "position" ->
            tracks' = [tracks EXCEPT ![m.cab] = 0] /\ UNCHANGED <<waiting, trips>>
      [] m.event \in {"requested", "unmatched"} ->
            waiting' = [waiting EXCEPT ![m.req] = 0] /\ UNCHANGED <<tracks, trips>>
      [] m.event = "assigned" ->
            /\ waiting' = [waiting EXCEPT ![m.req] = Absent]
            /\ trips' = [trips EXCEPT ![m.req] = m.cab]
            /\ UNCHANGED tracks
      [] m.event = "completed" ->
            /\ trips' = [trips EXCEPT ![m.req] = None]
            /\ tracks' = [d \in Cab |-> IF d = trips[m.req] THEN 0 ELSE tracks[d]]
            /\ UNCHANGED waiting

\* ws.onmessage.
OnMessage ==
    /\ Hear(Tab) /\ Heard(Head(queue[Tab]))
    /\ UNCHANGED <<fleet, posted, topic, lost>>

Older(ages, life) ==
    [x \in DOMAIN ages |-> IF ages[x] \in 0..life THEN ages[x] + 1 ELSE ages[x]]
Second ==
    /\ tracks' = Older(tracks, TrackLife) /\ waiting' = Older(waiting, WaitLife)
    /\ UNCHANGED <<fleet, posted, svars, topic, lost, trips>>

Young(ages, life) == [x \in DOMAIN ages |-> IF ages[x] > life THEN Absent ELSE ages[x]]

\* Variant: pins are left to the events.
FramePins ==
    /\ tracks' = Young(tracks, TrackLife)
    /\ UNCHANGED <<fleet, posted, svars, topic, lost, waiting, trips>>

\* tick(), on every frame: what was not heard of for too long is taken down.
Frame ==
    /\ tracks' = Young(tracks, TrackLife) /\ waiting' = Young(waiting, WaitLife)
    /\ UNCHANGED <<fleet, posted, svars, topic, lost, trips>>

LiveMapNext ==
    \/ Simulate /\ UNCHANGED <<svars, topic, lost, maps>>
    \/ \E d \in Cab : Report(d)
    \/ \E r \in Req : \/ Requested(r) \/ Unmatched(r) \/ Completed(r) \/ Orphaned(r)
                      \/ \E d \in Cab : Assigned(r, d)
    \/ Load \/ Disconnect \/ OnMessage \/ Second \/ Frame

LiveMapSpec == LiveMapInit /\ [][LiveMapNext]_mvars

\* The services run, the page is in front and its browser reads, and a trip's
\* goroutine, which only sleeps and makes calls with a timeout, ends it unless
\* the matcher crashes; nobody need ask for a driver, load the page or move the
\* slider.
LiveMapFairSpec ==
    /\ LiveMapSpec /\ SimulatorFairness
    /\ \A d \in Cab : WF_mvars(Report(d))
    /\ \A r \in Req : WF_mvars(Completed(r) \/ Orphaned(r))
    /\ WF_mvars(OnMessage) /\ WF_mvars(Second) /\ WF_mvars(Frame)

-------------------------------------------------------------------------------
Unheard(r) == \E i \in DOMAIN queue[Tab] : queue[Tab][i].req = r

\* A connected page that heard all that was said of a request since it was
\* loaded shows its trip, with the right driver, exactly while it is under way,
\* through repeated requests and reloads: nothing but a lost event is to blame
\* for a trip that is missing or stays.
MapExact ==
    \A r \in Req \ lost :
        Tab \in open /\ ~Unheard(r) =>
            trips[r] = IF r \in since THEN cab[r] ELSE None

\* "decreasing the slider reflects immediately": a driver the slider took out
\* of the fleet for good is off the map in the end.  Its own goroutine was
\* stopped and the report that was under way came in and aged, also where a
\* "completed" put the driver back on the map; and none of the cars the page
\* draws for trips is this driver's, once its trips are over.  Only an entry of
\* trips whose end the page never heard of still draws it -- the event was lost,
\* the matcher crashed, the connection broke -- and for ever: see GhostsFade.
FleetFades ==
    \A d \in Cab :
        <>[](d \notin ToSet(listed)) =>
            <>[](/\ tracks[d] = Absent
                 /\ \A r \in Req : trips[r] = d => r \in lost \/ Tab \notin open)

\* Pins fade, whether a trip begins, the matcher says "unmatched" or, as for a
\* rider left over in a batch, never says anything, and also those a repeated
\* request puts up during the trip.
PinsFade == \A r \in Req : []<>(waiting[r] = Absent)

\* A trip that is over is off the map some time.
\* (It does not hold; see livemap.cfg.)
GhostsFade == \A r \in Req : trips[r] # None /\ r \notin since ~> trips[r] = None \/ r \in since
===============================================================================
