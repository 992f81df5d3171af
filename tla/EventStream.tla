---------------------------- MODULE EventStream ----------------------------
(***************************************************************************)
(* How an open mission page learns what the recovery engine has done.      *)
(*                                                                         *)
(* events/recorder.py commits an event and then publishes it;              *)
(* events/bus.py puts it in the queue of every subscriber, directly or by  *)
(* way of Redis; the route stream_events replays the trail from `since`,   *)
(* subscribes, and forwards what comes; the hook useMission reads the      *)
(* aggregate once, opens the stream, and reads the aggregate again on      *)
(* every event.                                                            *)
(*                                                                         *)
(* An event is its sequence number: the trail is 1..committed.  Nothing    *)
(* else of an event is kept but whether it is a STRATEGY_INVALIDATED.  The *)
(* mission's lock serialises record_event but for the intake, which        *)
(* MissionRequests has, so there is one recorder here.  One page is open,  *)
(* on one mission.                                                         *)
(***************************************************************************)
EXTENDS Integers, SequencesExt

CONSTANTS
    Events,             \* how many events the mission records before it ends
    Invalidations,      \* which of them are STRATEGY_INVALIDATED
    QueueSize,          \* maxsize of a subscriber's queue
    TimelineLimit,      \* how many events the aggregate lists, oldest first
    MaxFaults           \* bound: requests of the page that fail, restarts of the API

ASSUME EventsAssumption ==
    /\ Events \in Nat \ {0}
    /\ Invalidations \subseteq 1..Events
    /\ QueueSize \in Nat \ {0}
    /\ TimelineLimit \in Nat \ {0}
    /\ MaxFaults \in Nat

VARIABLES
    committed,  \* the last sequence number in the trail
    announcing, \* the event committed and not yet published, 0 if there is none
    channel,    \* what Redis has yet to hand to _redis_reader
    conn,       \* the server's end of the stream: its generator
    wire,       \* what the server has sent and the page not yet read
    page,       \* the page's end: where it is, since and the watermark, where the
                \* trail stood when it was loaded, whether its first read failed,
                \* and whether its last one did
    view,       \* the aggregate on the screen
    reads,      \* the requests for the aggregate under way
    dirty,      \* an event came while one was: read again
    alerts,     \* the invalidations the overlay was raised for
    faults      \* how many faults there were

serverVars == <<committed, announcing, channel>>
pageVars   == <<page, view, reads, dirty, alerts>>
vars == <<serverVars, conn, wire, pageVars, faults>>

-----------------------------------------------------------------------------
(* States.                                                                 *)

\* The end of the response, after which EventSource calls onerror.
End == 0

\* The stream's generator has not begun, or is over.
NoConn == [pc |-> "none", seen |-> 0, queue |-> <<>>]

\* Nothing is on the screen: "Loading recovery mission..."
NoView == [status |-> -1, timeline |-> -1]

ReadType == [pc : {"sent", "loaded", "answered", "failed"},
             status : 0..Events, timeline : 0..Events]

\* A request for the aggregate, before the server has looked at anything.
NewRead == [pc |-> "sent", status |-> 0, timeline |-> 0]

\* Types of the variables.
TypeOK ==
    /\ committed \in 0..Events
    /\ announcing \in 0..Events
    /\ channel \in Seq(1..Events)
    /\ conn \in [pc : {"none", "replayed", "live"}, seen : 0..Events, queue : Seq(1..Events)]
    /\ Len(conn.queue) <= QueueSize
    /\ wire \in Seq(0..Events)
    /\ page \in [pc : {"loading", "connecting", "open", "refused"},
                 start : 0..Events, seen : 0..Events, loadedAt : 0..Events,
                 blind : BOOLEAN, error : BOOLEAN]
    /\ view \in [status : -1..Events, timeline : -1..Events]
    /\ reads \in Seq(ReadType)
    /\ dirty \in BOOLEAN
    /\ alerts \in Seq(Invalidations)
    /\ faults \in 0..MaxFaults

\* The mission's last event gives it a terminal status: is that what is shown?
Ended(n) == n = Events

\* A mission is opened at any point of its life, its creation recorded or not.
Init ==
    /\ committed \in 0..Events
    /\ announcing = 0
    /\ channel = <<>>
    /\ conn = NoConn
    /\ wire = <<>>
    /\ page = [pc |-> "loading", start |-> 0, seen |-> 0, loadedAt |-> committed,
               blind |-> FALSE, error |-> FALSE]
    /\ view = NoView
    /\ reads = <<NewRead>>
    /\ dirty = FALSE
    /\ alerts = <<>>
    /\ faults = 0

-----------------------------------------------------------------------------
(* The recorder and the bus.                                               *)

\* record_event: the next number, the row, the commit; publishing comes after.
RecordEvent ==
    /\ announcing = 0 /\ committed < Events
    /\ committed' = committed + 1
    /\ announcing' = committed + 1
    /\ UNCHANGED <<channel, conn, wire, pageVars, faults>>

\* Fault: a queue without maxsize.
DispatchLocal_Unbounded(e) ==
    conn' = IF conn.pc = "live" THEN [conn EXCEPT !.queue = Append(@, e)] ELSE conn

\* _dispatch_local: put_nowait into the subscriber's queue; full, it is dropped.
DispatchLocal(e) ==
    conn' = IF conn.pc = "live" /\ Len(conn.queue) < QueueSize
            THEN [conn EXCEPT !.queue = Append(@, e)]
            ELSE conn

\* publish: through Redis, or to the local queues when there is no Redis or its
\* command failed, be it that Redis took the message and the answer was lost.
Publish ==
    /\ announcing # 0
    /\ announcing' = 0
    /\ \/ channel' = Append(channel, announcing) /\ UNCHANGED conn
       \/ DispatchLocal(announcing) /\ UNCHANGED channel
       \/ channel' = Append(channel, announcing) /\ DispatchLocal(announcing)
    /\ UNCHANGED <<committed, wire, pageVars, faults>>

\* _redis_reader hands a message on.
RedisReader ==
    /\ channel # <<>>
    /\ DispatchLocal(Head(channel))
    /\ channel' = Tail(channel)
    /\ UNCHANGED <<committed, announcing, wire, pageVars, faults>>

\* Pub/sub keeps nothing for a reader that has lost its connection.
RedisLoses ==
    /\ channel # <<>>
    /\ channel' = Tail(channel)
    /\ UNCHANGED <<committed, announcing, conn, wire, pageVars, faults>>

-----------------------------------------------------------------------------
(* The route stream_events.                                                *)

\* The request with since = start, and the replay of what is committed by now.
Replay ==
    /\ page.pc = "connecting" /\ conn.pc = "none" /\ wire = <<>>
    /\ LET last == IF committed > page.start THEN committed ELSE page.start
       IN /\ conn' = [NoConn EXCEPT !.pc = "replayed", !.seen = last]
          /\ wire' = [i \in 1..(last - page.start) |-> page.start + i]
    /\ page' = [page EXCEPT !.pc = "open"]
    /\ UNCHANGED <<serverVars, view, reads, dirty, alerts, faults>>

\* subscribe runs at the first __anext__: only now is there a queue to put into.
Subscribe ==
    /\ conn.pc = "replayed"
    /\ conn' = [conn EXCEPT !.pc = "live"]
    /\ UNCHANGED <<serverVars, wire, pageVars, faults>>

\* An event leaves the queue, and is sent unless the replay had it already.
Forward ==
    /\ conn.pc = "live" /\ conn.queue # <<>>
    /\ LET e == Head(conn.queue)
           rest == [conn EXCEPT !.queue = Tail(@)]
       IN IF e <= conn.seen
          THEN conn' = rest /\ UNCHANGED wire
          ELSE conn' = [rest EXCEPT !.seen = e] /\ wire' = Append(wire, e)
    /\ UNCHANGED <<serverVars, pageVars, faults>>

\* Fault: the subscription survives the keep-alive, as the code around it expects.
KeepAlive_Survives ==
    /\ conn.pc = "live" /\ conn.queue = <<>>
    /\ UNCHANGED vars

\* Fifteen seconds without an event: wait_for cancels __anext__, which ends the
\* subscription; the keep-alive is sent, and the next __anext__ ends the stream.
KeepAlive ==
    /\ conn.pc = "live" /\ conn.queue = <<>>
    /\ conn' = NoConn
    /\ wire' = Append(wire, End)
    /\ UNCHANGED <<serverVars, pageVars, faults>>

-----------------------------------------------------------------------------
(* The aggregate: the mission's row is loaded first, the timeline last.    *)

\* get_mission, and the first queries of build_recovery_view.
LoadMission(i) ==
    /\ reads[i].pc = "sent"
    /\ reads' = [reads EXCEPT ![i].pc = "loaded", ![i].status = committed]
    /\ UNCHANGED <<serverVars, conn, wire, page, view, dirty, alerts, faults>>

\* The timeline of build_recovery_view: ascending, and no more than the limit.
LoadTimeline(i) ==
    /\ reads[i].pc = "loaded"
    /\ reads' = [reads EXCEPT ![i].pc = "answered",
                   ![i].timeline = IF committed < TimelineLimit THEN committed
                                   ELSE TimelineLimit]
    /\ page' = IF page.pc = "loading" THEN [page EXCEPT !.loadedAt = committed] ELSE page
    /\ UNCHANGED <<serverVars, conn, wire, view, dirty, alerts, faults>>

\* The request fails: the network, the proxy, an error of the API.
ReadFails(i) ==
    /\ reads[i].pc \in {"sent", "loaded"} /\ faults < MaxFaults
    /\ reads' = [reads EXCEPT ![i].pc = "failed"]
    /\ faults' = faults + 1
    /\ UNCHANGED <<serverVars, conn, wire, page, view, dirty, alerts>>

-----------------------------------------------------------------------------
(* The hook useMission.                                                    *)

\* Fault: concurrent refreshes are discarded instead of coalesced.
Refresh_Discards ==
    /\ reads' = IF reads = <<>> THEN <<NewRead>> ELSE reads
    /\ UNCHANGED dirty

\* Fault: nothing keeps two requests from being under way.
Refresh_Overlaps ==
    /\ reads' = IF Len(reads) < 2 THEN Append(reads, NewRead) ELSE reads
    /\ UNCHANGED dirty

\* What reads and dirty become when refresh is called: coalesce, never drop.
Refresh ==
    IF reads # <<>>
    THEN dirty' = TRUE /\ UNCHANGED reads
    ELSE reads' = <<NewRead>> /\ UNCHANGED dirty

\* What a request leaves on the screen: the aggregate, or the error.
Shows(r) == view' = IF r.pc = "answered"
                    THEN [status |-> r.status, timeline |-> r.timeline]
                    ELSE view

\* Fault: the stream is asked for from the beginning.
FirstAnswer_SinceZero(i) ==
    /\ page.pc = "loading" /\ reads[i].pc \in {"answered", "failed"}
    /\ Shows(reads[i])
    /\ page' = [page EXCEPT !.pc = "connecting", !.blind = reads[i].pc = "failed",
                            !.error = reads[i].pc = "failed"]
    /\ reads' = RemoveAt(reads, i)
    /\ UNCHANGED <<serverVars, conn, wire, dirty, alerts, faults>>

\* The answer to the first read: the stream is opened from its last event on, or
\* from the beginning when there was none.
FirstAnswer(i) ==
    /\ page.pc = "loading" /\ reads[i].pc \in {"answered", "failed"}
    /\ Shows(reads[i])
    /\ LET failed == reads[i].pc = "failed"
           start == IF failed THEN 0 ELSE reads[i].timeline
       IN page' = [page EXCEPT !.pc = "connecting", !.start = start, !.seen = start,
                     !.blind = failed, !.error = failed]
    /\ reads' = RemoveAt(reads, i)
    /\ UNCHANGED <<serverVars, conn, wire, dirty, alerts, faults>>

\* A later answer, or a later failure; what came in meanwhile is asked for now.
Answer(i) ==
    /\ page.pc # "loading" /\ reads[i].pc \in {"answered", "failed"}
    /\ Shows(reads[i])
    /\ page' = [page EXCEPT !.error = reads[i].pc = "failed"]
    /\ reads' = IF dirty THEN Append(RemoveAt(reads, i), NewRead) ELSE RemoveAt(reads, i)
    /\ dirty' = FALSE
    /\ UNCHANGED <<serverVars, conn, wire, alerts, faults>>

\* onEvent: history is ignored, the overlay is raised, the aggregate is read.
OnEvent ==
    /\ page.pc = "open" /\ wire # <<>> /\ Head(wire) # End
    /\ wire' = Tail(wire)
    /\ LET e == Head(wire) IN
       IF e <= page.seen
       THEN UNCHANGED <<page, reads, dirty, alerts>>
       ELSE /\ page' = [page EXCEPT !.seen = e]
            /\ alerts' = IF e \in Invalidations THEN Append(alerts, e) ELSE alerts
            /\ Refresh
    /\ UNCHANGED <<serverVars, conn, view, faults>>

\* The response is over: onerror, and EventSource connects again, to the same URL.
OnError ==
    /\ page.pc = "open" /\ wire # <<>> /\ Head(wire) = End
    /\ wire' = Tail(wire)
    /\ page' = [page EXCEPT !.pc = "connecting"]
    /\ UNCHANGED <<serverVars, conn, view, reads, dirty, alerts, faults>>

\* The proxy cannot reach the API: its answer is no event stream, and EventSource
\* gives up for good.
Refused ==
    /\ page.pc = "connecting" /\ faults < MaxFaults
    /\ page' = [page EXCEPT !.pc = "refused"]
    /\ faults' = faults + 1
    /\ UNCHANGED <<serverVars, conn, wire, view, reads, dirty, alerts>>

\* Fault: the net is gone with the stream: no polls once EventSource gave up.
Poll_WhileReconnecting ==
    /\ view # NoView /\ ~ Ended(view.status)
    /\ page.pc = "connecting"
    /\ Refresh
    /\ UNCHANGED <<serverVars, conn, wire, page, view, alerts, faults>>

\* The safety net: every 2.5 s while there is no stream and no terminal status.
Poll ==
    /\ view # NoView /\ ~ Ended(view.status)
    /\ page.pc \in {"connecting", "refused"}
    /\ Refresh
    /\ UNCHANGED <<serverVars, conn, wire, page, view, alerts, faults>>

\* An operator decides on an approval, and the panel asks for the aggregate.
OnDecided ==
    /\ view # NoView
    /\ Refresh
    /\ UNCHANGED <<serverVars, conn, wire, page, view, alerts, faults>>

\* The API restarts: what was not published is never published, queues and
\* requests are gone, what was sent may still arrive.
Restart ==
    /\ faults < MaxFaults
    /\ faults' = faults + 1
    /\ announcing' = 0
    /\ channel' = <<>>
    /\ conn' = NoConn
    /\ wire' = IF conn.pc = "none" THEN wire ELSE Append(wire, End)
    /\ reads' = [i \in DOMAIN reads |-> IF reads[i].pc = "answered" THEN reads[i]
                                        ELSE [reads[i] EXCEPT !.pc = "failed"]]
    /\ UNCHANGED <<committed, page, view, dirty, alerts>>

-----------------------------------------------------------------------------
Reading == \E i \in DOMAIN reads :
              LoadMission(i) \/ LoadTimeline(i) \/ FirstAnswer(i) \/ Answer(i)

Next ==
    \/ RecordEvent \/ Publish \/ RedisReader \/ RedisLoses
    \/ Replay \/ Subscribe \/ Forward \/ KeepAlive
    \/ Reading \/ \E i \in DOMAIN reads : ReadFails(i)
    \/ OnEvent \/ OnError \/ Refused \/ Poll \/ OnDecided \/ Restart

\* What runs goes on running: the recorder publishes what it committed, the
\* generator and the page's handlers are never parked for ever, a request is
\* answered, and an interval fires if nothing clears it.  The mission itself may
\* stop at any event: it waits for a call or for a human.
Fairness ==
    /\ WF_vars(Publish) /\ WF_vars(RedisReader)
    /\ WF_vars(Replay) /\ WF_vars(Subscribe) /\ WF_vars(Forward) /\ WF_vars(KeepAlive)
    /\ WF_vars(Reading)
    /\ WF_vars(OnEvent) /\ WF_vars(OnError) /\ WF_vars(Poll)

Spec == Init /\ [][Next]_vars /\ Fairness

-----------------------------------------------------------------------------
(* Properties.                                                             *)

\* The aggregate lists the whole trail.
TrailFits == committed <= TimelineLimit

\* "Coalesce, never drop" (useMission.ts:44): a page that is not reading and
\* shows no error shows every event it was told of, and the status after it, as
\* long as the trail fits the aggregate.  The status of the first aggregate may
\* be older than its timeline.
ScreenIsNeverBehind ==
    TrailFits /\ view # NoView /\ reads = <<>> /\ ~ page.error =>
        /\ view.timeline >= page.seen
        /\ page.seen > page.start => view.status >= page.seen

\* A page that was loaded raises the overlay for nothing that was in the trail by
\* then, and for nothing twice, however often the stream starts again, as long as
\* the trail fits the aggregate.
AlertsAreNews ==
    TrailFits /\ ~ page.blind => \A i \in DOMAIN alerts :
        /\ alerts[i] > page.loadedAt
        /\ i > 1 => alerts[i] > alerts[i - 1]

\* The timeline and the status on the screen only ever move forward along what
\* is committed (bus.py, recorder.py: the read API is never behind the stream).
Timeline == INSTANCE ViewPromise WITH
    trail <- committed, shown <- IF view = NoView THEN 0 ELSE view.timeline

Status == INSTANCE ViewPromise WITH
    trail <- committed, shown <- IF view = NoView THEN 0 ELSE view.status

KeepsThePromise == Timeline!Safety /\ Status!Safety

\* An event that fell between replay and subscription, found the queue full, was
\* lost in Redis or never published at all is shown all the same, once the
\* keep-alive has ended the stream: unless a request failed.
EveryEventIsShown ==
    <>[](page.error \/ page.pc = "refused" \/ view.timeline = committed)

\* The safety net (useMission.ts:136): a page that was loaded shows how the mission
\* ended, whatever failed, if polls fall into the pauses between two streams.
OutcomeIsShown ==
    SF_vars(Poll) => <>[](Ended(committed) /\ view # NoView => Ended(view.status))
=============================================================================
