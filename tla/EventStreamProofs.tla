------------------------- MODULE EventStreamProofs -------------------------
(***************************************************************************)
(* What an open mission page shows, for any trail, any queue and any       *)
(* number of faults:                                                       *)
(*   - the timeline and the status on the screen are growing prefixes of   *)
(*     the trail: EventStream implements ViewPromise twice.  There is one  *)
(*     request at a time, and what it reads is not behind the screen it    *)
(*     will replace (ReadInv);                                             *)
(*   - the screen is not behind what the page was told of: the request     *)
(*     that is answered with nothing to follow has read at least to the    *)
(*     watermark, since every later signal left dirty behind (NewsInv);    *)
(*   - alerts are news: the overlay follows the watermark, which a page    *)
(*     that was loaded never has before the aggregate's end (AlertInv).    *)
(* The last two hold while the trail fits the aggregate, and so they are   *)
(* kept: a trail does not shrink (NewsHolds).                              *)
(***************************************************************************)
EXTENDS EventStream, SequenceTheorems, TLAPS

-----------------------------------------------------------------------------
(* Sequences *)

\* What is left of one request when it is answered.
LEMMA RemoveOnly ==
    ASSUME NEW S, NEW s \in Seq(S), Len(s) = 1
    PROVE  RemoveAt(s, 1) = <<>>
<1>1. SubSeq(s, 1, 0) = <<>> /\ SubSeq(s, 2, 1) = <<>>
  BY SubSeqEmpty
<1>2. <<>> \o <<>> = <<>>
  BY ConcatEmptySeq, EmptySeq
<1> QED BY <1>1, <1>2 DEF RemoveAt

LEMMA Transitive == ASSUME NEW a \in Int, NEW b \in Int, NEW c \in Int, a <= b, c > b PROVE c > a
OBVIOUS

LEMMA OneAtMost == ASSUME NEW n \in Nat, n <= 1, NEW i \in 1..n PROVE n = 1 /\ i = 1
OBVIOUS

\* There is at most one request, so a step of a request is a step of the only one.
LEMMA OnlyRead ==
    ASSUME TypeOK, Len(reads) <= 1, NEW i \in DOMAIN reads
    PROVE  /\ i = 1 /\ Len(reads) = 1 /\ reads[1] \in ReadType /\ DOMAIN reads = {1}
           /\ RemoveAt(reads, i) = <<>>
<1>1. i \in 1..Len(reads) /\ Len(reads) \in Nat
  BY LenProperties DEF TypeOK
<1>2. i = 1 /\ Len(reads) = 1
  BY <1>1, OneAtMost
<1>3. RemoveAt(reads, 1) = <<>>
  BY <1>2, RemoveOnly DEF TypeOK
<1>4. reads[1] \in ReadType
  BY <1>1, <1>2, ElementOfSeq DEF TypeOK
<1>5. DOMAIN reads = 1..Len(reads)
  BY LenProperties DEF TypeOK
<1>6. DOMAIN reads = {1}
  BY <1>2, <1>5
<1> QED BY <1>2, <1>3, <1>4, <1>6

LEMMA SetRead ==
    ASSUME TypeOK, Len(reads) <= 1, NEW i \in DOMAIN reads, NEW r \in ReadType
    PROVE  /\ [reads EXCEPT ![i] = r] \in Seq(ReadType)
           /\ Len([reads EXCEPT ![i] = r]) = 1
           /\ [reads EXCEPT ![i] = r][1] = r
BY OnlyRead, ExceptSeq DEF TypeOK

LEMMA OneNewRead == /\ <<NewRead>> \in Seq(ReadType)
                    /\ Len(<<NewRead>>) = 1 /\ <<NewRead>>[1] = NewRead
                    /\ Append(<<>>, NewRead) = <<NewRead>>
BY EventsAssumption DEF NewRead, ReadType

-----------------------------------------------------------------------------
(* The inductive invariant *)

\* What is on its way is in the trail.
ConnType == [pc : {"none", "replayed", "live"}, seen : 0..committed, queue : Seq(1..committed)]

ServerInv ==
    /\ committed \in 0..Events /\ announcing \in 0..committed /\ channel \in Seq(1..committed)
    /\ conn \in ConnType /\ Len(conn.queue) <= QueueSize
    /\ wire \in Seq(0..committed)
    /\ faults \in 0..MaxFaults

\* A page's watermark is in the trail, behind where its stream began; a page that is
\* loading shows nothing, and one that is to read again is reading.
PageType == [pc : {"loading", "connecting", "open", "refused"}, start : 0..committed,
             seen : 0..committed, loadedAt : 0..committed, blind : BOOLEAN, error : BOOLEAN]

PageInv ==
    /\ page \in PageType /\ page.start <= page.seen
    /\ dirty \in BOOLEAN /\ alerts \in Seq(Invalidations)
    /\ page.pc = "loading" => /\ view = NoView /\ reads # <<>> /\ ~ dirty /\ alerts = <<>>
                              /\ page.seen = 0
    /\ dirty => reads # <<>>

\* One request is under way, or none.
OneRead == /\ reads \in Seq(ReadType) /\ Len(reads) = 1
           /\ DOMAIN reads = {1} /\ reads[1] \in ReadType

\* What it has read is in the trail, and not behind the screen.
ViewInv ==
    \/ view = NoView
    \/ /\ view \in [status : 0..committed, timeline : 0..committed]
       /\ view.timeline <= TimelineLimit

ReadInv ==
    /\ reads = <<>> \/ OneRead
    /\ \A i \in DOMAIN reads :
         /\ reads[i].status <= committed /\ reads[i].timeline <= committed
         /\ reads[i].timeline <= TimelineLimit
         /\ reads[i].pc \in {"loaded", "answered"} => view.status <= reads[i].status
         /\ reads[i].pc = "answered" => view.timeline <= reads[i].timeline

StreamInv == ServerInv /\ PageInv /\ ViewInv /\ ReadInv

\* The parts are of the types the module gives its variables.
LEMMA TypesOfInv == StreamInv => TypeOK
<1> SUFFICES ASSUME StreamInv PROVE TypeOK
  OBVIOUS
<1> USE EventsAssumption DEF StreamInv, ServerInv, PageInv, ViewInv, ReadInv
<1>1. 0..committed \subseteq 0..Events /\ 1..committed \subseteq 1..Events
  OBVIOUS
<1>2. channel \in Seq(1..Events) /\ wire \in Seq(0..Events)
  BY <1>1, SeqMonotonic
<1>3. conn.queue \in Seq(1..Events)
  BY <1>1, SeqMonotonic DEF ConnType
<1>4. conn \in [pc : {"none", "replayed", "live"}, seen : 0..Events, queue : Seq(1..Events)]
  BY <1>1, <1>3 DEF ConnType
<1>5. page \in [pc : {"loading", "connecting", "open", "refused"},
                start : 0..Events, seen : 0..Events, loadedAt : 0..Events,
                blind : BOOLEAN, error : BOOLEAN]
  BY <1>1 DEF PageType
<1>6. view \in [status : -1..Events, timeline : -1..Events]
  BY <1>1 DEF NoView
<1>7. reads \in Seq(ReadType)
  BY EmptySeq DEF OneRead
<1> QED BY <1>1, <1>2, <1>4, <1>5, <1>6, <1>7 DEF TypeOK

-----------------------------------------------------------------------------
(* The recorder, the bus and the route *)

LEMMA Dispatched ==
    ASSUME ServerInv, NEW e \in 1..committed, DispatchLocal(e), committed' = committed
    PROVE  conn' \in ConnType' /\ Len(conn'.queue) <= QueueSize
<1> USE EventsAssumption DEF ServerInv, ConnType, DispatchLocal
<1>1. CASE conn.pc = "live" /\ Len(conn.queue) < QueueSize
  <2>1. /\ Append(conn.queue, e) \in Seq(1..committed)
        /\ Len(Append(conn.queue, e)) = Len(conn.queue) + 1 /\ Len(conn.queue) \in Nat
    BY AppendProperties, LenProperties
  <2>2. Len(Append(conn.queue, e)) <= QueueSize
    BY <1>1, <2>1
  <2>3. conn' = [conn EXCEPT !.queue = Append(conn.queue, e)]
    BY <1>1
  <2> QED BY <2>1, <2>2, <2>3
<1>2. CASE ~(conn.pc = "live" /\ Len(conn.queue) < QueueSize)
  BY <1>2
<1> QED BY <1>1, <1>2

\* A new connection, and one that is over.
LEMMA NoConnType ==
    ASSUME ServerInv PROVE NoConn \in ConnType /\ Len(NoConn.queue) = 0
BY EmptySeq, EventsAssumption DEF NoConn, ConnType, ServerInv

LEMMA ServerStep == ASSUME StreamInv, [Next]_vars PROVE ServerInv'
<1> USE EventsAssumption DEF ServerInv
<1>0. ServerInv
  BY DEF StreamInv
<1>1. CASE RecordEvent
  <2>1. /\ committed' = committed + 1 /\ committed < Events /\ announcing' = committed + 1
        /\ UNCHANGED <<channel, conn, wire, faults>>
    BY <1>1 DEF RecordEvent
  <2>2. 0..committed \subseteq 0..committed' /\ 1..committed \subseteq 1..committed'
    BY <1>0, <2>1
  <2>3. channel' \in Seq(1..committed') /\ wire' \in Seq(0..committed')
    BY <1>0, <2>1, <2>2, SeqMonotonic
  <2>4. conn.queue \in Seq(1..committed')
    BY <1>0, <2>2, SeqMonotonic DEF ConnType
  <2>5. conn' \in ConnType'
    BY <1>0, <2>1, <2>2, <2>4 DEF ConnType
  <2> QED BY <1>0, <2>1, <2>3, <2>5
<1>2. CASE Publish
  <2>1. announcing \in 1..committed /\ announcing' = 0
        /\ UNCHANGED <<committed, wire, faults>>
    BY <1>0, <1>2 DEF Publish, pageVars
  <2>2. channel' \in {channel, Append(channel, announcing)}
    BY <1>2 DEF Publish
  <2>6. Append(channel, announcing) \in Seq(1..committed)
    BY <1>0, <2>1, AppendProperties
  <2>3. channel' \in Seq(1..committed)
    BY <1>0, <2>2, <2>6
  <2>4. conn' = conn \/ DispatchLocal(announcing)
    BY <1>2 DEF Publish
  <2>5. conn' \in ConnType' /\ Len(conn'.queue) <= QueueSize
    BY <1>0, <2>1, <2>4, Dispatched DEF ConnType
  <2> QED BY <1>0, <2>1, <2>3, <2>5
<1>3. CASE RedisReader
  <2>1. Head(channel) \in 1..committed /\ Tail(channel) \in Seq(1..committed)
    BY <1>0, <1>3, HeadTailProperties DEF RedisReader
  <2>2. conn' \in ConnType' /\ Len(conn'.queue) <= QueueSize
    BY <1>0, <1>3, <2>1, Dispatched DEF RedisReader
  <2> QED BY <1>0, <1>3, <2>1, <2>2 DEF RedisReader
<1>4. CASE RedisLoses
  <2>1. Tail(channel) \in Seq(1..committed)
    BY <1>0, <1>4, HeadTailProperties DEF RedisLoses
  <2> QED BY <1>0, <1>4, <2>1 DEF RedisLoses, ConnType
<1>5. CASE Replay
  <2> DEFINE last == IF committed > page.start THEN committed ELSE page.start
  <2>1. page.start \in 0..committed
    BY <1>0 DEF StreamInv, PageInv, PageType
  <2>2. last = committed
    BY <1>0, <2>1
  <2>3. conn' = [NoConn EXCEPT !.pc = "replayed", !.seen = committed]
    BY <1>5, <2>2 DEF Replay
  <2>4. conn' \in ConnType' /\ Len(conn'.queue) <= QueueSize
    <3>1. committed' = committed /\ conn'.queue = <<>> /\ conn'.seen = committed
          /\ conn' = [pc |-> "replayed", seen |-> committed, queue |-> <<>>]
      BY <1>5, <2>3 DEF Replay, serverVars, NoConn
    <3>2. <<>> \in Seq(1..committed) /\ Len(<<>>) = 0
      BY EmptySeq
    <3> QED BY <1>0, <3>1, <3>2 DEF ConnType
  <2>5. wire' = [i \in 1..(committed - page.start) |-> page.start + i]
    BY <1>5, <2>2 DEF Replay
  <2>6. committed - page.start \in Nat
        /\ wire' \in [1..(committed - page.start) -> 0..committed]
    BY <1>0, <2>1, <2>5
  <2>7. wire' \in Seq(0..committed)
    BY <2>6, SeqDef
  <2> QED BY <1>0, <1>5, <2>4, <2>7 DEF Replay, serverVars
<1>6. CASE Subscribe
  BY <1>0, <1>6 DEF Subscribe, serverVars, ConnType
<1>7. CASE Forward
  <2>1. Head(conn.queue) \in 1..committed /\ Tail(conn.queue) \in Seq(1..committed)
        /\ Len(Tail(conn.queue)) = Len(conn.queue) - 1 /\ Len(conn.queue) \in Nat
    BY <1>0, <1>7, HeadTailProperties, LenProperties DEF Forward, ConnType
  <2>2. Append(wire, Head(conn.queue)) \in Seq(0..committed)
    BY <1>0, <2>1, AppendProperties
  <2>3. /\ conn' \in {[conn EXCEPT !.queue = Tail(conn.queue)],
                      [conn EXCEPT !.queue = Tail(conn.queue), !.seen = Head(conn.queue)]}
        /\ wire' \in {wire, Append(wire, Head(conn.queue))}
        /\ UNCHANGED <<committed, announcing, channel, faults>>
    BY <1>7 DEF Forward, serverVars
  <2>4. conn' \in ConnType' /\ conn'.queue = Tail(conn.queue)
    <3>1. conn \in ConnType /\ committed' = committed
      BY <1>0, <2>3
    <3>2. CASE conn' = [conn EXCEPT !.queue = Tail(conn.queue)]
      BY <2>1, <3>1, <3>2 DEF ConnType
    <3>3. CASE conn' = [conn EXCEPT !.queue = Tail(conn.queue), !.seen = Head(conn.queue)]
      <4>1. Head(conn.queue) \in 0..committed
        BY <2>1
      <4> HIDE DEF ServerInv
      <4> QED BY <2>1, <3>1, <3>3, <4>1 DEF ConnType
    <3> QED BY <2>3, <3>2, <3>3
  <2>5. Len(conn'.queue) <= QueueSize
    BY <1>0, <2>1, <2>4
  <2> QED BY <1>0, <2>2, <2>3, <2>4, <2>5
<1>8. CASE KeepAlive
  <2>1. Append(wire, End) \in Seq(0..committed)
    BY <1>0, AppendProperties DEF End
  <2> QED BY <1>0, <1>8, <2>1, NoConnType DEF KeepAlive, serverVars, ConnType
<1>9. CASE OnEvent \/ OnError
  <2>1. wire # <<>> /\ wire' = Tail(wire) /\ UNCHANGED <<serverVars, conn, faults>>
    BY <1>9 DEF OnEvent, OnError
  <2>2. Tail(wire) \in Seq(0..committed)
    BY <1>0, <2>1, HeadTailProperties
  <2> QED BY <1>0, <2>1, <2>2 DEF serverVars, ConnType
<1>10. CASE Restart
  <2>1. Append(wire, End) \in Seq(0..committed)
    BY <1>0, AppendProperties DEF End
  <2>2. <<>> \in Seq(1..committed)
    BY EmptySeq
  <2>3. conn' \in ConnType' /\ Len(conn'.queue) <= QueueSize
    BY <1>0, <1>10, NoConnType DEF Restart, ConnType
  <2>4. wire' \in Seq(0..committed')
    BY <1>0, <1>10, <2>1 DEF Restart
  <2> QED BY <1>0, <1>10, <2>2, <2>3, <2>4 DEF Restart
<1>11. CASE Reading \/ Poll \/ OnDecided \/ UNCHANGED vars
  <2>1. UNCHANGED <<serverVars, conn, wire, faults>>
    BY <1>11 DEF Reading, LoadMission, LoadTimeline, FirstAnswer, Answer, Poll, OnDecided, vars
  <2> QED BY <1>0, <2>1 DEF serverVars, ConnType
<1>12. CASE Refused \/ \E i \in DOMAIN reads : ReadFails(i)
  <2>1. /\ UNCHANGED <<serverVars, conn, wire>>
        /\ faults < MaxFaults /\ faults' = faults + 1
    BY <1>12 DEF Refused, ReadFails
  <2> QED BY <1>0, <2>1 DEF serverVars, ConnType
<1> QED BY <1>1, <1>2, <1>3, <1>4, <1>5, <1>6, <1>7, <1>8, <1>9, <1>10, <1>11, <1>12 DEF Next

-----------------------------------------------------------------------------
(* What becomes of the request *)

LEMMA Reads ==
    ASSUME StreamInv
    PROVE  /\ TypeOK /\ Len(reads) <= 1
           /\ \/ reads = <<>> /\ DOMAIN reads = {}
              \/ reads # <<>> /\ OneRead
           /\ \A i \in DOMAIN reads : i = 1 /\ OneRead /\ reads # <<>>
<1>1. TypeOK
  BY TypesOfInv
<1>2. reads = <<>> \/ OneRead
  BY DEF StreamInv, ReadInv
<1>3. CASE reads = <<>>
  BY <1>1, <1>3
<1>4. CASE OneRead
  <2>1. reads # <<>>
    <3>1. DOMAIN reads # DOMAIN <<>>
      BY <1>4 DEF OneRead
    <3> QED BY <3>1
  <2> QED BY <1>1, <1>4, <2>1 DEF OneRead
<1> QED BY <1>2, <1>3, <1>4

LEMMA ReadUpdated ==
    ASSUME StreamInv, NEW i \in DOMAIN reads, NEW r \in ReadType, reads' = [reads EXCEPT ![i] = r]
    PROVE  OneRead' /\ reads'[1] = r
<1>1. TypeOK /\ Len(reads) <= 1 /\ i = 1 /\ OneRead
  BY Reads
<1>2. reads' \in Seq(ReadType) /\ Len(reads') = 1 /\ reads'[1] = r
  BY <1>1, SetRead
<1>3. DOMAIN reads' = {1}
  BY <1>1 DEF OneRead
<1> QED BY <1>2, <1>3 DEF OneRead

LEMMA LoadMissionEffect ==
    ASSUME StreamInv, NEW i \in DOMAIN reads, LoadMission(i)
    PROVE  /\ OneRead /\ OneRead' /\ reads[1].pc = "sent"
           /\ reads'[1] = [reads[1] EXCEPT !.pc = "loaded", !.status = committed]
<1>1. i = 1 /\ OneRead /\ committed \in 0..Events
  BY Reads DEF StreamInv, ServerInv
<1>2. [reads[1] EXCEPT !.pc = "loaded", !.status = committed] \in ReadType
  BY <1>1 DEF OneRead, ReadType
<1>3. reads' = [reads EXCEPT ![i] = [reads[1] EXCEPT !.pc = "loaded", !.status = committed]]
  BY <1>1 DEF LoadMission
<1> QED BY <1>1, <1>2, <1>3, ReadUpdated DEF LoadMission

LEMMA LoadTimelineEffect ==
    ASSUME StreamInv, NEW i \in DOMAIN reads, LoadTimeline(i)
    PROVE  /\ OneRead /\ OneRead' /\ reads[1].pc = "loaded"
           /\ reads'[1] = [reads[1] EXCEPT !.pc = "answered",
                             !.timeline = IF committed < TimelineLimit THEN committed
                                          ELSE TimelineLimit]
<1> DEFINE last == IF committed < TimelineLimit THEN committed ELSE TimelineLimit
<1>1. i = 1 /\ OneRead /\ committed \in 0..Events
  BY Reads DEF StreamInv, ServerInv
<1>2. last \in 0..Events
  BY <1>1, EventsAssumption
<1>3. reads' = [reads EXCEPT ![i] = [reads[1] EXCEPT !.pc = "answered", !.timeline = last]]
  BY <1>1 DEF LoadTimeline
<1> HIDE DEF last
<1>4. [reads[1] EXCEPT !.pc = "answered", !.timeline = last] \in ReadType
  BY <1>1, <1>2 DEF OneRead, ReadType
<1>5. OneRead' /\ reads'[1] = [reads[1] EXCEPT !.pc = "answered", !.timeline = last]
  BY <1>3, <1>4, ReadUpdated
<1> QED BY <1>1, <1>5 DEF LoadTimeline, last

LEMMA ReadFailsEffect ==
    ASSUME StreamInv, NEW i \in DOMAIN reads, ReadFails(i)
    PROVE  OneRead /\ OneRead' /\ reads'[1] = [reads[1] EXCEPT !.pc = "failed"]
<1>1. i = 1 /\ OneRead
  BY Reads
<1>2. [reads[1] EXCEPT !.pc = "failed"] \in ReadType
  BY <1>1 DEF OneRead, ReadType
<1>3. reads' = [reads EXCEPT ![i] = [reads[1] EXCEPT !.pc = "failed"]]
  BY <1>1 DEF ReadFails
<1> QED BY <1>1, <1>2, <1>3, ReadUpdated

\* An answer leaves no request, or a new one if there is something to read again.
LEMMA FirstAnswerEffect ==
    ASSUME StreamInv, NEW i \in DOMAIN reads, FirstAnswer(i)
    PROVE  OneRead /\ i = 1 /\ reads' = <<>>
BY Reads, OnlyRead DEF FirstAnswer

LEMMA AnswerEffect ==
    ASSUME StreamInv, NEW i \in DOMAIN reads, Answer(i)
    PROVE  /\ OneRead /\ i = 1
           /\ \/ ~ dirty /\ reads' = <<>>
              \/ dirty /\ OneRead' /\ reads'[1] = NewRead
<1>1. i = 1 /\ OneRead /\ RemoveAt(reads, i) = <<>>
  BY Reads, OnlyRead
<1>2. CASE dirty
  <2>1. reads' = <<NewRead>>
    BY <1>1, <1>2, OneNewRead DEF Answer
  <2>2. OneRead' /\ reads'[1] = NewRead
    <3>1. NewRead \in ReadType
      BY EventsAssumption DEF NewRead, ReadType
    <3>2. DOMAIN reads' = {1}
      BY <2>1
    <3> QED BY <2>1, <3>1, <3>2, OneNewRead DEF OneRead
  <2> QED BY <1>1, <1>2, <2>2
<1>3. CASE ~ dirty
  BY <1>1, <1>3 DEF Answer
<1> QED BY <1>2, <1>3

\* Coalesce, never drop: there is a request under way, and it is the last one.
LEMMA RefreshEffect ==
    ASSUME StreamInv, Refresh
    PROVE  \/ reads # <<>> /\ dirty' = TRUE /\ reads' = reads
           \/ reads = <<>> /\ OneRead' /\ reads'[1] = NewRead /\ dirty' = dirty
<1>1. CASE reads # <<>>
  BY <1>1 DEF Refresh
<1>2. CASE reads = <<>>
  <2>1. reads' = <<NewRead>> /\ dirty' = dirty
    BY <1>2 DEF Refresh
  <2>2. NewRead \in ReadType
    BY EventsAssumption DEF NewRead, ReadType
  <2>3. DOMAIN reads' = {1}
    BY <2>1
  <2> QED BY <1>2, <2>1, <2>2, <2>3, OneNewRead DEF OneRead
<1> QED BY <1>1, <1>2

\* A request that is not answered dies with the API.
LEMMA RestartEffect ==
    ASSUME StreamInv, Restart
    PROVE  \/ reads = <<>> /\ reads' = <<>>
           \/ /\ OneRead /\ OneRead'
              /\ reads'[1] = IF reads[1].pc = "answered" THEN reads[1]
                             ELSE [reads[1] EXCEPT !.pc = "failed"]
<1>1. reads' = [i \in DOMAIN reads |-> IF reads[i].pc = "answered" THEN reads[i]
                                        ELSE [reads[i] EXCEPT !.pc = "failed"]]
  BY DEF Restart
<1>2. CASE reads = <<>>
  <2>1. DOMAIN reads = {} /\ reads' = [i \in {} |-> 0]
    BY <1>1, <1>2
  <2>2. <<>> = [i \in {} |-> 0]
    OBVIOUS
  <2> QED BY <1>2, <2>1, <2>2
<1>3. CASE OneRead
  <2> DEFINE r == IF reads[1].pc = "answered" THEN reads[1] ELSE [reads[1] EXCEPT !.pc = "failed"]
  <2>1. r \in ReadType
    BY <1>3 DEF OneRead, ReadType
  <2>2. reads' = [reads EXCEPT ![1] = r] /\ 1 \in DOMAIN reads
    BY <1>1, <1>3 DEF OneRead
  <2> HIDE DEF r
  <2>3. OneRead' /\ reads'[1] = r
    BY <2>1, <2>2, ReadUpdated
  <2> QED BY <1>3, <2>3 DEF r
<1> QED BY <1>2, <1>3, Reads

\* A request that nobody touches.
LEMMA SameRead ==
    ASSUME StreamInv, UNCHANGED reads PROVE reads' = <<>> \/ OneRead'
BY Reads DEF OneRead

-----------------------------------------------------------------------------
(* The page *)

\* The watermark stays in the trail.
LEMMA PageTypeStep ==
    ASSUME StreamInv, [Next]_vars
    PROVE  page' \in PageType' /\ page'.start <= page'.seen /\ committed <= committed'
<1> USE EventsAssumption
<1>0. /\ page \in PageType /\ page.start <= page.seen
      /\ committed \in 0..Events /\ wire \in Seq(0..committed)
  BY DEF StreamInv, ServerInv, PageInv
<1>1. CASE RecordEvent
  <2>1. 0..committed \subseteq 0..(committed + 1)
    BY <1>0
  <2> QED BY <1>0, <1>1, <2>1 DEF RecordEvent, pageVars, PageType
<1>2. CASE Replay
  BY <1>0, <1>2 DEF Replay, serverVars, PageType
<1>3. ASSUME NEW i \in DOMAIN reads, LoadTimeline(i)
      PROVE  page' \in PageType' /\ page'.start <= page'.seen /\ committed <= committed'
  <2>1. /\ page' = page \/ page' = [page EXCEPT !.loadedAt = committed]
        /\ committed' = committed
    BY <1>3 DEF LoadTimeline, serverVars
  <2>2. [page EXCEPT !.loadedAt = committed] \in PageType
    BY <1>0 DEF PageType
  <2> QED BY <1>0, <2>1, <2>2 DEF PageType
<1>4. ASSUME NEW i \in DOMAIN reads, FirstAnswer(i)
      PROVE  page' \in PageType' /\ page'.start <= page'.seen /\ committed <= committed'
  <2> DEFINE start == IF reads[i].pc = "failed" THEN 0 ELSE reads[i].timeline
             failed == reads[i].pc = "failed"
  <2>1. start \in 0..committed
    BY <1>0, Reads DEF StreamInv, ReadInv, OneRead, ReadType
  <2>2. page' = [page EXCEPT !.pc = "connecting", !.start = start, !.seen = start,
                   !.blind = failed, !.error = failed]
    BY <1>4 DEF FirstAnswer
  <2>3. failed \in BOOLEAN /\ committed' = committed
    BY <1>4 DEF FirstAnswer, serverVars
  <2> HIDE DEF start, failed
  <2>4. [page EXCEPT !.pc = "connecting", !.start = start, !.seen = start,
                     !.blind = failed, !.error = failed] \in PageType
    BY <1>0, <2>1, <2>3 DEF PageType
  <2>5. page'.start = start /\ page'.seen = start
    BY <1>0, <2>2 DEF PageType
  <2> QED BY <1>0, <2>1, <2>2, <2>3, <2>4, <2>5 DEF PageType
<1>5. ASSUME NEW i \in DOMAIN reads, Answer(i)
      PROVE  page' \in PageType' /\ page'.start <= page'.seen /\ committed <= committed'
  <2> DEFINE failed == reads[i].pc = "failed"
  <2>1. page' = [page EXCEPT !.error = failed]
    BY <1>5 DEF Answer
  <2>2. failed \in BOOLEAN /\ committed' = committed
    BY <1>5 DEF Answer, serverVars
  <2> HIDE DEF failed
  <2>3. [page EXCEPT !.error = failed] \in PageType
    BY <1>0, <2>2 DEF PageType
  <2>4. page'.start = page.start /\ page'.seen = page.seen
    BY <1>0, <2>1 DEF PageType
  <2> QED BY <1>0, <2>1, <2>2, <2>3, <2>4 DEF PageType
<1>6. CASE OnEvent
  <2>1. Head(wire) \in 0..committed
    BY <1>0, <1>6, HeadTailProperties DEF OnEvent
  <2>2. /\ \/ page' = page
           \/ /\ Head(wire) > page.seen
              /\ page' = [page EXCEPT !.seen = Head(wire)]
        /\ committed' = committed
    BY <1>0, <1>6, <2>1 DEF OnEvent, serverVars, PageType
  <2>3. [page EXCEPT !.seen = Head(wire)] \in PageType
    BY <1>0, <2>1 DEF PageType
  <2>4. page'.start = page.start /\ page'.seen >= page.seen
    BY <1>0, <2>1, <2>2 DEF PageType
  <2> QED BY <1>0, <2>1, <2>2, <2>3, <2>4 DEF PageType
<1>7. CASE OnError
  <2>1. page' = [page EXCEPT !.pc = "connecting"] /\ committed' = committed
    BY <1>7 DEF OnError, serverVars
  <2>2. [page EXCEPT !.pc = "connecting"] \in PageType
    BY <1>0 DEF PageType
  <2> QED BY <1>0, <2>1, <2>2 DEF PageType
<1>8. CASE Refused
  BY <1>0, <1>8 DEF Refused, serverVars, PageType
<1>9. ASSUME \/ Publish \/ RedisReader \/ RedisLoses \/ Subscribe \/ Forward \/ KeepAlive
             \/ (\E i \in DOMAIN reads : LoadMission(i) \/ ReadFails(i))
             \/ Poll \/ OnDecided \/ Restart \/ UNCHANGED vars
      PROVE  page' \in PageType' /\ page'.start <= page'.seen /\ committed <= committed'
  <2>1. page' = page /\ committed' = committed
    BY <1>9 DEF Publish, RedisReader, RedisLoses, Subscribe, Forward, KeepAlive, LoadMission,
                ReadFails, Poll, OnDecided, Restart, vars, pageVars, serverVars
  <2> QED BY <1>0, <2>1 DEF PageType
<1> QED BY <1>1, <1>2, <1>3, <1>4, <1>5, <1>6, <1>7, <1>8, <1>9 DEF Next, Reading

\* What is read lies between the screen and the trail.
LEMMA ReadStep == ASSUME StreamInv, [Next]_vars PROVE ReadInv' /\ ViewInv'
<1> USE EventsAssumption
<1>0. /\ ViewInv /\ ReadInv /\ committed \in 0..Events /\ committed' \in 0..Events
      /\ committed <= committed'
  BY PageTypeStep, ServerStep DEF StreamInv, ServerInv
<1>1. ASSUME NEW i \in DOMAIN reads, LoadMission(i) PROVE ReadInv' /\ ViewInv'
  <2>1. /\ OneRead /\ OneRead' /\ reads[1].pc = "sent"
        /\ reads'[1] = [reads[1] EXCEPT !.pc = "loaded", !.status = committed]
    BY <1>1, LoadMissionEffect
  <2>2. view' = view /\ committed' = committed
    BY <1>1 DEF LoadMission, serverVars
  <2>3. view.status <= committed
    BY <1>0 DEF ViewInv, NoView
  <2> QED BY <1>0, <2>1, <2>2, <2>3 DEF ReadInv, ViewInv, OneRead, ReadType
<1>2. ASSUME NEW i \in DOMAIN reads, LoadTimeline(i) PROVE ReadInv' /\ ViewInv'
  <2> DEFINE last == IF committed < TimelineLimit THEN committed ELSE TimelineLimit
  <2>1. /\ OneRead /\ OneRead' /\ reads[1].pc = "loaded"
        /\ reads'[1] = [reads[1] EXCEPT !.pc = "answered", !.timeline = last]
    BY <1>2, LoadTimelineEffect
  <2>2. view' = view /\ committed' = committed
    BY <1>2 DEF LoadTimeline, serverVars
  <2>3. view.timeline <= last /\ last <= committed /\ last <= TimelineLimit
    BY <1>0 DEF ViewInv, NoView
  <2> HIDE DEF last
  <2> QED BY <1>0, <2>1, <2>2, <2>3 DEF ReadInv, ViewInv, OneRead, ReadType
<1>3. ASSUME NEW i \in DOMAIN reads, ReadFails(i) PROVE ReadInv' /\ ViewInv'
  <2>1. OneRead /\ OneRead' /\ reads'[1] = [reads[1] EXCEPT !.pc = "failed"]
    BY <1>3, ReadFailsEffect
  <2>2. view' = view /\ committed' = committed
    BY <1>3 DEF ReadFails, serverVars
  <2> QED BY <1>0, <2>1, <2>2 DEF ReadInv, ViewInv, OneRead, ReadType
<1>4. ASSUME NEW i \in DOMAIN reads, FirstAnswer(i) \/ Answer(i) PROVE ReadInv' /\ ViewInv'
  <2>1. /\ OneRead /\ i = 1 /\ committed' = committed
        /\ reads' = <<>> \/ (OneRead' /\ reads'[1] = NewRead)
    BY <1>4, FirstAnswerEffect, AnswerEffect DEF FirstAnswer, Answer, serverVars
  <2>2. view' = IF reads[1].pc = "answered"
                THEN [status |-> reads[1].status, timeline |-> reads[1].timeline] ELSE view
    BY <1>4, <2>1 DEF FirstAnswer, Answer, Shows
  <2>3. ViewInv'
    BY <1>0, <2>1, <2>2 DEF ViewInv, ReadInv, OneRead, ReadType
  <2>4. ReadInv'
    BY <1>0, <2>1 DEF ReadInv, OneRead, NewRead
  <2> QED BY <2>3, <2>4
<1>5. ASSUME Refresh, view' = view, committed' = committed PROVE ReadInv' /\ ViewInv'
  <2>1. reads' = reads \/ (OneRead' /\ reads'[1] = NewRead)
    BY <1>5, RefreshEffect
  <2> QED BY <1>0, <1>5, <2>1 DEF ReadInv, ViewInv, OneRead, NewRead
<1>6. ASSUME UNCHANGED <<view, reads>> PROVE ReadInv' /\ ViewInv'
  <2>1. ViewInv'
    BY <1>0, <1>6 DEF ViewInv
  <2>2. ReadInv'
    BY <1>0, <1>6 DEF ReadInv, OneRead, ReadType
  <2> QED BY <2>1, <2>2
<1>7. CASE Restart
  <2>1. \/ reads = <<>> /\ reads' = <<>>
        \/ /\ OneRead /\ OneRead'
           /\ reads'[1] = IF reads[1].pc = "answered" THEN reads[1]
                          ELSE [reads[1] EXCEPT !.pc = "failed"]
    BY <1>7, RestartEffect
  <2>2. view' = view /\ committed' = committed
    BY <1>7 DEF Restart
  <2> QED BY <1>0, <2>1, <2>2 DEF ReadInv, ViewInv, OneRead, ReadType
<1>8. ASSUME \/ RecordEvent \/ Publish \/ RedisReader \/ RedisLoses \/ Replay \/ Subscribe
             \/ Forward \/ KeepAlive \/ OnError \/ Refused \/ UNCHANGED vars
      PROVE  UNCHANGED <<view, reads>>
  BY <1>8 DEF RecordEvent, Publish, RedisReader, RedisLoses, Replay, Subscribe, Forward,
              KeepAlive, OnError, Refused, vars, pageVars, serverVars
<1>9. CASE OnEvent
  <2>1. view' = view /\ committed' = committed
    BY <1>9 DEF OnEvent, serverVars
  <2>2. Refresh \/ UNCHANGED reads
    BY <1>9 DEF OnEvent
  <2> QED BY <1>5, <1>6, <2>1, <2>2
<1>10. CASE Poll \/ OnDecided
  BY <1>5, <1>10 DEF Poll, OnDecided, serverVars
<1> QED BY <1>1, <1>2, <1>3, <1>4, <1>6, <1>7, <1>8, <1>9, <1>10 DEF Next, Reading

LEMMA NonEmpty == ASSUME NEW s, DOMAIN s = {1} PROVE s # <<>>
OBVIOUS

\* A page that is loading has been told nothing, and what it is to read again it reads.
LEMMA PageStep == ASSUME StreamInv, [Next]_vars PROVE PageInv'
<1> DEFINE Rest == /\ dirty' \in BOOLEAN /\ alerts' \in Seq(Invalidations)
                   /\ page'.pc = "loading" =>
                        /\ view' = NoView /\ reads' # <<>> /\ ~ dirty' /\ alerts' = <<>>
                        /\ page'.seen = 0
                   /\ dirty' => reads' # <<>>
<1> SUFFICES Rest
  BY PageTypeStep DEF PageInv
<1>0. /\ page \in PageType /\ dirty \in BOOLEAN /\ alerts \in Seq(Invalidations)
      /\ page.pc = "loading" => /\ view = NoView /\ reads # <<>> /\ ~ dirty /\ alerts = <<>>
                                /\ page.seen = 0
      /\ dirty => reads # <<>>
  BY DEF StreamInv, PageInv
<1>1. ASSUME NEW i \in DOMAIN reads, LoadMission(i) \/ LoadTimeline(i) \/ ReadFails(i)
      PROVE  Rest
  <2>1. OneRead' /\ reads # <<>>
    BY <1>1, LoadMissionEffect, LoadTimelineEffect, ReadFailsEffect, Reads
  <2>2. reads' # <<>>
    BY <2>1, NonEmpty DEF OneRead
  <2>3. /\ UNCHANGED <<view, dirty, alerts>>
        /\ page' = page \/ page' = [page EXCEPT !.loadedAt = committed]
    BY <1>1 DEF LoadMission, LoadTimeline, ReadFails
  <2>4. page'.pc = page.pc /\ page'.seen = page.seen
    BY <1>0, <2>3 DEF PageType
  <2> QED BY <1>0, <2>2, <2>3, <2>4
<1>2. ASSUME NEW i \in DOMAIN reads, FirstAnswer(i) PROVE Rest
  <2>1. /\ page.pc = "loading" /\ dirty' = dirty /\ alerts' = alerts
    BY <1>2 DEF FirstAnswer
  <2>2. page'.pc = "connecting"
    BY <1>0, <1>2 DEF FirstAnswer, PageType
  <2> QED BY <1>0, <2>1, <2>2
<1>3. ASSUME NEW i \in DOMAIN reads, Answer(i) PROVE Rest
  <2>1. page.pc # "loading" /\ dirty' = FALSE /\ alerts' = alerts
        /\ page' = [page EXCEPT !.error = reads[i].pc = "failed"]
    BY <1>3 DEF Answer
  <2>2. page'.pc = page.pc
    BY <1>0, <2>1 DEF PageType
  <2> QED BY <1>0, <2>1, <2>2
<1>4. ASSUME Refresh, page.pc # "loading", page'.pc = page.pc, alerts' \in Seq(Invalidations)
      PROVE  Rest
  <2>1. \/ reads # <<>> /\ dirty' = TRUE /\ reads' = reads
        \/ reads = <<>> /\ OneRead' /\ reads'[1] = NewRead /\ dirty' = dirty
    BY <1>4, RefreshEffect
  <2>2. CASE reads # <<>> /\ dirty' = TRUE /\ reads' = reads
    BY <1>4, <2>2
  <2>3. CASE reads = <<>> /\ OneRead' /\ dirty' = dirty
    <3>1. reads' # <<>>
      BY <2>3, NonEmpty DEF OneRead
    <3> QED BY <1>0, <1>4, <2>3, <3>1
  <2> QED BY <2>1, <2>2, <2>3
<1>5. CASE OnEvent
  <2>1. page.pc = "open"
    BY <1>5 DEF OnEvent
  <2>2. CASE UNCHANGED <<page, reads, dirty, alerts>>
    BY <1>0, <2>1, <2>2
  <2>3. CASE /\ page' = [page EXCEPT !.seen = Head(wire)] /\ Refresh
             /\ alerts' = IF Head(wire) \in Invalidations THEN Append(alerts, Head(wire)) ELSE alerts
    <3>1. page'.pc = page.pc
      BY <1>0, <2>3 DEF PageType
    <3>2. alerts' \in Seq(Invalidations)
      BY <1>0, <2>3, AppendProperties
    <3> QED BY <1>4, <2>1, <2>3, <3>1, <3>2
  <2> QED BY <1>5, <2>2, <2>3 DEF OnEvent
<1>6. CASE Poll \/ OnDecided
  <2>1. page.pc # "loading" /\ Refresh /\ page' = page /\ alerts' = alerts
    BY <1>0, <1>6 DEF Poll, OnDecided
  <2> QED BY <1>0, <1>4, <2>1
<1>7. CASE Replay \/ OnError \/ Refused
  <2>1. /\ UNCHANGED <<view, reads, dirty, alerts>>
        /\ page'.pc # "loading"
    BY <1>0, <1>7 DEF Replay, OnError, Refused, PageType
  <2> QED BY <1>0, <2>1
<1>8. CASE Restart
  <2>1. UNCHANGED <<page, view, dirty, alerts>>
    BY <1>8 DEF Restart
  <2>2. reads # <<>> => OneRead'
    BY <1>8, RestartEffect
  <2>3. reads # <<>> => reads' # <<>>
    BY <2>2, NonEmpty DEF OneRead
  <2> QED BY <1>0, <2>1, <2>3
<1>9. CASE \/ RecordEvent \/ Publish \/ RedisReader \/ RedisLoses \/ Subscribe \/ Forward
           \/ KeepAlive \/ UNCHANGED vars
  <2>1. UNCHANGED <<page, view, reads, dirty, alerts>>
    BY <1>9 DEF RecordEvent, Publish, RedisReader, RedisLoses, Subscribe, Forward, KeepAlive,
                vars, pageVars
  <2> QED BY <1>0, <2>1
<1> QED BY <1>1, <1>2, <1>3, <1>5, <1>6, <1>7, <1>8, <1>9 DEF Next, Reading

LEMMA StreamInit == Init => StreamInv
<1> SUFFICES ASSUME Init PROVE StreamInv
  OBVIOUS
<1> USE EventsAssumption DEF Init
<1>1. /\ <<>> \in Seq(1..committed) /\ <<>> \in Seq(0..committed) /\ <<>> \in Seq(Invalidations)
      /\ Len(<<>>) = 0
  BY EmptySeq
<1>2. ServerInv
  BY <1>1 DEF ServerInv, NoConn, ConnType
<1>3. reads # <<>>
  OBVIOUS
<1>4. page \in PageType /\ page.start <= page.seen /\ page.seen = 0
  BY DEF PageType
<1>5. PageInv
  BY <1>1, <1>3, <1>4 DEF PageInv
<1>6. NewRead \in ReadType /\ DOMAIN reads = {1}
  BY DEF NewRead, ReadType
<1>7. OneRead
  BY <1>6, OneNewRead DEF OneRead
<1>8. ReadInv
  BY <1>7 DEF ReadInv, OneRead, NewRead
<1> QED BY <1>2, <1>5, <1>8 DEF StreamInv, ViewInv

LEMMA StreamInductive == Spec => []StreamInv
<1>1. StreamInv /\ [Next]_vars => StreamInv'
  BY ServerStep, PageStep, ReadStep DEF StreamInv
<1> QED BY <1>1, StreamInit, PTL DEF Spec

-----------------------------------------------------------------------------
(* The screen and the overlay: of a trail that fits the aggregate *)

\* Nothing is to be read again after the request under way.
Awaited == page.pc # "loading" /\ ~ dirty

\* The last request to be sent has read what the page was told before it was sent.
NewsInv ==
    \A i \in DOMAIN reads :
        /\ Awaited /\ reads[i].pc = "answered" => reads[i].timeline >= page.seen
        /\ Awaited /\ reads[i].pc \in {"loaded", "answered"} /\ page.seen > page.start =>
             reads[i].status >= page.seen
        /\ page.pc = "loading" /\ reads[i].pc = "answered" => reads[i].timeline = page.loadedAt

\* The overlay is raised in the order of the trail, no further than the watermark, and not
\* before where the stream of a page that was loaded began.
AlertInv ==
    /\ page.pc # "loading" /\ ~ page.blind => page.loadedAt <= page.start
    /\ \A i \in DOMAIN alerts :
         /\ alerts[i] <= page.seen
         /\ ~ page.blind => alerts[i] > page.loadedAt
         /\ i > 1 => alerts[i] > alerts[i - 1]

ScreenInv == StreamInv /\ NewsInv /\ ScreenIsNeverBehind

\* Whatever is refreshed, the request that is answered last was sent last.
LEMMA ScreenStep ==
    ASSUME TrailFits, ScreenInv, [Next]_vars
    PROVE  NewsInv' /\ ScreenIsNeverBehind'
<1> DEFINE Good == NewsInv' /\ ScreenIsNeverBehind'
<1> SUFFICES Good
  OBVIOUS
<1> USE EventsAssumption
<1>0. /\ StreamInv /\ NewsInv /\ ScreenIsNeverBehind /\ page \in PageType
      /\ committed \in 0..Events /\ page.seen \in 0..committed /\ page.start \in 0..committed
  BY DEF ScreenInv, StreamInv, ServerInv, PageInv, PageType
<1>1. ASSUME NEW i \in DOMAIN reads, LoadMission(i) PROVE Good
  <2>1. /\ OneRead /\ OneRead' /\ page' = page /\ dirty' = dirty
        /\ reads'[1] = [reads[1] EXCEPT !.pc = "loaded", !.status = committed]
    BY <1>0, <1>1, LoadMissionEffect DEF LoadMission
  <2>2. reads'[1].pc = "loaded" /\ reads'[1].status = committed
    BY <2>1 DEF OneRead, ReadType
  <2>3. ScreenIsNeverBehind'
    BY <2>1, NonEmpty DEF OneRead, ScreenIsNeverBehind
  <2>4. committed >= page.seen /\ DOMAIN reads' = {1}
    BY <1>0, <2>1 DEF OneRead
  <2>5. NewsInv'
    BY <2>1, <2>2, <2>4 DEF NewsInv
  <2> QED BY <2>3, <2>5
<1>2. ASSUME NEW i \in DOMAIN reads, LoadTimeline(i) PROVE Good
  <2>1. /\ OneRead /\ OneRead' /\ reads[1].pc = "loaded" /\ dirty' = dirty
        /\ reads'[1] = [reads[1] EXCEPT !.pc = "answered",
                          !.timeline = IF committed < TimelineLimit THEN committed
                                       ELSE TimelineLimit]
    BY <1>0, <1>2, LoadTimelineEffect DEF LoadTimeline
  <2>2. (IF committed < TimelineLimit THEN committed ELSE TimelineLimit) = committed
    BY <1>0 DEF TrailFits
  <2>3. /\ reads'[1].pc = "answered" /\ reads'[1].timeline = committed
        /\ reads'[1].status = reads[1].status
    BY <2>1, <2>2 DEF OneRead, ReadType
  <2>4. /\ page'.pc = page.pc /\ page'.seen = page.seen /\ page'.start = page.start
        /\ page.pc = "loading" => page'.loadedAt = committed
    BY <1>0, <1>2 DEF LoadTimeline, PageType
  <2>6. committed >= page.seen /\ DOMAIN reads' = {1} /\ DOMAIN reads = {1}
    BY <1>0, <2>1 DEF OneRead
  <2>7. Awaited /\ page.seen > page.start => reads[1].status >= page.seen
    BY <1>0, <2>1, <2>6 DEF NewsInv
  <2>8. Awaited' <=> Awaited
    BY <2>1, <2>4 DEF Awaited
  <2>5. NewsInv'
    BY <2>3, <2>4, <2>6, <2>7, <2>8 DEF NewsInv
  <2> QED BY <2>1, <2>5, NonEmpty DEF OneRead, ScreenIsNeverBehind
<1>3. ASSUME NEW i \in DOMAIN reads, ReadFails(i) PROVE Good
  <2>1. OneRead /\ OneRead' /\ reads'[1] = [reads[1] EXCEPT !.pc = "failed"]
    BY <1>0, <1>3, ReadFailsEffect
  <2>2. reads'[1].pc = "failed"
    BY <2>1 DEF OneRead, ReadType
  <2>3. NewsInv'
    BY <2>1, <2>2 DEF NewsInv, OneRead
  <2> QED BY <2>1, <2>3, NonEmpty DEF OneRead, ScreenIsNeverBehind
<1>4. ASSUME NEW i \in DOMAIN reads, FirstAnswer(i) PROVE Good
  <2>1. OneRead /\ i = 1 /\ reads' = <<>>
    BY <1>0, <1>4, FirstAnswerEffect
  <2>2. NewsInv'
    BY <2>1 DEF NewsInv
  <2>3. CASE reads[1].pc = "failed"
    <3>1. view = NoView /\ view' = view
      BY <1>0, <1>4, <2>1, <2>3 DEF FirstAnswer, Shows, StreamInv, PageInv
    <3> QED BY <2>2, <3>1 DEF ScreenIsNeverBehind
  <2>4. CASE reads[1].pc = "answered"
    <3>1. /\ view'.timeline = reads[1].timeline
          /\ page'.seen = reads[1].timeline /\ page'.start = reads[1].timeline
      BY <1>0, <1>4, <2>1, <2>4 DEF FirstAnswer, Shows, PageType
    <3>2. reads[1].timeline \in Nat
      BY <2>1 DEF OneRead, ReadType
    <3> QED BY <2>2, <3>1, <3>2 DEF ScreenIsNeverBehind
  <2> QED BY <1>4, <2>1, <2>3, <2>4 DEF FirstAnswer
<1>5. ASSUME NEW i \in DOMAIN reads, Answer(i) PROVE Good
  <2>1. /\ OneRead /\ i = 1
        /\ \/ ~ dirty /\ reads' = <<>>
           \/ dirty /\ OneRead' /\ reads'[1] = NewRead
    BY <1>0, <1>5, AnswerEffect
  <2>2. CASE dirty /\ OneRead' /\ reads'[1] = NewRead
    <3>1. NewsInv'
      <4>1. page.pc # "loading" /\ page'.pc = page.pc
        BY <1>0, <1>5 DEF Answer, PageType
      <4> QED BY <2>2, <4>1 DEF NewsInv, OneRead, NewRead
    <3> QED BY <2>2, <3>1, NonEmpty DEF OneRead, ScreenIsNeverBehind
  <2>3. CASE ~ dirty /\ reads' = <<>>
    <3>1. NewsInv'
      BY <2>3 DEF NewsInv
    <3>2. /\ page.pc # "loading" /\ reads[1].pc \in {"answered", "failed"}
          /\ page' = [page EXCEPT !.error = reads[1].pc = "failed"]
          /\ view' = IF reads[1].pc = "answered"
                     THEN [status |-> reads[1].status, timeline |-> reads[1].timeline] ELSE view
      BY <1>5, <2>1 DEF Answer, Shows
    <3>3. /\ page'.seen = page.seen /\ page'.start = page.start
          /\ page'.error <=> reads[1].pc = "failed"
      BY <1>0, <3>2 DEF PageType
    <3>4. reads[1].pc = "answered" =>
            /\ reads[1].timeline >= page.seen
            /\ page.seen > page.start => reads[1].status >= page.seen
      BY <1>0, <2>1, <2>3, <3>2 DEF NewsInv, Awaited, OneRead
    <3> QED BY <3>1, <3>2, <3>3, <3>4 DEF ScreenIsNeverBehind
  <2> QED BY <2>1, <2>2, <2>3
<1>6. ASSUME Refresh, page.pc # "loading", page'.pc = page.pc PROVE Good
  <2>1. \/ reads # <<>> /\ dirty' = TRUE /\ reads' = reads
        \/ reads = <<>> /\ OneRead' /\ reads'[1] = NewRead /\ dirty' = dirty
    BY <1>0, <1>6, RefreshEffect
  <2>2. CASE reads # <<>> /\ dirty' = TRUE /\ reads' = reads
    BY <1>6, <2>2 DEF NewsInv, Awaited, ScreenIsNeverBehind
  <2>3. CASE OneRead' /\ reads'[1] = NewRead
    <3>1. NewsInv'
      BY <1>6, <2>3 DEF NewsInv, OneRead, NewRead
    <3> QED BY <2>3, <3>1, NonEmpty DEF OneRead, ScreenIsNeverBehind
  <2> QED BY <2>1, <2>2, <2>3
<1>7. ASSUME UNCHANGED <<view, reads, dirty>>, page'.seen = page.seen, page'.start = page.start,
             page'.error = page.error, page'.loadedAt = page.loadedAt,
             page'.pc = "loading" <=> page.pc = "loading"
      PROVE  Good
  BY <1>0, <1>7 DEF NewsInv, Awaited, ScreenIsNeverBehind
<1>8. CASE OnEvent
  <2>1. page.pc = "open"
    BY <1>8 DEF OnEvent
  <2>2. CASE UNCHANGED <<page, reads, dirty, alerts>>
    BY <1>7, <1>8, <2>2 DEF OnEvent
  <2>3. CASE page' = [page EXCEPT !.seen = Head(wire)] /\ Refresh
    <3>1. page'.pc = page.pc
      BY <1>0, <2>3 DEF PageType
    <3> QED BY <1>6, <2>1, <2>3, <3>1
  <2> QED BY <1>8, <2>2, <2>3 DEF OnEvent
<1>9. CASE Poll \/ OnDecided
  <2>1. page.pc # "loading" /\ Refresh /\ page' = page
    BY <1>0, <1>9 DEF Poll, OnDecided, StreamInv, PageInv
  <2> QED BY <1>6, <2>1
<1>10. CASE Replay \/ OnError \/ Refused
  <2>1. /\ UNCHANGED <<view, reads, dirty>> /\ page.pc # "loading"
        /\ \E pc \in {"open", "connecting", "refused"} : page' = [page EXCEPT !.pc = pc]
    BY <1>10 DEF Replay, OnError, Refused
  <2>2. /\ page'.pc # "loading" /\ page'.seen = page.seen /\ page'.start = page.start
        /\ page'.error = page.error /\ page'.loadedAt = page.loadedAt
    BY <1>0, <2>1 DEF PageType
  <2> QED BY <1>7, <2>1, <2>2
<1>11. CASE Restart
  <2>1. UNCHANGED <<page, view, dirty>>
    BY <1>11 DEF Restart
  <2>2. \/ reads = <<>> /\ reads' = <<>>
        \/ /\ OneRead /\ OneRead'
           /\ reads'[1] = IF reads[1].pc = "answered" THEN reads[1]
                          ELSE [reads[1] EXCEPT !.pc = "failed"]
    BY <1>0, <1>11, RestartEffect
  <2>3. CASE reads = <<>> /\ reads' = <<>>
    BY <1>7, <2>1, <2>3
  <2>4. CASE OneRead /\ OneRead' /\ reads'[1] = reads[1]
    <3>1. NewsInv'
      BY <1>0, <2>1, <2>4 DEF NewsInv, OneRead, Awaited
    <3> QED BY <2>4, <3>1, NonEmpty DEF OneRead, ScreenIsNeverBehind
  <2>5. CASE OneRead /\ OneRead' /\ reads'[1] = [reads[1] EXCEPT !.pc = "failed"]
    <3>1. reads'[1].pc = "failed"
      BY <2>5 DEF OneRead, ReadType
    <3>2. NewsInv'
      BY <2>5, <3>1 DEF NewsInv, OneRead
    <3> QED BY <2>5, <3>2, NonEmpty DEF OneRead, ScreenIsNeverBehind
  <2> QED BY <2>2, <2>3, <2>4, <2>5
<1>12. CASE \/ RecordEvent \/ Publish \/ RedisReader \/ RedisLoses \/ Subscribe \/ Forward
            \/ KeepAlive \/ UNCHANGED vars
  <2>1. UNCHANGED <<page, view, reads, dirty>>
    BY <1>12 DEF RecordEvent, Publish, RedisReader, RedisLoses, Subscribe, Forward, KeepAlive,
                 vars, pageVars
  <2> QED BY <1>7, <2>1
<1> QED BY <1>1, <1>2, <1>3, <1>4, <1>5, <1>8, <1>9, <1>10, <1>11, <1>12 DEF Next, Reading

LEMMA AlertStep ==
    ASSUME TrailFits, ScreenInv, AlertInv, [Next]_vars
    PROVE  AlertInv'
<1> USE EventsAssumption
<1>0. /\ StreamInv /\ AlertInv /\ page \in PageType /\ page.start <= page.seen
      /\ alerts \in Seq(Invalidations) /\ Invalidations \subseteq 1..Events
      /\ page.pc = "loading" => alerts = <<>> /\ page.seen = 0
      /\ committed \in 0..Events
      /\ page.seen \in 0..committed /\ page.start \in 0..committed /\ page.loadedAt \in 0..committed
  BY DEF ScreenInv, StreamInv, ServerInv, PageInv, PageType
<1>1. ASSUME UNCHANGED alerts, page'.seen = page.seen, page'.start = page.start,
             page'.blind = page.blind, page'.loadedAt = page.loadedAt,
             page'.pc = "loading" <=> page.pc = "loading"
      PROVE  AlertInv'
  BY <1>0, <1>1 DEF AlertInv
<1>2. ASSUME NEW i \in DOMAIN reads, LoadTimeline(i) PROVE AlertInv'
  <2>1. CASE page.pc = "loading"
    <3>1. alerts' = <<>> /\ page'.pc = "loading"
      BY <1>0, <1>2, <2>1 DEF LoadTimeline, PageType
    <3> QED BY <3>1 DEF AlertInv
  <2>2. CASE page.pc # "loading"
    BY <1>1, <1>2, <2>2 DEF LoadTimeline
  <2> QED BY <2>1, <2>2
<1>3. ASSUME NEW i \in DOMAIN reads, FirstAnswer(i) PROVE AlertInv'
  <2>1. /\ i = 1 /\ OneRead /\ page.pc = "loading" /\ alerts' = <<>>
        /\ reads[1].pc \in {"answered", "failed"}
    BY <1>0, <1>3, FirstAnswerEffect DEF FirstAnswer
  <2>2. /\ page'.blind <=> reads[1].pc = "failed"
        /\ reads[1].pc = "answered" => page'.start = reads[1].timeline
        /\ page'.loadedAt = page.loadedAt
    BY <1>0, <1>3, <2>1 DEF FirstAnswer, PageType
  <2>3. reads[1].pc = "answered" => reads[1].timeline = page.loadedAt
    BY <2>1 DEF ScreenInv, NewsInv, OneRead
  <2> QED BY <1>0, <2>1, <2>2, <2>3 DEF AlertInv
<1>4. ASSUME NEW i \in DOMAIN reads, LoadMission(i) \/ ReadFails(i) \/ Answer(i) PROVE AlertInv'
  <2>1. /\ alerts' = alerts
        /\ page' = page \/ page' = [page EXCEPT !.error = reads[i].pc = "failed"]
    BY <1>4 DEF LoadMission, ReadFails, Answer
  <2>2. /\ page'.seen = page.seen /\ page'.start = page.start /\ page'.pc = page.pc
        /\ page'.blind = page.blind /\ page'.loadedAt = page.loadedAt
    BY <1>0, <2>1 DEF PageType
  <2> QED BY <1>1, <2>1, <2>2
<1>5. CASE OnEvent
  <2> DEFINE e == Head(wire)
  <2>1. e \in 0..committed
    BY <1>0, <1>5, HeadTailProperties DEF OnEvent, StreamInv, ServerInv
  <2>2. CASE UNCHANGED <<page, reads, dirty, alerts>>
    BY <1>1, <2>2
  <2>3. CASE /\ e > page.seen /\ page' = [page EXCEPT !.seen = e] /\ page.pc = "open"
             /\ alerts' = IF e \in Invalidations THEN Append(alerts, e) ELSE alerts
    <3>1. /\ page'.seen = e /\ page'.start = page.start /\ page'.pc = page.pc
          /\ page'.blind = page.blind /\ page'.loadedAt = page.loadedAt
      BY <1>0, <2>3 DEF PageType
    <3>2. ASSUME NEW i \in DOMAIN alerts PROVE alerts[i] \in Int /\ i \in 1..Len(alerts)
      <4>1. i \in 1..Len(alerts)
        BY <1>0, LenProperties
      <4>2. alerts[i] \in Invalidations
        BY <1>0, <4>1, ElementOfSeq
      <4>3. \A a \in Invalidations : a \in Int
        BY <1>0
      <4> QED BY <4>1, <4>2, <4>3
    <3>3. ~ page.blind => e > page.loadedAt
      BY <1>0, <2>1, <2>3 DEF AlertInv
    <3>4. CASE e \notin Invalidations
      BY <1>0, <2>1, <2>3, <3>1, <3>2, <3>4 DEF AlertInv
    <3>5. CASE e \in Invalidations
      <4>1. /\ Len(alerts) \in Nat /\ DOMAIN alerts = 1..Len(alerts)
            /\ DOMAIN alerts' = 1..(Len(alerts) + 1)
            /\ \A i \in 1..Len(alerts) : alerts'[i] = alerts[i]
            /\ alerts'[Len(alerts) + 1] = e
        BY <1>0, <2>3, <3>5, AppendProperties, LenProperties
      <4>2. ASSUME NEW i \in 1..Len(alerts)
            PROVE  /\ alerts'[i] <= page'.seen
                   /\ ~ page'.blind => alerts'[i] > page'.loadedAt
                   /\ i > 1 => alerts'[i] > alerts'[i - 1]
        <5>1. /\ i \in DOMAIN alerts /\ alerts'[i] = alerts[i] /\ alerts[i] \in Int
              /\ i > 1 => i - 1 \in 1..Len(alerts)
          BY <3>2, <4>1
        <5>2. i > 1 => alerts'[i - 1] = alerts[i - 1]
          BY <4>1, <5>1
        <5>3. /\ alerts[i] <= page.seen
              /\ ~ page.blind => alerts[i] > page.loadedAt
              /\ i > 1 => alerts[i] > alerts[i - 1]
          BY <1>0, <5>1 DEF AlertInv
        <5>4. page.seen \in Int /\ e \in Int /\ e > page.seen
          BY <1>0, <2>1, <2>3
        <5>5. alerts'[i] <= page'.seen
          <6> HIDE DEF e
          <6> QED BY <3>1, <5>1, <5>3, <5>4
        <5> QED BY <3>1, <5>1, <5>2, <5>3, <5>5
      <4>3. Len(alerts) + 1 > 1 => e > alerts'[Len(alerts)]
        <5>1. SUFFICES ASSUME Len(alerts) \in 1..Len(alerts) PROVE e > alerts'[Len(alerts)]
          BY <4>1
        <5>2. alerts'[Len(alerts)] = alerts[Len(alerts)] /\ alerts[Len(alerts)] \in Int
              /\ alerts[Len(alerts)] <= page.seen
          BY <1>0, <3>2, <4>1, <5>1 DEF AlertInv
        <5>3. page.seen \in Int /\ e \in Int /\ e > page.seen
          BY <1>0, <2>1, <2>3
        <5> HIDE DEF e
        <5> QED BY <5>2, <5>3, Transitive
      <4>4. ASSUME NEW i \in DOMAIN alerts'
            PROVE  /\ alerts'[i] <= page'.seen
                   /\ ~ page'.blind => alerts'[i] > page'.loadedAt
                   /\ i > 1 => alerts'[i] > alerts'[i - 1]
        <5>1. CASE i \in 1..Len(alerts)
          BY <4>2, <5>1
        <5>2. CASE i = Len(alerts) + 1
          BY <2>1, <3>1, <3>3, <4>1, <4>3, <5>2
        <5> QED BY <4>1, <5>1, <5>2
      <4> QED BY <1>0, <2>3, <3>1, <4>4 DEF AlertInv
    <3> QED BY <3>4, <3>5
  <2>4. /\ page.pc = "open"
        /\ \/ UNCHANGED <<page, reads, dirty, alerts>>
           \/ /\ ~ (e <= page.seen) /\ page' = [page EXCEPT !.seen = e]
              /\ alerts' = IF e \in Invalidations THEN Append(alerts, e) ELSE alerts
    BY <1>5 DEF OnEvent
  <2> QED BY <1>0, <2>1, <2>2, <2>3, <2>4
<1>6. CASE Replay \/ OnError \/ Refused
  <2>1. /\ alerts' = alerts /\ page.pc # "loading"
        /\ \E pc \in {"open", "connecting", "refused"} : page' = [page EXCEPT !.pc = pc]
    BY <1>6 DEF Replay, OnError, Refused
  <2>2. /\ page'.pc # "loading" /\ page'.seen = page.seen /\ page'.start = page.start
        /\ page'.blind = page.blind /\ page'.loadedAt = page.loadedAt
    BY <1>0, <2>1 DEF PageType
  <2> QED BY <1>1, <2>1, <2>2
<1>7. CASE \/ RecordEvent \/ Publish \/ RedisReader \/ RedisLoses \/ Subscribe \/ Forward
           \/ KeepAlive \/ Poll \/ OnDecided \/ Restart \/ UNCHANGED vars
  <2>1. UNCHANGED <<page, alerts>>
    BY <1>7 DEF RecordEvent, Publish, RedisReader, RedisLoses, Subscribe, Forward, KeepAlive,
                Poll, OnDecided, Restart, vars, pageVars
  <2> QED BY <1>1, <2>1
<1> QED BY <1>2, <1>3, <1>4, <1>5, <1>6, <1>7 DEF Next, Reading

LEMMA ScreenInit == Init => ScreenInv /\ AlertInv
<1> SUFFICES ASSUME Init PROVE ScreenInv /\ AlertInv
  OBVIOUS
<1>1. NewsInv /\ AlertInv /\ ScreenIsNeverBehind
  BY DEF Init, NewsInv, AlertInv, ScreenIsNeverBehind, NewRead, Awaited
<1> QED BY <1>1, StreamInit DEF ScreenInv

-----------------------------------------------------------------------------
(* EventStream implements ViewPromise, for the timeline and for the status *)

\* A step records an event, or shows more of the trail, or neither.
LEMMA ScreenMoves ==
    ASSUME StreamInv, [Next]_vars
    PROVE  \/ committed' = committed + 1 /\ view' = view
           \/ committed' = committed /\ view' = view
           \/ /\ committed' = committed /\ view' # NoView
              /\ view'.status \in 0..committed /\ view'.timeline \in 0..committed
              /\ view = NoView \/ (/\ view.status \in 0..view'.status
                                   /\ view.timeline \in 0..view'.timeline)
<1>1. CASE RecordEvent
  BY <1>1 DEF RecordEvent, pageVars
<1>2. ASSUME NEW i \in DOMAIN reads, FirstAnswer(i) \/ Answer(i)
      PROVE  \/ committed' = committed /\ view' = view
             \/ /\ committed' = committed /\ view' # NoView
                /\ view'.status \in 0..committed /\ view'.timeline \in 0..committed
                /\ view = NoView \/ (/\ view.status \in 0..view'.status
                                     /\ view.timeline \in 0..view'.timeline)
  <2>1. /\ i = 1 /\ OneRead /\ committed' = committed
        /\ view' = IF reads[1].pc = "answered"
                   THEN [status |-> reads[1].status, timeline |-> reads[1].timeline] ELSE view
    BY <1>2, Reads DEF FirstAnswer, Answer, Shows, serverVars
  <2>2. CASE reads[1].pc = "answered"
    <3>1. /\ view'.status = reads[1].status /\ view'.timeline = reads[1].timeline
          /\ reads[1].status \in 0..committed /\ reads[1].timeline \in 0..committed
      BY <2>1, <2>2 DEF StreamInv, ServerInv, ReadInv, OneRead, ReadType
    <3>2. view' # NoView
      BY <3>1 DEF NoView
    <3>3. view.status <= reads[1].status /\ view.timeline <= reads[1].timeline
      BY <2>1, <2>2 DEF StreamInv, ReadInv, OneRead
    <3> QED BY <2>1, <3>1, <3>2, <3>3 DEF StreamInv, ServerInv, ViewInv
  <2> QED BY <2>1, <2>2
<1>3. CASE ~ RecordEvent /\ ~ \E i \in DOMAIN reads : FirstAnswer(i) \/ Answer(i)
  BY <1>3 DEF Next, Reading, Publish, RedisReader, RedisLoses, Replay, Subscribe, Forward,
              KeepAlive, LoadMission, LoadTimeline, ReadFails, OnEvent, OnError, Refused, Poll,
              OnDecided, Restart, vars, pageVars, serverVars
<1> QED BY <1>1, <1>2, <1>3

LEMMA PromiseInit == Init => Timeline!Init /\ Status!Init
BY EventsAssumption DEF Init, Timeline!Init, Status!Init

LEMMA PromiseStep ==
    ASSUME StreamInv, [Next]_vars
    PROVE  [Timeline!Next]_(Timeline!promiseVars) /\ [Status!Next]_(Status!promiseVars)
<1> DEFINE Of(n) == IF view = NoView THEN 0 ELSE n
<1>1. committed \in Nat
  BY EventsAssumption DEF StreamInv, ServerInv
<1>2. CASE committed' = committed + 1 /\ view' = view
  BY <1>1, <1>2 DEF Timeline!Next, Timeline!Record, Status!Next, Status!Record
<1>3. CASE committed' = committed /\ view' = view
  BY <1>3 DEF Timeline!promiseVars, Status!promiseVars
<1>4. CASE /\ committed' = committed /\ view' # NoView
           /\ view'.status \in 0..committed /\ view'.timeline \in 0..committed
           /\ view = NoView \/ (/\ view.status \in 0..view'.status
                                /\ view.timeline \in 0..view'.timeline)
  <2>1. view'.timeline = Of(view.timeline) \/ view'.timeline \in (Of(view.timeline) + 1)..committed
    BY <1>1, <1>4
  <2>2. view'.status = Of(view.status) \/ view'.status \in (Of(view.status) + 1)..committed
    BY <1>1, <1>4
  <2>3. [Timeline!Next]_(Timeline!promiseVars)
    BY <1>4, <2>1 DEF Timeline!Next, Timeline!Show, Timeline!promiseVars
  <2>4. [Status!Next]_(Status!promiseVars)
    BY <1>4, <2>2 DEF Status!Next, Status!Show, Status!promiseVars
  <2> QED BY <2>3, <2>4
<1> QED BY <1>2, <1>3, <1>4, ScreenMoves

-----------------------------------------------------------------------------
(* The theorems *)

\* The news holds for as long as the trail fits the aggregate: one that fits has always fitted.
NewsHolds == StreamInv /\ (TrailFits => ScreenInv /\ AlertInv)

LEMMA NewsInductive == Spec => []NewsHolds
<1>1. Init => NewsHolds
  BY ScreenInit DEF NewsHolds, ScreenInv
<1>2. ASSUME NewsHolds, [Next]_vars PROVE NewsHolds'
  <2>1. StreamInv'
    BY <1>2, ServerStep, PageStep, ReadStep DEF NewsHolds, StreamInv
  <2>2. committed \in Nat /\ (committed' = committed \/ committed' = committed + 1)
    BY <1>2, ScreenMoves, EventsAssumption DEF NewsHolds, StreamInv, ServerInv
  <2>3. TrailFits' => TrailFits
    BY <2>2, EventsAssumption DEF TrailFits
  <2>4. ASSUME TrailFits PROVE ScreenInv' /\ AlertInv'
    BY <1>2, <2>1, <2>4, ScreenStep, AlertStep DEF NewsHolds, ScreenInv
  <2> QED BY <2>1, <2>3, <2>4 DEF NewsHolds
<1> QED BY <1>1, <1>2, PTL DEF Spec

\* Whatever is dropped, lost or sent twice, what is in the queues, on the wire, in the
\* requests and on the screen are numbers of events of the trail.
THEOREM Types == Spec => []TypeOK
BY StreamInductive, TypesOfInv, PTL

\* The timeline and the status on the screen are prefixes of the trail that only ever grow:
\* no answer overtakes a later one, for an aggregate that lists any number of events.
THEOREM PromiseKept == Spec => KeepsThePromise
<1>1. StreamInv /\ [Next]_vars => [Timeline!Next]_(Timeline!promiseVars)
                                  /\ [Status!Next]_(Status!promiseVars)
  BY PromiseStep
<1> QED BY <1>1, PromiseInit, StreamInductive, PTL
        DEF Spec, KeepsThePromise, Timeline!Safety, Status!Safety

\* Coalesce, never drop: a page that is not reading and shows no error shows every event it
\* was told of, and the status after it, for as long as the trail fits the aggregate.
THEOREM NeverBehind == Spec => []ScreenIsNeverBehind
<1>1. NewsHolds => ScreenIsNeverBehind
  BY DEF NewsHolds, ScreenInv, ScreenIsNeverBehind
<1> QED BY <1>1, NewsInductive, PTL

\* A page that was loaded raises the overlay for nothing that was in the trail by then, and
\* for nothing twice, however often the stream starts again, as long as the trail fits.
THEOREM News == Spec => []AlertsAreNews
<1>1. NewsHolds => AlertsAreNews
  BY DEF NewsHolds, AlertInv, AlertsAreNews
<1> QED BY <1>1, NewsInductive, PTL
=============================================================================
