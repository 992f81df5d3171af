------------------------- MODULE CallIngestionProofs -------------------------
(***************************************************************************)
(* For any number of calls, deliveries and restarts, and but for the last  *)
(* any number of pollers:                                                  *)
(*   - the result of a call is ingested once, and CallIngestion implements *)
(*     ResultPromise: a handler that changes an operation holds the lock   *)
(*     (LockInv), none has read the operation before it had the lock       *)
(*     (FreshInv), and nobody hears of a call before it is started         *)
(*     (RowInv, LaunchInv, KnownInv).  FreshInv is what the routes of      *)
(*     OperatorIngestion break;                                            *)
(*   - a late status does not touch the record of an ended call: what is   *)
(*     flushed is of a call that has neither ended nor been closed         *)
(*     (LateInv), which an answer that was there at once nearly is not     *)
(*     (AtOnceInv);                                                        *)
(*   - no circle of waiting handlers, with one poller: it alone flushes a  *)
(*     row and waits again (FlushInv), for another call (SweepInv).        *)
(***************************************************************************)
EXTENDS CallIngestion, TLAPS

-----------------------------------------------------------------------------
(* The inductive invariant *)

Locked == {"dispatch", "dispatched", "check", "ingest", "act", "release"}

\* A handler that stands behind the lock holds it.
LockInv ==
    \A p \in Procs :
        /\ proc[p].at \in Locked \cup {"lookup", "wait"} => proc[p].call \in Calls
        /\ proc[p].at \in Locked => holder[proc[p].call] = p

\* An operation is read under the lock and no earlier, and only a status that ends the
\* call is ingested.
FreshInv ==
    \A p \in Procs :
        /\ proc[p].at \in {"idle", "lookup", "wait", "check"} => proc[p].opRow = "unread"
        /\ proc[p].at = "ingest" => proc[p].state \in TERMINAL_STATUSES

\* A call is dialled and started before anything is written of it, ...
Started(c) == line[c] # "undialled" /\ op[c] # "queued"
RowInv == \A c \in Calls : record[c] # "none" \/ writer[c] # Nobody => Started(c)

\* ... until then its own handler has it, ...
LaunchInv ==
    \A p \in Procs :
        /\ proc[p].at \in {"dispatch", "dispatched"} =>
             p \in Calls /\ proc[p].call = p /\ op[p] = "queued"
        /\ proc[p].at = "dispatched" => line[p] # "undialled"

\* ... afterwards others may hear of it, ...
KnownInv ==
    \A p \in Procs, c \in Calls :
        c \in proc[p].todo \/ (proc[p].at \in {"wait", "check"} /\ proc[p].call = c) => Started(c)

\* ... and only an open call is ingested.
OpenInv ==
    \A p \in Procs :
        proc[p].at = "ingest" => op[proc[p].call] = "calling" /\ Started(proc[p].call)

\* What is not closed has no result, and what is acted upon has one.
CountInv ==
    \A c \in Calls : /\ op[c] \notin Closed => results[c] = 0
                     /\ acted[c] <= results[c] /\ results[c] <= 1

ActInv ==
    \A p \in Procs :
        proc[p].at = "act" => acted[proc[p].call] = 0 /\ results[proc[p].call] = 1

\* A session knows the status it has written and not committed; one that is idle has none.
WriterInv ==
    \A p \in Procs, c \in Calls :
        writer[c] = p => proc[p].recordRow[c] \in Statuses /\ proc[p].at # "idle"

IngestionInv == TypeOK /\ WriterInv /\ LockInv /\ FreshInv
                /\ RowInv /\ LaunchInv /\ KnownInv /\ OpenInv /\ CountInv /\ ActInv

-----------------------------------------------------------------------------
(* Types *)

\* A new session is a session.
LEMMA SessionType ==
    ASSUME NEW step \in {"idle", "dispatch", "sweep", "finish", "done"}
    PROVE  /\ Session(step) \in ProcType
           /\ Session(step).at = step /\ Session(step).call = Nobody
           /\ Session(step).opRow = "unread" /\ Session(step).todo = {}
BY DEF Session, ProcType, Unread, Statuses, Ringing

LEMMA TypeInit == Init => TypeOK
<1> SUFFICES ASSUME Init PROVE TypeOK
  OBVIOUS
<1>1. ASSUME NEW p \in Procs
      PROVE  (IF p \in Calls THEN [Session("dispatch") EXCEPT !.call = p] ELSE Session("idle"))
               \in ProcType
  BY <1>1, SessionType DEF ProcType
<1>2. proc \in [Procs -> ProcType]
  BY <1>1 DEF Init
<1> QED BY <1>2, IngestionAssumption DEF Init, TypeOK, Procs

LEMMA TypeLaunch == ASSUME IngestionInv, NEW c \in Calls, Launch(c) PROVE TypeOK'
<1> USE DEF At, Procs
<1>1. proc[c] \in ProcType /\ TypeOK
  BY DEF IngestionInv, TypeOK
<1>2. CASE CreateCall(c)
  <2>1. PICK s \in Statuses : /\ line' = [line EXCEPT ![c] = s]
                              /\ proc' = [proc EXCEPT ![c].at = "dispatched", ![c].state = s]
    BY <1>2 DEF CreateCall
  <2>2. [proc[c] EXCEPT !.at = "dispatched", !.state = s] \in ProcType
    BY <1>1 DEF ProcType
  <2>3. proc' = [proc EXCEPT ![c] = [proc[c] EXCEPT !.at = "dispatched", !.state = s]]
    BY <2>1
  <2> QED BY <1>1, <1>2, <2>1, <2>2, <2>3 DEF CreateCall, TypeOK
<1>3. CASE CreateCallFails(c)
  <2>1. [proc[c] EXCEPT !.at = "release"] \in ProcType
    BY <1>1 DEF ProcType
  <2> QED BY <1>1, <1>3, <2>1 DEF CreateCallFails, Goto, TypeOK, Statuses, Ringing, Closed
<1>4. CASE CallStarted(c)
  <2>1. proc'[c] \in ProcType /\ \A q \in Procs \ {c} : proc'[q] = proc[q]
    BY <1>1, <1>4 DEF CallStarted, TypeOK, ProcType
  <2>2. proc' \in [Procs -> ProcType]
    BY <1>1, <1>4, <2>1 DEF CallStarted, TypeOK
  <2> QED BY <1>1, <1>4, <2>2 DEF CallStarted, TypeOK, ProcType
<1> QED BY <1>2, <1>3, <1>4 DEF Launch

\* The steps that only move a handler on, and those of the poller and the webhook.
LEMMA TypeDelivery ==
    ASSUME IngestionInv, NEW p \in Procs,
           \/ \E c \in Calls : CalleWebhook(p, c)
           \/ LookUp(p)
           \/ Polling(p)
    PROVE  TypeOK'
<1> USE DEF At, Goto
<1>1. proc[p] \in ProcType /\ TypeOK
  BY DEF IngestionInv, TypeOK
<1>2. ASSUME NEW c \in Calls, CalleWebhook(p, c) PROVE TypeOK'
  <2>1. line[c] \in Statuses
    BY <1>1, <1>2 DEF CalleWebhook, TypeOK
  <2>2. [proc[p] EXCEPT !.at = "lookup", !.call = c, !.state = line[c]] \in ProcType
    BY <1>1, <2>1 DEF ProcType
  <2>3. proc' = [proc EXCEPT ![p] = [proc[p] EXCEPT !.at = "lookup", !.call = c, !.state = line[c]]]
    BY <1>2 DEF CalleWebhook
  <2> QED BY <1>1, <1>2, <2>2, <2>3 DEF CalleWebhook, TypeOK
<1>3. CASE LookUp(p)
  <2>1. proc[p].call \in Calls
    BY <1>3 DEF LookUp, IngestionInv, LockInv
  <2>2. [proc[p] EXCEPT !.at = "finish"] \in ProcType
    BY <1>1 DEF ProcType
  <2>3. Knows(p, record[proc[p].call]) \in [Calls -> {"unread", "none"} \cup Statuses]
    BY <1>1, <2>1 DEF ProcType, TypeOK, Knows
  <2>4. [proc[p] EXCEPT !.at = "wait", !.recordRow = Knows(p, record[proc[p].call])]
          \in ProcType
    BY <1>1, <2>3 DEF ProcType
  <2>5. CASE record[proc[p].call] = "none"
    BY <1>1, <1>3, <2>2, <2>5 DEF LookUp, TypeOK
  <2>6. CASE record[proc[p].call] # "none"
    <3>1. proc' = [proc EXCEPT ![p] = [proc[p] EXCEPT !.at = "wait",
                     !.recordRow = Knows(p, record[proc[p].call])]]
      BY <1>3, <2>6 DEF LookUp
    <3>2. proc' \in [Procs -> ProcType]
      BY <1>1, <2>4, <3>1 DEF TypeOK
    <3> QED BY <1>1, <1>3, <3>2 DEF LookUp, TypeOK
  <2> QED BY <2>5, <2>6
<1>4. CASE Sweep(p)
  <2> DEFINE pending == {c \in Calls : op[c] = "calling" /\ record[c] # "none"}
             row == [c \in Calls |-> IF c \in pending THEN record[c] ELSE "unread"]
  <2>1. row \in [Calls -> {"unread", "none"} \cup Statuses]
    BY <1>1 DEF TypeOK
  <2>2. [proc[p] EXCEPT !.at = "sweep", !.todo = pending, !.recordRow = row] \in ProcType
    <3> HIDE DEF row
    <3> QED BY <1>1, <2>1 DEF ProcType
  <2>3. proc' = [proc EXCEPT ![p] = [proc[p] EXCEPT !.at = "sweep", !.todo = pending, !.recordRow = row]]
    BY <1>4 DEF Sweep
  <2> QED BY <1>1, <1>4, <2>2, <2>3 DEF Sweep, TypeOK
<1>5. ASSUME NEW c \in Calls, Poll(p, c) PROVE TypeOK'
  <2>1. line[c] \in Statuses
    BY <1>1, <1>5 DEF Poll, TypeOK, IngestionInv, KnownInv, Started
  <2>2. [proc[p] EXCEPT !.at = "wait", !.call = c, !.state = line[c], !.opRow = "unread",
                        !.todo = @ \ {c}] \in ProcType
    BY <1>1, <2>1 DEF ProcType
  <2>3. proc' = [proc EXCEPT ![p] = [proc[p] EXCEPT !.at = "wait", !.call = c, !.state = line[c],
                                       !.opRow = "unread", !.todo = @ \ {c}]]
    BY <1>5 DEF Poll
  <2> QED BY <1>1, <1>5, <2>2, <2>3 DEF Poll, TypeOK
<1>6. ASSUME NEW c \in Calls, PollFails(p, c) PROVE TypeOK'
  <2>1. [proc[p] EXCEPT !.todo = @ \ {c}] \in ProcType
    BY <1>1 DEF ProcType
  <2> QED BY <1>1, <1>6, <2>1 DEF PollFails, TypeOK
<1>7. CASE SweepEnds(p)
  <2>1. [proc[p] EXCEPT !.at = "finish"] \in ProcType
    BY <1>1 DEF ProcType
  <2> QED BY <1>1, <1>7, <2>1 DEF SweepEnds, TypeOK
<1> QED BY <1>2, <1>3, <1>4, <1>5, <1>6, <1>7 DEF Polling

\* What is written back was read or flushed: of a row the session has updated it knows
\* the status.
LEMMA TypeIngestion == ASSUME IngestionInv, NEW p \in Procs, Ingestion(p) PROVE TypeOK'
<1> USE DEF At, Goto
<1>1. proc[p] \in ProcType /\ TypeOK
  BY DEF IngestionInv, TypeOK
<1>2. CASE Acquire(p)
  <2>1. [proc[p] EXCEPT !.at = "check"] \in ProcType
    BY <1>1 DEF ProcType
  <2> QED BY <1>1, <1>2, <2>1 DEF Acquire, TypeOK
<1>3. CASE HandleCallUpdate(p)
  <2>1. proc[p].call \in Calls /\ OpRow(p) \in {"queued", "calling"} \cup Closed
    BY <1>1, <1>3 DEF HandleCallUpdate, IngestionInv, LockInv, FreshInv, Locked, OpRow, TypeOK
  <2>2. /\ [proc[p] EXCEPT !.at = "release"] \in ProcType
        /\ [proc[p] EXCEPT !.at = "ingest", !.opRow = OpRow(p)] \in ProcType
    BY <1>1, <2>1 DEF ProcType
  <2>3. Knows(p, proc[p].state) \in [Calls -> {"unread", "none"} \cup Statuses]
    BY <1>1, <2>1 DEF ProcType, Knows
  <2>4. [proc[p] EXCEPT !.at = "release",
           !.recordRow = Knows(p, proc[p].state)] \in ProcType
    BY <1>1, <2>3 DEF ProcType
  <2>5. \/ proc' = [proc EXCEPT ![p] = [proc[p] EXCEPT !.at = "release"]]
        \/ proc' = [proc EXCEPT ![p] = [proc[p] EXCEPT !.at = "ingest", !.opRow = OpRow(p)]]
        \/ proc' = [proc EXCEPT ![p] = [proc[p] EXCEPT !.at = "release",
                      !.recordRow = Knows(p, proc[p].state)]]
    BY <1>3 DEF HandleCallUpdate
  <2>6. proc' \in [Procs -> ProcType]
    BY <1>1, <2>2, <2>4, <2>5 DEF TypeOK
  <2>7. writer' \in [Calls -> Procs \cup {Nobody}]
    BY <1>1, <1>3 DEF HandleCallUpdate, TypeOK
  <2> QED BY <1>1, <1>3, <2>6, <2>7 DEF HandleCallUpdate, TypeOK
<1>4. CASE IngestCallState(p)
  <2>1. [proc[p] EXCEPT !.at = "act"] \in ProcType /\ [proc[p] EXCEPT !.at = "release"] \in ProcType
    BY <1>1 DEF ProcType
  <2>2. proc[p].state \in Statuses /\ proc[p].state \in Closed
    BY <1>1, <1>4, IngestionAssumption
    DEF IngestCallState, IngestionInv, FreshInv, ProcType, Closed
  <2>3. record' \in [Calls -> {"none"} \cup Statuses]
    BY <1>1, <1>4, <2>2 DEF IngestCallState, TypeOK, IngestionInv, WriterInv
  <2> QED BY <1>1, <1>4, <2>1, <2>2, <2>3 DEF IngestCallState, TypeOK
<1>5. CASE Act(p)
  <2>1. [proc[p] EXCEPT !.at = "release"] \in ProcType
    BY <1>1 DEF ProcType
  <2>2. proc[p].call \in Calls /\ acted' = [acted EXCEPT ![proc[p].call] = @ + 1]
    BY <1>5 DEF Act, IngestionInv, LockInv, Locked
  <2>3. acted' \in [Calls -> Nat]
    BY <1>1, <2>2 DEF TypeOK
  <2> QED BY <1>1, <1>5, <2>1, <2>3 DEF Act, TypeOK
<1>6. CASE Release(p)
  <2>1. ASSUME NEW step \in {"sweep", "finish"}
        PROVE  [Session(step) EXCEPT !.recordRow = proc[p].recordRow, !.todo = proc[p].todo] \in ProcType
    BY <1>1, SessionType DEF ProcType
  <2> QED BY <1>1, <1>6, <2>1 DEF Release, TypeOK
<1>7. CASE Finish(p)
  <2>1. record' \in [Calls -> {"none"} \cup Statuses] /\ writer' \in [Calls -> Procs \cup {Nobody}]
    BY <1>1, <1>7 DEF Finish, Commit, TypeOK, IngestionInv, WriterInv
  <2> QED BY <1>1, <1>7, <2>1, SessionType DEF Finish, TypeOK
<1> QED BY <1>2, <1>3, <1>4, <1>5, <1>6, <1>7 DEF Ingestion

LEMMA TypeStep == ASSUME IngestionInv, [Next]_vars PROVE TypeOK'
<1>1. TypeOK
  BY DEF IngestionInv
<1>2. ASSUME NEW c \in Calls, CallMoves(c) PROVE TypeOK'
  BY <1>1, <1>2 DEF CallMoves, TypeOK
<1>3. CASE Crash
  <2>1. proc' \in [Procs -> ProcType]
    BY <1>3, SessionType DEF Crash
  <2> QED BY <1>1, <1>3, <2>1, IngestionAssumption DEF Crash, TypeOK
<1>4. CASE UNCHANGED vars
  BY <1>1, <1>4 DEF vars, TypeOK
<1> QED BY <1>2, <1>3, <1>4, TypeLaunch, TypeDelivery, TypeIngestion DEF Next, Handler, Procs

-----------------------------------------------------------------------------
(* What the longer steps do to the handler's session *)

\* The other handlers' sessions are their own.
OthersStay(p) == \A q \in Procs \ {p} : proc'[q] = proc[q]

LEMMA LookUpEffect ==
    ASSUME TypeOK, NEW p \in Procs, LookUp(p)
    PROVE  /\ OthersStay(p) /\ At(p, "lookup") /\ proc'[p].at \in {"wait", "finish"}
           /\ proc'[p].call = proc[p].call /\ proc'[p].opRow = proc[p].opRow
           /\ proc'[p].todo = proc[p].todo /\ proc'[p].state = proc[p].state
           /\ proc'[p].at = "wait" => record[proc[p].call] # "none"
           /\ proc'[p].recordRow =
                IF proc'[p].at = "wait" THEN Knows(p, record[proc[p].call]) ELSE proc[p].recordRow
           /\ UNCHANGED <<line, op, record, holder, writer, results, acted>>
<1> USE DEF LookUp, TypeOK, ProcType, OthersStay, At, Goto
<1>1. CASE record[proc[p].call] = "none"
  BY <1>1
<1>2. CASE record[proc[p].call] # "none"
  <2>1. proc' = [proc EXCEPT ![p] = [proc[p] EXCEPT !.at = "wait",
                                       !.recordRow = Knows(p, record[proc[p].call])]]
    BY <1>2
  <2> QED BY <1>2, <2>1
<1> QED BY <1>1, <1>2

LEMMA SweepEffect ==
    ASSUME TypeOK, NEW p \in Procs, Sweep(p)
    PROVE  /\ OthersStay(p) /\ proc'[p].at = "sweep"
           /\ At(p, "idle") /\ UNCHANGED <<line, op, record, holder, writer, results, acted>>
           /\ \A c \in Calls : /\ c \in proc'[p].todo <=> op[c] = "calling" /\ record[c] # "none"
                               /\ proc'[p].recordRow[c] \in {record[c], "unread"}
<1> DEFINE pending == {c \in Calls : op[c] = "calling" /\ record[c] # "none"}
           row == [c \in Calls |-> IF c \in pending THEN record[c] ELSE "unread"]
<1>1. proc' = [proc EXCEPT ![p] = [proc[p] EXCEPT !.at = "sweep", !.todo = pending, !.recordRow = row]]
  BY DEF Sweep
<1>2. \A c \in Calls : row[c] \in {record[c], "unread"}
  OBVIOUS
<1> HIDE DEF row
<1>3. OthersStay(p) /\ proc'[p].at = "sweep" /\ proc'[p].todo = pending /\ proc'[p].recordRow = row
  BY <1>1 DEF TypeOK, ProcType, OthersStay
<1> QED BY <1>2, <1>3 DEF Sweep, At

\* A closed operation, a status that ends the call, and one that does not.
LEMMA HandleCallUpdateEffect ==
    ASSUME TypeOK, NEW p \in Procs, HandleCallUpdate(p)
    PROVE  /\ OthersStay(p) /\ At(p, "check")
           /\ proc'[p].call = proc[p].call /\ proc'[p].state = proc[p].state
           /\ proc'[p].todo = proc[p].todo
           /\ UNCHANGED <<line, op, record, holder, results, acted>>
           /\ \/ /\ proc'[p].at = "release" /\ proc'[p].recordRow = proc[p].recordRow
                 /\ writer' = writer
              \/ /\ proc'[p].at = "ingest" /\ proc'[p].recordRow = proc[p].recordRow
                 /\ writer' = writer
                 /\ OpRow(p) \notin Closed /\ proc[p].state \in TERMINAL_STATUSES
              \/ /\ proc'[p].at = "release" /\ proc'[p].recordRow = Knows(p, proc[p].state)
                 /\ OpRow(p) \notin Closed /\ proc[p].state \notin TERMINAL_STATUSES
                 /\ writer' \in {writer, [writer EXCEPT ![proc[p].call] = p]}
<1> USE DEF HandleCallUpdate, TypeOK, ProcType, OthersStay, At, Goto
<1>1. CASE OpRow(p) \in Closed
  BY <1>1
<1>2. CASE OpRow(p) \notin Closed /\ proc[p].state \in TERMINAL_STATUSES
  <2>1. proc' = [proc EXCEPT ![p] = [proc[p] EXCEPT !.at = "ingest", !.opRow = OpRow(p)]]
    BY <1>2
  <2> QED BY <1>2, <2>1
<1>3. CASE OpRow(p) \notin Closed /\ proc[p].state \notin TERMINAL_STATUSES
  <2>1. proc' = [proc EXCEPT ![p] = [proc[p] EXCEPT !.at = "release",
                                       !.recordRow = Knows(p, proc[p].state)]]
    BY <1>3
  <2> QED BY <1>3, <2>1
<1> QED BY <1>1, <1>2, <1>3

\* The result is ingested, or the handler had read that it is.
LEMMA IngestCallStateEffect ==
    ASSUME TypeOK, LockInv, NEW p \in Procs, IngestCallState(p)
    PROVE  /\ OthersStay(p) /\ At(p, "ingest") /\ MayUpdate(p) /\ proc[p].call \in Calls
           /\ proc'[p].call = proc[p].call /\ proc'[p].todo = proc[p].todo
           /\ proc'[p].recordRow = proc[p].recordRow
           /\ UNCHANGED <<line, holder, acted>>
           /\ \/ proc'[p].at = "release" /\ UNCHANGED <<op, record, writer, results>>
              \/ /\ proc'[p].at = "act"
                 /\ op' = [op EXCEPT ![proc[p].call] = proc[p].state]
                 /\ results' = [results EXCEPT ![proc[p].call] = @ + 1]
                 /\ \A c \in Calls : writer'[c] = IF writer[c] = p THEN Nobody ELSE writer[c]
                 /\ \A c \in Calls \ {proc[p].call} : record'[c] =
                      IF writer[c] = p THEN proc[p].recordRow[c] ELSE record[c]
                 /\ record'[proc[p].call] = proc[p].state
<1> USE DEF IngestCallState, TypeOK, ProcType, OthersStay, LockInv, Locked, At, Goto
<1>1. CASE proc[p].opRow = "completed"
  BY <1>1
<1>2. CASE proc[p].opRow # "completed"
  BY <1>2
<1> QED BY <1>1, <1>2

-----------------------------------------------------------------------------
(* Preservation *)

\* A call that is dialled stays dialled, and one that is started is never queued again.
LEMMA StartedStays ==
    ASSUME IngestionInv, [Next]_vars, NEW d \in Calls
    PROVE  /\ line[d] # "undialled" => line'[d] # "undialled"
           /\ op[d] # "queued" => op'[d] # "queued"
<1> DEFINE Stays == /\ line[d] # "undialled" => line'[d] # "undialled"
                    /\ op[d] # "queued" => op'[d] # "queued"
<1> USE IngestionAssumption DEF IngestionInv, TypeOK
<1>1. ASSUME NEW c \in Calls, Launch(c) PROVE Stays
  BY <1>1 DEF Launch, CreateCall, CreateCallFails, CallStarted, Statuses, Ringing
<1>2. ASSUME NEW p \in Procs, IngestCallState(p) PROVE Stays
  <2>1. proc[p].call \in Calls /\ proc[p].state # "queued"
    BY <1>2 DEF IngestCallState, At, LockInv, Locked, FreshInv
  <2> QED BY <1>2, <2>1, IngestCallStateEffect
<1>3. ASSUME NEW p \in Procs, \/ LookUp(p) \/ Polling(p) \/ Acquire(p)
                              \/ HandleCallUpdate(p) \/ Act(p) \/ Release(p) \/ Finish(p)
      PROVE  Stays
  BY <1>3 DEF LookUp, Polling, Sweep, Poll, PollFails, SweepEnds, Acquire, HandleCallUpdate,
              Act, Release, Finish
<1>4. ASSUME NEW w \in Webhooks, NEW c \in Calls, CalleWebhook(w, c) PROVE Stays
  BY <1>4 DEF CalleWebhook
<1>5. ASSUME NEW c \in Calls, CallMoves(c) PROVE Stays
  BY <1>5 DEF CallMoves, Statuses, Ringing
<1>6. CASE Crash \/ UNCHANGED vars
  BY <1>6 DEF Crash, vars
<1> QED BY <1>1, <1>2, <1>3, <1>4, <1>5, <1>6 DEF Next, Handler, Ingestion

\* Two handlers behind the lock work on different calls.
LEMMA OneHolder ==
    ASSUME LockInv, NEW p \in Procs, NEW q \in Procs \ {p},
           proc[p].at \in Locked, proc[q].at \in Locked
    PROVE  proc[p].call # proc[q].call
BY DEF LockInv

\* No step lets a second handler behind the lock.
LEMMA LockStep == ASSUME IngestionInv, [Next]_vars PROVE LockInv'
<1> SUFFICES ASSUME NEW q \in Procs
             PROVE  /\ proc'[q].at \in Locked \cup {"lookup", "wait"} => proc'[q].call \in Calls
                    /\ proc'[q].at \in Locked => holder'[proc'[q].call] = q
  BY DEF LockInv
<1> USE IngestionAssumption DEF At, Goto, IngestionInv, TypeOK, LockInv, Locked
<1>1. ASSUME NEW c \in Calls, CreateCall(c) PROVE LockInv!(q)'
  BY <1>1 DEF CreateCall
<1>2. ASSUME NEW c \in Calls, CreateCallFails(c) PROVE LockInv!(q)'
  BY <1>2 DEF CreateCallFails
<1>3. ASSUME NEW c \in Calls, CallStarted(c) PROVE LockInv!(q)'
  BY <1>3 DEF CallStarted
<1>4. ASSUME NEW p \in Procs, NEW c \in Calls, CalleWebhook(p, c) PROVE LockInv!(q)'
  BY <1>4 DEF CalleWebhook
<1>5. ASSUME NEW p \in Procs, NEW c \in Calls, Poll(p, c) PROVE LockInv!(q)'
  BY <1>5 DEF Poll
<1>6. ASSUME NEW p \in Procs, NEW c \in Calls, PollFails(p, c) PROVE LockInv!(q)'
  BY <1>6 DEF PollFails
<1>7. ASSUME NEW p \in Procs, LookUp(p) PROVE LockInv!(q)'
  BY <1>7, LookUpEffect DEF OthersStay
<1>8. ASSUME NEW p \in Procs, Sweep(p) PROVE LockInv!(q)'
  BY <1>8, SweepEffect DEF OthersStay
<1>9. ASSUME NEW p \in Procs, SweepEnds(p) PROVE LockInv!(q)'
  BY <1>9 DEF SweepEnds
<1>10. ASSUME NEW p \in Procs, Acquire(p) PROVE LockInv!(q)'
  BY <1>10 DEF Acquire
<1>11. ASSUME NEW p \in Procs, HandleCallUpdate(p) PROVE LockInv!(q)'
  BY <1>11, HandleCallUpdateEffect DEF OthersStay
<1>12. ASSUME NEW p \in Procs, IngestCallState(p) PROVE LockInv!(q)'
  BY <1>12, IngestCallStateEffect DEF OthersStay
<1>13. ASSUME NEW p \in Procs, Act(p) PROVE LockInv!(q)'
  BY <1>13 DEF Act
<1>14. ASSUME NEW p \in Procs, Release(p) PROVE LockInv!(q)'
  BY <1>14 DEF Release, Session
<1>15. ASSUME NEW p \in Procs, Finish(p) PROVE LockInv!(q)'
  BY <1>15 DEF Finish, Session
<1>16. ASSUME NEW c \in Calls, CallMoves(c) PROVE LockInv!(q)'
  BY <1>16 DEF CallMoves
<1>17. CASE Crash
  BY <1>17, SessionType DEF Crash
<1>18. CASE UNCHANGED vars
  BY <1>18 DEF vars
<1> QED
  BY <1>1, <1>2, <1>3, <1>4, <1>5, <1>6, <1>7, <1>8, <1>9,
     <1>10, <1>11, <1>12, <1>13, <1>14, <1>15, <1>16, <1>17, <1>18
  DEF Next, Handler, Launch, Polling, Ingestion, Procs

\* Nobody reads the operation before the lock is his.
LEMMA FreshStep == ASSUME IngestionInv, [Next]_vars PROVE FreshInv'
<1> SUFFICES ASSUME NEW q \in Procs PROVE FreshInv!(q)'
  BY DEF FreshInv
<1> USE IngestionAssumption DEF At, Goto, IngestionInv, TypeOK, FreshInv
<1>1. ASSUME NEW c \in Calls, CreateCall(c) PROVE FreshInv!(q)'
  BY <1>1 DEF CreateCall
<1>2. ASSUME NEW c \in Calls, CreateCallFails(c) PROVE FreshInv!(q)'
  BY <1>2 DEF CreateCallFails
<1>3. ASSUME NEW c \in Calls, CallStarted(c) PROVE FreshInv!(q)'
  BY <1>3 DEF CallStarted
<1>4. ASSUME NEW p \in Procs, NEW c \in Calls, CalleWebhook(p, c) PROVE FreshInv!(q)'
  BY <1>4 DEF CalleWebhook
<1>5. ASSUME NEW p \in Procs, NEW c \in Calls, Poll(p, c) PROVE FreshInv!(q)'
  BY <1>5 DEF Poll
<1>6. ASSUME NEW p \in Procs, NEW c \in Calls, PollFails(p, c) PROVE FreshInv!(q)'
  BY <1>6 DEF PollFails
<1>7. ASSUME NEW p \in Procs, LookUp(p) PROVE FreshInv!(q)'
  BY <1>7, LookUpEffect DEF OthersStay
<1>8. ASSUME NEW p \in Procs, Sweep(p) PROVE FreshInv!(q)'
  BY <1>8, SweepEffect DEF OthersStay
<1>9. ASSUME NEW p \in Procs, SweepEnds(p) PROVE FreshInv!(q)'
  BY <1>9 DEF SweepEnds
<1>10. ASSUME NEW p \in Procs, Acquire(p) PROVE FreshInv!(q)'
  BY <1>10 DEF Acquire
<1>11. ASSUME NEW p \in Procs, HandleCallUpdate(p) PROVE FreshInv!(q)'
  BY <1>11, HandleCallUpdateEffect DEF OthersStay
<1>12. ASSUME NEW p \in Procs, IngestCallState(p) PROVE FreshInv!(q)'
  BY <1>12, IngestCallStateEffect DEF OthersStay
<1>13. ASSUME NEW p \in Procs, Act(p) PROVE FreshInv!(q)'
  BY <1>13 DEF Act
<1>14. ASSUME NEW p \in Procs, Release(p) PROVE FreshInv!(q)'
  BY <1>14 DEF Release, Session
<1>15. ASSUME NEW p \in Procs, Finish(p) PROVE FreshInv!(q)'
  BY <1>15 DEF Finish, Session
<1>16. ASSUME NEW c \in Calls, CallMoves(c) PROVE FreshInv!(q)'
  BY <1>16 DEF CallMoves
<1>17. CASE Crash
  BY <1>17, SessionType DEF Crash
<1>18. CASE UNCHANGED vars
  BY <1>18 DEF vars
<1> QED
  BY <1>1, <1>2, <1>3, <1>4, <1>5, <1>6, <1>7, <1>8, <1>9,
     <1>10, <1>11, <1>12, <1>13, <1>14, <1>15, <1>16, <1>17, <1>18
  DEF Next, Handler, Launch, Polling, Ingestion, Procs

\* A row that is written, or being written, belongs to a started call.
LEMMA RowStep == ASSUME IngestionInv, [Next]_vars PROVE RowInv'
<1> SUFFICES ASSUME NEW d \in Calls PROVE RowInv!(d)'
  BY DEF RowInv
<1> USE IngestionAssumption DEF At, Goto, IngestionInv, TypeOK, RowInv, LockInv, Locked,
                                FreshInv, LaunchInv, KnownInv, OpenInv
<1>0. Started(d) => Started(d)'
  BY StartedStays DEF Started
<1>1. ASSUME NEW c \in Calls, CreateCall(c) PROVE RowInv!(d)'
  BY <1>0, <1>1 DEF CreateCall
<1>2. ASSUME NEW c \in Calls, CreateCallFails(c) PROVE RowInv!(d)'
  BY <1>0, <1>2 DEF CreateCallFails, Closed
<1>3. ASSUME NEW c \in Calls, CallStarted(c) PROVE RowInv!(d)'
  <2>1. CASE d = c
    <3>1. c \in Procs /\ line[c] # "undialled"
      BY <1>3 DEF CallStarted, Procs
    <3>2. line' = line /\ op'[c] = "calling"
      BY <1>3 DEF CallStarted
    <3> QED BY <2>1, <3>1, <3>2 DEF Started
  <2>2. CASE d # c
    <3>1. record'[d] = record[d] /\ writer'[d] = writer[d]
      BY <1>3, <2>2 DEF CallStarted
    <3> QED BY <1>0, <3>1
  <2> QED BY <2>1, <2>2
<1>4. ASSUME NEW p \in Procs, NEW c \in Calls, CalleWebhook(p, c) PROVE RowInv!(d)'
  BY <1>0, <1>4 DEF CalleWebhook
<1>5. ASSUME NEW p \in Procs, NEW c \in Calls, Poll(p, c) PROVE RowInv!(d)'
  BY <1>0, <1>5 DEF Poll
<1>6. ASSUME NEW p \in Procs, NEW c \in Calls, PollFails(p, c) PROVE RowInv!(d)'
  BY <1>0, <1>6 DEF PollFails
<1>7. ASSUME NEW p \in Procs, LookUp(p) PROVE RowInv!(d)'
  BY <1>0, <1>7, LookUpEffect DEF OthersStay
<1>8. ASSUME NEW p \in Procs, Sweep(p) PROVE RowInv!(d)'
  BY <1>0, <1>8, SweepEffect DEF OthersStay
<1>9. ASSUME NEW p \in Procs, SweepEnds(p) PROVE RowInv!(d)'
  BY <1>0, <1>9 DEF SweepEnds
<1>10. ASSUME NEW p \in Procs, Acquire(p) PROVE RowInv!(d)'
  BY <1>0, <1>10 DEF Acquire
<1>11. ASSUME NEW p \in Procs, HandleCallUpdate(p) PROVE RowInv!(d)'
  BY <1>0, <1>11, HandleCallUpdateEffect DEF OthersStay
<1>12. ASSUME NEW p \in Procs, IngestCallState(p) PROVE RowInv!(d)'
  BY <1>0, <1>12, IngestCallStateEffect DEF OthersStay, Closed
<1>13. ASSUME NEW p \in Procs, Act(p) PROVE RowInv!(d)'
  BY <1>0, <1>13 DEF Act
<1>14. ASSUME NEW p \in Procs, Release(p) PROVE RowInv!(d)'
  BY <1>0, <1>14 DEF Release
<1>15. ASSUME NEW p \in Procs, Finish(p) PROVE RowInv!(d)'
  BY <1>0, <1>15 DEF Finish, Commit
<1>16. ASSUME NEW c \in Calls, CallMoves(c) PROVE RowInv!(d)'
  BY <1>0, <1>16 DEF CallMoves
<1>17. CASE Crash
  BY <1>0, <1>17, SessionType DEF Crash
<1>18. CASE UNCHANGED vars
  BY <1>0, <1>18 DEF vars
<1> QED
  BY <1>1, <1>2, <1>3, <1>4, <1>5, <1>6, <1>7, <1>8, <1>9,
     <1>10, <1>11, <1>12, <1>13, <1>14, <1>15, <1>16, <1>17, <1>18
  DEF Next, Handler, Launch, Polling, Ingestion, Procs

\* What a session has flushed it knows.
LEMMA WriterStep == ASSUME IngestionInv, [Next]_vars PROVE WriterInv'
<1> SUFFICES ASSUME NEW q \in Procs, NEW d \in Calls PROVE WriterInv!(q, d)'
  BY DEF WriterInv
<1> USE IngestionAssumption DEF At, Goto, IngestionInv, TypeOK, WriterInv, LockInv, Locked,
                                ProcType
<1>1. ASSUME NEW c \in Calls, CreateCall(c) PROVE WriterInv!(q, d)'
  BY <1>1 DEF CreateCall
<1>2. ASSUME NEW c \in Calls, CreateCallFails(c) PROVE WriterInv!(q, d)'
  BY <1>2 DEF CreateCallFails
<1>3. ASSUME NEW c \in Calls, CallStarted(c) PROVE WriterInv!(q, d)'
  BY <1>3 DEF CallStarted
<1>4. ASSUME NEW p \in Procs, NEW c \in Calls, CalleWebhook(p, c) PROVE WriterInv!(q, d)'
  BY <1>4 DEF CalleWebhook
<1>5. ASSUME NEW p \in Procs, NEW c \in Calls, Poll(p, c) PROVE WriterInv!(q, d)'
  BY <1>5 DEF Poll
<1>6. ASSUME NEW p \in Procs, NEW c \in Calls, PollFails(p, c) PROVE WriterInv!(q, d)'
  BY <1>6 DEF PollFails
<1>7. ASSUME NEW p \in Procs, LookUp(p) PROVE WriterInv!(q, d)'
  <2>1. Knows(p, record[proc[p].call])[d] =
          IF d = proc[p].call THEN record[proc[p].call] ELSE proc[p].recordRow[d]
    BY DEF Knows
  <2> QED BY <1>7, <2>1, LookUpEffect DEF OthersStay
<1>8. ASSUME NEW p \in Procs, Sweep(p) PROVE WriterInv!(q, d)'
  BY <1>8, SweepEffect DEF OthersStay
<1>9. ASSUME NEW p \in Procs, SweepEnds(p) PROVE WriterInv!(q, d)'
  BY <1>9 DEF SweepEnds
<1>10. ASSUME NEW p \in Procs, Acquire(p) PROVE WriterInv!(q, d)'
  BY <1>10 DEF Acquire
<1>11. ASSUME NEW p \in Procs, HandleCallUpdate(p) PROVE WriterInv!(q, d)'
  <2>1. Knows(p, proc[p].state)[d] =
          IF d = proc[p].call THEN proc[p].state ELSE proc[p].recordRow[d]
    BY DEF Knows
  <2> QED BY <1>11, <2>1, HandleCallUpdateEffect DEF OthersStay
<1>12. ASSUME NEW p \in Procs, IngestCallState(p) PROVE WriterInv!(q, d)'
  BY <1>12, IngestCallStateEffect DEF OthersStay
<1>13. ASSUME NEW p \in Procs, Act(p) PROVE WriterInv!(q, d)'
  BY <1>13 DEF Act
<1>14. ASSUME NEW p \in Procs, Release(p) PROVE WriterInv!(q, d)'
  BY <1>14 DEF Release, Session
<1>15. ASSUME NEW p \in Procs, Finish(p) PROVE WriterInv!(q, d)'
  BY <1>15 DEF Finish, Commit, Session
<1>16. ASSUME NEW c \in Calls, CallMoves(c) PROVE WriterInv!(q, d)'
  BY <1>16 DEF CallMoves
<1>17. CASE Crash
  BY <1>17, SessionType DEF Crash
<1>18. CASE UNCHANGED vars
  BY <1>18 DEF vars
<1> QED
  BY <1>1, <1>2, <1>3, <1>4, <1>5, <1>6, <1>7, <1>8, <1>9,
     <1>10, <1>11, <1>12, <1>13, <1>14, <1>15, <1>16, <1>17, <1>18
  DEF Next, Handler, Launch, Polling, Ingestion, Procs

\* Until it is started a call is left to the handler that places it.
LEMMA LaunchStep == ASSUME IngestionInv, [Next]_vars PROVE LaunchInv'
<1> SUFFICES ASSUME NEW q \in Procs PROVE LaunchInv!(q)'
  BY DEF LaunchInv
<1> USE IngestionAssumption DEF At, Goto, IngestionInv, TypeOK, LaunchInv, LockInv, Locked,
                                OpenInv
<1>1. ASSUME NEW c \in Calls, CreateCall(c) PROVE LaunchInv!(q)'
  BY <1>1 DEF CreateCall, Statuses, Ringing
<1>2. ASSUME NEW c \in Calls, CreateCallFails(c) PROVE LaunchInv!(q)'
  BY <1>2 DEF CreateCallFails, Statuses, Ringing
<1>3. ASSUME NEW c \in Calls, CallStarted(c) PROVE LaunchInv!(q)'
  BY <1>3 DEF CallStarted
<1>4. ASSUME NEW p \in Procs, NEW c \in Calls, CalleWebhook(p, c) PROVE LaunchInv!(q)'
  BY <1>4 DEF CalleWebhook
<1>5. ASSUME NEW p \in Procs, NEW c \in Calls, Poll(p, c) PROVE LaunchInv!(q)'
  BY <1>5 DEF Poll
<1>6. ASSUME NEW p \in Procs, NEW c \in Calls, PollFails(p, c) PROVE LaunchInv!(q)'
  BY <1>6 DEF PollFails
<1>7. ASSUME NEW p \in Procs, LookUp(p) PROVE LaunchInv!(q)'
  BY <1>7, LookUpEffect DEF OthersStay
<1>8. ASSUME NEW p \in Procs, Sweep(p) PROVE LaunchInv!(q)'
  BY <1>8, SweepEffect DEF OthersStay
<1>9. ASSUME NEW p \in Procs, SweepEnds(p) PROVE LaunchInv!(q)'
  BY <1>9 DEF SweepEnds
<1>10. ASSUME NEW p \in Procs, Acquire(p) PROVE LaunchInv!(q)'
  BY <1>10 DEF Acquire
<1>11. ASSUME NEW p \in Procs, HandleCallUpdate(p) PROVE LaunchInv!(q)'
  BY <1>11, HandleCallUpdateEffect DEF OthersStay
<1>12. ASSUME NEW p \in Procs, IngestCallState(p) PROVE LaunchInv!(q)'
  BY <1>12, IngestCallStateEffect DEF OthersStay
<1>13. ASSUME NEW p \in Procs, Act(p) PROVE LaunchInv!(q)'
  BY <1>13 DEF Act
<1>14. ASSUME NEW p \in Procs, Release(p) PROVE LaunchInv!(q)'
  BY <1>14 DEF Release, Session
<1>15. ASSUME NEW p \in Procs, Finish(p) PROVE LaunchInv!(q)'
  BY <1>15 DEF Finish, Session
<1>16. ASSUME NEW c \in Calls, CallMoves(c) PROVE LaunchInv!(q)'
  BY <1>16 DEF CallMoves, Statuses, Ringing
<1>17. CASE Crash
  BY <1>17, SessionType DEF Crash
<1>18. CASE UNCHANGED vars
  BY <1>18 DEF vars
<1> QED
  BY <1>1, <1>2, <1>3, <1>4, <1>5, <1>6, <1>7, <1>8, <1>9,
     <1>10, <1>11, <1>12, <1>13, <1>14, <1>15, <1>16, <1>17, <1>18
  DEF Next, Handler, Launch, Polling, Ingestion, Procs

\* A handler that hears of a call hears of one that is started.
LEMMA KnownStep == ASSUME IngestionInv, [Next]_vars PROVE KnownInv'
<1> SUFFICES ASSUME NEW q \in Procs, NEW d \in Calls PROVE KnownInv!(q, d)'
  BY DEF KnownInv
<1> USE IngestionAssumption DEF At, Goto, IngestionInv, TypeOK, KnownInv, LaunchInv,
                                RowInv, Started, LockInv, Locked, ProcType
<1>0. /\ line[d] # "undialled" => line'[d] # "undialled"
      /\ op[d] # "queued" => op'[d] # "queued"
  BY StartedStays
<1>1. ASSUME NEW c \in Calls, CreateCall(c) PROVE KnownInv!(q, d)'
  BY <1>0, <1>1 DEF CreateCall
<1>2. ASSUME NEW c \in Calls, CreateCallFails(c) PROVE KnownInv!(q, d)'
  BY <1>0, <1>2 DEF CreateCallFails
<1>3. ASSUME NEW c \in Calls, CallStarted(c) PROVE KnownInv!(q, d)'
  BY <1>0, <1>3 DEF CallStarted
<1>4. ASSUME NEW p \in Procs, NEW c \in Calls, CalleWebhook(p, c) PROVE KnownInv!(q, d)'
  BY <1>0, <1>4 DEF CalleWebhook
<1>5. ASSUME NEW p \in Procs, NEW c \in Calls, Poll(p, c) PROVE KnownInv!(q, d)'
  BY <1>0, <1>5 DEF Poll
<1>6. ASSUME NEW p \in Procs, NEW c \in Calls, PollFails(p, c) PROVE KnownInv!(q, d)'
  BY <1>0, <1>6 DEF PollFails
<1>7. ASSUME NEW p \in Procs, LookUp(p) PROVE KnownInv!(q, d)'
  BY <1>0, <1>7, LookUpEffect DEF OthersStay
<1>8. ASSUME NEW p \in Procs, Sweep(p) PROVE KnownInv!(q, d)'
  BY <1>0, <1>8, SweepEffect DEF OthersStay
<1>9. ASSUME NEW p \in Procs, SweepEnds(p) PROVE KnownInv!(q, d)'
  BY <1>0, <1>9 DEF SweepEnds
<1>10. ASSUME NEW p \in Procs, Acquire(p) PROVE KnownInv!(q, d)'
  BY <1>0, <1>10 DEF Acquire
<1>11. ASSUME NEW p \in Procs, HandleCallUpdate(p) PROVE KnownInv!(q, d)'
  BY <1>0, <1>11, HandleCallUpdateEffect DEF OthersStay
<1>12. ASSUME NEW p \in Procs, IngestCallState(p) PROVE KnownInv!(q, d)'
  BY <1>0, <1>12, IngestCallStateEffect DEF OthersStay
<1>13. ASSUME NEW p \in Procs, Act(p) PROVE KnownInv!(q, d)'
  BY <1>0, <1>13 DEF Act
<1>14. ASSUME NEW p \in Procs, Release(p) PROVE KnownInv!(q, d)'
  BY <1>0, <1>14 DEF Release, Session
<1>15. ASSUME NEW p \in Procs, Finish(p) PROVE KnownInv!(q, d)'
  BY <1>0, <1>15 DEF Finish, Session
<1>16. ASSUME NEW c \in Calls, CallMoves(c) PROVE KnownInv!(q, d)'
  BY <1>0, <1>16 DEF CallMoves
<1>17. CASE Crash
  BY <1>0, <1>17, SessionType DEF Crash
<1>18. CASE UNCHANGED vars
  BY <1>0, <1>18 DEF vars
<1> QED
  BY <1>1, <1>2, <1>3, <1>4, <1>5, <1>6, <1>7, <1>8, <1>9,
     <1>10, <1>11, <1>12, <1>13, <1>14, <1>15, <1>16, <1>17, <1>18
  DEF Next, Handler, Launch, Polling, Ingestion, Procs

\* Another handler closes no call that is about to be ingested.
LEMMA OpenStep == ASSUME IngestionInv, [Next]_vars PROVE OpenInv'
<1> SUFFICES ASSUME NEW q \in Procs PROVE OpenInv!(q)'
  BY DEF OpenInv
<1> USE IngestionAssumption DEF At, Goto, IngestionInv, TypeOK, OpenInv, Started, KnownInv,
                                LaunchInv, LockInv, Locked, FreshInv, ProcType
<1>1. ASSUME NEW c \in Calls, CreateCall(c) PROVE OpenInv!(q)'
  BY <1>1 DEF CreateCall, Statuses, Ringing
<1>2. ASSUME NEW c \in Calls, CreateCallFails(c) PROVE OpenInv!(q)'
  <2>1. CASE q = c
    BY <1>2, <2>1 DEF CreateCallFails
  <2>2. CASE q # c
    <3>1. c \in Procs /\ proc[c].call = c /\ proc[c].at = "dispatch" /\ proc'[q] = proc[q]
      BY <1>2, <2>2 DEF CreateCallFails, Procs
    <3>2. ASSUME proc[q].at = "ingest"
          PROVE  proc[q].call \in Calls \ {c} /\ op'[proc[q].call] = op[proc[q].call]
      BY <1>2, <2>2, <3>1, <3>2, OneHolder DEF CreateCallFails
    <3>3. ASSUME NEW d \in Calls, line[d] # "undialled" PROVE line'[d] # "undialled"
      BY <3>3, StartedStays
    <3> QED BY <3>1, <3>2, <3>3
  <2> QED BY <2>1, <2>2
<1>3. ASSUME NEW c \in Calls, CallStarted(c) PROVE OpenInv!(q)'
  BY <1>3 DEF CallStarted
<1>4. ASSUME NEW p \in Procs, NEW c \in Calls, CalleWebhook(p, c) PROVE OpenInv!(q)'
  BY <1>4 DEF CalleWebhook
<1>5. ASSUME NEW p \in Procs, NEW c \in Calls, Poll(p, c) PROVE OpenInv!(q)'
  BY <1>5 DEF Poll
<1>6. ASSUME NEW p \in Procs, NEW c \in Calls, PollFails(p, c) PROVE OpenInv!(q)'
  BY <1>6 DEF PollFails
<1>7. ASSUME NEW p \in Procs, LookUp(p) PROVE OpenInv!(q)'
  BY <1>7, LookUpEffect DEF OthersStay
<1>8. ASSUME NEW p \in Procs, Sweep(p) PROVE OpenInv!(q)'
  BY <1>8, SweepEffect DEF OthersStay
<1>9. ASSUME NEW p \in Procs, SweepEnds(p) PROVE OpenInv!(q)'
  BY <1>9 DEF SweepEnds
<1>10. ASSUME NEW p \in Procs, Acquire(p) PROVE OpenInv!(q)'
  BY <1>10 DEF Acquire
<1>11. ASSUME NEW p \in Procs, HandleCallUpdate(p) PROVE OpenInv!(q)'
  BY <1>11, HandleCallUpdateEffect DEF OthersStay, OpRow, Closed
<1>12. ASSUME NEW p \in Procs, IngestCallState(p) PROVE OpenInv!(q)'
  <2>1. CASE q = p
    BY <1>12, <2>1, IngestCallStateEffect DEF OthersStay
  <2>2. CASE q # p
    BY <1>12, <2>2, IngestCallStateEffect, OneHolder DEF OthersStay
  <2> QED BY <2>1, <2>2
<1>13. ASSUME NEW p \in Procs, Act(p) PROVE OpenInv!(q)'
  BY <1>13 DEF Act
<1>14. ASSUME NEW p \in Procs, Release(p) PROVE OpenInv!(q)'
  BY <1>14 DEF Release, Session
<1>15. ASSUME NEW p \in Procs, Finish(p) PROVE OpenInv!(q)'
  BY <1>15 DEF Finish, Session
<1>16. ASSUME NEW c \in Calls, CallMoves(c) PROVE OpenInv!(q)'
  BY <1>16 DEF CallMoves, Statuses, Ringing
<1>17. CASE Crash
  BY <1>17, SessionType DEF Crash
<1>18. CASE UNCHANGED vars
  BY <1>18 DEF vars
<1> QED
  BY <1>1, <1>2, <1>3, <1>4, <1>5, <1>6, <1>7, <1>8, <1>9,
     <1>10, <1>11, <1>12, <1>13, <1>14, <1>15, <1>16, <1>17, <1>18
  DEF Next, Handler, Launch, Polling, Ingestion, Procs

\* Only an open call gets a result, and only one that is new is acted upon.
LEMMA CountStep == ASSUME IngestionInv, [Next]_vars PROVE CountInv'
<1> SUFFICES ASSUME NEW d \in Calls PROVE CountInv!(d)'
  BY DEF CountInv
<1> USE IngestionAssumption DEF At, Goto, IngestionInv, TypeOK, CountInv, ActInv, OpenInv,
                                LockInv, Locked, Closed
<1>1. ASSUME NEW c \in Calls, CreateCall(c) PROVE CountInv!(d)'
  BY <1>1 DEF CreateCall
<1>2. ASSUME NEW c \in Calls, CreateCallFails(c) PROVE CountInv!(d)'
  BY <1>2 DEF CreateCallFails
<1>3. ASSUME NEW c \in Calls, CallStarted(c) PROVE CountInv!(d)'
  BY <1>3 DEF CallStarted, LaunchInv, Procs
<1>4. ASSUME NEW p \in Procs, NEW c \in Calls, CalleWebhook(p, c) PROVE CountInv!(d)'
  BY <1>4 DEF CalleWebhook
<1>5. ASSUME NEW p \in Procs, NEW c \in Calls, Poll(p, c) PROVE CountInv!(d)'
  BY <1>5 DEF Poll
<1>6. ASSUME NEW p \in Procs, NEW c \in Calls, PollFails(p, c) PROVE CountInv!(d)'
  BY <1>6 DEF PollFails
<1>7. ASSUME NEW p \in Procs, LookUp(p) PROVE CountInv!(d)'
  BY <1>7, LookUpEffect DEF OthersStay
<1>8. ASSUME NEW p \in Procs, Sweep(p) PROVE CountInv!(d)'
  BY <1>8, SweepEffect DEF OthersStay
<1>9. ASSUME NEW p \in Procs, SweepEnds(p) PROVE CountInv!(d)'
  BY <1>9 DEF SweepEnds
<1>10. ASSUME NEW p \in Procs, Acquire(p) PROVE CountInv!(d)'
  BY <1>10 DEF Acquire
<1>11. ASSUME NEW p \in Procs, HandleCallUpdate(p) PROVE CountInv!(d)'
  BY <1>11, HandleCallUpdateEffect DEF OthersStay
<1>12. ASSUME NEW p \in Procs, IngestCallState(p) PROVE CountInv!(d)'
  <2>1. /\ proc[p].call \in Calls /\ op[proc[p].call] = "calling" /\ proc[p].state \in Closed
        /\ results[proc[p].call] = 0
    BY <1>12 DEF IngestCallState, FreshInv
  <2>2. CASE d = proc[p].call
    BY <1>12, <2>1, <2>2, IngestCallStateEffect
  <2>3. CASE d # proc[p].call
    BY <1>12, <2>1, <2>3, IngestCallStateEffect
  <2> QED BY <2>2, <2>3
<1>13. ASSUME NEW p \in Procs, Act(p) PROVE CountInv!(d)'
  BY <1>13 DEF Act
<1>14. ASSUME NEW p \in Procs, Release(p) PROVE CountInv!(d)'
  BY <1>14 DEF Release
<1>15. ASSUME NEW p \in Procs, Finish(p) PROVE CountInv!(d)'
  BY <1>15 DEF Finish
<1>16. ASSUME NEW c \in Calls, CallMoves(c) PROVE CountInv!(d)'
  BY <1>16 DEF CallMoves
<1>17. CASE Crash
  BY <1>17, SessionType DEF Crash
<1>18. CASE UNCHANGED vars
  BY <1>18 DEF vars
<1> QED
  BY <1>1, <1>2, <1>3, <1>4, <1>5, <1>6, <1>7, <1>8, <1>9,
     <1>10, <1>11, <1>12, <1>13, <1>14, <1>15, <1>16, <1>17, <1>18
  DEF Next, Handler, Launch, Polling, Ingestion, Procs

\* Between a result and what is made of it no other handler comes in.
LEMMA ActStep == ASSUME IngestionInv, [Next]_vars PROVE ActInv'
<1> SUFFICES ASSUME NEW q \in Procs PROVE ActInv!(q)'
  BY DEF ActInv
<1> USE IngestionAssumption DEF At, Goto, IngestionInv, TypeOK, ActInv, CountInv, OpenInv,
                                LockInv, Locked, Closed, ProcType
<1>1. ASSUME NEW c \in Calls, CreateCall(c) PROVE ActInv!(q)'
  BY <1>1 DEF CreateCall
<1>2. ASSUME NEW c \in Calls, CreateCallFails(c) PROVE ActInv!(q)'
  BY <1>2 DEF CreateCallFails
<1>3. ASSUME NEW c \in Calls, CallStarted(c) PROVE ActInv!(q)'
  BY <1>3 DEF CallStarted
<1>4. ASSUME NEW p \in Procs, NEW c \in Calls, CalleWebhook(p, c) PROVE ActInv!(q)'
  BY <1>4 DEF CalleWebhook
<1>5. ASSUME NEW p \in Procs, NEW c \in Calls, Poll(p, c) PROVE ActInv!(q)'
  BY <1>5 DEF Poll
<1>6. ASSUME NEW p \in Procs, NEW c \in Calls, PollFails(p, c) PROVE ActInv!(q)'
  BY <1>6 DEF PollFails
<1>7. ASSUME NEW p \in Procs, LookUp(p) PROVE ActInv!(q)'
  BY <1>7, LookUpEffect DEF OthersStay
<1>8. ASSUME NEW p \in Procs, Sweep(p) PROVE ActInv!(q)'
  BY <1>8, SweepEffect DEF OthersStay
<1>9. ASSUME NEW p \in Procs, SweepEnds(p) PROVE ActInv!(q)'
  BY <1>9 DEF SweepEnds
<1>10. ASSUME NEW p \in Procs, Acquire(p) PROVE ActInv!(q)'
  BY <1>10 DEF Acquire
<1>11. ASSUME NEW p \in Procs, HandleCallUpdate(p) PROVE ActInv!(q)'
  BY <1>11, HandleCallUpdateEffect DEF OthersStay
<1>12. ASSUME NEW p \in Procs, IngestCallState(p) PROVE ActInv!(q)'
  BY <1>12, IngestCallStateEffect DEF OthersStay
<1>13. ASSUME NEW p \in Procs, Act(p) PROVE ActInv!(q)'
  BY <1>13 DEF Act
<1>14. ASSUME NEW p \in Procs, Release(p) PROVE ActInv!(q)'
  BY <1>14 DEF Release, Session
<1>15. ASSUME NEW p \in Procs, Finish(p) PROVE ActInv!(q)'
  BY <1>15 DEF Finish, Session
<1>16. ASSUME NEW c \in Calls, CallMoves(c) PROVE ActInv!(q)'
  BY <1>16 DEF CallMoves
<1>17. CASE Crash
  BY <1>17, SessionType DEF Crash
<1>18. CASE UNCHANGED vars
  BY <1>18 DEF vars
<1> QED
  BY <1>1, <1>2, <1>3, <1>4, <1>5, <1>6, <1>7, <1>8, <1>9,
     <1>10, <1>11, <1>12, <1>13, <1>14, <1>15, <1>16, <1>17, <1>18
  DEF Next, Handler, Launch, Polling, Ingestion, Procs

-----------------------------------------------------------------------------
(* What a late status may not do: the record of a call and its result *)

\* Somebody has been told the status of a call and has not compared it yet.
Told(p, c) == proc[p].at \in {"lookup", "wait", "check"} /\ proc[p].call = c

\* CALL-E had the answer when create_call returned: nobody has been told anything else.
AtOnce(c) ==
    /\ line[c] \in TERMINAL_STATUSES
    /\ \A p \in Procs : Told(p, c) => proc[p].state \in TERMINAL_STATUSES

\* A delivery is about a call that was dialled.
HeardInv ==
    \A p \in Procs : /\ At(p, "lookup") => line[proc[p].call] # "undialled"
                     /\ At(p, "dispatch") => line[p] = "undialled"

\* A record ends before its operation only if the answer was there at once.
AtOnceInv ==
    \A c \in Calls :
        ((At(c, "dispatched") /\ proc[c].state \in TERMINAL_STATUSES)
           \/ (record[c] \in TERMINAL_STATUSES /\ results[c] = 0)) => AtOnce(c)

\* What is flushed and not committed is of a call that is neither ended nor closed.
LateInv ==
    \A c \in Calls :
        /\ writer[c] # Nobody => results[c] = 0 /\ record[c] \notin TERMINAL_STATUSES
        /\ results[c] > 0 => record[c] = op[c] /\ record[c] \in TERMINAL_STATUSES

\* It is no end either, and an end that a session has read has not gone away.
SeenInv ==
    \A p \in Procs, c \in Calls :
        /\ writer[c] = p => proc[p].recordRow[c] \notin TERMINAL_STATUSES
        /\ proc[p].recordRow[c] \in TERMINAL_STATUSES => record[c] \in TERMINAL_STATUSES

RecordInv == IngestionInv /\ HeardInv /\ AtOnceInv /\ LateInv /\ SeenInv

\* Only a call that was dialled is delivered, and a new one only by its own handler.
LEMMA HeardStep == ASSUME RecordInv, [Next]_vars PROVE HeardInv'
<1> SUFFICES ASSUME NEW q \in Procs PROVE HeardInv!(q)'
  BY DEF HeardInv
<1> USE IngestionAssumption DEF At, Goto, RecordInv, IngestionInv, TypeOK, HeardInv, LockInv,
                                Locked, ProcType, LaunchInv
<1>1. ASSUME NEW c \in Calls, CreateCall(c) PROVE HeardInv!(q)'
  BY <1>1 DEF CreateCall, Statuses, Ringing
<1>2. ASSUME NEW c \in Calls, CreateCallFails(c) PROVE HeardInv!(q)'
  BY <1>2 DEF CreateCallFails
<1>3. ASSUME NEW c \in Calls, CallStarted(c) PROVE HeardInv!(q)'
  BY <1>3 DEF CallStarted
<1>4. ASSUME NEW p \in Procs, NEW c \in Calls, CalleWebhook(p, c) PROVE HeardInv!(q)'
  BY <1>4 DEF CalleWebhook
<1>5. ASSUME NEW p \in Procs, NEW c \in Calls, Poll(p, c) PROVE HeardInv!(q)'
  BY <1>5 DEF Poll
<1>6. ASSUME NEW p \in Procs, NEW c \in Calls, PollFails(p, c) PROVE HeardInv!(q)'
  BY <1>6 DEF PollFails
<1>7. ASSUME NEW p \in Procs, LookUp(p) PROVE HeardInv!(q)'
  BY <1>7, LookUpEffect DEF OthersStay
<1>8. ASSUME NEW p \in Procs, Sweep(p) PROVE HeardInv!(q)'
  BY <1>8, SweepEffect DEF OthersStay
<1>9. ASSUME NEW p \in Procs, SweepEnds(p) PROVE HeardInv!(q)'
  BY <1>9 DEF SweepEnds
<1>10. ASSUME NEW p \in Procs, Acquire(p) PROVE HeardInv!(q)'
  BY <1>10 DEF Acquire
<1>11. ASSUME NEW p \in Procs, HandleCallUpdate(p) PROVE HeardInv!(q)'
  BY <1>11, HandleCallUpdateEffect DEF OthersStay
<1>12. ASSUME NEW p \in Procs, IngestCallState(p) PROVE HeardInv!(q)'
  BY <1>12, IngestCallStateEffect DEF OthersStay
<1>13. ASSUME NEW p \in Procs, Act(p) PROVE HeardInv!(q)'
  BY <1>13 DEF Act
<1>14. ASSUME NEW p \in Procs, Release(p) PROVE HeardInv!(q)'
  BY <1>14 DEF Release, Session
<1>15. ASSUME NEW p \in Procs, Finish(p) PROVE HeardInv!(q)'
  BY <1>15 DEF Finish, Commit, Session
<1>16. ASSUME NEW c \in Calls, CallMoves(c) PROVE HeardInv!(q)'
  BY <1>16 DEF CallMoves, Statuses, Ringing
<1>17. CASE Crash
  BY <1>17, SessionType DEF Crash
<1>18. CASE UNCHANGED vars
  BY <1>18 DEF vars
<1> QED
  BY <1>1, <1>2, <1>3, <1>4, <1>5, <1>6, <1>7, <1>8, <1>9,
     <1>10, <1>11, <1>12, <1>13, <1>14, <1>15, <1>16, <1>17, <1>18
  DEF Next, Handler, Launch, Polling, Ingestion, Procs

\* An answer that was there at once is all that anybody is told.
LEMMA AtOnceStays ==
    ASSUME RecordInv, [Next]_vars, NEW d \in Calls, AtOnce(d) PROVE AtOnce(d)'
<1> SUFFICES ASSUME NEW q \in Procs
             PROVE  /\ line'[d] \in TERMINAL_STATUSES
                    /\ Told(q, d)' => proc'[q].state \in TERMINAL_STATUSES
  BY DEF AtOnce, Told, Procs
<1> DEFINE Stays == /\ line'[d] \in TERMINAL_STATUSES
                    /\ Told(q, d)' => proc'[q].state \in TERMINAL_STATUSES
<1>0. /\ line[d] \in TERMINAL_STATUSES
      /\ Told(q, d) => proc[q].state \in TERMINAL_STATUSES
  BY DEF AtOnce
<1> USE IngestionAssumption DEF At, Goto, RecordInv, IngestionInv, TypeOK, Told, LockInv,
                                Locked, ProcType
<1>1. ASSUME NEW c \in Calls, CreateCall(c) PROVE Stays
  <2>1. c \in Procs /\ d # c
    BY <1>0, <1>1 DEF CreateCall, HeardInv, Procs
  <2> QED BY <1>0, <1>1, <2>1 DEF CreateCall
<1>2. ASSUME NEW c \in Calls, CreateCallFails(c) PROVE Stays
  <2>1. c \in Procs /\ d # c
    BY <1>0, <1>2 DEF CreateCallFails, HeardInv, Procs
  <2> QED BY <1>0, <1>2, <2>1 DEF CreateCallFails
<1>3. ASSUME NEW c \in Calls, CallStarted(c) PROVE Stays
  BY <1>0, <1>3 DEF CallStarted
<1>4. ASSUME NEW p \in Procs, NEW c \in Calls, CalleWebhook(p, c) PROVE Stays
  BY <1>0, <1>4 DEF CalleWebhook
<1>5. ASSUME NEW p \in Procs, NEW c \in Calls, Poll(p, c) PROVE Stays
  BY <1>0, <1>5 DEF Poll
<1>6. ASSUME NEW p \in Procs, NEW c \in Calls, PollFails(p, c) PROVE Stays
  BY <1>0, <1>6 DEF PollFails
<1>7. ASSUME NEW p \in Procs, LookUp(p) PROVE Stays
  BY <1>0, <1>7, LookUpEffect DEF OthersStay
<1>8. ASSUME NEW p \in Procs, Sweep(p) PROVE Stays
  BY <1>0, <1>8, SweepEffect DEF OthersStay
<1>9. ASSUME NEW p \in Procs, SweepEnds(p) PROVE Stays
  BY <1>0, <1>9 DEF SweepEnds
<1>10. ASSUME NEW p \in Procs, Acquire(p) PROVE Stays
  BY <1>0, <1>10 DEF Acquire
<1>11. ASSUME NEW p \in Procs, HandleCallUpdate(p) PROVE Stays
  BY <1>0, <1>11, HandleCallUpdateEffect DEF OthersStay
<1>12. ASSUME NEW p \in Procs, IngestCallState(p) PROVE Stays
  BY <1>0, <1>12, IngestCallStateEffect DEF OthersStay
<1>13. ASSUME NEW p \in Procs, Act(p) PROVE Stays
  BY <1>0, <1>13 DEF Act
<1>14. ASSUME NEW p \in Procs, Release(p) PROVE Stays
  BY <1>0, <1>14 DEF Release, Session
<1>15. ASSUME NEW p \in Procs, Finish(p) PROVE Stays
  BY <1>0, <1>15 DEF Finish, Commit, Session
<1>16. ASSUME NEW c \in Calls, CallMoves(c) PROVE Stays
  BY <1>0, <1>16 DEF CallMoves, Statuses, Ringing
<1>17. CASE Crash
  BY <1>0, <1>17, SessionType DEF Crash
<1>18. CASE UNCHANGED vars
  BY <1>0, <1>18 DEF vars
<1> QED
  BY <1>1, <1>2, <1>3, <1>4, <1>5, <1>6, <1>7, <1>8, <1>9,
     <1>10, <1>11, <1>12, <1>13, <1>14, <1>15, <1>16, <1>17, <1>18
  DEF Next, Handler, Launch, Polling, Ingestion, Procs

\* A record that ends alone ends with an answer that was there at once.
LEMMA AtOnceStep == ASSUME RecordInv, [Next]_vars PROVE AtOnceInv'
<1> SUFFICES ASSUME NEW d \in Calls PROVE AtOnceInv!(d)'
  BY DEF AtOnceInv
<1>0. AtOnce(d) => AtOnce(d)'
  BY AtOnceStays
<1> USE IngestionAssumption DEF At, Goto, RecordInv, IngestionInv, TypeOK, AtOnceInv, LateInv,
                                SeenInv, LockInv, Locked, ProcType, Procs
<1>1. ASSUME NEW c \in Calls, CreateCall(c) PROVE AtOnceInv!(d)'
  <2>1. c \in Procs /\ op[c] = "queued" /\ line[c] = "undialled" /\ proc'[c].at = "dispatched"
    BY <1>1 DEF CreateCall, HeardInv, LaunchInv
  <2>2. CASE d # c
    BY <1>0, <1>1, <2>2 DEF CreateCall
  <2>3. CASE d = c
    <3>1. record'[c] \notin TERMINAL_STATUSES
      BY <1>1, <2>1 DEF CreateCall, RowInv, Started
    <3>2. ASSUME proc'[c].state \in TERMINAL_STATUSES PROVE AtOnce(c)'
      <4>1. line'[c] \in TERMINAL_STATUSES
        BY <1>1, <3>2 DEF CreateCall
      <4>2. ASSUME NEW p \in Procs PROVE ~Told(p, c)'
        BY <1>1, <2>1 DEF CreateCall, Told, HeardInv, KnownInv, Started
      <4> QED BY <4>1, <4>2 DEF AtOnce
    <3> QED BY <2>3, <3>1, <3>2
  <2> QED BY <2>2, <2>3
<1>2. ASSUME NEW c \in Calls, CreateCallFails(c) PROVE AtOnceInv!(d)'
  BY <1>0, <1>2 DEF CreateCallFails
<1>3. ASSUME NEW c \in Calls, CallStarted(c) PROVE AtOnceInv!(d)'
  BY <1>0, <1>3 DEF CallStarted
<1>4. ASSUME NEW p \in Procs, NEW c \in Calls, CalleWebhook(p, c) PROVE AtOnceInv!(d)'
  BY <1>0, <1>4 DEF CalleWebhook
<1>5. ASSUME NEW p \in Procs, NEW c \in Calls, Poll(p, c) PROVE AtOnceInv!(d)'
  BY <1>0, <1>5 DEF Poll
<1>6. ASSUME NEW p \in Procs, NEW c \in Calls, PollFails(p, c) PROVE AtOnceInv!(d)'
  BY <1>0, <1>6 DEF PollFails
<1>7. ASSUME NEW p \in Procs, LookUp(p) PROVE AtOnceInv!(d)'
  BY <1>0, <1>7, LookUpEffect DEF OthersStay
<1>8. ASSUME NEW p \in Procs, Sweep(p) PROVE AtOnceInv!(d)'
  BY <1>0, <1>8, SweepEffect DEF OthersStay
<1>9. ASSUME NEW p \in Procs, SweepEnds(p) PROVE AtOnceInv!(d)'
  BY <1>0, <1>9 DEF SweepEnds
<1>10. ASSUME NEW p \in Procs, Acquire(p) PROVE AtOnceInv!(d)'
  BY <1>0, <1>10 DEF Acquire
<1>11. ASSUME NEW p \in Procs, HandleCallUpdate(p) PROVE AtOnceInv!(d)'
  BY <1>0, <1>11, HandleCallUpdateEffect DEF OthersStay
<1>12. ASSUME NEW p \in Procs, IngestCallState(p) PROVE AtOnceInv!(d)'
  <2>1. CASE d = proc[p].call
    <3>1. (results'[d] = results[d] /\ record'[d] = record[d]) \/ results'[d] # 0
      BY <1>12, <2>1, IngestCallStateEffect DEF CountInv
    <3> QED BY <1>0, <1>12, <3>1, IngestCallStateEffect DEF OthersStay
  <2>2. CASE d # proc[p].call
    <3>1. results'[d] = results[d]
      BY <1>12, <2>2 DEF IngestCallState
    <3>2. \/ record'[d] = record[d]
          \/ writer[d] = p /\ record'[d] = proc[p].recordRow[d]
      BY <1>12, <2>2, IngestCallStateEffect
    <3>3. record'[d] = record[d] \/ record'[d] \notin TERMINAL_STATUSES
      BY <3>2
    <3> QED BY <1>0, <1>12, <3>1, <3>3, IngestCallStateEffect DEF OthersStay
  <2> QED BY <2>1, <2>2
<1>13. ASSUME NEW p \in Procs, Act(p) PROVE AtOnceInv!(d)'
  BY <1>0, <1>13 DEF Act
<1>14. ASSUME NEW p \in Procs, Release(p) PROVE AtOnceInv!(d)'
  BY <1>0, <1>14 DEF Release, Session
<1>15. ASSUME NEW p \in Procs, Finish(p) PROVE AtOnceInv!(d)'
  BY <1>0, <1>15 DEF Finish, Commit, Session
<1>16. ASSUME NEW c \in Calls, CallMoves(c) PROVE AtOnceInv!(d)'
  BY <1>0, <1>16 DEF CallMoves
<1>17. CASE Crash
  BY <1>0, <1>17, SessionType DEF Crash
<1>18. CASE UNCHANGED vars
  BY <1>0, <1>18 DEF vars
<1> QED
  BY <1>1, <1>2, <1>3, <1>4, <1>5, <1>6, <1>7, <1>8, <1>9,
     <1>10, <1>11, <1>12, <1>13, <1>14, <1>15, <1>16, <1>17, <1>18
  DEF Next, Handler, Launch, Polling, Ingestion, Procs

\* A handler flushes a status of a call that has neither ended nor been closed.
LEMMA LateStep == ASSUME RecordInv, [Next]_vars PROVE LateInv'
<1> SUFFICES ASSUME NEW d \in Calls PROVE LateInv!(d)'
  BY DEF LateInv
<1> USE IngestionAssumption DEF At, Goto, RecordInv, IngestionInv, TypeOK, LateInv, CountInv,
                                LockInv, Locked, ProcType
<1>1. ASSUME NEW c \in Calls, CreateCall(c) PROVE LateInv!(d)'
  BY <1>1 DEF CreateCall
<1>2. ASSUME NEW c \in Calls, CreateCallFails(c) PROVE LateInv!(d)'
  BY <1>2 DEF CreateCallFails, LaunchInv, Procs, Closed
<1>3. ASSUME NEW c \in Calls, CallStarted(c) PROVE LateInv!(d)'
  <2>1. c \in Procs /\ op[c] = "queued"
    BY <1>3 DEF CallStarted, LaunchInv, Procs
  <2>2. writer[c] = Nobody /\ results[c] = 0
    BY <2>1 DEF RowInv, Started, Closed
  <2> QED BY <1>3, <2>2 DEF CallStarted
<1>4. ASSUME NEW p \in Procs, NEW c \in Calls, CalleWebhook(p, c) PROVE LateInv!(d)'
  BY <1>4 DEF CalleWebhook
<1>5. ASSUME NEW p \in Procs, NEW c \in Calls, Poll(p, c) PROVE LateInv!(d)'
  BY <1>5 DEF Poll
<1>6. ASSUME NEW p \in Procs, NEW c \in Calls, PollFails(p, c) PROVE LateInv!(d)'
  BY <1>6 DEF PollFails
<1>7. ASSUME NEW p \in Procs, LookUp(p) PROVE LateInv!(d)'
  BY <1>7, LookUpEffect DEF OthersStay
<1>8. ASSUME NEW p \in Procs, Sweep(p) PROVE LateInv!(d)'
  BY <1>8, SweepEffect DEF OthersStay
<1>9. ASSUME NEW p \in Procs, SweepEnds(p) PROVE LateInv!(d)'
  BY <1>9 DEF SweepEnds
<1>10. ASSUME NEW p \in Procs, Acquire(p) PROVE LateInv!(d)'
  BY <1>10 DEF Acquire
<1>11. ASSUME NEW p \in Procs, HandleCallUpdate(p) PROVE LateInv!(d)'
  <2> DEFINE c == proc[p].call
  <2>1. At(p, "check") /\ c \in Calls /\ OpRow(p) = op[c]
    BY <1>11 DEF HandleCallUpdate, FreshInv, OpRow
  <2>2. CASE OpRow(p) \notin Closed /\ proc[p].state \notin TERMINAL_STATUSES
    <3>1. results[c] = 0 /\ record[c] \notin TERMINAL_STATUSES
      BY <2>1, <2>2 DEF AtOnceInv, AtOnce, Told
    <3> QED BY <1>11, <2>1, <3>1, HandleCallUpdateEffect
  <2>3. CASE ~(OpRow(p) \notin Closed /\ proc[p].state \notin TERMINAL_STATUSES)
    BY <1>11, <2>3, HandleCallUpdateEffect
  <2> QED BY <2>2, <2>3
<1>12. ASSUME NEW p \in Procs, IngestCallState(p) PROVE LateInv!(d)'
  <2> DEFINE c == proc[p].call
  <2>1. c \in Calls /\ proc[p].state \in TERMINAL_STATUSES /\ MayUpdate(p)
    BY <1>12 DEF IngestCallState, FreshInv
  <2>2. writer[c] \in {Nobody, p}
    BY <2>1 DEF MayUpdate, RecordRow, SeenInv
  <2>3. CASE d = c
    BY <1>12, <2>1, <2>2, <2>3, IngestCallStateEffect
  <2>4. CASE d # c
    BY <1>12, <2>1, <2>4, IngestCallStateEffect
  <2> QED BY <2>3, <2>4
<1>13. ASSUME NEW p \in Procs, Act(p) PROVE LateInv!(d)'
  BY <1>13 DEF Act
<1>14. ASSUME NEW p \in Procs, Release(p) PROVE LateInv!(d)'
  BY <1>14 DEF Release, Session
<1>15. ASSUME NEW p \in Procs, Finish(p) PROVE LateInv!(d)'
  BY <1>15 DEF Finish, Commit, Session
<1>16. ASSUME NEW c \in Calls, CallMoves(c) PROVE LateInv!(d)'
  BY <1>16 DEF CallMoves
<1>17. CASE Crash
  BY <1>17, SessionType DEF Crash
<1>18. CASE UNCHANGED vars
  BY <1>18 DEF vars
<1> QED
  BY <1>1, <1>2, <1>3, <1>4, <1>5, <1>6, <1>7, <1>8, <1>9,
     <1>10, <1>11, <1>12, <1>13, <1>14, <1>15, <1>16, <1>17, <1>18
  DEF Next, Handler, Launch, Polling, Ingestion, Procs

\* No session writes an end back, and no end it has read is undone.
LEMMA SeenStep == ASSUME RecordInv, [Next]_vars PROVE SeenInv'
<1> SUFFICES ASSUME NEW q \in Procs, NEW d \in Calls PROVE SeenInv!(q, d)'
  BY DEF SeenInv
<1> USE IngestionAssumption DEF At, Goto, RecordInv, IngestionInv, TypeOK, SeenInv, LateInv,
                                LockInv, Locked, ProcType
<1>1. ASSUME NEW c \in Calls, CreateCall(c) PROVE SeenInv!(q, d)'
  BY <1>1 DEF CreateCall
<1>2. ASSUME NEW c \in Calls, CreateCallFails(c) PROVE SeenInv!(q, d)'
  BY <1>2 DEF CreateCallFails
<1>3. ASSUME NEW c \in Calls, CallStarted(c) PROVE SeenInv!(q, d)'
  <2>1. c \in Procs /\ op[c] = "queued"
    BY <1>3 DEF CallStarted, LaunchInv, Procs
  <2>2. writer[c] = Nobody /\ record[c] \notin TERMINAL_STATUSES
    BY <2>1 DEF RowInv, Started
  <2> QED BY <1>3, <2>1, <2>2 DEF CallStarted
<1>4. ASSUME NEW p \in Procs, NEW c \in Calls, CalleWebhook(p, c) PROVE SeenInv!(q, d)'
  BY <1>4 DEF CalleWebhook
<1>5. ASSUME NEW p \in Procs, NEW c \in Calls, Poll(p, c) PROVE SeenInv!(q, d)'
  BY <1>5 DEF Poll
<1>6. ASSUME NEW p \in Procs, NEW c \in Calls, PollFails(p, c) PROVE SeenInv!(q, d)'
  BY <1>6 DEF PollFails
<1>7. ASSUME NEW p \in Procs, LookUp(p) PROVE SeenInv!(q, d)'
  <2>1. Knows(p, record[proc[p].call])[d] =
          IF d = proc[p].call THEN record[proc[p].call] ELSE proc[p].recordRow[d]
    BY DEF Knows
  <2>2. proc[p].call \in Calls /\ writer' = writer /\ record' = record
    BY <1>7 DEF LookUp
  <2>3. CASE q # p
    BY <1>7, <2>2, <2>3, LookUpEffect DEF OthersStay
  <2>4. CASE q = p
    <3>1. \/ proc'[p].recordRow = proc[p].recordRow
          \/ proc'[p].recordRow = Knows(p, record[proc[p].call])
      BY <1>7, LookUpEffect
    <3> QED BY <2>1, <2>2, <2>4, <3>1
  <2> QED BY <2>3, <2>4
<1>8. ASSUME NEW p \in Procs, Sweep(p) PROVE SeenInv!(q, d)'
  BY <1>8, SweepEffect DEF OthersStay
<1>9. ASSUME NEW p \in Procs, SweepEnds(p) PROVE SeenInv!(q, d)'
  BY <1>9 DEF SweepEnds
<1>10. ASSUME NEW p \in Procs, Acquire(p) PROVE SeenInv!(q, d)'
  BY <1>10 DEF Acquire
<1>11. ASSUME NEW p \in Procs, HandleCallUpdate(p) PROVE SeenInv!(q, d)'
  <2>1. Knows(p, proc[p].state)[d] =
          IF d = proc[p].call THEN proc[p].state ELSE proc[p].recordRow[d]
    BY DEF Knows
  <2> QED BY <1>11, <2>1, HandleCallUpdateEffect DEF OthersStay
<1>12. ASSUME NEW p \in Procs, IngestCallState(p) PROVE SeenInv!(q, d)'
  <2>1. proc[p].state \in TERMINAL_STATUSES
    BY <1>12 DEF IngestCallState, FreshInv
  <2>2. proc'[q].recordRow = proc[q].recordRow
    BY <1>12, IngestCallStateEffect DEF OthersStay
  <2>3. CASE d = proc[p].call
    BY <1>12, <2>1, <2>2, <2>3, IngestCallStateEffect
  <2>4. CASE d # proc[p].call
    BY <1>12, <2>2, <2>4, IngestCallStateEffect
  <2> QED BY <2>3, <2>4
<1>13. ASSUME NEW p \in Procs, Act(p) PROVE SeenInv!(q, d)'
  BY <1>13 DEF Act
<1>14. ASSUME NEW p \in Procs, Release(p) PROVE SeenInv!(q, d)'
  BY <1>14 DEF Release, Session
<1>15. ASSUME NEW p \in Procs, Finish(p) PROVE SeenInv!(q, d)'
  <2>1. record'[d] = IF writer[d] = p THEN proc[p].recordRow[d] ELSE record[d]
    BY <1>15 DEF Finish, Commit
  <2>2. writer'[d] = IF writer[d] = p THEN Nobody ELSE writer[d]
    BY <1>15 DEF Finish, Commit
  <2>3. proc'[q].recordRow[d] \in {proc[q].recordRow[d], "unread"}
    BY <1>15 DEF Finish, Session, Unread
  <2> QED BY <1>15, <2>1, <2>2, <2>3
<1>16. ASSUME NEW c \in Calls, CallMoves(c) PROVE SeenInv!(q, d)'
  BY <1>16 DEF CallMoves
<1>17. CASE Crash
  <2>1. proc'[q].recordRow[d] = "unread"
    BY <1>17 DEF Crash, Session, Unread
  <2> QED BY <1>17, <2>1 DEF Crash
<1>18. CASE UNCHANGED vars
  BY <1>18 DEF vars
<1> QED
  BY <1>1, <1>2, <1>3, <1>4, <1>5, <1>6, <1>7, <1>8, <1>9,
     <1>10, <1>11, <1>12, <1>13, <1>14, <1>15, <1>16, <1>17, <1>18
  DEF Next, Handler, Launch, Polling, Ingestion, Procs

-----------------------------------------------------------------------------
(* Who waits for whom *)

\* Who holds a lock works on its call.
HolderInv ==
    \A c \in Calls : holder[c] # Nobody => /\ proc[holder[c]].at \in Locked
                                           /\ proc[holder[c]].call = c

\* Who has flushed a row is on his way out, or the poller, ...
FlushInv ==
    \A p \in Procs, c \in Calls :
        writer[c] = p => p \in Pollers \/ proc[p].at \in {"release", "finish"}

\* ... whose sweep comes to each call once.
SweepInv ==
    \A p \in Pollers :
        /\ proc[p].at \in {"wait", "check"} => proc[p].call \notin proc[p].todo
        /\ \A c \in Calls : c \in proc[p].todo \/ (At(p, "wait") /\ proc[p].call = c)
                              => writer[c] # p

\* Only the routes of OperatorIngestion wait with a request.
SubmitInv == \A p \in Procs : ~At(p, "submit")

CircleInv == IngestionInv /\ HolderInv /\ FlushInv /\ SweepInv /\ SubmitInv

\* A lock changes hands only at the two ends of the work on its call.
LEMMA HolderStep == ASSUME CircleInv, [Next]_vars PROVE HolderInv'
<1> SUFFICES ASSUME NEW d \in Calls PROVE HolderInv!(d)'
  BY DEF HolderInv
<1> USE IngestionAssumption DEF At, Goto, CircleInv, IngestionInv, TypeOK, HolderInv, LockInv,
                                Locked, ProcType, Procs
<1>1. ASSUME NEW c \in Calls, CreateCall(c) PROVE HolderInv!(d)'
  BY <1>1 DEF CreateCall
<1>2. ASSUME NEW c \in Calls, CreateCallFails(c) PROVE HolderInv!(d)'
  BY <1>2 DEF CreateCallFails
<1>3. ASSUME NEW c \in Calls, CallStarted(c) PROVE HolderInv!(d)'
  BY <1>3 DEF CallStarted
<1>4. ASSUME NEW p \in Webhooks, NEW c \in Calls, CalleWebhook(p, c) PROVE HolderInv!(d)'
  BY <1>4 DEF CalleWebhook
<1>5. ASSUME NEW p \in Procs, NEW c \in Calls, Poll(p, c) PROVE HolderInv!(d)'
  BY <1>5 DEF Poll
<1>6. ASSUME NEW p \in Procs, NEW c \in Calls, PollFails(p, c) PROVE HolderInv!(d)'
  BY <1>6 DEF PollFails
<1>7. ASSUME NEW p \in Webhooks, LookUp(p) PROVE HolderInv!(d)'
  <2>1. holder' = holder /\ OthersStay(p) /\ p \in Procs /\ proc[p].at \notin Locked
    BY <1>7, LookUpEffect DEF OthersStay
  <2>2. holder[d] # Nobody => holder[d] \in Procs \ {p}
    BY <2>1
  <2> QED BY <2>1, <2>2 DEF OthersStay
<1>8. ASSUME NEW p \in Procs, Sweep(p) PROVE HolderInv!(d)'
  <2>1. holder' = holder /\ OthersStay(p) /\ p \in Procs /\ proc[p].at \notin Locked
    BY <1>8, SweepEffect DEF Sweep, OthersStay
  <2>2. holder[d] # Nobody => holder[d] \in Procs \ {p}
    BY <2>1
  <2> QED BY <2>1, <2>2 DEF OthersStay
<1>9. ASSUME NEW p \in Procs, SweepEnds(p) PROVE HolderInv!(d)'
  BY <1>9 DEF SweepEnds
<1>10. ASSUME NEW p \in Procs, Acquire(p) PROVE HolderInv!(d)'
  BY <1>10 DEF Acquire
<1>11. ASSUME NEW p \in Procs, HandleCallUpdate(p) PROVE HolderInv!(d)'
  <2>1. /\ holder' = holder /\ OthersStay(p) /\ proc'[p].call = proc[p].call
        /\ proc'[p].at \in Locked
    BY <1>11, HandleCallUpdateEffect
  <2>2. ASSUME holder[d] # Nobody
        PROVE  proc'[holder[d]].at \in Locked /\ proc'[holder[d]].call = d
    <3>1. CASE holder[d] = p
      BY <2>1, <2>2, <3>1
    <3>2. CASE holder[d] # p
      BY <2>1, <2>2, <3>2 DEF OthersStay
    <3> QED BY <3>1, <3>2
  <2> QED BY <2>1, <2>2
<1>12. ASSUME NEW p \in Procs, IngestCallState(p) PROVE HolderInv!(d)'
  <2>1. /\ holder' = holder /\ OthersStay(p) /\ proc'[p].call = proc[p].call
        /\ proc'[p].at \in Locked
    BY <1>12, IngestCallStateEffect
  <2>2. ASSUME holder[d] # Nobody
        PROVE  proc'[holder[d]].at \in Locked /\ proc'[holder[d]].call = d
    <3>1. CASE holder[d] = p
      BY <2>1, <2>2, <3>1
    <3>2. CASE holder[d] # p
      BY <2>1, <2>2, <3>2 DEF OthersStay
    <3> QED BY <3>1, <3>2
  <2> QED BY <2>1, <2>2
<1>13. ASSUME NEW p \in Procs, Act(p) PROVE HolderInv!(d)'
  BY <1>13 DEF Act
<1>14. ASSUME NEW p \in Procs, Release(p) PROVE HolderInv!(d)'
  BY <1>14 DEF Release, Session
<1>15. ASSUME NEW p \in Procs, Finish(p) PROVE HolderInv!(d)'
  BY <1>15 DEF Finish, Commit, Session
<1>16. ASSUME NEW c \in Calls, CallMoves(c) PROVE HolderInv!(d)'
  BY <1>16 DEF CallMoves
<1>17. CASE Crash
  BY <1>17, SessionType DEF Crash
<1>18. CASE UNCHANGED vars
  BY <1>18 DEF vars
<1> QED
  BY <1>1, <1>2, <1>3, <1>4, <1>5, <1>6, <1>7, <1>8, <1>9,
     <1>10, <1>11, <1>12, <1>13, <1>14, <1>15, <1>16, <1>17, <1>18
  DEF Next, Handler, Launch, Polling, Ingestion, Procs

\* Only the poller flushes a row and goes on to another call.
LEMMA FlushStep == ASSUME CircleInv, [Next]_vars PROVE FlushInv'
<1> SUFFICES ASSUME NEW q \in Procs, NEW d \in Calls PROVE FlushInv!(q, d)'
  BY DEF FlushInv
<1> USE IngestionAssumption DEF At, Goto, CircleInv, IngestionInv, TypeOK, FlushInv, LockInv,
                                WriterInv, Locked, ProcType, Procs
<1>1. ASSUME NEW c \in Calls, CreateCall(c) PROVE FlushInv!(q, d)'
  <2>1. CASE q = c
    BY <1>1, <2>1 DEF CreateCall
  <2>2. CASE q # c
    BY <1>1, <2>2 DEF CreateCall
  <2> QED BY <2>1, <2>2
<1>2. ASSUME NEW c \in Calls, CreateCallFails(c) PROVE FlushInv!(q, d)'
  BY <1>2 DEF CreateCallFails
<1>3. ASSUME NEW c \in Calls, CallStarted(c) PROVE FlushInv!(q, d)'
  BY <1>3 DEF CallStarted
<1>4. ASSUME NEW p \in Webhooks, NEW c \in Calls, CalleWebhook(p, c) PROVE FlushInv!(q, d)'
  BY <1>4 DEF CalleWebhook
<1>5. ASSUME NEW p \in Procs, NEW c \in Calls, Poll(p, c) PROVE FlushInv!(q, d)'
  BY <1>5 DEF Poll
<1>6. ASSUME NEW p \in Procs, NEW c \in Calls, PollFails(p, c) PROVE FlushInv!(q, d)'
  BY <1>6 DEF PollFails
<1>7. ASSUME NEW p \in Webhooks, LookUp(p) PROVE FlushInv!(q, d)'
  <2>1. CASE q = p
    <3>1. At(p, "lookup") /\ p \notin Pollers /\ p \in Procs /\ writer' = writer
      BY <1>7 DEF LookUp
    <3> QED BY <2>1, <3>1
  <2>2. CASE q # p
    <3>1. writer' = writer /\ proc'[q] = proc[q]
      BY <1>7, <2>2, LookUpEffect DEF OthersStay
    <3> QED BY <3>1
  <2> QED BY <2>1, <2>2
<1>8. ASSUME NEW p \in Procs, Sweep(p) PROVE FlushInv!(q, d)'
  BY <1>8, SweepEffect DEF OthersStay
<1>9. ASSUME NEW p \in Procs, SweepEnds(p) PROVE FlushInv!(q, d)'
  BY <1>9 DEF SweepEnds
<1>10. ASSUME NEW p \in Procs, Acquire(p) PROVE FlushInv!(q, d)'
  BY <1>10 DEF Acquire
<1>11. ASSUME NEW p \in Procs, HandleCallUpdate(p) PROVE FlushInv!(q, d)'
  <2>1. CASE q = p
    <3>1. At(p, "check") /\ proc'[p].at \in {"release", "ingest"}
      BY <1>11, HandleCallUpdateEffect
    <3>2. writer[d] = p => p \in Pollers
      BY <3>1
    <3>3. proc'[p].at = "ingest" => writer' = writer
      BY <1>11, HandleCallUpdateEffect
    <3> QED BY <2>1, <3>1, <3>2, <3>3
  <2>2. CASE q # p
    <3>1. proc'[q] = proc[q]
      BY <1>11, <2>2, HandleCallUpdateEffect DEF OthersStay
    <3>2. writer'[d] \in {writer[d], p}
      BY <1>11 DEF HandleCallUpdate
    <3> QED BY <2>2, <3>1, <3>2
  <2> QED BY <2>1, <2>2
<1>12. ASSUME NEW p \in Procs, IngestCallState(p) PROVE FlushInv!(q, d)'
  <2>1. CASE q = p
    <3>1. At(p, "ingest")
      BY <1>12 DEF IngestCallState
    <3>2. writer'[d] = writer[d] \/ writer'[d] = Nobody
      BY <1>12, IngestCallStateEffect
    <3>3. writer[d] = p => p \in Pollers
      BY <3>1
    <3> QED BY <2>1, <3>2, <3>3
  <2>2. CASE q # p
    <3>1. writer'[d] = writer[d] \/ writer'[d] = Nobody
      BY <1>12, IngestCallStateEffect
    <3>2. proc'[q] = proc[q]
      BY <1>12, <2>2, IngestCallStateEffect DEF OthersStay
    <3> QED BY <3>1, <3>2
  <2> QED BY <2>1, <2>2
<1>13. ASSUME NEW p \in Procs, Act(p) PROVE FlushInv!(q, d)'
  BY <1>13 DEF Act
<1>14. ASSUME NEW p \in Procs, Release(p) PROVE FlushInv!(q, d)'
  BY <1>14 DEF Release, Session
<1>15. ASSUME NEW p \in Procs, Finish(p) PROVE FlushInv!(q, d)'
  BY <1>15 DEF Finish, Commit, Session
<1>16. ASSUME NEW c \in Calls, CallMoves(c) PROVE FlushInv!(q, d)'
  BY <1>16 DEF CallMoves
<1>17. CASE Crash
  BY <1>17, SessionType DEF Crash
<1>18. CASE UNCHANGED vars
  BY <1>18 DEF vars
<1> QED
  BY <1>1, <1>2, <1>3, <1>4, <1>5, <1>6, <1>7, <1>8, <1>9,
     <1>10, <1>11, <1>12, <1>13, <1>14, <1>15, <1>16, <1>17, <1>18
  DEF Next, Handler, Launch, Polling, Ingestion, Procs

\* A sweep does not come back to a call whose row it has flushed.
LEMMA SweepStep == ASSUME CircleInv, [Next]_vars PROVE SweepInv'
<1> SUFFICES ASSUME NEW q \in Pollers PROVE SweepInv!(q)'
  BY DEF SweepInv
<1> USE IngestionAssumption DEF At, Goto, CircleInv, IngestionInv, TypeOK, SweepInv, LockInv,
                                WriterInv, Locked, ProcType, Procs
<1>1. ASSUME NEW c \in Calls, CreateCall(c) PROVE SweepInv!(q)'
  BY <1>1 DEF CreateCall
<1>2. ASSUME NEW c \in Calls, CreateCallFails(c) PROVE SweepInv!(q)'
  BY <1>2 DEF CreateCallFails
<1>3. ASSUME NEW c \in Calls, CallStarted(c) PROVE SweepInv!(q)'
  BY <1>3 DEF CallStarted
<1>4. ASSUME NEW p \in Webhooks, NEW c \in Calls, CalleWebhook(p, c) PROVE SweepInv!(q)'
  BY <1>4 DEF CalleWebhook
<1>5. ASSUME NEW p \in Procs, NEW c \in Calls, Poll(p, c) PROVE SweepInv!(q)'
  BY <1>5 DEF Poll
<1>6. ASSUME NEW p \in Procs, NEW c \in Calls, PollFails(p, c) PROVE SweepInv!(q)'
  BY <1>6 DEF PollFails
<1>7. ASSUME NEW p \in Webhooks, LookUp(p) PROVE SweepInv!(q)'
  <2>1. q # p /\ writer' = writer /\ proc'[q] = proc[q]
    BY <1>7, LookUpEffect DEF OthersStay
  <2> QED BY <2>1
<1>8. ASSUME NEW p \in Procs, Sweep(p) PROVE SweepInv!(q)'
  BY <1>8, SweepEffect DEF OthersStay
<1>9. ASSUME NEW p \in Procs, SweepEnds(p) PROVE SweepInv!(q)'
  BY <1>9 DEF SweepEnds
<1>10. ASSUME NEW p \in Procs, Acquire(p) PROVE SweepInv!(q)'
  BY <1>10 DEF Acquire
<1>11. ASSUME NEW p \in Procs, HandleCallUpdate(p) PROVE SweepInv!(q)'
  <2>1. CASE q = p
    <3>1. /\ proc[p].call \notin proc[p].todo /\ proc'[p].todo = proc[p].todo
          /\ proc'[p].at \notin {"wait", "check"}
      BY <1>11, <2>1, HandleCallUpdateEffect
    <3>2. ASSUME NEW d \in Calls \ {proc[p].call} PROVE writer'[d] = writer[d]
      BY <1>11, <3>2, HandleCallUpdateEffect
    <3> QED BY <2>1, <3>1, <3>2
  <2>2. CASE q # p
    <3>1. proc'[q] = proc[q]
      BY <1>11, <2>2, HandleCallUpdateEffect DEF OthersStay
    <3>2. ASSUME NEW d \in Calls PROVE writer'[d] \in {writer[d], p}
      BY <1>11, <3>2 DEF HandleCallUpdate
    <3> QED BY <2>2, <3>1, <3>2
  <2> QED BY <2>1, <2>2
<1>12. ASSUME NEW p \in Procs, IngestCallState(p) PROVE SweepInv!(q)'
  <2>1. ASSUME NEW d \in Calls PROVE writer'[d] \in {writer[d], Nobody}
    BY <1>12, <2>1, IngestCallStateEffect
  <2>2. CASE q = p
    <3>1. proc'[p].todo = proc[p].todo /\ proc'[p].at \notin {"wait", "check"}
      BY <1>12, IngestCallStateEffect
    <3> QED BY <2>1, <2>2, <3>1
  <2>3. CASE q # p
    <3>1. proc'[q] = proc[q]
      BY <1>12, <2>3, IngestCallStateEffect DEF OthersStay
    <3> QED BY <2>1, <3>1
  <2> QED BY <2>2, <2>3
<1>13. ASSUME NEW p \in Procs, Act(p) PROVE SweepInv!(q)'
  BY <1>13 DEF Act
<1>14. ASSUME NEW p \in Procs, Release(p) PROVE SweepInv!(q)'
  BY <1>14 DEF Release, Session
<1>15. ASSUME NEW p \in Procs, Finish(p) PROVE SweepInv!(q)'
  BY <1>15 DEF Finish, Commit, Session
<1>16. ASSUME NEW c \in Calls, CallMoves(c) PROVE SweepInv!(q)'
  BY <1>16 DEF CallMoves
<1>17. CASE Crash
  BY <1>17, SessionType DEF Crash
<1>18. CASE UNCHANGED vars
  BY <1>18 DEF vars
<1> QED
  BY <1>1, <1>2, <1>3, <1>4, <1>5, <1>6, <1>7, <1>8, <1>9,
     <1>10, <1>11, <1>12, <1>13, <1>14, <1>15, <1>16, <1>17, <1>18
  DEF Next, Handler, Launch, Polling, Ingestion, Procs

\* No step of this module submits.
LEMMA SubmitStep == ASSUME CircleInv, [Next]_vars PROVE SubmitInv'
<1> SUFFICES ASSUME NEW q \in Procs PROVE SubmitInv!(q)'
  BY DEF SubmitInv
<1> USE DEF At, Goto, CircleInv, IngestionInv, TypeOK, SubmitInv, LockInv, ProcType, Procs
<1>1. ASSUME NEW c \in Calls, CreateCall(c) PROVE SubmitInv!(q)'
  BY <1>1 DEF CreateCall
<1>2. ASSUME NEW c \in Calls, CreateCallFails(c) PROVE SubmitInv!(q)'
  BY <1>2 DEF CreateCallFails
<1>3. ASSUME NEW c \in Calls, CallStarted(c) PROVE SubmitInv!(q)'
  BY <1>3 DEF CallStarted
<1>4. ASSUME NEW p \in Webhooks, NEW c \in Calls, CalleWebhook(p, c) PROVE SubmitInv!(q)'
  BY <1>4 DEF CalleWebhook
<1>5. ASSUME NEW p \in Procs, NEW c \in Calls, Poll(p, c) PROVE SubmitInv!(q)'
  BY <1>5 DEF Poll
<1>6. ASSUME NEW p \in Procs, NEW c \in Calls, PollFails(p, c) PROVE SubmitInv!(q)'
  BY <1>6 DEF PollFails
<1>7. ASSUME NEW p \in Webhooks, LookUp(p) PROVE SubmitInv!(q)'
  BY <1>7, LookUpEffect DEF OthersStay
<1>8. ASSUME NEW p \in Procs, Sweep(p) PROVE SubmitInv!(q)'
  <2>1. proc'[p].at = "sweep" /\ (q # p => proc'[q] = proc[q])
    BY <1>8, SweepEffect DEF OthersStay
  <2> QED BY <2>1
<1>9. ASSUME NEW p \in Procs, SweepEnds(p) PROVE SubmitInv!(q)'
  BY <1>9 DEF SweepEnds
<1>10. ASSUME NEW p \in Procs, Acquire(p) PROVE SubmitInv!(q)'
  BY <1>10 DEF Acquire
<1>11. ASSUME NEW p \in Procs, HandleCallUpdate(p) PROVE SubmitInv!(q)'
  BY <1>11, HandleCallUpdateEffect DEF OthersStay
<1>12. ASSUME NEW p \in Procs, IngestCallState(p) PROVE SubmitInv!(q)'
  BY <1>12, IngestCallStateEffect DEF OthersStay
<1>13. ASSUME NEW p \in Procs, Act(p) PROVE SubmitInv!(q)'
  BY <1>13 DEF Act
<1>14. ASSUME NEW p \in Procs, Release(p) PROVE SubmitInv!(q)'
  BY <1>14 DEF Release, Session
<1>15. ASSUME NEW p \in Procs, Finish(p) PROVE SubmitInv!(q)'
  BY <1>15 DEF Finish, Commit, Session
<1>16. ASSUME NEW c \in Calls, CallMoves(c) PROVE SubmitInv!(q)'
  BY <1>16 DEF CallMoves
<1>17. CASE Crash
  BY <1>17, SessionType DEF Crash
<1>18. CASE UNCHANGED vars
  BY <1>18 DEF vars
<1> QED
  BY <1>1, <1>2, <1>3, <1>4, <1>5, <1>6, <1>7, <1>8, <1>9,
     <1>10, <1>11, <1>12, <1>13, <1>14, <1>15, <1>16, <1>17, <1>18
  DEF Next, Handler, Launch, Polling, Ingestion, Procs

-----------------------------------------------------------------------------
(* The theorems *)

LEMMA InitInv == Init => IngestionInv
<1> SUFFICES ASSUME Init PROVE IngestionInv
  OBVIOUS
<1>1. TypeOK
  BY TypeInit
<1>2. ASSUME NEW p \in Procs
      PROVE  /\ p \in Calls => /\ proc[p].at = "dispatch" /\ proc[p].call = p
                               /\ op[p] = "queued" /\ holder[p] = p
             /\ p \notin Calls => proc[p].at = "idle"
             /\ proc[p].opRow = "unread" /\ proc[p].todo = {}
  BY <1>2, SessionType DEF Init, Session
<1>3. ASSUME NEW c \in Calls
      PROVE  record[c] = "none" /\ writer[c] = Nobody /\ results[c] = 0 /\ acted[c] = 0
  BY DEF Init
<1>4. WriterInv /\ RowInv
  BY <1>3, IngestionAssumption DEF WriterInv, RowInv
<1>5. LockInv /\ FreshInv /\ LaunchInv
  BY <1>2 DEF LockInv, Locked, FreshInv, LaunchInv
<1>6. KnownInv /\ OpenInv /\ CountInv /\ ActInv
  BY <1>2, <1>3 DEF KnownInv, OpenInv, CountInv, ActInv
<1> QED BY <1>1, <1>4, <1>5, <1>6 DEF IngestionInv

\* The invariant is inductive.
LEMMA Inductive == Spec => []IngestionInv
<1>1. IngestionInv /\ [Next]_vars => IngestionInv'
  BY TypeStep, WriterStep, LockStep, FreshStep, RowStep, LaunchStep, KnownStep, OpenStep,
     CountStep, ActStep
  DEF IngestionInv
<1> QED BY <1>1, InitInv, PTL DEF Spec

\* However many deliveries race with the pollers and the handlers that place the calls, a
\* result is ingested once and acted upon at most once, in one run of the process and
\* across restarts.
THEOREM OncePerCall == Spec => []IngestedOnce
<1>1. IngestionInv => IngestedOnce
  BY DEF IngestionInv, CountInv, IngestedOnce
<1> QED BY <1>1, Inductive, PTL

LEMMA RecordInit == Init => RecordInv
<1> SUFFICES ASSUME Init PROVE RecordInv
  OBVIOUS
<1>1. IngestionInv
  BY InitInv
<1>2. ASSUME NEW p \in Procs
      PROVE  proc[p].at \in {"dispatch", "idle"} /\ proc[p].recordRow = Unread
  BY <1>2 DEF Init, Session
<1>3. ASSUME NEW c \in Calls
      PROVE  /\ record[c] = "none" /\ writer[c] = Nobody /\ results[c] = 0
             /\ line[c] = "undialled"
  BY DEF Init
<1>4. HeardInv
  BY <1>2, <1>3, <1>1 DEF HeardInv, At, IngestionInv, LaunchInv
<1>5. AtOnceInv
  <2>1. \A c \in Calls : ~At(c, "dispatched") /\ record[c] \notin TERMINAL_STATUSES
    BY <1>2, <1>3, IngestionAssumption DEF At, Procs
  <2> QED BY <2>1 DEF AtOnceInv
<1>6. LateInv
  BY <1>3 DEF LateInv
<1>7. SeenInv
  BY <1>2, <1>3, IngestionAssumption DEF SeenInv, Unread
<1> QED BY <1>1, <1>4, <1>5, <1>6, <1>7 DEF RecordInv

LEMMA RecordInductive == Spec => []RecordInv
<1>1. RecordInv /\ [Next]_vars => RecordInv'
  BY TypeStep, WriterStep, LockStep, FreshStep, RowStep, LaunchStep, KnownStep, OpenStep,
     CountStep, ActStep, HeardStep, AtOnceStep, LateStep, SeenStep
  DEF RecordInv, IngestionInv
<1> QED BY <1>1, RecordInit, PTL DEF Spec

\* Whatever a session has flushed and commits late, it does not touch the record of a call
\* whose result is ingested: the record goes on saying what the operation says.
THEOREM RecordKept == Spec => []RecordAgrees
<1>1. RecordInv => RecordAgrees
  <2> SUFFICES ASSUME RecordInv, NEW c \in Calls PROVE RecordAgrees!(c)
    BY DEF RecordAgrees
  <2> QED BY DEF RecordInv, LateInv, IngestionInv, TypeOK
<1> QED BY <1>1, RecordInductive, PTL

\* Every handler, its session and the rows keep their types: what a session writes back
\* was read or flushed, and the counters are numbers.
THEOREM Types == Spec => []TypeOK
<1>1. IngestionInv => TypeOK
  BY DEF IngestionInv
<1> QED BY <1>1, Inductive, PTL

LEMMA CircleInit == Init => CircleInv
<1> SUFFICES ASSUME Init PROVE CircleInv
  OBVIOUS
<1>1. IngestionInv
  BY InitInv
<1>2. ASSUME NEW p \in Procs
      PROVE  /\ p \in Calls => proc[p].at = "dispatch" /\ proc[p].call = p
             /\ p \in Pollers => proc[p].at = "idle"
             /\ proc[p].todo = {} /\ proc[p].at # "submit"
  BY <1>2, SessionType, IngestionAssumption DEF Init, Session
<1>3. ASSUME NEW c \in Calls PROVE holder[c] = c /\ writer[c] = Nobody
  BY DEF Init
<1>4. HolderInv
  BY <1>2, <1>3 DEF HolderInv, Locked, Procs
<1>5. FlushInv
  BY <1>3, IngestionAssumption DEF FlushInv
<1>6. SweepInv
  BY <1>2, <1>3, IngestionAssumption DEF SweepInv, At, Procs
<1>7. SubmitInv
  BY <1>2 DEF SubmitInv, At
<1> QED BY <1>1, <1>4, <1>5, <1>6, <1>7 DEF CircleInv

\* With one poller the row-waiters all wait for it, and it waits for none of them.
LEMMA NoCircle ==
    ASSUME CircleInv, \A p, q \in Pollers : p = q PROVE NoWaitingCircle
<1> SUFFICES ASSUME NEW circle \in SUBSET Procs, circle # {},
                    \A p \in circle : \E q \in circle : WaitsFor(p, q)
             PROVE  FALSE
  BY DEF NoWaitingCircle
<1> DEFINE RowWaiter(p) == At(p, "check") \/ At(p, "ingest")
<1>1. ASSUME NEW p \in Procs, NEW q \in Procs, WaitsFor(p, q)
      PROVE  proc[p].at \in {"wait", "submit", "check", "ingest"}
  BY <1>1 DEF WaitsFor, At
<1>2. ASSUME NEW p \in circle, RowWaiter(p)
      PROVE  /\ proc[p].call \in Calls /\ writer[proc[p].call] \in circle \cap Pollers
             /\ writer[proc[p].call] # p
  <2>1. PICK q \in circle : WaitsFor(p, q)
    OBVIOUS
  <2>2. proc[p].call \in Calls
    BY <1>2 DEF CircleInv, IngestionInv, LockInv, Locked, At
  <2>3. writer[proc[p].call] = q /\ ~MayUpdate(p)
    BY <1>2, <2>1 DEF WaitsFor, At
  <2>4. PICK r \in circle : WaitsFor(q, r)
    OBVIOUS
  <2>5. proc[q].at \in {"wait", "submit", "check", "ingest"}
    BY <1>1, <2>4
  <2>6. q \in Pollers
    BY <2>2, <2>3, <2>5 DEF CircleInv, FlushInv
  <2> QED BY <2>2, <2>3, <2>6 DEF MayUpdate
<1>3. ASSUME NEW p \in circle, ~RowWaiter(p)
      PROVE  /\ proc[p].call \in Calls /\ holder[proc[p].call] \in circle
             /\ RowWaiter(holder[proc[p].call]) /\ At(p, "wait")
             /\ proc[holder[proc[p].call]].call = proc[p].call
  <2>1. PICK q \in circle : WaitsFor(p, q)
    OBVIOUS
  <2>2. proc[p].at \in {"wait", "submit"} /\ holder[proc[p].call] = q
    BY <1>3, <2>1 DEF WaitsFor
  <2>3. proc[p].at = "wait" /\ proc[p].call \in Calls
    BY <2>2, IngestionAssumption DEF CircleInv, SubmitInv, At, IngestionInv, LockInv
  <2>4. PICK r \in circle : WaitsFor(q, r)
    OBVIOUS
  <2>5. proc[q].at \in {"wait", "submit", "check", "ingest"}
    BY <1>1, <2>4
  <2>6. proc[q].at \in Locked /\ proc[q].call = proc[p].call
    BY <2>2, <2>3, IngestionAssumption DEF CircleInv, HolderInv
  <2>7. RowWaiter(q)
    BY <2>5, <2>6 DEF Locked, At
  <2> QED BY <2>2, <2>3, <2>6, <2>7 DEF At
<1>4. PICK poller \in circle \cap Pollers : TRUE
  <2>1. PICK p \in circle : TRUE
    OBVIOUS
  <2>2. CASE RowWaiter(p)
    BY <1>2, <2>2
  <2>3. CASE ~RowWaiter(p)
    BY <1>2, <1>3, <2>3
  <2> QED BY <2>2, <2>3
<1>5. ~RowWaiter(poller)
  BY <1>2, <1>4
<1>6. writer[proc[poller].call] = poller
  BY <1>2, <1>3, <1>4, <1>5
<1>7. writer[proc[poller].call] # poller
  BY <1>3, <1>4, <1>5 DEF CircleInv, SweepInv
<1> QED BY <1>6, <1>7

\* With one poller, as the process has, no circle of handlers waits on itself through the
\* locks of the missions and the rows of the database: who waits for a row waits for the
\* poller, which has flushed it and now waits for another call's lock, and whoever holds
\* that one is not waiting for a row of the poller's.
THEOREM NobodyInACircle ==
    ASSUME \A p, q \in Pollers : p = q PROVE Spec => []NoWaitingCircle
<1>1. CircleInv /\ [Next]_vars => CircleInv'
  BY TypeStep, WriterStep, LockStep, FreshStep, RowStep, LaunchStep, KnownStep, OpenStep,
     CountStep, ActStep, HolderStep, FlushStep, SweepStep, SubmitStep
  DEF CircleInv, IngestionInv
<1>2. CircleInv => NoWaitingCircle
  BY NoCircle
<1> QED BY <1>1, <1>2, CircleInit, PTL DEF Spec

-----------------------------------------------------------------------------
(* CallIngestion implements ResultPromise *)

LEMMA PromiseInit == Init => Promise!Init
<1>1. ASSUME Init, NEW c \in Calls PROVE Phase(c) = "requested"
  BY <1>1 DEF Init, Phase, Closed
<1> QED BY <1>1 DEF Init, Promise!Init

\* A step that leaves the operations and the results alone is a stutter.
LEMMA PromiseStutter ==
    ASSUME UNCHANGED <<op, results>> PROVE UNCHANGED Promise!promiseVars
BY DEF Promise!promiseVars, Phase

\* CALL_STARTED is Accept, a create_call that raises is Refuse, an ingested result is
\* Close; all other steps stutter.
LEMMA PromiseStep ==
    ASSUME IngestionInv, [Next]_vars PROVE [Promise!Next]_Promise!promiseVars
<1> DEFINE Map == [c \in Calls |-> Phase(c)]
<1> USE DEF IngestionInv, TypeOK
<1>1. ASSUME NEW c \in Calls, NEW status \in {"queued", "calling"} \cup Closed,
             op' = [op EXCEPT ![c] = status]
      PROVE  Map' = [Map EXCEPT ![c] = IF status = "queued" THEN "requested"
                                       ELSE IF status = "calling" THEN "open" ELSE "closed"]
  BY <1>1 DEF Phase, Closed
<1>2. ASSUME NEW c \in Calls, CreateCallFails(c) PROVE Promise!Refuse(c)
  <2>1. c \in Procs /\ op[c] = "queued"
    BY <1>2 DEF CreateCallFails, At, LaunchInv, Procs
  <2>2. Map[c] = "requested" /\ Map' = [Map EXCEPT ![c] = "closed"]
    BY <1>1, <1>2, <2>1 DEF CreateCallFails, Phase, Closed
  <2> QED BY <1>2, <2>2 DEF CreateCallFails, Promise!Refuse
<1>3. ASSUME NEW c \in Calls, CallStarted(c) PROVE Promise!Accept(c)
  <2>1. c \in Procs /\ op[c] = "queued"
    BY <1>3 DEF CallStarted, At, LaunchInv, Procs
  <2>2. op' = [op EXCEPT ![c] = "calling"]
    BY <1>3 DEF CallStarted
  <2>3. Map' = [Map EXCEPT ![c] = "open"]
    BY <1>1, <2>2
  <2>4. Map[c] = "requested"
    BY <2>1 DEF Phase, Closed
  <2> QED BY <1>3, <2>3, <2>4 DEF CallStarted, Promise!Accept
<1>4. ASSUME NEW p \in Procs, IngestCallState(p)
      PROVE  [Promise!Next]_Promise!promiseVars
  <2>1. /\ proc[p].call \in Calls /\ op[proc[p].call] = "calling"
        /\ proc[p].state \in Closed
    BY <1>4, IngestionAssumption
    DEF IngestCallState, At, LockInv, Locked, OpenInv, FreshInv, Closed
  <2>2. CASE UNCHANGED <<op, results>>
    BY <2>2, PromiseStutter
  <2>3. CASE /\ op' = [op EXCEPT ![proc[p].call] = proc[p].state]
             /\ results' = [results EXCEPT ![proc[p].call] = @ + 1]
    <3>1. /\ Map[proc[p].call] = "open"
          /\ Map' = [Map EXCEPT ![proc[p].call] = "closed"]
      BY <1>1, <2>1, <2>3 DEF Phase, Closed
    <3>2. Promise!Close(proc[p].call)
      BY <2>3, <3>1 DEF Promise!Close
    <3> QED BY <2>1, <3>2 DEF Promise!Next
  <2> QED BY <1>4, <2>2, <2>3, IngestCallStateEffect
<1>5. ASSUME NEW p \in Procs, \/ LookUp(p) \/ Polling(p) \/ Acquire(p)
                              \/ HandleCallUpdate(p) \/ Act(p) \/ Release(p) \/ Finish(p)
      PROVE  UNCHANGED <<op, results>>
  BY <1>5 DEF LookUp, Polling, Sweep, Poll, PollFails, SweepEnds, Acquire, HandleCallUpdate,
              Act, Release, Finish
<1>6. ASSUME \/ \E c \in Calls : CreateCall(c) \/ CallMoves(c)
             \/ \E w \in Webhooks, c \in Calls : CalleWebhook(w, c)
             \/ Crash \/ UNCHANGED vars
      PROVE  UNCHANGED <<op, results>>
  BY <1>6 DEF CreateCall, CallMoves, CalleWebhook, Crash, vars
<1> QED BY <1>2, <1>3, <1>4, <1>5, <1>6, PromiseStutter
        DEF Next, Handler, Launch, Ingestion, Promise!Next

\* Whatever the interleaving of handlers, deliveries and restarts: only a requested call is
\* accepted or refused, and only an accepted one gets a result, and but one.
THEOREM PromiseKept == Spec => Promise!Safety
<1>1. IngestionInv /\ [Next]_vars => [Promise!Next]_Promise!promiseVars
  BY PromiseStep
<1> QED BY <1>1, PromiseInit, Inductive, PTL DEF Spec, Promise!Safety
=============================================================================
