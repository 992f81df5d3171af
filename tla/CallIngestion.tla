--------------------------- MODULE CallIngestion ---------------------------
(***************************************************************************)
(* How the result of a call reaches the Director: the handler that placed  *)
(* the call, the webhook and the poller, each with a database session of   *)
(* its own.  A session keeps what it has read (its identity map;           *)
(* expire_on_commit is off) and what it has flushed and not committed,     *)
(* which locks the row for every other session (PostgreSQL).  The          *)
(* mission's asyncio.Lock is taken after some of these reads.              *)
(*                                                                         *)
(* A call stands for its operation, its record and its mission: the loop   *)
(* has one open call per mission (OneLiveThread of RecoveryLoop).          *)
(***************************************************************************)
EXTENDS Naturals, FiniteSets

CONSTANTS
    Calls,      \* the calls, and the handlers that place them
    Webhooks,   \* deliveries: late, repeated, or never, as CALL-E pleases
    Pollers,    \* the background task that sweeps
    Requests,   \* requests of an operator; only OperatorIngestion lets them act
    Nobody,
    TERMINAL_STATUSES,  \* "completed", and "failed" for every is_business_failure
    MaxCrashes  \* bound on the restarts of the process, for model checking

Procs == Calls \cup Webhooks \cup Pollers \cup Requests

ASSUME IngestionAssumption ==
    /\ Calls \cap (Webhooks \cup Pollers \cup Requests) = {}
    /\ Webhooks \cap Pollers = {} /\ Requests \cap (Webhooks \cup Pollers) = {}
    /\ Nobody \notin Procs
    /\ TERMINAL_STATUSES \subseteq {"completed", "failed"}
    /\ MaxCrashes \in Nat

VARIABLES
    line,       \* the status of each call at CALL-E
    op,         \* PhoneOperation.status, committed
    record,     \* CallRecord.status, committed
    holder,     \* who holds the call's mission_lock
    writer,     \* whose open transaction has updated the call's record
    results,    \* history: the CALL_COMPLETED or CALL_FAILED events of ingested results
    acted,      \* history: how often the Director acted on the result
    proc,       \* each handler with its session
    crashes

vars == <<line, op, record, holder, writer, results, acted, proc, crashes>>

Ringing == {"queued", "in_progress"}
Statuses == Ringing \cup TERMINAL_STATUSES
Closed == {"completed", "failed"}

\* A new session has read nothing.
Unread == [c \in Calls |-> "unread"]
Session(step) ==
    [at |-> step, call |-> Nobody, state |-> "queued", opRow |-> "unread",
     recordRow |-> Unread, todo |-> {}]

At(p, step) == proc[p].at = step
Goto(p, step) == proc' = [proc EXCEPT ![p].at = step]

\* A row that is in the identity map already is not read again.
OpRow(p) == IF proc[p].opRow = "unread" THEN op[proc[p].call] ELSE proc[p].opRow
RecordRow(p) ==
    IF proc[p].recordRow[proc[p].call] = "unread"
    THEN record[proc[p].call] ELSE proc[p].recordRow[proc[p].call]

\* The identity map, once the session has read or set the status of its call's record.
Knows(p, status) == [proc[p].recordRow EXCEPT ![proc[p].call] = status]

\* An UPDATE of the record, emitted only for a status that changed, waits for whoever
\* has updated the row and not committed.
MayUpdate(p) ==
    RecordRow(p) = proc[p].state \/ writer[proc[p].call] \in {Nobody, p}

\* Fault: the whole session is written back, what it has not read included.
Commit_WritesAll(p) ==
    /\ record' = proc[p].recordRow
    /\ writer' = [c \in Calls |-> IF writer[c] = p THEN Nobody ELSE writer[c]]

\* session.commit(): what was flushed is visible, and the rows are free.
Commit(p) ==
    /\ record' = [c \in Calls |-> IF writer[c] = p THEN proc[p].recordRow[c] ELSE record[c]]
    /\ writer' = [c \in Calls |-> IF writer[c] = p THEN Nobody ELSE writer[c]]

Init ==
    /\ line = [c \in Calls |-> "undialled"]
    /\ op = [c \in Calls |-> "queued"] /\ record = [c \in Calls |-> "none"]
    /\ holder = [c \in Calls |-> c] /\ writer = [c \in Calls |-> Nobody]
    /\ results = [c \in Calls |-> 0] /\ acted = [c \in Calls |-> 0]
    /\ proc = [p \in Procs |-> IF p \in Calls THEN [Session("dispatch") EXCEPT !.call = p]
                               ELSE Session("idle")]
    /\ crashes = 0
-----------------------------------------------------------------------------
(* The handler that places the call; it holds the lock throughout *)

\* create_call returns: CALL-E rings, or has the answer already (the mock client).
CreateCall(c) ==
    /\ At(c, "dispatch")
    /\ \E s \in Statuses \ {"in_progress"} : /\ line' = [line EXCEPT ![c] = s]
                           /\ proc' = [proc EXCEPT ![c].at = "dispatched", ![c].state = s]
    /\ UNCHANGED <<op, record, holder, writer, results, acted, crashes>>

\* create_call raises: the operation fails, although the phone may ring.
CreateCallFails(c) ==
    /\ At(c, "dispatch")
    /\ line' \in {line, [line EXCEPT ![c] = "queued"]}
    /\ op' = [op EXCEPT ![c] = "failed"]
    /\ Goto(c, "release")
    /\ UNCHANGED <<record, holder, writer, results, acted, crashes>>

\* Fault: a result that is there at once is ingested before CALL_STARTED is committed.
CallStarted_AfterIngestion(c) ==
    /\ At(c, "dispatched")
    /\ op' = IF proc[c].state \in TERMINAL_STATUSES THEN op ELSE [op EXCEPT ![c] = "calling"]
    /\ record' = [record EXCEPT ![c] = proc[c].state]
    /\ proc' = [proc EXCEPT
         ![c].at = IF proc[c].state \in TERMINAL_STATUSES THEN "ingest" ELSE "release",
         ![c].opRow = "calling", ![c].recordRow[c] = proc[c].state]
    /\ UNCHANGED <<line, holder, writer, results, acted, crashes>>

\* CALL_STARTED commits the operation and its record; a result that is there already is
\* ingested directly.
CallStarted(c) ==
    /\ At(c, "dispatched")
    /\ op' = [op EXCEPT ![c] = "calling"]
    /\ record' = [record EXCEPT ![c] = proc[c].state]
    /\ proc' = [proc EXCEPT
         ![c].at = IF proc[c].state \in TERMINAL_STATUSES THEN "ingest" ELSE "release",
         ![c].opRow = "calling", ![c].recordRow[c] = proc[c].state]
    /\ UNCHANGED <<line, holder, writer, results, acted, crashes>>
-----------------------------------------------------------------------------
(* The webhook *)

\* A delivery reads the call back from CALL-E (a signed one brings the status along).
CalleWebhook(w, c) ==
    /\ At(w, "idle") /\ line[c] # "undialled"
    /\ proc' = [proc EXCEPT ![w].at = "lookup", ![w].call = c, ![w].state = line[c]]
    /\ UNCHANGED <<line, op, record, holder, writer, results, acted, crashes>>

\* Fault: the record is updated before the lock is there.
LookUp_UpdatesEarly(w) ==
    /\ At(w, "lookup") /\ record[proc[w].call] # "none" /\ MayUpdate(w)
    /\ writer' = IF RecordRow(w) = proc[w].state THEN writer
                 ELSE [writer EXCEPT ![proc[w].call] = w]
    /\ proc' = [proc EXCEPT ![w].at = "wait", ![w].recordRow = Knows(w, proc[w].state)]
    /\ UNCHANGED <<line, op, record, holder, results, acted, crashes>>

\* _ingest: an unknown call, CALL_STARTED not yet committed among them, is dropped.
LookUp(w) ==
    /\ At(w, "lookup")
    /\ IF record[proc[w].call] = "none" THEN Goto(w, "finish")
       ELSE proc' = [proc EXCEPT ![w].at = "wait",
                                 ![w].recordRow = Knows(w, record[proc[w].call])]
    /\ UNCHANGED <<line, op, record, holder, writer, results, acted, crashes>>
-----------------------------------------------------------------------------
(* The poller: poll_pending_calls, one session for a whole sweep *)

\* Fault: the poller looks for operations that were never dialled.
Sweep_Queued(p) ==
    /\ At(p, "idle")
    /\ LET pending == {c \in Calls : op[c] = "queued" /\ record[c] # "none"}
       IN  proc' = [proc EXCEPT ![p].at = "sweep", ![p].todo = pending,
              ![p].recordRow = [c \in Calls |-> IF c \in pending THEN record[c] ELSE "unread"]]
    /\ UNCHANGED <<line, op, record, holder, writer, results, acted, crashes>>

Sweep(p) ==
    /\ At(p, "idle")
    /\ LET pending == {c \in Calls : op[c] = "calling" /\ record[c] # "none"}
       IN  /\ pending # {}
           /\ proc' = [proc EXCEPT ![p].at = "sweep", ![p].todo = pending,
                ![p].recordRow = [c \in Calls |-> IF c \in pending THEN record[c]
                                                  ELSE "unread"]]
    /\ UNCHANGED <<line, op, record, holder, writer, results, acted, crashes>>

\* The next pending call, in no particular order.  Its operation is not in the session.
Poll(p, c) ==
    /\ At(p, "sweep") /\ c \in proc[p].todo
    /\ proc' = [proc EXCEPT ![p].at = "wait", ![p].call = c, ![p].state = line[c],
                            ![p].opRow = "unread", ![p].todo = @ \ {c}]
    /\ UNCHANGED <<line, op, record, holder, writer, results, acted, crashes>>

\* get_call raised: the call is left for the next sweep.
PollFails(p, c) ==
    /\ At(p, "sweep") /\ c \in proc[p].todo
    /\ proc' = [proc EXCEPT ![p].todo = @ \ {c}]
    /\ UNCHANGED <<line, op, record, holder, writer, results, acted, crashes>>

SweepEnds(p) ==
    /\ At(p, "sweep") /\ proc[p].todo = {}
    /\ Goto(p, "finish")
    /\ UNCHANGED <<line, op, record, holder, writer, results, acted, crashes>>
-----------------------------------------------------------------------------
(* Ingestion, the same for all *)

\* async with mission_lock(...)
Acquire(p) ==
    /\ At(p, "wait") /\ holder[proc[p].call] = Nobody
    /\ holder' = [holder EXCEPT ![proc[p].call] = p]
    /\ Goto(p, "check")
    /\ UNCHANGED <<line, op, record, writer, results, acted, crashes>>

\* Fault: a status that is not terminal is written before the operation is looked at.
HandleCallUpdate_AppliesFirst(p) ==
    /\ At(p, "check")
    /\ IF proc[p].state \notin TERMINAL_STATUSES
       THEN /\ MayUpdate(p)
            /\ writer' = IF RecordRow(p) = proc[p].state THEN writer
                         ELSE [writer EXCEPT ![proc[p].call] = p]
            /\ proc' = [proc EXCEPT ![p].at = "release",
                                    ![p].recordRow = Knows(p, proc[p].state)]
       ELSE /\ Goto(p, IF OpRow(p) \in Closed THEN "release" ELSE "ingest")
            /\ UNCHANGED writer
    /\ UNCHANGED <<line, op, record, holder, results, acted, crashes>>

\* Fault: only completed operations are refused, as ingest_call_state itself does.
HandleCallUpdate_FailedAgain(p) ==
    /\ At(p, "check")
    /\ OpRow(p) # "completed" /\ proc[p].state \in TERMINAL_STATUSES
    /\ Goto(p, "ingest")
    /\ UNCHANGED <<line, op, record, holder, writer, results, acted, crashes>>

\* handle_call_update: a closed operation is left alone; a status that is not terminal
\* is flushed, and committed only when the session ends.
HandleCallUpdate(p) ==
    /\ At(p, "check")
    /\ IF OpRow(p) \in Closed THEN Goto(p, "release") /\ UNCHANGED writer
       ELSE IF proc[p].state \in TERMINAL_STATUSES
       THEN proc' = [proc EXCEPT ![p].at = "ingest", ![p].opRow = OpRow(p)] /\ UNCHANGED writer
       ELSE /\ MayUpdate(p)
            /\ writer' = IF RecordRow(p) = proc[p].state THEN writer
                         ELSE [writer EXCEPT ![proc[p].call] = p]
            /\ proc' = [proc EXCEPT ![p].at = "release",
                                    ![p].recordRow = Knows(p, proc[p].state)]
    /\ UNCHANGED <<line, op, record, holder, results, acted, crashes>>

\* ingest_call_state up to the commit of CALL_COMPLETED or CALL_FAILED.
IngestCallState(p) ==
    /\ At(p, "ingest") /\ MayUpdate(p)
    /\ LET c == proc[p].call
       IN  IF proc[p].opRow = "completed"
           THEN Goto(p, "release") /\ UNCHANGED <<op, record, writer, results>>
           ELSE /\ op' = [op EXCEPT ![c] = proc[p].state]
                /\ record' = [d \in Calls |-> IF d = c THEN proc[p].state
                                              ELSE IF writer[d] = p THEN proc[p].recordRow[d]
                                              ELSE record[d]]
                /\ writer' = [d \in Calls |-> IF writer[d] = p THEN Nobody ELSE writer[d]]
                /\ results' = [results EXCEPT ![c] = @ + 1]
                /\ Goto(p, "act")
    /\ UNCHANGED <<line, holder, acted, crashes>>

\* The rest of the handler: evidence and decision, or a retry, or a replan.
Act(p) ==
    /\ At(p, "act")
    /\ acted' = [acted EXCEPT ![proc[p].call] = @ + 1]
    /\ Goto(p, "release")
    /\ UNCHANGED <<line, op, record, holder, writer, results, crashes>>

\* The lock is left before the session is; a sweep goes on to its next call.
Release(p) ==
    /\ At(p, "release")
    /\ holder' = [holder EXCEPT ![proc[p].call] = Nobody]
    /\ proc' = [proc EXCEPT ![p] =
         [Session(IF p \in Pollers THEN "sweep" ELSE "finish")
            EXCEPT !.recordRow = proc[p].recordRow, !.todo = proc[p].todo]]
    /\ UNCHANGED <<line, op, record, writer, results, acted, crashes>>

\* The session commits what is left and is closed.
Finish(p) ==
    /\ At(p, "finish")
    /\ Commit(p)
    /\ proc' = [proc EXCEPT ![p] = Session(IF p \in Pollers THEN "idle" ELSE "done")]
    /\ UNCHANGED <<line, op, holder, results, acted, crashes>>
-----------------------------------------------------------------------------
(* The environment and the specification *)

\* CALL-E: the phone is picked up or not, and every call ends.
CallMoves(c) ==
    /\ line[c] \in Ringing
    /\ \E s \in Statuses \ {"queued"} : s # line[c] /\ line' = [line EXCEPT ![c] = s]
    /\ UNCHANGED <<op, record, holder, writer, results, acted, proc, crashes>>

\* The process dies and comes back: transactions are rolled back, the poller starts anew.
Crash ==
    /\ crashes < MaxCrashes
    /\ crashes' = crashes + 1
    /\ holder' = [c \in Calls |-> Nobody] /\ writer' = [c \in Calls |-> Nobody]
    /\ proc' = [p \in Procs |-> Session(IF \/ p \in Pollers
                                           \/ At(p, "idle")
                                        THEN "idle" ELSE "done")]
    /\ UNCHANGED <<line, op, record, results, acted>>

Launch(c) == CreateCall(c) \/ CreateCallFails(c) \/ CallStarted(c)
Polling(p) == Sweep(p) \/ (\E c \in Calls : Poll(p, c) \/ PollFails(p, c)) \/ SweepEnds(p)
Ingestion(p) ==
    \/ Acquire(p) \/ HandleCallUpdate(p) \/ IngestCallState(p)
    \/ Act(p) \/ Release(p) \/ Finish(p)

\* The steps of a handler that runs.
Handler(p) ==
    \/ p \in Calls /\ Launch(p)
    \/ p \in Webhooks /\ LookUp(p)
    \/ p \in Pollers /\ Polling(p)
    \/ Ingestion(p)

Next ==
    \/ \E p \in Procs : Handler(p)
    \/ \E w \in Webhooks, c \in Calls : CalleWebhook(w, c)
    \/ \E c \in Calls : CallMoves(c)
    \/ Crash

Spec == Init /\ [][Next]_vars

\* The event loop runs every handler on; the waiters for a lock or a row are served in
\* turn.  CALL-E ends its calls and answers the poller now and then.  No webhook need come.
Fairness ==
    /\ \A p \in Procs : SF_vars(Handler(p))
    /\ \A p \in Pollers, c \in Calls : SF_vars(Poll(p, c))
    /\ \A c \in Calls : WF_vars(CallMoves(c))

FairSpec == Spec /\ Fairness
-----------------------------------------------------------------------------
(* Properties *)

ProcType == [at : {"idle", "dispatch", "dispatched", "lookup", "fetch", "flush", "sweep",
                   "wait", "submit", "check", "ingest", "act", "release", "finish", "done"},
             call : Calls \cup {Nobody}, state : Statuses,
             opRow : {"unread", "queued", "calling"} \cup Closed,
             recordRow : [Calls -> {"unread", "none"} \cup Statuses],
             todo : SUBSET Calls]

TypeOK ==
    /\ line \in [Calls -> {"undialled"} \cup Statuses]
    /\ op \in [Calls -> {"queued", "calling"} \cup Closed]
    /\ record \in [Calls -> {"none"} \cup Statuses]
    /\ holder \in [Calls -> Procs \cup {Nobody}] /\ writer \in [Calls -> Procs \cup {Nobody}]
    /\ results \in [Calls -> Nat] /\ acted \in [Calls -> Nat]
    /\ proc \in [Procs -> ProcType]
    /\ crashes \in 0..MaxCrashes

\* However many deliveries race with the poller and the handler that placed the call,
\* the result of a call is ingested once, and acted upon at most once ("a duplicate
\* delivery never produces duplicate evidence or a duplicate replan").
IngestedOnce == \A c \in Calls : acted[c] <= results[c] /\ results[c] <= 1

\* Once a result is ingested, the call's record says what the operation says: no late
\* status, flushed by one session and committed after another, overwrites it.
RecordAgrees == \A c \in Calls : results[c] > 0 => record[c] = op[c]

\* Unless the process died, the result of every started call is acted upon, though every
\* webhook be lost ("a single dropped delivery left a mission stuck").
EveryCallIsActedUpon ==
    \A c \in Calls : op[c] = "calling" ~> (acted[c] > 0 \/ crashes > 0)

\* Who cannot go on before whom: p waits for the lock q holds, or for the row q has
\* updated and not committed.
WaitsFor(p, q) ==
    \/ proc[p].at \in {"wait", "submit"} /\ holder[proc[p].call] = q
    \/ At(p, "check") /\ OpRow(p) \notin Closed /\ proc[p].state \notin TERMINAL_STATUSES
         /\ ~MayUpdate(p) /\ writer[proc[p].call] = q
    \/ At(p, "ingest") /\ ~MayUpdate(p) /\ writer[proc[p].call] = q

\* No circle of handlers waits on itself, through the mission's locks and the database's
\* rows, which know nothing of each other.
NoWaitingCircle ==
    \A circle \in (SUBSET Procs) \ {{}} :
        \E p \in circle : \A q \in circle : ~WaitsFor(p, q)

\* CallIngestion implements ResultPromise: what was started is closed exactly once, also
\* across restarts of the process.
Phase(c) == CASE op[c] = "queued" -> "requested"
              [] op[c] = "calling" -> "open"
              [] op[c] \in Closed -> "closed"

Promise == INSTANCE ResultPromise WITH phase <- [c \in Calls |-> Phase(c)]

KeepsThePromise == Promise!Spec
=============================================================================
