------------------------- MODULE OperatorIngestion -------------------------
(***************************************************************************)
(* Two routes by which an operator brings in a result: refresh_operation   *)
(* and ingest_result.  Both read the operation before they wait for the    *)
(* mission's lock, and the first has updated the record by then.  The      *)
(* properties are what the repository says of ingestion; with these routes *)
(* they do not hold.                                                       *)
(***************************************************************************)
EXTENDS CallIngestion

CONSTANTS
    Refreshes,  \* the requests that come in by refresh_operation
    Results     \* those that come in by ingest_result; together they are Requests

\* Both routes look up the operation and its record, and keep them in their session.
Read(q, c) == [proc[q] EXCEPT !.call = c, !.opRow = op[c], !.recordRow[c] = record[c]]

RefreshOperation(q, c) ==
    /\ At(q, "idle") /\ record[c] # "none"
    /\ proc' = [proc EXCEPT ![q] = [Read(q, c) EXCEPT !.at = "fetch"]]
    /\ UNCHANGED <<line, op, record, holder, writer, results, acted, crashes>>

\* call_operations.refresh: get_call ...
GetCall(q) ==
    /\ At(q, "fetch")
    /\ proc' = [proc EXCEPT ![q].at = "flush", ![q].state = line[proc[q].call]]
    /\ UNCHANGED <<line, op, record, holder, writer, results, acted, crashes>>

\* ... then apply_state and flush, whatever the operation's status; the lock is asked
\* for with the row updated and not committed.
ApplyState(q) ==
    /\ At(q, "flush") /\ MayUpdate(q)
    /\ writer' = IF RecordRow(q) = proc[q].state THEN writer
                 ELSE [writer EXCEPT ![proc[q].call] = q]
    /\ proc' = [proc EXCEPT
         ![q].at = IF proc[q].state \in TERMINAL_STATUSES THEN "wait" ELSE "finish",
         ![q].recordRow = Knows(q, proc[q].state)]
    /\ UNCHANGED <<line, op, record, holder, results, acted, crashes>>

\* ingest_result: a closed operation is refused before the lock is asked for ...
IngestResult(q, c) ==
    /\ At(q, "idle") /\ record[c] # "none" /\ op[c] \notin Closed
    /\ \E s \in TERMINAL_STATUSES :
         proc' = [proc EXCEPT ![q] = [Read(q, c) EXCEPT !.at = "submit", !.state = s]]
    /\ UNCHANGED <<line, op, record, holder, writer, results, acted, crashes>>

\* ... and not after.
Submit(q) ==
    /\ At(q, "submit") /\ holder[proc[q].call] = Nobody
    /\ holder' = [holder EXCEPT ![proc[q].call] = q]
    /\ Goto(q, "ingest")
    /\ UNCHANGED <<line, op, record, writer, results, acted, crashes>>

Operator(q) ==
    \E c \in Calls : \/ q \in Refreshes /\ RefreshOperation(q, c)
                     \/ q \in Results /\ IngestResult(q, c)
Request(q) == GetCall(q) \/ ApplyState(q) \/ Submit(q)

OperatorNext == Next \/ \E q \in Requests : Operator(q) \/ Request(q)

OperatorSpec == Init /\ [][OperatorNext]_vars

\* The event loop runs the requests on, as it does the other handlers.
FairOperatorSpec == OperatorSpec /\ Fairness /\ \A q \in Requests : SF_vars(Request(q))
-----------------------------------------------------------------------------
(* What the repository says *)

\* CHANGELOG.md: "ingestion has been idempotent since [section] 2, so the two paths cannot
\* double-count".  Both routes take the lock with an operation read before it; their
\* session does not read it again, so a result that is in by then is ingested again.
IngestionIsIdempotent == \A c \in Calls : results[c] <= 1

\* main.py polls because "a single dropped delivery left a mission stuck [...] with no way
\* back".  refresh_operation waits for the lock with the record's row locked; the poller or
\* a webhook holds the lock and waits for the row, and neither ends.
NoMissionIsStuck ==
    \A c \in Calls : op[c] = "calling" ~> (acted[c] > 0 \/ crashes > 0)
=============================================================================
