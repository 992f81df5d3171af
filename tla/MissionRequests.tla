--------------------------- MODULE MissionRequests ---------------------------
(***************************************************************************)
(* What happens next to each other around one mission: its intake, starts, *)
(* escalations and decisions by operators, and results of calls.           *)
(*                                                                         *)
(* Every request is a coroutine with a database session of its own.        *)
(* MissionDep loads the mission's row before the handler waits for         *)
(* mission_lock, and the session keeps the row as it was loaded; a         *)
(* background task and a result load it under the lock.  The intake holds  *)
(* no lock.  record_event reads the last number of the trail, and later    *)
(* commits what the session has written together with the event; a number  *)
(* that another handler took meanwhile fails the whole transaction.        *)
(*                                                                         *)
(* RecoveryLoop has the engine in full, one handler at a time.  Here it is *)
(* cut to what starts, decisions and escalations have to do with.          *)
(***************************************************************************)
EXTENDS Naturals

CONSTANTS
    Requests,       \* the requests that may come
    MaxRestarts     \* bound: restarts of the API

Intake == "intake"
Autostart == "autostart"
Handlers == Requests \cup {Intake, Autostart}
Free == "free"

ASSUME RequestsAssumption ==
    /\ MaxRestarts \in Nat
    /\ Requests \cap {Intake, Autostart, Free} = {}

VARIABLES
    row,        \* the mission's committed row, its outcome, approval and open call,
                \* and how many first strategies it has
    eligible,   \* it has a candidate
    last,       \* the number of the last event in its trail
    recorded,   \* how many events of each type the trail has
    lock,       \* who holds mission_lock
    hand,       \* the handlers: what each does and where it is, the row as its session
                \* loaded it, and the number it has read for its next event
    restarts    \* how many restarts there were

trailVars == <<last, recorded>>
vars == <<row, eligible, trailVars, lock, hand, restarts>>

Terminal == {"recovered", "escalated"}
Starts == {"start", "background"}
Kinds == Starts \cup {"escalate", "approve", "reject", "result"}

\* The handlers that load the mission under the lock.
LoadsUnderLock == {"background", "result"}

RowType == [status : Terminal \cup {"assessing", "planning", "executing", "learning",
                                    "approval_required"},
            started : BOOLEAN, plans : 0..2, open : BOOLEAN,
            outcome : {"none", "recovered", "escalated"},
            approval : {"none", "pending", "approved", "rejected"}]

EventTypes == {"detected", "created", "started", "planned", "gap", "called", "learned",
               "approval", "granted", "rejected", "completed", "escalated"}

\* Where a handler records an event next.
Recording == {"created", "claimed", "plan", "gap", "launch", "learned", "confirm",
              "granted", "rejected", "finalise", "escalate"}
Over == {"done", "refused", "failed"}

TypeOK ==
    /\ row \in RowType
    /\ eligible \in BOOLEAN
    /\ last \in Nat /\ recorded \in [EventTypes -> Nat]
    /\ lock \in Handlers \cup {Free}
    /\ hand \in [Handlers -> [kind : Kinds \cup {"none", "intake"},
                              at : Recording \cup Over \cup {"idle", "waiting", "begin", "prepare"},
                              seen : RowType, number : Nat]]
    /\ lock # Free => hand[lock].at \notin Over \cup {"idle", "waiting"}
    /\ restarts \in 0..MaxRestarts

NewRow == [status |-> "assessing", started |-> FALSE, plans |-> 0, open |-> FALSE,
           outcome |-> "none", approval |-> "none"]

Handler(kind, at) == [kind |-> kind, at |-> at, seen |-> NewRow, number |-> 0]

\* The first commit of create_exception_and_mission: the mission is there to be seen.
Init ==
    /\ row = NewRow
    /\ eligible \in BOOLEAN
    /\ last = 1 /\ recorded = [e \in EventTypes |-> IF e = "detected" THEN 1 ELSE 0]
    /\ lock = Free
    /\ hand = [h \in Handlers |-> IF h = Intake THEN Handler("intake", "created")
                                  ELSE Handler("none", "idle")]
    /\ restarts = 0

-----------------------------------------------------------------------------
(* Steps of a handler.                                                     *)

\* What was loaded before is looked at in the first step only.
Goes(h, at) == hand' = [hand EXCEPT ![h] = Handler(@.kind, at)]

\* Fault: the lock is not given back.
Ends_Holding(h, at) == hand' = [hand EXCEPT ![h] = Handler("none", at)] /\ UNCHANGED lock

\* The handler is over, and the lock free if it was the holder's.
Ends(h, at) ==
    /\ hand' = [hand EXCEPT ![h] = Handler("none", at)]
    /\ lock' = IF lock = h THEN Free ELSE lock

\* MissionDep, and then the handler waits for the lock.
Arrive(h, kind) ==
    /\ h \in Requests /\ hand[h].at = "idle"
    /\ kind = "result" => row.open
    /\ kind \in {"approve", "reject"} => row.approval # "none"
    /\ hand' = [hand EXCEPT ![h] = [kind |-> kind, at |-> "waiting", seen |-> row, number |-> 0]]
    /\ UNCHANGED <<row, eligible, trailVars, lock, restarts>>

\* Fault: a background start goes on with the row of the request it came with.
Acquire_Stale(h) ==
    /\ hand[h].at = "waiting" /\ lock = Free
    /\ lock' = h
    /\ hand' = [hand EXCEPT ![h].at = "begin"]
    /\ UNCHANGED <<row, eligible, trailVars, restarts>>

\* mission_lock.
Acquire(h) ==
    /\ hand[h].at = "waiting" /\ lock = Free
    /\ lock' = h
    /\ hand' = [hand EXCEPT ![h].at = "begin",
                            ![h].seen = IF hand[h].kind \in LoadsUnderLock THEN row ELSE @]
    /\ UNCHANGED <<row, eligible, trailVars, restarts>>

\* Fault: the claim is made whatever the row says by now.
StartMission_Unclaimed(h) ==
    /\ hand[h].at = "begin" /\ hand[h].kind \in Starts
    /\ IF hand[h].seen.status \in Terminal \/ hand[h].seen.started
       THEN Ends(h, "refused")
       ELSE Goes(h, "claimed") /\ UNCHANGED lock
    /\ UNCHANGED <<row, eligible, trailVars, restarts>>

\* start_mission: what is checked is the row as it was loaded; the claim is an UPDATE
\* that looks at the row itself, but at started_at only.
StartMission(h) ==
    /\ hand[h].at = "begin" /\ hand[h].kind \in Starts
    /\ IF hand[h].seen.status \in Terminal \/ hand[h].seen.started
       THEN Ends(h, "refused")
       ELSE \/ Goes(h, "escalate") /\ UNCHANGED lock        \* the window has closed
            \/ /\ ~ row.started
               /\ Goes(h, "claimed") /\ UNCHANGED lock
            \/ row.started /\ Ends(h, "refused")
    /\ UNCHANGED <<row, eligible, trailVars, restarts>>

\* Fault: planning is left to the intake.
Prepare_LeftToIntake(h) ==
    /\ hand[h].at = "prepare"
    /\ IF h = Intake THEN Goes(h, "plan") /\ UNCHANGED lock
       ELSE IF row.plans > 0 THEN Goes(h, "launch") /\ UNCHANGED lock
       ELSE Ends(h, "done")
    /\ UNCHANGED <<row, eligible, trailVars, restarts>>

\* prepare_mission: is there a strategy yet?  What follows, the language model's answer
\* too, takes its time.
Prepare(h) ==
    /\ hand[h].at = "prepare"
    /\ IF row.plans > 0
       THEN IF h = Intake THEN Ends(h, "done")
            ELSE (\E at \in {"launch", "escalate"} : Goes(h, at)) /\ UNCHANGED lock
       ELSE Goes(h, IF eligible THEN "plan" ELSE "escalate") /\ UNCHANGED lock
    /\ UNCHANGED <<row, eligible, trailVars, restarts>>

\* The route's escalate, and the delivery of a result.
EscalateOrLearn(h) ==
    /\ hand[h].at = "begin"
    /\ \/ hand[h].kind = "escalate" /\ Goes(h, "escalate") /\ UNCHANGED lock
       \/ hand[h].kind = "result" /\ row.open /\ Goes(h, "learned") /\ UNCHANGED lock
       \/ hand[h].kind = "result" /\ ~ row.open /\ Ends(h, "refused")
    /\ UNCHANGED <<row, eligible, trailVars, restarts>>

\* Fault: the approval was loaded with the mission, before the lock.
ResolveApproval_Stale(h) ==
    /\ hand[h].at = "begin" /\ hand[h].kind \in {"approve", "reject"}
    /\ IF hand[h].seen.approval = "pending"
       THEN Goes(h, IF hand[h].kind = "approve" THEN "granted" ELSE "rejected") /\ UNCHANGED lock
       ELSE Ends(h, "refused")
    /\ UNCHANGED <<row, eligible, trailVars, restarts>>

\* resolve_approval: the approval is loaded here, for the first time in this session.
ResolveApproval(h) ==
    /\ hand[h].at = "begin" /\ hand[h].kind \in {"approve", "reject"}
    /\ IF row.approval = "pending"
       THEN Goes(h, IF hand[h].kind = "approve" THEN "granted" ELSE "rejected") /\ UNCHANGED lock
       ELSE Ends(h, "refused")
    /\ UNCHANGED <<row, eligible, trailVars, restarts>>

\* _escalate where there is an outcome: the status is written without an event.  The
\* routes refresh the mission before their session commits, which takes it back.
EscalateAgain(h) ==
    /\ hand[h].at = "escalate" /\ hand[h].number = 0 /\ row.outcome # "none"
    /\ row' = IF hand[h].kind \in LoadsUnderLock \cup {"intake"}
              THEN [row EXCEPT !.status = "escalated"] ELSE row
    /\ Ends(h, "done")
    /\ UNCHANGED <<eligible, trailVars, restarts>>

-----------------------------------------------------------------------------
(* record_event.                                                           *)

\* The event a handler records, by where it is.
EventOf(at) ==
    CASE at = "claimed"  -> "started"
      [] at = "plan"     -> "planned"
      [] at = "launch"   -> "called"
      [] at = "confirm"  -> "approval"
      [] at = "finalise" -> "completed"
      [] at = "escalate" -> "escalated"
      [] OTHER -> at

\* What its session has written by then.
RowAfter(at) ==
    CASE at = "claimed"  -> [row EXCEPT !.started = TRUE, !.status = "planning"]
      [] at = "plan"     -> [row EXCEPT !.plans = @ + 1]
      [] at = "launch"   -> [row EXCEPT !.open = TRUE, !.status = "executing"]
      [] at = "learned"  -> [row EXCEPT !.open = FALSE, !.status = "learning"]
      [] at = "confirm"  -> [row EXCEPT !.approval = "pending", !.status = "approval_required"]
      [] at = "granted"  -> [row EXCEPT !.approval = "approved"]
      [] at = "rejected" -> [row EXCEPT !.approval = "rejected"]
      [] at = "finalise" -> [row EXCEPT !.outcome = "recovered", !.status = "recovered"]
      [] at = "escalate" -> [row EXCEPT !.outcome = "escalated", !.status = "escalated"]
      [] OTHER -> row

\* Where it goes on: a decision of the engine is free here.
AfterEvent(h) ==
    LET at == hand[h].at IN
    CASE at \in {"created", "claimed"} -> {"prepare"}
      [] at = "plan"     -> {"gap"}
      [] at = "gap"      -> IF h = Intake THEN {"done"} ELSE {"launch", "escalate"}
      [] at = "learned"  -> {"launch", "finalise", "escalate"}
                            \cup IF row.approval = "none" THEN {"confirm"} ELSE {}
      [] at = "granted"  -> {"finalise"}
      [] at = "rejected" -> {"launch", "escalate"}
      [] OTHER -> {"done"}

\* _next_sequence; before that, _escalate has found no outcome.
NextSequence(h) ==
    /\ hand[h].at \in Recording /\ hand[h].number = 0
    /\ hand[h].at = "escalate" => row.outcome = "none"
    /\ hand' = [hand EXCEPT ![h].number = last + 1]
    /\ UNCHANGED <<row, eligible, trailVars, lock, restarts>>

\* What the unique indices forbid: the number is taken, or there is an outcome.
Violates(h) ==
    \/ hand[h].number <= last
    \/ hand[h].at \in {"finalise", "escalate"} /\ row.outcome # "none"

\* record_event commits, or the handler dies of an IntegrityError and all it has
\* written since its last event is rolled back.
RecordEvent(h) ==
    /\ hand[h].number # 0
    /\ IF Violates(h)
       THEN Ends(h, "failed") /\ UNCHANGED <<row, trailVars>>
       ELSE /\ row' = RowAfter(hand[h].at)
            /\ last' = hand[h].number
            /\ recorded' = [recorded EXCEPT ![EventOf(hand[h].at)] = @ + 1]
            /\ \E at \in AfterEvent(h) :
                  IF at \in Over THEN Ends(h, at) ELSE Goes(h, at) /\ UNCHANGED lock
    /\ UNCHANGED <<eligible, restarts>>

-----------------------------------------------------------------------------
\* create_exception: once the intake is through, a background start of its own.
StartAutomatically ==
    /\ hand[Intake].at = "done" /\ hand[Autostart].at = "idle"
    /\ hand' = [hand EXCEPT ![Autostart] = Handler("background", "waiting")]
    /\ UNCHANGED <<row, eligible, trailVars, lock, restarts>>

\* The process ends: its handlers and its locks are gone, nothing is resumed.
Restart ==
    /\ restarts < MaxRestarts
    /\ restarts' = restarts + 1
    /\ lock' = Free
    /\ hand' = [h \in Handlers |-> IF hand[h].at \in Over \cup {"idle"} THEN hand[h]
                                   ELSE Handler("none", "failed")]
    /\ UNCHANGED <<row, eligible, trailVars>>

\* A handler that has begun goes on.
Works(h) ==
    \/ StartMission(h) \/ Prepare(h) \/ EscalateOrLearn(h) \/ ResolveApproval(h)
    \/ EscalateAgain(h) \/ NextSequence(h) \/ RecordEvent(h)

Next ==
    \/ \E h \in Requests, kind \in Kinds : Arrive(h, kind)
    \/ \E h \in Handlers : Acquire(h) \/ Works(h)
    \/ StartAutomatically \/ Restart

Fairness == \A h \in Handlers : WF_vars(Works(h))

Spec == Init /\ [][Next]_vars /\ Fairness

-----------------------------------------------------------------------------
(* Properties.                                                             *)

Recorded(type) == recorded[type] > 0

\* "Lets exactly one caller win" (director.py:181): a mission is started once, however many
\* clicks, autostarts and restarts there are, and however old the rows they look at.
StartedOnce == recorded["started"] <= 1

\* Two operators who decide on the same approval at once do not both decide it.
DecidedOnce == recorded["granted"] + recorded["rejected"] <= 1

\* A start in the background, the autostart among them, does not bring back a mission
\* that an operator has ended while it waited for the lock.
BackgroundStartsAreFresh ==
    [][\A h \in Handlers :
          hand[h].kind = "background" /\ hand[h].at = "claimed" /\ hand'[h].at = "prepare"
          => row.status \notin Terminal \/ ~ eligible]_vars

\* A mission that is claimed is called for or ended: unless a handler was struck down by
\* a number that another one took, or by a restart.
StartIsCarriedOut ==
    Recorded("started") ~>
        \/ Recorded("called") \/ row.outcome # "none"
        \/ \E h \in Handlers : hand[h].at = "failed"
=============================================================================
