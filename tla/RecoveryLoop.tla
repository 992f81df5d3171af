---------------------------- MODULE RecoveryLoop ----------------------------
(***************************************************************************)
(* The adaptive recovery loop of one mission: the Recovery Director        *)
(* (engine/director.py) with the planner, the guardrails, the call         *)
(* operations, the intelligence agent, the constraint and decision engines *)
(* and the policy gate it calls.                                           *)
(*                                                                         *)
(* The variables are the rows the database holds, that is, what the last   *)
(* commit left there.  Every entry point (start, webhook, poller, approval)*)
(* runs under the mission's asyncio.Lock, so at most one handler works on  *)
(* a mission; `task` is that handler: where it stands and what only its    *)
(* session and its locals know.  record_event commits, so a handler is cut *)
(* into steps at the events whose commit changes a row; between two steps  *)
(* the clock moves and the process may die, which loses `task` and nothing *)
(* else.                                                                   *)
(***************************************************************************)
EXTENDS Naturals, Sequences, FiniteSets

CONSTANTS
    Candidates,         \* ranks of the candidates the intake may bring
    Keys,               \* constraint keys, all of them information needs too
    Mandatory,          \* the keys whose constraint is mandatory
    TimeKeys,           \* the keys with a time value and a "no later than" operator
    Cost,               \* the fact ALWAYS_ASKED: cost_increase_pct
    Replies,            \* what a contact may answer (see IsReply)
    NoVal,              \* Python's None as the value of a fact
    MaxOps,             \* limits["max_operations"]
    MaxReplans,         \* limits["max_replans"]
    MaxRetries,         \* limits["max_call_retries"]
    MaxClarifications,  \* MAX_CLARIFICATIONS_PER_TARGET
    CostLimit,          \* APPROVAL_COST_INCREASE_PCT
    Cutoff,             \* mission.recovery_cutoff
    MinWindow,          \* MIN_RECOVERY_WINDOW_SECONDS
    TTL,                \* EVIDENCE_TTL_MINUTES
    MaxTime,            \* bound on the clock, for model checking
    UseLLM,             \* LLM_ENABLED: the planner may pick any listed candidate
    AllowCrash,         \* the process may be killed while a handler runs
    AllowManual         \* the operator may press "escalate"

Asked == Keys \cup {Cost}

Flags == {"confirmed", "approximate", "unknown"}

\* A terminal CallState with outcome "completed" or "cancelled": whether CALL-E
\* filled the schema, whether the transcript hedges, and what was said on which fact.
IsReply(reply) ==
    /\ reply.structured \in BOOLEAN /\ reply.hedged \in BOOLEAN
    /\ DOMAIN reply.said \subseteq Asked
    /\ \A k \in DOMAIN reply.said :
         reply.said[k].val \in Nat \cup {NoVal} /\ reply.said[k].flag \in Flags

ASSUME LoopAssumption ==
    /\ Candidates \subseteq Nat
    /\ Mandatory \subseteq Keys /\ TimeKeys \subseteq Keys /\ Cost \notin Keys
    /\ IsFiniteSet(Keys)
    /\ NoVal \notin Nat
    /\ \A reply \in Replies : IsReply(reply)
    /\ {MaxOps, MaxReplans, MaxRetries, MaxClarifications} \subseteq Nat
    /\ {CostLimit, Cutoff, MinWindow, TTL, MaxTime} \subseteq Nat
    /\ {UseLLM, AllowCrash, AllowManual} \subseteq BOOLEAN

VARIABLES
    now,            \* utcnow()
    eligible,       \* RecoveryCandidate rows with eligible = true
    status,         \* mission.status
    started,        \* mission.started_at is not None
    outcome,        \* the mission's RecoveryOutcome row, if any
    replanCount,    \* mission.replan_count
    strategies,     \* RecoveryStrategy rows by version, each with its RecoveryAttempt
    ops,            \* PhoneOperation rows by sequence; operation_count is their number
    evidence,       \* Evidence rows
    approvals,      \* ApprovalRequest rows in order of creation
    placed,         \* history: operations for which CALL-E really dialled
    task            \* the handler that holds mission_lock

missionVars == <<status, started, outcome, replanCount>>
rowVars     == <<strategies, ops, evidence, approvals>>
vars == <<now, eligible, missionVars, rowVars, placed, task>>

MissionStatus == {"assessing", "planning", "executing", "learning", "evaluating",
                  "replanning", "approval_required", "recovered", "escalated"}
Terminal == {"recovered", "escalated"}
Purposes == {"verify", "clarification", "retry"}

\* Where a handler stands: the step of the Director it takes next.
Steps == {"idle", "prepare", "launch", "dispatch", "dispatched", "ingest", "extract",
          "evaluate", "failed", "invalidate", "replan", "propose", "confirm",
          "finalise", "escalate"}

Unsaid == [structured |-> FALSE, hedged |-> FALSE, said |-> [k \in {} |-> NoVal]]

\* No handler runs: the mission lock is free.
Idle == [at |-> "idle", strategy |-> 0, op |-> 0, facts |-> {}, purpose |-> "verify",
         attempt |-> 1, permanent |-> FALSE, reply |-> Unsaid]

Go(step, s, o) == [Idle EXCEPT !.at = step, !.strategy = s, !.op = o]

\* A call of _launch_operation with its keyword arguments.
Launching(s, facts, purpose, attempt) ==
    [Idle EXCEPT !.at = "launch", !.strategy = s, !.facts = facts,
                 !.purpose = purpose, !.attempt = attempt]

At(step) == task.at = step
-----------------------------------------------------------------------------
(* Guardrails *)

\* guardrails.check_deadline: the window is open and long enough to work in.
CheckDeadline == now < Cutoff /\ now + MinWindow <= Cutoff

\* Fault: the limit itself still passes.
CheckReplanBudget_OffByOne == replanCount <= MaxReplans

CheckReplanBudget == replanCount < MaxReplans

CheckOperationBudget == Len(ops) < MaxOps

CheckRetryBudget(attempt) == attempt <= MaxRetries

PreReplanChecks == CheckDeadline /\ CheckReplanBudget /\ CheckOperationBudget

(* Planner *)

TargetOf(o) == strategies[ops[o].strategy].target

AttemptedTargets == {strategies[s].target : s \in DOMAIN strategies}

\* Fault: a replan does not exclude the targets already tried.
AvailableCandidates_All == eligible

AvailableCandidates == eligible \ AttemptedTargets

\* The best-ranked candidate, or any listed one when a language model picks.
\* check_duplicate_strategy cannot fail here: its fingerprint normalises names
\* exactly as the exclusion of attempted targets does.
Proposals ==
    {c \in AvailableCandidates : UseLLM \/ \A d \in AvailableCandidates : c <= d}

\* information_needed: every need of the template, or those the model names.
NeedSets == IF UseLLM THEN (SUBSET Keys) \ {{}} ELSE {Keys}

NewStrategy(c, needs) ==
    [target |-> c, needs |-> needs, status |-> "active", attempt |-> "none"]

(* Call operations *)

\* Fault: the attempt number of a retry is not handed on.
NewOperation_FirstAttempt(s, facts, purpose, attempt) ==
    [strategy |-> s, attempt |-> 1, purpose |-> purpose, facts |-> facts \cup {Cost},
     status |-> "queued", recorded |-> FALSE, cause |-> "none"]

\* create_operation; facts_asked adds the cost question to every call.
NewOperation(s, facts, purpose, attempt) ==
    [strategy |-> s, attempt |-> attempt, purpose |-> purpose, facts |-> facts \cup {Cost},
     status |-> "queued", recorded |-> FALSE, cause |-> "none"]

\* Fault: only clarifications that were answered are counted.
ClarificationCount_Answered(t) ==
    Cardinality({o \in DOMAIN ops : /\ TargetOf(o) = t /\ ops[o].purpose = "clarification"
                                    /\ ops[o].status = "completed"})

ClarificationCount(t) ==
    Cardinality({o \in DOMAIN ops : TargetOf(o) = t /\ ops[o].purpose = "clarification"})
-----------------------------------------------------------------------------
(* Intelligence: what a reply becomes as evidence *)

\* Fault: everything the contact volunteered is kept, asked or not.
StructuredFacts_Volunteered(reply, facts) ==
    {[key |-> k, val |-> reply.said[k].val,
      status |-> IF \/ reply.said[k].val = NoVal
                    \/ reply.said[k].flag = "approximate"
                    \/ reply.said[k].flag = "unknown" /\ reply.hedged
                 THEN "uncertain" ELSE "validated"]
     : k \in {f \in DOMAIN reply.said : f # Cost \/ reply.said[f].val # NoVal}}

\* extract_from_structured: a fact hedged in any way is UNCERTAIN; a fact the
\* schema did not return, or a null cost, leaves no evidence at all.
StructuredFacts(reply, facts) ==
    {[key |-> k, val |-> reply.said[k].val,
      status |-> IF \/ reply.said[k].val = NoVal
                    \/ reply.said[k].flag = "approximate"
                    \/ reply.said[k].flag = "unknown" /\ reply.hedged
                 THEN "uncertain" ELSE "validated"]
     : k \in {f \in facts \cap DOMAIN reply.said : f # Cost \/ reply.said[f].val # NoVal}}

\* extract_from_transcript, the regex fallback: one fact for every key asked,
\* without a value where nothing was found; a number is never found.
TranscriptFacts(reply, facts) ==
    {LET v == IF k \in DOMAIN reply.said \ {Cost} THEN reply.said[k].val ELSE NoVal
     IN  [key |-> k, val |-> v,
          status |-> IF v = NoVal \/ reply.hedged THEN "uncertain" ELSE "validated"]
     : k \in facts}

ExtractedFacts(reply, facts) ==
    IF reply.structured THEN StructuredFacts(reply, facts) ELSE TranscriptFacts(reply, facts)

\* Fault: the evidence is filed under the next operation.
NewEvidence_NextOperation(o, reply) ==
    {[op |-> o + 1, subject |-> TargetOf(o), key |-> f.key, val |-> f.val,
      status |-> f.status, at |-> now] : f \in ExtractedFacts(reply, ops[o].facts)}

\* persist_evidence: every fact with its subject, its operation and its time.
NewEvidence(o, reply) ==
    {[op |-> o, subject |-> TargetOf(o), key |-> f.key, val |-> f.val,
      status |-> f.status, at |-> now] : f \in ExtractedFacts(reply, ops[o].facts)}

Clash(e, f) ==
    /\ e.subject = f.subject /\ e.key = f.key
    /\ e.status = "validated" /\ f.status = "validated" /\ e.val # f.val

MarkAgainst(E, F) ==
    {IF \E f \in F : Clash(e, f) THEN [e EXCEPT !.status = "conflicting"] ELSE e : e \in E}

\* _mark_conflicts: two different confirmed values of one fact spoil each other.
MarkConflicts(old, new) == MarkAgainst(old, new) \cup MarkAgainst(new, old)
-----------------------------------------------------------------------------
(* Constraint and decision engines *)

\* latest_evidence_for: the most recent evidence on a fact, for this subject only.
Latest(E, t, k) ==
    {e \in E : /\ e.subject = t /\ e.key = k
               /\ \A f \in E : f.subject = t /\ f.key = k => f.op <= e.op}

\* evaluate_mission: validated evidence past its time to live turns STALE.
Expired(e) == e.status = "validated" /\ e.at + TTL < now

Refreshed(E, t) ==
    {IF Expired(e) /\ \E k \in Keys : e \in Latest(E, t, k)
     THEN [e EXCEPT !.status = "stale"] ELSE e : e \in E}

\* The requirement itself: a time by the cutoff, a plain "yes".
Meets(k, v) == IF k \in TimeKeys THEN v \in Nat /\ v <= Cutoff ELSE v = 1

\* evaluate_constraint also bounds a deadline answer by the present.
HoldsNow(k, v) == Meets(k, v) /\ (k \in TimeKeys => v >= now)

NotEvaluated(E, t) == {k \in Keys : Latest(E, t, k) = {}}

\* Fault: stale evidence is taken for validated.
Uncertain_NotStale(E, t) ==
    {k \in Keys : \E e \in Latest(E, t, k) : e.status \notin {"validated", "stale"}}

Uncertain(E, t) == {k \in Keys : \E e \in Latest(E, t, k) : e.status # "validated"}

Violated(E, t) ==
    {k \in Keys : \E e \in Latest(E, t, k) : e.status = "validated" /\ ~HoldsNow(k, e.val)}

\* Fault: the cost first named decides, not the last.
AboveCostLimit_First(E, t) ==
    \E e \in E : /\ e.subject = t /\ e.key = Cost
                 /\ \A f \in E : f.subject = t /\ f.key = Cost => e.op <= f.op
                 /\ e.val \in Nat /\ e.val > CostLimit

\* policy.evaluate for confirm_recovery_path, on the value _latest_cost returns.
AboveCostLimit(E, t) == \E e \in Latest(E, t, Cost) : e.val \in Nat /\ e.val > CostLimit
-----------------------------------------------------------------------------
(* Intake and start *)

\* create_exception_and_mission has committed the mission; prepare_mission runs next.
Init ==
    /\ now = 0
    /\ eligible \in SUBSET Candidates
    /\ status = "assessing" /\ started = FALSE /\ outcome = "none" /\ replanCount = 0
    /\ strategies = <<>> /\ ops = <<>> /\ evidence = {} /\ approvals = <<>>
    /\ placed = {}
    /\ task = Go("prepare", 0, 0)

\* prepare_mission with no strategy yet: plan the first one and name its needs, or
\* escalate.  At start it runs again if the process died before the first one was kept.
Prepare ==
    /\ At("prepare")
    /\ \/ /\ AvailableCandidates = {}
          /\ task' = Go("escalate", 0, 0)
          /\ UNCHANGED strategies
       \/ \E c \in Proposals, needs \in NeedSets :
            /\ strategies' = <<NewStrategy(c, needs)>>
            /\ task' = IF started THEN Launching(1, needs, "verify", 1) ELSE Idle
    /\ UNCHANGED <<now, eligible, missionVars, ops, evidence, approvals, placed>>

\* start_mission: refuse a finished or running mission, check the window, claim.
Start ==
    /\ task = Idle
    /\ status \notin Terminal /\ ~started
    /\ IF CheckDeadline
       THEN /\ started' = TRUE /\ status' = "planning"
            /\ task' = IF strategies = <<>> THEN Go("prepare", 0, 0)
                       ELSE Launching(1, strategies[1].needs, "verify", 1)
       ELSE /\ task' = Go("escalate", 0, 0)
            /\ UNCHANGED <<started, status>>
    /\ UNCHANGED <<now, eligible, outcome, replanCount, rowVars, placed>>
-----------------------------------------------------------------------------
(* Operation launch and dispatch *)

\* _launch_operation up to RECOVERY_ATTEMPT_STARTED: only the operation budget is checked
\* (the default authority always allows call_candidate); a strategy's first launch comes
\* without an attempt and keeps a new one, a retry or a clarification goes on with it.
StartAttempt ==
    /\ At("launch") /\ CheckOperationBudget
    /\ strategies[task.strategy].attempt = "none"
    /\ strategies' = [strategies EXCEPT ![task.strategy].attempt = "running"]
    /\ UNCHANGED <<now, eligible, missionVars, ops, evidence, approvals, placed, task>>

\* _launch_operation up to CALL_REQUESTED: the operation is kept, or the budget is spent.
LaunchOperation ==
    /\ At("launch")
    /\ IF CheckOperationBudget
       THEN /\ strategies[task.strategy].attempt # "none"
            /\ ops' = Append(ops, NewOperation(task.strategy, task.facts, task.purpose,
                                               task.attempt))
            /\ status' = "executing"
            /\ task' = Go("dispatch", task.strategy, Len(ops) + 1)
       ELSE /\ task' = Go("escalate", 0, 0)
            /\ UNCHANGED <<ops, status>>
    /\ UNCHANGED <<now, eligible, started, outcome, replanCount, strategies, evidence, approvals,
                   placed>>

\* dispatch: create_call succeeds.  CALLING and the CallRecord are only flushed, so
\* the rows do not change before CALL_STARTED.
DispatchAccepted ==
    /\ At("dispatch")
    /\ placed' = placed \cup {task.op}
    /\ task' = [task EXCEPT !.at = "dispatched"]
    /\ UNCHANGED <<now, eligible, missionVars, rowVars>>

\* create_call raises CalleError with details.rejected: no call, and no retry either.
DispatchRejected ==
    /\ At("dispatch")
    /\ ops' = [ops EXCEPT ![task.op].status = "failed"]
    /\ task' = Go("escalate", 0, 0)
    /\ UNCHANGED <<now, eligible, missionVars, strategies, evidence, approvals, placed>>

\* Any other CalleError.  After a timeout or an unreadable answer the call may have
\* been placed; an error text that names a dead number means it was not.
DispatchFailed ==
    /\ At("dispatch")
    /\ \E cause \in {"line", "number"}, dialled \in BOOLEAN :
         /\ cause = "number" => ~dialled
         /\ ops' = [ops EXCEPT ![task.op].status = "failed", ![task.op].cause = cause]
         /\ placed' = IF dialled THEN placed \cup {task.op} ELSE placed
         /\ task' = [Go("failed", task.strategy, task.op)
                       EXCEPT !.permanent = (cause = "number")]
    /\ UNCHANGED <<now, eligible, missionVars, strategies, evidence, approvals>>

\* CALL_STARTED commits the operation as CALLING with its CallRecord.  The handler
\* returns, unless create_call already returned a terminal state (the mock does).
CallStarted ==
    /\ At("dispatched")
    /\ ops' = [ops EXCEPT ![task.op].status = "calling", ![task.op].recorded = TRUE]
    /\ task' \in {Idle, [task EXCEPT !.at = "ingest"]}
    /\ UNCHANGED <<now, eligible, missionVars, strategies, evidence, approvals, placed>>
-----------------------------------------------------------------------------
(* Call results *)

\* Fault: an operation that is closed already is ingested again.
MayIngest_Again(o) ==
    /\ ops[o].recorded
    /\ task = Idle \/ (At("ingest") /\ task.op = o)

\* handle_call_update for a terminal state, from the webhook or the poller once the
\* lock is free, or directly from the launch: an operation still open is ingested.
MayIngest(o) ==
    /\ ops[o].status \notin {"completed", "failed"} /\ ops[o].recorded
    /\ task = Idle \/ (At("ingest") /\ task.op = o)

\* ingest_call_state, the call was answered (or cancelled): CALL_COMPLETED.
IngestReply(o, reply) ==
    /\ MayIngest(o)
    /\ ops' = [ops EXCEPT ![o].status = "completed"]
    /\ status' = "learning"
    /\ task' = [Go("extract", ops[o].strategy, o) EXCEPT !.reply = reply]
    /\ UNCHANGED <<now, eligible, started, outcome, replanCount, strategies, evidence,
                   approvals, placed>>

\* ingest_call_state, is_business_failure: CALL_FAILED.  The provider may have said
\* that the number is dead, but _handle_call_failure is told the outcome only.
IngestFailure(o, cause) ==
    /\ MayIngest(o)
    /\ ops' = [ops EXCEPT ![o].status = "failed", ![o].cause = cause]
    /\ status' = "learning"
    /\ task' = Go("failed", ops[o].strategy, o)
    /\ UNCHANGED <<now, eligible, started, outcome, replanCount, strategies, evidence,
                   approvals, placed>>

IngestCallState ==
    \E o \in DOMAIN ops : \/ \E reply \in Replies : IngestReply(o, reply)
                          \/ \E cause \in {"line", "number"} : IngestFailure(o, cause)

\* extract and persist_evidence; the first evidence event commits all of it.
Extract ==
    /\ At("extract")
    /\ evidence' = MarkConflicts(evidence, NewEvidence(task.op, task.reply))
    /\ task' = Go("evaluate", task.strategy, task.op)
    /\ UNCHANGED <<now, eligible, missionVars, strategies, ops, approvals, placed>>

\* Fault: a fact still missing after the clarification only logs CONTINUE.
Verdict_Continue(E, t) ==
    LET budget == ClarificationCount(t) < MaxClarifications
        replan == Go("invalidate", task.strategy, task.op)
        clarify(facts) == Launching(task.strategy, facts, "clarification", 1)
    IN  IF Violated(E, t) \cap Mandatory # {} THEN {replan}
        ELSE IF Uncertain(E, t) \cap Mandatory # {}
        THEN IF budget THEN {clarify({k}) : k \in Uncertain(E, t) \cap Mandatory} ELSE {replan}
        ELSE IF NotEvaluated(E, t) \cap Mandatory # {}
        THEN IF budget THEN {clarify(strategies[task.strategy].needs)} ELSE {Idle}
        ELSE {Go("confirm", task.strategy, task.op)}

\* decide and the branch _evaluate_and_decide takes on it.
Verdict(E, t) ==
    LET budget == ClarificationCount(t) < MaxClarifications
        replan == Go("invalidate", task.strategy, task.op)
        clarify(facts) == Launching(task.strategy, facts, "clarification", 1)
    IN  IF Violated(E, t) \cap Mandatory # {} THEN {replan}
        ELSE IF Uncertain(E, t) \cap Mandatory # {}
        THEN IF budget THEN {clarify({k}) : k \in Uncertain(E, t) \cap Mandatory} ELSE {replan}
        ELSE IF NotEvaluated(E, t) \cap Mandatory # {}
        THEN IF budget THEN {clarify(strategies[task.strategy].needs)} ELSE {replan}
        ELSE IF Mandatory # {} THEN {Go("confirm", task.strategy, task.op)} ELSE {Idle}

\* _evaluate_and_decide.
EvaluateAndDecide ==
    /\ At("evaluate")
    /\ LET t == TargetOf(task.op)
       IN  /\ evidence' = Refreshed(evidence, t)
           /\ task' \in Verdict(Refreshed(evidence, t), t)
    /\ status' = "evaluating"
    /\ UNCHANGED <<now, eligible, started, outcome, replanCount, strategies, ops, approvals,
                   placed>>

\* Fault: a call that failed for the last time is not followed by a replan.
HandleCallFailure_GivesUp ==
    /\ At("failed")
    /\ LET op == ops[task.op]
       IN  task' = IF CheckRetryBudget(op.attempt + 1) /\ ~task.permanent
                   THEN Launching(task.strategy, op.facts, "retry", op.attempt + 1)
                   ELSE Idle
    /\ UNCHANGED <<now, eligible, missionVars, rowVars, placed>>

\* _handle_call_failure: redial the same facts while the attempts last, else move on.
HandleCallFailure ==
    /\ At("failed")
    /\ LET op == ops[task.op]
       IN  task' = IF CheckRetryBudget(op.attempt + 1) /\ ~task.permanent
                   THEN Launching(task.strategy, op.facts, "retry", op.attempt + 1)
                   ELSE Go("invalidate", task.strategy, task.op)
    /\ UNCHANGED <<now, eligible, missionVars, rowVars, placed>>
-----------------------------------------------------------------------------
(* Invalidation and replanning: _invalidate_and_replan in its three commits *)

Invalidate ==
    /\ At("invalidate")
    /\ strategies' = [strategies EXCEPT ![task.strategy].status = "invalidated",
                                        ![ops[task.op].strategy].attempt = "invalidated"]
    /\ task' = Go("replan", task.strategy, task.op)
    /\ UNCHANGED <<now, eligible, missionVars, ops, evidence, approvals, placed>>

Replan ==
    /\ At("replan")
    /\ IF PreReplanChecks
       THEN status' = "replanning" /\ task' = [task EXCEPT !.at = "propose"]
       ELSE UNCHANGED status /\ task' = Go("escalate", 0, 0)
    /\ UNCHANGED <<now, eligible, started, outcome, replanCount, rowVars, placed>>

Propose ==
    /\ At("propose")
    /\ \/ /\ AvailableCandidates = {}
          /\ task' = Go("escalate", 0, 0)
          /\ UNCHANGED <<replanCount, strategies>>
       \/ \E c \in Proposals, needs \in NeedSets :
            /\ replanCount' = replanCount + 1
            /\ strategies' = Append(strategies, NewStrategy(c, needs))
            /\ task' = Launching(Len(strategies) + 1, needs, "verify", 1)
    /\ UNCHANGED <<now, eligible, status, started, outcome, ops, evidence, approvals, placed>>
-----------------------------------------------------------------------------
(* Recovery, approval, escalation *)

\* _confirm_recovery: a cost found on the phone moves the path behind a human.  The commit
\* of RECOVERY_PATH_CONFIRMED that comes first adds the event and changes no row.
ConfirmRecovery ==
    /\ At("confirm")
    /\ IF AboveCostLimit(evidence, strategies[task.strategy].target)
       THEN /\ approvals' = Append(approvals, [strategy |-> task.strategy, status |-> "pending"])
            /\ status' = "approval_required"
            /\ task' = Idle
       ELSE /\ task' = [task EXCEPT !.at = "finalise"]
            /\ UNCHANGED <<approvals, status>>
    /\ UNCHANGED <<now, eligible, started, outcome, replanCount, strategies, ops, evidence,
                   placed>>

\* Fault: the outcome is inserted or replaced, with no unique key in the way.
FinaliseRecovery_Overwrites ==
    /\ At("finalise")
    /\ strategies' = [strategies EXCEPT ![task.strategy].status = "successful",
                                        ![task.strategy].attempt = "succeeded"]
    /\ status' = "recovered" /\ outcome' = "recovered"
    /\ task' = Idle
    /\ UNCHANGED <<now, eligible, started, replanCount, ops, evidence, approvals, placed>>

\* finalise_recovery.  mission_id is unique among RecoveryOutcome rows: where one
\* exists the insert fails and the session falls back to its last commit.
FinaliseRecovery ==
    /\ At("finalise")
    /\ IF outcome = "none"
       THEN /\ strategies' = [strategies EXCEPT ![task.strategy].status = "successful",
                                                ![task.strategy].attempt = "succeeded"]
            /\ status' = "recovered" /\ outcome' = "recovered"
       ELSE UNCHANGED <<strategies, status, outcome>>
    /\ task' = Idle
    /\ UNCHANGED <<now, eligible, started, replanCount, ops, evidence, approvals, placed>>

\* _escalate keeps an outcome that is there, but always sets the status.
SetEscalated ==
    /\ status' = "escalated"
    /\ outcome' = IF outcome = "none" THEN "escalated" ELSE outcome

\* Where there is an outcome, nothing is committed before the handler ends; the routes
\* refresh the mission first, which takes the status back.
Escalate ==
    /\ At("escalate")
    /\ SetEscalated \/ (outcome # "none" /\ UNCHANGED <<status, outcome>>)
    /\ task' = Idle
    /\ UNCHANGED <<now, eligible, started, replanCount, rowVars, placed>>

\* POST /{mission_id}/escalate: no look at the mission's status.  With an outcome
\* there already, the refresh takes the status back and nothing changes.
EscalateManually ==
    /\ AllowManual
    /\ task = Idle /\ outcome = "none"
    /\ SetEscalated
    /\ UNCHANGED <<now, eligible, started, replanCount, rowVars, placed, task>>

\* Fault: an approval can be decided again.
ResolveApproval_Again(a, approved) ==
    /\ task = Idle
    /\ approvals' = [approvals EXCEPT ![a].status = IF approved THEN "approved" ELSE "rejected"]
    /\ task' = Go(IF approved THEN "finalise" ELSE "invalidate", approvals[a].strategy, Len(ops))
    /\ UNCHANGED <<now, eligible, missionVars, strategies, ops, evidence, placed>>

\* resolve_approval: of everything, only the approval's own status is looked at.
ResolveApproval(a, approved) ==
    /\ task = Idle
    /\ approvals[a].status = "pending"
    /\ approvals' = [approvals EXCEPT ![a].status = IF approved THEN "approved" ELSE "rejected"]
    /\ task' = Go(IF approved THEN "finalise" ELSE "invalidate", approvals[a].strategy, Len(ops))
    /\ UNCHANGED <<now, eligible, missionVars, strategies, ops, evidence, placed>>

ResolveApprovals == \E a \in DOMAIN approvals, approved \in BOOLEAN : ResolveApproval(a, approved)
-----------------------------------------------------------------------------
(* The environment and the specification *)

Tick ==
    /\ now < MaxTime
    /\ now' = now + 1
    /\ UNCHANGED <<eligible, missionVars, rowVars, placed, task>>

\* The process is killed: the lock, the session and the locals are gone.
Crash ==
    /\ AllowCrash
    /\ task # Idle
    /\ task' = Idle
    /\ UNCHANGED <<now, eligible, missionVars, rowVars, placed>>

\* The steps of a handler that runs: nothing but the event loop delays them.
Engine ==
    \/ Prepare \/ StartAttempt \/ LaunchOperation
    \/ DispatchAccepted \/ DispatchRejected \/ DispatchFailed \/ CallStarted
    \/ Extract \/ EvaluateAndDecide \/ HandleCallFailure
    \/ Invalidate \/ Replan \/ Propose
    \/ ConfirmRecovery \/ FinaliseRecovery \/ Escalate

Next ==
    \/ Engine \/ IngestCallState
    \/ Start \/ ResolveApprovals \/ EscalateManually
    \/ Tick \/ Crash

Spec == Init /\ [][Next]_vars

\* Handlers run on, and every call CALL-E accepted ends and is reported by the
\* poller at the latest.  Nothing obliges the operator to start or to approve.
FairSpec == Spec /\ WF_vars(Engine) /\ WF_vars(IngestCallState)
-----------------------------------------------------------------------------
(* Properties *)

StrategyType == [target : Candidates, needs : SUBSET Keys,
                 status : {"active", "invalidated", "successful"},
                 attempt : {"none", "running", "invalidated", "succeeded"}]
OpType == [strategy : Nat, attempt : Nat, purpose : Purposes, facts : SUBSET Asked,
           status : {"queued", "calling", "completed", "failed"}, recorded : BOOLEAN,
           cause : {"none", "line", "number"}]
EvidenceType == [op : Nat, subject : Candidates, key : Asked, val : Nat \cup {NoVal},
                 status : {"validated", "uncertain", "conflicting", "stale"}, at : Nat]
ApprovalType == [strategy : Nat, status : {"pending", "approved", "rejected"}]
TaskType == [at : Steps, strategy : Nat, op : Nat, facts : SUBSET Asked, purpose : Purposes,
             attempt : Nat, permanent : BOOLEAN, reply : Replies \cup {Unsaid}]

\* Every row and the handler's locals have the types the models declare, and the rows
\* a handler or another row points at exist.
TypeOK ==
    /\ now \in 0..MaxTime /\ eligible \subseteq Candidates
    /\ status \in MissionStatus /\ started \in BOOLEAN
    /\ outcome \in {"none"} \cup Terminal /\ replanCount \in Nat
    /\ strategies \in Seq(StrategyType) /\ ops \in Seq(OpType)
    /\ evidence \subseteq EvidenceType /\ approvals \in Seq(ApprovalType)
    /\ placed \subseteq DOMAIN ops
    /\ task \in TaskType
    /\ task.strategy \in 0..Len(strategies) /\ task.op \in 0..Len(ops)
    /\ \A o \in DOMAIN ops : ops[o].strategy \in DOMAIN strategies
    /\ \A a \in DOMAIN approvals : approvals[a].strategy \in DOMAIN strategies
    /\ \A e \in evidence : e.op \in DOMAIN ops

Calling == {o \in DOMAIN ops : ops[o].status = "calling"}
Pending == {a \in DOMAIN approvals : approvals[a].status = "pending"}
Working == task # Idle /\ ~At("ingest")

\* The mission is moved by one thing at a time: a handler that works, or one open call,
\* or one pending approval.  Were a result ingested twice, two branches would each dial,
\* replan and decide ("two call results must never replan concurrently").
OneLiveThread ==
    /\ \A o, p \in Calling : o = p
    /\ \A a, b \in Pending : a = b
    /\ Calling = {} \/ Pending = {}
    /\ Working => Calling = {} /\ Pending = {}

\* Strategies form one line: every earlier one was invalidated before the next was made,
\* and no candidate is tried twice, whatever makes the Director replan.
StrategiesFormOneLine ==
    /\ \A s \in DOMAIN strategies : s < Len(strategies) => strategies[s].status = "invalidated"
    /\ \A s, r \in DOMAIN strategies : strategies[s].target = strategies[r].target => s = r

\* Every call has the cause the audit trail gives it: a retry follows a failed call and
\* repeats its questions, a clarification follows an answered one about the same
\* candidate, and any other call opens a strategy whose predecessor was invalidated.
EveryCallHasItsCause ==
    \A o \in DOMAIN ops :
        LET op == ops[o]  before == ops[o - 1]
        IN  CASE op.purpose = "retry" ->
                   /\ o > 1 /\ before.status = "failed" /\ before.strategy = op.strategy
                   /\ op.facts = before.facts /\ op.attempt = before.attempt + 1
              [] op.purpose = "clarification" ->
                   /\ o > 1 /\ before.status = "completed" /\ before.strategy = op.strategy
                   /\ op.attempt = 1
              [] op.purpose = "verify" ->
                   /\ op.attempt = 1
                   /\ IF o = 1 THEN op.strategy = 1
                      ELSE /\ op.strategy = before.strategy + 1
                           /\ before.status \in {"completed", "failed"}
                           /\ strategies[before.strategy].status = "invalidated"

CallsTo(t) == {o \in DOMAIN ops : TargetOf(o) = t}
CallsPerTarget == (1 + MaxClarifications) * (IF MaxRetries = 0 THEN 1 ELSE MaxRetries)

\* The budgets of the mission hold: calls, replans, and a
\* strategy for every replan and the first plan, no more.
BudgetsHold ==
    Len(ops) <= MaxOps /\ replanCount <= MaxReplans /\ Len(strategies) <= replanCount + 1

\* Nobody is phoned more often than the retries of a first call and of each
\* clarification allow, whatever is answered, refused or left unanswered in between.
CallsAreBounded == \A t \in Candidates : Cardinality(CallsTo(t)) <= CallsPerTarget

\* A failed call is never business evidence, an answer counts for the candidate that
\* gave it and for a fact it was asked, and no result leaves a fact twice.
EvidenceHasProvenance ==
    \A e \in evidence :
        /\ ops[e.op].status = "completed" /\ ops[e.op].recorded
        /\ e.subject = TargetOf(e.op) /\ e.key \in ops[e.op].facts
        /\ \A f \in evidence : f.op = e.op /\ f.key = e.key => f = e

\* What a candidate last said on a fact still stands and meets the requirement; a time
\* was not yet over when it was given.
StandsFor(t, k) ==
    \E e \in Latest(evidence, t, k) :
        e.status = "validated" /\ Meets(k, e.val) /\ (k \in TimeKeys => e.at <= e.val)

\* A mission recovers only when validated phone evidence of the selected candidate meets
\* every mandatory constraint (the promise in the header of decision.py), through
\* clarifications, conflicts, staleness, replans and approvals.
RecoveryIsEvidenced ==
    outcome = "recovered" =>
        \E s \in DOMAIN strategies :
            /\ strategies[s].status = "successful"
            /\ \A k \in Mandatory : StandsFor(strategies[s].target, k)

\* A recovery whose last known cost is above the limit was approved by a human, and no
\* path a human turned down is recovered ("autonomy is bounded by authority").
HumanHasTheLastWord ==
    \A s \in DOMAIN strategies : strategies[s].status = "successful" =>
        /\ (\E e \in Latest(evidence, strategies[s].target, Cost) :
              e.val # NoVal /\ e.val > CostLimit) =>
             \E a \in DOMAIN approvals :
                approvals[a].strategy = s /\ approvals[a].status = "approved"
        /\ \A a \in DOMAIN approvals :
             approvals[a].strategy = s => approvals[a].status = "approved"

\* Unless an operator interferes, the mission's status and its outcome row agree, and an
\* ended mission has no open call, no question to a human and no handler left.
EndedMeansEnded ==
    ~AllowManual =>
        /\ status \in Terminal => outcome = status /\ Calling = {} /\ Pending = {} /\ ~Working
        /\ outcome # "none" => status = outcome

\* Unless a process died or an operator interfered, a started mission that has not ended
\* waits for an open call or a human: no branch of the Director drops it.
NeverStranded ==
    started /\ task = Idle /\ status \notin Terminal /\ ~AllowCrash /\ ~AllowManual
      /\ Mandatory # {}
        => Calling # {} \/ (Pending # {} /\ status = "approval_required")

\* The outcome is written once: no later recovery, escalation or operator replaces it.
OutcomeIsWrittenOnce == [][outcome # "none" => outcome' = outcome]_vars

\* A started mission ends or asks a human.
StartedMissionEnds == started ~> (status \in Terminal \/ Pending # {})
=============================================================================
