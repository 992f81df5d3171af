------------------------- MODULE RecoveryLineProofs -------------------------
(***************************************************************************)
(* The line a mission follows, proved from OneLiveThread:                  *)
(*   - its strategies form one line (StrategiesFormOneLine);               *)
(*   - every call has its cause (EveryCallHasItsCause);                    *)
(*   - nobody is phoned too often (CallsAreBounded): each question to a    *)
(*     candidate costs at most the dials its retries allow (CallCount).    *)
(* The argument: whatever is going on, a handler, an open call or a        *)
(* pending approval, is about the last strategy and, once it has called,   *)
(* about the last operation (OpenInv, StandInv).  So no step looks back:   *)
(* earlier rows stay as the next one found them.                           *)
(***************************************************************************)
EXTENDS RecoveryLoopProofs, FiniteSetTheorems

-----------------------------------------------------------------------------
(* The inductive invariant *)

LastOp == Len(ops)
LastStrategy == Len(strategies)
Closed == {"completed", "failed"}

\* The handler follows a strategy.
Engaged == task.at \notin {"idle", "prepare", "escalate"}

\* What is there stays as it was found; every call asks for its cost.
RowsInv ==
    /\ StrategiesFormOneLine
    /\ EveryCallHasItsCause
    /\ \A o \in DOMAIN ops : Cost \in ops[o].facts

\* An open call or a question to a human is about the last strategy and its last call.
OpenInv ==
    /\ \A o \in Calling : o = LastOp /\ ops[o].strategy = LastStrategy
    /\ \A a \in Pending : /\ approvals[a].strategy = LastStrategy
                          /\ LastOp # 0 /\ ops[LastOp].strategy = LastStrategy
                          /\ ops[LastOp].status = "completed"
    /\ ~started => LastStrategy <= 1

\* The status the last operation has where a handler stands.
StatusAt(step) ==
    CASE step \in {"dispatch", "dispatched"} -> {"queued"}
      [] step = "ingest" -> {"calling"}
      [] step \in {"extract", "evaluate", "confirm", "finalise"} -> {"completed"}
      [] step = "failed" -> {"failed"}
      [] step \in {"invalidate", "replan", "propose"} -> Closed

\* Why a handler is about to dial.
LaunchCause ==
    LET last == ops[LastOp]
    IN  CASE task.purpose = "retry" ->
               /\ LastOp # 0 /\ last.status = "failed" /\ last.strategy = task.strategy
               /\ task.facts = last.facts /\ task.attempt = last.attempt + 1
          [] task.purpose = "clarification" ->
               /\ LastOp # 0 /\ last.status = "completed" /\ last.strategy = task.strategy
               /\ task.attempt = 1
          [] task.purpose = "verify" ->
               /\ task.attempt = 1
               /\ \A o \in DOMAIN ops : ops[o].strategy < task.strategy
               /\ IF LastOp = 0 THEN task.strategy = 1
                  ELSE /\ last.strategy + 1 = task.strategy /\ last.status \in Closed
                       /\ strategies[last.strategy].status = "invalidated"

\* A handler works on the last strategy and, from the dispatch on, on the last operation.
StandInv ==
    /\ Engaged => task.strategy = LastStrategy
    /\ Engaged /\ ~At("launch") =>
          /\ LastOp # 0 /\ task.op = LastOp /\ ops[LastOp].strategy = LastStrategy
          /\ ops[LastOp].status \in StatusAt(task.at)
    /\ At("launch") => LaunchCause
    /\ task.at \in {"replan", "propose"} => strategies[LastStrategy].status = "invalidated"

LoopInv == ThreadInv /\ RowsInv /\ OpenInv /\ StandInv
-----------------------------------------------------------------------------
(* Lemmas on rows *)

\* Types and domains, in the form the steps need them.
LEMMA RowFacts ==
    ASSUME TypeInv
    PROVE  /\ DOMAIN strategies = 1..LastStrategy /\ LastStrategy \in Nat
           /\ DOMAIN ops = 1..LastOp /\ LastOp \in Nat
           /\ DOMAIN approvals = 1..Len(approvals) /\ Len(approvals) \in Nat
           /\ strategies \in Seq(StrategyType) /\ ops \in Seq(OpType)
           /\ approvals \in Seq(ApprovalType)
           /\ \A s \in DOMAIN strategies : strategies[s] \in StrategyType
           /\ \A o \in DOMAIN ops : /\ ops[o] \in OpType
                                    /\ ops[o].strategy \in DOMAIN strategies
           /\ \A a \in DOMAIN approvals : /\ approvals[a] \in ApprovalType
                                          /\ approvals[a].strategy \in DOMAIN strategies
           /\ task \in TaskType
BY RowDomains DEF TypeInv, TypeOK, LastOp, LastStrategy

\* Who is engaged has nothing open but the call it is about to ingest itself.
LEMMA EngagedFacts ==
    ASSUME ThreadInv, Engaged
    PROVE  /\ started /\ task # Idle
           /\ task.at # "ingest" => Calling = {} /\ Pending = {}
BY WorkingSteps DEF ThreadInv, NothingBefore, OneLiveThread, Engaged

\* A handler that is not engaged stands anywhere.
LEMMA NotEngaged == ~Engaged => StandInv
BY DEF Engaged, StandInv, At

\* Strategies that keep their targets, and their status but for the last, form one line.
LEMMA LineKept ==
    ASSUME TypeInv, StrategiesFormOneLine, DOMAIN strategies' = DOMAIN strategies,
           Len(strategies') = Len(strategies),
           \A s \in DOMAIN strategies :
              /\ strategies'[s].target = strategies[s].target
              /\ s < Len(strategies) => strategies'[s].status = strategies[s].status
    PROVE  StrategiesFormOneLine'
BY DEF StrategiesFormOneLine

\* The same for the state a step leads to.
LEMMA NextRowFacts ==
    ASSUME TypeInv'
    PROVE  /\ DOMAIN strategies' = 1..LastStrategy' /\ LastStrategy' \in Nat
           /\ DOMAIN ops' = 1..LastOp' /\ LastOp' \in Nat
           /\ strategies' \in Seq(StrategyType) /\ ops' \in Seq(OpType)
           /\ \A o \in DOMAIN ops' : ops'[o].strategy \in DOMAIN strategies'
BY LenProperties DEF TypeInv, TypeOK, LastOp, LastStrategy

\* What EveryCallHasItsCause says of one call.
HasCause(o) ==
    LET op == ops[o]  before == ops[o - 1]
    IN  CASE op.purpose = "retry" ->
               /\ o > 1 /\ before.status = "failed" /\ before.strategy = op.strategy
               /\ op.facts = before.facts /\ op.attempt = before.attempt + 1
          [] op.purpose = "clarification" ->
               /\ o > 1 /\ before.status = "completed" /\ before.strategy = op.strategy
               /\ op.attempt = 1
          [] op.purpose = "verify" ->
               /\ op.attempt = 1
               /\ IF o = 1 THEN op.strategy = 1
                  ELSE /\ op.strategy = before.strategy + 1
                       /\ before.status \in Closed
                       /\ strategies[before.strategy].status = "invalidated"

\* A call keeps its cause while it, the call before it and the strategy before it stay.
LEMMA CauseKept ==
    ASSUME TypeInv, NEW o \in DOMAIN ops, HasCause(o),
           /\ ops'[o].strategy = ops[o].strategy /\ ops'[o].attempt = ops[o].attempt
           /\ ops'[o].purpose = ops[o].purpose /\ ops'[o].facts = ops[o].facts,
           o # 1 => /\ ops'[o - 1].strategy = ops[o - 1].strategy
                    /\ ops'[o - 1].attempt = ops[o - 1].attempt
                    /\ ops'[o - 1].facts = ops[o - 1].facts
                    /\ ops'[o - 1].status = ops[o - 1].status,
           \A s \in DOMAIN strategies : s < LastStrategy /\ strategies[s].status = "invalidated"
                                          => strategies'[s].status = "invalidated"
    PROVE  HasCause(o)'
<1>1. ops[o].purpose \in Purposes /\ o \in Nat
  BY RowFacts DEF OpType
<1>2. CASE ops[o].purpose = "retry"
  BY <1>1, <1>2 DEF HasCause
<1>3. CASE ops[o].purpose = "clarification"
  BY <1>1, <1>3 DEF HasCause
<1>4. CASE ops[o].purpose = "verify"
  <2>1. /\ ops[o].attempt = 1
        /\ o = 1 => ops[o].strategy = 1
        /\ o # 1 => /\ ops[o].strategy = ops[o - 1].strategy + 1
                    /\ ops[o - 1].status \in Closed
                    /\ strategies[ops[o - 1].strategy].status = "invalidated"
    BY <1>1, <1>4 DEF HasCause
  <2>2. o # 1 => /\ ops[o - 1].strategy \in DOMAIN strategies
                 /\ ops[o - 1].strategy < LastStrategy
    <3>1. o # 1 => o - 1 \in DOMAIN ops
      BY <1>1, RowFacts
    <3> QED BY <2>1, <3>1, RowFacts
  <2>3. o # 1 => strategies'[ops'[o - 1].strategy].status = "invalidated"
    BY <2>1, <2>2
  <2> QED BY <1>1, <1>4, <2>1, <2>3 DEF HasCause
<1> QED BY <1>1, <1>2, <1>3, <1>4 DEF Purposes

\* All calls do, while only the last one changes, and not in what it was made for.
LEMMA CausesKept ==
    ASSUME TypeInv, EveryCallHasItsCause,
           \A o \in DOMAIN ops :
              /\ ops'[o].strategy = ops[o].strategy /\ ops'[o].attempt = ops[o].attempt
              /\ ops'[o].purpose = ops[o].purpose /\ ops'[o].facts = ops[o].facts
              /\ o < LastOp => ops'[o].status = ops[o].status,
           \A s \in DOMAIN strategies : s < LastStrategy /\ strategies[s].status = "invalidated"
                                          => strategies'[s].status = "invalidated"
    PROVE  \A o \in DOMAIN ops : HasCause(o)'
<1> SUFFICES ASSUME NEW o \in DOMAIN ops PROVE HasCause(o)'
  OBVIOUS
<1>1. HasCause(o)
  BY DEF EveryCallHasItsCause, HasCause, Closed
<1>2. o # 1 => o - 1 \in DOMAIN ops /\ o - 1 < LastOp
  BY RowFacts
<1> QED BY <1>1, <1>2, CauseKept

\* So the rows keep their invariant in a step that adds no call.
LEMMA RowsStay ==
    ASSUME TypeInv, RowsInv, StrategiesFormOneLine', DOMAIN ops' = DOMAIN ops,
           \A o \in DOMAIN ops :
              /\ ops'[o].strategy = ops[o].strategy /\ ops'[o].attempt = ops[o].attempt
              /\ ops'[o].purpose = ops[o].purpose /\ ops'[o].facts = ops[o].facts
              /\ o < LastOp => ops'[o].status = ops[o].status,
           \A s \in DOMAIN strategies : s < LastStrategy /\ strategies[s].status = "invalidated"
                                          => strategies'[s].status = "invalidated"
    PROVE  RowsInv'
<1>1. \A o \in DOMAIN ops : HasCause(o)'
  BY CausesKept DEF RowsInv
<1>2. EveryCallHasItsCause'
  BY <1>1 DEF EveryCallHasItsCause, HasCause, Closed
<1> QED BY <1>2 DEF RowsInv
-----------------------------------------------------------------------------
(* Where a handler stands after a step *)

\* At a step that works on the last call.
LEMMA GoStands ==
    ASSUME task'.at \notin {"idle", "prepare", "escalate", "launch"},
           task'.strategy = LastStrategy', task'.op = LastOp', LastOp' # 0,
           ops'[LastOp'].strategy = LastStrategy',
           ops'[LastOp'].status \in StatusAt(task'.at),
           task'.at \in {"replan", "propose"} => strategies'[LastStrategy'].status = "invalidated"
    PROVE  StandInv'
BY DEF StandInv, Engaged, At

\* About to launch a call that has a cause.
LEMMA LaunchStands ==
    ASSUME task'.at = "launch", task'.strategy = LastStrategy', LaunchCause'
    PROVE  StandInv'
BY DEF StandInv, Engaged, At

\* Or nowhere near a call.
LEMMA FreeStands == ASSUME task'.at \in {"idle", "prepare", "escalate"} PROVE StandInv'
BY DEF StandInv, Engaged, At

\* A step that leaves strategies, calls and approvals alone keeps what is said of them.
LEMMA RowsUnchanged ==
    ASSUME LoopInv, UNCHANGED <<ops, strategies, approvals>>, started => started'
    PROVE  RowsInv' /\ OpenInv'
<1>1. RowsInv'
  BY DEF LoopInv, RowsInv, StrategiesFormOneLine, EveryCallHasItsCause
<1>2. OpenInv'
  BY DEF LoopInv, OpenInv, Calling, Pending, LastOp, LastStrategy
<1> QED BY <1>1, <1>2

\* A step that changes the status of the last call alone, and nothing it was made for.
LEMMA LastCallChanges ==
    ASSUME LoopInv, LastOp # 0, UNCHANGED <<strategies, approvals, started>>, Pending = {},
           ops[LastOp].strategy = LastStrategy,
           NEW row, ops' = [ops EXCEPT ![LastOp] = row],
           row.strategy = ops[LastOp].strategy, row.attempt = ops[LastOp].attempt,
           row.purpose = ops[LastOp].purpose, row.facts = ops[LastOp].facts
    PROVE  /\ RowsInv' /\ OpenInv'
           /\ LastOp' = LastOp /\ LastStrategy' = LastStrategy /\ ops'[LastOp] = row
<1>1. TypeInv /\ RowsInv /\ OpenInv /\ LastOp \in DOMAIN ops
  BY RowFacts DEF LoopInv, ThreadInv
<1>2. /\ LastOp' = LastOp /\ LastStrategy' = LastStrategy /\ DOMAIN ops' = DOMAIN ops
      /\ ops'[LastOp] = row /\ \A o \in DOMAIN ops : o # LastOp => ops'[o] = ops[o]
  BY <1>1, RowFacts, LenProperties DEF LastOp, LastStrategy
<1>3. RowsInv'
  <2>1. \A o \in DOMAIN ops : /\ ops'[o].strategy = ops[o].strategy
                              /\ ops'[o].attempt = ops[o].attempt
                              /\ ops'[o].purpose = ops[o].purpose /\ ops'[o].facts = ops[o].facts
                              /\ o < LastOp => ops'[o].status = ops[o].status
    BY <1>1, <1>2, RowFacts
  <2>2. StrategiesFormOneLine'
    BY <1>1 DEF RowsInv, StrategiesFormOneLine
  <2> QED BY <1>1, <1>2, <2>1, <2>2, RowsStay
<1>4. OpenInv'
  <2>1. Pending' = {}
    BY DEF Pending
  <2>2. \A o \in DOMAIN ops : o # LastOp => ops'[o].status # "calling"
    BY <1>1, <1>2 DEF OpenInv, Calling
  <2>3. \A o \in Calling' : o = LastOp
    BY <1>2, <2>2 DEF Calling
  <2> QED BY <1>1, <1>2, <2>1, <2>3 DEF OpenInv
<1> QED BY <1>2, <1>3, <1>4
-----------------------------------------------------------------------------
(* One lemma per step, or per group of steps that change the same rows *)

\* The decision follows the strategy at hand: it drops it, confirms it, or asks again.
LEMMA VerdictStands ==
    ASSUME NEW E, NEW t, NEW v \in Verdict(E, t)
    PROVE  \/ v.at = "idle"
           \/ v.at \in {"invalidate", "confirm"} /\ v.strategy = task.strategy /\ v.op = task.op
           \/ /\ v.at = "launch" /\ v.strategy = task.strategy
              /\ v.purpose = "clarification" /\ v.attempt = 1
              /\ ClarificationCount(t) < MaxClarifications
<1>1. \/ v = Go("invalidate", task.strategy, task.op)
      \/ v = Go("confirm", task.strategy, task.op)
      \/ v = Idle
      \/ /\ ClarificationCount(t) < MaxClarifications
         /\ \E facts : v = Launching(task.strategy, facts, "clarification", 1)
  BY DEF Verdict
<1>2. \A facts : /\ Launching(task.strategy, facts, "clarification", 1).purpose = "clarification"
                 /\ Launching(task.strategy, facts, "clarification", 1).attempt = 1
  BY DEF Launching, Idle
<1> QED BY <1>1, <1>2, TaskFields

\* The steps of a handler that leave strategies, calls and approvals alone.
LEMMA LineQuiet ==
    ASSUME LoopInv,
           DispatchAccepted \/ Extract \/ EvaluateAndDecide \/ HandleCallFailure \/ Replan
    PROVE  RowsInv' /\ OpenInv' /\ StandInv'
<1> USE DEF missionVars, rowVars, At
<1>1. ThreadInv /\ TypeInv /\ RowsInv /\ StandInv /\ task \in TaskType
  BY RowFacts DEF LoopInv, ThreadInv
<1>2. UNCHANGED <<ops, strategies, approvals, started>>
  BY DEF DispatchAccepted, Extract, EvaluateAndDecide, HandleCallFailure, Replan
<1>3. RowsInv' /\ OpenInv' /\ LastOp' = LastOp /\ LastStrategy' = LastStrategy
  BY <1>2, RowsUnchanged DEF LastOp, LastStrategy
<1>4. task.at \in {"dispatch", "extract", "evaluate", "failed", "replan"}
  BY DEF DispatchAccepted, Extract, EvaluateAndDecide, HandleCallFailure, Replan
<1>5. /\ task.strategy = LastStrategy /\ task.op = LastOp /\ LastOp # 0
      /\ ops[LastOp].strategy = LastStrategy /\ ops[LastOp].status \in StatusAt(task.at)
  BY <1>1, <1>4 DEF StandInv, Engaged
<1>6. StandInv'
  <2>1. CASE DispatchAccepted
    <3>1. task'.at = "dispatched" /\ task'.strategy = task.strategy /\ task'.op = task.op
      BY <1>1, <2>1 DEF DispatchAccepted, TaskType
    <3> QED BY <1>2, <1>3, <1>5, <2>1, <3>1, GoStands DEF DispatchAccepted, StatusAt
  <2>2. CASE Extract
    <3>1. task'.at = "evaluate" /\ task'.strategy = task.strategy /\ task'.op = task.op
      BY <2>2, TaskFields DEF Extract
    <3> QED BY <1>2, <1>3, <1>5, <2>2, <3>1, GoStands DEF Extract, StatusAt
  <2>3. CASE EvaluateAndDecide
    <3> DEFINE E == Refreshed(evidence, TargetOf(task.op))
    <3>1. task' \in Verdict(E, TargetOf(task.op)) /\ task.at = "evaluate"
      BY <2>3 DEF EvaluateAndDecide
    <3>2. ops[LastOp].status = "completed"
      BY <1>5, <3>1 DEF StatusAt
    <3> HIDE DEF E
    <3>3. CASE task'.at = "idle"
      BY <3>3, FreeStands
    <3>4. CASE /\ task'.at \in {"invalidate", "confirm"}
               /\ task'.strategy = task.strategy /\ task'.op = task.op
      <4>1. ops[LastOp].status \in StatusAt(task'.at)
        BY <3>2, <3>4 DEF StatusAt, Closed
      <4> QED BY <1>2, <1>3, <1>5, <3>4, <4>1, GoStands
    <3>5. CASE /\ task'.at = "launch" /\ task'.strategy = task.strategy
               /\ task'.purpose = "clarification" /\ task'.attempt = 1
      <4>1. LaunchCause'
        BY <1>2, <1>3, <1>5, <3>2, <3>5 DEF LaunchCause
      <4> QED BY <1>3, <1>5, <3>5, <4>1, LaunchStands
    <3> QED BY <3>1, <3>3, <3>4, <3>5, VerdictStands
  <2>4. CASE HandleCallFailure
    <3>1. ops[LastOp].status = "failed"
      BY <1>5, <2>4 DEF HandleCallFailure, StatusAt
    <3>2. CASE task' = Go("invalidate", task.strategy, task.op)
      <4>1. task'.at = "invalidate" /\ task'.strategy = task.strategy /\ task'.op = task.op
        BY <3>2, TaskFields
      <4> QED BY <1>2, <1>3, <1>5, <3>1, <4>1, GoStands DEF StatusAt, Closed
    <3>3. CASE task' = Launching(task.strategy, ops[task.op].facts, "retry", ops[task.op].attempt + 1)
      <4>1. /\ task'.at = "launch" /\ task'.strategy = task.strategy /\ task'.purpose = "retry"
            /\ task'.facts = ops[LastOp].facts /\ task'.attempt = ops[LastOp].attempt + 1
        BY <1>5, <3>3 DEF Launching, Idle
      <4>2. LaunchCause'
        BY <1>2, <1>3, <1>5, <3>1, <4>1 DEF LaunchCause
      <4> QED BY <1>3, <1>5, <4>1, <4>2, LaunchStands
    <3> QED BY <2>4, <3>2, <3>3 DEF HandleCallFailure
  <2>5. CASE Replan
    <3>1. CASE task' = Go("escalate", 0, 0)
      BY <3>1, TaskFields, FreeStands
    <3>2. CASE task' = [task EXCEPT !.at = "propose"]
      <4>1. task'.at = "propose" /\ task'.strategy = task.strategy /\ task'.op = task.op
        BY <1>1, <3>2 DEF TaskType
      <4>2. strategies[LastStrategy].status = "invalidated" /\ ops[LastOp].status \in Closed
        BY <1>1, <1>5, <2>5 DEF Replan, StandInv, StatusAt
      <4> QED BY <1>2, <1>3, <1>5, <4>1, <4>2, GoStands DEF StatusAt
    <3> QED BY <2>5, <3>1, <3>2 DEF Replan
  <2> QED BY <2>1, <2>2, <2>3, <2>4, <2>5
<1> QED BY <1>3, <1>6

\* The steps that end a handler, or that no handler makes, with the rows as they are.
LEMMA LineOutside ==
    ASSUME LoopInv, Escalate \/ EscalateManually \/ Tick \/ Crash \/ UNCHANGED vars
    PROVE  RowsInv' /\ OpenInv' /\ StandInv'
<1> USE DEF missionVars, rowVars
<1>1. UNCHANGED <<ops, strategies, approvals, started>>
  BY DEF Escalate, EscalateManually, Tick, Crash, vars
<1>2. task' = task \/ task' = Idle
  BY DEF Escalate, EscalateManually, Tick, Crash, vars
<1>3. CASE task' = task
  <2>1. StandInv'
    BY <1>1, <1>3 DEF LoopInv, StandInv, Engaged, At, LaunchCause, LastOp, LastStrategy
  <2> QED BY <1>1, <2>1, RowsUnchanged
<1>4. CASE task' = Idle
  BY <1>1, <1>4, RowsUnchanged, TaskFields, FreeStands
<1> QED BY <1>2, <1>3, <1>4

\* The first strategy is planned where nothing was called yet.
LEMMA LinePrepare == ASSUME LoopInv, TypeInv', Prepare PROVE RowsInv' /\ OpenInv' /\ StandInv'
<1>1. /\ ThreadInv /\ TypeInv /\ task.at = "prepare"
      /\ UNCHANGED <<ops, approvals, started>>
  BY DEF LoopInv, ThreadInv, Prepare, At, missionVars
<1>2. strategies = <<>> /\ DOMAIN ops = {} /\ DOMAIN approvals = {} /\ LastOp = 0
  <2>1. strategies = <<>> /\ DOMAIN strategies = {}
    BY <1>1 DEF TypeInv, TaskRefs, At
  <2>2. DOMAIN ops = {} /\ DOMAIN approvals = {}
    BY <1>1, <2>1, RowFacts
  <2> QED BY <1>1, <2>1, <2>2, RowFacts
<1>3. DOMAIN ops' = {} /\ DOMAIN approvals' = {} /\ LastOp' = 0
  BY <1>1, <1>2 DEF LastOp
<1>4. CASE UNCHANGED strategies /\ task' = Go("escalate", 0, 0)
  BY <1>1, <1>4, RowsUnchanged, TaskFields, FreeStands
<1>5. ASSUME NEW c, NEW needs, strategies' = <<NewStrategy(c, needs)>>,
             task' = IF started THEN Launching(1, needs, "verify", 1) ELSE Idle
      PROVE  RowsInv' /\ OpenInv' /\ StandInv'
  <2>1. LastStrategy' = 1 /\ DOMAIN strategies' = {1}
    BY <1>5 DEF LastStrategy
  <2>2. StrategiesFormOneLine'
    BY <2>1 DEF StrategiesFormOneLine, LastStrategy
  <2>3. RowsInv'
    BY <1>3, <2>2 DEF RowsInv, EveryCallHasItsCause
  <2>4. OpenInv'
    BY <1>3, <2>1 DEF OpenInv, Calling, Pending
  <2>5. StandInv'
    <3>1. CASE task' = Idle
      BY <3>1, TaskFields, FreeStands
    <3>2. CASE task' = Launching(1, needs, "verify", 1)
      <4>1. /\ task'.at = "launch" /\ task'.strategy = 1 /\ task'.purpose = "verify"
            /\ task'.attempt = 1
        BY <3>2 DEF Launching, Idle
      <4>2. LaunchCause'
        BY <1>3, <4>1 DEF LaunchCause
      <4> QED BY <2>1, <4>1, <4>2, LaunchStands
    <3> QED BY <1>5, <3>1, <3>2
  <2> QED BY <2>3, <2>4, <2>5
<1> QED BY <1>4, <1>5 DEF Prepare

\* The start dials the first strategy, which is the only one.
LEMMA LineStart == ASSUME LoopInv, Start PROVE RowsInv' /\ OpenInv' /\ StandInv'
<1>1. /\ ThreadInv /\ TypeInv /\ ~started /\ OpenInv
      /\ UNCHANGED <<ops, strategies, approvals>>
  BY DEF LoopInv, ThreadInv, Start, rowVars
<1>2. RowsInv' /\ OpenInv' /\ LastStrategy' = LastStrategy /\ LastOp' = LastOp
  BY <1>1, RowsUnchanged DEF LastOp, LastStrategy
<1>3. LastOp = 0 /\ LastStrategy \in 0..1 /\ DOMAIN ops = {} /\ DOMAIN ops' = {}
  BY <1>1, RowFacts DEF OpenInv, ThreadInv, NothingBefore, LastOp
<1>4. CASE task' \in {Go("prepare", 0, 0), Go("escalate", 0, 0)}
  BY <1>2, <1>4, TaskFields, FreeStands
<1>5. CASE strategies # <<>> /\ task' = Launching(1, strategies[1].needs, "verify", 1)
  <2>1. LastStrategy = 1
    BY <1>1, <1>3, <1>5, EmptySeq, RowFacts DEF LastStrategy
  <2>2. /\ task'.at = "launch" /\ task'.strategy = 1 /\ task'.purpose = "verify"
        /\ task'.attempt = 1
    BY <1>5 DEF Launching, Idle
  <2>3. LaunchCause'
    BY <1>2, <1>3, <2>2 DEF LaunchCause
  <2> QED BY <1>2, <2>1, <2>2, <2>3, LaunchStands
<1> QED BY <1>4, <1>5 DEF Start

\* The beginning of an attempt leaves the handler where it stands, before the launch.
LEMMA LineAttempt == ASSUME LoopInv, StartAttempt PROVE RowsInv' /\ OpenInv' /\ StandInv'
<1>1. /\ ThreadInv /\ TypeInv /\ RowsInv /\ OpenInv /\ StandInv
      /\ UNCHANGED <<started, ops, approvals, task>> /\ task.at = "launch"
      /\ strategies' \in Seq(StrategyType)
      /\ DOMAIN strategies' = DOMAIN strategies /\ Len(strategies') = Len(strategies)
      /\ \A s \in DOMAIN strategies : /\ strategies'[s].status = strategies[s].status
                                      /\ strategies'[s].target = strategies[s].target
  BY AttemptStarts DEF LoopInv, ThreadInv
<1>2. LastStrategy' = LastStrategy /\ LastOp' = LastOp
  BY <1>1 DEF LastStrategy, LastOp
<1>3. RowsInv'
  <2>1. StrategiesFormOneLine'
    BY <1>1, LineKept DEF RowsInv
  <2>2. \A s \in DOMAIN strategies : s < LastStrategy /\ strategies[s].status = "invalidated"
                                        => strategies'[s].status = "invalidated"
    BY <1>1
  <2>3. ops' = ops
    BY <1>1
  <2> QED BY <1>1, <2>1, <2>2, <2>3, RowsStay
<1>4. OpenInv'
  BY <1>1, <1>2 DEF OpenInv, Calling, Pending
<1>5. StandInv'
  <2>1. task'.strategy = LastStrategy' /\ LaunchCause
    BY <1>1, <1>2 DEF StandInv, Engaged, At
  <2>2. LastOp # 0 => /\ ops[LastOp].strategy \in DOMAIN strategies
                      /\ strategies'[ops[LastOp].strategy].status
                           = strategies[ops[LastOp].strategy].status
    <3>1. LastOp # 0 => ops[LastOp].strategy \in DOMAIN strategies
      BY <1>1, RowFacts
    <3> QED BY <1>1, <3>1
  <2>3. ops' = ops /\ task' = task
    BY <1>1
  <2>4. LaunchCause'
    <3>1. CASE LastOp = 0
      BY <1>2, <2>1, <2>3, <3>1 DEF LaunchCause
    <3>2. CASE LastOp # 0
      BY <1>2, <2>1, <2>2, <2>3, <3>2 DEF LaunchCause
    <3> QED BY <3>1, <3>2
  <2> QED BY <1>1, <2>1, <2>4, LaunchStands
<1> QED BY <1>3, <1>4, <1>5

\* A launch adds one call, about the last strategy, and changes no target.
LEMMA LaunchAdds ==
    ASSUME LoopInv, LaunchOperation, CheckOperationBudget
    PROVE  /\ LastOp' = LastOp + 1 /\ LastOp \in Nat /\ DOMAIN ops = 1..LastOp
           /\ DOMAIN ops' = 1..(LastOp + 1) /\ \A o \in DOMAIN ops : ops'[o] = ops[o]
           /\ ops'[LastOp + 1].strategy = LastStrategy
           /\ ops'[LastOp + 1].facts = task.facts \cup {Cost}
           /\ ops'[LastOp + 1].purpose = task.purpose
           /\ ops'[LastOp + 1].attempt = task.attempt
           /\ ops'[LastOp + 1].status = "queued"
           /\ LastStrategy' = LastStrategy /\ DOMAIN strategies' = DOMAIN strategies
           /\ \A s \in DOMAIN strategies : /\ strategies'[s].status = strategies[s].status
                                           /\ strategies'[s].target = strategies[s].target
           /\ task' = Go("dispatch", task.strategy, LastOp + 1)
<1>1. TypeInv /\ task.strategy = LastStrategy
  BY DEF LoopInv, ThreadInv, LaunchOperation, StandInv, At, Engaged
<1> DEFINE new == NewOperation(task.strategy, task.facts, task.purpose, task.attempt)
<1>2. /\ new.strategy = LastStrategy /\ new.facts = task.facts \cup {Cost}
      /\ new.purpose = task.purpose /\ new.attempt = task.attempt /\ new.status = "queued"
  BY <1>1 DEF NewOperation
<1>3. ops' = Append(ops, new) /\ task' = Go("dispatch", task.strategy, LastOp + 1)
  BY DEF LaunchOperation, LastOp
<1> HIDE DEF new
<1>4. /\ LastOp' = LastOp + 1 /\ LastOp \in Nat /\ DOMAIN ops = 1..LastOp
      /\ DOMAIN ops' = 1..(LastOp + 1) /\ ops'[LastOp + 1] = new
      /\ \A o \in DOMAIN ops : ops'[o] = ops[o]
  BY <1>1, <1>3, RowFacts DEF LastOp
<1>5. /\ LastStrategy' = LastStrategy /\ DOMAIN strategies' = DOMAIN strategies
      /\ \A s \in DOMAIN strategies : /\ strategies'[s].status = strategies[s].status
                                      /\ strategies'[s].target = strategies[s].target
  BY DEF LaunchOperation, LastStrategy
<1> QED BY <1>2, <1>3, <1>4, <1>5

\* The new call has the cause its launch was about.
LEMMA LineLaunch == ASSUME LoopInv, TypeInv', LaunchOperation PROVE RowsInv' /\ OpenInv' /\ StandInv'
<1>1. /\ ThreadInv /\ TypeInv /\ RowsInv /\ StandInv
      /\ At("launch") /\ Engaged /\ UNCHANGED <<approvals, started>>
  BY DEF LoopInv, ThreadInv, LaunchOperation, At, Engaged
<1>2. /\ Calling = {} /\ Pending = {} /\ started /\ LaunchCause /\ task.strategy = LastStrategy
      /\ task \in TaskType /\ task.purpose \in Purposes
  BY <1>1, EngagedFacts, RowFacts DEF At, StandInv, TaskType
<1>3. CASE ~CheckOperationBudget
  BY <1>1, <1>3, RowsUnchanged, TaskFields, FreeStands DEF LaunchOperation
<1>4. CASE CheckOperationBudget
  <2> DEFINE new == ops'[LastOp + 1]
  <2>1. /\ new.strategy = LastStrategy /\ new.facts = task.facts \cup {Cost}
        /\ new.purpose = task.purpose /\ new.attempt = task.attempt /\ new.status = "queued"
    BY <1>4, LaunchAdds
  <2>2. task' = Go("dispatch", task.strategy, LastOp + 1)
    BY <1>4, LaunchAdds
  <2>3. /\ LastOp' = LastOp + 1 /\ LastOp \in Nat /\ DOMAIN ops = 1..LastOp
        /\ DOMAIN ops' = 1..(LastOp + 1) /\ ops'[LastOp + 1] = new
        /\ \A o \in DOMAIN ops : ops'[o] = ops[o]
    BY <1>4, LaunchAdds
  <2>4. /\ LastStrategy' = LastStrategy /\ DOMAIN strategies' = DOMAIN strategies
        /\ \A s \in DOMAIN strategies : /\ strategies'[s].status = strategies[s].status
                                        /\ strategies'[s].target = strategies[s].target
    BY <1>4, LaunchAdds
  <2> HIDE DEF new
  <2>5. StrategiesFormOneLine'
    BY <1>1, <2>4, LineKept DEF RowsInv, LastStrategy
  <2>6. \A o \in DOMAIN ops : HasCause(o)'
    <3>1. EveryCallHasItsCause
      BY <1>1 DEF RowsInv
    <3> QED BY <1>1, <2>3, <2>4, <3>1, CausesKept
  <2>7. ASSUME NEW n, n = LastOp + 1 PROVE HasCause(n)'
    <3>1. LastOp # 0 => /\ LastOp \in DOMAIN ops /\ ops'[LastOp] = ops[LastOp]
                        /\ ops[LastOp].strategy \in DOMAIN strategies
                        /\ strategies'[ops[LastOp].strategy].status = strategies[ops[LastOp].strategy].status
                        /\ Cost \in ops[LastOp].facts
      BY <1>1, <2>3, <2>4, RowFacts DEF RowsInv
    <3>2. /\ n - 1 = LastOp /\ (LastOp # 0 <=> n > 1) /\ (LastOp = 0 <=> n = 1)
          /\ ops'[n] = new
      BY <2>3, <2>7
    <3>3. CASE task.purpose = "retry"
      <4>1. /\ LastOp # 0 /\ ops[LastOp].status = "failed" /\ ops[LastOp].strategy = task.strategy
            /\ task.facts = ops[LastOp].facts /\ task.attempt = ops[LastOp].attempt + 1
        BY <1>2, <3>3 DEF LaunchCause
      <4>2. task.facts \cup {Cost} = ops[LastOp].facts
        BY <3>1, <4>1
      <4> QED BY <1>2, <2>1, <2>3, <3>1, <3>2, <3>3, <4>1, <4>2 DEF HasCause
    <3>4. CASE task.purpose = "clarification"
      <4>1. /\ LastOp # 0 /\ ops[LastOp].status = "completed"
            /\ ops[LastOp].strategy = task.strategy /\ task.attempt = 1
        BY <1>2, <3>4 DEF LaunchCause
      <4> QED BY <1>2, <2>1, <2>3, <3>1, <3>2, <3>4, <4>1 DEF HasCause
    <3>5. CASE task.purpose = "verify"
      <4>1. /\ task.attempt = 1
            /\ LastOp = 0 => task.strategy = 1
            /\ LastOp # 0 => /\ ops[LastOp].strategy + 1 = task.strategy
                             /\ ops[LastOp].status \in Closed
                             /\ strategies[ops[LastOp].strategy].status = "invalidated"
        BY <1>2, <3>5 DEF LaunchCause
      <4> QED BY <1>2, <2>1, <2>3, <3>1, <3>2, <3>5, <4>1 DEF HasCause
    <3> QED BY <1>2, <3>3, <3>4, <3>5 DEF Purposes
  <2>8. RowsInv'
    <3>1. \A o \in DOMAIN ops' : HasCause(o)'
      BY <2>3, <2>6, <2>7
    <3>2. EveryCallHasItsCause'
      BY <3>1 DEF EveryCallHasItsCause, HasCause, Closed
    <3>3. \A o \in DOMAIN ops' : Cost \in ops'[o].facts
      BY <1>1, <2>1, <2>3 DEF RowsInv
    <3> QED BY <2>5, <3>2, <3>3 DEF RowsInv
  <2>9. OpenInv'
    <3>1. \A o \in DOMAIN ops' : ops'[o].status # "calling"
      BY <1>2, <2>1, <2>3 DEF Calling
    <3>2. Pending' = {} /\ started'
      BY <1>1, <1>2 DEF Pending
    <3>3. \A o \in Calling' : FALSE
      BY <3>1 DEF Calling
    <3> QED BY <3>2, <3>3 DEF OpenInv
  <2>10. StandInv'
    <3>1. task'.at = "dispatch" /\ task'.strategy = LastStrategy /\ task'.op = LastOp + 1
      BY <1>2, <2>2, TaskFields
    <3> QED BY <2>1, <2>3, <2>4, <3>1, GoStands DEF StatusAt
  <2> QED BY <2>8, <2>9, <2>10
<1> QED BY <1>3, <1>4

\* A call that was not placed fails, one that was is open.
LEMMA LineDispatch ==
    ASSUME LoopInv, DispatchRejected \/ DispatchFailed \/ CallStarted
    PROVE  RowsInv' /\ OpenInv' /\ StandInv'
<1> USE DEF missionVars, At
<1>1. /\ ThreadInv /\ TypeInv /\ StandInv /\ task.at \in {"dispatch", "dispatched"} /\ Engaged
      /\ UNCHANGED <<strategies, approvals, started>>
  BY DEF LoopInv, ThreadInv, DispatchRejected, DispatchFailed, CallStarted, Engaged
<1>2. /\ task.strategy = LastStrategy /\ task.op = LastOp /\ LastOp # 0
      /\ ops[LastOp].strategy = LastStrategy /\ Pending = {}
  BY <1>1, EngagedFacts DEF StandInv
<1>3. LastOp \in DOMAIN ops /\ ops[LastOp] \in OpType /\ task \in TaskType
  BY <1>1, <1>2, RowFacts
<1> DEFINE Same(row) == /\ row.strategy = ops[LastOp].strategy /\ row.attempt = ops[LastOp].attempt
                        /\ row.purpose = ops[LastOp].purpose /\ row.facts = ops[LastOp].facts
<1>4. \/ task'.at \in {"idle", "escalate"}
         /\ \E row : Same(row) /\ ops' = [ops EXCEPT ![LastOp] = row]
      \/ task'.at = "failed" /\ task'.strategy = task.strategy /\ task'.op = task.op
         /\ \E row : Same(row) /\ row.status = "failed" /\ ops' = [ops EXCEPT ![LastOp] = row]
      \/ task'.at = "ingest" /\ task'.strategy = task.strategy /\ task'.op = task.op
         /\ \E row : Same(row) /\ row.status = "calling" /\ ops' = [ops EXCEPT ![LastOp] = row]
  <2>1. CASE DispatchRejected
    <3> DEFINE row == [ops[LastOp] EXCEPT !.status = "failed"]
    <3>1. ops' = [ops EXCEPT ![LastOp] = row]
      BY <1>2, <2>1 DEF DispatchRejected
    <3>2. Same(row)
      BY <1>3 DEF OpType
    <3>3. task'.at = "escalate"
      BY <2>1, TaskFields DEF DispatchRejected
    <3> HIDE DEF row
    <3> QED BY <3>1, <3>2, <3>3
  <2>2. CASE DispatchFailed
    <3>1. PICK cause \in {"line", "number"} :
             /\ ops' = [ops EXCEPT ![task.op].status = "failed", ![task.op].cause = cause]
             /\ task' = [Go("failed", task.strategy, task.op) EXCEPT !.permanent = (cause = "number")]
      BY <2>2 DEF DispatchFailed
    <3> DEFINE row == [ops[LastOp] EXCEPT !.status = "failed", !.cause = cause]
    <3>2. ops' = [ops EXCEPT ![LastOp] = row]
      BY <1>2, <3>1
    <3>3. Same(row) /\ row.status = "failed"
      BY <1>3 DEF OpType
    <3>4. task'.at = "failed" /\ task'.strategy = task.strategy /\ task'.op = task.op
      BY <3>1 DEF Go, Idle
    <3> HIDE DEF row
    <3> QED BY <3>2, <3>3, <3>4
  <2>3. CASE CallStarted
    <3> DEFINE row == [ops[LastOp] EXCEPT !.status = "calling", !.recorded = TRUE]
    <3>1. ops' = [ops EXCEPT ![LastOp] = row]
      BY <1>2, <2>3 DEF CallStarted
    <3>2. Same(row) /\ row.status = "calling"
      BY <1>3 DEF OpType
    <3> HIDE DEF row
    <3>3. CASE task' = Idle
      BY <3>1, <3>2, <3>3, TaskFields
    <3>4. CASE task' = [task EXCEPT !.at = "ingest"]
      <4>1. task'.at = "ingest" /\ task'.strategy = task.strategy /\ task'.op = task.op
        BY <1>3, <3>4 DEF TaskType
      <4> QED BY <3>1, <3>2, <4>1
    <3> QED BY <2>3, <3>3, <3>4 DEF CallStarted
  <2> QED BY <2>1, <2>2, <2>3
<1>5. PICK row : Same(row) /\ ops' = [ops EXCEPT ![LastOp] = row]
                 /\ (task'.at = "failed" => row.status = "failed")
                 /\ (task'.at = "ingest" => row.status = "calling")
  BY <1>4
<1>6. /\ RowsInv' /\ OpenInv'
      /\ LastOp' = LastOp /\ LastStrategy' = LastStrategy /\ ops'[LastOp] = row
  BY <1>1, <1>2, <1>5, LastCallChanges
<1>7. StandInv'
  <2>1. CASE task'.at \in {"idle", "escalate"}
    BY <2>1, FreeStands
  <2>2. CASE task'.at \in {"failed", "ingest"} /\ task'.strategy = task.strategy /\ task'.op = task.op
    <3>1. ops'[LastOp'].status \in StatusAt(task'.at) /\ ops'[LastOp'].strategy = LastStrategy'
      BY <1>2, <1>5, <1>6, <2>2 DEF StatusAt
    <3> QED BY <1>2, <1>6, <2>2, <3>1, GoStands
  <2> QED BY <1>4, <2>1, <2>2
<1> QED BY <1>6, <1>7

\* The call that is ingested is the open one.
LEMMA IngestsOpen ==
    ASSUME ThreadInv, NEW o \in DOMAIN ops, MayIngest(o)
    PROVE  o \in Calling /\ Pending = {} /\ started
<1>1. ops[o].status \in {"queued", "calling", "completed", "failed"}
  BY RowFacts DEF ThreadInv, OpType
<1>2. o \in Calling
  BY <1>1 DEF MayIngest, ThreadInv, CallRows, Calling
<1> QED BY <1>2 DEF ThreadInv, OneLiveThread, NothingBefore

\* So its result is about the last call of the last strategy.
LEMMA LineIngest == ASSUME LoopInv, IngestCallState PROVE RowsInv' /\ OpenInv' /\ StandInv'
<1>1. PICK o \in DOMAIN ops : \/ \E reply \in Replies : IngestReply(o, reply)
                              \/ \E cause \in {"line", "number"} : IngestFailure(o, cause)
  BY DEF IngestCallState
<1>2. /\ ThreadInv /\ TypeInv /\ OpenInv /\ MayIngest(o)
      /\ UNCHANGED <<strategies, approvals, started>>
  BY <1>1 DEF LoopInv, ThreadInv, IngestReply, IngestFailure
<1>3. /\ o = LastOp /\ ops[LastOp].strategy = LastStrategy /\ Pending = {}
      /\ LastOp # 0 /\ ops[LastOp] \in OpType
  BY <1>2, IngestsOpen, RowFacts DEF OpenInv
<1> DEFINE Result(row) ==
             /\ row.strategy = ops[LastOp].strategy /\ row.attempt = ops[LastOp].attempt
             /\ row.purpose = ops[LastOp].purpose /\ row.facts = ops[LastOp].facts
             /\ ops' = [ops EXCEPT ![LastOp] = row]
             /\ row.status \in StatusAt(task'.at) /\ task'.at \in {"extract", "failed"}
             /\ task'.strategy = LastStrategy /\ task'.op = LastOp
<1>4. \E row : Result(row)
  <2>1. ASSUME NEW reply, IngestReply(o, reply) PROVE \E row : Result(row)
    <3> DEFINE row == [ops[LastOp] EXCEPT !.status = "completed"]
    <3>1. ops' = [ops EXCEPT ![LastOp] = row]
      BY <1>3, <2>1 DEF IngestReply
    <3>2. /\ row.strategy = ops[LastOp].strategy /\ row.attempt = ops[LastOp].attempt
          /\ row.purpose = ops[LastOp].purpose /\ row.facts = ops[LastOp].facts
          /\ row.status = "completed"
      BY <1>3 DEF OpType
    <3>3. task'.at = "extract" /\ task'.strategy = LastStrategy /\ task'.op = LastOp
      BY <1>3, <2>1 DEF IngestReply, Go, Idle
    <3> HIDE DEF row
    <3> QED BY <3>1, <3>2, <3>3 DEF StatusAt
  <2>2. ASSUME NEW cause, IngestFailure(o, cause) PROVE \E row : Result(row)
    <3> DEFINE row == [ops[LastOp] EXCEPT !.status = "failed", !.cause = cause]
    <3>1. ops' = [ops EXCEPT ![LastOp] = row]
      BY <1>3, <2>2 DEF IngestFailure
    <3>2. /\ row.strategy = ops[LastOp].strategy /\ row.attempt = ops[LastOp].attempt
          /\ row.purpose = ops[LastOp].purpose /\ row.facts = ops[LastOp].facts
          /\ row.status = "failed"
      BY <1>3 DEF OpType
    <3>3. task'.at = "failed" /\ task'.strategy = LastStrategy /\ task'.op = LastOp
      BY <1>3, <2>2 DEF IngestFailure, Go, Idle
    <3> HIDE DEF row
    <3> QED BY <3>1, <3>2, <3>3 DEF StatusAt
  <2> QED BY <1>1, <2>1, <2>2
<1>5. PICK row : Result(row)
  BY <1>4
<1>6. /\ RowsInv' /\ OpenInv'
      /\ LastOp' = LastOp /\ LastStrategy' = LastStrategy /\ ops'[LastOp] = row
  BY <1>2, <1>3, <1>5, LastCallChanges
<1> QED BY <1>3, <1>5, <1>6, GoStands

\* A strategy and its attempt, each with a new status.
Restated(s, st, at) == [strategies EXCEPT ![s].status = st, ![s].attempt = at]

\* Setting one strategy's status and the status of an attempt touches nothing else.
LEMMA StatusAndAttempt ==
    ASSUME strategies \in Seq(StrategyType),
           NEW s \in DOMAIN strategies,
           NEW st \in {"active", "invalidated", "successful"},
           NEW at \in {"none", "running", "invalidated", "succeeded"},
           strategies' = Restated(s, st, at)
    PROVE  /\ DOMAIN strategies' = DOMAIN strategies /\ Len(strategies') = Len(strategies)
           /\ strategies'[s].status = st
           /\ \A q \in DOMAIN strategies : /\ strategies'[q].target = strategies[q].target
                                           /\ strategies'[q].needs = strategies[q].needs
                                           /\ q # s => strategies'[q].status = strategies[q].status
<1> DEFINE row == [strategies[s] EXCEPT !.status = st]
           mid == [strategies EXCEPT ![s] = row]
           last == [mid[s] EXCEPT !.attempt = at]
<1>1. \A q \in DOMAIN strategies : strategies[q] \in StrategyType
  BY LenProperties, ElementOfSeq
<1>2. /\ row \in StrategyType /\ row.status = st
      /\ row.target = strategies[s].target /\ row.needs = strategies[s].needs
  BY <1>1 DEF StrategyType
<1>3. strategies' = [mid EXCEPT ![s] = last]
  BY DEF Restated
<1> HIDE DEF row
<1>4. mid \in Seq(StrategyType) /\ DOMAIN mid = DOMAIN strategies /\ Len(mid) = Len(strategies)
  BY <1>2, UpdateSeq
<1>5. mid[s] = row /\ \A q \in DOMAIN strategies : q # s => mid[q] = strategies[q]
  OBVIOUS
<1> HIDE DEF mid
<1>6. mid[s] \in StrategyType
  BY <1>1, <1>2, <1>5
<1>7. /\ last \in StrategyType /\ last.status = mid[s].status
      /\ last.target = mid[s].target /\ last.needs = mid[s].needs
  BY <1>6 DEF StrategyType
<1> HIDE DEF last
<1>8. DOMAIN strategies' = DOMAIN mid /\ Len(strategies') = Len(mid)
  BY <1>3, <1>4, <1>7, UpdateSeq
<1>9. strategies'[s] = last /\ \A q \in DOMAIN strategies : q # s => strategies'[q] = mid[q]
  BY <1>3, <1>4
<1>10. strategies'[s].status = st
  BY <1>2, <1>4, <1>5, <1>7, <1>9
<1>11. \A q \in DOMAIN strategies : /\ mid[q].target = strategies[q].target
                                    /\ mid[q].needs = strategies[q].needs
                                    /\ q # s => mid[q].status = strategies[q].status
  BY <1>2, <1>5
<1>12. \A q \in DOMAIN strategies : /\ strategies'[q].target = mid[q].target
                                    /\ strategies'[q].needs = mid[q].needs
                                    /\ strategies'[q].status = mid[q].status
  BY <1>4, <1>7, <1>9
<1> QED BY <1>4, <1>8, <1>10, <1>11, <1>12

\* Only the last strategy is given a new status, by a handler with nothing open.
LEMMA LastStrategyChanges ==
    ASSUME LoopInv, Engaged, task.at # "ingest", UNCHANGED <<ops, approvals, started>>,
           NEW st \in {"active", "invalidated", "successful"},
           NEW at \in {"none", "running", "invalidated", "succeeded"},
           strategies' = Restated(LastStrategy, st, at)
    PROVE  /\ RowsInv' /\ OpenInv' /\ LastOp' = LastOp /\ LastStrategy' = LastStrategy
           /\ strategies'[LastStrategy].status = st
           /\ \A q \in DOMAIN strategies : strategies'[q].target = strategies[q].target
<1>1. /\ ThreadInv /\ TypeInv /\ RowsInv /\ StandInv
      /\ Calling = {} /\ Pending = {} /\ started
  BY EngagedFacts DEF LoopInv, ThreadInv
<1>2. strategies \in Seq(StrategyType) /\ LastStrategy \in DOMAIN strategies
  BY <1>1, RowFacts DEF StandInv, Engaged, TypeInv, TaskRefs
<1>3. /\ DOMAIN strategies' = DOMAIN strategies /\ Len(strategies') = Len(strategies)
      /\ strategies'[LastStrategy].status = st
      /\ \A q \in DOMAIN strategies : /\ strategies'[q].target = strategies[q].target
                                      /\ q # LastStrategy => strategies'[q].status = strategies[q].status
  BY <1>2, StatusAndAttempt
<1>4. \A q \in DOMAIN strategies : q < LastStrategy => strategies'[q].status = strategies[q].status
  BY <1>1, <1>3, RowFacts
<1>5. StrategiesFormOneLine'
  BY <1>1, <1>3, <1>4, LineKept DEF RowsInv, LastStrategy
<1>6. RowsInv'
  BY <1>1, <1>4, <1>5, RowsStay
<1>7. OpenInv'
  BY <1>1 DEF OpenInv, Calling, Pending
<1> QED BY <1>3, <1>6, <1>7 DEF LastOp, LastStrategy

\* The strategy is dropped, or it succeeds.
LEMMA LineClose == ASSUME LoopInv, Invalidate \/ FinaliseRecovery PROVE RowsInv' /\ OpenInv' /\ StandInv'
<1>1. /\ ThreadInv /\ TypeInv /\ StandInv /\ task.at \in {"invalidate", "finalise"} /\ Engaged
      /\ UNCHANGED <<ops, approvals, started>>
  BY DEF LoopInv, ThreadInv, Invalidate, FinaliseRecovery, At, Engaged, missionVars
<1>2. /\ task.strategy = LastStrategy /\ task.op = LastOp /\ LastOp # 0
      /\ ops[LastOp].strategy = LastStrategy /\ ops[LastOp].status \in Closed
  BY <1>1 DEF StandInv, At, StatusAt, Closed
<1>3. CASE Invalidate
  <2>1. /\ RowsInv' /\ OpenInv' /\ LastOp' = LastOp /\ LastStrategy' = LastStrategy
        /\ strategies'[LastStrategy].status = "invalidated"
    <3>1. strategies' = Restated(LastStrategy, "invalidated", "invalidated")
      BY <1>2, <1>3 DEF Invalidate, Restated
    <3> QED BY <1>1, <3>1, LastStrategyChanges
  <2>2. task'.at = "replan" /\ task'.strategy = LastStrategy /\ task'.op = LastOp
    BY <1>2, <1>3, TaskFields DEF Invalidate
  <2> QED BY <1>1, <1>2, <2>1, <2>2, GoStands DEF StatusAt
<1>4. CASE FinaliseRecovery
  <2>1. StandInv'
    BY <1>4, TaskFields, FreeStands DEF FinaliseRecovery
  <2>2. CASE outcome = "none"
    <3>1. strategies' = Restated(LastStrategy, "successful", "succeeded")
      BY <1>2, <1>4, <2>2 DEF FinaliseRecovery, Restated
    <3> QED BY <1>1, <2>1, <3>1, LastStrategyChanges
  <2>3. CASE outcome # "none"
    BY <1>1, <1>4, <2>1, <2>3, RowsUnchanged DEF FinaliseRecovery
  <2> QED BY <2>2, <2>3
<1> QED BY <1>3, <1>4

\* The next strategy is about a candidate nobody tried, and follows an invalidated one.
LEMMA LinePropose == ASSUME LoopInv, TypeInv', Propose PROVE RowsInv' /\ OpenInv' /\ StandInv'
<1>1. /\ ThreadInv /\ TypeInv /\ RowsInv /\ StandInv /\ At("propose") /\ Engaged
      /\ UNCHANGED <<ops, approvals, started>>
  BY DEF LoopInv, ThreadInv, Propose, At, Engaged
<1>2. /\ task.strategy = LastStrategy /\ LastOp # 0
      /\ ops[LastOp].strategy = LastStrategy /\ ops[LastOp].status \in Closed
      /\ strategies[LastStrategy].status = "invalidated"
      /\ Calling = {} /\ Pending = {} /\ started
  BY <1>1, EngagedFacts DEF StandInv, At, StatusAt
<1>3. CASE UNCHANGED strategies /\ task' = Go("escalate", 0, 0)
  BY <1>1, <1>3, RowsUnchanged, TaskFields, FreeStands
<1>4. ASSUME NEW c \in Proposals, NEW needs \in NeedSets,
             strategies' = Append(strategies, NewStrategy(c, needs)),
             task' = Launching(Len(strategies) + 1, needs, "verify", 1)
      PROVE  RowsInv' /\ OpenInv' /\ StandInv'
  <2> DEFINE new == NewStrategy(c, needs)
  <2>1. new.target = c /\ c \notin AttemptedTargets
    BY DEF NewStrategy, Proposals, AvailableCandidates
  <2> HIDE DEF new
  <2>2. /\ LastStrategy' = LastStrategy + 1 /\ LastStrategy \in Nat
        /\ DOMAIN strategies = 1..LastStrategy /\ DOMAIN strategies' = 1..(LastStrategy + 1)
        /\ strategies'[LastStrategy + 1] = new
        /\ \A s \in DOMAIN strategies : strategies'[s] = strategies[s]
    BY <1>1, <1>4, RowFacts DEF LastStrategy, new
  <2>3. \A s \in DOMAIN strategies : strategies[s].target # c
    BY <2>1 DEF AttemptedTargets
  <2>4. StrategiesFormOneLine'
    <3>1. \A s \in DOMAIN strategies' : s < Len(strategies') => strategies'[s].status = "invalidated"
      BY <1>1, <1>2, <2>2 DEF RowsInv, StrategiesFormOneLine, LastStrategy
    <3>2. ASSUME NEW s \in DOMAIN strategies', NEW r \in DOMAIN strategies',
                 strategies'[s].target = strategies'[r].target
          PROVE  s = r
      <4>1. CASE s \in DOMAIN strategies /\ r \in DOMAIN strategies
        BY <1>1, <2>2, <3>2, <4>1 DEF RowsInv, StrategiesFormOneLine
      <4>2. CASE s = LastStrategy + 1 \/ r = LastStrategy + 1
        BY <2>1, <2>2, <2>3, <3>2, <4>2
      <4> QED BY <2>2, <4>1, <4>2
    <3> QED BY <3>1, <3>2 DEF StrategiesFormOneLine
  <2>5. RowsInv'
    BY <1>1, <2>2, <2>4, RowsStay
  <2>6. OpenInv'
    BY <1>1, <1>2 DEF OpenInv, Calling, Pending
  <2>7. StandInv'
    <3>1. /\ task'.at = "launch" /\ task'.strategy = LastStrategy + 1 /\ task'.purpose = "verify"
          /\ task'.attempt = 1
      BY <1>4 DEF Launching, Idle, LastStrategy
    <3>2. LastOp' = LastOp /\ LastOp \in DOMAIN ops /\ LastStrategy \in DOMAIN strategies
      BY <1>1, <1>2, RowFacts DEF LastOp
    <3>3. \A o \in DOMAIN ops' : ops'[o].strategy < LastStrategy + 1
      BY <1>1, <2>2, RowFacts
    <3>4. LaunchCause'
      BY <1>1, <1>2, <2>2, <3>1, <3>2, <3>3 DEF LaunchCause
    <3> QED BY <2>2, <3>1, <3>4, LaunchStands
  <2> QED BY <2>5, <2>6, <2>7
<1> QED BY <1>3, <1>4 DEF Propose

\* A human is asked about the last strategy, and answers about it.
LEMMA LineHuman == ASSUME LoopInv, ConfirmRecovery \/ ResolveApprovals PROVE RowsInv' /\ OpenInv' /\ StandInv'
<1>1. /\ ThreadInv /\ TypeInv /\ RowsInv /\ OpenInv /\ StandInv
      /\ UNCHANGED <<ops, strategies, started>> /\ LastOp' = LastOp /\ LastStrategy' = LastStrategy
  BY DEF LoopInv, ThreadInv, ConfirmRecovery, ResolveApprovals, ResolveApproval, missionVars, LastOp,
         LastStrategy
<1>2. RowsInv'
  BY <1>1 DEF RowsInv, StrategiesFormOneLine, EveryCallHasItsCause
<1>3. CASE ConfirmRecovery
  <2>1. At("confirm") /\ Engaged /\ task \in TaskType
    BY <1>1, <1>3, RowFacts DEF ConfirmRecovery, Engaged, At
  <2>2. /\ task.strategy = LastStrategy /\ task.op = LastOp /\ LastOp # 0
        /\ ops[LastOp].strategy = LastStrategy /\ ops[LastOp].status = "completed"
        /\ Calling = {} /\ Pending = {} /\ started
    BY <1>1, <2>1, EngagedFacts DEF StandInv, At, StatusAt
  <2>3. CASE AboveCostLimit(evidence, strategies[task.strategy].target)
    <3> DEFINE new == [strategy |-> task.strategy, status |-> "pending"]
    <3>1. approvals' = Append(approvals, new) /\ task' = Idle
      BY <1>3, <2>3 DEF ConfirmRecovery
    <3>2. new.strategy = LastStrategy
      BY <2>2
    <3> HIDE DEF new
    <3>3. \A a \in Pending' : approvals'[a] = new
      <4>1. \A a \in DOMAIN approvals' : a = Len(approvals) + 1 \/ (a \in DOMAIN approvals /\ approvals'[a] = approvals[a])
        BY <1>1, <3>1, RowFacts
      <4>2. approvals'[Len(approvals) + 1] = new
        BY <1>1, <3>1, RowFacts
      <4> QED BY <2>2, <4>1, <4>2 DEF Pending
    <3>4. Calling' = {}
      BY <1>1, <2>2 DEF Calling
    <3>5. OpenInv'
      BY <1>1, <2>2, <3>2, <3>3, <3>4 DEF OpenInv
    <3> QED BY <1>2, <3>1, <3>5, TaskFields, FreeStands
  <2>4. CASE ~AboveCostLimit(evidence, strategies[task.strategy].target)
    <3>1. UNCHANGED approvals /\ task' = [task EXCEPT !.at = "finalise"]
      BY <1>3, <2>4 DEF ConfirmRecovery
    <3>2. task'.at = "finalise" /\ task'.strategy = task.strategy /\ task'.op = task.op
      BY <2>1, <3>1 DEF TaskType
    <3> QED BY <1>1, <2>2, <3>1, <3>2, RowsUnchanged, GoStands DEF StatusAt
  <2> QED BY <2>3, <2>4
<1>4. CASE ResolveApprovals
  <2>1. PICK a \in DOMAIN approvals, approved \in BOOLEAN : ResolveApproval(a, approved)
    BY <1>4 DEF ResolveApprovals
  <2>2. a \in Pending
    BY <2>1 DEF ResolveApproval, Pending
  <2>3. /\ Pending = {a} /\ Calling = {} /\ started
        /\ approvals[a].strategy = LastStrategy /\ LastOp # 0
        /\ ops[LastOp].strategy = LastStrategy /\ ops[LastOp].status = "completed"
    BY <1>1, <2>2 DEF ThreadInv, OneLiveThread, NothingBefore, OpenInv, Pending
  <2>4. Pending' = {}
    <3>1. approvals[a] \in ApprovalType
      BY <1>1, RowFacts
    <3>2. /\ DOMAIN approvals' = DOMAIN approvals /\ approvals'[a].status # "pending"
          /\ \A b \in DOMAIN approvals : b # a => approvals'[b] = approvals[b]
      BY <2>1, <3>1 DEF ResolveApproval, ApprovalType
    <3> QED BY <2>3, <3>2 DEF Pending
  <2>5. OpenInv'
    BY <1>1, <2>3, <2>4 DEF OpenInv, Calling
  <2>6. task'.at \in {"finalise", "invalidate"} /\ task'.strategy = LastStrategy /\ task'.op = LastOp
    BY <2>1, <2>3, TaskFields DEF ResolveApproval, LastOp
  <2>7. ops[LastOp].status \in StatusAt(task'.at)
    BY <2>3, <2>6 DEF StatusAt, Closed
  <2> QED BY <1>1, <1>2, <2>3, <2>5, <2>6, <2>7, GoStands
<1> QED BY <1>3, <1>4
-----------------------------------------------------------------------------
(* The theorems *)

LEMMA LoopInit == Init => LoopInv
<1> SUFFICES ASSUME Init PROVE LoopInv
  OBVIOUS
<1>1. ThreadInv /\ strategies = <<>> /\ ops = <<>> /\ approvals = <<>> /\ task.at = "prepare"
  BY ThreadInit, TaskFields DEF Init
<1>2. RowsInv
  BY <1>1 DEF RowsInv, StrategiesFormOneLine, EveryCallHasItsCause
<1>3. OpenInv
  BY <1>1 DEF OpenInv, Calling, Pending, LastStrategy
<1>4. StandInv
  BY <1>1, NotEngaged DEF Engaged
<1> QED BY <1>1, <1>2, <1>3, <1>4 DEF LoopInv

LEMMA LoopStep == LoopInv /\ [Next]_vars => LoopInv'
<1> SUFFICES ASSUME LoopInv, [Next]_vars PROVE LoopInv'
  OBVIOUS
<1>1. ThreadInv' /\ TypeInv'
  BY ThreadStep DEF LoopInv, ThreadInv
<1>2. RowsInv' /\ OpenInv' /\ StandInv'
  BY <1>1, LineQuiet, LineOutside, LinePrepare, LineStart, LineAttempt, LineLaunch, LineDispatch, LineIngest,
     LineClose, LinePropose, LineHuman DEF Next, Engine
<1> QED BY <1>1, <1>2 DEF LoopInv

\* Whatever makes the Director replan, a failed call, an answer, a rejected approval, the
\* strategies of a mission form one line and no candidate is tried twice.
THEOREM OneLine == Spec => []StrategiesFormOneLine
<1>1. LoopInv => StrategiesFormOneLine
  BY DEF LoopInv, RowsInv
<1> QED BY <1>1, LoopInit, LoopStep, PTL DEF Spec

\* Every call of a mission has the cause the audit trail gives it, and keeps it for as
\* long as the mission's rows are there.
THEOREM CausesKnown == Spec => []EveryCallHasItsCause
<1>1. LoopInv => EveryCallHasItsCause
  BY DEF LoopInv, RowsInv
<1> QED BY <1>1, LoopInit, LoopStep, PTL DEF Spec
-----------------------------------------------------------------------------
(* How often a candidate is phoned *)

DialsPerQuestion == IF MaxRetries = 0 THEN 1 ELSE MaxRetries

\* The calls of a target: those of each question finished, and the attempts at the last.
CallCount ==
    /\ \A t \in Candidates : ClarificationCount(t) <= MaxClarifications
    /\ \A o \in DOMAIN ops : ops[o].attempt \in 1..DialsPerQuestion
    /\ \A t \in Candidates : LastOp # 0 /\ TargetOf(LastOp) = t =>
         Cardinality(CallsTo(t)) <= DialsPerQuestion * ClarificationCount(t) + ops[LastOp].attempt
    /\ CallsAreBounded

\* A handler about to dial again still may.
LaunchBudget ==
    At("launch") =>
        /\ task.purpose = "retry" => task.attempt <= MaxRetries
        /\ task.purpose = "clarification" =>
             \A t \in Candidates : strategies[task.strategy].target = t =>
                 ClarificationCount(t) < MaxClarifications

CountInv == LoopInv /\ CallCount /\ LaunchBudget

\* The arithmetic of CallsPerTarget.
LEMMA Products ==
    ASSUME NEW d \in Nat, NEW c \in Nat, NEW m \in Nat, c <= m
    PROVE  /\ d * c \in Nat /\ d * (c + 1) = d * c + d
           /\ d * c <= d * m /\ (1 + m) * d = d * m + d
<1>1. d * c \in Nat /\ d * m \in Nat
  OBVIOUS
<1>2. d * (c + 1) = d * c + d /\ (1 + m) * d = d * m + d
  OBVIOUS
<1>3. PICK k \in Nat : m = c + k
  <2>1. m - c \in Nat /\ m = c + (m - c)
    OBVIOUS
  <2> QED BY <2>1
<1>4. d * m = d * c + d * k /\ d * k \in Nat
  BY <1>3
<1> QED BY <1>1, <1>2, <1>4

LEMMA DialLimits ==
    /\ DialsPerQuestion \in Nat /\ DialsPerQuestion >= 1 /\ MaxClarifications \in Nat
    /\ MaxRetries \in Nat /\ MaxRetries <= DialsPerQuestion
    /\ CallsPerTarget = (1 + MaxClarifications) * DialsPerQuestion
BY LoopAssumption DEF LoopAssumption, DialsPerQuestion, CallsPerTarget

\* Sets of calls are finite, and a new call counts once.
LEMMA CallSets ==
    ASSUME NEW n \in Nat, NEW S \in SUBSET (1..n)
    PROVE  /\ IsFiniteSet(S) /\ Cardinality(S) \in Nat
           /\ Cardinality(S \cup {n + 1}) = Cardinality(S) + 1
<1>1. IsFiniteSet(S)
  <2>1. IsFiniteSet(1..n)
    BY FS_Interval
  <2> QED BY <2>1, FS_Subset
<1>2. n + 1 \notin S
  OBVIOUS
<1> QED BY <1>1, <1>2, FS_CardinalityType, FS_AddElement

\* The clarifications among the calls to a target.
Clarifications(t) == {o \in DOMAIN ops : TargetOf(o) = t /\ ops[o].purpose = "clarification"}

\* A step that adds no call and keeps what the calls were made for keeps the count.
LEMMA CountKept ==
    ASSUME TypeInv, CallCount, LastOp' = LastOp, DOMAIN ops' = DOMAIN ops,
           \A o \in DOMAIN ops : /\ ops'[o].strategy = ops[o].strategy
                                 /\ ops'[o].attempt = ops[o].attempt
                                 /\ ops'[o].purpose = ops[o].purpose,
           \A s \in DOMAIN strategies : strategies'[s].target = strategies[s].target
    PROVE  /\ CallCount'
           /\ \A t : ClarificationCount(t)' = ClarificationCount(t)
<1>1. \A o \in DOMAIN ops : TargetOf(o)' = TargetOf(o)
  BY RowFacts DEF TargetOf
<1>2. \A t : CallsTo(t)' = CallsTo(t)
  BY <1>1 DEF CallsTo
<1>3. \A t : ClarificationCount(t)' = ClarificationCount(t)
  <2>1. \A t : Clarifications(t)' = Clarifications(t)
    BY <1>1 DEF Clarifications
  <2> QED BY <2>1 DEF ClarificationCount, Clarifications
<1>4. LastOp # 0 => LastOp \in DOMAIN ops /\ ops'[LastOp].attempt = ops[LastOp].attempt
  BY RowFacts
<1>5. CallCount'
  BY <1>1, <1>2, <1>3, <1>4 DEF CallCount, CallsAreBounded, CallsPerTarget, DialsPerQuestion
<1> QED BY <1>3, <1>5

\* Only a launch adds a call, and no step changes what a call was made for, reopens it or
\* forgets that it was placed.
LEMMA CallsStay ==
    ASSUME LoopInv, [Next]_vars, ~LaunchOperation
    PROVE  /\ LastOp' = LastOp /\ DOMAIN ops' = DOMAIN ops
           /\ \A o \in DOMAIN ops : /\ ops'[o].strategy = ops[o].strategy
                                    /\ ops'[o].attempt = ops[o].attempt
                                    /\ ops'[o].purpose = ops[o].purpose
                                    /\ ops'[o].facts = ops[o].facts
                                    /\ ops[o].recorded => ops'[o].recorded
                                    /\ ops[o].status \in Closed => ops'[o].status = ops[o].status
<1> USE DEF missionVars, rowVars
<1>1. TypeInv /\ StandInv /\ ops \in Seq(OpType) /\ \A o \in DOMAIN ops : ops[o] \in OpType
  BY RowFacts DEF LoopInv, ThreadInv
<1> DEFINE Changed(o, row) == /\ ops' = [ops EXCEPT ![o] = row] /\ row \in OpType
                              /\ row.strategy = ops[o].strategy /\ row.attempt = ops[o].attempt
                              /\ row.purpose = ops[o].purpose /\ row.facts = ops[o].facts
                              /\ ops[o].recorded => row.recorded
                              /\ ops[o].status \notin Closed
<1>2. ASSUME NEW o \in DOMAIN ops, NEW row, Changed(o, row)
      PROVE  /\ LastOp' = LastOp /\ DOMAIN ops' = DOMAIN ops
             /\ \A p \in DOMAIN ops : /\ ops'[p].strategy = ops[p].strategy
                                      /\ ops'[p].attempt = ops[p].attempt
                                      /\ ops'[p].purpose = ops[p].purpose
                                      /\ ops'[p].facts = ops[p].facts
                                      /\ ops[p].recorded => ops'[p].recorded
                                      /\ ops[p].status \in Closed => ops'[p].status = ops[p].status
  <2>1. /\ LastOp' = LastOp /\ DOMAIN ops' = DOMAIN ops
        /\ ops'[o] = row /\ \A p \in DOMAIN ops : p # o => ops'[p] = ops[p]
    BY <1>1, <1>2, CallRow DEF LastOp
  <2> QED BY <1>2, <2>1
<1>3. CASE DispatchRejected \/ DispatchFailed \/ CallStarted \/ IngestCallState
  <2>1. \E o \in DOMAIN ops : \E row : Changed(o, row)
    <3>1. CASE DispatchRejected \/ DispatchFailed \/ CallStarted
      <4>0. task.at \in {"dispatch", "dispatched"}
        BY <3>1 DEF DispatchRejected, DispatchFailed, CallStarted, At
      <4>1. /\ task.op \in DOMAIN ops /\ ops[task.op] \in OpType
            /\ ops[task.op].status \notin Closed
        BY <1>1, <4>0, CallRefs DEF StandInv, Engaged, At, StatusAt, Closed
      <4>2. CASE DispatchRejected
        <5> DEFINE row == [ops[task.op] EXCEPT !.status = "failed"]
        <5>1. Changed(task.op, row)
          BY <4>1, <4>2 DEF DispatchRejected, OpType
        <5> QED BY <4>1, <5>1
      <4>3. CASE DispatchFailed
        <5>1. PICK cause \in {"line", "number"} :
                 ops' = [ops EXCEPT ![task.op].status = "failed", ![task.op].cause = cause]
          BY <4>3 DEF DispatchFailed
        <5> DEFINE row == [ops[task.op] EXCEPT !.status = "failed", !.cause = cause]
        <5>2. Changed(task.op, row)
          BY <4>1, <5>1 DEF OpType
        <5> QED BY <4>1, <5>2
      <4>4. CASE CallStarted
        <5> DEFINE row == [ops[task.op] EXCEPT !.status = "calling", !.recorded = TRUE]
        <5>1. Changed(task.op, row)
          BY <4>1, <4>4 DEF CallStarted, OpType
        <5> QED BY <4>1, <5>1
      <4> QED BY <3>1, <4>2, <4>3, <4>4
    <3>2. ASSUME NEW o \in DOMAIN ops, NEW reply, IngestReply(o, reply)
          PROVE  \E row : Changed(o, row)
      <4> DEFINE row == [ops[o] EXCEPT !.status = "completed"]
      <4>1. Changed(o, row)
        BY <1>1, <3>2 DEF IngestReply, MayIngest, Closed, OpType
      <4> QED BY <4>1
    <3>3. ASSUME NEW o \in DOMAIN ops, NEW cause \in {"line", "number"}, IngestFailure(o, cause)
          PROVE  \E row : Changed(o, row)
      <4> DEFINE row == [ops[o] EXCEPT !.status = "failed", !.cause = cause]
      <4>1. Changed(o, row)
        BY <1>1, <3>3 DEF IngestFailure, MayIngest, Closed, OpType
      <4> QED BY <4>1
    <3> QED BY <1>3, <3>1, <3>2, <3>3 DEF IngestCallState
  <2> QED BY <1>2, <2>1
<1>4. CASE UNCHANGED ops
  BY <1>4 DEF LastOp
<1>5. DispatchRejected \/ DispatchFailed \/ CallStarted \/ IngestCallState \/ UNCHANGED ops
  <2>1. CASE Prepare \/ StartAttempt \/ DispatchAccepted \/ Extract \/ EvaluateAndDecide
               \/ HandleCallFailure
    BY <2>1 DEF Prepare, StartAttempt, DispatchAccepted, Extract, EvaluateAndDecide, HandleCallFailure
  <2>2. CASE Invalidate \/ Replan \/ Propose \/ ConfirmRecovery \/ FinaliseRecovery \/ Escalate
    BY <2>2 DEF Invalidate, Replan, Propose, ConfirmRecovery, FinaliseRecovery, Escalate
  <2>3. CASE Start \/ EscalateManually \/ Tick \/ Crash \/ UNCHANGED vars
    BY <2>3 DEF Start, EscalateManually, Tick, Crash, vars
  <2>4. CASE ResolveApprovals
    BY <2>4 DEF ResolveApprovals, ResolveApproval
  <2> QED BY <2>1, <2>2, <2>3, <2>4 DEF Next, Engine
<1> QED BY <1>3, <1>4, <1>5

\* No step changes the target of a strategy.
LEMMA TargetsStay ==
    ASSUME LoopInv, [Next]_vars
    PROVE  \A s \in DOMAIN strategies : strategies'[s].target = strategies[s].target
<1> USE DEF missionVars, rowVars
<1>1. TypeInv /\ StandInv /\ \A s \in DOMAIN strategies : strategies[s] \in StrategyType
  BY RowFacts DEF LoopInv, ThreadInv
<1>2. CASE StartAttempt
  BY <1>1, <1>2, AttemptStarts
<1>3. CASE Prepare
  <2>1. strategies = <<>> /\ DOMAIN strategies = {}
    BY <1>1, <1>3 DEF Prepare, TypeInv, TaskRefs
  <2> QED BY <2>1
<1>4. CASE Propose
  BY <1>1, <1>4, RowFacts DEF Propose, LastStrategy
<1>5. CASE Invalidate \/ FinaliseRecovery
  <2>1. /\ task.at \in {"invalidate", "finalise"} /\ Engaged
        /\ UNCHANGED <<ops, approvals, started>>
    BY <1>5 DEF Invalidate, FinaliseRecovery, At, Engaged
  <2>2. task.strategy = LastStrategy /\ ops[task.op].strategy = LastStrategy
    BY <1>1, <2>1 DEF StandInv, At
  <2>3. \/ UNCHANGED strategies
        \/ strategies' = Restated(LastStrategy, "invalidated", "invalidated")
        \/ strategies' = Restated(LastStrategy, "successful", "succeeded")
    BY <1>5, <2>2 DEF Invalidate, FinaliseRecovery, Restated
  <2> QED BY <2>1, <2>3, LastStrategyChanges
<1>6. CASE LaunchOperation \/ DispatchAccepted \/ DispatchRejected \/ DispatchFailed
             \/ CallStarted \/ Extract
  BY <1>6 DEF LaunchOperation, DispatchAccepted, DispatchRejected, DispatchFailed, CallStarted,
              Extract
<1>7. CASE EvaluateAndDecide \/ HandleCallFailure \/ Replan \/ ConfirmRecovery \/ Escalate
  BY <1>7 DEF EvaluateAndDecide, HandleCallFailure, Replan, ConfirmRecovery, Escalate
<1>8. CASE Start \/ EscalateManually \/ Tick \/ Crash \/ UNCHANGED vars
  BY <1>8 DEF Start, EscalateManually, Tick, Crash, vars
<1>9. CASE ResolveApprovals \/ IngestCallState
  BY <1>9 DEF ResolveApprovals, ResolveApproval, IngestCallState, IngestReply, IngestFailure
<1> QED BY <1>2, <1>3, <1>4, <1>5, <1>6, <1>7, <1>8, <1>9 DEF Next, Engine

\* A handler dials again only while retries, or clarifications, are left.
LEMMA BudgetAtLaunch ==
    ASSUME CountInv, [Next]_vars, ~LaunchOperation
    PROVE  LaunchBudget'
<1> USE DEF missionVars, rowVars, At
<1>1. LoopInv /\ TypeInv /\ StandInv /\ task \in TaskType
  BY RowFacts DEF CountInv, LoopInv, ThreadInv
<1>2. /\ \A t : ClarificationCount(t)' = ClarificationCount(t)
      /\ \A s \in DOMAIN strategies : strategies'[s].target = strategies[s].target
  BY <1>1, CallsStay, TargetsStay, CountKept DEF CountInv
<1>3. ASSUME task' # task, task'.at = "launch"
      PROVE  Prepare \/ Start \/ EvaluateAndDecide \/ HandleCallFailure \/ Propose
  <2>1. ~(Extract \/ Invalidate \/ FinaliseRecovery \/ Escalate \/ Crash \/ DispatchRejected)
    BY <1>3, TaskFields DEF Extract, Invalidate, FinaliseRecovery, Escalate, Crash, DispatchRejected
  <2>2. ~(DispatchFailed \/ IngestCallState \/ ResolveApprovals)
    BY <1>3 DEF DispatchFailed, IngestCallState, IngestReply, IngestFailure, ResolveApprovals,
                ResolveApproval, Go, Idle
  <2>3. ~(DispatchAccepted \/ CallStarted \/ Replan \/ ConfirmRecovery)
    BY <1>1, <1>3, TaskFields DEF DispatchAccepted, CallStarted, Replan, ConfirmRecovery, TaskType
  <2>4. ~(EscalateManually \/ Tick \/ UNCHANGED vars)
    BY <1>3 DEF EscalateManually, Tick, vars
  <2>5. ~StartAttempt
    BY <1>3 DEF StartAttempt
  <2> QED BY <2>1, <2>2, <2>3, <2>4, <2>5 DEF Next, Engine
<1>4. CASE task' = task
  <2>1. At("launch") => task.strategy \in DOMAIN strategies
    BY <1>1 DEF TypeInv, TaskRefs
  <2> QED BY <1>2, <1>4, <2>1 DEF CountInv, LaunchBudget
<1>5. CASE Prepare \/ Start \/ Propose
  <2>1. task'.at = "launch" => task'.purpose = "verify"
    BY <1>5, TaskFields DEF Prepare, Start, Propose, Go, Launching, Idle
  <2> QED BY <2>1 DEF LaunchBudget
<1>6. CASE HandleCallFailure
  <2>1. task'.at = "launch" => task'.purpose = "retry" /\ task'.attempt <= MaxRetries
    BY <1>6 DEF HandleCallFailure, CheckRetryBudget, Go, Launching, Idle
  <2> QED BY <2>1 DEF LaunchBudget
<1>7. CASE EvaluateAndDecide
  <2>1. /\ task.op = LastOp /\ task.strategy = LastStrategy /\ ops[LastOp].strategy = LastStrategy
        /\ LastStrategy \in DOMAIN strategies
    BY <1>1, <1>7 DEF EvaluateAndDecide, StandInv, Engaged, TypeInv, TaskRefs
  <2> DEFINE t == TargetOf(task.op)
  <2>2. t = strategies[LastStrategy].target
    BY <2>1 DEF TargetOf
  <2>3. strategies'[LastStrategy].target = t
    BY <1>2, <2>1, <2>2
  <2>4. task' \in Verdict(Refreshed(evidence, t), t)
    BY <1>7 DEF EvaluateAndDecide
  <2> HIDE DEF t
  <2>5. task'.at = "launch" => /\ task'.strategy = LastStrategy /\ task'.purpose = "clarification"
                               /\ ClarificationCount(t) < MaxClarifications
    BY <2>1, <2>4, VerdictStands
  <2> QED BY <1>2, <2>3, <2>5 DEF LaunchBudget
<1> QED BY <1>3, <1>4, <1>5, <1>6, <1>7 DEF LaunchBudget

\* The new call is one more to its target, and the next attempt or the next question.
LEMMA CountLaunch ==
    ASSUME CountInv, TypeInv', LaunchOperation, CheckOperationBudget
    PROVE  CallCount'
<1>1. /\ LoopInv /\ TypeInv /\ RowsInv /\ CallCount /\ LaunchCause /\ LaunchBudget
      /\ At("launch") /\ task.strategy = LastStrategy /\ task \in TaskType
      /\ LastStrategy \in DOMAIN strategies
  BY RowFacts DEF CountInv, LoopInv, ThreadInv, LaunchOperation, StandInv, Engaged, At, TypeInv, TaskRefs
<1>0. PICK n, x : n = LastOp + 1 /\ x = strategies[LastStrategy].target
  OBVIOUS
<1>2. /\ LastOp' = n /\ LastOp \in Nat /\ DOMAIN ops = 1..LastOp /\ DOMAIN ops' = 1..n
      /\ \A o \in DOMAIN ops : ops'[o] = ops[o]
      /\ ops'[n].strategy = LastStrategy /\ ops'[n].purpose = task.purpose
      /\ ops'[n].attempt = task.attempt
      /\ \A s \in DOMAIN strategies : strategies'[s].target = strategies[s].target
  BY <1>0, <1>1, LaunchAdds
<1>3. x \in Candidates /\ task.purpose \in Purposes /\ task.attempt \in Nat
  BY <1>0, <1>1, RowFacts DEF StrategyType, TaskType
<1>4. /\ \A o \in DOMAIN ops : TargetOf(o)' = TargetOf(o)
      /\ TargetOf(n)' = x
  BY <1>0, <1>1, <1>2, RowFacts DEF TargetOf
<1> DEFINE C(t) == Cardinality(CallsTo(t))
           K(t) == ClarificationCount(t)
<1>5. \A t : CallsTo(t)' = IF t = x THEN CallsTo(t) \cup {n} ELSE CallsTo(t)
  BY <1>0, <1>2, <1>4 DEF CallsTo
<1>6. \A t : Clarifications(t)' = IF t = x /\ task.purpose = "clarification"
                                  THEN Clarifications(t) \cup {n} ELSE Clarifications(t)
  BY <1>0, <1>2, <1>4 DEF Clarifications
<1>7. \A t : /\ CallsTo(t) \in SUBSET (1..LastOp) /\ Clarifications(t) \in SUBSET (1..LastOp)
             /\ K(t) = Cardinality(Clarifications(t))
  BY <1>2 DEF CallsTo, Clarifications, ClarificationCount
<1>8. \A t : C(t) \in Nat /\ K(t) \in Nat /\ C(t)' = IF t = x THEN C(t) + 1 ELSE C(t)
  BY <1>0, <1>2, <1>5, <1>7, CallSets
<1>9. \A t : K(t)' = IF t = x /\ task.purpose = "clarification" THEN K(t) + 1 ELSE K(t)
  <2>1. \A t : K(t)' = Cardinality(Clarifications(t)')
    BY DEF Clarifications, ClarificationCount
  <2> QED BY <1>0, <1>2, <1>6, <1>7, <2>1, CallSets
<1> DEFINE D == DialsPerQuestion
<1>10. /\ D \in Nat /\ D >= 1 /\ MaxRetries \in Nat /\ MaxRetries <= D
       /\ MaxClarifications \in Nat /\ CallsPerTarget = (1 + MaxClarifications) * D
  BY DialLimits
<1> HIDE DEF D, C, K
<1> DEFINE K0 == K(x)
           Next0 == IF task.purpose = "clarification" THEN K0 + 1 ELSE K0
<1>11. K0 \in Nat /\ K0 <= MaxClarifications
  BY <1>1, <1>3, <1>8 DEF CallCount, K
<1>12. /\ task.attempt \in 1..D /\ Next0 <= MaxClarifications
       /\ C(x) + 1 <= D * Next0 + task.attempt
  <2>1. LastOp # 0 => /\ LastOp \in DOMAIN ops /\ ops[LastOp].attempt \in 1..D
                      /\ TargetOf(LastOp) = x => C(x) <= D * K0 + ops[LastOp].attempt
    BY <1>1, <1>2, <1>3 DEF CallCount, C, K, D
  <2>2. ops[LastOp].strategy = LastStrategy => TargetOf(LastOp) = x
    BY <1>0 DEF TargetOf
  <2>3. CASE task.purpose = "retry"
    <3>1. /\ LastOp # 0 /\ ops[LastOp].strategy = LastStrategy
          /\ task.attempt = ops[LastOp].attempt + 1 /\ task.attempt <= MaxRetries
      BY <1>1, <2>3 DEF LaunchCause, LaunchBudget
    <3>2. D * K0 \in Nat /\ C(x) \in Nat /\ Next0 = K0
      BY <1>8, <1>10, <1>11, <2>3, Products
    <3>3. C(x) <= D * K0 + ops[LastOp].attempt /\ ops[LastOp].attempt \in Nat
      BY <1>10, <2>1, <2>2, <3>1
    <3> HIDE DEF K0, Next0
    <3> QED BY <1>10, <1>11, <3>1, <3>2, <3>3, <2>1
  <2>4. CASE task.purpose = "clarification"
    <3>1. /\ LastOp # 0 /\ ops[LastOp].strategy = LastStrategy
          /\ task.attempt = 1 /\ K0 < MaxClarifications
      BY <1>0, <1>1, <1>3, <2>4 DEF LaunchCause, LaunchBudget, K
    <3>2. D * K0 \in Nat /\ C(x) \in Nat /\ Next0 = K0 + 1 /\ D * Next0 = D * K0 + D
      BY <1>8, <1>10, <1>11, <2>4, Products
    <3>3. C(x) <= D * K0 + ops[LastOp].attempt /\ ops[LastOp].attempt \in 1..D
      BY <2>1, <2>2, <3>1
    <3> HIDE DEF K0, Next0
    <3> QED BY <1>10, <1>11, <3>1, <3>2, <3>3
  <2>5. CASE task.purpose = "verify"
    <3>1. task.attempt = 1 /\ \A o \in DOMAIN ops : ops[o].strategy < LastStrategy
      BY <1>1, <2>5 DEF LaunchCause
    <3>2. \A o \in DOMAIN ops : TargetOf(o) # x
      <4>1. \A o \in DOMAIN ops : /\ ops[o].strategy \in DOMAIN strategies
                                  /\ ops[o].strategy # LastStrategy
        BY <1>1, <3>1, RowFacts
      <4> QED BY <1>0, <1>1, <4>1 DEF RowsInv, StrategiesFormOneLine, TargetOf
    <3>3. CallsTo(x) = {}
      BY <3>2 DEF CallsTo
    <3>4. C(x) = 0
      BY <3>3, FS_EmptySet DEF C
    <3>5. D * K0 \in Nat /\ Next0 = K0
      BY <1>10, <1>11, <2>5, Products
    <3> HIDE DEF K0, Next0
    <3> QED BY <1>10, <1>11, <3>1, <3>4, <3>5
  <2> QED BY <1>3, <2>3, <2>4, <2>5 DEF Purposes
<1>13. Next0 \in Nat /\ K(x)' = Next0 /\ C(x)' = C(x) + 1 /\ C(x) \in Nat
  BY <1>8, <1>9, <1>11
<1> HIDE DEF K0, Next0
<1>14. \A t \in Candidates : ClarificationCount(t)' <= MaxClarifications
  <2> SUFFICES ASSUME NEW t \in Candidates PROVE K(t)' <= MaxClarifications
    BY DEF K
  <2>1. CASE t = x
    BY <1>12, <1>13, <2>1
  <2>2. CASE t # x
    BY <1>1, <1>9, <2>2 DEF CallCount, K
  <2> QED BY <2>1, <2>2
<1>15. \A o \in DOMAIN ops' : ops'[o].attempt \in 1..D
  BY <1>0, <1>1, <1>2, <1>12 DEF CallCount, D
<1>16. ASSUME NEW t \in Candidates PROVE Cardinality(CallsTo(t))' <= CallsPerTarget
  <2>1. CASE t = x
    <3>1. D * Next0 <= D * MaxClarifications
          /\ (1 + MaxClarifications) * D = D * MaxClarifications + D /\ D * Next0 \in Nat
          /\ D * MaxClarifications \in Nat
      BY <1>10, <1>12, <1>13, Products
    <3>2. C(x) + 1 <= CallsPerTarget
      BY <1>8, <1>10, <1>12, <3>1
    <3> QED BY <1>13, <2>1, <3>2 DEF C
  <2>2. CASE t # x
    BY <1>1, <1>8, <2>2 DEF CallCount, CallsAreBounded, C
  <2> QED BY <2>1, <2>2
<1>17. ASSUME NEW t \in Candidates, TargetOf(n)' = t
       PROVE  Cardinality(CallsTo(t))' <= D * ClarificationCount(t)' + ops'[n].attempt
  <2>1. t = x
    BY <1>4, <1>17
  <2>2. C(x)' <= D * K(x)' + task.attempt
    BY <1>12, <1>13
  <2> QED BY <1>2, <2>1, <2>2 DEF C, K
<1>18. CallsAreBounded'
  BY <1>16 DEF CallsAreBounded, CallsPerTarget
<1>19. \A t \in Candidates : LastOp' # 0 /\ TargetOf(LastOp)' = t =>
          Cardinality(CallsTo(t))' <= D * ClarificationCount(t)' + ops'[LastOp'].attempt
  BY <1>2, <1>17
<1> QED BY <1>14, <1>15, <1>18, <1>19 DEF CallCount, D, DialsPerQuestion

LEMMA CountInit == Init => CountInv
<1> SUFFICES ASSUME Init PROVE CountInv
  OBVIOUS
<1>1. LoopInv /\ DOMAIN ops = {} /\ LastOp = 0 /\ ~At("launch")
  BY LoopInit, TaskFields DEF Init, LastOp, At
<1>2. /\ \A t : CallsTo(t) = {} /\ Clarifications(t) = {}
      /\ \A t : ClarificationCount(t) = Cardinality(Clarifications(t))
  BY <1>1 DEF CallsTo, Clarifications, ClarificationCount
<1>3. \A t : Cardinality(CallsTo(t)) = 0 /\ ClarificationCount(t) = 0
  BY <1>2, FS_EmptySet
<1>4. CallsPerTarget \in Nat /\ CallsPerTarget >= 0 /\ MaxClarifications >= 0
  <2>1. /\ (1 + MaxClarifications) * DialsPerQuestion
             = DialsPerQuestion * MaxClarifications + DialsPerQuestion
        /\ DialsPerQuestion * MaxClarifications \in Nat
    BY DialLimits, Products
  <2> QED BY <2>1, DialLimits
<1>5. CallCount
  BY <1>1, <1>3, <1>4 DEF CallCount, CallsAreBounded
<1> QED BY <1>1, <1>5 DEF CountInv, LaunchBudget

LEMMA CountStep == CountInv /\ [Next]_vars => CountInv'
<1> SUFFICES ASSUME CountInv, [Next]_vars PROVE CountInv'
  OBVIOUS
<1>1. LoopInv' /\ TypeInv' /\ LoopInv /\ TypeInv /\ CallCount
  BY LoopStep DEF CountInv, LoopInv, ThreadInv
<1>2. CASE LaunchOperation
  <2>1. LaunchBudget'
    BY <1>2, TaskFields DEF LaunchOperation, LaunchBudget, At
  <2>2. CASE CheckOperationBudget
    BY <1>1, <1>2, <2>1, <2>2, CountLaunch DEF CountInv
  <2>3. CASE ~CheckOperationBudget
    <3>1. UNCHANGED <<ops, strategies>>
      BY <1>2, <2>3 DEF LaunchOperation
    <3>2. CallCount'
      BY <1>1, <3>1, CountKept DEF LastOp
    <3> QED BY <1>1, <2>1, <3>2 DEF CountInv
  <2> QED BY <2>2, <2>3
<1>3. CASE ~LaunchOperation
  <2>1. CallCount'
    BY <1>1, <1>3, CallsStay, TargetsStay, CountKept
  <2> QED BY <1>1, <1>3, <2>1, BudgetAtLaunch DEF CountInv
<1> QED BY <1>2, <1>3

\* However calls fail, are answered, hedged or left open, nobody is phoned more often than
\* the retries of a first call and of each clarification allow.
THEOREM CallsBounded == Spec => []CallsAreBounded
<1>1. CountInv => CallsAreBounded
  BY DEF CountInv, CallCount
<1> QED BY <1>1, CountInit, CountStep, PTL DEF Spec
=============================================================================
