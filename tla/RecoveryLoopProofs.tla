------------------------- MODULE RecoveryLoopProofs -------------------------
(***************************************************************************)
(* The recovery loop, for every number of candidates, constraints and      *)
(* replies and for every budget.                                           *)
(*                                                                         *)
(* Type correctness.  TypeOK is not inductive as it stands: that a new     *)
(* operation names an existing strategy, or new evidence an existing call, *)
(* follows only from what the handler's locals name at each of its steps   *)
(* (TaskRefs).  The proof has one lemma per action, or per group of        *)
(* actions that change the same rows.                                      *)
(*                                                                         *)
(* Safety, from its types:                                                 *)
(*   - a mission is moved by one thing at a time (OneLiveThread);          *)
(*   - the budgets of the mission hold (BudgetsHold);                      *)
(*   - its outcome is written once (OutcomeIsWrittenOnce).                 *)
(* OneLiveThread needs to know which calls can still be open (CallRows)    *)
(* and that nothing was dialled or asked before the start (NothingBefore). *)
(***************************************************************************)
EXTENDS RecoveryLoop, SequenceTheorems, TLAPS

-----------------------------------------------------------------------------
(* The inductive invariant *)

\* At each step the rows named by the handler's locals exist.
TaskRefs ==
    /\ At("prepare") => strategies = <<>>
    /\ task.at \notin {"idle", "prepare", "escalate"} => task.strategy \in DOMAIN strategies
    /\ task.at \in {"dispatch", "dispatched", "ingest", "extract", "evaluate", "failed"}
         => task.op \in DOMAIN ops

TypeInv == TypeOK /\ TaskRefs

-----------------------------------------------------------------------------
(* Lemmas on rows and locals *)

\* Replacing one element keeps a sequence, its length and its other elements.
LEMMA UpdateSeq ==
    ASSUME NEW S, NEW seq \in Seq(S), NEW i, NEW e, i \in DOMAIN seq => e \in S
    PROVE  /\ [seq EXCEPT ![i] = e] \in Seq(S)
           /\ Len([seq EXCEPT ![i] = e]) = Len(seq)
           /\ DOMAIN [seq EXCEPT ![i] = e] = DOMAIN seq
<1>1. DOMAIN seq = 1..Len(seq) /\ seq \in [1..Len(seq) -> S] /\ Len(seq) \in Nat
  BY LenProperties
<1>2. CASE i \in DOMAIN seq
  BY <1>1, <1>2, ExceptSeq
<1>3. CASE i \notin DOMAIN seq
  BY <1>1, <1>3
<1> QED BY <1>2, <1>3

\* The locals of a handler that stands at a step, or is about to launch, are typed.
LEMMA TaskTypes ==
    /\ Idle \in TaskType
    /\ \A step \in Steps, s, o \in Nat : Go(step, s, o) \in TaskType
    /\ \A s, n \in Nat, facts \in SUBSET Asked, purpose \in Purposes :
         Launching(s, facts, purpose, n) \in TaskType
BY DEF Idle, Go, Launching, TaskType, Steps, Purposes

\* The locals keep what Go and Launching put there.
LEMMA TaskFields ==
    /\ Idle.at = "idle" /\ Idle.strategy = 0 /\ Idle.op = 0
    /\ \A step, s, o : /\ Go(step, s, o).at = step
                       /\ Go(step, s, o).strategy = s /\ Go(step, s, o).op = o
    /\ \A s, facts, purpose, n : /\ Launching(s, facts, purpose, n).at = "launch"
                                 /\ Launching(s, facts, purpose, n).strategy = s
                                 /\ Launching(s, facts, purpose, n).op = 0
BY DEF Idle, Go, Launching

\* Whatever the handler holds as a reply has the shape of one.
LEMMA HeldReply == ASSUME NEW reply \in Replies \cup {Unsaid} PROVE IsReply(reply)
<1>1. CASE reply \in Replies
  BY <1>1, LoopAssumption DEF LoopAssumption
<1>2. CASE reply = Unsaid
  BY <1>2 DEF Unsaid, IsReply
<1> QED BY <1>1, <1>2

\* Facts are extracted for what was asked, with a value or None, validated or uncertain.
LEMMA ExtractedTypes ==
    ASSUME NEW reply \in Replies \cup {Unsaid}, NEW facts \in SUBSET Asked,
           NEW f \in ExtractedFacts(reply, facts)
    PROVE  /\ f.key \in Asked /\ f.val \in Nat \cup {NoVal}
           /\ f.status \in {"validated", "uncertain"}
<1>1. IsReply(reply)
  BY HeldReply
<1>2. CASE reply.structured
  BY <1>1, <1>2 DEF ExtractedFacts, StructuredFacts, IsReply
<1>3. CASE ~reply.structured
  BY <1>1, <1>3 DEF ExtractedFacts, TranscriptFacts, IsReply
<1> QED BY <1>2, <1>3

\* Marking conflicts keeps the type of the evidence and the call it came from.
LEMMA MarkedTypes ==
    ASSUME NEW E \in SUBSET EvidenceType, NEW F
    PROVE  /\ MarkAgainst(E, F) \subseteq EvidenceType
           /\ \A m \in MarkAgainst(E, F) : \E e \in E : m.op = e.op
BY DEF MarkAgainst, EvidenceType

\* So does ageing it.
LEMMA RefreshedTypes ==
    ASSUME NEW E \in SUBSET EvidenceType, NEW t
    PROVE  /\ Refreshed(E, t) \subseteq EvidenceType
           /\ \A m \in Refreshed(E, t) : \E e \in E : m.op = e.op
BY DEF Refreshed, EvidenceType

\* The domains of the sequences of rows, under the type invariant.
LEMMA RowDomains ==
    ASSUME TypeOK
    PROVE  /\ DOMAIN strategies = 1..Len(strategies) /\ Len(strategies) \in Nat
           /\ DOMAIN ops = 1..Len(ops) /\ Len(ops) \in Nat
           /\ DOMAIN approvals = 1..Len(approvals) /\ Len(approvals) \in Nat
           /\ \A s \in DOMAIN strategies : strategies[s] \in StrategyType
           /\ \A o \in DOMAIN ops : ops[o] \in OpType
           /\ \A a \in DOMAIN approvals : approvals[a] \in ApprovalType
BY LenProperties, ElementOfSeq DEF TypeOK
-----------------------------------------------------------------------------
(* Type correctness *)

\* The budgets and the clock's bound are numbers.
LEMMA Limits ==
    /\ MaxOps \in Nat /\ MaxReplans \in Nat /\ MaxRetries \in Nat
    /\ MaxTime \in Nat /\ CostLimit \in Nat
BY LoopAssumption DEF LoopAssumption

LEMMA TypeInit == Init => TypeInv
<1> SUFFICES ASSUME Init PROVE TypeInv
  OBVIOUS
<1>1. strategies = <<>> /\ ops = <<>> /\ approvals = <<>> /\ evidence = {} /\ placed = {}
  BY DEF Init
<1>2. task \in TaskType /\ task.strategy = 0 /\ task.op = 0 /\ task.at = "prepare"
  BY TaskTypes, TaskFields DEF Init, Steps
<1>3. /\ now \in 0..MaxTime /\ eligible \subseteq Candidates
      /\ status \in MissionStatus /\ started \in BOOLEAN
      /\ outcome \in {"none"} \cup Terminal /\ replanCount \in Nat
  <2>1. now \in 0..MaxTime /\ replanCount \in Nat
    BY Limits DEF Init
  <2>2. eligible \subseteq Candidates /\ status \in MissionStatus /\ started \in BOOLEAN
    BY DEF Init, MissionStatus
  <2> QED BY <2>1, <2>2 DEF Init
<1>4. /\ strategies \in Seq(StrategyType) /\ ops \in Seq(OpType) /\ approvals \in Seq(ApprovalType)
      /\ DOMAIN ops = {} /\ DOMAIN approvals = {} /\ Len(strategies) = 0 /\ Len(ops) = 0
  BY <1>1
<1>5. TypeOK
  BY <1>1, <1>2, <1>3, <1>4 DEF TypeOK
<1>6. TaskRefs
  BY <1>1, <1>2 DEF TaskRefs, At
<1> QED BY <1>5, <1>6 DEF TypeInv

\* A step that leaves every row alone only has to keep the mission and the locals typed.
LEMMA RowsKept ==
    ASSUME TypeInv, UNCHANGED rowVars, UNCHANGED placed, UNCHANGED eligible,
           now' \in 0..MaxTime, status' \in MissionStatus, started' \in BOOLEAN,
           outcome' \in {"none"} \cup Terminal, replanCount' \in Nat,
           task' \in TaskType, task'.strategy \in 0..Len(strategies), task'.op \in 0..Len(ops),
           TaskRefs'
    PROVE  TypeInv'
BY DEF TypeInv, TypeOK, rowVars

\* A step that changes strategies alone among the rows and removes none.
LEMMA StrategiesKept ==
    ASSUME TypeInv, UNCHANGED <<now, eligible, ops, evidence, approvals, placed>>,
           status' \in MissionStatus, started' \in BOOLEAN,
           outcome' \in {"none"} \cup Terminal, replanCount' \in Nat,
           strategies' \in Seq(StrategyType), DOMAIN strategies \subseteq DOMAIN strategies',
           task' \in TaskType, task'.strategy \in 0..Len(strategies'), task'.op \in 0..Len(ops),
           TaskRefs'
    PROVE  TypeInv'
BY DEF TypeInv, TypeOK

\* Planning names only candidates of the intake and facts the template knows.
LEMMA PlanTypes ==
    ASSUME TypeInv, NEW c \in Proposals, NEW needs \in NeedSets
    PROVE  /\ NewStrategy(c, needs) \in StrategyType
           /\ \A s \in Nat : Launching(s, needs, "verify", 1) \in TaskType
<1>1. c \in Candidates
  BY DEF Proposals, AvailableCandidates, TypeInv, TypeOK
<1>2. needs \in SUBSET Keys /\ needs \in SUBSET Asked
  BY DEF NeedSets, Asked
<1>3. NewStrategy(c, needs) \in StrategyType
  BY <1>1, <1>2 DEF NewStrategy, StrategyType
<1>4. \A s \in Nat : Launching(s, needs, "verify", 1) \in TaskType
  BY <1>2, TaskTypes DEF Purposes
<1> QED BY <1>3, <1>4

LEMMA TypePrepare == TypeInv /\ Prepare => TypeInv'
<1> SUFFICES ASSUME TypeInv, Prepare PROVE TypeInv'
  OBVIOUS
<1>1. /\ strategies = <<>> /\ DOMAIN strategies = {} /\ Len(strategies) = 0
      /\ task.at = "prepare"
  BY DEF Prepare, TypeInv, TaskRefs, At
<1>2. Len(ops) \in Nat
  BY RowDomains DEF TypeInv
<1>3. /\ status' \in MissionStatus /\ started' \in BOOLEAN /\ now' \in 0..MaxTime
      /\ outcome' \in {"none"} \cup Terminal /\ replanCount' \in Nat
      /\ UNCHANGED <<now, eligible, ops, evidence, approvals, placed>>
  BY DEF Prepare, missionVars, TypeInv, TypeOK
<1>4. CASE task' = Go("escalate", 0, 0) /\ UNCHANGED strategies
  <2>1. task' \in TaskType /\ task'.at = "escalate" /\ task'.strategy = 0 /\ task'.op = 0
    BY <1>4, TaskTypes, TaskFields DEF Steps
  <2>2. TaskRefs'
    BY <2>1 DEF TaskRefs, At
  <2> QED BY <1>1, <1>2, <1>3, <1>4, <2>1, <2>2, RowsKept DEF rowVars
<1>5. ASSUME NEW c \in Proposals, NEW needs \in NeedSets,
             strategies' = <<NewStrategy(c, needs)>>,
             task' = IF started THEN Launching(1, needs, "verify", 1) ELSE Idle
      PROVE  TypeInv'
  <2>1. strategies' \in Seq(StrategyType) /\ Len(strategies') = 1 /\ DOMAIN strategies' = {1}
    BY <1>5, PlanTypes
  <2>2. /\ task' \in TaskType /\ task'.strategy \in 0..1 /\ task'.op = 0
        /\ task'.at = "idle" \/ (task'.at = "launch" /\ task'.strategy = 1)
    BY <1>5, PlanTypes, TaskTypes, TaskFields
  <2>3. TaskRefs'
    BY <2>1, <2>2 DEF TaskRefs, At
  <2> QED BY <1>1, <1>2, <1>3, <2>1, <2>2, <2>3, StrategiesKept
<1> QED BY <1>4, <1>5 DEF Prepare

LEMMA TypeStart == TypeInv /\ Start => TypeInv'
<1> SUFFICES ASSUME TypeInv, Start PROVE TypeInv'
  OBVIOUS
<1>1. Len(strategies) \in Nat /\ Len(ops) \in Nat /\ DOMAIN strategies = 1..Len(strategies)
  BY RowDomains DEF TypeInv
<1>2. ASSUME strategies # <<>>
      PROVE  1 \in DOMAIN strategies /\ strategies[1].needs \in SUBSET Asked
  <2>1. 1 \in DOMAIN strategies
    BY <1>1, <1>2, EmptySeq DEF TypeInv, TypeOK
  <2> QED BY <2>1, RowDomains DEF TypeInv, StrategyType, Asked
<1>3. /\ task' \in TaskType /\ task'.op = 0
      /\ \/ task'.at = "escalate" /\ task'.strategy = 0
         \/ task'.at = "prepare" /\ task'.strategy = 0 /\ strategies = <<>>
         \/ task'.at = "launch" /\ task'.strategy = 1 /\ 1 \in DOMAIN strategies
  BY <1>2, TaskTypes, TaskFields DEF Start, Steps, Purposes
<1>4. /\ status' \in MissionStatus /\ started' \in BOOLEAN /\ now' \in 0..MaxTime
      /\ outcome' \in {"none"} \cup Terminal /\ replanCount' \in Nat
      /\ UNCHANGED rowVars /\ UNCHANGED placed /\ UNCHANGED eligible
  BY DEF Start, MissionStatus, TypeInv, TypeOK
<1>5. TaskRefs'
  BY <1>3, <1>4 DEF TaskRefs, At, rowVars
<1> QED BY <1>1, <1>3, <1>4, <1>5, RowsKept

\* A strategy's attempt begins: one field of one row changes, and the handler goes on.
LEMMA AttemptStarts ==
    ASSUME TypeInv, StartAttempt
    PROVE  /\ UNCHANGED <<now, eligible, status, started, outcome, replanCount, ops, evidence,
                          approvals, placed, task>>
           /\ task.at = "launch" /\ task.strategy \in DOMAIN strategies
           /\ strategies' \in Seq(StrategyType)
           /\ DOMAIN strategies' = DOMAIN strategies /\ Len(strategies') = Len(strategies)
           /\ \A s \in DOMAIN strategies : /\ strategies'[s].status = strategies[s].status
                                           /\ strategies'[s].target = strategies[s].target
<1> DEFINE row == [strategies[task.strategy] EXCEPT !.attempt = "running"]
<1>1. /\ UNCHANGED <<now, eligible, status, started, outcome, replanCount, ops, evidence,
                     approvals, placed, task>>
      /\ task.at = "launch" /\ task.strategy \in DOMAIN strategies
      /\ strategies' = [strategies EXCEPT ![task.strategy] = row]
  BY DEF StartAttempt, missionVars, At, TypeInv, TaskRefs
<1>2. /\ strategies \in Seq(StrategyType) /\ DOMAIN strategies = 1..Len(strategies)
      /\ \A s \in DOMAIN strategies : strategies[s] \in StrategyType
  BY RowDomains DEF TypeInv, TypeOK
<1>3. /\ row \in StrategyType /\ row.status = strategies[task.strategy].status
      /\ row.target = strategies[task.strategy].target
  BY <1>1, <1>2 DEF StrategyType
<1> HIDE DEF row
<1>4. /\ strategies' \in Seq(StrategyType)
      /\ DOMAIN strategies' = DOMAIN strategies /\ Len(strategies') = Len(strategies)
  BY <1>1, <1>2, <1>3, UpdateSeq
<1>5. \A s \in DOMAIN strategies : strategies'[s] = IF s = task.strategy THEN row ELSE strategies[s]
  BY <1>1
<1> QED BY <1>1, <1>3, <1>4, <1>5

LEMMA TypeAttempt == TypeInv /\ StartAttempt => TypeInv'
<1> SUFFICES ASSUME TypeInv, StartAttempt PROVE TypeInv'
  OBVIOUS
<1>1. /\ UNCHANGED <<now, eligible, status, started, outcome, replanCount, ops, evidence,
                     approvals, placed, task>>
      /\ task.at = "launch" /\ task.strategy \in DOMAIN strategies
      /\ strategies' \in Seq(StrategyType)
      /\ DOMAIN strategies' = DOMAIN strategies /\ Len(strategies') = Len(strategies)
  BY AttemptStarts
<1>2. TaskRefs'
  BY <1>1 DEF TypeInv, TaskRefs, At
<1> QED BY <1>1, <1>2, StrategiesKept DEF TypeInv, TypeOK

\* The handler launches an operation: the new row names an existing strategy.
LEMMA TypeLaunch == TypeInv /\ LaunchOperation => TypeInv'
<1> SUFFICES ASSUME TypeInv, LaunchOperation PROVE TypeInv'
  OBVIOUS
<1>1. /\ Len(strategies) \in Nat /\ Len(ops) \in Nat
      /\ DOMAIN strategies = 1..Len(strategies) /\ DOMAIN ops = 1..Len(ops)
  BY RowDomains DEF TypeInv
<1>2. task.strategy \in DOMAIN strategies /\ task.at = "launch" /\ task \in TaskType
  BY DEF LaunchOperation, TypeInv, TaskRefs, At, TypeOK
<1>3. /\ status' \in MissionStatus /\ started' \in BOOLEAN /\ now' \in 0..MaxTime
      /\ outcome' \in {"none"} \cup Terminal /\ replanCount' \in Nat
  BY DEF LaunchOperation, MissionStatus, TypeInv, TypeOK
<1>4. CASE CheckOperationBudget
  <2> DEFINE op == NewOperation(task.strategy, task.facts, task.purpose, task.attempt)
  <2>1. op \in OpType /\ op.strategy = task.strategy
    BY <1>2 DEF NewOperation, OpType, TaskType, Asked
  <2>2. /\ ops' = Append(ops, op) /\ ops' \in Seq(OpType) /\ Len(ops') = Len(ops) + 1
        /\ DOMAIN ops' = 1..(Len(ops) + 1)
        /\ \A o \in 1..Len(ops) : ops'[o] = ops[o]
        /\ ops'[Len(ops) + 1] = op
    <3> HIDE DEF op
    <3>1. ops' = Append(ops, op)
      BY <1>4 DEF LaunchOperation, op
    <3>2. ops \in Seq(OpType)
      BY DEF TypeInv, TypeOK
    <3>3. ops' \in Seq(OpType) /\ Len(ops') = Len(ops) + 1
      BY <2>1, <3>1, <3>2, AppendProperties
    <3> QED BY <2>1, <3>1, <3>2, <3>3, AppendProperties, LenProperties
  <2>3. strategies' = strategies
    BY DEF LaunchOperation
  <2>4. \A o \in DOMAIN ops' : ops'[o].strategy \in DOMAIN strategies'
    BY <1>1, <1>2, <2>1, <2>2, <2>3 DEF TypeInv, TypeOK
  <2>5. /\ task' \in TaskType /\ task'.at = "dispatch" /\ task'.strategy = task.strategy
        /\ task'.op = Len(ops) + 1
    <3>1. task.strategy \in Nat /\ Len(ops) + 1 \in Nat /\ "dispatch" \in Steps
      BY <1>1, <1>2 DEF Steps
    <3> QED BY <1>4, <3>1, TaskTypes, TaskFields DEF LaunchOperation
  <2>6. TaskRefs'
    BY <1>2, <2>2, <2>3, <2>5 DEF TaskRefs, At
  <2>7. UNCHANGED <<now, eligible, evidence, approvals, placed>>
    BY <1>4 DEF LaunchOperation
  <2>8. DOMAIN ops \subseteq DOMAIN ops'
    BY <1>1, <2>2
  <2>9. task'.strategy \in 0..Len(strategies') /\ task'.op \in 0..Len(ops')
    BY <1>1, <1>2, <2>2, <2>3, <2>5
  <2>10. /\ eligible' \subseteq Candidates /\ evidence' \subseteq EvidenceType
         /\ approvals' \in Seq(ApprovalType) /\ placed' \subseteq DOMAIN ops'
         /\ \A a \in DOMAIN approvals' : approvals'[a].strategy \in DOMAIN strategies'
         /\ \A e \in evidence' : e.op \in DOMAIN ops'
    BY <2>3, <2>7, <2>8 DEF TypeInv, TypeOK
  <2> QED BY <1>3, <2>2, <2>3, <2>4, <2>5, <2>6, <2>9, <2>10 DEF TypeInv, TypeOK
<1>5. CASE ~CheckOperationBudget
  <2>1. /\ task' \in TaskType /\ task'.at = "escalate" /\ task'.strategy = 0 /\ task'.op = 0
        /\ UNCHANGED rowVars /\ UNCHANGED placed /\ UNCHANGED eligible
    BY <1>5, TaskTypes, TaskFields DEF LaunchOperation, Steps, rowVars
  <2>2. TaskRefs'
    BY <2>1 DEF TaskRefs, At
  <2> QED BY <1>1, <1>3, <2>1, <2>2, RowsKept
<1> QED BY <1>4, <1>5

\* Changing one operation, but not its strategy, keeps its row and all others.
LEMMA CallRow ==
    ASSUME TypeInv, NEW o \in DOMAIN ops, NEW row \in OpType, row.strategy = ops[o].strategy,
           ops' = [ops EXCEPT ![o] = row]
    PROVE  /\ ops' \in Seq(OpType) /\ DOMAIN ops' = DOMAIN ops /\ Len(ops') = Len(ops)
           /\ ops'[o] = row /\ \A p \in DOMAIN ops : p # o => ops'[p] = ops[p]
           /\ \A p \in DOMAIN ops' : ops'[p].strategy = ops[p].strategy
<1>1. ops \in Seq(OpType)
  BY DEF TypeInv, TypeOK
<1>2. ops' \in Seq(OpType) /\ DOMAIN ops' = DOMAIN ops /\ Len(ops') = Len(ops)
  BY <1>1, UpdateSeq
<1>3. ops'[o] = row /\ \A p \in DOMAIN ops : p # o => ops'[p] = ops[p]
  BY <1>1, LenProperties
<1> QED BY <1>2, <1>3

\* A step that changes one operation and possibly what was dialled.
LEMMA CallsKept ==
    ASSUME TypeInv, UNCHANGED <<now, eligible, strategies, evidence, approvals>>,
           status' \in MissionStatus, UNCHANGED <<started, outcome, replanCount>>,
           ops' \in Seq(OpType), DOMAIN ops' = DOMAIN ops, Len(ops') = Len(ops),
           \A p \in DOMAIN ops' : ops'[p].strategy = ops[p].strategy,
           placed' \subseteq DOMAIN ops,
           task' \in TaskType, task'.strategy \in 0..Len(strategies), task'.op \in 0..Len(ops),
           TaskRefs'
    PROVE  TypeInv'
<1>1. /\ now' \in 0..MaxTime /\ eligible' \subseteq Candidates
      /\ started' \in BOOLEAN /\ outcome' \in {"none"} \cup Terminal /\ replanCount' \in Nat
      /\ strategies' \in Seq(StrategyType) /\ approvals' \in Seq(ApprovalType)
      /\ evidence' \subseteq EvidenceType
      /\ \A a \in DOMAIN approvals' : approvals'[a].strategy \in DOMAIN strategies'
  BY DEF TypeInv, TypeOK
<1>2. \A o \in DOMAIN ops' : ops'[o].strategy \in DOMAIN strategies'
  BY DEF TypeInv, TypeOK
<1>3. \A e \in evidence' : e.op \in DOMAIN ops'
  BY DEF TypeInv, TypeOK
<1> QED BY <1>1, <1>2, <1>3 DEF TypeInv, TypeOK

\* The handler's locals while it works on a call.
LEMMA CallRefs ==
    ASSUME TypeInv,
           task.at \in {"dispatch", "dispatched", "ingest", "extract", "evaluate", "failed"}
    PROVE  /\ task \in TaskType /\ task.op \in DOMAIN ops /\ task.op \in 0..Len(ops)
           /\ task.strategy \in DOMAIN strategies /\ task.strategy \in 0..Len(strategies)
           /\ task.op \in Nat /\ task.strategy \in Nat
           /\ ops[task.op] \in OpType /\ strategies[task.strategy] \in StrategyType
<1>1. /\ task \in TaskType /\ task.strategy \in 0..Len(strategies) /\ task.op \in 0..Len(ops)
  BY DEF TypeInv, TypeOK
<1>2. task.op \in DOMAIN ops /\ task.strategy \in DOMAIN strategies
  BY DEF TypeInv, TaskRefs
<1> QED BY <1>1, <1>2, RowDomains DEF TypeInv

LEMMA TypeDispatch ==
    TypeInv /\ (DispatchAccepted \/ DispatchRejected \/ DispatchFailed \/ CallStarted) => TypeInv'
<1> SUFFICES ASSUME TypeInv, DispatchAccepted \/ DispatchRejected \/ DispatchFailed \/ CallStarted
             PROVE  TypeInv'
  OBVIOUS
<1> DEFINE row == ops[task.op]
<1>1. Len(strategies) \in Nat /\ Len(ops) \in Nat
  BY RowDomains DEF TypeInv
<1>2. /\ task \in TaskType /\ task.op \in DOMAIN ops /\ task.op \in 0..Len(ops)
      /\ task.strategy \in DOMAIN strategies /\ task.strategy \in 0..Len(strategies)
      /\ task.op \in Nat /\ task.strategy \in Nat /\ row \in OpType
  BY CallRefs DEF DispatchAccepted, DispatchRejected, DispatchFailed, CallStarted, At
<1>3. status \in MissionStatus /\ placed \subseteq DOMAIN ops
  BY DEF TypeInv, TypeOK
<1>4. CASE DispatchAccepted
  <2>1. /\ task' \in TaskType /\ task'.at = "dispatched"
        /\ task'.strategy = task.strategy /\ task'.op = task.op
    BY <1>2, <1>4 DEF DispatchAccepted, TaskType, Steps
  <2>2. placed' \subseteq DOMAIN ops
    BY <1>2, <1>3, <1>4 DEF DispatchAccepted
  <2>3. /\ UNCHANGED <<now, eligible, strategies, evidence, approvals>>
        /\ UNCHANGED <<started, outcome, replanCount>> /\ status' = status /\ ops' = ops
    BY <1>4 DEF DispatchAccepted, missionVars, rowVars
  <2>4. TaskRefs'
    BY <1>2, <2>1, <2>3 DEF TaskRefs, At
  <2>5. ops' \in Seq(OpType)
    BY <2>3 DEF TypeInv, TypeOK
  <2> QED BY <1>2, <1>3, <2>1, <2>2, <2>3, <2>4, <2>5, CallsKept
<1>5. CASE DispatchRejected
  <2> DEFINE new == [row EXCEPT !.status = "failed"]
  <2>1. new \in OpType /\ new.strategy = row.strategy
    BY <1>2 DEF OpType
  <2>2. ops' = [ops EXCEPT ![task.op] = new]
    BY <1>5 DEF DispatchRejected
  <2>3. /\ task' \in TaskType /\ task'.at = "escalate" /\ task'.strategy = 0 /\ task'.op = 0
    BY <1>5, TaskTypes, TaskFields DEF DispatchRejected, Steps
  <2>4. TaskRefs'
    BY <2>3 DEF TaskRefs, At
  <2>5. /\ UNCHANGED <<now, eligible, strategies, evidence, approvals>>
        /\ UNCHANGED <<started, outcome, replanCount>> /\ status' = status /\ placed' = placed
    BY <1>5 DEF DispatchRejected, missionVars
  <2> HIDE DEF new
  <2>6. /\ ops' \in Seq(OpType) /\ DOMAIN ops' = DOMAIN ops /\ Len(ops') = Len(ops)
        /\ \A p \in DOMAIN ops' : ops'[p].strategy = ops[p].strategy
    BY <1>2, <2>1, <2>2, CallRow
  <2> QED BY <1>1, <1>2, <1>3, <2>3, <2>4, <2>5, <2>6, CallsKept
<1>6. CASE DispatchFailed
  <2> PICK cause \in {"line", "number"}, dialled \in BOOLEAN :
        /\ ops' = [ops EXCEPT ![task.op].status = "failed", ![task.op].cause = cause]
        /\ placed' = IF dialled THEN placed \cup {task.op} ELSE placed
        /\ task' = [Go("failed", task.strategy, task.op) EXCEPT !.permanent = (cause = "number")]
    BY <1>6 DEF DispatchFailed
  <2> DEFINE new == [row EXCEPT !.status = "failed", !.cause = cause]
  <2>1. new \in OpType /\ new.strategy = row.strategy
    BY <1>2 DEF OpType
  <2>2. ops' = [ops EXCEPT ![task.op] = new]
    OBVIOUS
  <2>3. /\ task' \in TaskType /\ task'.at = "failed"
        /\ task'.strategy = task.strategy /\ task'.op = task.op
    BY <1>2 DEF Go, Idle, TaskType, Steps, Purposes
  <2>4. placed' \subseteq DOMAIN ops
    BY <1>2, <1>3
  <2>5. /\ UNCHANGED <<now, eligible, strategies, evidence, approvals>>
        /\ UNCHANGED <<started, outcome, replanCount>> /\ status' = status
    BY <1>6 DEF DispatchFailed, missionVars
  <2> HIDE DEF new
  <2>6. /\ ops' \in Seq(OpType) /\ DOMAIN ops' = DOMAIN ops /\ Len(ops') = Len(ops)
        /\ \A p \in DOMAIN ops' : ops'[p].strategy = ops[p].strategy
    BY <1>2, <2>1, <2>2, CallRow
  <2>7. TaskRefs'
    BY <1>2, <2>3, <2>5, <2>6 DEF TaskRefs, At
  <2> QED BY <1>2, <1>3, <2>3, <2>4, <2>5, <2>6, <2>7, CallsKept
<1>7. CASE CallStarted
  <2> DEFINE new == [row EXCEPT !.status = "calling", !.recorded = TRUE]
  <2>1. new \in OpType /\ new.strategy = row.strategy
    BY <1>2 DEF OpType
  <2>2. ops' = [ops EXCEPT ![task.op] = new]
    BY <1>7 DEF CallStarted
  <2>3. /\ task' \in TaskType
        /\ \/ task'.at = "idle" /\ task'.strategy = 0 /\ task'.op = 0
           \/ task'.at = "ingest" /\ task'.strategy = task.strategy /\ task'.op = task.op
    BY <1>2, <1>7, TaskTypes, TaskFields DEF CallStarted, TaskType, Steps
  <2>4. /\ UNCHANGED <<now, eligible, strategies, evidence, approvals>>
        /\ UNCHANGED <<started, outcome, replanCount>> /\ status' = status /\ placed' = placed
    BY <1>7 DEF CallStarted, missionVars
  <2> HIDE DEF new
  <2>5. /\ ops' \in Seq(OpType) /\ DOMAIN ops' = DOMAIN ops /\ Len(ops') = Len(ops)
        /\ \A p \in DOMAIN ops' : ops'[p].strategy = ops[p].strategy
    BY <1>2, <2>1, <2>2, CallRow
  <2>6. TaskRefs'
    BY <1>2, <2>3, <2>4, <2>5 DEF TaskRefs, At
  <2> QED BY <1>1, <1>2, <1>3, <2>3, <2>4, <2>5, <2>6, CallsKept
<1> QED BY <1>4, <1>5, <1>6, <1>7

LEMMA TypeIngest == TypeInv /\ IngestCallState => TypeInv'
<1> SUFFICES ASSUME TypeInv, NEW o \in DOMAIN ops,
                    \/ \E reply \in Replies : IngestReply(o, reply)
                    \/ \E cause \in {"line", "number"} : IngestFailure(o, cause)
             PROVE  TypeInv'
  BY DEF IngestCallState
<1>1. /\ Len(strategies) \in Nat /\ Len(ops) \in Nat /\ o \in Nat /\ o \in 0..Len(ops)
      /\ DOMAIN strategies = 1..Len(strategies)
  BY RowDomains DEF TypeInv
<1>2. /\ ops[o] \in OpType /\ ops[o].strategy \in DOMAIN strategies
      /\ ops[o].strategy \in Nat /\ ops[o].strategy \in 0..Len(strategies)
  BY <1>1, RowDomains DEF TypeInv, TypeOK
<1>3. placed \subseteq DOMAIN ops
  BY DEF TypeInv, TypeOK
<1>4. ASSUME NEW reply \in Replies, IngestReply(o, reply) PROVE TypeInv'
  <2> DEFINE new == [ops[o] EXCEPT !.status = "completed"]
  <2>1. new \in OpType /\ new.strategy = ops[o].strategy
    BY <1>2 DEF OpType
  <2>2. ops' = [ops EXCEPT ![o] = new]
    BY <1>4 DEF IngestReply
  <2>3. /\ task' \in TaskType /\ task'.at = "extract"
        /\ task'.strategy = ops[o].strategy /\ task'.op = o
    BY <1>1, <1>2, <1>4 DEF IngestReply, Go, Idle, TaskType, Steps, Purposes
  <2>4. /\ UNCHANGED <<now, eligible, strategies, evidence, approvals>> /\ placed' = placed
        /\ UNCHANGED <<started, outcome, replanCount>> /\ status' \in MissionStatus
    BY <1>4 DEF IngestReply, MissionStatus
  <2> HIDE DEF new
  <2>5. /\ ops' \in Seq(OpType) /\ DOMAIN ops' = DOMAIN ops /\ Len(ops') = Len(ops)
        /\ \A p \in DOMAIN ops' : ops'[p].strategy = ops[p].strategy
    BY <1>2, <2>1, <2>2, CallRow
  <2>6. TaskRefs'
    BY <1>2, <2>3, <2>4, <2>5 DEF TaskRefs, At
  <2> QED BY <1>1, <1>2, <1>3, <2>3, <2>4, <2>5, <2>6, CallsKept
<1>5. ASSUME NEW cause \in {"line", "number"}, IngestFailure(o, cause) PROVE TypeInv'
  <2> DEFINE new == [ops[o] EXCEPT !.status = "failed", !.cause = cause]
  <2>1. new \in OpType /\ new.strategy = ops[o].strategy
    BY <1>2 DEF OpType
  <2>2. ops' = [ops EXCEPT ![o] = new]
    BY <1>5 DEF IngestFailure
  <2>3. /\ task' \in TaskType /\ task'.at = "failed"
        /\ task'.strategy = ops[o].strategy /\ task'.op = o
    BY <1>1, <1>2, <1>5, TaskTypes, TaskFields DEF IngestFailure, Steps
  <2>4. /\ UNCHANGED <<now, eligible, strategies, evidence, approvals>> /\ placed' = placed
        /\ UNCHANGED <<started, outcome, replanCount>> /\ status' \in MissionStatus
    BY <1>5 DEF IngestFailure, MissionStatus
  <2> HIDE DEF new
  <2>5. /\ ops' \in Seq(OpType) /\ DOMAIN ops' = DOMAIN ops /\ Len(ops') = Len(ops)
        /\ \A p \in DOMAIN ops' : ops'[p].strategy = ops[p].strategy
    BY <1>2, <2>1, <2>2, CallRow
  <2>6. TaskRefs'
    BY <1>2, <2>3, <2>4, <2>5 DEF TaskRefs, At
  <2> QED BY <1>1, <1>2, <1>3, <2>3, <2>4, <2>5, <2>6, CallsKept
<1> QED BY <1>4, <1>5

\* A step that changes evidence alone among the rows.
LEMMA EvidenceKept ==
    ASSUME TypeInv, UNCHANGED <<now, eligible, strategies, ops, approvals, placed>>,
           status' \in MissionStatus, UNCHANGED <<started, outcome, replanCount>>,
           evidence' \subseteq EvidenceType, \A e \in evidence' : e.op \in DOMAIN ops,
           task' \in TaskType, task'.strategy \in 0..Len(strategies), task'.op \in 0..Len(ops),
           TaskRefs'
    PROVE  TypeInv'
BY DEF TypeInv, TypeOK

\* Evidence is filed with a type, and under the call that gave it.
LEMMA FiledTypes ==
    ASSUME TypeInv, NEW o \in DOMAIN ops, NEW reply \in Replies \cup {Unsaid},
           NEW n \in NewEvidence(o, reply)
    PROVE  n \in EvidenceType /\ n.op = o
<1>1. o \in Nat /\ now \in Nat /\ ops[o].facts \in SUBSET Asked
  BY RowDomains, Limits DEF TypeInv, TypeOK, OpType
<1>2. TargetOf(o) \in Candidates
  BY RowDomains DEF TargetOf, TypeInv, TypeOK, StrategyType
<1>3. PICK f \in ExtractedFacts(reply, ops[o].facts) :
        n = [op |-> o, subject |-> TargetOf(o), key |-> f.key, val |-> f.val,
             status |-> f.status, at |-> now]
  BY DEF NewEvidence
<1>4. /\ f.key \in Asked /\ f.val \in Nat \cup {NoVal}
      /\ f.status \in {"validated", "uncertain"}
  BY <1>1, <1>3, ExtractedTypes
<1> QED BY <1>1, <1>2, <1>3, <1>4 DEF EvidenceType

LEMMA TypeExtract == TypeInv /\ Extract => TypeInv'
<1> SUFFICES ASSUME TypeInv, Extract PROVE TypeInv'
  OBVIOUS
<1>1. /\ task \in TaskType /\ task.op \in DOMAIN ops /\ task.op \in 0..Len(ops)
      /\ task.strategy \in DOMAIN strategies /\ task.strategy \in 0..Len(strategies)
      /\ task.op \in Nat /\ task.strategy \in Nat
  BY CallRefs DEF Extract, At
<1> DEFINE N == NewEvidence(task.op, task.reply)
<1>2. task.reply \in Replies \cup {Unsaid}
  BY <1>1 DEF TaskType
<1>3. N \in SUBSET EvidenceType /\ \A n \in N : n.op = task.op
  BY <1>1, <1>2, FiledTypes
<1>4. evidence \in SUBSET EvidenceType /\ \A e \in evidence : e.op \in DOMAIN ops
  BY DEF TypeInv, TypeOK
<1>5. evidence' = MarkAgainst(evidence, N) \cup MarkAgainst(N, evidence)
  BY DEF Extract, MarkConflicts
<1> HIDE DEF N
<1>6. evidence' \subseteq EvidenceType /\ \A e \in evidence' : e.op \in DOMAIN ops
  BY <1>1, <1>3, <1>4, <1>5, MarkedTypes
<1>7. /\ task' \in TaskType /\ task'.at = "evaluate"
      /\ task'.strategy = task.strategy /\ task'.op = task.op
  <2>1. task' = Go("evaluate", task.strategy, task.op)
    BY DEF Extract
  <2>2. "evaluate" \in Steps
    BY DEF Steps
  <2> QED BY <1>1, <2>1, <2>2, TaskTypes, TaskFields
<1>8. /\ UNCHANGED <<now, eligible, strategies, ops, approvals, placed>>
      /\ UNCHANGED <<started, outcome, replanCount>> /\ status' \in MissionStatus
  BY DEF Extract, missionVars, TypeInv, TypeOK
<1>9. TaskRefs'
  BY <1>1, <1>7, <1>8 DEF TaskRefs, At
<1> QED BY <1>1, <1>6, <1>7, <1>8, <1>9, EvidenceKept

\* What the decision engine makes the Director do next.
LEMMA VerdictTypes ==
    ASSUME TypeInv, At("evaluate"), NEW E, NEW t, NEW v \in Verdict(E, t)
    PROVE  /\ v \in TaskType /\ v.at \in {"idle", "launch", "invalidate", "confirm"}
           /\ v.strategy \in {0, task.strategy} /\ v.op \in {0, task.op}
           /\ v.at # "idle" => v.strategy = task.strategy
<1>1. task.op \in Nat /\ task.strategy \in Nat /\ strategies[task.strategy] \in StrategyType
  BY CallRefs DEF At
<1>2. Mandatory \subseteq Asked
  BY LoopAssumption DEF LoopAssumption, Asked
<1>3. \/ v = Go("invalidate", task.strategy, task.op)
      \/ v = Go("confirm", task.strategy, task.op)
      \/ v = Idle
      \/ \E facts \in SUBSET Asked : v = Launching(task.strategy, facts, "clarification", 1)
  <2>1. strategies[task.strategy].needs \in SUBSET Asked
    BY <1>1 DEF StrategyType, Asked
  <2>2. \A k \in Uncertain(E, t) \cap Mandatory : {k} \in SUBSET Asked
    BY <1>2
  <2> QED BY <2>1, <2>2 DEF Verdict
<1>4. CASE v = Go("invalidate", task.strategy, task.op)
  BY <1>1, <1>4, TaskTypes, TaskFields DEF Steps
<1>5. CASE v = Go("confirm", task.strategy, task.op)
  BY <1>1, <1>5, TaskTypes, TaskFields DEF Steps
<1>6. CASE v = Idle
  BY <1>6, TaskTypes, TaskFields
<1>7. ASSUME NEW facts \in SUBSET Asked, v = Launching(task.strategy, facts, "clarification", 1)
      PROVE  /\ v \in TaskType /\ v.at = "launch" /\ v.strategy = task.strategy /\ v.op = 0
  BY <1>1, <1>7, TaskTypes, TaskFields DEF Purposes
<1> QED BY <1>3, <1>4, <1>5, <1>6, <1>7

LEMMA TypeEvaluate == TypeInv /\ EvaluateAndDecide => TypeInv'
<1> SUFFICES ASSUME TypeInv, EvaluateAndDecide PROVE TypeInv'
  OBVIOUS
<1>1. /\ Len(strategies) \in Nat /\ Len(ops) \in Nat
      /\ task.op \in 0..Len(ops) /\ task.strategy \in 0..Len(strategies)
      /\ task.strategy \in DOMAIN strategies
  BY CallRefs, RowDomains DEF EvaluateAndDecide, At, TypeInv
<1>2. evidence \in SUBSET EvidenceType /\ \A e \in evidence : e.op \in DOMAIN ops
  BY DEF TypeInv, TypeOK
<1>3. evidence' = Refreshed(evidence, TargetOf(task.op))
  BY DEF EvaluateAndDecide
<1>4. evidence' \subseteq EvidenceType /\ \A e \in evidence' : e.op \in DOMAIN ops
  BY <1>2, <1>3, RefreshedTypes
<1>5. task' \in Verdict(Refreshed(evidence, TargetOf(task.op)), TargetOf(task.op)) /\ At("evaluate")
  BY DEF EvaluateAndDecide
<1>6. /\ task' \in TaskType /\ task'.at \in {"idle", "launch", "invalidate", "confirm"}
      /\ task'.strategy \in {0, task.strategy} /\ task'.op \in {0, task.op}
      /\ task'.at # "idle" => task'.strategy = task.strategy
  BY <1>5, VerdictTypes
<1>7. /\ UNCHANGED <<now, eligible, strategies, ops, approvals, placed>>
      /\ UNCHANGED <<started, outcome, replanCount>> /\ status' \in MissionStatus
  BY DEF EvaluateAndDecide, MissionStatus
<1>8. TaskRefs'
  BY <1>1, <1>6, <1>7 DEF TaskRefs, At
<1>9. task'.strategy \in 0..Len(strategies) /\ task'.op \in 0..Len(ops)
  BY <1>1, <1>6
<1> QED BY <1>4, <1>6, <1>7, <1>8, <1>9, EvidenceKept

LEMMA TypeFailure == TypeInv /\ HandleCallFailure => TypeInv'
<1> SUFFICES ASSUME TypeInv, HandleCallFailure PROVE TypeInv'
  OBVIOUS
<1> DEFINE op == ops[task.op]
<1>1. /\ op \in OpType /\ task.op \in Nat /\ task.strategy \in Nat
      /\ task.op \in 0..Len(ops) /\ task.strategy \in 0..Len(strategies)
      /\ task.strategy \in DOMAIN strategies
  BY CallRefs DEF HandleCallFailure, At
<1>2. Len(ops) \in Nat
  BY RowDomains DEF TypeInv
<1>3. op.facts \in SUBSET Asked /\ op.attempt + 1 \in Nat
  BY <1>1 DEF OpType
<1>4. \/ task' = Launching(task.strategy, op.facts, "retry", op.attempt + 1)
      \/ task' = Go("invalidate", task.strategy, task.op)
  BY DEF HandleCallFailure
<1>5. /\ task' \in TaskType /\ task'.strategy = task.strategy /\ task'.op \in {0, task.op}
      /\ task'.at \in {"launch", "invalidate"}
  <2>1. "invalidate" \in Steps /\ "retry" \in Purposes
    BY DEF Steps, Purposes
  <2>2. CASE task' = Launching(task.strategy, op.facts, "retry", op.attempt + 1)
    BY <1>1, <1>3, <2>1, <2>2, TaskTypes, TaskFields
  <2>3. CASE task' = Go("invalidate", task.strategy, task.op)
    BY <1>1, <2>1, <2>3, TaskTypes, TaskFields
  <2> QED BY <1>4, <2>2, <2>3
<1>6. /\ UNCHANGED <<now, eligible, missionVars>> /\ UNCHANGED rowVars /\ UNCHANGED placed
  BY DEF HandleCallFailure
<1>7. /\ now' \in 0..MaxTime /\ status' \in MissionStatus /\ started' \in BOOLEAN
      /\ outcome' \in {"none"} \cup Terminal /\ replanCount' \in Nat
  BY <1>6 DEF missionVars, TypeInv, TypeOK
<1>8. TaskRefs'
  BY <1>1, <1>5, <1>6 DEF TaskRefs, At, rowVars
<1>9. task'.op \in 0..Len(ops)
  BY <1>1, <1>2, <1>5
<1> QED BY <1>1, <1>5, <1>6, <1>7, <1>8, <1>9, RowsKept

\* Changing one strategy's status keeps the sequence of strategies.
LEMMA StatusRow ==
    ASSUME NEW seq \in Seq(StrategyType), NEW s,
           NEW st \in {"active", "invalidated", "successful"}
    PROVE  /\ [seq EXCEPT ![s].status = st] \in Seq(StrategyType)
           /\ DOMAIN [seq EXCEPT ![s].status = st] = DOMAIN seq
           /\ Len([seq EXCEPT ![s].status = st]) = Len(seq)
<1> DEFINE new == [seq[s] EXCEPT !.status = st]
<1>1. s \in DOMAIN seq => seq[s] \in StrategyType
  BY LenProperties, ElementOfSeq
<1>2. s \in DOMAIN seq => new \in StrategyType
  BY <1>1 DEF StrategyType
<1>3. [seq EXCEPT ![s].status = st] = [seq EXCEPT ![s] = new]
  OBVIOUS
<1> HIDE DEF new
<1>4. /\ [seq EXCEPT ![s] = new] \in Seq(StrategyType)
      /\ DOMAIN [seq EXCEPT ![s] = new] = DOMAIN seq
      /\ Len([seq EXCEPT ![s] = new]) = Len(seq)
  BY <1>2, UpdateSeq
<1> QED BY <1>3, <1>4

\* So does changing the status of its attempt.
LEMMA AttemptRow ==
    ASSUME NEW seq \in Seq(StrategyType), NEW s,
           NEW st \in {"none", "running", "invalidated", "succeeded"}
    PROVE  /\ [seq EXCEPT ![s].attempt = st] \in Seq(StrategyType)
           /\ DOMAIN [seq EXCEPT ![s].attempt = st] = DOMAIN seq
           /\ Len([seq EXCEPT ![s].attempt = st]) = Len(seq)
<1> DEFINE new == [seq[s] EXCEPT !.attempt = st]
<1>1. s \in DOMAIN seq => seq[s] \in StrategyType
  BY LenProperties, ElementOfSeq
<1>2. s \in DOMAIN seq => new \in StrategyType
  BY <1>1 DEF StrategyType
<1>3. [seq EXCEPT ![s].attempt = st] = [seq EXCEPT ![s] = new]
  OBVIOUS
<1> HIDE DEF new
<1>4. /\ [seq EXCEPT ![s] = new] \in Seq(StrategyType)
      /\ DOMAIN [seq EXCEPT ![s] = new] = DOMAIN seq
      /\ Len([seq EXCEPT ![s] = new]) = Len(seq)
  BY <1>2, UpdateSeq
<1> QED BY <1>3, <1>4

LEMMA TypeInvalidate == TypeInv /\ Invalidate => TypeInv'
<1> SUFFICES ASSUME TypeInv, Invalidate PROVE TypeInv'
  OBVIOUS
<1> DEFINE first == [strategies EXCEPT ![task.strategy].status = "invalidated"]
<1>1. strategies \in Seq(StrategyType) /\ task \in TaskType
  BY DEF TypeInv, TypeOK
<1>2. first \in Seq(StrategyType) /\ DOMAIN first = DOMAIN strategies /\ Len(first) = Len(strategies)
  BY <1>1, StatusRow
<1>3. strategies' = [first EXCEPT ![ops[task.op].strategy].attempt = "invalidated"]
  BY DEF Invalidate
<1>4. /\ strategies' \in Seq(StrategyType) /\ DOMAIN strategies' = DOMAIN strategies
      /\ Len(strategies') = Len(strategies)
  <2> HIDE DEF first
  <2> QED BY <1>2, <1>3, AttemptRow
<1>5. /\ task.strategy \in Nat /\ task.op \in Nat /\ task.strategy \in DOMAIN strategies
      /\ task.strategy \in 0..Len(strategies) /\ task.op \in 0..Len(ops)
  BY <1>1 DEF Invalidate, TypeInv, TypeOK, TaskRefs, At, TaskType
<1>6. /\ task' \in TaskType /\ task'.at = "replan"
      /\ task'.strategy = task.strategy /\ task'.op = task.op
  <2>1. task' = Go("replan", task.strategy, task.op)
    BY DEF Invalidate
  <2>2. "replan" \in Steps
    BY DEF Steps
  <2> QED BY <1>5, <2>1, <2>2, TaskTypes, TaskFields
<1>7. UNCHANGED <<now, eligible, missionVars, ops, evidence, approvals, placed>>
  BY DEF Invalidate
<1>8. /\ status' \in MissionStatus /\ started' \in BOOLEAN
      /\ outcome' \in {"none"} \cup Terminal /\ replanCount' \in Nat
  BY <1>7 DEF missionVars, TypeInv, TypeOK
<1>9. TaskRefs'
  BY <1>4, <1>5, <1>6 DEF TaskRefs, At
<1> QED BY <1>4, <1>5, <1>6, <1>7, <1>8, <1>9, StrategiesKept

LEMMA TypeReplan == TypeInv /\ Replan => TypeInv'
<1> SUFFICES ASSUME TypeInv, Replan PROVE TypeInv'
  OBVIOUS
<1>1. /\ task \in TaskType /\ Len(ops) \in Nat /\ Len(strategies) \in Nat
      /\ task.strategy \in 0..Len(strategies) /\ task.op \in 0..Len(ops)
      /\ task.strategy \in DOMAIN strategies
  BY RowDomains DEF Replan, TypeInv, TypeOK, TaskRefs, At
<1>2. /\ task' \in TaskType
      /\ \/ task'.at = "propose" /\ task'.strategy = task.strategy /\ task'.op = task.op
         \/ task'.at = "escalate" /\ task'.strategy = 0 /\ task'.op = 0
  <2>1. \/ task' = [task EXCEPT !.at = "propose"]
        \/ task' = Go("escalate", 0, 0)
    BY DEF Replan
  <2>2. CASE task' = [task EXCEPT !.at = "propose"]
    BY <1>1, <2>2 DEF TaskType, Steps
  <2>3. CASE task' = Go("escalate", 0, 0)
    BY <2>3, TaskTypes, TaskFields DEF Steps
  <2> QED BY <2>1, <2>2, <2>3
<1>3. /\ now' \in 0..MaxTime /\ status' \in MissionStatus /\ started' \in BOOLEAN
      /\ outcome' \in {"none"} \cup Terminal /\ replanCount' \in Nat
      /\ UNCHANGED rowVars /\ UNCHANGED placed /\ UNCHANGED eligible
  BY DEF Replan, MissionStatus, TypeInv, TypeOK
<1>4. TaskRefs'
  BY <1>1, <1>2, <1>3 DEF TaskRefs, At, rowVars
<1>5. task'.strategy \in 0..Len(strategies) /\ task'.op \in 0..Len(ops)
  BY <1>1, <1>2
<1> QED BY <1>2, <1>3, <1>4, <1>5, RowsKept

LEMMA TypePropose == TypeInv /\ Propose => TypeInv'
<1> SUFFICES ASSUME TypeInv, Propose PROVE TypeInv'
  OBVIOUS
<1>1. /\ Len(strategies) \in Nat /\ Len(ops) \in Nat /\ strategies \in Seq(StrategyType)
      /\ DOMAIN strategies = 1..Len(strategies)
  BY RowDomains DEF TypeInv, TypeOK
<1>2. /\ now' \in 0..MaxTime /\ status' \in MissionStatus /\ started' \in BOOLEAN
      /\ outcome' \in {"none"} \cup Terminal
      /\ UNCHANGED <<now, eligible, ops, evidence, approvals, placed>>
  BY DEF Propose, TypeInv, TypeOK
<1>3. replanCount \in Nat
  BY DEF TypeInv, TypeOK
<1>4. CASE task' = Go("escalate", 0, 0) /\ UNCHANGED <<replanCount, strategies>>
  <2>1. task' \in TaskType /\ task'.at = "escalate" /\ task'.strategy = 0 /\ task'.op = 0
    BY <1>4, TaskTypes, TaskFields DEF Steps
  <2>2. TaskRefs'
    BY <2>1 DEF TaskRefs, At
  <2> QED BY <1>1, <1>2, <1>3, <1>4, <2>1, <2>2, RowsKept DEF rowVars
<1>5. ASSUME NEW c \in Proposals, NEW needs \in NeedSets,
             replanCount' = replanCount + 1,
             strategies' = Append(strategies, NewStrategy(c, needs)),
             task' = Launching(Len(strategies) + 1, needs, "verify", 1)
      PROVE  TypeInv'
  <2>1. NewStrategy(c, needs) \in StrategyType
    BY PlanTypes
  <2>2. strategies' \in Seq(StrategyType) /\ Len(strategies') = Len(strategies) + 1
    BY <1>1, <1>5, <2>1, AppendProperties
  <2>3. DOMAIN strategies' = 1..(Len(strategies) + 1)
    BY <2>2, LenProperties
  <2>4. /\ task' \in TaskType /\ task'.strategy = Len(strategies) + 1 /\ task'.op = 0
        /\ task'.at = "launch"
    BY <1>1, <1>5, PlanTypes, TaskFields
  <2>5. TaskRefs'
    BY <1>1, <2>3, <2>4 DEF TaskRefs, At
  <2>6. /\ DOMAIN strategies \subseteq DOMAIN strategies' /\ replanCount' \in Nat
        /\ task'.strategy \in 0..Len(strategies') /\ task'.op \in 0..Len(ops)
    BY <1>1, <1>3, <1>5, <2>2, <2>3, <2>4
  <2> QED BY <1>2, <2>2, <2>4, <2>5, <2>6, StrategiesKept
<1> QED BY <1>4, <1>5 DEF Propose

LEMMA TypeEnding == TypeInv /\ (ConfirmRecovery \/ FinaliseRecovery \/ Escalate) => TypeInv'
<1> SUFFICES ASSUME TypeInv, ConfirmRecovery \/ FinaliseRecovery \/ Escalate PROVE TypeInv'
  OBVIOUS
<1>1. /\ task \in TaskType /\ Len(ops) \in Nat /\ Len(strategies) \in Nat
      /\ task.strategy \in 0..Len(strategies) /\ task.op \in 0..Len(ops)
      /\ strategies \in Seq(StrategyType) /\ approvals \in Seq(ApprovalType)
  BY RowDomains DEF TypeInv, TypeOK
<1>2. Idle \in TaskType /\ Idle.at = "idle" /\ Idle.strategy = 0 /\ Idle.op = 0
  BY TaskTypes, TaskFields
<1>3. /\ now \in 0..MaxTime /\ started \in BOOLEAN /\ replanCount \in Nat
      /\ status \in MissionStatus /\ outcome \in {"none"} \cup Terminal
  BY DEF TypeInv, TypeOK
<1>4. CASE ConfirmRecovery
  <2>1. task.strategy \in DOMAIN strategies /\ task.strategy \in Nat
    BY <1>1, <1>4 DEF ConfirmRecovery, TypeInv, TaskRefs, At
  <2>2. CASE AboveCostLimit(evidence, strategies[task.strategy].target)
    <3> DEFINE new == [strategy |-> task.strategy, status |-> "pending"]
    <3>1. /\ approvals' = Append(approvals, new) /\ status' = "approval_required" /\ task' = Idle
          /\ UNCHANGED <<now, eligible, started, outcome, replanCount, strategies, ops,
                         evidence, placed>>
      BY <1>4, <2>2 DEF ConfirmRecovery
    <3>2. new \in ApprovalType /\ new.strategy \in DOMAIN strategies
      BY <2>1 DEF ApprovalType
    <3> HIDE DEF new
    <3>3. approvals' \in Seq(ApprovalType)
      BY <1>1, <3>1, <3>2, AppendProperties
    <3>4. \A a \in DOMAIN approvals' : approvals'[a].strategy \in DOMAIN strategies'
      <4>1. DOMAIN approvals' = 1..(Len(approvals) + 1) /\ DOMAIN approvals = 1..Len(approvals)
        BY <1>1, <3>1, <3>2, <3>3, AppendProperties, LenProperties
      <4>2. /\ \A a \in 1..Len(approvals) : approvals'[a] = approvals[a]
            /\ approvals'[Len(approvals) + 1] = new
        BY <1>1, <3>1, <3>2, AppendProperties
      <4>3. \A a \in DOMAIN approvals : approvals[a].strategy \in DOMAIN strategies
        BY DEF TypeInv, TypeOK
      <4>4. Len(approvals) \in Nat
        BY <1>1, LenProperties
      <4> QED BY <3>1, <3>2, <4>1, <4>2, <4>3, <4>4
    <3>5. TaskRefs'
      BY <1>2, <3>1 DEF TaskRefs, At
    <3>6. status' \in MissionStatus /\ task'.strategy \in 0..Len(strategies') /\ task'.op \in 0..Len(ops')
      BY <1>1, <1>2, <3>1 DEF MissionStatus
    <3> QED BY <1>2, <1>3, <3>1, <3>3, <3>4, <3>5, <3>6 DEF TypeInv, TypeOK
  <2>3. CASE ~AboveCostLimit(evidence, strategies[task.strategy].target)
    <3>1. /\ task' \in TaskType /\ task'.at = "finalise"
          /\ task'.strategy = task.strategy /\ task'.op = task.op
      BY <1>1, <1>4, <2>3 DEF ConfirmRecovery, TaskType, Steps
    <3>2. /\ UNCHANGED rowVars /\ UNCHANGED missionVars
          /\ UNCHANGED <<now, eligible, placed>>
      BY <1>4, <2>3 DEF ConfirmRecovery, rowVars, missionVars
    <3>3. TaskRefs'
      BY <2>1, <3>1, <3>2 DEF TaskRefs, At, rowVars
    <3> QED BY <1>1, <1>3, <3>1, <3>2, <3>3, RowsKept DEF missionVars
  <2> QED BY <2>2, <2>3
<1>5. CASE FinaliseRecovery
  <2> DEFINE first == [strategies EXCEPT ![task.strategy].status = "successful"]
  <2>1. first \in Seq(StrategyType) /\ DOMAIN first = DOMAIN strategies /\ Len(first) = Len(strategies)
    BY <1>1, StatusRow
  <2>2. strategies' = [first EXCEPT ![task.strategy].attempt = "succeeded"] \/ strategies' = strategies
    BY <1>5 DEF FinaliseRecovery
  <2>3. /\ strategies' \in Seq(StrategyType) /\ DOMAIN strategies' = DOMAIN strategies
        /\ Len(strategies') = Len(strategies)
    <3> HIDE DEF first
    <3>1. CASE strategies' = [first EXCEPT ![task.strategy].attempt = "succeeded"]
      BY <2>1, <3>1, AttemptRow
    <3>2. CASE strategies' = strategies
      BY <1>1, <3>2
    <3> QED BY <2>2, <3>1, <3>2
  <2>4. task' = Idle /\ UNCHANGED <<now, eligible, started, replanCount, ops, evidence, approvals, placed>>
    BY <1>5 DEF FinaliseRecovery
  <2>5. status' \in MissionStatus /\ outcome' \in {"none"} \cup Terminal
    BY <1>3, <1>5 DEF FinaliseRecovery, MissionStatus, Terminal
  <2>6. TaskRefs'
    BY <1>2, <2>4 DEF TaskRefs, At
  <2>7. task'.strategy \in 0..Len(strategies') /\ task'.op \in 0..Len(ops)
    BY <1>1, <1>2, <2>3, <2>4
  <2> QED BY <1>2, <1>3, <2>3, <2>4, <2>5, <2>6, <2>7, StrategiesKept
<1>6. CASE Escalate
  <2>1. task' = Idle /\ UNCHANGED rowVars /\ UNCHANGED <<now, eligible, started, replanCount, placed>>
    BY <1>6 DEF Escalate
  <2>2. status' \in MissionStatus /\ outcome' \in {"none"} \cup Terminal
    BY <1>3, <1>6 DEF Escalate, SetEscalated, MissionStatus, Terminal
  <2>3. TaskRefs'
    BY <1>2, <2>1 DEF TaskRefs, At
  <2>4. task'.strategy \in 0..Len(strategies) /\ task'.op \in 0..Len(ops)
    BY <1>1, <1>2, <2>1
  <2> QED BY <1>2, <1>3, <2>1, <2>2, <2>3, <2>4, RowsKept
<1> QED BY <1>4, <1>5, <1>6

LEMMA TypeHuman == TypeInv /\ (EscalateManually \/ ResolveApprovals) => TypeInv'
<1> SUFFICES ASSUME TypeInv, EscalateManually \/ ResolveApprovals PROVE TypeInv'
  OBVIOUS
<1>1. /\ task \in TaskType /\ Len(ops) \in Nat /\ Len(strategies) \in Nat
      /\ task.strategy \in 0..Len(strategies) /\ task.op \in 0..Len(ops)
      /\ strategies \in Seq(StrategyType) /\ approvals \in Seq(ApprovalType)
      /\ DOMAIN strategies = 1..Len(strategies)
  BY RowDomains DEF TypeInv, TypeOK
<1>2. /\ now \in 0..MaxTime /\ started \in BOOLEAN /\ replanCount \in Nat
      /\ status \in MissionStatus /\ outcome \in {"none"} \cup Terminal
  BY DEF TypeInv, TypeOK
<1>3. CASE EscalateManually
  <2>1. UNCHANGED rowVars /\ UNCHANGED <<now, eligible, started, replanCount, placed, task>>
    BY <1>3 DEF EscalateManually
  <2>2. status' \in MissionStatus /\ outcome' \in {"none"} \cup Terminal
    BY <1>2, <1>3 DEF EscalateManually, SetEscalated, MissionStatus, Terminal
  <2>3. TaskRefs'
    BY <2>1 DEF TypeInv, TaskRefs, At, rowVars
  <2> QED BY <1>1, <1>2, <2>1, <2>2, <2>3, RowsKept
<1>4. ASSUME NEW a \in DOMAIN approvals, NEW approved \in BOOLEAN, ResolveApproval(a, approved)
      PROVE  TypeInv'
  <2> DEFINE new == [approvals[a] EXCEPT !.status = IF approved THEN "approved" ELSE "rejected"]
  <2>1. approvals[a] \in ApprovalType /\ approvals[a].strategy \in DOMAIN strategies
    BY RowDomains DEF TypeInv, TypeOK
  <2>2. new \in ApprovalType /\ new.strategy = approvals[a].strategy
    BY <2>1 DEF ApprovalType
  <2>3. approvals' = [approvals EXCEPT ![a] = new]
    BY <1>4 DEF ResolveApproval
  <2>4. UNCHANGED <<now, eligible, missionVars, strategies, ops, evidence, placed>>
    BY <1>4 DEF ResolveApproval
  <2>5. /\ task' \in TaskType /\ task'.strategy = approvals[a].strategy /\ task'.op = Len(ops)
        /\ task'.at \in {"finalise", "invalidate"}
    <3>1. "finalise" \in Steps /\ "invalidate" \in Steps
      BY DEF Steps
    <3>2. \/ task' = Go("finalise", approvals[a].strategy, Len(ops))
          \/ task' = Go("invalidate", approvals[a].strategy, Len(ops))
      BY <1>4 DEF ResolveApproval
    <3>3. approvals[a].strategy \in Nat
      BY <1>1, <2>1
    <3> QED BY <1>1, <3>1, <3>2, <3>3, TaskTypes, TaskFields
  <2> HIDE DEF new
  <2>6. approvals' \in Seq(ApprovalType) /\ DOMAIN approvals' = DOMAIN approvals
    BY <1>1, <2>2, <2>3, UpdateSeq
  <2>7. \A b \in DOMAIN approvals' : approvals'[b].strategy \in DOMAIN strategies'
    <3>1. \A b \in DOMAIN approvals : approvals'[b] = IF b = a THEN new ELSE approvals[b]
      BY <1>1, <2>3, LenProperties
    <3> QED BY <2>1, <2>2, <2>4, <2>6, <3>1 DEF TypeInv, TypeOK
  <2>8. TaskRefs'
    BY <2>1, <2>4, <2>5 DEF TaskRefs, At
  <2>9. task'.strategy \in 0..Len(strategies') /\ task'.op \in 0..Len(ops')
    BY <1>1, <2>1, <2>4, <2>5
  <2>10. /\ \A o \in DOMAIN ops' : ops'[o].strategy \in DOMAIN strategies'
         /\ \A e \in evidence' : e.op \in DOMAIN ops' /\ evidence' \subseteq EvidenceType
         /\ ops' \in Seq(OpType) /\ placed' \subseteq DOMAIN ops' /\ eligible' \subseteq Candidates
         /\ evidence' \subseteq EvidenceType
    BY <2>4 DEF TypeInv, TypeOK
  <2> QED BY <1>1, <1>2, <2>4, <2>5, <2>6, <2>7, <2>8, <2>9, <2>10 DEF TypeInv, TypeOK, missionVars
<1> QED BY <1>3, <1>4 DEF ResolveApprovals

LEMMA TypeEnvironment == TypeInv /\ (Tick \/ Crash \/ UNCHANGED vars) => TypeInv'
<1> SUFFICES ASSUME TypeInv, Tick \/ Crash \/ UNCHANGED vars PROVE TypeInv'
  OBVIOUS
<1>1. /\ UNCHANGED rowVars /\ UNCHANGED missionVars /\ UNCHANGED <<eligible, placed>>
      /\ task' \in {task, Idle}
  BY DEF Tick, Crash, vars
<1>2. now' \in 0..MaxTime
  BY Limits DEF Tick, Crash, vars, TypeInv, TypeOK
<1>3. /\ status' \in MissionStatus /\ started' \in BOOLEAN
      /\ outcome' \in {"none"} \cup Terminal /\ replanCount' \in Nat
  BY <1>1 DEF missionVars, TypeInv, TypeOK
<1>4. task' \in TaskType /\ task'.strategy \in 0..Len(strategies) /\ task'.op \in 0..Len(ops)
  BY <1>1, TaskTypes, TaskFields, RowDomains DEF TypeInv, TypeOK
<1>5. TaskRefs'
  BY <1>1, TaskFields DEF rowVars, TypeInv, TaskRefs, At
<1> QED BY <1>1, <1>2, <1>3, <1>4, <1>5, RowsKept

LEMMA TypeStep == TypeInv /\ [Next]_vars => TypeInv'
BY TypePrepare, TypeStart, TypeAttempt, TypeLaunch, TypeDispatch, TypeIngest, TypeExtract, TypeEvaluate,
   TypeFailure, TypeInvalidate, TypeReplan, TypePropose, TypeEnding, TypeHuman,
   TypeEnvironment DEF Next, Engine

\* In every run every row and the handler's locals are typed, and every row that another
\* row or the handler names exists: no step of the Director looks up a missing row.
THEOREM TypeCorrect == Spec => [](TypeOK /\ TaskRefs)
BY TypeInit, TypeStep, PTL DEF Spec, TypeInv

-----------------------------------------------------------------------------
(* Safety: the inductive invariants *)

\* A call is recorded once its operation leaves the queue, and what a handler is
\* dispatching or about to ingest directly is in the state that step needs.
CallRows ==
    /\ \A o \in DOMAIN ops : ops[o].recorded => ops[o].status # "queued"
    /\ At("ingest") => ops[task.op].status = "calling"

\* Until the mission is started, nothing is dialled and nobody is asked.
NothingBefore ==
    ~started => /\ ops = <<>> /\ approvals = <<>>
                /\ task.at \in {"idle", "prepare", "escalate"}

ThreadInv == TypeInv /\ CallRows /\ NothingBefore /\ OneLiveThread

\* A replan that was allowed has not been counted yet.
BudgetInv == TypeInv /\ BudgetsHold /\ (At("propose") => replanCount < MaxReplans)
-----------------------------------------------------------------------------
(* The outcome *)

\* No step replaces an outcome: a recovery needs its row to be free, an escalation keeps
\* the row it finds, and nothing else writes one.
LEMMA OutcomeStep == [Next]_vars => [outcome # "none" => outcome' = outcome]_vars
<1> SUFFICES ASSUME Next, outcome # "none" PROVE outcome' = outcome
  OBVIOUS
<1> USE DEF missionVars
<1>1. CASE Prepare \/ LaunchOperation \/ Extract \/ EvaluateAndDecide \/ HandleCallFailure
  BY <1>1 DEF Prepare, LaunchOperation, Extract, EvaluateAndDecide, HandleCallFailure
<1>2. CASE StartAttempt \/ DispatchAccepted \/ DispatchRejected \/ DispatchFailed \/ CallStarted
  BY <1>2 DEF StartAttempt, DispatchAccepted, DispatchRejected, DispatchFailed, CallStarted
<1>3. CASE Invalidate \/ Replan \/ Propose \/ ConfirmRecovery
  BY <1>3 DEF Invalidate, Replan, Propose, ConfirmRecovery
<1>4. CASE FinaliseRecovery
  BY <1>4 DEF FinaliseRecovery
<1>5. CASE Escalate \/ EscalateManually
  BY <1>5 DEF Escalate, EscalateManually, SetEscalated
<1>6. CASE IngestCallState
  BY <1>6 DEF IngestCallState, IngestReply, IngestFailure
<1>7. CASE Start \/ Tick \/ Crash
  BY <1>7 DEF Start, Tick, Crash
<1>8. CASE ResolveApprovals
  BY <1>8 DEF ResolveApprovals, ResolveApproval
<1> QED BY <1>1, <1>2, <1>3, <1>4, <1>5, <1>6, <1>7, <1>8 DEF Next, Engine

\* The outcome of a mission is written once, whoever ends it, however often, and however
\* late a call, an approval or an operator comes back to it.
THEOREM OutcomeWrittenOnce == Spec => OutcomeIsWrittenOnce
BY OutcomeStep, PTL DEF Spec, OutcomeIsWrittenOnce
-----------------------------------------------------------------------------
(* One thing at a time *)

\* Where a handler can stand before the mission is started, and where it works.
LEMMA WorkingSteps ==
    /\ Idle.at = "idle"
    /\ task.at \notin {"idle", "ingest"} => Working
    /\ task'.at = "ingest" => ~Working'
    /\ task' = Idle => ~Working'
BY TaskFields DEF Working, At

\* A step that leaves calls and approvals alone.
LEMMA QuietStep ==
    ASSUME ThreadInv, TypeInv', UNCHANGED <<ops, approvals>>, started => started',
           Working' => Calling = {} /\ Pending = {},
           task'.at = "ingest" => task' = task,
           ~started' => task'.at \in {"idle", "prepare", "escalate"}
    PROVE  ThreadInv'
<1>1. Calling' = Calling /\ Pending' = Pending
  BY DEF Calling, Pending
<1>2. OneLiveThread'
  BY <1>1 DEF ThreadInv, OneLiveThread
<1>3. CallRows'
  BY DEF ThreadInv, CallRows, At
<1>4. NothingBefore'
  BY DEF ThreadInv, NothingBefore
<1> QED BY <1>2, <1>3, <1>4 DEF ThreadInv

\* The same for a handler's own step after the start.
LEMMA QuietWork ==
    ASSUME ThreadInv, TypeInv', UNCHANGED <<ops, approvals, started>>,
           task.at \notin {"idle", "ingest", "prepare", "escalate"}, task'.at # "ingest"
    PROVE  ThreadInv'
<1>1. Calling = {} /\ Pending = {}
  BY WorkingSteps DEF ThreadInv, OneLiveThread
<1>2. started
  BY DEF ThreadInv, NothingBefore
<1> QED BY <1>1, <1>2, QuietStep

LEMMA ThreadInit == Init => ThreadInv
<1> SUFFICES ASSUME Init PROVE ThreadInv
  OBVIOUS
<1>1. ops = <<>> /\ approvals = <<>> /\ task.at = "prepare" /\ task.op = 0
  BY TaskFields DEF Init
<1>2. Calling = {} /\ Pending = {}
  BY <1>1 DEF Calling, Pending
<1>3. CallRows /\ NothingBefore /\ OneLiveThread
  BY <1>1, <1>2 DEF CallRows, NothingBefore, OneLiveThread, At
<1> QED BY <1>3, TypeInit DEF ThreadInv

\* The handler's steps that touch neither calls nor approvals.
LEMMA ThreadQuiet ==
    ASSUME ThreadInv, TypeInv',
           \/ Prepare \/ DispatchAccepted \/ Extract \/ EvaluateAndDecide \/ HandleCallFailure
           \/ Invalidate \/ Replan \/ Propose \/ FinaliseRecovery \/ Escalate \/ StartAttempt
    PROVE  ThreadInv'
<1> USE DEF missionVars, rowVars, At
<1>1. CASE Prepare
  <2>1. Calling = {} /\ Pending = {}
    BY <1>1, WorkingSteps DEF Prepare, ThreadInv, OneLiveThread
  <2>2. /\ UNCHANGED <<ops, approvals, started>> /\ task'.at \in {"idle", "launch", "escalate"}
        /\ ~started => task'.at \in {"idle", "escalate"}
    BY <1>1, TaskFields DEF Prepare
  <2> QED BY <2>1, <2>2, QuietStep
<1>2. CASE DispatchAccepted
  <2>1. UNCHANGED <<ops, approvals, started>> /\ task.at = "dispatch" /\ task \in TaskType
    BY <1>2 DEF DispatchAccepted, ThreadInv, TypeInv, TypeOK
  <2>2. task'.at = "dispatched"
    BY <1>2, <2>1 DEF DispatchAccepted, TaskType
  <2> QED BY <2>1, <2>2, QuietWork
<1>3. CASE Extract
  BY <1>3, TaskFields, QuietWork DEF Extract
<1>4. CASE EvaluateAndDecide
  <2>1. task'.at # "ingest"
    BY <1>4, VerdictTypes DEF EvaluateAndDecide, ThreadInv
  <2> QED BY <1>4, <2>1, QuietWork DEF EvaluateAndDecide
<1>5. CASE HandleCallFailure
  BY <1>5, TaskFields, QuietWork DEF HandleCallFailure
<1>6. CASE Invalidate
  BY <1>6, TaskFields, QuietWork DEF Invalidate
<1>7. CASE Replan
  <2>1. task \in TaskType
    BY DEF ThreadInv, TypeInv, TypeOK
  <2>2. task'.at \in {"propose", "escalate"}
    BY <1>7, <2>1, TaskFields DEF Replan, TaskType
  <2> QED BY <1>7, <2>2, QuietWork DEF Replan
<1>8. CASE Propose
  BY <1>8, TaskFields, QuietWork DEF Propose
<1>9. CASE FinaliseRecovery
  BY <1>9, TaskFields, QuietWork DEF FinaliseRecovery
<1>10. CASE Escalate
  BY <1>10, TaskFields, WorkingSteps, QuietStep DEF Escalate
<1>11. CASE StartAttempt
  BY <1>11, QuietWork DEF StartAttempt
<1> QED BY <1>1, <1>2, <1>3, <1>4, <1>5, <1>6, <1>7, <1>8, <1>9, <1>10, <1>11

\* The steps nobody's handler makes: the start, the operator, the clock, the crash.
LEMMA ThreadOutside ==
    ASSUME ThreadInv, TypeInv', Start \/ EscalateManually \/ Tick \/ Crash \/ UNCHANGED vars
    PROVE  ThreadInv'
<1> USE DEF missionVars, rowVars, At
<1>1. CASE Start
  <2>1. ~started /\ ops = <<>> /\ approvals = <<>>
    BY <1>1 DEF Start, ThreadInv, NothingBefore
  <2>2. Calling = {} /\ Pending = {}
    BY <2>1 DEF Calling, Pending
  <2>3. /\ UNCHANGED <<ops, approvals>> /\ task'.at \in {"prepare", "launch", "escalate"}
        /\ ~started' => task'.at = "escalate"
    BY <1>1, TaskFields DEF Start
  <2> QED BY <2>1, <2>2, <2>3, QuietStep
<1>2. CASE EscalateManually \/ Tick \/ UNCHANGED vars
  <2>1. UNCHANGED <<ops, approvals, started, task>>
    BY <1>2 DEF EscalateManually, Tick, vars
  <2>2. Working' = Working
    BY <2>1 DEF Working
  <2>3. /\ Working => Calling = {} /\ Pending = {}
        /\ ~started => task.at \in {"idle", "prepare", "escalate"}
    BY DEF ThreadInv, OneLiveThread, NothingBefore
  <2> QED BY <2>1, <2>2, <2>3, QuietStep
<1>3. CASE Crash
  <2>1. UNCHANGED <<ops, approvals, started>> /\ task' = Idle /\ task'.at = "idle"
    BY <1>3, TaskFields DEF Crash
  <2> QED BY <2>1, WorkingSteps, QuietStep
<1> QED BY <1>1, <1>2, <1>3

\* A step of a working handler after which no call is open: the change to ops opens none,
\* records none that is still queued, and approvals stay.
LEMMA ClosingStep ==
    ASSUME ThreadInv, TypeInv', UNCHANGED <<approvals, started>>, started, Pending = {},
           \A o \in DOMAIN ops' : /\ ops'[o].status # "calling"
                                  /\ ops'[o].recorded => ops'[o].status # "queued",
           task'.at # "ingest"
    PROVE  ThreadInv'
<1>1. Calling' = {}
  <2>1. \A o \in DOMAIN ops' : ops'[o].status # "calling"
    OBVIOUS
  <2>2. Calling' = {o \in DOMAIN ops' : ops'[o].status = "calling"}
    BY DEF Calling
  <2> QED BY <2>1, <2>2, Zenon
<1>2. Pending' = {}
  BY DEF Pending
<1>3. CallRows' /\ NothingBefore' /\ OneLiveThread'
  BY <1>1, <1>2 DEF CallRows, NothingBefore, OneLiveThread, At
<1> QED BY <1>3 DEF ThreadInv

LEMMA ThreadLaunch == ASSUME ThreadInv, TypeInv', LaunchOperation PROVE ThreadInv'
<1>1. task.at = "launch" /\ UNCHANGED <<approvals, started>>
  BY DEF LaunchOperation, At
<1>2. Calling = {} /\ Pending = {} /\ started
  BY <1>1, WorkingSteps DEF ThreadInv, OneLiveThread, NothingBefore
<1>3. CASE CheckOperationBudget
  <2> DEFINE new == NewOperation(task.strategy, task.facts, task.purpose, task.attempt)
  <2>1. new.status = "queued" /\ new.recorded = FALSE
    BY DEF NewOperation
  <2>2. ops' = Append(ops, new) /\ task'.at = "dispatch"
    BY <1>3, TaskFields DEF LaunchOperation
  <2> HIDE DEF new
  <2>3. /\ ops \in Seq(OpType) /\ DOMAIN ops = 1..Len(ops) /\ Len(ops) \in Nat
        /\ ops' \in Seq(OpType)
    BY LenProperties DEF ThreadInv, TypeInv, TypeOK
  <2>4. DOMAIN ops' = 1..(Len(ops) + 1)
    BY <2>2, <2>3
  <2>5. \A o \in DOMAIN ops' : ops'[o] = IF o = Len(ops) + 1 THEN new ELSE ops[o]
    BY <2>2, <2>3, <2>4
  <2>6. \A o \in DOMAIN ops : /\ ops[o].status # "calling"
                              /\ ops[o].recorded => ops[o].status # "queued"
    BY <1>2 DEF Calling, ThreadInv, CallRows
  <2>7. \A o \in DOMAIN ops' : /\ ops'[o].status # "calling"
                               /\ ops'[o].recorded => ops'[o].status # "queued"
    BY <2>1, <2>3, <2>4, <2>5, <2>6
  <2> QED BY <1>1, <1>2, <2>2, <2>7, ClosingStep
<1>4. CASE ~CheckOperationBudget
  <2>1. UNCHANGED ops /\ task'.at = "escalate"
    BY <1>4, TaskFields DEF LaunchOperation
  <2> QED BY <1>1, <2>1, QuietWork
<1> QED BY <1>3, <1>4

LEMMA ThreadDispatch ==
    ASSUME ThreadInv, TypeInv', DispatchRejected \/ DispatchFailed PROVE ThreadInv'
<1>1. /\ task.at = "dispatch" /\ UNCHANGED <<approvals, started>>
      /\ task'.at \in {"failed", "escalate"}
  <2>1. CASE DispatchRejected
    BY <2>1, TaskFields DEF DispatchRejected, At, missionVars
  <2>2. CASE DispatchFailed
    BY <2>2 DEF DispatchFailed, At, missionVars, Go, Idle
  <2> QED BY <2>1, <2>2
<1>2. Calling = {} /\ Pending = {} /\ started
  BY <1>1, WorkingSteps DEF ThreadInv, OneLiveThread, NothingBefore
<1>3. task.op \in DOMAIN ops /\ ops \in Seq(OpType) /\ DOMAIN ops = 1..Len(ops)
  BY <1>1, CallRefs, LenProperties DEF ThreadInv, TypeInv, TypeOK
<1>4. \A o \in DOMAIN ops : ops[o] \in OpType
  BY RowDomains DEF ThreadInv, TypeInv
<1>5. /\ DOMAIN ops' = DOMAIN ops
      /\ \A o \in DOMAIN ops : IF o = task.op THEN ops'[o].status = "failed" ELSE ops'[o] = ops[o]
  BY <1>3, <1>4 DEF DispatchRejected, DispatchFailed, OpType
<1>6. \A o \in DOMAIN ops : /\ ops[o].status # "calling"
                            /\ ops[o].recorded => ops[o].status # "queued"
  BY <1>2 DEF Calling, ThreadInv, CallRows
<1>7. \A o \in DOMAIN ops' : /\ ops'[o].status # "calling"
                             /\ ops'[o].recorded => ops'[o].status # "queued"
  BY <1>5, <1>6
<1> QED BY <1>1, <1>2, <1>7, ClosingStep

LEMMA ThreadStarted == ASSUME ThreadInv, TypeInv', CallStarted PROVE ThreadInv'
<1>1. task.at = "dispatched" /\ UNCHANGED <<approvals, started>>
  BY DEF CallStarted, At, missionVars
<1>2. Calling = {} /\ Pending = {} /\ started
  BY <1>1, WorkingSteps DEF ThreadInv, OneLiveThread, NothingBefore
<1>3. task.op \in DOMAIN ops /\ task \in TaskType
  BY <1>1, CallRefs DEF ThreadInv
<1>4. \A o \in DOMAIN ops : ops[o] \in OpType
  BY RowDomains DEF ThreadInv, TypeInv
<1>5. /\ DOMAIN ops' = DOMAIN ops
      /\ ops'[task.op].status = "calling"
      /\ \A o \in DOMAIN ops : o # task.op => ops'[o] = ops[o]
  BY <1>3, <1>4 DEF CallStarted, OpType
<1>6. Calling' = {task.op} /\ Pending' = {}
  BY <1>1, <1>2, <1>3, <1>5 DEF Calling, Pending
<1>7. task' = Idle \/ (task'.at = "ingest" /\ task'.op = task.op)
  BY <1>3 DEF CallStarted, TaskType
<1>8. ~Working'
  BY <1>7, WorkingSteps
<1>9. CallRows'
  <2>1. \A o \in DOMAIN ops' : ops'[o].recorded => ops'[o].status # "queued"
    BY <1>5 DEF ThreadInv, CallRows
  <2> QED BY <1>5, <1>7, <2>1, TaskFields DEF CallRows, At
<1>10. NothingBefore' /\ OneLiveThread'
  BY <1>1, <1>2, <1>6, <1>8 DEF NothingBefore, OneLiveThread
<1> QED BY <1>9, <1>10 DEF ThreadInv

LEMMA ThreadIngest == ASSUME ThreadInv, TypeInv', IngestCallState PROVE ThreadInv'
<1>1. PICK o \in DOMAIN ops : \/ \E reply \in Replies : IngestReply(o, reply)
                              \/ \E cause \in {"line", "number"} : IngestFailure(o, cause)
  BY DEF IngestCallState
<1>2. MayIngest(o) /\ UNCHANGED <<approvals, started>>
  BY <1>1 DEF IngestReply, IngestFailure
<1>3. \A p \in DOMAIN ops : ops[p] \in OpType
  BY RowDomains DEF ThreadInv, TypeInv
<1>4. o \in Calling
  BY <1>2, <1>3 DEF MayIngest, ThreadInv, CallRows, Calling, OpType
<1>5. Calling = {o} /\ Pending = {} /\ started
  BY <1>4 DEF ThreadInv, OneLiveThread, NothingBefore
<1>6. /\ DOMAIN ops' = DOMAIN ops /\ ops'[o].status \in {"completed", "failed"}
      /\ \A p \in DOMAIN ops : p # o => ops'[p] = ops[p]
  BY <1>1, <1>3 DEF IngestReply, IngestFailure, OpType
<1>7. \A p \in DOMAIN ops' : /\ ops'[p].status # "calling"
                             /\ ops'[p].recorded => ops'[p].status # "queued"
  BY <1>5, <1>6 DEF Calling, ThreadInv, CallRows
<1>8. task'.at \in {"extract", "failed"}
  BY <1>1, TaskFields DEF IngestReply, IngestFailure, Go, Idle
<1> QED BY <1>2, <1>5, <1>7, <1>8, ClosingStep

LEMMA ThreadConfirm == ASSUME ThreadInv, TypeInv', ConfirmRecovery PROVE ThreadInv'
<1>1. /\ task.at = "confirm" /\ task \in TaskType /\ UNCHANGED <<ops, started>>
      /\ approvals \in Seq(ApprovalType)
  BY DEF ConfirmRecovery, At, ThreadInv, TypeInv, TypeOK
<1>2. Calling = {} /\ Pending = {} /\ started
  BY <1>1, WorkingSteps DEF ThreadInv, OneLiveThread, NothingBefore
<1>3. CASE ~AboveCostLimit(evidence, strategies[task.strategy].target)
  <2>1. UNCHANGED approvals /\ task'.at = "finalise"
    BY <1>1, <1>3 DEF ConfirmRecovery, TaskType
  <2> QED BY <1>1, <2>1, QuietWork
<1>4. CASE AboveCostLimit(evidence, strategies[task.strategy].target)
  <2> DEFINE new == [strategy |-> task.strategy, status |-> "pending"]
  <2>1. approvals' = Append(approvals, new) /\ task' = Idle
    BY <1>4 DEF ConfirmRecovery
  <2> HIDE DEF new
  <2>2. \A a, b \in Pending' : a = b
    <3>1. \A a \in DOMAIN approvals' : a # Len(approvals) + 1 =>
             a \in DOMAIN approvals /\ approvals'[a] = approvals[a]
      BY <1>1, <2>1
    <3> QED BY <1>2, <3>1 DEF Pending
  <2>3. Calling' = {}
    BY <1>1, <1>2 DEF Calling
  <2>4. ~Working' /\ task'.at = "idle"
    BY <2>1, WorkingSteps
  <2>5. CallRows' /\ NothingBefore' /\ OneLiveThread'
    BY <1>1, <1>2, <2>2, <2>3, <2>4 DEF CallRows, NothingBefore, OneLiveThread, ThreadInv, At
  <2> QED BY <2>5 DEF ThreadInv
<1> QED BY <1>3, <1>4

LEMMA ThreadResolve == ASSUME ThreadInv, TypeInv', ResolveApprovals PROVE ThreadInv'
<1>1. PICK a \in DOMAIN approvals, approved \in BOOLEAN : ResolveApproval(a, approved)
  BY DEF ResolveApprovals
<1>2. /\ approvals[a].status = "pending" /\ UNCHANGED <<ops, started>>
      /\ task'.at \in {"finalise", "invalidate"}
  BY <1>1, TaskFields DEF ResolveApproval, missionVars
<1>3. Pending = {a} /\ Calling = {} /\ started
  BY <1>2 DEF Pending, ThreadInv, OneLiveThread, NothingBefore
<1>4. Pending' = {}
  <2>1. approvals[a] \in ApprovalType
    BY RowDomains DEF ThreadInv, TypeInv
  <2>2. /\ DOMAIN approvals' = DOMAIN approvals /\ approvals'[a].status \in {"approved", "rejected"}
        /\ \A b \in DOMAIN approvals : b # a => approvals'[b] = approvals[b]
    BY <1>1, <2>1 DEF ResolveApproval, ApprovalType
  <2> QED BY <1>3, <2>2 DEF Pending
<1>5. Calling' = {}
  BY <1>2, <1>3 DEF Calling
<1>6. CallRows' /\ NothingBefore' /\ OneLiveThread'
  BY <1>2, <1>3, <1>4, <1>5 DEF CallRows, NothingBefore, OneLiveThread, ThreadInv, At
<1> QED BY <1>6 DEF ThreadInv

LEMMA ThreadStep == ThreadInv /\ [Next]_vars => ThreadInv'
<1> SUFFICES ASSUME ThreadInv, [Next]_vars PROVE ThreadInv'
  OBVIOUS
<1>1. TypeInv'
  BY TypeStep DEF ThreadInv
<1> QED BY <1>1, ThreadQuiet, ThreadOutside, ThreadLaunch, ThreadDispatch, ThreadStarted,
           ThreadIngest, ThreadConfirm, ThreadResolve DEF Next, Engine

\* A mission is moved by one thing at a time: however webhooks, the poller, the operator,
\* the clock and crashes interleave, there is never a second open call, an open call next
\* to a pending approval, or either of them while a handler works.
THEOREM OneThingAtATime == Spec => []OneLiveThread
<1>1. ThreadInv => OneLiveThread
  BY DEF ThreadInv
<1> QED BY <1>1, ThreadInit, ThreadStep, PTL DEF Spec
-----------------------------------------------------------------------------
(* The budgets of the mission *)

LEMMA BudgetInit == Init => BudgetInv
<1> SUFFICES ASSUME Init PROVE BudgetInv
  OBVIOUS
<1>1. Len(ops) = 0 /\ Len(strategies) = 0 /\ replanCount = 0 /\ task.at = "prepare"
  BY TaskFields DEF Init
<1> QED BY <1>1, TypeInit, Limits DEF BudgetInv, BudgetsHold, At

\* A step that adds neither an operation nor a strategy.
LEMMA NothingAdded ==
    ASSUME BudgetInv, TypeInv', UNCHANGED replanCount,
           Len(ops') = Len(ops), Len(strategies') = Len(strategies),
           task'.at = "propose" => task = task' \/ replanCount < MaxReplans
    PROVE  BudgetInv'
BY DEF BudgetInv, BudgetsHold, At

LEMMA BudgetStep == BudgetInv /\ [Next]_vars => BudgetInv'
<1> SUFFICES ASSUME BudgetInv, [Next]_vars PROVE BudgetInv'
  OBVIOUS
<1> USE DEF missionVars, rowVars
<1>1. /\ TypeInv /\ TypeInv' /\ ops \in Seq(OpType) /\ strategies \in Seq(StrategyType)
      /\ Len(ops) \in Nat /\ Len(strategies) \in Nat /\ replanCount \in Nat
      /\ task \in TaskType
  BY TypeStep, RowDomains DEF BudgetInv, TypeInv, TypeOK
<1>2. Len(ops) <= MaxOps /\ replanCount <= MaxReplans /\ Len(strategies) <= replanCount + 1
  BY DEF BudgetInv, BudgetsHold
<1>3. CASE Prepare
  <2>1. strategies = <<>> /\ Len(strategies') \in {0, 1}
    BY <1>1, <1>3 DEF Prepare, TypeInv, TaskRefs
  <2>2. UNCHANGED <<ops, replanCount>> /\ task'.at # "propose"
    BY <1>3, TaskFields DEF Prepare
  <2>3. Len(strategies') <= replanCount' + 1 /\ Len(ops') <= MaxOps /\ replanCount' <= MaxReplans
    <3>1. ops' = ops /\ replanCount' = replanCount
      BY <2>2
    <3>2. Len(ops') <= MaxOps /\ replanCount' <= MaxReplans
      BY <1>2, <3>1
    <3>3. Len(strategies') <= replanCount + 1
      <4>1. replanCount \in Nat
        BY <1>1
      <4> QED BY <2>1, <4>1
    <3> QED BY <3>1, <3>2, <3>3
  <2> QED BY <1>1, <2>2, <2>3 DEF BudgetInv, BudgetsHold, At
<1>4. CASE LaunchOperation
  <2>1. Len(strategies') = Len(strategies) /\ UNCHANGED replanCount /\ task'.at # "propose"
    BY <1>4, TaskFields DEF LaunchOperation
  <2>2. Len(ops') <= MaxOps
    <3>1. CASE CheckOperationBudget
      <4> DEFINE new == NewOperation(task.strategy, task.facts, task.purpose, task.attempt)
      <4>1. ops' = Append(ops, new) /\ Len(ops) < MaxOps
        BY <1>4, <3>1 DEF LaunchOperation, CheckOperationBudget
      <4> HIDE DEF new
      <4>2. Len(ops') = Len(ops) + 1
        BY <1>1, <4>1
      <4> QED BY <1>1, <4>1, <4>2, Limits
    <3>2. CASE ~CheckOperationBudget
      BY <1>2, <1>4, <3>2 DEF LaunchOperation
    <3> QED BY <3>1, <3>2
  <2> QED BY <1>1, <1>2, <2>1, <2>2 DEF BudgetInv, BudgetsHold, At
<1>13. CASE StartAttempt
  <2>1. /\ UNCHANGED <<replanCount, ops, task>> /\ task.at = "launch"
        /\ Len(strategies') = Len(strategies)
    BY <1>1, <1>13, AttemptStarts
  <2> QED BY <1>1, <2>1, NothingAdded
<1>5. CASE DispatchAccepted \/ DispatchRejected \/ DispatchFailed \/ CallStarted
  <2>1. Len(ops') = Len(ops)
    BY <1>1, <1>5 DEF DispatchAccepted, DispatchRejected, DispatchFailed, CallStarted
  <2>2. UNCHANGED <<strategies, replanCount>>
    BY <1>5 DEF DispatchAccepted, DispatchRejected, DispatchFailed, CallStarted
  <2>3. task'.at \in {"idle", "dispatched", "escalate", "failed", "ingest"}
    <3>1. CASE DispatchAccepted
      BY <1>1, <3>1 DEF DispatchAccepted, TaskType
    <3>2. CASE DispatchRejected
      BY <3>2, TaskFields DEF DispatchRejected
    <3>3. CASE DispatchFailed
      BY <3>3 DEF DispatchFailed, Go, Idle
    <3>4. CASE CallStarted
      BY <1>1, <3>4, TaskFields DEF CallStarted, TaskType
    <3> QED BY <1>5, <3>1, <3>2, <3>3, <3>4
  <2> QED BY <1>1, <2>1, <2>2, <2>3, NothingAdded
<1>12. CASE IngestCallState
  <2>1. PICK o \in DOMAIN ops : \/ \E reply \in Replies : IngestReply(o, reply)
                                \/ \E cause \in {"line", "number"} : IngestFailure(o, cause)
    BY <1>12 DEF IngestCallState
  <2>2. Len(ops') = Len(ops)
    BY <1>1, <2>1 DEF IngestReply, IngestFailure
  <2>3. UNCHANGED <<strategies, replanCount>> /\ task'.at \in {"extract", "failed"}
    BY <2>1, TaskFields DEF IngestReply, IngestFailure, Go, Idle
  <2> QED BY <1>1, <2>2, <2>3, NothingAdded
<1>6. CASE Extract \/ HandleCallFailure \/ ConfirmRecovery \/ Escalate
  <2>1. UNCHANGED <<ops, strategies, replanCount>>
    BY <1>6 DEF Extract, HandleCallFailure, ConfirmRecovery, Escalate
  <2>2. task'.at # "propose"
    BY <1>1, <1>6, TaskFields DEF Extract, HandleCallFailure, ConfirmRecovery, Escalate, TaskType
  <2> QED BY <1>1, <2>1, <2>2, NothingAdded
<1>7. CASE EvaluateAndDecide
  <2>1. task'.at # "propose"
    BY <1>1, <1>7, VerdictTypes DEF EvaluateAndDecide
  <2> QED BY <1>1, <1>7, <2>1, NothingAdded DEF EvaluateAndDecide
<1>8. CASE Invalidate \/ FinaliseRecovery
  <2>1. Len(strategies') = Len(strategies)
    BY <1>1, <1>8 DEF Invalidate, FinaliseRecovery
  <2>2. UNCHANGED <<ops, replanCount>> /\ task'.at # "propose"
    BY <1>8, TaskFields DEF Invalidate, FinaliseRecovery
  <2> QED BY <1>1, <2>1, <2>2, NothingAdded
<1>9. CASE Replan
  <2>1. UNCHANGED <<ops, strategies, replanCount>>
    BY <1>9 DEF Replan
  <2>2. task'.at = "propose" => replanCount < MaxReplans
    BY <1>9, TaskFields DEF Replan, PreReplanChecks, CheckReplanBudget
  <2> QED BY <1>1, <2>1, <2>2, NothingAdded
<1>10. CASE Propose
  <2>1. replanCount < MaxReplans
    BY <1>10 DEF Propose, BudgetInv
  <2>2. CASE task' = Go("escalate", 0, 0) /\ UNCHANGED <<replanCount, strategies>>
    BY <1>1, <1>10, <2>2, TaskFields, NothingAdded DEF Propose
  <2>3. ASSUME NEW c \in Proposals, NEW needs \in NeedSets,
               replanCount' = replanCount + 1,
               strategies' = Append(strategies, NewStrategy(c, needs)),
               task' = Launching(Len(strategies) + 1, needs, "verify", 1)
        PROVE  BudgetInv'
    <3>1. Len(strategies') = Len(strategies) + 1 /\ UNCHANGED ops /\ task'.at # "propose"
      BY <1>1, <1>10, <2>3, TaskFields DEF Propose
    <3> QED BY <1>1, <1>2, <2>1, <2>3, <3>1, Limits DEF BudgetInv, BudgetsHold, At
  <2> QED BY <1>10, <2>2, <2>3 DEF Propose
<1>11. CASE Start \/ EscalateManually \/ ResolveApprovals \/ Tick \/ Crash \/ UNCHANGED vars
  <2>1. UNCHANGED <<ops, strategies, replanCount>>
    BY <1>11 DEF Start, EscalateManually, ResolveApprovals, ResolveApproval, Tick, Crash, vars
  <2>2. task'.at = "propose" => task' = task
    BY <1>11, TaskFields DEF Start, EscalateManually, ResolveApprovals, ResolveApproval, Tick,
                            Crash, vars
  <2> QED BY <1>1, <2>1, <2>2, NothingAdded
<1> QED BY <1>3, <1>4, <1>5, <1>6, <1>7, <1>8, <1>9, <1>10, <1>11, <1>12, <1>13
        DEF Next, Engine

\* No mission phones more often than its operation budget, replans more often than its
\* replan budget, or has more strategies than replans and the first plan explain.
THEOREM BudgetsRespected == Spec => []BudgetsHold
<1>1. BudgetInv => BudgetsHold
  BY DEF BudgetInv
<1> QED BY <1>1, BudgetInit, BudgetStep, PTL DEF Spec
=============================================================================
