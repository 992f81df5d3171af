----------------------- MODULE RecoveryOutcomeProofs -----------------------
(***************************************************************************)
(* What a mission's end rests on, proved from the line it follows:         *)
(*   - evidence has its provenance (EvidenceHasProvenance);                *)
(*   - a recovery is evidenced (RecoveryIsEvidenced) and within authority  *)
(*     (HumanHasTheLastWord);                                              *)
(*   - what has ended has ended (EndedMeansEnded), and what has not waits  *)
(*     for something (NeverStranded).                                      *)
(* The decision to recover is taken in one step and written in another,    *)
(* with a human in between perhaps: the argument is that the evidence, the *)
(* line and the approvals the decision was taken on are still there when   *)
(* it is written (EvidencedInv, ApprovalInv), and that nothing can touch   *)
(* them afterwards (OverStays).                                            *)
(***************************************************************************)
EXTENDS RecoveryLineProofs

-----------------------------------------------------------------------------
(* Where a step comes from and where it leads *)

\* The handler's way through the Director, step by step.
LEMMA Destinations ==
    ASSUME TypeInv
    PROVE  /\ Prepare => task.at = "prepare" /\ task'.at \in {"idle", "launch", "escalate"}
           /\ Start => task = Idle /\ task'.at \in {"prepare", "launch", "escalate"}
           /\ StartAttempt => task.at = "launch" /\ UNCHANGED task
           /\ LaunchOperation => task.at = "launch" /\ task'.at \in {"dispatch", "escalate"}
           /\ DispatchAccepted => task.at = "dispatch" /\ task'.at = "dispatched"
           /\ DispatchRejected => task.at = "dispatch" /\ task'.at = "escalate"
           /\ DispatchFailed => task.at = "dispatch" /\ task'.at = "failed"
           /\ CallStarted => task.at = "dispatched" /\ task'.at \in {"idle", "ingest"}
           /\ IngestCallState => task.at \in {"idle", "ingest"} /\ task'.at \in {"extract", "failed"}
           /\ Extract => task.at = "extract" /\ task'.at = "evaluate"
           /\ EvaluateAndDecide => /\ task.at = "evaluate"
                                   /\ task'.at \in {"idle", "launch", "invalidate", "confirm"}
           /\ HandleCallFailure => task.at = "failed" /\ task'.at \in {"launch", "invalidate"}
           /\ Invalidate => task.at = "invalidate" /\ task'.at = "replan"
           /\ Replan => task.at = "replan" /\ task'.at \in {"propose", "escalate"}
           /\ Propose => task.at = "propose" /\ task'.at \in {"launch", "escalate"}
           /\ ConfirmRecovery => task.at = "confirm" /\ task'.at \in {"idle", "finalise"}
           /\ FinaliseRecovery => task.at = "finalise" /\ task'.at = "idle"
           /\ Escalate => task.at = "escalate" /\ task'.at = "idle"
           /\ ResolveApprovals => task = Idle /\ task'.at \in {"finalise", "invalidate"}
           /\ Crash => task # Idle /\ task' = Idle
           /\ EscalateManually \/ Tick \/ UNCHANGED vars => UNCHANGED <<rowVars, placed, started, task>>
<1> USE DEF At
<1>1. task \in TaskType
  BY DEF TypeInv, TypeOK
<1>2. /\ Prepare => task.at = "prepare" /\ task'.at \in {"idle", "launch", "escalate"}
      /\ Start => task = Idle /\ task'.at \in {"prepare", "launch", "escalate"}
      /\ StartAttempt => task.at = "launch" /\ UNCHANGED task
      /\ LaunchOperation => task.at = "launch" /\ task'.at \in {"dispatch", "escalate"}
  BY TaskFields DEF Prepare, Start, StartAttempt, LaunchOperation
<1>3. /\ DispatchAccepted => task.at = "dispatch" /\ task'.at = "dispatched"
      /\ DispatchRejected => task.at = "dispatch" /\ task'.at = "escalate"
      /\ CallStarted => task.at = "dispatched" /\ task'.at \in {"idle", "ingest"}
  BY <1>1, TaskFields DEF DispatchAccepted, DispatchRejected, CallStarted, TaskType
<1>4. DispatchFailed => task.at = "dispatch" /\ task'.at = "failed"
  BY DEF DispatchFailed, Go, Idle
<1>5. IngestCallState => task.at \in {"idle", "ingest"} /\ task'.at \in {"extract", "failed"}
  BY TaskFields DEF IngestCallState, IngestReply, IngestFailure, MayIngest, Go, Idle
<1>6. /\ Extract => task.at = "extract" /\ task'.at = "evaluate"
      /\ HandleCallFailure => task.at = "failed" /\ task'.at \in {"launch", "invalidate"}
      /\ Invalidate => task.at = "invalidate" /\ task'.at = "replan"
      /\ Propose => task.at = "propose" /\ task'.at \in {"launch", "escalate"}
  BY TaskFields DEF Extract, HandleCallFailure, Invalidate, Propose
<1>7. EvaluateAndDecide => /\ task.at = "evaluate"
                           /\ task'.at \in {"idle", "launch", "invalidate", "confirm"}
  BY VerdictTypes DEF EvaluateAndDecide
<1>8. /\ Replan => task.at = "replan" /\ task'.at \in {"propose", "escalate"}
      /\ ConfirmRecovery => task.at = "confirm" /\ task'.at \in {"idle", "finalise"}
  BY <1>1, TaskFields DEF Replan, ConfirmRecovery, TaskType
<1>9. /\ FinaliseRecovery => task.at = "finalise" /\ task'.at = "idle"
      /\ Escalate => task.at = "escalate" /\ task'.at = "idle"
      /\ ResolveApprovals => task = Idle /\ task'.at \in {"finalise", "invalidate"}
      /\ Crash => task # Idle /\ task' = Idle
  BY TaskFields DEF FinaliseRecovery, Escalate, ResolveApprovals, ResolveApproval, Crash
<1>10. EscalateManually \/ Tick \/ UNCHANGED vars => UNCHANGED <<rowVars, placed, started, task>>
  BY DEF EscalateManually, Tick, vars, rowVars, missionVars
<1> QED BY <1>2, <1>3, <1>4, <1>5, <1>6, <1>7, <1>8, <1>9, <1>10

\* Evidence is written by two steps only, and the clock does not go back.
LEMMA EvidenceStays ==
    ASSUME TypeInv, [Next]_vars
    PROVE  /\ now <= now' /\ now \in Nat /\ now' \in Nat
           /\ ~Extract /\ ~EvaluateAndDecide => UNCHANGED evidence
           /\ ~Tick => now' = now
<1> USE DEF missionVars, rowVars
<1>1. now \in Nat
  BY Limits DEF TypeInv, TypeOK
<1>2. CASE Prepare \/ StartAttempt \/ LaunchOperation \/ DispatchAccepted \/ DispatchRejected
             \/ DispatchFailed
  BY <1>1, <1>2 DEF Prepare, StartAttempt, LaunchOperation, DispatchAccepted, DispatchRejected,
                    DispatchFailed
<1>3. CASE CallStarted \/ Extract \/ EvaluateAndDecide \/ HandleCallFailure \/ Invalidate
  BY <1>1, <1>3 DEF CallStarted, Extract, EvaluateAndDecide, HandleCallFailure, Invalidate
<1>4. CASE Replan \/ Propose \/ ConfirmRecovery \/ FinaliseRecovery \/ Escalate
  BY <1>1, <1>4 DEF Replan, Propose, ConfirmRecovery, FinaliseRecovery, Escalate
<1>5. CASE Start \/ EscalateManually \/ Crash \/ UNCHANGED vars
  BY <1>1, <1>5 DEF Start, EscalateManually, Crash, vars
<1>6. CASE Tick
  <2>1. now' = now + 1 /\ UNCHANGED evidence
    BY <1>6 DEF Tick
  <2> QED BY <1>1, <1>6, <2>1
<1>7. CASE ResolveApprovals \/ IngestCallState
  <2>1. UNCHANGED <<now, evidence>>
    BY <1>7 DEF ResolveApprovals, ResolveApproval, IngestCallState, IngestReply, IngestFailure
  <2> QED BY <1>1, <2>1
<1> QED BY <1>2, <1>3, <1>4, <1>5, <1>6, <1>7 DEF Next, Engine
-----------------------------------------------------------------------------
(* Evidence *)

\* Evidence is dated, and a call leaves evidence once: its result is read when none is there.
ProvInv ==
    /\ EvidenceHasProvenance
    /\ \A e \in evidence : e.at <= now
    /\ At("extract") => ops[task.op].recorded /\ \A e \in evidence : e.op # task.op

\* No call that was answered is ever anything else again, and it keeps its target.
LEMMA CallsRemain ==
    ASSUME LoopInv, [Next]_vars
    PROVE  \A o \in DOMAIN ops : /\ o \in DOMAIN ops' /\ TargetOf(o)' = TargetOf(o)
                                 /\ ops'[o].facts = ops[o].facts
                                 /\ ops[o].recorded => ops'[o].recorded
                                 /\ ops[o].status \in Closed => ops'[o].status = ops[o].status
<1>1. /\ \A s \in DOMAIN strategies : strategies'[s].target = strategies[s].target
      /\ \A o \in DOMAIN ops : ops[o].strategy \in DOMAIN strategies
  BY TargetsStay, RowFacts DEF LoopInv, ThreadInv
<1>2. \A o \in DOMAIN ops : /\ o \in DOMAIN ops' /\ ops'[o].strategy = ops[o].strategy
                            /\ ops'[o].facts = ops[o].facts
                            /\ ops[o].recorded => ops'[o].recorded
                            /\ ops[o].status \in Closed => ops'[o].status = ops[o].status
  <2>1. CASE ~LaunchOperation
    BY <2>1, CallsStay
  <2>2. CASE LaunchOperation /\ CheckOperationBudget
    BY <2>2, LaunchAdds
  <2>3. CASE LaunchOperation /\ ~CheckOperationBudget
    BY <2>3 DEF LaunchOperation
  <2> QED BY <2>1, <2>2, <2>3
<1> QED BY <1>1, <1>2 DEF TargetOf

\* A reply says one thing on a fact.
LEMMA OneFactPerKey ==
    ASSUME NEW reply, NEW facts,
           NEW f \in ExtractedFacts(reply, facts), NEW g \in ExtractedFacts(reply, facts),
           f.key = g.key
    PROVE  f = g
<1>1. CASE reply.structured
  <2>1. f \in StructuredFacts(reply, facts) /\ g \in StructuredFacts(reply, facts)
    BY <1>1 DEF ExtractedFacts
  <2> QED BY <2>1 DEF StructuredFacts
<1>2. CASE ~reply.structured
  <2>1. f \in TranscriptFacts(reply, facts) /\ g \in TranscriptFacts(reply, facts)
    BY <1>2 DEF ExtractedFacts
  <2> QED BY <2>1 DEF TranscriptFacts
<1> QED BY <1>1, <1>2

\* And only on facts that were asked.
LEMMA AskedOnly ==
    ASSUME NEW reply, NEW facts, NEW f \in ExtractedFacts(reply, facts)
    PROVE  f.key \in facts
BY DEF ExtractedFacts, StructuredFacts, TranscriptFacts

\* New evidence is what one call said, once per fact.
LEMMA NewEvidenceIs ==
    ASSUME NEW o, NEW reply
    PROVE  /\ \A e \in NewEvidence(o, reply) :
                 e.op = o /\ e.subject = TargetOf(o) /\ e.key \in ops[o].facts /\ e.at = now
           /\ \A e, f \in NewEvidence(o, reply) : e.key = f.key => e = f
<1> DEFINE row(f) == [op |-> o, subject |-> TargetOf(o), key |-> f.key, val |-> f.val,
                      status |-> f.status, at |-> now]
<1>1. NewEvidence(o, reply) = {row(f) : f \in ExtractedFacts(reply, ops[o].facts)}
  BY DEF NewEvidence
<1>2. \A f \in ExtractedFacts(reply, ops[o].facts) :
         /\ row(f).op = o /\ row(f).subject = TargetOf(o) /\ row(f).key = f.key
         /\ row(f).key \in ops[o].facts /\ row(f).at = now
  BY AskedOnly
<1>3. \A f, g \in ExtractedFacts(reply, ops[o].facts) : f.key = g.key => row(f) = row(g)
  BY OneFactPerKey
<1> HIDE DEF row
<1> QED BY <1>1, <1>2, <1>3

\* Evidence that differs from E only in its status, element by element.
Restamped(E, F) ==
    \E G \in [E -> F] : /\ F = {G[e] : e \in E}
                        /\ \A e \in E : /\ G[e].op = e.op /\ G[e].subject = e.subject
                                        /\ G[e].key = e.key /\ G[e].at = e.at

LEMMA MarkRestamps ==
    ASSUME NEW E \in SUBSET EvidenceType, NEW F PROVE Restamped(E, MarkAgainst(E, F))
<1> DEFINE M == MarkAgainst(E, F)
           mark(e) == IF \E f \in F : Clash(e, f) THEN [e EXCEPT !.status = "conflicting"] ELSE e
           G == [e \in E |-> mark(e)]
<1>1. M = {mark(e) : e \in E}
  BY DEF MarkAgainst
<1>2. \A e \in E : /\ mark(e).op = e.op /\ mark(e).subject = e.subject
                   /\ mark(e).key = e.key /\ mark(e).at = e.at
  BY DEF EvidenceType
<1> HIDE DEF M, mark
<1>3. G \in [E -> M] /\ M = {G[e] : e \in E} /\ \A e \in E : G[e] = mark(e)
  BY <1>1
<1> HIDE DEF G
<1> QED BY <1>2, <1>3 DEF Restamped, M

LEMMA RefreshRestamps ==
    ASSUME NEW E \in SUBSET EvidenceType, NEW t PROVE Restamped(E, Refreshed(E, t))
<1> DEFINE M == Refreshed(E, t)
           mark(e) == IF Expired(e) /\ \E k \in Keys : e \in Latest(E, t, k)
                      THEN [e EXCEPT !.status = "stale"] ELSE e
           G == [e \in E |-> mark(e)]
<1>1. M = {mark(e) : e \in E}
  BY DEF Refreshed
<1>2. \A e \in E : /\ mark(e).op = e.op /\ mark(e).subject = e.subject
                   /\ mark(e).key = e.key /\ mark(e).at = e.at
  BY DEF EvidenceType
<1> HIDE DEF M, mark
<1>3. G \in [E -> M] /\ M = {G[e] : e \in E} /\ \A e \in E : G[e] = mark(e)
  BY <1>1
<1> HIDE DEF G
<1> QED BY <1>2, <1>3 DEF Restamped, M

\* One piece of evidence per call and fact, all of it dated.
Unique(E) == \A e, f \in E : e.op = f.op /\ e.key = f.key => e = f

LEMMA RestampedStays ==
    ASSUME NEW E, NEW F, Restamped(E, F)
    PROVE  /\ \A f \in F : \E e \in E : /\ f.op = e.op /\ f.subject = e.subject
                                        /\ f.key = e.key /\ f.at = e.at
           /\ Unique(E) => Unique(F)
<1>1. PICK G \in [E -> F] : /\ F = {G[e] : e \in E}
                            /\ \A e \in E : /\ G[e].op = e.op /\ G[e].subject = e.subject
                                            /\ G[e].key = e.key /\ G[e].at = e.at
  BY DEF Restamped
<1>2. \A f \in F : \E e \in E : f = G[e]
  BY <1>1
<1> QED BY <1>1, <1>2 DEF Unique

\* Evidence that only changes its status, or nothing, keeps its provenance.
LEMMA ProvenanceStays ==
    ASSUME LoopInv, ProvInv, [Next]_vars, NEW F,
           \A f \in F : \E e \in evidence : /\ f.op = e.op /\ f.subject = e.subject
                                            /\ f.key = e.key /\ f.at = e.at
    PROVE  \A f \in F : /\ ops'[f.op].status = "completed" /\ ops'[f.op].recorded
                        /\ f.subject = TargetOf(f.op)' /\ f.key \in ops'[f.op].facts
                        /\ f.at <= now'
<1> SUFFICES ASSUME NEW f \in F
             PROVE  /\ ops'[f.op].status = "completed" /\ ops'[f.op].recorded
                    /\ f.subject = TargetOf(f.op)' /\ f.key \in ops'[f.op].facts
                    /\ f.at <= now'
  OBVIOUS
<1>1. PICK e \in evidence : /\ f.op = e.op /\ f.subject = e.subject
                            /\ f.key = e.key /\ f.at = e.at
  OBVIOUS
<1>2. /\ e.op \in DOMAIN ops /\ e.at \in Nat
      /\ ops[e.op].status = "completed" /\ ops[e.op].recorded
      /\ e.subject = TargetOf(e.op) /\ e.key \in ops[e.op].facts /\ e.at <= now
  BY DEF LoopInv, ThreadInv, TypeInv, TypeOK, EvidenceType, ProvInv, EvidenceHasProvenance
<1>3. now <= now' /\ now \in Nat /\ now' \in Nat
  BY EvidenceStays DEF LoopInv, ThreadInv
<1> QED BY <1>1, <1>2, <1>3, CallsRemain DEF Closed

LEMMA ProvExtract == ASSUME LoopInv, ProvInv, Extract PROVE ProvInv'
<1>1. /\ TypeInv /\ task.at = "extract" /\ evidence \in SUBSET EvidenceType
      /\ UNCHANGED <<ops, strategies, now>> /\ task'.at = "evaluate"
  BY Destinations DEF LoopInv, ThreadInv, TypeInv, TypeOK, Extract, At
<1> DEFINE o == task.op
           new == NewEvidence(o, task.reply)
           kept == MarkAgainst(evidence, new)
           added == MarkAgainst(new, evidence)
<1>2. /\ ops[o].status = "completed" /\ ops[o].recorded /\ \A e \in evidence : e.op # o
      /\ o \in DOMAIN ops /\ task.reply \in Replies \cup {Unsaid} /\ o \in Nat
  BY <1>1, CallRefs DEF LoopInv, StandInv, StatusAt, Engaged, At, ProvInv, TaskType
<1>3. evidence' = kept \cup added
  BY DEF Extract, MarkConflicts
<1>4. new \in SUBSET EvidenceType
  BY <1>1, <1>2, FiledTypes
<1>5. /\ \A e \in new : e.op = o /\ e.subject = TargetOf(o) /\ e.key \in ops[o].facts /\ e.at = now
      /\ Unique(new)
  BY NewEvidenceIs DEF Unique
<1> HIDE DEF new
<1>6. Restamped(evidence, kept) /\ Restamped(new, added)
  BY <1>1, <1>4, MarkRestamps
<1>7. Unique(evidence)
  BY DEF ProvInv, EvidenceHasProvenance, Unique
<1> HIDE DEF kept, added
<1>8. /\ Unique(kept) /\ Unique(added)
      /\ \A f \in kept : \E e \in evidence : /\ f.op = e.op /\ f.subject = e.subject
                                             /\ f.key = e.key /\ f.at = e.at
      /\ \A f \in added : \E e \in new : /\ f.op = e.op /\ f.subject = e.subject
                                         /\ f.key = e.key /\ f.at = e.at
  BY <1>5, <1>6, <1>7, RestampedStays
<1>9. [Next]_vars
  BY DEF Next, Engine
<1>10. \A f \in kept : /\ ops'[f.op].status = "completed" /\ ops'[f.op].recorded
                       /\ f.subject = TargetOf(f.op)' /\ f.key \in ops'[f.op].facts
                       /\ f.at <= now' /\ f.op # o
  BY <1>2, <1>8, <1>9, ProvenanceStays
<1>11. \A f \in added : /\ ops'[f.op].status = "completed" /\ ops'[f.op].recorded
                        /\ f.subject = TargetOf(f.op)' /\ f.key \in ops'[f.op].facts
                        /\ f.at <= now' /\ f.op = o
  <2>1. now \in Nat
    BY <1>1, <1>9, EvidenceStays
  <2> QED BY <1>1, <1>2, <1>5, <1>8, <2>1 DEF TargetOf
<1>12. Unique(kept \cup added)
  BY <1>8, <1>10, <1>11 DEF Unique
<1>13. EvidenceHasProvenance'
  BY <1>3, <1>10, <1>11, <1>12 DEF EvidenceHasProvenance, Unique
<1> QED BY <1>1, <1>3, <1>10, <1>11, <1>13 DEF ProvInv, At

LEMMA ProvEvaluate == ASSUME LoopInv, ProvInv, EvaluateAndDecide PROVE ProvInv'
<1>1. TypeInv /\ evidence \in SUBSET EvidenceType /\ task'.at # "extract" /\ [Next]_vars
  BY Destinations DEF LoopInv, ThreadInv, TypeInv, TypeOK, Next, Engine
<1> DEFINE E == Refreshed(evidence, TargetOf(task.op))
<1>2. evidence' = E /\ Restamped(evidence, E)
  BY <1>1, RefreshRestamps DEF EvaluateAndDecide
<1> HIDE DEF E
<1>3. Unique(evidence)
  BY DEF ProvInv, EvidenceHasProvenance, Unique
<1>4. /\ Unique(evidence')
      /\ \A f \in evidence' : \E e \in evidence : /\ f.op = e.op /\ f.subject = e.subject
                                                  /\ f.key = e.key /\ f.at = e.at
  BY <1>2, <1>3, RestampedStays
<1>5. \A f \in evidence' : /\ ops'[f.op].status = "completed" /\ ops'[f.op].recorded
                           /\ f.subject = TargetOf(f.op)' /\ f.key \in ops'[f.op].facts
                           /\ f.at <= now'
  BY <1>1, <1>4, ProvenanceStays
<1>6. EvidenceHasProvenance'
  BY <1>4, <1>5 DEF EvidenceHasProvenance, Unique
<1> QED BY <1>1, <1>5, <1>6 DEF ProvInv, At

\* A result is read while its call has left nothing yet.
LEMMA ProvQuiet ==
    ASSUME LoopInv, ProvInv, [Next]_vars, UNCHANGED evidence PROVE ProvInv'
<1>1. TypeInv
  BY DEF LoopInv, ThreadInv
<1>2. \A f \in evidence : /\ ops'[f.op].status = "completed" /\ ops'[f.op].recorded
                          /\ f.subject = TargetOf(f.op)' /\ f.key \in ops'[f.op].facts
                          /\ f.at <= now'
  BY ProvenanceStays
<1>3. EvidenceHasProvenance'
  BY <1>2 DEF ProvInv, EvidenceHasProvenance
<1>4. At("extract")' => ops'[task'.op].recorded /\ \A e \in evidence' : e.op # task'.op
  <2>1. CASE IngestCallState
    <3>1. PICK o \in DOMAIN ops : \/ \E reply \in Replies : IngestReply(o, reply)
                                  \/ \E cause \in {"line", "number"} : IngestFailure(o, cause)
      BY <2>1 DEF IngestCallState
    <3>2. /\ ops[o].recorded /\ ops[o].status # "completed" /\ task'.op = o
      BY <3>1 DEF IngestReply, IngestFailure, MayIngest, Go, Idle
    <3>3. \A e \in evidence : e.op # o
      BY <3>2 DEF ProvInv, EvidenceHasProvenance
    <3>4. ops'[o].recorded
      BY <3>1, <3>2, CallsRemain
    <3> QED BY <3>2, <3>3, <3>4
  <2>2. CASE EscalateManually \/ Tick \/ UNCHANGED vars
    BY <1>1, <2>2, Destinations DEF ProvInv, At, rowVars
  <2>3. CASE ~IngestCallState /\ ~(EscalateManually \/ Tick \/ UNCHANGED vars)
    BY <1>1, <2>3, Destinations, TaskFields DEF Next, Engine, At
  <2> QED BY <2>1, <2>2, <2>3
<1> QED BY <1>2, <1>3, <1>4 DEF ProvInv

LEMMA ProvInit == Init => ProvInv
<1>1. Init => evidence = {} /\ task.at = "prepare"
  BY TaskFields DEF Init
<1> QED BY <1>1 DEF ProvInv, EvidenceHasProvenance, At

LEMMA ProvStep == LoopInv /\ ProvInv /\ [Next]_vars => ProvInv'
BY ProvExtract, ProvEvaluate, ProvQuiet, EvidenceStays DEF LoopInv, ThreadInv

\* Evidence is always an answered, recorded call's, about the candidate who gave it, on a
\* fact that was asked, once: through retries, clarifications, conflicts and staleness.
THEOREM Provenance == Spec => []EvidenceHasProvenance
<1>1. ProvInv => EvidenceHasProvenance
  BY DEF ProvInv
<1> QED BY <1>1, LoopInit, LoopStep, ProvInit, ProvStep, PTL DEF Spec
-----------------------------------------------------------------------------
(* What a step leaves alone *)

\* The steps that write each row.
LEMMA Footprints ==
    ASSUME [Next]_vars
    PROVE  /\ ~ConfirmRecovery /\ ~ResolveApprovals => UNCHANGED approvals
           /\ ~LaunchOperation /\ ~DispatchRejected /\ ~DispatchFailed /\ ~CallStarted
                /\ ~IngestCallState => UNCHANGED ops
           /\ ~Prepare /\ ~StartAttempt /\ ~Invalidate /\ ~Propose /\ ~FinaliseRecovery
                => UNCHANGED strategies
           /\ ~FinaliseRecovery /\ ~Escalate /\ ~EscalateManually
                => outcome' = outcome /\ (status' = status \/ status' \notin Terminal)
           /\ ~Start => UNCHANGED started
<1> USE DEF missionVars, rowVars, Terminal
<1>1. CASE Prepare \/ Propose \/ Invalidate \/ FinaliseRecovery
  BY <1>1 DEF Prepare, Propose, Invalidate, FinaliseRecovery
<1>2. CASE StartAttempt \/ LaunchOperation \/ DispatchRejected \/ DispatchFailed \/ CallStarted
  BY <1>2 DEF StartAttempt, LaunchOperation, DispatchRejected, DispatchFailed, CallStarted
<1>3. CASE IngestCallState \/ ResolveApprovals
  BY <1>3 DEF IngestCallState, IngestReply, IngestFailure, ResolveApprovals, ResolveApproval
<1>4. CASE ConfirmRecovery \/ Escalate \/ Start \/ EscalateManually
  BY <1>4 DEF ConfirmRecovery, Escalate, Start, EscalateManually
<1>5. CASE DispatchAccepted \/ Extract \/ EvaluateAndDecide \/ HandleCallFailure \/ Replan
  BY <1>5 DEF DispatchAccepted, Extract, EvaluateAndDecide, HandleCallFailure, Replan
<1>6. CASE Tick \/ Crash \/ UNCHANGED vars
  BY <1>6 DEF Tick, Crash, vars
<1> QED BY <1>1, <1>2, <1>3, <1>4, <1>5, <1>6 DEF Next, Engine

\* A strategy is added by planning alone, and only two steps give one a new status.
LEMMA StrategiesStay ==
    ASSUME LoopInv, [Next]_vars, ~Prepare, ~Propose
    PROVE  /\ LastStrategy' = LastStrategy /\ DOMAIN strategies' = DOMAIN strategies
           /\ ~Invalidate /\ ~FinaliseRecovery =>
                \A s \in DOMAIN strategies : strategies'[s].status = strategies[s].status
<1>1. CASE StartAttempt
  BY <1>1, AttemptStarts DEF LoopInv, ThreadInv, LastStrategy
<1>2. CASE Invalidate \/ FinaliseRecovery
  <2>1. TypeInv /\ StandInv /\ strategies \in Seq(StrategyType)
    BY RowFacts DEF LoopInv, ThreadInv
  <2>2. /\ task.at \in {"invalidate", "finalise"} /\ Engaged
        /\ task.strategy = LastStrategy /\ ops[task.op].strategy = LastStrategy
        /\ LastStrategy \in DOMAIN strategies
    BY <1>2, <2>1 DEF Invalidate, FinaliseRecovery, At, Engaged, StandInv, TypeInv, TaskRefs
  <2>3. \/ UNCHANGED strategies
        \/ strategies' = Restated(LastStrategy, "invalidated", "invalidated")
        \/ strategies' = Restated(LastStrategy, "successful", "succeeded")
    BY <1>2, <2>2 DEF Invalidate, FinaliseRecovery, Restated
  <2> QED BY <1>2, <2>1, <2>2, <2>3, StatusAndAttempt DEF LastStrategy
<1>3. CASE UNCHANGED strategies
  BY <1>3 DEF LastStrategy
<1> QED BY <1>1, <1>2, <1>3, Footprints
-----------------------------------------------------------------------------
(* The end of a mission: the inductive invariant *)

\* Nothing is left that could move the mission.
Over == task = Idle /\ Calling = {} /\ Pending = {}

\* What the evidence says of a strategy's target.
Evidenced(s) == \A k \in Mandatory : StandsFor(strategies[s].target, k)
TooDear(s) == AboveCostLimit(evidence, strategies[s].target)

\* The approvals about the last strategy.
OfCurrent == {a \in DOMAIN approvals : approvals[a].strategy = LastStrategy}
Allowed ==
    /\ \A a \in OfCurrent : approvals[a].status = "approved"
    /\ OfCurrent # {} \/ ~TooDear(LastStrategy)

\* Where the answer on the last strategy is still to come or to be judged.
AskingSteps == {"launch", "dispatch", "dispatched", "ingest", "extract", "evaluate", "failed",
                "confirm"}

\* The evidence a recovery was decided on is there while it is confirmed, asked and written.
EvidencedInv ==
    task.at \in {"confirm", "finalise"} \/ Pending # {} => Evidenced(LastStrategy)

\* A human is asked last, and has agreed before a recovery is written.
ApprovalInv ==
    /\ Calling # {} \/ task.at \in AskingSteps => OfCurrent = {}
    /\ Pending # {} => OfCurrent \subseteq Pending
    /\ At("finalise") => Allowed

\* Only the last strategy succeeds, and the mission with it.
SuccessInv ==
    \A s \in DOMAIN strategies :
        strategies[s].status = "successful" => s = LastStrategy /\ outcome = "recovered"

\* How a mission has ended, and that it has.
EndInv ==
    /\ outcome = "recovered" =>
         /\ Over /\ status = "recovered" /\ Evidenced(LastStrategy) /\ Allowed
         /\ LastStrategy \in DOMAIN strategies
         /\ strategies[LastStrategy].status = "successful"
    /\ ~AllowManual /\ outcome # "none" => Over /\ status = outcome
    /\ ~AllowManual /\ outcome = "none" => status \notin Terminal

OutcomeInv == LoopInv /\ ProvInv /\ EvidencedInv /\ ApprovalInv /\ SuccessInv /\ EndInv

\* Once a mission has ended and nothing is left, no step changes anything but the clock.
LEMMA OverStays ==
    ASSUME ThreadInv, Over, outcome # "none", status \in Terminal, [Next]_vars
    PROVE  UNCHANGED <<missionVars, rowVars, task>>
<1> USE DEF missionVars, rowVars, At
<1>1. task = Idle /\ task.at = "idle"
  BY TaskFields DEF Over
<1>2. ~IngestCallState
  BY IngestsOpen DEF IngestCallState, IngestReply, IngestFailure, Over
<1>3. ~ResolveApprovals
  BY DEF ResolveApprovals, ResolveApproval, Over, Pending
<1>4. ~Engine
  BY <1>1, Destinations DEF Engine, ThreadInv
<1>5. ~Start /\ ~EscalateManually /\ ~Crash
  BY <1>1 DEF Start, EscalateManually, Crash
<1>6. Tick \/ UNCHANGED vars
  BY <1>2, <1>3, <1>4, <1>5 DEF Next
<1> QED BY <1>6 DEF Tick, vars

\* What the evidence says of a strategy changes with the evidence alone.
LEMMA SaidOfTarget ==
    ASSUME UNCHANGED evidence, NEW s, strategies'[s].target = strategies[s].target
    PROVE  (Evidenced(s)' <=> Evidenced(s)) /\ (TooDear(s)' <=> TooDear(s))
BY DEF Evidenced, StandsFor, TooDear, AboveCostLimit, Latest
-----------------------------------------------------------------------------
(* The evidence of a recovery *)

\* The decision to confirm is taken on validated evidence that holds now.
LEMMA VerdictConfirms ==
    ASSUME NEW E, NEW t, NEW v \in Verdict(E, t), v.at = "confirm"
    PROVE  \A k \in Mandatory : /\ k \notin Violated(E, t) /\ k \notin Uncertain(E, t)
                                /\ k \notin NotEvaluated(E, t)
<1> DEFINE V == Violated(E, t) \cap Mandatory
           U == Uncertain(E, t) \cap Mandatory
           N == NotEvaluated(E, t) \cap Mandatory
<1>1. V = {}
  <2> SUFFICES ASSUME V # {} PROVE v.at # "confirm"
    OBVIOUS
  <2>1. v = Go("invalidate", task.strategy, task.op)
    BY DEF Verdict
  <2> QED BY <2>1, TaskFields
<1>2. U = {}
  <2> SUFFICES ASSUME U # {} PROVE v.at # "confirm"
    OBVIOUS
  <2>1. \/ v = Go("invalidate", task.strategy, task.op)
        \/ \E facts : v = Launching(task.strategy, facts, "clarification", 1)
    BY <1>1 DEF Verdict
  <2> HIDE DEF V, U, N
  <2> QED BY <2>1, TaskFields
<1>3. N = {}
  <2> SUFFICES ASSUME N # {} PROVE v.at # "confirm"
    OBVIOUS
  <2>1. \/ v = Go("invalidate", task.strategy, task.op)
        \/ v = Launching(task.strategy, strategies[task.strategy].needs, "clarification", 1)
    BY <1>1, <1>2 DEF Verdict
  <2> QED BY <2>1, TaskFields
<1> QED BY <1>1, <1>2, <1>3

\* What holds when it is judged was not yet over when it was said.
LEMMA ConfirmIsEvidenced ==
    ASSUME LoopInv, ProvInv, ProvInv', TypeInv', EvaluateAndDecide, task'.at = "confirm"
    PROVE  Evidenced(LastStrategy)'
<1>1. /\ TypeInv /\ StandInv /\ task.at = "evaluate" /\ UNCHANGED <<strategies, ops, now>>
      /\ [Next]_vars
  BY DEF LoopInv, ThreadInv, EvaluateAndDecide, At, Next, Engine
<1>2. /\ task.op = LastOp /\ ops[LastOp].strategy = LastStrategy
  BY <1>1 DEF StandInv, Engaged, At
<1>3. PICK t : t = strategies[LastStrategy].target
  OBVIOUS
<1>4. TargetOf(task.op) = t /\ strategies'[LastStrategy'].target = t
  BY <1>1, <1>2, <1>3 DEF TargetOf, LastStrategy
<1>5. task' \in Verdict(evidence', t)
  BY <1>4 DEF EvaluateAndDecide
<1>6. \A k \in Mandatory : /\ k \notin Violated(evidence', t) /\ k \notin Uncertain(evidence', t)
                           /\ k \notin NotEvaluated(evidence', t)
  BY <1>5, VerdictConfirms
<1>7. ASSUME NEW k \in Mandatory PROVE StandsFor(t, k)'
  <2>1. k \in Keys
    BY LoopAssumption DEF LoopAssumption
  <2>2. PICK e \in Latest(evidence', t, k) : TRUE
    BY <1>6, <2>1 DEF NotEvaluated
  <2>3. e.status = "validated"
    BY <1>6, <2>1, <2>2 DEF Uncertain
  <2>4. HoldsNow(k, e.val)
    BY <1>6, <2>1, <2>2, <2>3 DEF Violated
  <2>5. e \in evidence' /\ e.at <= now' /\ e.at \in Nat /\ now \in Nat
    BY <1>1, <2>2, EvidenceStays DEF Latest, ProvInv, TypeInv, TypeOK, EvidenceType
  <2>6. Meets(k, e.val) /\ (k \in TimeKeys => e.at <= e.val)
    BY <1>1, <2>4, <2>5 DEF HoldsNow, Meets
  <2> QED BY <2>2, <2>3, <2>6 DEF StandsFor, Latest
<1> QED BY <1>4, <1>7 DEF Evidenced

LEMMA EvidencedStep ==
    ASSUME OutcomeInv, TypeInv', ProvInv', [Next]_vars PROVE EvidencedInv'
<1>1. /\ LoopInv /\ ThreadInv /\ TypeInv /\ OpenInv /\ ProvInv /\ EvidencedInv
  BY DEF OutcomeInv, LoopInv, ThreadInv
<1>2. SUFFICES ASSUME task'.at \in {"confirm", "finalise"} \/ Pending' # {}
               PROVE  Evidenced(LastStrategy)'
  BY DEF EvidencedInv
<1>3. CASE EvaluateAndDecide
  <2>1. task.at = "evaluate" /\ UNCHANGED approvals /\ task'.at # "finalise"
    BY <1>1, <1>3, Destinations DEF EvaluateAndDecide
  <2>2. Pending' = {}
    BY <1>1, <2>1, EngagedFacts DEF Engaged, Pending
  <2> QED BY <1>1, <1>2, <1>3, <2>1, <2>2, ConfirmIsEvidenced
<1>4. CASE ~EvaluateAndDecide
  <2>1. \/ task.at \in {"confirm", "finalise"}
        \/ Pending # {}
    <3>1. CASE UNCHANGED <<approvals, task>>
      BY <1>2, <3>1 DEF Pending
    <3>2. CASE ConfirmRecovery \/ ResolveApprovals
      BY <1>1, <3>2, Destinations DEF ResolveApprovals, ResolveApproval, Pending
    <3>3. CASE ~ConfirmRecovery /\ ~ResolveApprovals /\ ~UNCHANGED <<approvals, task>>
      <4>1. UNCHANGED approvals
        BY <3>3, Footprints
      <4>2. task'.at \notin {"confirm", "finalise"}
        BY <1>1, <1>4, <3>3, <4>1, Destinations, TaskFields DEF Next, Engine, rowVars
      <4> QED BY <1>2, <4>1, <4>2 DEF Pending
    <3> QED BY <3>1, <3>2, <3>3
  <2>2. ~Extract /\ ~Prepare /\ ~Propose
    BY <1>1, <2>1, Destinations, WorkingSteps DEF ThreadInv, OneLiveThread
  <2>3. UNCHANGED evidence /\ LastStrategy' = LastStrategy
    BY <1>1, <1>4, <2>2, EvidenceStays, StrategiesStay
  <2>4. LastStrategy \in DOMAIN strategies
    <3>1. CASE task.at \in {"confirm", "finalise"}
      BY <1>1, <3>1 DEF LoopInv, StandInv, Engaged, TypeInv, TaskRefs
    <3>2. CASE Pending # {}
      BY <1>1, <3>2, RowFacts DEF OpenInv, Pending
    <3> QED BY <2>1, <3>1, <3>2
  <2>5. PICK s : s = LastStrategy
    OBVIOUS
  <2>6. Evidenced(s) /\ strategies'[s].target = strategies[s].target
    BY <1>1, <2>1, <2>4, <2>5, TargetsStay DEF EvidencedInv
  <2>7. Evidenced(s)'
    BY <2>3, <2>6, SaidOfTarget
  <2> QED BY <2>3, <2>5, <2>7 DEF Evidenced
<1> QED BY <1>3, <1>4
-----------------------------------------------------------------------------
(* The last word of a human *)

LEMMA ApprovalStep == ASSUME OutcomeInv, ThreadInv', [Next]_vars PROVE ApprovalInv'
<1>1. /\ LoopInv /\ ThreadInv /\ TypeInv /\ OpenInv /\ StandInv /\ ApprovalInv
      /\ ThreadInv' /\ TypeInv'
  BY DEF OutcomeInv, LoopInv, ThreadInv
<1>2. CASE Prepare \/ Start
  <2>1. approvals = <<>> /\ approvals' = <<>> /\ task'.at # "finalise"
    <3>1. UNCHANGED approvals /\ task'.at # "finalise"
      BY <1>1, <1>2, Destinations DEF Prepare, Start, rowVars
    <3>2. CASE Prepare
      <4>1. strategies = <<>> /\ DOMAIN strategies = {}
        BY <1>1, <3>2 DEF Prepare, TypeInv, TaskRefs
      <4>2. DOMAIN approvals = {}
        BY <1>1, <4>1, RowFacts
      <4>3. Len(approvals) = 0
        BY <1>1, <4>2, RowFacts
      <4> QED BY <1>1, <3>1, <4>3, RowFacts, EmptySeq
    <3>3. CASE Start
      BY <1>1, <3>1, <3>3 DEF Start, ThreadInv, NothingBefore
    <3> QED BY <1>2, <3>1, <3>2, <3>3
  <2>2. OfCurrent' = {} /\ Pending' = {}
    BY <2>1 DEF OfCurrent, Pending
  <2> QED BY <2>1, <2>2 DEF ApprovalInv, At
<1>3. CASE Propose
  <2>1. /\ UNCHANGED <<approvals, ops>> /\ Calling = {} /\ Pending = {}
        /\ task'.at \in {"launch", "escalate"}
    BY <1>1, <1>3, Destinations, EngagedFacts DEF Propose, Engaged
  <2>2. Calling' = {} /\ Pending' = {}
    BY <2>1 DEF Calling, Pending
  <2>3. CASE task'.at = "launch"
    <3>1. LastStrategy' = LastStrategy + 1
      BY <1>1, <1>3, <2>3, RowFacts, TaskFields DEF Propose, LastStrategy
    <3>2. OfCurrent' = {}
      <4>1. \A a \in DOMAIN approvals' : approvals'[a].strategy < LastStrategy'
        BY <1>1, <2>1, <3>1, RowFacts
      <4>2. \A a \in DOMAIN approvals' : approvals'[a].strategy # LastStrategy'
        BY <1>1, <2>1, <3>1, <4>1, RowFacts
      <4> QED BY <4>2 DEF OfCurrent
    <3> QED BY <2>2, <2>3, <3>2 DEF ApprovalInv, At
  <2>4. CASE task'.at = "escalate"
    BY <2>2, <2>4 DEF ApprovalInv, At, AskingSteps
  <2> QED BY <2>1, <2>3, <2>4
<1>4. CASE ConfirmRecovery
  <2>1. /\ task.at = "confirm" /\ UNCHANGED <<ops, strategies, evidence>>
        /\ task'.at \in {"idle", "finalise"} /\ LastStrategy' = LastStrategy
    BY <1>1, <1>4, Destinations DEF ConfirmRecovery, LastStrategy
  <2>2. OfCurrent = {} /\ Calling = {} /\ Pending = {} /\ task.strategy = LastStrategy
    BY <1>1, <2>1, EngagedFacts DEF ApprovalInv, AskingSteps, StandInv, Engaged
  <2>3. Calling' = {}
    BY <2>1, <2>2 DEF Calling
  <2>4. CASE TooDear(LastStrategy)
    <3>1. /\ approvals' = Append(approvals, [strategy |-> task.strategy, status |-> "pending"])
          /\ task'.at = "idle"
      BY <1>4, <2>2, <2>4, TaskFields DEF ConfirmRecovery, TooDear
    <3>2. \A a \in DOMAIN approvals' : \/ a \in DOMAIN approvals /\ approvals'[a] = approvals[a]
                                       \/ approvals'[a].status = "pending"
      BY <1>1, <3>1, RowFacts
    <3>3. \A a \in OfCurrent' : approvals'[a].status = "pending"
      BY <2>1, <2>2, <3>2 DEF OfCurrent
    <3>4. OfCurrent' \subseteq Pending'
      BY <3>3 DEF OfCurrent, Pending
    <3> QED BY <2>3, <3>1, <3>4 DEF ApprovalInv, At, AskingSteps
  <2>5. CASE ~TooDear(LastStrategy)
    <3>1. UNCHANGED approvals /\ task'.at = "finalise"
      <4>1. task \in TaskType
        BY <1>1, RowFacts
      <4> QED BY <1>4, <2>2, <2>5, <4>1 DEF ConfirmRecovery, TooDear, TaskType
    <3>2. OfCurrent' = {} /\ Pending' = {}
      BY <2>1, <2>2, <3>1 DEF OfCurrent, Pending
    <3>3. ~TooDear(LastStrategy)'
      BY <2>1, <2>5 DEF TooDear, AboveCostLimit, Latest
    <3>4. Allowed'
      BY <3>2, <3>3 DEF Allowed
    <3> QED BY <2>3, <3>1, <3>2, <3>4 DEF ApprovalInv, AskingSteps
  <2> QED BY <2>4, <2>5
<1>5. CASE ResolveApprovals
  <2>1. PICK a \in DOMAIN approvals, approved \in BOOLEAN : ResolveApproval(a, approved)
    BY <1>5 DEF ResolveApprovals
  <2>2. a \in Pending /\ UNCHANGED <<ops, strategies>>
    BY <2>1 DEF ResolveApproval, Pending
  <2>3. Pending = {a} /\ Calling = {} /\ OfCurrent = {a} /\ approvals[a] \in ApprovalType
    BY <1>1, <2>2, RowFacts DEF ThreadInv, OneLiveThread, ApprovalInv, OpenInv, OfCurrent, Pending
  <2>4. /\ DOMAIN approvals' = DOMAIN approvals
        /\ approvals'[a].strategy = approvals[a].strategy
        /\ approvals'[a].status = IF approved THEN "approved" ELSE "rejected"
        /\ \A b \in DOMAIN approvals : b # a => approvals'[b] = approvals[b]
    BY <2>1, <2>3 DEF ResolveApproval, ApprovalType
  <2>5. task'.at = IF approved THEN "finalise" ELSE "invalidate"
    BY <2>1, TaskFields DEF ResolveApproval
  <2>6. OfCurrent' = OfCurrent /\ Calling' = {} /\ Pending' = {}
    BY <2>2, <2>3, <2>4 DEF OfCurrent, Calling, Pending, LastStrategy
  <2>7. At("finalise")' => Allowed'
    BY <2>3, <2>4, <2>5, <2>6 DEF Allowed, At
  <2> QED BY <2>5, <2>6, <2>7 DEF ApprovalInv, AskingSteps
<1>6. CASE ~(Prepare \/ Start \/ Propose \/ ConfirmRecovery \/ ResolveApprovals)
  <2>1. /\ UNCHANGED approvals /\ LastStrategy' = LastStrategy
        /\ \A s \in DOMAIN strategies : strategies'[s].target = strategies[s].target
    BY <1>1, <1>6, Footprints, StrategiesStay, TargetsStay
  <2>2. OfCurrent' = OfCurrent /\ Pending' = Pending
    BY <2>1 DEF OfCurrent, Pending
  <2>3. task'.at = "finalise" => UNCHANGED task /\ UNCHANGED evidence /\ UNCHANGED strategies
    BY <1>1, <1>6, Destinations, TaskFields DEF Next, Engine, rowVars
  <2>4. At("finalise")' => Allowed'
    <3>1. At("finalise")' => (TooDear(LastStrategy)' <=> TooDear(LastStrategy))
      BY <2>1, <2>3 DEF TooDear, AboveCostLimit, Latest, At
    <3> QED BY <1>1, <2>1, <2>2, <2>3, <3>1 DEF ApprovalInv, Allowed, At
  <2>5. Calling' # {} \/ task'.at \in AskingSteps => Calling # {} \/ task.at \in AskingSteps
    <3>1. CASE UNCHANGED <<ops, task>>
      BY <3>1 DEF Calling
    <3>2. CASE IngestCallState
      BY <1>1, <3>2, IngestsOpen DEF IngestCallState, IngestReply, IngestFailure
    <3>3. CASE DispatchAccepted \/ DispatchFailed \/ DispatchRejected \/ CallStarted \/ LaunchOperation
      BY <1>1, <3>3, Destinations DEF AskingSteps
    <3>4. CASE Extract \/ EvaluateAndDecide \/ HandleCallFailure
      BY <1>1, <3>4, Destinations DEF AskingSteps
    <3>5. CASE Invalidate \/ Replan \/ FinaliseRecovery \/ Escalate \/ Crash
      <4>1. UNCHANGED ops /\ task'.at \notin AskingSteps
        BY <1>1, <3>5, Destinations, TaskFields
           DEF AskingSteps, Invalidate, Replan, FinaliseRecovery, Escalate, Crash, rowVars
      <4> QED BY <4>1 DEF Calling
    <3>6. CASE EscalateManually \/ Tick \/ UNCHANGED vars
      BY <1>1, <3>1, <3>6, Destinations DEF rowVars
    <3>7. CASE StartAttempt
      BY <3>1, <3>7 DEF StartAttempt
    <3> QED BY <1>6, <3>2, <3>3, <3>4, <3>5, <3>6, <3>7 DEF Next, Engine
  <2> QED BY <1>1, <2>2, <2>4, <2>5 DEF ApprovalInv
<1> QED BY <1>2, <1>3, <1>4, <1>5, <1>6
-----------------------------------------------------------------------------
(* The one success *)

\* The last strategy was not successful while a handler still works towards its success.
LEMMA SuccessStep == ASSUME OutcomeInv, TypeInv', [Next]_vars PROVE SuccessInv'
<1>1. /\ LoopInv /\ ThreadInv /\ TypeInv /\ StandInv /\ SuccessInv /\ EndInv
  BY DEF OutcomeInv, LoopInv, ThreadInv
<1>2. CASE outcome = "recovered"
  <2>1. Over /\ status \in Terminal /\ outcome # "none"
    BY <1>1, <1>2 DEF EndInv, Terminal
  <2>2. UNCHANGED <<missionVars, rowVars, task>>
    BY <1>1, <2>1, OverStays
  <2> QED BY <1>1, <2>2 DEF SuccessInv, LastStrategy, missionVars, rowVars
<1>3. CASE outcome # "recovered"
  <2>1. \A s \in DOMAIN strategies : strategies[s].status # "successful"
    BY <1>1, <1>3 DEF SuccessInv
  <2>2. CASE Prepare \/ Propose
    <3> DEFINE Adds == \A s \in DOMAIN strategies' :
                          \/ s \in DOMAIN strategies /\ strategies'[s] = strategies[s]
                          \/ strategies'[s].status = "active"
    <3>1. Adds
      <4>1. CASE UNCHANGED strategies
        BY <4>1
      <4>2. ASSUME NEW c, NEW needs, strategies' = <<NewStrategy(c, needs)>>
            PROVE  Adds
        BY <4>2 DEF NewStrategy
      <4>3. ASSUME NEW c, NEW needs, strategies' = Append(strategies, NewStrategy(c, needs))
            PROVE  Adds
        BY <1>1, <4>3, RowFacts DEF NewStrategy
      <4> QED BY <2>2, <4>1, <4>2, <4>3 DEF Prepare, Propose
    <3> QED BY <2>1, <3>1 DEF SuccessInv
  <2>3. CASE Invalidate
    <3>1. task.strategy = LastStrategy /\ ops[task.op].strategy = LastStrategy
      BY <1>1, <2>3 DEF Invalidate, At, StandInv, Engaged
    <3>2. LastStrategy \in DOMAIN strategies /\ strategies \in Seq(StrategyType)
      BY <1>1, <2>3, <3>1, RowFacts DEF Invalidate, At, TypeInv, TaskRefs
    <3>3. strategies' = Restated(LastStrategy, "invalidated", "invalidated")
      BY <2>3, <3>1 DEF Invalidate, Restated
    <3> QED BY <2>1, <3>2, <3>3, StatusAndAttempt DEF SuccessInv
  <2>4. CASE FinaliseRecovery
    <3>1. task.strategy = LastStrategy
      BY <1>1, <2>4 DEF FinaliseRecovery, At, StandInv, Engaged
    <3>2. LastStrategy \in DOMAIN strategies /\ strategies \in Seq(StrategyType)
      BY <1>1, <2>4, <3>1, RowFacts DEF FinaliseRecovery, At, TypeInv, TaskRefs
    <3>3. CASE outcome = "none"
      <4>1. strategies' = Restated(LastStrategy, "successful", "succeeded")
        BY <2>4, <3>1, <3>3 DEF FinaliseRecovery, Restated
      <4>2. outcome' = "recovered"
        BY <2>4, <3>3 DEF FinaliseRecovery
      <4> QED BY <2>1, <3>2, <4>1, <4>2, StatusAndAttempt DEF SuccessInv, LastStrategy
    <3>4. CASE outcome # "none"
      BY <2>1, <2>4, <3>4 DEF FinaliseRecovery, SuccessInv
    <3> QED BY <3>3, <3>4
  <2>5. CASE ~Prepare /\ ~Propose /\ ~Invalidate /\ ~FinaliseRecovery
    BY <1>1, <2>1, <2>5, StrategiesStay DEF SuccessInv
  <2> QED BY <2>2, <2>3, <2>4, <2>5
<1> QED BY <1>2, <1>3
-----------------------------------------------------------------------------
(* The end *)

\* Where a handler works, or no call and no question is open, ending leaves nothing.
LEMMA EndsOver ==
    ASSUME ThreadInv, FinaliseRecovery \/ Escalate PROVE Over'
<1>1. task.at \in {"finalise", "escalate"} /\ task' = Idle /\ UNCHANGED <<ops, approvals>>
  BY DEF FinaliseRecovery, Escalate, At, rowVars
<1>2. Calling = {} /\ Pending = {}
  BY <1>1, WorkingSteps DEF ThreadInv, OneLiveThread
<1> QED BY <1>1, <1>2 DEF Over, Calling, Pending

LEMMA EndStep == ASSUME OutcomeInv, [Next]_vars PROVE EndInv'
<1>1. /\ LoopInv /\ ThreadInv /\ TypeInv /\ StandInv /\ EvidencedInv /\ ApprovalInv /\ EndInv
      /\ outcome \in {"none"} \cup Terminal
  BY DEF OutcomeInv, LoopInv, ThreadInv, TypeInv, TypeOK
<1>2. CASE outcome = "recovered" \/ (~AllowManual /\ outcome # "none")
  <2>1. Over /\ status \in Terminal /\ outcome # "none"
    BY <1>1, <1>2 DEF EndInv, Terminal
  <2>2. UNCHANGED <<missionVars, rowVars, task>>
    BY <1>1, <2>1, OverStays
  <2>3. /\ UNCHANGED <<outcome, status, strategies, ops, evidence, approvals, task>>
        /\ LastStrategy' = LastStrategy
    BY <2>2 DEF missionVars, rowVars, LastStrategy
  <2>4. Over' <=> Over
    BY <2>3 DEF Over, Calling, Pending
  <2>5. (Evidenced(LastStrategy)' <=> Evidenced(LastStrategy)) /\ (Allowed' <=> Allowed)
    BY <2>3 DEF Evidenced, StandsFor, Latest, Allowed, OfCurrent, TooDear, AboveCostLimit
  <2> QED BY <1>1, <2>3, <2>4, <2>5 DEF EndInv
<1>3. CASE outcome # "recovered" /\ (AllowManual \/ outcome = "none")
  <2>1. CASE FinaliseRecovery
    <3>1. CASE outcome = "none"
      <4>1. /\ task.at = "finalise" /\ task.strategy = LastStrategy /\ UNCHANGED <<evidence, approvals>>
            /\ outcome' = "recovered" /\ status' = "recovered"
            /\ strategies' = Restated(LastStrategy, "successful", "succeeded")
        BY <1>1, <2>1, <3>1 DEF FinaliseRecovery, At, StandInv, Engaged, Restated
      <4>2. LastStrategy \in DOMAIN strategies /\ strategies \in Seq(StrategyType)
        BY <1>1, <4>1, RowFacts DEF TypeInv, TaskRefs
      <4>3. /\ DOMAIN strategies' = DOMAIN strategies /\ LastStrategy' = LastStrategy
            /\ strategies'[LastStrategy].status = "successful"
            /\ strategies'[LastStrategy].target = strategies[LastStrategy].target
        BY <4>1, <4>2, StatusAndAttempt DEF LastStrategy
      <4>4. Evidenced(LastStrategy) /\ Allowed
        BY <1>1, <4>1 DEF EvidencedInv, ApprovalInv, At
      <4>5. PICK s : s = LastStrategy
        OBVIOUS
      <4>6. (Evidenced(s)' <=> Evidenced(s)) /\ (TooDear(s)' <=> TooDear(s))
        BY <4>1, <4>3, <4>5, SaidOfTarget
      <4>7. Evidenced(LastStrategy)'
        BY <4>3, <4>4, <4>5, <4>6 DEF Evidenced
      <4>8. OfCurrent' = OfCurrent /\ (TooDear(LastStrategy)' <=> TooDear(LastStrategy))
        BY <4>1, <4>3, <4>5, <4>6 DEF OfCurrent, TooDear
      <4>9. Allowed'
        BY <4>1, <4>4, <4>8 DEF Allowed
      <4> QED BY <1>1, <2>1, <4>1, <4>2, <4>3, <4>7, <4>9, EndsOver DEF EndInv
    <3>2. CASE outcome # "none"
      BY <1>3, <2>1, <3>2 DEF FinaliseRecovery, EndInv
    <3> QED BY <3>1, <3>2
  <2>2. CASE Escalate
    <3>1. Over' /\ outcome' # "recovered" /\ outcome' # "none"
      BY <1>1, <1>3, <2>2, EndsOver DEF Escalate, SetEscalated
    <3>2. outcome = "none" => outcome' = "escalated" /\ status' = "escalated"
      BY <2>2 DEF Escalate, SetEscalated
    <3> QED BY <1>3, <3>1, <3>2 DEF EndInv
  <2>3. CASE EscalateManually
    BY <2>3 DEF EscalateManually, SetEscalated, EndInv
  <2>4. CASE ~FinaliseRecovery /\ ~Escalate /\ ~EscalateManually
    <3>1. outcome' = outcome /\ (status' = status \/ status' \notin Terminal)
      BY <2>4, Footprints
    <3> QED BY <1>1, <1>3, <3>1 DEF EndInv
  <2> QED BY <2>1, <2>2, <2>3, <2>4
<1> QED BY <1>1, <1>2, <1>3
-----------------------------------------------------------------------------
(* The theorems *)

LEMMA OutcomeInit == Init => OutcomeInv
<1> SUFFICES ASSUME Init PROVE OutcomeInv
  OBVIOUS
<1>1. /\ task.at = "prepare" /\ outcome = "none" /\ status = "assessing"
      /\ strategies = <<>> /\ ops = <<>> /\ approvals = <<>>
  BY TaskFields DEF Init
<1>2. Calling = {} /\ Pending = {}
  BY <1>1 DEF Calling, Pending
<1>3. EvidencedInv /\ ApprovalInv /\ SuccessInv
  BY <1>1, <1>2 DEF EvidencedInv, ApprovalInv, SuccessInv, AskingSteps, At
<1>4. EndInv
  BY <1>1 DEF EndInv, Terminal
<1> QED BY <1>3, <1>4, LoopInit, ProvInit DEF OutcomeInv

LEMMA OutcomeInvStep == OutcomeInv /\ [Next]_vars => OutcomeInv'
<1> SUFFICES ASSUME OutcomeInv, [Next]_vars PROVE OutcomeInv'
  OBVIOUS
<1>1. LoopInv' /\ ProvInv'
  BY LoopStep, ProvStep DEF OutcomeInv
<1>2. ThreadInv' /\ TypeInv'
  BY <1>1 DEF LoopInv, ThreadInv
<1>3. EvidencedInv' /\ ApprovalInv' /\ SuccessInv' /\ EndInv'
  BY <1>1, <1>2, EvidencedStep, ApprovalStep, SuccessStep, EndStep
<1> QED BY <1>1, <1>3 DEF OutcomeInv

LEMMA OutcomeHolds == Spec => []OutcomeInv
BY OutcomeInit, OutcomeInvStep, PTL DEF Spec

\* A mission is recovered on validated phone evidence for every mandatory constraint, still
\* there when the outcome is written, however long a human took to agree.
THEOREM Evidence == Spec => []RecoveryIsEvidenced
<1>1. OutcomeInv => RecoveryIsEvidenced
  BY DEF OutcomeInv, EndInv, RecoveryIsEvidenced, Evidenced
<1> QED BY <1>1, OutcomeHolds, PTL

\* A path above the cost limit is recovered with a human's approval, and never one that a
\* human turned down.
THEOREM LastWord == Spec => []HumanHasTheLastWord
<1>1. ASSUME OutcomeInv PROVE HumanHasTheLastWord
  <2> SUFFICES ASSUME NEW s \in DOMAIN strategies, strategies[s].status = "successful"
               PROVE  /\ (\E e \in Latest(evidence, strategies[s].target, Cost) :
                             e.val # NoVal /\ e.val > CostLimit) =>
                            \E a \in DOMAIN approvals :
                               approvals[a].strategy = s /\ approvals[a].status = "approved"
                      /\ \A a \in DOMAIN approvals :
                            approvals[a].strategy = s => approvals[a].status = "approved"
    BY DEF HumanHasTheLastWord
  <2>1. s = LastStrategy /\ Allowed
    BY <1>1 DEF OutcomeInv, SuccessInv, EndInv
  <2>2. \A a \in DOMAIN approvals : approvals[a].strategy = s => approvals[a].status = "approved"
    BY <2>1 DEF Allowed, OfCurrent
  <2>3. ASSUME NEW e \in Latest(evidence, strategies[s].target, Cost),
               e.val # NoVal, e.val > CostLimit
        PROVE  TooDear(LastStrategy)
    <3>1. e.val \in Nat
      BY <1>1, <2>3 DEF OutcomeInv, LoopInv, ThreadInv, TypeInv, TypeOK, EvidenceType, Latest
    <3> QED BY <2>1, <2>3, <3>1 DEF TooDear, AboveCostLimit
  <2>4. TooDear(LastStrategy) =>
           \E a \in DOMAIN approvals :
              approvals[a].strategy = s /\ approvals[a].status = "approved"
    BY <2>1, <2>2 DEF Allowed, OfCurrent
  <2> QED BY <2>2, <2>3, <2>4
<1> QED BY <1>1, OutcomeHolds, PTL

\* Where no operator interferes, status and outcome agree, and an ended mission has no
\* open call, no open question and no handler.
THEOREM Ended == Spec => []EndedMeansEnded
<1>1. ASSUME OutcomeInv PROVE EndedMeansEnded
  <2>1. Over => Calling = {} /\ Pending = {} /\ ~Working
    BY DEF Over, Working
  <2>2. ~AllowManual /\ status \in Terminal => outcome # "none"
    BY <1>1 DEF OutcomeInv, EndInv
  <2> QED BY <1>1, <2>1, <2>2 DEF OutcomeInv, EndInv, EndedMeansEnded
<1> QED BY <1>1, OutcomeHolds, PTL
-----------------------------------------------------------------------------
(* No branch drops the mission *)

\* With a mandatory constraint the decision is always to do something.
LEMMA VerdictActs ==
    ASSUME NEW E, NEW t, NEW v \in Verdict(E, t), Mandatory # {} PROVE v.at # "idle"
<1>1. \/ v = Go("invalidate", task.strategy, task.op)
      \/ v = Go("confirm", task.strategy, task.op)
      \/ \E facts : v = Launching(task.strategy, facts, "clarification", 1)
  BY DEF Verdict
<1> QED BY <1>1, TaskFields

LEMMA StrandStep == OutcomeInv /\ NeverStranded /\ [Next]_vars => NeverStranded'
<1> SUFFICES ASSUME OutcomeInv, NeverStranded, [Next]_vars,
                    started', task' = Idle, status' \notin Terminal,
                    ~AllowCrash, ~AllowManual, Mandatory # {}
             PROVE  Calling' # {} \/ (Pending' # {} /\ status' = "approval_required")
  BY DEF NeverStranded
<1>1. ThreadInv /\ TypeInv /\ EndInv /\ task'.at = "idle"
  BY TaskFields DEF OutcomeInv, LoopInv, ThreadInv
<1>2. ~Prepare
  <2>1. Prepare => started
    BY DEF Prepare, missionVars
  <2>2. Prepare => \/ task' = Go("escalate", 0, 0)
                   \/ \E needs : task' = Launching(1, needs, "verify", 1)
    BY <2>1 DEF Prepare
  <2> QED BY <1>1, <2>2, TaskFields
<1>3. ~EvaluateAndDecide
  BY <1>1, VerdictActs DEF EvaluateAndDecide
<1>4. CASE CallStarted
  <2>1. task.op \in DOMAIN ops
    BY <1>1, <1>4 DEF CallStarted, At, TypeInv, TaskRefs
  <2>2. task.op \in DOMAIN ops' /\ ops'[task.op].status = "calling"
    BY <1>1, <1>4, <2>1, RowFacts DEF CallStarted, OpType
  <2> QED BY <2>2 DEF Calling
<1>5. CASE ConfirmRecovery
  <2>1. task \in TaskType /\ approvals \in Seq(ApprovalType)
    BY <1>1, RowFacts
  <2>2. /\ approvals' = Append(approvals, [strategy |-> task.strategy, status |-> "pending"])
        /\ status' = "approval_required"
    BY <1>1, <1>5, <2>1 DEF ConfirmRecovery, TaskType
  <2>3. /\ Len(approvals) + 1 \in DOMAIN approvals'
        /\ approvals'[Len(approvals) + 1].status = "pending"
    BY <2>1, <2>2
  <2> QED BY <2>2, <2>3 DEF Pending
<1>6. ~FinaliseRecovery /\ ~Escalate
  <2>1. FinaliseRecovery \/ Escalate => task.at # "idle"
    BY DEF FinaliseRecovery, Escalate, At
  <2>2. FinaliseRecovery \/ Escalate => outcome = "none"
    BY <1>1, <2>1, TaskFields DEF EndInv, Over
  <2> QED BY <2>2 DEF FinaliseRecovery, Escalate, SetEscalated, Terminal
<1>7. ~EscalateManually /\ ~Crash
  BY DEF EscalateManually, Crash
<1>8. CASE Tick \/ UNCHANGED vars
  <2>1. UNCHANGED <<started, status, ops, approvals, task>>
    BY <1>8 DEF Tick, vars, missionVars, rowVars
  <2> QED BY <2>1 DEF NeverStranded, Calling, Pending
<1>9. CASE ~CallStarted /\ ~ConfirmRecovery /\ ~(Tick \/ UNCHANGED vars)
  BY <1>1, <1>2, <1>3, <1>6, <1>7, <1>9, Destinations DEF Next, Engine
<1> QED BY <1>4, <1>5, <1>8, <1>9

\* Unless a process died or an operator interfered, a started mission that has not ended
\* waits for an open call or for a human: no branch of the Director drops it.
THEOREM NeverDropped == Spec => []NeverStranded
<1>1. Init => NeverStranded
  BY DEF Init, NeverStranded
<1> QED BY <1>1, StrandStep, OutcomeInit, OutcomeInvStep, PTL DEF Spec
=============================================================================
