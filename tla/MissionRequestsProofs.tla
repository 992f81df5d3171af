----------------------- MODULE MissionRequestsProofs -----------------------
(***************************************************************************)
(* A mission is started once, an approval decided once, and a background   *)
(* start revives nothing, for any number of requests and restarts.  The    *)
(* argument: every handler but the intake that has begun holds the lock    *)
(* (LockInv), so what it has found in the committed row stays true until   *)
(* it records its event (StartInv, DecideInv, FreshInv): the intake, which *)
(* holds no lock, writes none of it (IntakeInv).                           *)
(***************************************************************************)
EXTENDS MissionRequests, TLAPS

-----------------------------------------------------------------------------
(* The inductive invariant *)

Working == Recording \cup {"begin", "prepare"}

\* Who has begun holds the lock, but the intake, which never does.
LockInv ==
    /\ lock # Intake
    /\ \A h \in Handlers \ {Intake} : hand[h].at \in Working => lock = h

\* The intake plans and asks what is unknown, or escalates a mission without a candidate.
IntakeInv ==
    /\ hand[Intake].at \in {"created", "prepare", "plan", "gap", "escalate", "done", "failed"}
    /\ hand[Intake].kind \in {"intake", "none"}
    /\ hand[Intake].at \notin Over => hand[Intake].kind = "intake"
    /\ hand[Intake].at = "escalate" => ~ eligible
    /\ \A h \in Handlers : hand[h].at = "created" => h = Intake

\* The trail has as many starts as the row says, and who has claimed a mission is the first.
StartInv ==
    /\ recorded["started"] = IF row.started THEN 1 ELSE 0
    /\ \A h \in Handlers : hand[h].at = "claimed" => ~ row.started

\* The trail has as many decisions as the row says, and who decides is the first.
DecideInv ==
    /\ recorded["granted"] + recorded["rejected"]
         = IF row.approval \in {"approved", "rejected"} THEN 1 ELSE 0
    /\ \A h \in Handlers :
          /\ hand[h].at = "confirm" => row.approval = "none"
          /\ hand[h].at \in {"granted", "rejected"} => row.approval = "pending"

\* What a background start has found not to be over is not over, nor will be.
FreshInv ==
    \A h \in Handlers : hand[h].kind = "background" =>
        /\ hand[h].at = "begin" /\ hand[h].seen.status \notin Terminal =>
              row.status \notin Terminal \/ ~ eligible
        /\ hand[h].at = "claimed" => row.status \notin Terminal \/ ~ eligible

\* A start plans once, since it starts once; the intake plans once.
StartPlanned ==
    row.started /\ \A h \in Handlers \ {Intake} : hand[h].at \notin {"prepare", "plan"}

PlanInv ==
    /\ \A h \in Handlers \ {Intake} : hand[h].at \in {"prepare", "plan"} => row.started
    /\ row.plans <= (IF hand[Intake].at \in {"gap", "done", "failed"} THEN 1 ELSE 0)
                    + (IF StartPlanned THEN 1 ELSE 0)

\* A number is read for an event that is about to be recorded.
NumberInv == \A h \in Handlers : hand[h].number # 0 => hand[h].at \in Recording

IInv ==
    /\ TypeOK /\ LockInv /\ IntakeInv /\ NumberInv
    /\ StartInv /\ DecideInv /\ FreshInv /\ PlanInv

-----------------------------------------------------------------------------
(* Names and types *)

\* The intake, the autostart and the requests are different ones, and none is "free".
LEMMA Names ==
    /\ Intake \in Handlers /\ Autostart \in Handlers /\ Requests \subseteq Handlers
    /\ Intake # Autostart /\ Intake \notin Requests
    /\ Free \notin Handlers
BY RequestsAssumption DEF Handlers, Intake, Autostart, Free

HandType == [kind : Kinds \cup {"none", "intake"},
             at : Recording \cup Over \cup {"idle", "waiting", "begin", "prepare"},
             seen : RowType, number : Nat]

\* A mission that was just created has the type of a row.
LEMMA NewRowType == NewRow \in RowType
BY DEF NewRow, RowType, Terminal

\* A handler that starts anew at some place is typed.
LEMMA HandlerType ==
    ASSUME NEW kind \in Kinds \cup {"none", "intake"},
           NEW at \in Recording \cup Over \cup {"idle", "waiting", "begin", "prepare"}
    PROVE  /\ Handler(kind, at) \in HandType
           /\ Handler(kind, at).kind = kind /\ Handler(kind, at).at = at
           /\ Handler(kind, at).number = 0
BY NewRowType DEF Handler, HandType

\* An event has a type of its own where the properties count it.
LEMMA EventOfType ==
    ASSUME NEW at \in Recording
    PROVE  /\ EventOf(at) \in EventTypes
           /\ EventOf(at) = "started" <=> at = "claimed"
           /\ EventOf(at) = "granted" <=> at = "granted"
           /\ EventOf(at) = "rejected" <=> at = "rejected"
BY DEF Recording, EventOf, EventTypes

-----------------------------------------------------------------------------
(* Steps that leave the row and the trail alone *)

\* What a handler may become without touching the row: its lock, its place, and what it
\* relies upon.
Fits(h, r) ==
    /\ r \in HandType
    /\ h = Intake =>
          /\ lock' = lock
          /\ r.at \in {"created", "prepare", "plan", "gap", "escalate", "done", "failed"}
          /\ r.kind \in {"intake", "none"} /\ (r.at \notin Over => r.kind = "intake")
          /\ r.at = "escalate" => ~ eligible
          /\ hand[h].at \in {"gap", "done", "failed"} => r.at \in {"gap", "done", "failed"}
    /\ h # Intake =>
          /\ r.at \in Working => lock' = h /\ lock \in {Free, h}
          /\ r.at \notin Working => lock' = IF lock = h THEN Free ELSE lock
          /\ r.at \in {"prepare", "plan"} => hand[h].at \in {"prepare", "plan"}
    /\ r.number # 0 => r.at \in Recording
    /\ r.at = "created" => h = Intake
    /\ r.at = "claimed" => ~ row.started
    /\ r.at = "confirm" => row.approval = "none"
    /\ r.at \in {"granted", "rejected"} => row.approval = "pending"
    /\ r.kind = "background" =>
          /\ r.at = "begin" /\ r.seen.status \notin Terminal =>
                row.status \notin Terminal \/ ~ eligible
          /\ r.at = "claimed" => row.status \notin Terminal \/ ~ eligible

\* One handler moves on, and the row and the trail stay as they are.
LEMMA Quiet ==
    ASSUME IInv, NEW h \in Handlers, NEW r, Fits(h, r),
           hand' = [hand EXCEPT ![h] = r],
           UNCHANGED <<row, eligible, last, recorded, restarts>>
    PROVE  IInv'
<1> USE Names DEF IInv
<1>0. hand \in [Handlers -> HandType] /\ hand' \in [Handlers -> HandType]
  BY DEF TypeOK, HandType, Fits
<1>h. hand'[h] = r /\ \A g \in Handlers : g # h => hand'[g] = hand[g]
  BY <1>0
<1>1. LockInv'
  <2>1. lock' # Intake
    BY DEF LockInv, Fits, Free, Intake
  <2>2. ASSUME NEW g \in Handlers \ {Intake}, hand'[g].at \in Working PROVE lock' = g
    BY <1>h, <2>2 DEF LockInv, Fits
  <2> QED BY <2>1, <2>2 DEF LockInv
<1>2. TypeOK'
  <2>1. lock' \in Handlers \cup {Free}
    BY DEF TypeOK, Fits
  <2>2. ASSUME lock' # Free PROVE hand'[lock'].at \notin Over \cup {"idle", "waiting"}
    <3>1. CASE lock' = h
      BY <3>1, <2>2, <1>h, <1>1 DEF Fits, Working, Over, LockInv, Recording
    <3>2. CASE lock' # h
      BY <3>2, <2>1, <2>2, <1>h DEF Fits, TypeOK
    <3> QED BY <3>1, <3>2
  <2> QED BY <1>0, <2>1, <2>2 DEF TypeOK, HandType
<1>3. IntakeInv'
  BY <1>h DEF IntakeInv, Fits
<1>n. NumberInv'
  BY <1>h DEF NumberInv, Fits
<1>4. StartInv'
  BY <1>h DEF StartInv, Fits
<1>5. DecideInv'
  BY <1>h DEF DecideInv, Fits
<1>6. FreshInv'
  BY <1>h DEF FreshInv, Fits
<1>7. PlanInv'
  <2>1. StartPlanned => StartPlanned'
    BY <1>h DEF StartPlanned, Fits
  <2>2. hand[Intake].at \in {"gap", "done", "failed"} => hand'[Intake].at \in {"gap", "done", "failed"}
    BY <1>h DEF Fits
  <2>3. \A g \in Handlers \ {Intake} : hand'[g].at \in {"prepare", "plan"} => row.started
    BY <1>h DEF PlanInv, Fits
  <2>4. row.plans \in Nat
    BY DEF TypeOK, RowType
  <2> QED BY <2>1, <2>2, <2>3, <2>4 DEF PlanInv
<1> QED BY <1>1, <1>2, <1>3, <1>n, <1>4, <1>5, <1>6, <1>7

\* A handler that is over, and gives the lock back if it had it.
LEMMA EndsQuietly ==
    ASSUME IInv, NEW h \in Handlers, NEW at \in Over, h = Intake => at # "refused",
           Ends(h, at), UNCHANGED <<row, eligible, last, recorded, restarts>>
    PROVE  IInv'
<1> DEFINE r == Handler("none", at)
<1>1. r \in HandType /\ r.kind = "none" /\ r.at = at /\ r.number = 0
  BY HandlerType DEF Over
<1>2. h = Intake => lock' = lock
  BY DEF Ends, IInv, LockInv
<1>3. Fits(h, r)
  BY <1>1, <1>2 DEF Fits, Ends, Over, Working, Recording
<1>4. hand' = [hand EXCEPT ![h] = r]
  BY DEF Ends
<1> HIDE DEF r
<1> QED BY <1>3, <1>4, Quiet

\* A handler that goes on behind the lock, or without it if it is the intake.
LEMMA GoesQuietly ==
    ASSUME IInv, NEW h \in Handlers, NEW at \in Working \ {"begin", "created"}, hand[h].at \in Working,
           Goes(h, at), UNCHANGED <<row, eligible, last, recorded, lock, restarts>>,
           h = Intake => /\ at \in {"prepare", "plan", "escalate"}
                         /\ hand[h].at \notin {"gap", "done", "failed"},
           h # Intake /\ at \in {"prepare", "plan"} => hand[h].at \in {"prepare", "plan"},
           at = "escalate" /\ h = Intake => ~ eligible,
           at = "claimed" => ~ row.started,
           at = "claimed" /\ hand[h].kind = "background" => row.status \notin Terminal \/ ~ eligible,
           at = "confirm" => row.approval = "none",
           at \in {"granted", "rejected"} => row.approval = "pending"
    PROVE  IInv'
<1> DEFINE r == Handler(hand[h].kind, at)
<1>1. hand[h].kind \in Kinds \cup {"none", "intake"}
  BY DEF IInv, TypeOK
<1>2. r \in HandType /\ r.kind = hand[h].kind /\ r.at = at /\ r.number = 0
  BY <1>1, HandlerType DEF Working
<1>3. h # Intake => lock = h
  BY DEF IInv, LockInv
<1>4. h = Intake => hand[h].kind = "intake"
  BY DEF IInv, IntakeInv, Over, Working, Recording
<1> HIDE DEF r
<1>5. Fits(h, r)
  BY <1>2, <1>3, <1>4 DEF Fits, Working
<1>6. hand' = [hand EXCEPT ![h] = r]
  BY DEF Goes, r
<1> QED BY <1>5, <1>6, Quiet

-----------------------------------------------------------------------------
(* One lemma per action that leaves the row and the trail alone *)

\* A request loads the mission and waits.
LEMMA ArriveStep ==
    ASSUME IInv, NEW h \in Requests, NEW kind \in Kinds, Arrive(h, kind)
    PROVE  IInv'
<1> DEFINE r == [kind |-> kind, at |-> "waiting", seen |-> row, number |-> 0]
<1>1. r \in HandType
  BY DEF IInv, TypeOK, HandType
<1>2. lock # h
  BY Names DEF IInv, TypeOK, Arrive
<1>3. Fits(h, r)
  BY <1>1, <1>2, Names DEF Fits, Arrive, Working, Recording
<1>4. hand' = [hand EXCEPT ![h] = r]
  BY DEF Arrive
<1> HIDE DEF r
<1> QED BY <1>3, <1>4, Names, Quiet DEF Arrive, trailVars

\* It gets the lock; the row it looks at is the one it has loaded, now or before.
LEMMA AcquireStep ==
    ASSUME IInv, NEW h \in Handlers, Acquire(h)
    PROVE  IInv'
<1> DEFINE r == [hand[h] EXCEPT !.at = "begin",
                                !.seen = IF hand[h].kind \in LoadsUnderLock THEN row ELSE @]
<1>1. hand[h] \in HandType
  BY DEF IInv, TypeOK, HandType
<1>2. r \in HandType /\ r.at = "begin" /\ r.kind = hand[h].kind /\ r.number = 0
  BY <1>1 DEF IInv, TypeOK, HandType, NumberInv, Acquire, Recording
<1>3. r.kind = "background" => r.seen = row
  BY <1>1, <1>2 DEF LoadsUnderLock, HandType
<1>4. h # Intake
  BY DEF Acquire, IInv, IntakeInv
<1>5. hand' = [hand EXCEPT ![h] = r]
  BY <1>1 DEF Acquire, HandType, IInv, TypeOK
<1> HIDE DEF r
<1>6. Fits(h, r)
  BY <1>2, <1>3, <1>4 DEF Fits, Acquire, Working, Recording
<1> QED BY <1>5, <1>6, Quiet DEF Acquire, trailVars

\* The checks on the loaded row, the window, and the claim.
LEMMA StartMissionStep ==
    ASSUME IInv, NEW h \in Handlers, StartMission(h)
    PROVE  IInv'
<1>1. h # Intake
  BY DEF StartMission, IInv, IntakeInv
<1>2. UNCHANGED <<row, eligible, last, recorded, restarts>> /\ hand[h].at = "begin"
  BY DEF StartMission, trailVars
<1>3. CASE Ends(h, "refused")
  BY <1>1, <1>2, <1>3, EndsQuietly DEF Over
<1>4. CASE Goes(h, "escalate") /\ UNCHANGED lock
  BY <1>1, <1>2, <1>4, GoesQuietly DEF Working, Recording
<1>5. CASE ~ row.started /\ Goes(h, "claimed") /\ UNCHANGED lock /\ hand[h].seen.status \notin Terminal
  <2>1. hand[h].kind = "background" => row.status \notin Terminal \/ ~ eligible
    BY <1>2, <1>5 DEF IInv, FreshInv
  <2> QED BY <1>1, <1>2, <1>5, <2>1, GoesQuietly DEF Working, Recording
<1> QED BY <1>3, <1>4, <1>5 DEF StartMission

\* A strategy is there, or can be made, or there is no candidate.
LEMMA PrepareStep ==
    ASSUME IInv, NEW h \in Handlers, Prepare(h)
    PROVE  IInv'
<1>1. UNCHANGED <<row, eligible, last, recorded, restarts>> /\ hand[h].at = "prepare"
  BY DEF Prepare, trailVars
<1>2. CASE Ends(h, "done")
  BY <1>1, <1>2, EndsQuietly DEF Over
<1>3. ASSUME NEW at \in {"launch", "escalate"}, Goes(h, at), UNCHANGED lock, h # Intake
      PROVE  IInv'
  BY <1>1, <1>3, GoesQuietly DEF Working, Recording
<1>4. CASE Goes(h, IF eligible THEN "plan" ELSE "escalate") /\ UNCHANGED lock
  <2>1. CASE eligible
    BY <1>1, <1>4, <2>1, GoesQuietly DEF Working, Recording
  <2>2. CASE ~ eligible
    BY <1>1, <1>4, <2>2, GoesQuietly DEF Working, Recording
  <2> QED BY <2>1, <2>2
<1> QED BY <1>2, <1>3, <1>4 DEF Prepare

\* A manual escalation or a result begins.
LEMMA EscalateOrLearnStep ==
    ASSUME IInv, NEW h \in Handlers, EscalateOrLearn(h)
    PROVE  IInv'
<1>1. h # Intake
  BY DEF EscalateOrLearn, IInv, IntakeInv
<1>2. UNCHANGED <<row, eligible, last, recorded, restarts>> /\ hand[h].at = "begin"
  BY DEF EscalateOrLearn, trailVars
<1>3. ASSUME NEW at \in {"escalate", "learned"}, Goes(h, at), UNCHANGED lock
      PROVE  IInv'
  BY <1>1, <1>2, <1>3, GoesQuietly DEF Working, Recording
<1>4. CASE Ends(h, "refused")
  BY <1>1, <1>2, <1>4, EndsQuietly DEF Over
<1> QED BY <1>3, <1>4 DEF EscalateOrLearn

\* A decision is on an approval that is pending, or refused.
LEMMA ResolveApprovalStep ==
    ASSUME IInv, NEW h \in Handlers, ResolveApproval(h)
    PROVE  IInv'
<1>1. h # Intake
  BY DEF ResolveApproval, IInv, IntakeInv
<1>2. UNCHANGED <<row, eligible, last, recorded, restarts>> /\ hand[h].at = "begin"
  BY DEF ResolveApproval, trailVars
<1>3. ASSUME NEW at \in {"granted", "rejected"}, Goes(h, at), UNCHANGED lock, row.approval = "pending"
      PROVE  IInv'
  BY <1>1, <1>2, <1>3, GoesQuietly DEF Working, Recording
<1>4. CASE Ends(h, "refused")
  BY <1>1, <1>2, <1>4, EndsQuietly DEF Over
<1> QED BY <1>3, <1>4 DEF ResolveApproval

\* A handler reads the number of its next event, and stays where it is.
LEMMA NextSequenceStep ==
    ASSUME IInv, NEW h \in Handlers, NextSequence(h)
    PROVE  IInv'
<1> DEFINE r == [hand[h] EXCEPT !.number = last + 1]
<1>1. hand[h] \in HandType /\ last \in Nat
  BY DEF IInv, TypeOK, HandType
<1>2. r \in HandType /\ r.at = hand[h].at /\ r.kind = hand[h].kind /\ r.seen = hand[h].seen
  BY <1>1 DEF HandType
<1>3. hand' = [hand EXCEPT ![h] = r]
  BY <1>1 DEF NextSequence
<1>4. r.at \in Working /\ r.at \in Recording
  BY <1>2 DEF NextSequence, Working
<1> HIDE DEF r
<1>5. Fits(h, r)
  BY <1>2, <1>4 DEF Fits, NextSequence, IInv, LockInv, IntakeInv, StartInv, DecideInv, FreshInv
<1> QED BY <1>3, <1>5, Quiet DEF NextSequence, trailVars

\* The autostart waits for the lock like any background start.
LEMMA StartAutomaticallyStep ==
    ASSUME IInv, StartAutomatically
    PROVE  IInv'
<1> DEFINE r == Handler("background", "waiting")
<1>1. r \in HandType /\ r.at = "waiting" /\ r.kind = "background" /\ r.number = 0
  BY HandlerType DEF Kinds, Starts
<1>2. lock # Autostart
  BY Names DEF IInv, TypeOK, StartAutomatically
<1>3. hand' = [hand EXCEPT ![Autostart] = r]
  BY DEF StartAutomatically
<1> HIDE DEF r
<1>4. Fits(Autostart, r)
  BY <1>1, <1>2, Names DEF Fits, StartAutomatically, Working, Recording
<1> QED BY <1>3, <1>4, Names, Quiet DEF StartAutomatically, trailVars

-----------------------------------------------------------------------------
(* Steps that write the row *)

\* Where a handler records, and what the invariant says of it there.
LEMMA WhoRecords ==
    ASSUME IInv, NEW h \in Handlers, hand[h].at \in Recording
    PROVE  /\ h # Intake => lock = h
           /\ h = Intake => hand[h].at \in {"created", "plan", "gap", "escalate"}
           /\ h # Intake => hand[h].at # "created"
           /\ h = Intake /\ hand[h].at = "escalate" => ~ eligible
           /\ \A g \in Handlers \ {Intake, h} : hand[g].at \in Working => h = Intake
BY DEF IInv, LockInv, IntakeInv, Working, Recording

\* _escalate writes a status where there is an outcome.
LEMMA EscalateAgainStep ==
    ASSUME IInv, NEW h \in Handlers, EscalateAgain(h)
    PROVE  IInv'
<1> DEFINE r == Handler("none", "done")
<1> USE Names
<1>0. /\ hand[h].at = "escalate" /\ row.outcome # "none"
      /\ UNCHANGED <<eligible, last, recorded, restarts>>
      /\ hand' = [hand EXCEPT ![h] = r] /\ lock' = IF lock = h THEN Free ELSE lock
  BY DEF EscalateAgain, Ends, trailVars
<1>1. r \in HandType /\ r.at = "done" /\ r.kind = "none" /\ r.number = 0
  BY HandlerType DEF Over
<1>2. /\ row \in RowType /\ row' \in RowType
      /\ row'.started = row.started /\ row'.approval = row.approval /\ row'.plans = row.plans
      /\ row'.status = row.status \/ row'.status = "escalated"
  BY DEF EscalateAgain, IInv, TypeOK, RowType, Terminal
<1>3. /\ h # Intake => lock = h
      /\ h = Intake => ~ eligible
      /\ \A g \in Handlers \ {Intake, h} : hand[g].at \in Working => h = Intake
  BY <1>0, WhoRecords DEF Recording
<1> HIDE DEF r
<1>4. hand' \in [Handlers -> HandType] /\ hand'[h] = r
      /\ \A g \in Handlers : g # h => hand'[g] = hand[g]
  BY <1>0, <1>1 DEF IInv, TypeOK, HandType
<1>5. LockInv'
  BY <1>0, <1>1, <1>3, <1>4 DEF IInv, LockInv, Working, Recording, Free, Intake
<1>6. TypeOK'
  <2>1. lock' # Free => hand'[lock'].at \notin Over \cup {"idle", "waiting"}
    BY <1>0, <1>3, <1>4 DEF IInv, TypeOK
  <2> QED BY <1>0, <1>2, <1>4, <2>1 DEF IInv, TypeOK, HandType
<1>7. IntakeInv' /\ NumberInv'
  BY <1>0, <1>1, <1>4 DEF IInv, IntakeInv, NumberInv, Over
<1>8. StartInv' /\ DecideInv'
  BY <1>0, <1>1, <1>2, <1>4 DEF IInv, StartInv, DecideInv
<1>9. FreshInv'
  <2>1. ASSUME NEW g \in Handlers, hand'[g].kind = "background", hand'[g].at \in {"begin", "claimed"}
        PROVE  hand'[g] = hand[g] /\ (~ eligible \/ row'.status = row.status)
    BY <2>1, <1>1, <1>3, <1>4 DEF IInv, IntakeInv, Working, Recording
  <2> QED BY <2>1, <1>0 DEF IInv, FreshInv
<1>10. PlanInv'
  <2>1. StartPlanned => StartPlanned'
    BY <1>1, <1>2, <1>4 DEF StartPlanned
  <2>2. hand[Intake].at \in {"gap", "done", "failed"} => hand'[Intake].at \in {"gap", "done", "failed"}
    BY <1>1, <1>4
  <2>3. row.plans \in Nat
    BY <1>2 DEF RowType
  <2> QED BY <2>1, <2>2, <2>3, <1>1, <1>2, <1>4 DEF IInv, PlanInv
<1> QED BY <1>5, <1>6, <1>7, <1>8, <1>9, <1>10 DEF IInv

\* What a session has written by its event: each column changes at one kind of place.
LEMMA RowAfterEvent ==
    ASSUME row \in RowType, NEW at \in Recording, at = "plan" => row.plans < 2
    PROVE  /\ RowAfter(at) \in RowType
           /\ RowAfter(at).started = (row.started \/ at = "claimed")
           /\ RowAfter(at).plans = IF at = "plan" THEN row.plans + 1 ELSE row.plans
           /\ at \notin {"confirm", "granted", "rejected"} => RowAfter(at).approval = row.approval
           /\ at = "confirm" => RowAfter(at).approval = "pending"
           /\ at \in {"granted", "rejected"} => RowAfter(at).approval \in {"approved", "rejected"}
           /\ at \in {"created", "plan", "gap"} => RowAfter(at).status = row.status
<1>1. CASE at = "claimed"
  BY <1>1 DEF RowAfter, RowType, Terminal
<1>2. CASE at = "plan"
  BY <1>2 DEF RowAfter, RowType, Terminal
<1>3. CASE at = "launch"
  BY <1>3 DEF RowAfter, RowType, Terminal
<1>4. CASE at = "learned"
  BY <1>4 DEF RowAfter, RowType, Terminal
<1>5. CASE at = "confirm"
  BY <1>5 DEF RowAfter, RowType, Terminal
<1>6. CASE at \in {"granted", "rejected"}
  BY <1>6 DEF RowAfter, RowType, Terminal
<1>7. CASE at \in {"finalise", "escalate"}
  BY <1>7 DEF RowAfter, RowType, Terminal
<1>8. CASE at \in {"created", "gap"}
  BY <1>8 DEF RowAfter, RowType, Terminal
<1> QED BY <1>1, <1>2, <1>3, <1>4, <1>5, <1>6, <1>7, <1>8 DEF Recording

\* Where a handler goes on after its event: it never claims, decides or plans from there,
\* and asks a human where nobody was asked.
LEMMA WhereNext ==
    ASSUME NEW h \in Handlers, hand[h].at \in Recording, NEW at \in AfterEvent(h)
    PROVE  /\ at \in {"prepare", "gap", "done", "launch", "escalate", "finalise", "confirm"}
           /\ at = "prepare" <=> hand[h].at \in {"created", "claimed"}
           /\ at = "gap" <=> hand[h].at = "plan"
           /\ at = "confirm" => hand[h].at = "learned" /\ row.approval = "none"
           /\ h = Intake /\ hand[h].at = "gap" => at = "done"
           /\ hand[h].at = "escalate" => at = "done"
BY DEF AfterEvent, Recording

\* record_event fails on its number: the handler is over, and nothing was written.
LEMMA RecordFailsStep ==
    ASSUME IInv, NEW h \in Handlers, RecordEvent(h), Violates(h)
    PROVE  IInv'
BY EndsQuietly DEF RecordEvent, trailVars, Over

\* record_event commits the row with the event, and the handler goes on or is over.
LEMMA RecordSucceedsStep ==
    ASSUME IInv, NEW h \in Handlers, RecordEvent(h), ~ Violates(h), hand[h].at \in Recording
    PROVE  IInv'
<1> USE Names
<1> DEFINE at == hand[h].at
<1>1. /\ row' = RowAfter(at) /\ last' = hand[h].number
      /\ recorded' = [recorded EXCEPT ![EventOf(at)] = @ + 1]
      /\ UNCHANGED <<eligible, restarts>>
  BY DEF RecordEvent
<1>2. PICK next \in AfterEvent(h) :
        IF next \in Over THEN Ends(h, next) ELSE Goes(h, next) /\ UNCHANGED lock
  BY DEF RecordEvent
<1>3. /\ next \in {"prepare", "gap", "done", "launch", "escalate", "finalise", "confirm"}
      /\ next = "prepare" <=> at \in {"created", "claimed"}
      /\ next = "gap" <=> at = "plan"
      /\ next = "confirm" => at = "learned" /\ row.approval = "none"
      /\ h = Intake /\ at = "gap" => next = "done"
      /\ at = "escalate" => next = "done"
  BY WhereNext
<1>4. /\ h # Intake => lock = h
      /\ h = Intake => at \in {"created", "plan", "gap", "escalate"}
      /\ h # Intake => at # "created"
      /\ h = Intake /\ at = "escalate" => ~ eligible
      /\ \A g \in Handlers \ {Intake, h} : hand[g].at \in Working => h = Intake
  BY WhoRecords
<1>5. at = "plan" => row.plans < 2
  <2>1. CASE h = Intake
    BY <2>1 DEF IInv, PlanInv, TypeOK, RowType
  <2>2. CASE h # Intake
    BY <2>2 DEF IInv, PlanInv, TypeOK, RowType, StartPlanned
  <2> QED BY <2>1, <2>2
<1>6. /\ row \in RowType /\ row' \in RowType
      /\ row'.started = (row.started \/ at = "claimed")
      /\ row'.plans = IF at = "plan" THEN row.plans + 1 ELSE row.plans
      /\ at \notin {"confirm", "granted", "rejected"} => row'.approval = row.approval
      /\ at = "confirm" => row'.approval = "pending"
      /\ at \in {"granted", "rejected"} => row'.approval \in {"approved", "rejected"}
      /\ at \in {"created", "plan", "gap"} => row'.status = row.status
  <2>1. row \in RowType
    BY DEF IInv, TypeOK
  <2> QED BY <1>1, <1>5, <2>1, RowAfterEvent
<1>7. /\ hand' \in [Handlers -> HandType]
      /\ \A g \in Handlers : g # h => hand'[g] = hand[g]
      /\ hand'[h].at = next /\ hand'[h].number = 0
      /\ hand'[h].kind = IF next = "done" THEN "none" ELSE hand[h].kind
      /\ lock' = IF next = "done" /\ lock = h THEN Free ELSE lock
  <2>1. hand \in [Handlers -> HandType]
    BY DEF IInv, TypeOK, HandType
  <2>2. hand[h].kind \in Kinds \cup {"none", "intake"}
    BY <2>1 DEF HandType
  <2>3. CASE next = "done"
    <3>1. Handler("none", next) \in HandType
          /\ Handler("none", next).kind = "none" /\ Handler("none", next).at = next
          /\ Handler("none", next).number = 0
      BY <2>3, HandlerType DEF Over
    <3> QED BY <1>2, <2>1, <2>3, <3>1 DEF Ends, Over
  <2>4. CASE next # "done"
    <3>1. next \in Recording \cup Over \cup {"idle", "waiting", "begin", "prepare"}
      BY <1>3 DEF Recording, Over
    <3>2. Handler(hand[h].kind, next) \in HandType
          /\ Handler(hand[h].kind, next).kind = hand[h].kind
          /\ Handler(hand[h].kind, next).at = next /\ Handler(hand[h].kind, next).number = 0
      BY <2>2, <3>1, HandlerType
    <3>3. Goes(h, next) /\ UNCHANGED lock
      BY <1>2, <1>3, <2>4 DEF Over
    <3> QED BY <2>1, <2>4, <3>2, <3>3 DEF Goes
  <2> QED BY <2>3, <2>4
<1>8. /\ recorded' \in [EventTypes -> Nat]
      /\ recorded'["started"] = IF at = "claimed" THEN recorded["started"] + 1 ELSE recorded["started"]
      /\ recorded'["granted"] = IF at = "granted" THEN recorded["granted"] + 1 ELSE recorded["granted"]
      /\ recorded'["rejected"] = IF at = "rejected" THEN recorded["rejected"] + 1 ELSE recorded["rejected"]
  <2>1. recorded \in [EventTypes -> Nat]
    BY DEF IInv, TypeOK
  <2>2. /\ EventOf(at) \in EventTypes
        /\ EventOf(at) = "started" <=> at = "claimed"
        /\ EventOf(at) = "granted" <=> at = "granted"
        /\ EventOf(at) = "rejected" <=> at = "rejected"
    BY EventOfType
  <2>3. {"started", "granted", "rejected"} \subseteq EventTypes
    BY DEF EventTypes
  <2> HIDE DEF at
  <2> QED BY <1>1, <2>1, <2>2, <2>3
<1>9. LockInv'
  BY <1>3, <1>4, <1>7 DEF IInv, LockInv, Working, Recording, Free, Intake
<1>10. TypeOK'
  <2>1. lock' # Free => hand'[lock'].at \notin Over \cup {"idle", "waiting"}
    BY <1>3, <1>4, <1>7 DEF IInv, TypeOK, Over
  <2>2. last' \in Nat
    BY <1>1 DEF IInv, TypeOK
  <2> QED BY <1>1, <1>6, <1>7, <1>8, <2>1, <2>2 DEF IInv, TypeOK, HandType
<1>11. IntakeInv' /\ NumberInv'
  BY <1>1, <1>3, <1>4, <1>7 DEF IInv, IntakeInv, NumberInv, Over
<1>12. StartInv'
  <2>1. \A g \in Handlers : hand'[g].at = "claimed" => g # h /\ g # Intake /\ hand[g].at = "claimed"
    BY <1>3, <1>7 DEF IInv, IntakeInv
  <2>2. \A g \in Handlers : hand'[g].at = "claimed" => ~ row'.started
    BY <2>1, <1>4, <1>6 DEF IInv, StartInv, Working, Recording
  <2>3. at = "claimed" => ~ row.started
    BY DEF IInv, StartInv
  <2>4. row.started \in BOOLEAN /\ row'.started \in BOOLEAN
    BY <1>6 DEF RowType
  <2>5. recorded["started"] = IF row.started THEN 1 ELSE 0
    BY DEF IInv, StartInv
  <2>6. recorded'["started"] = IF row'.started THEN 1 ELSE 0
    <3>1. CASE at = "claimed"
      <4>1. row'.started
        BY <3>1, <1>6
      <4>2. recorded["started"] = 0
        BY <3>1, <2>3, <2>5
      <4>3. recorded'["started"] = recorded["started"] + 1
        BY <3>1, <1>8
      <4> QED BY <4>1, <4>2, <4>3
    <3>2. CASE at # "claimed"
      BY <3>2, <1>6, <1>8, <2>4, <2>5
    <3> QED BY <3>1, <3>2
  <2> QED BY <2>2, <2>6 DEF StartInv
<1>13. DecideInv'
  <2>1. ASSUME NEW g \in Handlers, g # h, hand[g].at \in {"confirm", "granted", "rejected"}
        PROVE  row'.approval = row.approval
    BY <2>1, <1>4, <1>6 DEF IInv, IntakeInv, Working, Recording
  <2>2. ASSUME NEW g \in Handlers
        PROVE  /\ hand'[g].at = "confirm" => row'.approval = "none"
               /\ hand'[g].at \in {"granted", "rejected"} => row'.approval = "pending"
    BY <2>1, <1>3, <1>6, <1>7 DEF IInv, DecideInv
  <2>3. /\ at = "confirm" => row.approval = "none"
        /\ at \in {"granted", "rejected"} => row.approval = "pending"
    BY DEF IInv, DecideInv
  <2>4. recorded \in [EventTypes -> Nat] /\ {"granted", "rejected"} \subseteq EventTypes
    BY DEF IInv, TypeOK, EventTypes
  <2> QED BY <1>6, <1>8, <2>2, <2>3, <2>4 DEF IInv, DecideInv
<1>14. FreshInv'
  <2>1. ASSUME NEW g \in Handlers, hand'[g].kind = "background", hand'[g].at \in {"begin", "claimed"}
        PROVE  hand'[g] = hand[g] /\ (~ eligible \/ row'.status = row.status)
    BY <2>1, <1>3, <1>4, <1>6, <1>7 DEF IInv, IntakeInv, Working, Recording
  <2> QED BY <2>1, <1>1 DEF IInv, FreshInv
<1>15. PlanInv'
  <2>1. row.plans \in Nat
    BY <1>6 DEF RowType
  <2>2. \A g \in Handlers \ {Intake} : hand'[g].at \in {"prepare", "plan"} => row'.started
    <3> SUFFICES ASSUME NEW g \in Handlers \ {Intake}, hand'[g].at \in {"prepare", "plan"}
                 PROVE  row'.started
      OBVIOUS
    <3>1. CASE g = h
      BY <3>1, <1>3, <1>4, <1>6, <1>7
    <3>2. CASE g # h
      <4>1. row.started
        BY <3>2, <1>7 DEF IInv, PlanInv
      <4> QED BY <4>1, <1>6
    <3> QED BY <3>1, <3>2
  <2>3. StartPlanned => StartPlanned'
    <3> SUFFICES ASSUME StartPlanned PROVE StartPlanned'
      OBVIOUS
    <3>1. row.started /\ at # "claimed"
      BY DEF StartPlanned, IInv, StartInv
    <3>2. row'.started
      BY <3>1, <1>6
    <3>3. \A g \in Handlers \ {Intake} : hand'[g].at \notin {"prepare", "plan"}
      BY <3>1, <1>3, <1>4, <1>7 DEF StartPlanned
    <3> QED BY <3>2, <3>3 DEF StartPlanned
  <2>4. hand[Intake].at \in {"gap", "done", "failed"} => hand'[Intake].at \in {"gap", "done", "failed"}
    BY <1>3, <1>4, <1>7
  <2>5. at = "plan" /\ h = Intake =>
          hand'[Intake].at = "gap" /\ hand[Intake].at \notin {"gap", "done", "failed"}
    BY <1>3, <1>7
  <2>6. at = "plan" /\ h # Intake => StartPlanned' /\ ~ StartPlanned
    <3> SUFFICES ASSUME at = "plan", h # Intake PROVE StartPlanned' /\ ~ StartPlanned
      OBVIOUS
    <3>1. row'.started
      BY <1>6 DEF IInv, PlanInv
    <3>2. \A g \in Handlers \ {Intake} : hand'[g].at \notin {"prepare", "plan"}
      BY <1>3, <1>4, <1>7 DEF Working, Recording
    <3> QED BY <3>1, <3>2 DEF StartPlanned
  <2> HIDE DEF at
  <2> QED BY <1>6, <2>1, <2>2, <2>3, <2>4, <2>5, <2>6 DEF IInv, PlanInv
<1> QED BY <1>9, <1>10, <1>11, <1>12, <1>13, <1>14, <1>15 DEF IInv

\* The process ends: nobody has begun, and nobody holds the lock.
LEMMA RestartStep ==
    ASSUME IInv, Restart
    PROVE  IInv'
<1> USE Names
<1>1. /\ UNCHANGED <<row, eligible, last, recorded>>
      /\ restarts' \in 0..MaxRestarts /\ lock' = Free
  BY RequestsAssumption DEF Restart, trailVars, IInv, TypeOK
<1>2. ASSUME NEW h \in Handlers
      PROVE  /\ hand'[h] \in HandType
             /\ hand'[h].at \in Over \cup {"idle"}
             /\ \/ hand'[h] = hand[h]
                \/ hand'[h].at = "failed" /\ hand'[h].kind = "none" /\ hand'[h].number = 0
  <2>1. hand[h] \in HandType
    BY DEF IInv, TypeOK, HandType
  <2>2. /\ Handler("none", "failed") \in HandType
        /\ Handler("none", "failed").kind = "none" /\ Handler("none", "failed").at = "failed"
        /\ Handler("none", "failed").number = 0
    BY HandlerType DEF Over
  <2>3. hand'[h] = IF hand[h].at \in Over \cup {"idle"} THEN hand[h] ELSE Handler("none", "failed")
    BY DEF Restart
  <2> QED BY <2>1, <2>2, <2>3 DEF Over
<1>3. hand' \in [Handlers -> HandType]
  BY <1>2 DEF Restart
<1>4. TypeOK'
  BY <1>1, <1>3 DEF IInv, TypeOK, HandType
<1>5. LockInv'
  BY <1>1, <1>2 DEF LockInv, Working, Recording, Over, Free, Intake
<1>6. IntakeInv' /\ NumberInv'
  BY <1>1, <1>2 DEF IInv, IntakeInv, NumberInv, Over
<1>7. StartInv' /\ DecideInv' /\ FreshInv'
  BY <1>1, <1>2 DEF IInv, StartInv, DecideInv, FreshInv, Over
<1>8. PlanInv'
  <2>1. StartPlanned => StartPlanned'
    BY <1>1, <1>2 DEF StartPlanned, Over
  <2>2. hand[Intake].at \in {"gap", "done", "failed"} => hand'[Intake].at \in {"gap", "done", "failed"}
    BY <1>2 DEF IInv, IntakeInv, Over
  <2>3. \A h \in Handlers \ {Intake} : hand'[h].at \notin {"prepare", "plan"}
    BY <1>2 DEF Over
  <2>4. row.plans \in Nat
    BY DEF IInv, TypeOK, RowType
  <2> QED BY <1>1, <2>1, <2>2, <2>3, <2>4 DEF IInv, PlanInv
<1> QED BY <1>4, <1>5, <1>6, <1>7, <1>8 DEF IInv

-----------------------------------------------------------------------------
(* The theorems *)

\* The intake has just committed the mission, and nobody else has come.
LEMMA InitInv == Init => IInv
<1> SUFFICES ASSUME Init PROVE IInv
  OBVIOUS
<1> USE Names
<1>1. ASSUME NEW h \in Handlers
      PROVE  /\ hand[h] \in HandType /\ hand[h].number = 0
             /\ h = Intake => hand[h].kind = "intake" /\ hand[h].at = "created"
             /\ h # Intake => hand[h].kind = "none" /\ hand[h].at = "idle"
  <2>1. CASE h = Intake
    <3>1. hand[h] = Handler("intake", "created")
      BY <2>1 DEF Init
    <3> QED BY <2>1, <3>1, HandlerType DEF Recording
  <2>2. CASE h # Intake
    <3>1. hand[h] = Handler("none", "idle")
      BY <2>2 DEF Init
    <3> QED BY <2>2, <3>1, HandlerType
  <2> QED BY <2>1, <2>2
<1>2. hand \in [Handlers -> HandType]
  BY <1>1 DEF Init
<1>3. /\ row \in RowType /\ ~ row.started /\ row.plans = 0 /\ row.approval = "none"
  BY NewRowType DEF Init, NewRow
<1>4. /\ recorded \in [EventTypes -> Nat] /\ recorded["started"] = 0
      /\ recorded["granted"] = 0 /\ recorded["rejected"] = 0
  BY DEF Init, EventTypes
<1>5. TypeOK
  BY <1>2, <1>3, <1>4, RequestsAssumption DEF Init, TypeOK, HandType
<1>6. LockInv /\ IntakeInv /\ NumberInv
  BY <1>1 DEF Init, LockInv, IntakeInv, NumberInv, Working, Recording, Over, Free, Intake
<1>7. StartInv /\ DecideInv /\ FreshInv
  BY <1>1, <1>3, <1>4 DEF StartInv, DecideInv, FreshInv
<1>8. PlanInv
  BY <1>1, <1>3 DEF PlanInv
<1> QED BY <1>5, <1>6, <1>7, <1>8 DEF IInv

\* Every step of every handler keeps the invariant.
LEMMA NextInv == IInv /\ [Next]_vars => IInv'
<1> SUFFICES ASSUME IInv, [Next]_vars PROVE IInv'
  OBVIOUS
<1>1. ASSUME NEW h \in Requests, NEW kind \in Kinds, Arrive(h, kind) PROVE IInv'
  BY <1>1, ArriveStep
<1>2. ASSUME NEW h \in Handlers, Acquire(h) PROVE IInv'
  BY <1>2, AcquireStep
<1>3. ASSUME NEW h \in Handlers, Works(h) PROVE IInv'
  <2>1. CASE RecordEvent(h)
    <3>1. hand[h].at \in Recording
      BY <2>1 DEF RecordEvent, IInv, NumberInv
    <3> QED BY <2>1, <3>1, RecordFailsStep, RecordSucceedsStep
  <2> QED BY <1>3, <2>1, StartMissionStep, PrepareStep, EscalateOrLearnStep,
             ResolveApprovalStep, EscalateAgainStep, NextSequenceStep DEF Works
<1>4. CASE StartAutomatically
  BY <1>4, StartAutomaticallyStep
<1>5. CASE Restart
  BY <1>5, RestartStep
<1>6. CASE UNCHANGED vars
  BY <1>6 DEF vars, trailVars, IInv, TypeOK, LockInv, IntakeInv, NumberInv, StartInv, DecideInv,
              FreshInv, PlanInv, StartPlanned
<1> QED BY <1>1, <1>2, <1>3, <1>4, <1>5, <1>6 DEF Next

\* The invariant holds in every state.
LEMMA Invariance == Spec => []IInv
BY InitInv, NextInv, PTL DEF Spec

\* Rows, handlers and the trail stay typed, and the lock's holder is at work: for any
\* number of requests and restarts.
THEOREM TypeCorrect == Spec => []TypeOK
BY Invariance, PTL DEF IInv

\* A mission is started once, however many starts there are and however old the rows
\* they look at (the claim of start_mission).
THEOREM StartsOnce == Spec => []StartedOnce
<1>1. IInv => StartedOnce
  BY DEF IInv, StartInv, StartedOnce
<1> QED BY <1>1, Invariance, PTL

\* An approval is decided once, however many operators decide at the same time
\* (resolve_approval loads it under the lock).
THEOREM DecidesOnce == Spec => []DecidedOnce
<1>1. IInv => DecidedOnce
  BY DEF IInv, DecideInv, DecidedOnce
<1> QED BY <1>1, Invariance, PTL

\* No background start revives a mission that has ended while it waited for the lock.
THEOREM BackgroundFresh == Spec => BackgroundStartsAreFresh
<1> DEFINE Fresh == \A h \in Handlers :
                       hand[h].kind = "background" /\ hand[h].at = "claimed" /\ hand'[h].at = "prepare"
                       => row.status \notin Terminal \/ ~ eligible
<1>1. IInv => Fresh
  BY DEF IInv, FreshInv
<1>2. IInv /\ [Next]_vars => [Fresh]_vars
  BY <1>1
<1> QED BY <1>2, Invariance, PTL DEF Spec, BackgroundStartsAreFresh
=============================================================================
