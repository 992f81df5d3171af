# PHONEOPS in TLA+

PHONEOPS (`src/apps/api`) recovers a disrupted delivery, booking or shift by phone. An exception comes in, a
mission is opened, a Recovery Director picks a candidate, has CALL-E phone it, turns the answer into evidence,
checks the evidence against constraints, and recovers, asks again, replans with the next candidate, asks a human
to approve, or escalates. This directory specifies that behaviour, model-checks it with TLC and proves the
invariants and the refinements with TLAPS. The code is the reference: definitions are named after it, and the `map` of `PROJECT.json`
gives the lines each one stands for.

## 1. Inventory

Paths are relative to `src/apps/api/app`.

| Component | Code | State | Operations | What makes it correct |
|---|---|---|---|---|
| Recovery Director | `engine/director.py` | the mission row, one asyncio lock per mission | prepare, start, launch, ingest, evaluate, retry, replan, confirm, finalise, escalate, resolve approval, poll | one thing moves a mission at a time; a started mission ends or asks a human; the outcome is written once |
| Planner, guardrails | `engine/planner.py`, `engine/guardrails.py` | strategies; `replan_count`, `operation_count` | plan, replan, budgets, window | no candidate twice, budgets hold, no loop for ever |
| Call operations | `engine/call_operations.py` | PhoneOperation, CallRecord | create, dispatch, apply state | every call has a cause; no call twice |
| Intelligence agent | `engine/intelligence.py` | Evidence | extract from schema or transcript, mark conflicts | evidence is what was asked, of whom it was asked; a failed call is none |
| Constraints, decision, policy | `engine/constraints.py`, `decision.py`, `policy.py` | status of evidence | evaluate, decide, enforce | only validated, fresh evidence recovers; cost above the limit needs a human |
| Mission intake, requests | `services/mission_service.py`, `catalog.py`, `api/routes/exceptions.py`, `demo.py`, `missions.py`, `api/deps.py` | exception, mission, candidates, constraints; one session per request | create, start (at once, in the background, by itself), escalate, decide | a mission is started once, an approval decided once, a late start revives nothing |
| CALL-E adapter, delivery | `integrations/calle/`, `api/routes/webhooks.py`, `operations.py`, poller in `main.py` | none of its own | create call, get call, webhook, poll, refresh, manual ingestion | each result is ingested exactly once, however it is delivered |
| Events | `events/recorder.py`, `bus.py`, `api/routes/events.py` | the event table, one queue of 512 per subscriber | record (commit, then publish), replay from `since`, forward, keep alive | numbers without gaps; what a client is told of is readable |
| Web console | `apps/web/src/hooks/useMission.ts`, the proxy of the stream, `HumanBoundary.tsx` | the aggregate on the screen, the watermark, `pending` and `dirty` | read, stream, read again, poll | the screen never goes back, never stays behind, and raises no old alert |
| Telnyx simulator | `api/routes/telnyx_sim.py`, `integrations/telnyx/` | memories of 512 events and calls | answer, speak, hang up | a redelivered event does nothing twice, every call is hung up |
| Clock arithmetic | `services/timeutil.py`, with `engine/constraints.py` | none | parse a time, anchor it near the cutoff, compare it with the requirement and with now | the verdict is that of the moment that was meant |
| Views | `services/view.py` | none | a dozen queries, one aggregate | a torn read is never a step back |
| Clients, schemas, wording | `integrations/llm`, mock and CLI clients, `domain/schemas.py` | none | | out of scope, see section 8 |

**How they interact.** Every route and the poller open a database session of their own and take
`mission_lock(mission_id)` before calling the Director. The Director calls everything else as plain functions in
the same session. `record_event` commits the session and then publishes on the bus: an event is therefore both the
audit trail and the point where work becomes durable. CALL-E is reached over HTTP; its answers come back by
webhook, by the poller, by an operator's refresh, or directly when `create_call` is already terminal.

**What is hard.**
- *Interleaving*: deliveries of one result race each other, the operator's escalation and the approval. The lock
  orders handlers, but a handler may have read rows before it got the lock.
- *Crashes*: a handler has several commits, and nothing resumes a mission after a restart.
- *Unreliable calls*: a failed `create_call` may have placed the call.
- *Loops*: retries, clarifications and replans call each other, with counters in different places.
- *Time*: evidence ages, the window closes, approvals are granted late.
- *Old rows*: a request's session keeps a row as it was loaded before the lock; the intake has no lock at all.
- *Signals that get lost*: the gap between replay and subscription, full queues, Redis, restarts, requests that fail.
- *Midnight*: a time of day has to be put on the right day.
- *Sequences*: clarified, conflicting, hedged and changed answers accumulate as evidence for one candidate.

`PROJECT.json` lists these as hazards, each at its line, with the properties that would catch it going wrong.

## 2. Modules

| Module | What it is |
|---|---|
| `RecoveryLoop` | the recovery loop of one mission, with all properties that hold |
| `MCRecoveryLoop` | its small instances: a pickup time, a plain "available", the cost, and twelve replies |
| `RecoveryClaims` | a sentence of the CHANGELOG that the loop does not keep |
| `RecoveryLoopProofs` | type correctness, one thing at a time, the budgets and the outcome, for all constants |
| `RecoveryLineProofs` | built on it: one line of strategies, the cause of every call, the number of calls |
| `RecoveryOutcomeProofs` | built on that: evidence, recovery, authority, the end of a mission |
| `ResultPromise` | what the delivery of results promises to the loop, in three actions |
| `CallIngestion` | how results are delivered: handlers, sessions, locks and rows; it implements `ResultPromise` |
| `OperatorIngestion` | `CallIngestion` with two routes of an operator, and the two claims these break |
| `CallIngestionProofs` | a result is ingested once, the record agrees, nobody waits in a circle, and the refinement, for all constants |
| `MissionRequests` | the requests around one mission: intake, starts, escalations, decisions, with the rows their sessions loaded |
| `MissionRequestsProofs` | one start, one decision, no late background start, for all constants |
| `ViewPromise` | what a mission page promises its reader: a growing prefix of the trail |
| `EventStream` | recorder, bus, stream and the page's hook; it implements `ViewPromise` twice, for the timeline and for the status |
| `EventStreamProofs` | both refinements, and what an open page shows, for all constants |
| `ClockAnswers` | a time that is said on the phone, from its parsing to the verdict on it |
| `ClockAnswersProofs` | the verdict is that of the moment that was meant, for all constants |
| `CarrierCalls` | the demo carriers behind Telnyx: redelivered events, lost answers, bounded memories |
| `CarrierCallsProofs` | a carrier speaks once, for all constants |

`RecoveryLoop` and `CallIngestion` meet in the operation's status. For the loop the delivery is one action,
`IngestCallState`, which may happen once for an open call: that is `Close` of `ResultPromise`. `CallIngestion` looks
inside this action and shows that the code keeps the promise, and `OperatorIngestion` where it does not.

`RecoveryLoop` has one handler at a time, since all of them take the lock. `MissionRequests` looks at what that leaves
out: a request reads the mission before it waits for the lock, and the intake never waits. `EventStream` starts where
`record_event` commits, and takes a mission for the number of its events. `ClockAnswers` looks inside `Meets`, the
comparison of a time in `RecoveryLoop`. `CarrierCalls` is a system of its own, the other end of the telephone line.

### State of RecoveryLoop

The variables of `RecoveryLoop` are the rows the database holds after the last commit: the mission (`status`,
`started`, `outcome`, `replanCount`), `strategies` with their attempts, `ops` with their call records, `evidence`,
`approvals`, and the `eligible` candidates. `now` is `utcnow()`. `placed` is a history variable: the calls
really dialled, whether or not the program knows.

`task` is the handler that holds `mission_lock`: the step it stands at and its locals. There is one at most, since
every entry point takes the lock. A handler is cut at its commits: two changes in one commit are one action, two
commits are two actions, and the clock or a crash may come between them. The exception is a commit that adds an event
to the trail and changes no row of the model (RECOVERY_PATH_CONFIRMED): it is one step with the next, as a crash
before it and one after it leave the same rows. A crash resets `task` and leaves the rows.

### Actions of RecoveryLoop

| Action | Code |
|---|---|
| `Prepare`, `Start` | `prepare_mission`, `start_mission` |
| `StartAttempt` | `_launch_operation` up to RECOVERY_ATTEMPT_STARTED, at the first call of a strategy |
| `LaunchOperation` | `_launch_operation` from there up to CALL_REQUESTED, with `create_operation` |
| `DispatchAccepted`, `CallStarted` | `dispatch`, and the commit of CALL_STARTED |
| `DispatchRejected`, `DispatchFailed` | the two `CalleError` branches: rejected calls escalate, others retry |
| `IngestCallState` (`IngestReply`, `IngestFailure`) | `handle_call_update` and `ingest_call_state`, up to CALL_COMPLETED or CALL_FAILED |
| `Extract` | extraction, `persist_evidence`, `_mark_conflicts` |
| `EvaluateAndDecide` | `evaluate_mission` (ages evidence), `decide`, and the branch taken |
| `HandleCallFailure` | `_handle_call_failure` |
| `Invalidate`, `Replan`, `Propose` | `_invalidate_and_replan` in its three commits |
| `ConfirmRecovery`, `FinaliseRecovery`, `Escalate` | the same names |
| `ResolveApprovals`, `EscalateManually` | the operator's two routes |
| `Tick`, `Crash` | time, and the death of the process |

### Abstractions of RecoveryLoop

- A candidate is its rank. A time is a small natural, an answer "yes" is 1 and "no" is 0. A reply is a record of
  what was said on each fact, whether it was hedged, and whether CALL-E filled the result schema.
- The language model is a choice: with `UseLLM` the planner may name any listed candidate and any needs. Extraction
  by a language model is left out; the schema and the regex paths are modelled.
- The policy gate always allows `call_candidate` under the default authority, and that is the only one intake
  writes; so `LaunchOperation` has no gate. The cost limit, where the gate does decide, is in `ConfirmRecovery`.
- `check_duplicate_strategy` cannot fail next to the exclusion of attempted targets and is left out.
- CALLING and the CallRecord are only flushed by `dispatch`; they show in the rows from `CallStarted` on.
  EVALUATING is committed with the first event of the evaluation and is one step with it.
- A second `RecoveryOutcome` breaks the unique key on `mission_id`. The insert then fails and the session returns to
  its last commit: `FinaliseRecovery` changes no row in that case.
- A clarification that is retried counts as a retry and not as a clarification, as in the code.
- Every delivery sees the operation's committed status (`MayIngest`). A webhook does, since its session has not
  read the operation before the lock; `CallIngestion` shows it. `refresh_operation` and `ingest_result` have read it.
  They are in `OperatorIngestion`, and the theorem on `OneLiveThread` does not speak of these two routes.
- Constraints are of two kinds, a time with an upper bound and a plain answer, mandatory or not. The other operators go
  through the same comparison, which `ClockAnswers` has for times.
- The routes end with `session.refresh(mission)`, which discards what the session has not flushed. So a manual
  escalation of a mission that has an outcome changes nothing (`EscalateManually`), and the status that a rejection
  writes over an outcome may be taken back (`Escalate`).

### CallIngestion

A call stands for its operation, its record and its mission, since a mission has one open call (`OneLiveThread`).
`op` and `record` are the committed rows, `line` is the status at CALL-E, `holder` is who has `mission_lock`, and
`writer` whose open transaction has updated the record: PostgreSQL, which `docker-compose.yml` deploys, makes any
other update of that row wait. `proc` is one record per handler: where it stands, the status it carries, and its
session, that is the rows it has read (`opRow`, `recordRow`). SQLAlchemy keeps a row that is in the identity
map, and `expire_on_commit` is off, so a row that was read once is not read again; the model says so in `OpRow` and
`RecordRow`. An UPDATE is sent only for a status that differs from the one the session knows (`MayUpdate`).

| Action | Code |
|---|---|
| `CreateCall`, `CreateCallFails`, `CallStarted` | `dispatch` and the rest of `_launch_operation`, under the lock |
| `CalleWebhook`, `LookUp` | `calle_webhook` (the status is read back), `_ingest` (the record is looked up, before the lock) |
| `Sweep`, `Poll`, `PollFails`, `SweepEnds` | `poll_pending_calls`: one session for a whole sweep |
| `Acquire`, `HandleCallUpdate`, `IngestCallState`, `Act`, `Release` | `async with mission_lock`, and what is done under it |
| `Finish` | the commit at the end of a session, after the lock is free again |
| `CallMoves`, `Crash` | CALL-E; the process dies, open transactions are rolled back |
| `RefreshOperation`, `GetCall`, `ApplyState` | `refresh_operation`: the update is flushed before the lock is asked for |
| `IngestResult`, `Submit` | `ingest_result`: the status is checked before the lock, not after |

Left out: the statuses are "completed", and "failed" for every outcome that `is_business_failure` names; the other
columns of the record go the way of its status. A sweep takes its calls in any order. The steps of the Director
after the result is committed are one, `Act`; `RecoveryLoop` has them in full. A transaction never fails except in a
crash. There is one poller: two sweeps at once (`POST /demo/poll`) may wait for each other's rows, and PostgreSQL
breaks such a circle by failing one of them, which is not modelled. With SQLite a writer has the whole file; the
model says nothing of that deployment.

### MissionRequests

`row` is the committed row of the mission, with its outcome, its approval, whether a call is open and how many first
strategies it has. `last` is the number of the last event of the trail and `recorded` counts events by type; both are
history that properties need, `last` is also what `_next_sequence` reads. `lock` is `mission_lock`. `hand` is one
record per handler: its kind, where it stands, the row as its session loaded it (`seen`), and the number it has read
for the event it is about to commit.

| Action | Code |
|---|---|
| `Init` | the first commit of `create_exception_and_mission`, with EXCEPTION_DETECTED: from now on others see the mission |
| `Arrive` | a request loads the mission (`MissionDep`) and waits for the lock |
| `Acquire` | it gets the lock; background starts and results load the mission only now |
| `StartMission` | the checks on the loaded row, the window, and the claim, an UPDATE that looks at the committed row |
| `Prepare` | `prepare_mission`, for the intake and for a start: is there a strategy, is there a candidate |
| `EscalateOrLearn`, `ResolveApproval`, `EscalateAgain` | the first steps of the other handlers, and `_escalate` where there is an outcome |
| `NextSequence`, `RecordEvent` | `record_event` in two steps: the number is read, then everything is committed or, with a number that is taken or a second outcome, the handler dies and its session rolls back |
| `StartAutomatically`, `Restart` | the background start after the intake; the process ends |

Cut down: the engine's decisions between two events are free choices (`AfterEvent`), calls and replans are one, the
language model is the time between two steps. A claim and the commit that goes with it are one step, since the row is
locked in between and nobody else can claim it. `plans` is capped by the handlers there are.

### EventStream

The trail is `1..committed`; an event is its number. `announcing` is the event between commit and publish, `channel`
what Redis has taken, `conn` the generator of `stream_events` (replayed, live, over) with its queue and its `seen`,
`wire` what is on its way to the browser. `page`, `view`, `reads`, `dirty`, `alerts` are the state of `useMission`:
`page.seen` is the watermark, `reads` the requests for the aggregate under way, `view` what is on the screen.

| Action | Code |
|---|---|
| `RecordEvent`, `Publish`, `RedisReader`, `RedisLoses` | `record_event` commits, then `publish`; with Redis, without it, and with a Redis that took the message and did not say so |
| `Replay`, `Subscribe`, `Forward`, `KeepAlive` | `stream_events`: the backlog query, the first `__anext__`, the loop, and the timeout |
| `LoadMission`, `LoadTimeline`, `ReadFails` | `build_recovery_view`: the mission first, the events last, commits in between |
| `FirstAnswer`, `Answer`, `OnEvent`, `OnError`, `Refused`, `Poll`, `OnDecided` | the hook, and `EventSource` |
| `Restart` | the API restarts; what was committed and not published is never published |

The keep-alive does more than it says. `asyncio.wait_for` cancels `subscription.__anext__()`, the cancellation runs
through the asynchronous generator and finishes it, so the next `__anext__` raises `StopAsyncIteration` and the stream
ends fifteen seconds after the last event. The browser connects again with the same `since`, and the replay brings
whatever fell into the gap between backlog and subscription. `KeepAlive_Survives` is the stream as the code around it
reads: with it `EveryEventIsShown` fails. The repair of the one would need a repair of the other.

### ClockAnswers

A moment counts slots of `1/PerHour` hours on the wall clock of one zone. `Answer` takes a moment the dispatcher may
mean (of the next twenty-four hours), says it in one of the ways `parse_time` reads, and keeps the reading; `meant`
is the ghost the properties compare with. `Evaluate` is `evaluate_mission` coming back to the same evidence: `TIME`
values are anchored by `CombineCutoff` (the nearest of three days, the earlier on a tie, as `min` takes the first),
deadlines are compared with now. `Phrases` leaves out "twelve am", which `parse_time` reads as noon, and words with
minutes ("six thirty" is read as six): both are plain in the code and no test claims otherwise. Daylight saving is left
out, as the code subtracts wall clocks of one zone.

### CarrierCalls

`seen` and `playing` are `_SEEN` and `_PLAYING` in their order, `commands` the handlers that wait for Telnyx. `line`,
`spoken`, `raised`, `arrived`, `recent` and the actions `Ring`, `SpeakEnds`, `CallerHangsUp`, `CarryOut`, `Delivers` are Telnyx, modelled
from how the route uses it: events in any order, redelivered as long as they are among the last `Retries` that
arrived, commands that are carried out although the sender is told of a failure. `HandleEvent` is the route up to its
first `await`, `IgnoreDuplicate` the same for an event it has handled: it still registers the call's carrier. `heard`
is a history variable: for each call on the line, the other calls that an event with a number has named since it rang.
`Lines`, `Late` and `Failures` only bound the run: calls on the line at once, events on their way when a call rings that
is not among the first `Lines`, and the calls that may have a command that fails. That calls ring in the order of their numbers loses nothing, as their names mean
nothing. The theorems hold for all values of these constants.

## 3. Runs

Deadlock is not checked anywhere: a mission that has ended, or waits for a human who never answers, really
stops, and so does `CallIngestion` when every call is closed and no delivery is left, `MissionRequests` when all
requests are over, `EventStream` when the page has given up, `CarrierCalls` when the lines are down.

**loop_answers** (1.8 million states). Twelve replies, failed and refused calls, clarifications, retries,
replans, a crash at every step; five calls, two candidates, two attempts, one clarification. The clock stands,
which makes room for the answers. It shows that
- a mission is moved by one thing at a time (`OneLiveThread`), although results are delivered directly, by webhook
  or by the poller, and crashes cut handlers anywhere;
- strategies form one line (`StrategiesFormOneLine`) and every call has the cause the audit trail gives it
  (`EveryCallHasItsCause`), through every mixture of retry, clarification and replan;
- nobody is phoned more often than retries and clarifications allow (`CallsAreBounded`). The bound is four here
  and five calls are budgeted, so it is not the budget that stops them;
- every piece of evidence has its provenance (`EvidenceHasProvenance`).

**loop_clock** (0.70 million states). The clock runs to 5: past the time to live of evidence (1) and past the
window (4), while calls and approvals are open. Three calls are enough for an answer, a clarification and a call
to the second candidate. It shows that a recovery rests on validated evidence of the selected candidate that met
every mandatory constraint (`RecoveryIsEvidenced`); that a human keeps the last word on cost
(`HumanHasTheLastWord`); that an ended mission has nothing open (`EndedMeansEnded`); that no branch drops a mission
(`NeverStranded`); and, under fairness, that a started mission ends or asks a human (`StartedMissionEnds`).

**loop_operator** (1.06 million states). Three candidates, a language model that chooses freely, crashes, and an
operator who escalates at any time, also while a call is open. `BudgetsHold` and `OutcomeIsWrittenOnce` still
hold. Three candidates but one replan, so that the replan budget and not the candidates is what ends the loop.

The bounds are small because the loop is: one strategy after another, one call after another. What is needed is
one more of everything than the shortest run of each branch takes, and one run in which each budget is the one
that gives out first: replans in `loop_operator`, calls in `loop_clock`, candidates in `loop_answers`.
`MaxTime` only bounds the clock; all other constants are limits of the code.

**ingestion_race** (1.37 million states). Two calls, one delivery by webhook, the poller, no crash. Two calls because
a sweep holds rows of the one while it works on the other; one webhook because the poller and the handler that
placed the call are competitors already. It shows that
- a result is ingested once, and acted upon at most once, whoever brings it (`IngestedOnce`);
- no late status, flushed by one session and committed after another has ingested, overwrites the record
  (`RecordAgrees`), although records are written back from sessions that were opened much earlier;
- nobody waits in a circle through the lock and the rows (`NoWaitingCircle`). Every path asks for the lock first and
  updates rows under it, and a sweep that keeps a row past the lock asks for no lock its waiters hold.

**ingestion_live** (0.12 million states). One call, two deliveries that may come at any time or never, the poller, one
restart. Every started call is acted upon unless the process died (`EveryCallIsActedUpon`): the poller makes up for
lost webhooks. And `KeepsThePromise`: `CallIngestion` implements `ResultPromise`, its liveness included, also
across the restart, since the pending calls are found in the database.

**Fairness of CallIngestion.** `SF(Handler(p))`: the event loop runs on what can run, and those who wait for a lock
(asyncio) or a row (PostgreSQL) are served in turn. Weak fairness would not do, as the lock is free only now and then.
`SF(Poll(p, c))`: `get_call` does not fail for ever. `WF(CallMoves(c))`: every call ends. A webhook need not come.

**mission_requests** (0.87 million states). The intake, its autostart, three requests of any kind, one restart. Three
requests because it takes a start that is under way, one that loaded the row before, and an operator between them. It
shows that
- a mission is started once (`StartedOnce`): the check that every start makes is made on an old row, and the
  conditional UPDATE is what decides;
- two operators do not both decide an approval (`DecidedOnce`): it is loaded under the lock, unlike the mission;
- a background start, the autostart too, does not bring back a mission an operator has ended (`BackgroundStartsAreFresh`).
  A start in the foreground does: it looks at the status its session loaded before the lock, and the UPDATE looks at
  `started_at` only;
- a claimed mission is called for or ended, unless a handler was struck down (`StartIsCarriedOut`), by a
  restart or by an event number that another one took. What such a handler was about to do is lost, which no property
  excludes: the code does that (section 4).

**event_stream** (1.1 million states). Three events, two of them invalidations, a queue of one, one fault; Redis and
in-process delivery at once. A queue of one is full as soon as the second event comes; two invalidations tell an
alert that is raised again from one that comes late; the page may be opened before the first event, in the middle or
after the last. It shows that
- timeline and status on the screen are growing prefixes of what is committed (`KeepsThePromise`), although aggregates
  are torn and answers late;
- a page that is not reading has read since the last event it was told of (`ScreenIsNeverBehind`), as long as the trail
  fits the aggregate (`TrailFits`), which lists the first hundred events; it does here, so the premise never helps;
- the overlay is raised for news only (`AlertsAreNews`), through replays, reconnects and duplicates;
- what is lost anywhere is shown in the end (`EveryEventIsShown`), and so is the outcome, even when the stream is gone
  for good (`OutcomeIsShown`).

**clock_answers** (2.25 million states). Slots of an hour, cutoffs on every reading of the day and up to thirteen hours
ahead, three hours to tick between call and evaluations, all six operators. Hours are enough, as only their order,
the half day and midnight matter. Within a window of half a day the verdict is that of the moment that was meant
(`VerdictIsRight`), the margin is the true one (`MarginIsTrue`), and a violation stays one (`VerdictOnlyWorsens`).

**carrier_calls** (0.53 million states). Three calls, two on the line at once, memories of two entries, redelivery among
the last two events. Each call has four events, so the memory of handled events forgets all the time; three calls are
the fewest that make the memory of carriers evict. As long as a redelivery reaches no further back than the memory, a
carrier speaks once (`SpokenOnce`), and its line is hung up unless a command failed (`SilenceIsEnded`). For the latter
it is not enough that the calls on the line fit the memory. A call rings and hangs up, a second one rings, the
hangup of the first is redelivered and registers the first again, a third one rings, and the carrier of the second,
which is speaking, is gone: its `speak.ended` has no number and no hangup is sent. The premise
therefore counts the other calls that were heard of since a call rang, finished ones included: with fewer of them
than the memory has entries, the line is hung up. The count is exact: with `>` in place of `>=` the run fails with such a
trace. The first two calls ring at any time, the third when no event is on its way (`Late`); commands fail for the
second call only (`Failures`), the one with a call before it and one after it.

**Fairness of the new modules.** `MissionRequests`: a handler that has begun goes on (`WF(Works(h))`); requests need
not come and the lock need not be given to anyone. `EventStream`: weak fairness of everything that runs by itself
(publishing, the generator, requests and their answers, the page's handlers); the mission may stop at any event.
`OutcomeIsShown` assumes `SF(Poll)` on top: a page whose stream keeps reconnecting polls in the pauses, which are
longer (browsers wait three to five seconds) than the interval (2.5 s). `CarrierCalls`: every event arrives,
every command ends one way or the other, a spoken line comes to its end. There are finitely many of each in a run, so weak
fairness of "one of those that are left" is enough for each of them.

**Fairness of RecoveryLoop** (`FairSpec`). `WF_vars(Engine)`: the event loop runs a handler on; its external calls have timeouts
and both of their results are modelled. `WF_vars(IngestCallState)`: the poller of `main.py` asks for every open
call, so a call CALL-E accepted is reported in the end. Nothing is assumed of the operator: `Start` and
`ResolveApprovals` are not fair, and `StartedMissionEnds` therefore stops at a pending approval. It is checked
without crashes and without manual escalation: after a crash nothing resumes a mission, and the code promises
nothing there.

## 4. Where the code and its texts disagree

Each of these runs ends in a counterexample, and each is a finding in `PROJECT.json`.

- **claim_redial**: CHANGELOG 39 says dead numbers skip the retry. That holds for an error of `create_call`. A call
  *result* reaches `_handle_call_failure` as `str(state.outcome)`, which is "failed" for a dead number, and the text
  with the code (`state.error`) is not looked at. The number is dialled again.
- **claim_twice**: CHANGELOG 45 says ingestion is idempotent. `ingest_result` checks the operation's status before
  it waits for the lock. If the webhook, the poller or the call itself brings the result in the meantime, the route ingests its own as well: under
  the lock `ingest_call_state` looks at the row the session has read before, and refuses completed ones only.
  `refresh_operation` reads early in the same way.
- **claim_stuck**: `main.py` polls so that no mission is stuck. `refresh_operation` flushes the updated record, which
  locks its row, and then waits for the mission's lock. The poller has the lock and waits for the row. PostgreSQL
  does not see the lock and asyncio does not see the row, so neither gives up. The run needs strong fairness to rule
  out everything else; the counterexample ends in that circle.

Seen while modelling, without a run of their own:
- `test_failure_behaviour.py:89` asserts "no phone call once the recovery window has closed" and tries it at the start
  only. `_launch_operation` does not look at the clock, so a call that fails as the window closes is retried after it.
- `http_client.py:8`: the idempotency key keeps a retry from placing a second call. A retry is a new operation with a
  new key; a `create_call` that timed out after it placed the call is followed by a second one.
- `README.md:177`: hedged evidence is never decided on. `_latest_cost` returns the latest cost whatever its status, and
  cost is no constraint, so nobody clarifies it: a "maybe ten percent" recovers the mission without a human.
- `README.md:185`: an expired window escalates. `resolve_approval` looks at the approval's own status only; granted
  after the cutoff, it recovers the mission.
- `CHANGELOG.md:413`: a mission carries its first strategy before anyone can start it. The intake commits the mission
  before it plans and holds no lock: a start in between plans as well, and there are two strategies of version 1, or
  one of the two handlers dies of a sequence number that is taken.
- `README.md:219`: replayed history never re-triggers the overlay. It does when the first read of the page fails (the
  stream is then asked for from 0), or when the trail is longer than the hundred events of the aggregate; the premises
  of `AlertsAreNews` name both.
- `timeutil.py:202`: anchoring near the cutoff is the same as the cutoff's date whenever the window does not cross
  midnight. It is not for windows of more than half a day: with a 20:00 cutoff, a 07:00 answer is put on the next day.
- `telnyx_sim.py`: an event that is redelivered after the hangup registers its call in `_PLAYING` again; only the bound
  removes it, and it may evict a call that is on the line (see `carrier_calls`). With 512 entries that takes as many
  calls within the length of one. A failed `answer` or `hangup` is never sent again, since its event counts as handled.

## 5. Proofs

TLAPS proves the following. The theorems on `RecoveryLoop` hold for every number of candidates, keys, replies, and
every budget, from `LoopAssumption` alone (budgets and times are naturals, keys are finitely many, the cost is not a constraint key,
replies have the shape of replies). TLC evaluates the assumption in every run.

| Module | Theorem | Statement |
|---|---|---|
| `RecoveryLoopProofs` | `TypeCorrect` | `Spec => [](TypeOK /\ TaskRefs)` |
| | `OneThingAtATime` | `Spec => []OneLiveThread` |
| | `BudgetsRespected` | `Spec => []BudgetsHold` |
| | `OutcomeWrittenOnce` | `Spec => OutcomeIsWrittenOnce` |
| `RecoveryLineProofs` | `OneLine` | `Spec => []StrategiesFormOneLine` |
| | `CausesKnown` | `Spec => []EveryCallHasItsCause` |
| | `CallsBounded` | `Spec => []CallsAreBounded` |
| `RecoveryOutcomeProofs` | `Provenance` | `Spec => []EvidenceHasProvenance` |
| | `Evidence` | `Spec => []RecoveryIsEvidenced` |
| | `LastWord` | `Spec => []HumanHasTheLastWord` |
| | `Ended` | `Spec => []EndedMeansEnded` |
| | `NeverDropped` | `Spec => []NeverStranded` |
| `CallIngestionProofs` | `Types` | `Spec => []TypeOK` |
| | `OncePerCall` | `Spec => []IngestedOnce` |
| | `RecordKept` | `Spec => []RecordAgrees` |
| | `NobodyInACircle` | `Spec => []NoWaitingCircle`, for one poller |
| | `PromiseKept` | `Spec => Promise!Safety` |
| `MissionRequestsProofs` | `TypeCorrect`, `StartsOnce`, `DecidesOnce` | `Spec => []TypeOK`, `[]StartedOnce`, `[]DecidedOnce` |
| | `BackgroundFresh` | `Spec => BackgroundStartsAreFresh` |
| `EventStreamProofs` | `Types` | `Spec => []TypeOK` |
| | `PromiseKept` | `Spec => KeepsThePromise` |
| | `NeverBehind` | `Spec => []ScreenIsNeverBehind` |
| | `News` | `Spec => []AlertsAreNews` |
| `ClockAnswersProofs` | `TypeCorrect`, `VerdictRight`, `MarginTrue` | `Spec => []TypeOK`, `[]VerdictIsRight`, `[]MarginIsTrue` |
| | `OnlyWorsens` | `Spec => VerdictOnlyWorsens` |
| `CarrierCallsProofs` | `TypeCorrect`, `SpeaksOnce` | `Spec => []TypeOK`, `[]SpokenOnce` |

Those on `CallIngestion` hold for every number of calls, deliveries, pollers and restarts, from `IngestionAssumption`: the
handlers are different ones, and `TERMINAL_STATUSES` ends calls in one of two ways. `NobodyInACircle` alone has a
hypothesis of its own, that there is one poller, as `main.py` starts one; with two the statement is false (two sweeps
that update rows in different orders). Those on `MissionRequests` hold for every number of requests and restarts, from
`RequestsAssumption` (requests have names of their own), those on `EventStream` for every trail, queue, aggregate and
number of faults, from `EventsAssumption` (the numbers are positive), those on `ClockAnswers` for every division of the
hour, every cutoff and any delay, from `ClockAssumption`, those on `CarrierCalls` for every number of calls and every size
of the memories, from `CarrierAssumption`: a redelivery reaches no further back than the memory, which is what the
code's 512 entries are for.

**Type correctness.** `TypeOK` says more than types: the rows that other rows and the handler name exist. It is not
inductive. That `LaunchOperation` gives its operation an existing strategy follows only from where the handler came
from. `TaskRefs` records this, step by step: from "launch" on the handler names a strategy, from "dispatch" on a
call, and at "prepare" there is no strategy yet, which is what lets `Prepare` write `<<NewStrategy(...)>>`. There is
one lemma per action, on lemmas about what updating one row leaves alone.

**One thing at a time.** `ThreadInv` adds two facts. `CallRows`: a recorded call has left the queue, and a handler
that ingests directly holds an open call. Without it a step that closes "its" call might leave another open.
`NothingBefore`: before the start there is no call, no approval and only prepare or escalate can run. Without it
`Start` could begin to work next to an open call. The proof goes by what a step does to calls and approvals: most
leave both alone (`ThreadQuiet`), the ingestion and the dispatch failures close, `CallStarted` opens,
`ConfirmRecovery` asks, `ResolveApprovals` answers.

**Budgets.** `BudgetInv` adds that at "propose" the replan has not been counted yet: the check and the increment
are two commits apart.

**The outcome** needs no invariant: each action by itself keeps one that is there.

**The line of a mission.** Neither `StrategiesFormOneLine` nor `EveryCallHasItsCause` is inductive: a retry is the
retry of the call before it only if the handler still stands on that call. `StandInv` says so: a handler follows the
last strategy and, from the dispatch on, holds the last operation in the status its step expects (`StatusAt`); at
"launch", between two calls, `LaunchCause` says what the next one will be for. `OpenInv` says the same of what waits
outside of a handler, the open call and the pending approval, which is where the line is picked up again. It rests on
`OneLiveThread`: with two things open, two handlers could go on from the same call.

**The number of calls.** `CallCount` counts, by questions: a candidate has had `DialsPerQuestion` calls for each
clarification that was asked, and `attempt` for the last one. `LaunchBudget` carries the two checks, of retries and of
clarifications, over the commit that lies between a check and its call. The cardinality is handled one call at a time
(a step adds one member or none), so no induction over sets is needed.

**Evidence and the end.** `ProvInv` adds to provenance that a call is read once: where the handler stands at
"extract", its call has left no evidence yet. A recovery is decided in one step and written in another, with a human in
between perhaps; `EvidencedInv` says that what it was decided on is still there while it is confirmed, asked and written, and
`ApprovalInv` that a human is asked last and has agreed before the outcome is written. `EndInv` states how a mission has
ended, and `OverStays` that nothing but the clock moves one that has: no handler can begin without a call or a question,
and both are gone. `NeverStranded` is the same list of steps read the other way: every branch ends with a call, a
question or an end.

**Ingestion.** `IngestedOnce` follows from three facts. A handler that stands behind the lock holds it (`LockInv`), so
two of them work on different calls (`OneHolder`). Nobody has read the operation before it had the lock
(`FreshInv`), so the status a handler checks is the committed one: this is what `OperatorIngestion` gives up, and
where its claim fails. And nothing is known, written or waited for of a call before it is started (`RowInv`,
`LaunchInv`, `KnownInv`), so no delivery overtakes CALL_STARTED and meets a queued operation. Then only an open call
is ingested (`OpenInv`), which has no result yet (`CountInv`), and nobody comes between a result and what is made of
it (`ActInv`). `WriterInv` is for the types: what a session writes back it has read. The record follows by `LateInv`: what
is flushed and not yet committed is of a call that has neither ended nor been closed, since it was flushed under the
lock and the row keeps everybody else out. An answer that is there at once is flushed by the handler that placed the
call (`AtOnceInv`), and nobody has been told anything else by then. A circle needs somebody who has
flushed a row and waits for a lock: that is the poller alone (`FlushInv`), and it waits for another call than those
it has flushed (`SweepInv`). Whoever has that lock may wait for a row, but of a call whose lock it holds, so not for the
poller's. The refinement maps the
operation's status; CALL_STARTED is `Accept`, a `create_call` that raises is `Refuse`, the ingestion is `Close`, by
`OpenInv`, and all other steps stutter.

**The stream and the page.** There is one request for the aggregate at a time, by `dirty`; what it has read is in the
trail and not behind what it will replace on the screen (`ReadInv`), so every answer is a step of `ViewPromise`. That the
screen is not behind is a matter of the request that nothing follows: it was sent after the last signal, so it
has read at least to the watermark (`NewsInv`). Alerts follow the watermark, which a page that was loaded never
has before the end of its aggregate (`AlertInv`). Both hold while the trail fits the aggregate; as a trail never
shrinks, one that fits has always fitted, and `NewsHolds` is inductive for missions of any length.

**Requests.** Everyone but the intake who has begun holds the lock (`LockInv`), so what a handler finds in the
committed row stays true until it records its event. By `StartInv` the trail has one start exactly if the row says
started, and a handler that has claimed the mission is the first; by `DecideInv` the same holds of the approval, since
it is read under the lock. By `FreshInv` a mission that a background start has found not to be over does not end
before the start is recorded. The intake is the one that holds no lock, and `IntakeInv` says what it may still do: plan,
ask, or escalate a mission without a candidate, the one case `BackgroundStartsAreFresh` leaves out. `PlanInv` and `NumberInv` bound the
plans and say when a number has been read, for the types.

**The clock.** A moment is a whole number of days and a clock reading (`Midnights`). What is said is read as the clock of
what was meant (`ReadsTheClock`, by the ways of saying an hour). A reading is anchored on the nearest of three days, so a
moment less than half a day from the cutoff is found again from its reading alone (`AnchoredRight`): two midnights are
a multiple of a day apart, and the other candidates are at least a day away. Further away the anchor is off by whole
days (`AnchoredDaysOff`). A deadline then fails either way: the anchor is past the cutoff, or it is a day or more before a
moment less than a day ahead of the evaluation, hence over. `AInv` carries this from the answer to every evaluation.

**The carriers.** What may be delivered again is the end of the memory of handled events (`SeenInv`): an event enters both when it
first arrives, and `NewestSeq` says what forgetting the oldest leaves. So an event is handled only when it arrives for the first time (`HandledOnce`). A line is answered once, with one
event; its one command to speak is under way or has been tried, and never both (`SpeakInv`). That a call is in the
other memory once (`Distinct`) is for the types: forgetting the first entry of a call then forgets the call.

**Only model-checked**: all liveness properties, which are out of the prover's reach (`StartedMissionEnds`,
`EveryCallIsActedUpon`, `StartIsCarriedOut`, `EveryEventIsShown`, `OutcomeIsShown`, `SilenceIsEnded`, and the liveness
half of the refinement of `ResultPromise`). Every invariant and every action property of a passing run is proved.
Each property of a passing run also has a faulty variant of a definition (`Name_Fault`, next to the original) under
which TLC must find it violated.

## 6. Plan

Done: the loop with its proofs, the delivery of results with its refinement, the requests around a mission, the event
stream with its refinement, the clock, the demo carriers. What would come next:

1. `CallIngestion` with transactions that fail: PostgreSQL breaks a circle of rows, and a sweep ends at the first
   exception. Then two sweeps at once can be checked.
2. `MissionPromise`: the abstract mission (open, waiting for a human, ended) that `RecoveryLoop` refines.
3. Proofs of what 1 and 2 will state: the refinement of `MissionPromise` first.

## 7. How to run

    tlc -workers 2 -config LoopAnswers.cfg MCRecoveryLoop.tla
    tlapm RecoveryOutcomeProofs.tla

    tlc -workers 2 -config EventStream.cfg EventStream.tla
    tlc -workers 2 -config IngestionRace.cfg CallIngestion.tla
    tlapm CallIngestionProofs.tla
    tlapm EventStreamProofs.tla
    tlapm ClockAnswersProofs.tla
    tlapm CarrierCallsProofs.tla

`PROJECT.json` names the module each cfg belongs to.

## 8. Not modelled

The mock and command-line clients and the language-model client stand for the outside; what they return is a
constant of the models. Schemas, wording, seeds and migrations are shapes and text. Of the views the order of the
reads is modelled, not what is derived from the rows; of the web console the hook that reads and streams a mission, not
what is rendered. Extraction by a language model, the parsing of numbers and booleans, signature checks, the names
of statuses a provider may use, and the reset of the demo, which deletes missions, are left out. With SQLite a writer
has the whole file; the models speak of PostgreSQL.
