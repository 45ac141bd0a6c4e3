# TLA+ models of the gateway

The repository is a personal-assistant gateway in TypeScript: one Node.js process that
connects chat channels to LLM agents, with clients (apps, web UI, CLI) around it. All
paths below are relative to the repository root; `src/` is its source directory.

What makes the gateway hard is not parallelism but **interleaving at awaits**. There is
one event loop: a job runs to completion, and between two jobs anything can happen. Long
procedures (a drain, a delivery, a heartbeat batch, a shutdown) are chains of jobs that
read shared module state before an await and act on it afterwards. A gateway also
*restarts in its own process* (SIGUSR1): module state, timers and unfinished promises of
the old life survive into the new one. Both are what the models are about. One action is
one job, or the part of a job between two points where another activity can observe it.

## Contents

1. [Inventory](#inventory)
2. [Modules and how they compose](#modules)
3. [Correspondence with the code](#correspondence)
4. [Runs, bounds and what they show](#runs)
5. [Fairness](#fairness)
6. [Proofs](#proofs)
7. [Where the code and its documents disagree](#findings)
8. [Not modelled, and the plan](#plan)

<a name="inventory"></a>
## 1. Inventory

| Component | State | Operations | Interacts with |
|---|---|---|---|
| **Command queue** `src/process/command-queue.ts` | per lane: FIFO queue, active task ids, limit, generation; `gatewayDraining`; waiters | enqueue, pump, completion, clear, set limit, mark draining, reset all, wait for active tasks | every agent run, cron, run loop, reload |
| **Agent run lanes** `src/agents/pi-embedded-runner/` | `ACTIVE_EMBEDDED_RUNS` per session, attempts | `runEmbeddedPiAgent`: session lane, then global lane, retry loop; set/clear active run; abort; wait for runs | command queue, run loop, followup queue |
| **Run loop** `src/cli/gateway-cli/run-loop.ts` | `server`, `lock`, `shuttingDown`, `restartResolver`, first start | start, wait, drain, close, force exit, restart in process, signal handlers | command queue (mark, wait, reset), restart scheduler |
| **Restart scheduler** `src/infra/restart.ts`, `src/gateway/server-reload-handlers.ts` | scheduled timer, deferral pollers, authorization tokens | schedule (coalescing), defer until idle, emit SIGUSR1, config-change restart | run loop, activity counts of the queue and runs |
| **Followup queue** `src/auto-reply/reply/queue/`, `src/utils/queue-helpers.ts` | per session key: queue object (items, drop count, summary lines, draining), cached callback, recent ids | enqueue (dedupe, settings, drop policy), drain (collect, one by one, summary), finalize, clear | agent runs, channels |
| **Heartbeat wake** `src/infra/heartbeat-wake.ts` | handler, pending wakes, timer and kind, `scheduled`, `running` | request, coalesce, timer, batch, register, dispose | everything that wakes the agent; heartbeat runner |
| **Heartbeat runner** `src/infra/heartbeat-runner.ts` | per runner: agents with due times, interval timer, stopped; enabled flag | start, update config, stop, run (targeted, interval, all), interval timer | heartbeat wake, command queue (main lane busy), config reload |
| **Outbound delivery** `src/infra/outbound/` | files `{id}.json`, `{id}.delivered`, `failed/` | enqueue, ack in two phases, fail, move to failed, load, recover | channels, gateway start |
| **Cron service** `src/cron/service/` | jobs in memory and in the store file (enabled, next run, running marker, last run, errors), one timer, `running` | start with catch-up of missed jobs, timer tick, add, update, remove, list, manual run in two locked sections | command queue (cron lane), heartbeat wake, agent runs |
| **Subagent registry** `src/agents/subagent-registry*.ts`, `subagent-announce.ts`, `subagent-control.ts` | run records in memory and in `runs.json`, resumed set, pending errors, retry timers, announce flows | register, complete (event and `agent.wait`), announce, retry, give up, wake, steer, kill, sweep, recover, restore | gateway calls, agent runs, session store |
| **Session write lock** `src/agents/session-write-lock.ts` | the lock file of a session (owner, start time, age); per process the hold and how many callers share it | acquire (share, create, inspect, reclaim, wait), release, watchdog, termination signals, sweep at start | agent runs, compaction, session store, other processes |
| Gateway lock | lock file, owner pid | acquire, release, stale detection | other processes |
| Exec approvals, node registry, server-chat | pending requests with timeouts | request, resolve, expire | clients |
| ACP control plane | actor queue per session, runtime handles | initialise, run turn, cancel, close | ACP runtimes |
| Channels, plugins, providers, media, memory, browser, CLI, apps | adapters, I/O, user interface | | |

What each part must get right:

- *Command queue*: a lane's limit and order hold, no entry waits beside a free slot, a
  completion of an old generation does not touch the new one, waiters return.
- *Agent runs*: one run per session, no circular wait between lanes, the registered
  handle is that of the run that works.
- *Run loop and scheduler*: a shutdown ends, a completed drain hands nothing over, work
  is refused only while draining, a stop is honoured, no server escapes.
- *Followup queue*: a message waits in one place, is answered or accounted for, never
  twice, and never with another target's messages.
- *Heartbeat*: no pending wake without a timer, one batch at a time, the latest runner is
  woken, a heartbeat cannot die.
- *Delivery*: what was accepted survives crashes, what was closed is not resent, an entry
  is given up only after its retries.
- *Cron*: no job runs twice at once, the timer is never lost, a due slot is run rather than
  advanced, a settled one-shot does not come back, an interrupted job runs again.
- *Subagents*: a result is announced once, never as a failure while the run may still succeed,
  never for a run that a steer replaced; an ended run is always in somebody's hands.
- *Session write lock*: callers that hold the lock share one hold, no lock in use is taken for
  an abandoned one, and an abandoned one does not block the session.

<a name="modules"></a>
## 2. Modules and how they compose

```
 CommandQueue  <--EXTENDS--  AgentRuns  <--EXTENDS--  GatewayLoop
      ^                          |                          ^
      |                          +-- implements --> SessionTurns (abstract: fair mutex per session)
 CommandQueueProofs  <-------EXTENDS-------  AgentRunsProofs (also of GatewayLoop)

 FollowupQueue                                       FollowupQueueProofs
 HeartbeatWake <--EXTENDS-- HeartbeatRunner          HeartbeatProofs
 DeliveryQueue                                       DeliveryQueueProofs
 CronJobs      <--EXTENDS-- CronService              CronServiceProofs
 SubagentRegistry                                    SubagentRegistryProofs
 SessionWriteLock                                    SessionWriteLockProofs
```

- `CommandQueue` - the lanes. A *task* is a slot of the model through which commands pass;
  it records the lane, the lane generation and the phase of the command it carries.
- `SessionTurns` - the abstract promise of `docs/concepts/queue.md`: the runs of a session
  take turns in the order they asked. No lanes, no pump.
- `AgentRuns` - runs as nested commands: level *k* of run *r* is the queue entry `<<r, k>>`,
  and the queue is the `CommandQueue` module itself, so nothing of the pump is modelled twice.
  `ImplementsTurns` is the refinement of `SessionTurns`.
- `GatewayLoop` - the process around the runs: main loop, shutdown procedure, restart requests.
  `ImplementsTurnsOfLives` is the refinement of `SessionTurns` with restarts (`SpecOfLives`): a reset
  passes every turn on, done or not, and keeps who waits and in which order.
- `FollowupQueue` - one session's queue, with identities for queue objects because drains
  keep references to objects that are no longer registered.
- `HeartbeatWake`, `HeartbeatRunner` - the wake layer, and the runners on top of it (several
  lives at once, since a restart starts a runner while batches of the old one await).
- `DeliveryQueue` - the queue directory, live deliveries, recovery passes and crashes, one
  file operation per action.
- `CronJobs` - the schedule state of the jobs and the pure functions over it (next run, due or
  missed, what a result does); `CronService` - the service: start, tick, calls, manual runs,
  crashes, as sections under the store's lock with job runs between them.
- `SubagentRegistry` - the registry, the announce flow with its finalization, and the agent
  runs as far as the registry learns of them.
- `SessionWriteLock` - the lock file of one session, with the processes that work on it and
  the calls within them, one file operation per action.
- `MC*` modules only give constants their values; the mutants beside the definitions
  (`X_Something`) are plausible mistakes used to see that each property can fail. They are
  part of no specification.

<a name="correspondence"></a>
## 3. Correspondence with the code

`PROJECT.json` maps every definition to its lines. The decisions behind them:

**CommandQueue.** `queue`, `activeTaskIds`, `maxConcurrent`, `generation` are the fields of
`LaneState`. `DrainLanes` is the pump: it starts as many entries as fit, in one step,
because `drainLane` runs without awaiting. It is applied by every action that pumps in the
code (enqueue, completion, limit change, reset), never as an action of its own. A completion
compares its generation and then either frees the slot and pumps or does nothing
(`SettleCurrent`, `SettleStale`). `draining` of a lane is only a reentrancy guard within one
job and needs no variable.

**AgentRuns.** The task of the session-lane entry calls `enqueueGlobal` in the job that starts
it, so while that is pending (`DescentPending`) nothing else runs. The cron lane's task awaits
other things first, so its descent is an action like others. `SettleLevel` propagates
outwards one promise at a time.

**GatewayLoop.** `emitGatewayRestart` calls the SIGUSR1 handler synchronously
(`process.emit`), so emission, authorization, consumption and `request("restart")` are one
step. From there the job goes on to `markGatewayDraining` and the counts (`StartDrain`).
Delays and the restart cooldown are abstracted: a timer that is set may fire. An external
SIGUSR1 goes through the scheduler as well. The shutdown's `server?.close()` takes the server that
the variable refers to when it begins (`closesServer`, `closesNothing`) and clears the variable when it has
ended (`CloseServer`), whatever it refers to by then. `close()` is assumed to close what it is
called on. A start that fails after the first has its lock released in a job of its own
(`LockIsReleased`). Aborts only shorten runs, which may end at any time anyway.

**FollowupQueue.** `registered` is the Map's entry for the key. `ScheduleDrain` and `EndDrain`
are `beginQueueDrain` and the finally block; ends of a loop iteration and of a drain happen in
the job that ends the turn, so `TurnSucceeds` includes them. `"skipped"` is the point
after the await of `drainCollectQueueStep`, where the queue can have changed since the check
for mixed targets. `SeesActiveRun` and `Enqueue` are apart because `runPreparedReply` awaits
between them. A followup turn whose agent fails *resolves* (followup-runner.ts logs and
returns), so `TurnSucceeds` is the normal end; `TurnFails` is a rejection elsewhere in it.
A message is one of the followup turns' *answered* when a turn made of it has run.

**HeartbeatWake, HeartbeatRunner.** Timer delays are abstracted to the timer's kind, which is
what the code compares first. `HeartbeatRunner.due` says whether `nextDueMs` has passed.
A call of the handler runs to its first await within the timer's job (`MidCall`). A batch keeps
the handler it was started with, and `stale` marks calls whose agent objects `updateConfig` has
replaced. `Configs` are the sets of agents a configuration may name, `Requested` the wakes that
other events may ask for: parameters of the instance, so that a run with two agents and a run
with two priorities can be had from one module.

**CronService.** Whatever runs under `locked()` is one step: sections of one store file are
serialized over all services of the process, and nothing that changes the state awaits
anything but the file. Runs of jobs are outside the lock and are intervals (`active` in
a tick, a start or a manual run). `memory` and `disk` are apart because only sections with
`forceReload` read the file; `RunDueJob` writes the marker into the job object it was given, which
may or may not still be the one in memory. Times are ticks of a bounded clock; within a tick
nothing is told apart, so the two seconds of `MIN_REFIRE_GAP_MS` and the stagger of cron slots
are left out. A marker older than two hours is a value of its own (`MarkerAges`), for jobs whose
run may last so long. Each element of `Manuals` is a manual run, of the job `JobOf` says: a job may have
several, queued or past their preflight, and `Reserve` decides between them. The timer may fire at
any time it is set: it is clamped to a minute, and
early ticks do nothing. The service is enabled, schedules are valid, and the file can be written.

**SubagentRegistry.** Every caller of the spawn sets `expectsCompletionMessage`
(subagent-spawn.ts:295), so the branches for other runs are left out. A run's end is learnt
from its lifecycle event (`AgentEnds`, `ErrorTimerFires`) and from `agent.wait`
(`WaitReturns`), in any order; each calls `completeSubagentRun`, which awaits the frozen result
(`completing`) and then begins the cleanup (`CompletionGoesOn`). `flow` is where the announce
flow and its finalization stand: its awaits are the points between `"announce"`, `"deliver"`
and `"closing"` or `"giveup"`. `Resume` is `resumeSubagentRun` for a set of runs at once,
as `completeCleanupBookkeeping` and the restore call it. Times are facts of a record: `cool` (inside
the backoff), `old` (past the hard expiry), `late` (ended after its cleanup). Timers of one kind
for one run are merged; a timer that fires may find the backoff over or not (`Retry`), because the
delay of a deferral is shorter than that of a later attempt. `Persistent` are the sessions spawned with
`spawnMode` session. `DropSession` may leave the session: when `sessions.delete` fails or
when no requester is left. The children whose findings a requester announces are not restricted to
those created during its run
(`HasFindings`; `FlowGoesOn` also stands for a run without any). The wake's agent call is in one step with the
replacement; that it fails is `FlowGoesOn`. A model's retry starts
within the grace period of its error. One steer per run is in flight. The ended hook and the
attachments are the await before `Close`. `releaseSubagentRun` has no caller.

**SessionWriteLock.** `file` is what is at the lock's path. Every creation is a lock of its own
(`file.lock`), because handles, judgements and the watchdog refer to the lock they saw while
`rm` takes the path: `Remove` and `Unlink` clear the path whatever is there. `client[c].lock` is
the lock a call has created, holds or has condemned. `held` and `count` are `HELD_LOCKS`; `Release`
compares the object as the code does (`Shares`). The file is empty between `Open` and `Write`; a
half-written payload does not parse and is the same. `createdAt` and the mtime are one fact,
`file.old`: older than `staleMs`. Holds that may last longer than that are the parameter
`LongHolds`; `StartTimes` says whether the platform reports start times of processes (Linux).
`Restart` gives a process the pid of the one before it, as in a container.

**DeliveryQueue.** `file[e]` is the retry count in `{id}.json`, the marker, or nothing. An
action is one file operation; a crash can come between any two. A worker is a live delivery
or a recovery pass. Passes overlap: `startGatewayServer` does not await its pass, and an
in-process restart starts another. Backoff is "elapsed or not", the recovery time budget may
run out at any entry.

<a name="runs"></a>
## 4. Runs, bounds and what they show

| Run | Bounds | Shows |
|---|---|---|
| `command_queue` | 2 lanes, 3 slots resubmitted for ever, limits 1-2, 1 reset, 1 waiter | slots, limits, FIFO, work conservation, drained means settled; queued commands leave, waiters return |
| `agent_runs` | 3 runs (1 chat, 2 manual cron) of 1 session, 3 global lanes, limits 1-2 | one run per session under its registered handle, refinement of `SessionTurns`, no circular waits: every run returns |
| `gateway_loop` | 2 runs of 1 session, 1 restart, 1 poller, timer and signals | exclusion within a life, turns that outlast restarts, clean handover, a shutdown ends |
| `followup_queue` | 4 messages, cap 2, 2 modes, 3 policies, 1 clear, 2 objects | turns carry waiting messages, no duplicates, nothing vanishes before an overflow, nothing abandoned, waiting messages are answered, drains rest |
| `heartbeat_wake` | 2 targets, 2 priorities, 2 handlers, 3 batches | timers, no batch beside another but one per handover that interrupted one, wakes are served |
| `heartbeat_runner` | 2 agents, wakes of all, 2 priorities, 2 lives, 1 batch, 1 toggle | the latest runner is woken and its interval armed, due agents are served |
| `delivery_queue` | 2 entries (1 best effort), 2 passes, 1 restart, 2 retries | accepted is kept, closed stays closed, giving up is earned |
| `cron_service` | an `every` job with two manual runs, a one-shot that is added, patched and may hang; 3 ticks of the clock, 2 calls, aged markers or crashes | one execution per job (but by hand while disabled), the scheduler lives, slots are run, settled one-shots stay settled, due jobs are run |
| `subagent_registry` | 2 nested sessions, a replacement run for the outer one, 2 announce attempts, 1 steer, kill, sweep, crash or failed session delete | announced once, interrupted runs stay silent, failures are final, ended runs are in hand |
| `session_write_lock` | 2 callers in a gateway, 1 in another process, start times, 1 crash, signal, overlong hold or failing write | one hold at a time until a theft, no lock in use is condemned, somebody gets in |
| `gateway_drain_flag`, `followup_collect_overflow` | as small as the behaviour allows | the disagreements of section 7 |

Why this is enough. *Lanes*: lanes interact only through shared counters (reset, draining,
waiters) and the nesting of runs, two of each exercise both; three slots fill a lane of limit 2
and leave one waiting, or, at limit 1, leave two whose order matters; after the reset,
completions of the old generation meet commands of the new one. *Runs*: of three runs of a
session one works and two wait, whose order matters, and two compete for the cron lane while
they want that session; that sessions do not disturb each other is what the theorems of
`AgentRunsProofs` say for any number of them. *Loop*: a restart lets a run of the old life, and a
poller of the old life, meet the new one; generations are compared for equality only, and the
proofs of `CommandQueueProofs` hold for any number of resets. *Followup*: cap 2 and 4 messages allow
a batch, an overflow during it and a message behind; two objects are what one clear can make
visible at once. *Heartbeat*: a batch of the old life and one of the new, with a third that must not start beside
them; priorities matter pairwise. *Delivery*: entries interact only through the loop's order and the pass's budget,
so two suffice; overlap needs two workers on one entry, here a live delivery and two passes;
the live delivery and the two passes can fail three times, which exceeds the limit of two.
The passes are interchangeable (`SYMMETRY AnyPass`; the run states safety only).
*Cron*: jobs share nothing but the file, the timer and the concurrency limit, so one of each
life cycle (recurring, one-shot) meets every path; three ticks hold a slot, its successor and the
backoff between them; two events are two manual runs of one job, or one of them or a crash beside a
call that interferes.
The same holds of an instance whose manual runs are of the one-shot, with three events.
*Subagents*: announces depend on descendants and on the requester, hence a chain of two
sessions; what replaces a run is a second run of its session; two attempts are one retry and
the limit. With two events instead of one a random simulation of sixteen million states found
nothing further.
*Write lock*: a judgement and its removal meet at most one other caller and one owner, so two
processes, one of them with two callers that share a hold, suffice; the event is what
leaves an abandoned file or voids a handle.

The type invariants
(`TypeOK`, `LoopTypeOK`, `WakeTypeOK`, `RunnerTypeOK`, `CronTypeOK`, `RegTypeOK`, `LockTypeOK`) hold in all
runs. They say little more than the shape of the state, so no run lists them; all of them are proved
(section 6; that of the agent runs as part of `LoopTypeOK`).

`CHECK_DEADLOCK FALSE` is used where a system may come to rest: the process exits, the
messages, entries, lives or runners of the bounded instance are spent. Bounds appear as named
constants in guards: `MaxGeneration`, `MaxPollers`, `MaxClears`, `Objects`, `Batches`,
`MaxLives`, `MaxToggles`, `Manuals`, `Recoveries`, `MaxTime`, `MaxEvents` (in three modules, for
what may go wrong). `MaxAttempts` and `MaxRetries` are the code's own limits
at smaller values.

<a name="fairness"></a>
## 5. Fairness

- *Tasks and runs end*: every attempt carries a timeout that aborts it, and the retry loop
  is bounded by `MAX_RUN_LOOP_ITERATIONS`. `AgentRuns` needs strong fairness, because other
  jobs keep disabling a run's step for a moment. Nothing is assumed of callers.
- *Polls*: `waitForActiveTasks` (50 ms) and `waitForActiveEmbeddedRuns` (250 ms) poll by timers
  that fire and have deadlines. `ShutdownEnds` relies on these deadlines only, not on
  the runs, on `start()`, or on the force-exit timer.
- *Followup turns*: debounce timers fire, turns end, and a turn retried again and again does
  not reject for ever (agent failures do not reject at all).
- *Heartbeat*: timers fire; heartbeat runs have a timeout. The handler does not throw for ever,
  and the main lane is not busy *whenever* an agent's turn comes; without these the code
  retries for ever, by design.
- *Cron*: timers fire, sections get the lock, and runs end (`executeJobCoreWithTimeout`; a run
  with `timeoutSeconds` 0 is trusted to). Nothing makes time pass or users call.
- *Subagents* (`FairRegSpec`, under which an ended run settles, `EndedRunSettles`: it is in no run, and
  holds in the instance of `subagent_registry` without outside events): awaits come back because the
  gateway calls have timeouts, timers
  fire, and time passes until the hard expiry. Agents need not end.
- *Write lock*: file operations return, callers release what they hold, time passes until a
  file is stale. Callers may give up, except one whose `timeoutMs` is infinite (session store,
  config/sessions/store.ts, with no lock timeout). Nothing restarts a process that has died.
- `DeliveryQueue` states safety only: a failed delivery waits for the next start, which
  nothing guarantees.

<a name="proofs"></a>
## 6. Proofs

TLAPS proves, for all values of the constants permitted by the modules' assumptions, every
invariant and every action property that a passing run checks, and that the detailed
specifications implement the abstract ones. (Two runs expect a violation; liveness is out of
the proof system's reach.) By module:

- `CommandQueueProofs`: `TypeCorrect`, `QueuesConsistent` (every queued command is in exactly one
  place of its own lane's queue: proved, hence in no run), `OccupancyIsCurrent`,
  `WorkConserving` (theorem `LanesWorkConserving`) and `StartsWithinLimit` (theorem
  `LimitsRespected`, an action property). The inductive invariant adds *NoneFromTheFuture*: no
  command carries a generation greater than its lane's. Without it the step of a reset
  is not inductive: raising the generation could make a stale command current. The
  argument goes action by action, on lemmas about the pump: `DrainLanes` starts exactly the first
  `PumpCount` entries of a lane, keeps the rest in order, and leaves either a full lane or an
  empty queue. From the same lemmas: `LanesAreFIFO` (`NoOvertaking`), and `DrainIsComplete`
  (`DrainedMeansSettled`), which needs *SnapshotsHaveStarted*: no slot that a waiter still watches
  has been submitted again, so what it watches is what it saw.
- `AgentRunsProofs`, of `AgentRuns` and `GatewayLoop`: `SessionsAreExclusive` (`OneRunPerSession`),
  `TurnsAreFair` (`ImplementsTurns`: the refinement of `SessionTurns`), `LivesExclude`
  (`OneRunPerSessionAndLife`), `DrainsHandOverNothing` (`CleanHandover`), `GatewayUsesTheQueue` (the
  gateway implements `CommandQueue`), `TurnsOutlastRestarts` (`ImplementsTurnsOfLives`) and
  `LoopTypeCorrect`. The queue's invariant is
  taken over from `CommandQueueProofs`, whose actions the runs use. *RunsNested* adds what the
  nesting is for: a run's entries are on the lanes of its path, it holds each lane until the inner
  ones are given back, a session lane has one occupant, and entries that run there without
  occupying it are of other generations. This much survives restarts, and exclusion within a
  life follows. Without restarts (`AgentSpec`) there is one generation (*OneLife*) and the handle of
  a session is that of its one working run (*HandlesRegistered*); a lane's queue restricted to
  a session lane is then the abstract queue of turns. A clean handover needs the order of the
  shutdown (*ShutdownOrder*) and that the drain's snapshot covers the commands of its life
  (*SnapshotCovers*), because nothing starts once the lanes refuse work. That the turns outlast
  restarts needs *RunsNested* only: an enqueue or a settling of a current command of a session lane is
  an `Ask` or a `Yield`, one refused or of an older generation touches no queue and is a stutter,
  and a reset, which empties `active` and pumps every lane, is `StartOver`.
- `FollowupQueueProofs`: `QueueTypeCorrect` (`TypeOK`, with the cap and the counters),
`NoMessageWaitsTwice` (`WaitsOnce`),
  `MessagesWaitWhereDrainsLook` (`NothingIsAbandoned`), `QueuedMessagesKeepWaiting`
  (`NothingVanishes`) and `TurnsCarryWhatWaits` (`TurnsCarryWaitingMessages`). A step makes its own
  changes and then does the drain's housekeeping (`ScheduleDrain`, `EndDrain`, `NextIteration`) on
  the result, so the invariant *Sound* is an operator of queues and drains: each step is sound
  after its own changes, and the housekeeping keeps what is sound. Beyond the properties it says
  that messages of a drain's turn which still stand in a queue stand in its own queue, within
  the places the turn will take off (*TurnsAhead*); that, until an overflow, a running turn takes
  off messages of its own only, unless its queue was cleared under it (*NothingSpilled*: without
  it the splice by the turn's length could take an unanswered message); that, until a `/stop`,
  only the registered object holds items or has a drain (*OnlyRegistered*); and that the drop
  count never exceeds the messages there have been (*Bounded*).
- `HeartbeatProofs`, of the wake layer: `WakeTypeCorrect`, `WakesAreTimed` (`PendingIsTimed`) and
  `OneBatchAtATime` (`BatchesAreSerial`: the batches under way are at most one and those that a handover
interrupted). The strengthening adds *BatchesCarryWakes* (a batch
  under way was made of at least one wake, so putting it back leaves something pending)
  and *ScheduledIsTimed* (the `scheduled` flag implies a timer, so that the finally block's
  `scheduled ||` never arms one for nothing). Of the runner: `RunnerRefinesWakeLayer` (every step
  of `RunnerSpec` is a step of `WakeSpec` or leaves its variables alone, so that what is proved of
  the wake layer holds of the runner), and `HeartbeatsGoOn` (`IntervalIsArmed`), for which
  *WakeComes* follows the heartbeat through its phases: timer set, wake for everyone pending,
  in a batch, or in a call that will arm the interval again before it returns. `RunnerTypesHold`
  (`RunnerTypeOK`): only runners that are started and not stopped have an interval timer, and a
  batch of a runner is under way exactly while its handler is in a call (*Schedules*, *Calls*).
- `SubagentRegistryProofs`: `RegistryTypeCorrect`, `ResultsAreAnnouncedOnce` (`AnnouncedOnce`),
  `SteeredRunsStaySilent` (`InterruptedStaysSilent`), `EndedRunsAreInHand` (`EndedRunIsInHand`) and
  `FailuresAreAnnouncedLate` (`FailuresAreFinal`). The invariant is a conjunction over runs, because
  all that is known of a run (its record, the copy on disk, flow, timers, calls, completions) is
  its own. Records in memory and on disk are *Decent* (a run whose announce has begun has ended,
  is marked and neither killed nor steered; an "error" stands only for an agent that failed for
  good); a flow that has spoken only closes; the mark `handled` tells the truth unless a crash cut
  its announce short; and a plain retry timer counts only while the run is not marked as
  resumed, since `resumeSubagentRun` skips marked runs.
- `DeliveryQueueProofs`: `WriteAheadKeeps` (`AcceptedIsKept`) and `ClosedEntriesStayClosed`
  (`ClosedStaysClosed`). The strengthening: *AcksAreJustified* (whoever is about to rename an
  entry to its marker, and every marker on disk, has a delivery or an abort to show for it;
  it carries the reason over the two phases and over crashes) and *ClosedIsForgotten* (no
  worker, listing or loaded entry mentions a closed entry: a crash empties all three, and
  they are filled only from queued files). `GivingUpIsEarned` (`GivenUpIsEarned`) rests on
  *CountsAreEarned*: overlapping passes rewrite counts they have read before, so counts may be
  lost, but none in a file or in a pass exceeds the attempts that have failed.
  `OneAttemptPerStart` (`AttemptsAreFew`, stated in the proof module): a message is attempted at most
  once by its own delivery and once per start. *AttemptsFit* counts attempts and *Chances* together: the
  own delivery while it lasts, and the passes that list the entry, have loaded it or have it in
  hand; a pass takes off its lists what it takes in hand (*TakenOff*). `DeliveryTypesHold` (`TypeOK`).
- `CronServiceProofs`: `SchedulerStaysAlive` (`SchedulerLives`) and `IdleServiceIsArmed`. That
  the timer is set is not inductive: `list()` and the preflight of a manual run repair missing slots
  without arming the timer. The strengthening says that such a repair never finds a slot:
  *Sound*, an enabled job without a next run is a one-shot that has succeeded, for which
  `computeJobNextRunAtMs` has no answer either (lemmas `NextRun`, `MaintainIsGood`). A tick
  works on the file it reloads, so the first theorem also needs *Agree*: a service that has
  read the file has a job to wake for when the file has one. Agree holds only of a service that
  has the file for itself, and the theorem assumes that (`Alone`): with two, one may add a job
  to the file that the tick of the other picks up and has a timer for only when it ends.
  The second theorem is for any number of services and speaks of those between two ticks.
  `OneRunAtATime` (`OneExecutionPerJob`), `DueSlotsAreRun` (`SlotsAreRun`) and `OneShotsRunOnce`
  (`OneShotsDoNotRepeat`) assume `Alone` as well. *OneClaim* makes the marker `runningAtMs` a lock: from
  the section that marks a job to the one that applies its result exactly one of tick, start and
  manual run has it, and memory and file both say so (a disabled job, which forced
  manual runs may be of, loses the marker, but then nobody else takes it; that it is enabled again
  takes a patch, which excuses it). *Mirror*: between
  sections memory and file differ in markers and in slots of disabled jobs only, so that a section
  that persists memory brings nothing back. *Rests*: a settled one-shot is disabled in the file.
  Each step then does one of three things to a job in the file (`Proceeds`): its slot stays or
  has been run, it takes the result of a run it was marked for, or a call recomputes it.
  `CronTypesHold` (`CronTypeOK`) is again for any number of services: batches are of jobs and in
  their phases (*Places*), and a service whose `start()` has not read the file has no store (*Unread*).
- `SessionWriteLockProofs`: `OneWriterUntilTheft` (`SingleWriter`) on every platform and for
  holds of any length, `JudgementsAreSound` (`JudgementIsSound`) with start times and for holds
  that end before they are stale (the theorem assumes `StartTimes` and `~LongHolds`: without
  either the property is false, see section 7), and `LockTypesHold`. Neither property is
  inductive, because a hold is spread over HELD_LOCKS, the handles of its clients, the
  watchdog's removals and the file. *Books* relates the first three, whatever has been stolen: every
  lock is of one process, a creator or closer is the only one that refers to its lock, a
  count counts the sharers of its hold, a void handle never names the hold of the day. *Kept* adds
  that until a theft the only lock in use is the one at the path, which is why an owner that
  removes by path removes its own; *Named* and *Young* say that the payload of a lock in use names
  its live owner and its start time, and is not old. One lemma per action says what it does to the
  books, and that the file stays, is signed, ages, goes or is made (`Moves`); the
  invariants follow from these five cases.

*Assumptions.* Beyond the constants' types: the sets of jobs, of recovery passes and of messages
are finite, as in any process (their cardinalities bound sequences and counts); `NoQueue` and the other
markers of absence are none of the things they stand beside; `Alone` and the two conditions on
`SessionWriteLock` are hypotheses of the theorems that name them, and are what the code's setting
gives: one service per store file, unless a hot reload has replaced it.
Everything else about an instance (the number of runs, lanes, messages, lives, crashes, the limits,
caps and bounds) is arbitrary. The order in which `StartPlan` and `Collect` take equal jobs is the
file's and is left open (`SetToSeqs`).

Only model-checked: liveness (`QueuedCommandLeaves`, `WaiterReturns`, `RunReturns`, `ShutdownEnds`,
`WaitingIsAnswered`, `DrainComesToRest`, `WakeIsServed`, `DueIsServed`, `DueJobsRun`,
`SomebodyGetsIn`), because fairness and ENABLED are outside the proof system's reach. No module
has a RECURSIVE operator; nothing is proved by induction over data.

<a name="findings"></a>
## 7. Where the code and its documents disagree

The first two are runs, which TLC must find violated; `PROJECT.json` quotes the sentences
they contradict. The others are reproduced with `tlc -config X.cfg M`, where *M* is the MC
module of the component (`MCGatewayLoop`, `MCFollowupQueue`, ...); they are kept as
demonstrations of what the code does.

| Configuration | Property | What happens |
|---|---|---|
| `GatewayLoopDrainFlag` | `RefusesOnlyInDrainWindow` | A restart signal while `start()` is awaited closes nothing and wakes nobody; when start completes, the loop waits while `gatewayDraining` stays set: every enqueue is refused until the next restart. |
| `FollowupQueueCollect` | `NothingIsLost` | An overflow while a collected turn runs shifts the queue; the splice by the batch's old length removes messages that were never in a prompt. |
| `HeartbeatPause` | `HeartbeatsResume` | An interval that fires while heartbeats are disabled is not armed again; enabling them starts nothing. |
| `GatewayLoopStop` | `StopIsHonoured` | SIGTERM during a restart's shutdown (which may drain for 90 s) is ignored and forgotten; the process restarts instead of exiting. |
| `GatewayLoopOrphan` | `ListenerIsReachable` | `start()` completes while a shutdown is between reading `server` and setting it to null: the new server is dropped from the variable and goes on listening. |
| `GatewayLoopSession` | `OneRunPerSession` | A run that outlives the drain deadline loses its session lane at the reset; the next life starts another run beside it. |
| `FollowupQueueSummary` | `SummaryTurnTakesNoMessage` | In mode followup the summary's turn takes one waiting message off the queue without answering it. |
| `FollowupQueueStop` | `NothingIsStranded` | After /stop during a turn, the old drain deletes the *new* queue object, with the messages in it. |
| `FollowupQueueSpin` | `DrainAlwaysRests` | A drain left with a drop count and no message reschedules itself for ever and never tells the summary. |
| `FollowupQueueTargets` | `BatchesHaveOneTarget` | A message to another target that arrives in the await between check and collection joins the batch. |
| `MCHeartbeatWake`, with the property added | `RetryWaitsForCooldown` | A wake put back while a normal timer is set is tried again without the retry cooldown. |
| `DeliveryQueueBestEffort` | `RecoveryAcksOnlyTheDelivered` | Recovery runs best-effort entries without `onError`: failed payloads are acknowledged as delivered. |
| `DeliveryQueueReplay` | `DeliveredIsNotReplayed` | A crash between the last send and the first rename replays the message; the two phases cover the next window only. |
| `DeliveryQueueOverlap` | `RecoversOnlyTheAbandoned` | Recovery picks up entries that a delivery of the running process is still sending. |
| `CronInterrupted` | `InterruptedOneShotsStay` | The first section of `start()` keeps an interrupted one-shot from the catch-up, but the last one (ops.ts:117-119) leaves its past-due slot in place (`at` slots recompute to themselves), so the next tick runs it again; service.restart-catchup.test.ts:195 says such jobs are not replayed. |
| `CronSkippedSlot` | `NoSlotIsSkipped` | `add()` recomputes every job (ops.ts:245): a slot of another job that fell due and waits for the timer is advanced without a run, which the comment at timer.ts:682-686 rules out for the tick. |
| `CronOverlap` | `NoOverlap` | Disabling a job clears its running marker (ops.ts:302-303) while it runs; enabled again, it is started a second time beside the first, although the comment at ops.ts:440-441 relies on the marker. |
| `SessionLockRace` | `AlwaysSingleWriter` | Two callers judge the file a crash left; the slower one removes, by path, the lock the faster one has created since, and both hold the session (CHANGELOG.md:4213, "enforce single-writer session locks"). The start-up sweep of a gateway can do the same. |
| `SubagentDelete` | `DeleteModeIsRetried` | The announce flow deletes the child session in its finally block (subagent-announce.ts:1479) also when delivery failed; the retry then finds no session and prunes the run as an orphan. The comment at subagent-registry.ts:956-957 says that delete mode stays retryable. |

Properties that hold *because of a condition* name it: `OneRunPerSessionAndLife` (within a
life), `BatchesAreSerial` (a handover during a batch lets one more batch begin beside it, because the old batch's
finally block clears the new life's `running` flag; the property counts these), `NothingIsAbandoned` (no clear),
`NothingVanishes` and `DrainComesToRest` (until a queue has overflowed, after which the
splice and the summary turn lose messages), `WaitingIsAnswered` (a callback is cached, no
overflow, no clear), `IntervalIsArmed` and `DueIsServed` (never paused),
`AcceptedIsKept` (no best effort: a best-effort delivery is acknowledged although payloads
failed whenever the caller passes no `onError`), `OneExecutionPerJob`, `SlotsAreRun` and
`OneShotsDoNotRepeat` (no patch of the job, and no marker that aged past two hours under a run),
`OneExecutionPerJob` moreover except for manual runs of a disabled job,
`SlotsAreRun` moreover except for the calls that recompute slots, `SingleWriter` (no theft yet),
`EndedRunIsInHand` (no crash
in the middle of the run's announce or steer).

Behaviours that contradict no document but that a reader should know: a message enqueued from
a stale `isActive` in a session whose drain has never run waits for the next message; a config
update during a heartbeat loses that run's schedule advance; an all-agents wake that meets
requests in flight repeats the agents it has already run; `failDelivery` can bring back an entry
another worker has acknowledged between its read and its rename. *Cron*: the gateway hands
`cron` to its request handlers by value (server.impl.ts:833), while a hot reload replaces the
service (server-reload-handlers.ts:83-89), so that requests go on using the stopped one; both
services share the lock and the file. Two forced manual runs of a *disabled* job overlap: the preflight of
every manual run repairs the store (ops.ts:388), and the repair clears the running marker of a disabled job
(jobs.ts:366-369), so that the second finds none. *Subagents*: a crash during an announce leaves
`cleanupHandled` in `runs.json`, and the run is never announced (docs/tools/subagents.md:290 calls
announces best effort); a steer mark in the file parks a run in the same way; a kill while a steer is
under way is undone by the replacement; a steer and an orphan recovery of one run can each
register a replacement, the second from its fallback copy. *Heartbeat*: the remaining wakes of
a batch whose runner was stopped are answered "disabled" and dropped. *Delivery*: a live
delivery that failed is tried again only by the next start. *Write lock*: without start times
(`StartTimes = FALSE`; platforms other than Linux) a caller takes a lock of its own process that
is being registered or released for an orphan, because `HELD_LOCKS` does not list it then; with
`LongHolds = TRUE` (`maxHoldMs` follows the run's timeout and may exceed the 30 minutes of
`staleMs`, and the session store asks for a `staleMs` of 30 s with the hold limit of 5 minutes) a caller of
another process takes a lock that is in use as too old. `JudgementIsSound` fails in either
instance. The sweep removes a file whose payload has not been written yet; it has no
counterpart of the callers' look at the mtime.

<a name="plan"></a>
## 8. Not modelled, and the plan

Not modelled within the parts above: message texts and prompts, wait-time diagnostics, typing
indicators, transcripts, the respawn of a supervised process, migration of old delivery
entries, file contents. Clients, channels, plugins, providers, media, memory, browser and the
native apps are I/O or user interface around this core.

Cron: stagger, the two-second gap, schedules that throw, failure alerts and delivery of results,
failing writes of the store. Subagents: the delivery of an announcement (direct, queued,
steered) and its queue, hooks, attachments, runs without a completion message.

What follows from the cut at the gateway's core: the components listed as not modelled in
`PROJECT.json` are either clients and adapters without state of their own beyond a connection, or
sequential programs. The part of the repository the models cover is small in lines and is where
its concurrency is.

Next, in this order:

1. The *gateway lock file* ("port free means owner dead", release by path, the lock that
   is not taken again after a failed in-process start).
2. *Exec approvals* (decision against timeout), the *ACP* actor queue, the announce queue.
3. *Numeric parts*: auth-profile cooldowns and debounce, as functions against reference
   definitions.
4. *Proofs*: of the cron service without `Alone`, after a hot reload, what is left of
`OneRunAtATime`; then the invariants of the modules above.
