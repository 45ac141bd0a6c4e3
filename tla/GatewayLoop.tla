---------------------------- MODULE GatewayLoop ----------------------------
(***************************************************************************)
(* The life of the gateway process: the run loop of                        *)
(* src/cli/gateway-cli/run-loop.ts, the restart scheduler of               *)
(* src/infra/restart.ts that signals it, and the agent runs that go on     *)
(* while it drains, closes and restarts in the same process.               *)
(*                                                                         *)
(* Three activities interleave in the one process: the main loop (`while   *)
(* (true)`: reset, start, wait), at most one shutdown procedure (the async *)
(* function of request()), and the pending restart requests (a scheduled   *)
(* timer, and pollers that wait for the gateway to be idle).               *)
(* process.emit runs the SIGUSR1 handler inside emitGatewayRestart, so an  *)
(* emission, its authorization and its consumption are one step.           *)
(***************************************************************************)
EXTENDS AgentRuns

CONSTANT MaxPollers   \* bound on the deferral pollers alive at once

\* The shutdown procedure makes its one call of waitForActiveTasks as the waiter "drain".
ASSUME GatewayLoopAssumption == "drain" \in Waiters /\ MaxPollers \in Nat

VARIABLES
    loop,       \* where the main loop is
    shutdown,   \* where the shutdown procedure is; "none" is shuttingDown = false
    request,    \* the action the shutdown procedure was started for
    server,     \* run-loop's `server` is not null
    listening,  \* a started server exists, referenced or not
    lock,       \* run-loop's `lock` is not null
    started,    \* ~isFirstStart
    runsDrain,  \* the answer of waitForActiveEmbeddedRuns
    timer,      \* pendingRestartTimer is set
    pollers,    \* number of deferGatewayRestartUntilIdle intervals
    stopAsked   \* history: SIGTERM or SIGINT has arrived

serverVars   == <<server, listening, lock, started>>
requestVars  == <<timer, pollers, stopAsked>>
loopVars == <<loop, shutdown, request, runsDrain, serverVars, requestVars>>
gatewayVars == <<agentVars, loopVars>>

LoopTypeOK ==
    /\ AgentTypeOK
    /\ loop \in {"resetting", "starting", "releasing", "waiting", "exited"}
    /\ shutdown \in {"none", "marked", "draining", "closesServer", "closesNothing", "closed"}
    /\ request \in {"none", "restart", "stop"}
    /\ {server, listening, lock, started, timer, stopAsked} \subseteq BOOLEAN
    /\ runsDrain \in {"none", "waiting", "drained", "timedOut"}
    /\ pollers \in 0..MaxPollers

LoopInit ==
    /\ AgentInit
    /\ loop = "starting" /\ shutdown = "none" /\ request = "none"
    /\ server = FALSE /\ listening = FALSE /\ lock = TRUE /\ started = FALSE
    /\ runsDrain = "none" /\ timer = FALSE /\ pollers = 0 /\ stopAsked = FALSE

Alive == loop # "exited"

\* A job is under way that ends only after the step it announces.
MidJob == DescentPending \/ shutdown = "marked" \/ loop = "resetting"

Exit == loop' = "exited"

\* getTotalQueueSize() + getActiveEmbeddedRunCount(), as idle or not.
Idle ==
    /\ \A l \in Lanes : queue[l] = <<>> /\ activeTaskIds[l] = {}
    /\ \A s \in Sessions : activeRuns[s] = NoRun

-----------------------------------------------------------------------------
(* request(): the signal handlers and the shutdown procedure. *)

\* request("restart"), up to markGatewayDraining; ignored during a shutdown.
RequestRestart ==
    \/ /\ shutdown = "none"
       /\ shutdown' = "marked" /\ request' = "restart"
       /\ MarkGatewayDraining
    \/ /\ shutdown # "none"
       /\ UNCHANGED <<vars, shutdown, request>>

\* server?.close() begins: on the server the variable refers to, if it refers to one.
Closing == IF server THEN "closesServer" ELSE "closesNothing"

\* SIGTERM or SIGINT: request("stop"), which needs no drain; ignored during a shutdown.
SignalStop ==
    /\ Alive /\ ~MidJob
    /\ stopAsked' = TRUE
    /\ \/ /\ shutdown = "none"
          /\ shutdown' = Closing /\ request' = "stop"
       \/ /\ shutdown # "none"
          /\ UNCHANGED <<shutdown, request>>
    /\ UNCHANGED <<agentVars, loop, runsDrain, serverVars, timer, pollers>>

SomeRunRegistered == \E s \in Sessions : activeRuns[s] # NoRun

\* The same job goes on: wait for what is active, or skip the drain.
StartDrain ==
    /\ shutdown = "marked"
    /\ runsDrain' = IF SomeRunRegistered THEN "waiting" ELSE "drained"
    /\ \/ /\ AllActive # {}
          /\ StartWaiting("drain") /\ waiter'["drain"].answer = "waiting"
          /\ shutdown' = "draining"
       \/ /\ AllActive = {}
          /\ shutdown' = IF SomeRunRegistered THEN "draining" ELSE Closing
          /\ UNCHANGED vars
    /\ UNCHANGED <<runVars, loop, request, serverVars, requestVars>>

\* waitForActiveTasks looks again.
PollTasks ==
    /\ Alive /\ ~MidJob /\ shutdown = "draining"
    /\ (PollDrained("drain") \/ PollTimedOut("drain"))
    /\ UNCHANGED <<runVars, loopVars>>

\* Mutant: the wait for embedded runs has no deadline.
PollRuns_NoDeadline ==
    /\ Alive /\ ~MidJob /\ shutdown = "draining"
    /\ runsDrain = "waiting" /\ ~SomeRunRegistered
    /\ runsDrain' = "drained"
    /\ UNCHANGED <<agentVars, loop, shutdown, request, serverVars, requestVars>>

\* waitForActiveEmbeddedRuns looks again.
PollRuns ==
    /\ Alive /\ ~MidJob /\ shutdown = "draining"
    /\ runsDrain = "waiting"
    /\ runsDrain' = IF SomeRunRegistered THEN "timedOut" ELSE "drained"
    /\ UNCHANGED <<agentVars, loop, shutdown, request, serverVars, requestVars>>

\* Mutant: the first answer is enough (Promise.race for Promise.all).
DrainEnds_FirstAnswer ==
    /\ Alive /\ ~MidJob /\ shutdown = "draining"
    /\ waiter["drain"].answer # "waiting" \/ runsDrain # "waiting"
    /\ shutdown' = Closing
    /\ UNCHANGED <<agentVars, loop, request, runsDrain, serverVars, requestVars>>

\* Both waits are answered.  After a timeout every registered run is told to abort, which
\* only hastens its end.
DrainEnds ==
    /\ Alive /\ ~MidJob /\ shutdown = "draining"
    /\ waiter["drain"].answer # "waiting" /\ runsDrain # "waiting"
    /\ shutdown' = Closing
    /\ UNCHANGED <<agentVars, loop, request, runsDrain, serverVars, requestVars>>

\* close() has ended; the variable is cleared, whatever it refers to by now.
CloseServer ==
    /\ Alive /\ ~MidJob /\ shutdown \in {"closesServer", "closesNothing"}
    /\ shutdown' = "closed"
    /\ listening' = (listening /\ shutdown = "closesNothing")
    /\ server' = FALSE
    /\ UNCHANGED <<agentVars, loop, request, runsDrain, lock, started, requestVars>>

\* The force-exit timer; the lock file stays behind.
ForceExit ==
    /\ Alive /\ ~MidJob /\ shutdown \in {"draining", "closesServer"}
    /\ Exit
    /\ UNCHANGED <<agentVars, shutdown, request, runsDrain, serverVars, requestVars>>

\* A stop; or a restart that spawned a fresh process, has a supervisor to start one, or could
\* not take the lock again.
ExitAfterClose ==
    /\ Alive /\ ~MidJob /\ shutdown = "closed"
    /\ Exit
    /\ lock' = FALSE
    /\ UNCHANGED <<agentVars, shutdown, request, runsDrain, server, listening, started, requestVars>>

\* The restart stays in this process: restartResolver wakes the loop, if the loop waits on it.
RestartInProcess ==
    /\ Alive /\ ~MidJob /\ shutdown = "closed" /\ request = "restart"
    /\ shutdown' = "none" /\ request' = "none"
    /\ loop' = IF loop = "waiting" THEN "resetting" ELSE loop
    /\ UNCHANGED <<agentVars, runsDrain, serverVars, requestVars>>

-----------------------------------------------------------------------------
(* The main loop. *)

\* onIteration() of every iteration but the first.
ResetLanes ==
    /\ loop = "resetting" /\ ~DescentPending
    /\ ResetAllLanes
    /\ loop' = "starting"
    /\ UNCHANGED <<runVars, shutdown, request, runsDrain, serverVars, requestVars>>

\* params.start() resolves; the port must be free.
StartSucceeds ==
    /\ ~MidJob /\ loop = "starting"
    /\ ~listening
    /\ server' = TRUE /\ listening' = TRUE /\ started' = TRUE /\ loop' = "waiting"
    /\ UNCHANGED <<agentVars, shutdown, request, runsDrain, lock, requestVars>>

\* The first failure ends the process, and the lock with it; a later one leaves it alive.
StartFails ==
    /\ ~MidJob /\ loop = "starting"
    /\ server' = FALSE
    /\ \/ ~started /\ Exit /\ lock' = FALSE
       \/ started /\ loop' = "releasing" /\ UNCHANGED lock
    /\ UNCHANGED <<agentVars, shutdown, request, runsDrain, listening, started, requestVars>>

\* releaseLockIfHeld() has ended: the loop waits, without server and lock.
LockIsReleased ==
    /\ ~MidJob /\ loop = "releasing"
    /\ lock' = FALSE /\ loop' = "waiting"
    /\ UNCHANGED <<agentVars, shutdown, request, runsDrain, server, listening, started, requestVars>>

-----------------------------------------------------------------------------
(* infra/restart.ts *)

\* Bound: the restarts that may still happen stay within MaxGeneration.
Outstanding == pollers + (IF timer THEN 1 ELSE 0) + (IF request = "restart" THEN 1 ELSE 0)
Budget == \A l \in Lanes : generation[l] + Outstanding < MaxGeneration

\* scheduleGatewaySigusr1Restart: a request while the timer runs is coalesced with it.
ScheduleRestart ==
    /\ Alive /\ ~MidJob
    /\ ~timer /\ Budget
    /\ timer' = TRUE
    /\ UNCHANGED <<agentVars, loop, shutdown, request, runsDrain, serverVars, pollers, stopAsked>>

\* deferGatewayRestartUntilIdle: restart at once, or poll (reply dispatchers, which the check
\* counts too, may be pending).  Emitting clears the scheduled timer, polling leaves it at t.
RestartWhenIdle(t) ==
    \/ /\ Idle
       /\ RequestRestart
       /\ timer' = FALSE
       /\ UNCHANGED pollers
    \/ /\ pollers < MaxPollers
       /\ pollers' = pollers + 1
       /\ timer' = t
       /\ UNCHANGED <<vars, shutdown, request>>

\* The scheduled time has come.
RestartTimerFires ==
    /\ Alive /\ ~MidJob
    /\ timer /\ RestartWhenIdle(FALSE)
    /\ UNCHANGED <<runVars, loop, runsDrain, serverVars, stopAsked>>

\* requestGatewayRestart of the config watcher, which does without the timer.
ConfigChangeRestarts ==
    /\ Alive /\ ~MidJob
    /\ server /\ Budget
    /\ RestartWhenIdle(timer)
    /\ UNCHANGED <<runVars, loop, runsDrain, serverVars, stopAsked>>

\* A poller finds the gateway idle, or its patience is over.
PollerEmits ==
    /\ Alive /\ ~MidJob
    /\ pollers > 0
    /\ pollers' = pollers - 1
    /\ timer' = FALSE
    /\ RequestRestart
    /\ UNCHANGED <<runVars, loop, runsDrain, serverVars, stopAsked>>

-----------------------------------------------------------------------------
\* The agent runs go on whatever the loop does; while a job is under way only its descents.
RunsGoOn ==
    /\ Alive
    /\ ~DescentPending => ~MidJob
    /\ AgentNext
    /\ UNCHANGED loopVars

ShutdownStep == \/ StartDrain \/ PollTasks \/ PollRuns \/ DrainEnds \/ CloseServer
                \/ ExitAfterClose \/ RestartInProcess

LoopNext ==
    \/ RunsGoOn
    \/ SignalStop \/ ShutdownStep \/ ForceExit
    \/ ResetLanes \/ StartSucceeds \/ StartFails \/ LockIsReleased
    \/ ScheduleRestart \/ RestartTimerFires \/ ConfigChangeRestarts \/ PollerEmits

LoopSpec == LoopInit /\ [][LoopNext]_gatewayVars

\* The shutdown procedure goes on (its waits have deadlines, and close() ends), and so do the
\* two halves of a job.  Strong, because jobs of the runs keep coming between.  Nothing is
\* assumed of the runs, of start(), nor of the force-exit timer.
LoopFairness ==
    /\ SF_gatewayVars(ShutdownStep)
    /\ SF_gatewayVars(ResetLanes)
    /\ \A r \in Runs : SF_gatewayVars(Alive /\ DescentPending /\ Descend(r) /\ UNCHANGED loopVars)

FairLoopSpec == LoopSpec /\ LoopFairness

-----------------------------------------------------------------------------
(* Properties. *)

\* The session entry that a run holds while its innermost task works.
SessionEntry(r) == command[<<r, Depth(r) - 1>>]

\* Two runs work on one session at the same time only when a restart lies between them: the
\* runs that one life of the gateway lets in exclude each other across drains and resets.
OneRunPerSessionAndLife ==
    \A r1, r2 \in Runs :
        r1 # r2 /\ SessionOf[r1] = SessionOf[r2] /\ Executing(r1) /\ Executing(r2)
            => SessionEntry(r1).generation # SessionEntry(r2).generation

\* A drain that did not time out hands over nothing: when the lanes are reset after it, no run
\* that the ending life let in is still working, though queued entries kept starting while it
\* waited for its snapshot only.
CleanHandover ==
    [][ /\ loop = "resetting" /\ loop' = "starting"
        /\ waiter["drain"].answer # "timedOut" /\ runsDrain = "drained"
        => \A r \in Runs :
              Executing(r) => SessionEntry(r).generation # generation[SessionOf[r]] ]_gatewayVars

\* The turns of the sessions outlast the gateway's lives: who waits when the lanes are reset keeps
\* the place, and is neither lost nor overtaken; drains, refusals and the late ends of runs of
\* an earlier life change nobody's turn.
ImplementsTurnsOfLives == Turns!SpecOfLives

\* A shutdown procedure ends by its own deadlines, in an exit or with the gateway open to the
\* next request, whatever the runs, start() and further signals do meanwhile.
ShutdownEnds == shutdown # "none" ~> (shutdown = "none" \/ ~Alive)

-----------------------------------------------------------------------------
(* What comments and documents say, and the code does not do: see the README. *)

\* New work is refused during the drain window only (run-loop.ts:126-127).
RefusesOnlyInDrainWindow ==
    loop = "waiting" /\ shutdown = "none" /\ server => ~gatewayDraining

\* SIGTERM and SIGINT exit after a graceful shutdown (run-loop.ts:226).
StopIsHonoured == stopAsked ~> ~Alive

\* The server that listens is the one a shutdown would close (gateway-lock.md, "Mechanism").
ListenerIsReachable == listening /\ loop = "waiting" => server
=============================================================================
