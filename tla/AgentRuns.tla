----------------------------- MODULE AgentRuns -----------------------------
(***************************************************************************)
(* How agent runs use the command queue (src/agents/pi-embedded-runner):   *)
(* runEmbeddedPiAgent queues a run on its session's lane, and the task of  *)
(* that entry queues the real work on a global lane and awaits it, so a    *)
(* run occupies several lanes at once.  A manual cron run also holds the   *)
(* cron lane around the two.  While the innermost task works it registers  *)
(* the handle of each attempt in ACTIVE_EMBEDDED_RUNS.                     *)
(*                                                                         *)
(* Level k of run r is the queue entry <<r, k>>.  The queue itself is the  *)
(* CommandQueue module.  A session's lane goes by the session's name.      *)
(***************************************************************************)
EXTENDS CommandQueue

CONSTANTS
    Runs,            \* slots for agent runs
    Sessions,        \* session keys
    GlobalLanes,     \* the CommandLane names in use
    SessionOf,       \* [Runs -> Sessions]
    LaneOf,          \* [Runs -> GlobalLanes], params.lane of the run
    NoRun,           \* "no handle registered"
    MaxAttempts      \* MAX_RUN_LOOP_ITERATIONS: attempts of one run

VARIABLES
    level,       \* per run: how many of its levels have been submitted in this life of the slot
    attempts,    \* per run: the attempts made in this life of the slot
    attempting,  \* the runs between setActiveEmbeddedRun and clearActiveEmbeddedRun
    activeRuns   \* ACTIVE_EMBEDDED_RUNS: the run whose handle is registered, per session

runVars   == <<level, attempts, attempting, activeRuns>>
agentVars == <<vars, runVars>>

-----------------------------------------------------------------------------
(* The lanes a run passes through, outermost first. *)

\* Mutant: the inner run of a cron job stays on the lane the job holds.
ResolveGlobalLane_Inherit(lane) == lane

\* Cron jobs hold the cron lane slot; inner operations must use nested.
ResolveGlobalLane(lane) == IF lane = "cron" THEN "nested" ELSE lane

\* Mutant: the session lane is forgotten.
Path_NoSession(r) ==
    IF LaneOf[r] = "cron" THEN <<"cron", "nested">> ELSE <<LaneOf[r], LaneOf[r]>>

Path(r) ==
    IF LaneOf[r] = "cron"
    THEN <<"cron", SessionOf[r], ResolveGlobalLane("cron")>>
    ELSE <<SessionOf[r], ResolveGlobalLane(LaneOf[r])>>

Depth(r) == Len(Path(r))
Slots    == UNION {{<<r, k>> : k \in 1..Depth(r)} : r \in Runs}

\* The lanes and the entries of the queue are those of the runs.
ASSUME AgentRunsAssumption ==
    /\ SessionOf \in [Runs -> Sessions]
    /\ LaneOf \in [Runs -> GlobalLanes]
    /\ \A r \in Runs : LaneOf[r] = "cron" => "nested" \in GlobalLanes
    /\ GlobalLanes \cap Sessions = {}
    /\ Lanes = GlobalLanes \cup Sessions
    /\ Tasks = Slots
    /\ NoRun \notin Runs
    /\ MaxAttempts \in Nat

\* Where the slot of level k of run r is.
PhaseOf(r, k) == command[<<r, k>>].phase

\* The outermost promise of the run is pending.
Live(r) == PhaseOf(r, 1) \in {"queued", "running"}

\* The innermost task runs: the agent is working on the session.
Executing(r) == PhaseOf(r, Depth(r)) = "running"

\* The task of level k has submitted level k + 1.
Entered(r, k) == Live(r) /\ k <= level[r]

\* The session task has started and has yet to call enqueueGlobal: it does so in the same job.
DescentPending ==
    \E r \in Runs : Live(r) /\ level[r] = Depth(r) - 1 /\ PhaseOf(r, Depth(r) - 1) = "running"

AgentTypeOK ==
    /\ TypeOK
    /\ level \in [Runs -> 0..3]
    /\ attempts \in [Runs -> 0..MaxAttempts]
    /\ attempting \subseteq Runs
    /\ activeRuns \in [Sessions -> Runs \cup {NoRun}]

AgentInit ==
    /\ Init
    /\ level = [r \in Runs |-> 0]
    /\ attempts = [r \in Runs |-> 0]
    /\ attempting = {}
    /\ activeRuns = [s \in Sessions |-> NoRun]

-----------------------------------------------------------------------------
(* Actions. *)

EnqueueLevel(r, k) ==
    /\ \/ Enqueue(<<r, k>>, Path(r)[k])
       \/ EnqueueRefused(<<r, k>>, Path(r)[k])
    /\ level' = [level EXCEPT ![r] = k]
    /\ UNCHANGED <<attempting, activeRuns>>

\* A caller starts a run: enqueueSession, or enqueueRun of the cron service.
Submit(r) ==
    /\ ~DescentPending
    /\ ~Live(r)
    /\ EnqueueLevel(r, 1)
    /\ attempts' = [attempts EXCEPT ![r] = 0]

\* The task of a level runs and queues the next one.
Descend(r) ==
    LET k == level[r]
    IN  /\ Live(r) /\ k < Depth(r)
        /\ DescentPending => k = Depth(r) - 1
        /\ PhaseOf(r, k) = "running"
        /\ EnqueueLevel(r, k + 1)
        /\ UNCHANGED attempts

\* setActiveEmbeddedRun: an attempt has built its session and registers its handle.
StartAttempt(r) ==
    /\ ~DescentPending
    /\ Executing(r) /\ r \notin attempting
    /\ attempts[r] < MaxAttempts
    /\ attempts' = [attempts EXCEPT ![r] = @ + 1]
    /\ attempting' = attempting \cup {r}
    /\ activeRuns' = [activeRuns EXCEPT ![SessionOf[r]] = r]
    /\ UNCHANGED <<vars, level>>

\* clearActiveEmbeddedRun in the attempt's finally; the run may make another attempt.
EndAttempt(r) ==
    /\ ~DescentPending
    /\ r \in attempting
    /\ attempting' = attempting \ {r}
    /\ activeRuns' = [activeRuns EXCEPT ![SessionOf[r]] = IF @ = r THEN NoRun ELSE @]
    /\ UNCHANGED <<vars, level, attempts>>

SettleLevel(r, k, outcome) ==
    /\ ~DescentPending
    /\ \/ SettleCurrent(<<r, k>>, outcome)
       \/ SettleStale(<<r, k>>, outcome)
    /\ UNCHANGED runVars

\* The innermost task ends, with its attempts behind it.
Finish(r) ==
    /\ Executing(r) /\ r \notin attempting
    /\ \E outcome \in {"resolved", "rejected"} : SettleLevel(r, Depth(r), outcome)

\* A task sees the promise of the level it awaits settle, and settles alike.
Return(r) ==
    \E k \in 1..(Depth(r) - 1) :
        /\ Entered(r, k + 1)
        /\ PhaseOf(r, k) = "running"
        /\ PhaseOf(r, k + 1) \in Settled
        /\ SettleLevel(r, k, IF PhaseOf(r, k + 1) = "resolved" THEN "resolved" ELSE "rejected")

\* Queue mode interrupt, and /stop: the session's waiting runs are rejected.
ClearSession(s) ==
    /\ ~DescentPending
    /\ ClearCommandLane(s)
    /\ UNCHANGED runVars

\* applyGatewayLaneConcurrency: the configured lanes; nested keeps the default of 1.
ConfigureLane(l, n) ==
    /\ ~DescentPending
    /\ l # "nested"
    /\ SetCommandLaneConcurrency(l, n)
    /\ UNCHANGED runVars

\* What a submitted run does of itself.
RunProgress(r) == Descend(r) \/ EndAttempt(r) \/ Finish(r) \/ Return(r)

AgentNext ==
    \/ \E r \in Runs : Submit(r) \/ Descend(r) \/ StartAttempt(r) \/ EndAttempt(r)
                         \/ Finish(r) \/ Return(r)
    \/ \E s \in Sessions : ClearSession(s)
    \/ \E l \in GlobalLanes, n \in 1..MaxConcurrency : ConfigureLane(l, n)

AgentSpec == AgentInit /\ [][AgentNext]_agentVars

\* Every attempt and every run ends (each carries a timeout that aborts it), and a promise
\* that has settled reaches its awaiter.  Strong fairness, because the jobs of other runs keep
\* disabling these actions for a moment; a run need not make another attempt.
RunFairness == \A r \in Runs : SF_agentVars(RunProgress(r))

FairAgentSpec == AgentSpec /\ RunFairness

-----------------------------------------------------------------------------
(* Properties. *)

\* Two runs never work on one session at the same time (queue.md, "Scope and guarantees"), and the
\* run that is attempting a turn is the one that abort, steer and the restart drain find.
OneRunPerSession ==
    /\ \A r1, r2 \in Runs :
          r1 # r2 /\ SessionOf[r1] = SessionOf[r2] => ~(Executing(r1) /\ Executing(r2))
    /\ \A r \in attempting : activeRuns[SessionOf[r]] = r

\* Every run's promise settles: runs that hold one lane while waiting for another never
\* wait for each other.
RunReturns == \A r \in Runs : Live(r) ~> ~Live(r)

\* The session lanes implement turns taken one at a time in the order asked for, whatever
\* goes on in the global lanes.
RunOf(t) == t[1]

Turns == INSTANCE SessionTurns WITH
    holder <- [s \in Sessions |->
        IF activeTaskIds[s] = {} THEN NoRun ELSE RunOf(CHOOSE t \in activeTaskIds[s] : TRUE)],
    waiting <- [s \in Sessions |-> [i \in 1..Len(queue[s]) |-> RunOf(queue[s][i])]]

ImplementsTurns == Turns!Spec
=============================================================================
