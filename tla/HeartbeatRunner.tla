-------------------------- MODULE HeartbeatRunner --------------------------
(***************************************************************************)
(* The heartbeat runner (startHeartbeatRunner of                           *)
(* src/infra/heartbeat-runner.ts) on top of the wake layer: each life of   *)
(* the gateway starts one, which registers its handler, keeps a schedule   *)
(* per agent and one interval timer, and runs heartbeats when it is woken. *)
(*                                                                         *)
(* Time is abstracted: an agent is due when nextDueMs has passed.  A call  *)
(* of the handler runs to its first await in the job that made it: from    *)
(* "entry" or "loop" until it awaits a heartbeat or answers, nothing else  *)
(* happens.                                                                *)
(***************************************************************************)
EXTENDS HeartbeatWake

CONSTANTS
    Agents,      \* agents with a heartbeat: the targets of targeted wakes
    Configs,     \* the sets of agents a configuration may name
    Requested,   \* what other events wake: pairs of a target and a priority
    MaxToggles   \* bound on set-heartbeats calls that change the flag

Everyone == "all"      \* the key of a wake without a target
Interval == 1          \* REASON_PRIORITY.INTERVAL: the reason of the interval timer only

ASSUME HeartbeatRunnerAssumption ==
    /\ Everyone \notin Agents /\ Targets = Agents \cup {Everyone}
    /\ Configs \subseteq SUBSET Agents /\ Requested \subseteq Targets \X (Priorities \ {Interval})
    /\ Interval \in Priorities /\ MaxToggles \in Nat

VARIABLES
    stopped,   \* the runners that have been stopped
    agents,    \* per runner: the keys of state.agents
    due,       \* per runner: its agents whose nextDueMs has passed
    armed,     \* the runners whose interval timer is set
    enabled,   \* heartbeatsEnabled
    toggles,   \* how often it has changed
    call       \* per batch: where the handler's call for its current wake is

runnerVars == <<stopped, agents, due, armed, enabled, toggles, call>>
vars       == <<wakeVars, runnerVars>>

Lives  == 1..MaxLives
NoCall == [at |-> "none", todo |-> {}, agent |-> NoTarget, stale |-> FALSE]
Entry  == [NoCall EXCEPT !.at = "entry"]

RunnerTypeOK ==
    /\ WakeTypeOK
    /\ stopped \subseteq 1..lives /\ armed \subseteq 1..lives \ stopped
    /\ agents \in [Lives -> SUBSET Agents]
    /\ \A h \in Lives : due[h] \subseteq agents[h]
    /\ enabled \in BOOLEAN /\ toggles \in 0..MaxToggles
    /\ \A b \in Batches : /\ call[b].at \in {"none", "entry", "loop", "running"}
                          /\ call[b].at = "none" <=> b \notin Busy
                          /\ call[b].todo \subseteq Agents /\ call[b].stale \in BOOLEAN
                          /\ call[b].agent \in Agents \cup {NoTarget}

RunnerInit ==
    /\ WakeInit
    /\ stopped = {} /\ armed = {}
    /\ agents = [h \in Lives |-> {}] /\ due = [h \in Lives |-> {}]
    /\ enabled = TRUE /\ toggles = 0
    /\ call = [b \in Batches |-> NoCall]

\* A call of the handler has yet to reach its first await.
MidCall == \E b \in Batches : call[b].at \in {"entry", "loop"}

-----------------------------------------------------------------------------
(* The schedule. *)

\* scheduleNext() of runner h with agents A: the earliest of them arms the timer.
ScheduleNext(h, A) ==
    IF h \in stopped THEN armed
    ELSE IF A = {} THEN armed \ {h} ELSE armed \cup {h}

\* Time passes.
BecomesDue(h, a) ==
    /\ ~MidCall
    /\ h \notin stopped /\ a \in agents[h] \ due[h]
    /\ due' = [due EXCEPT ![h] = @ \cup {a}]
    /\ UNCHANGED <<wakeVars, stopped, agents, armed, enabled, toggles, call>>

\* The interval timer of a runner fires.
IntervalFires(h) ==
    /\ ~MidCall
    /\ h \in armed /\ armed' = armed \ {h}
    /\ RequestHeartbeatNow(Everyone, Interval)
    /\ UNCHANGED <<stopped, agents, due, enabled, toggles, call>>

\* Any other event that wakes an agent, or all of them.
RequestWake(t, p) ==
    /\ ~MidCall
    /\ RequestHeartbeatNow(t, p)
    /\ UNCHANGED runnerVars

\* startHeartbeatRunner with the agents A of the configuration.
StartRunner(A) ==
    /\ ~MidCall
    /\ SetHandler
    /\ agents' = [agents EXCEPT ![lives + 1] = A]
    /\ armed' = IF A = {} THEN armed ELSE armed \cup {lives + 1}
    /\ UNCHANGED <<stopped, due, enabled, toggles, call>>

\* cleanup(); nobody looks at the schedule of a stopped runner any more.
StopRunner(h) ==
    /\ ~MidCall
    /\ h \in (1..lives) \ stopped
    /\ stopped' = stopped \cup {h}
    /\ DisposeHandler(h)
    /\ armed' = armed \ {h} /\ due' = [due EXCEPT ![h] = {}]
    /\ UNCHANGED <<agents, enabled, toggles, call>>

\* updateConfig: new agents are not due, an interval that changes may make the others due or not.
\* Runs under way keep the agent objects they have.
UpdateConfig(h, A, D) ==
    /\ ~MidCall
    /\ h \in (1..lives) \ stopped
    /\ D \subseteq A \cap agents[h]
    /\ agents' = [agents EXCEPT ![h] = A]
    /\ due' = [due EXCEPT ![h] = D]
    /\ armed' = ScheduleNext(h, A)
    /\ call' = [b \in Batches |-> IF batch[b].handler = h THEN [call[b] EXCEPT !.stale = TRUE]
                                  ELSE call[b]]
    /\ UNCHANGED <<wakeVars, stopped, enabled, toggles>>

\* set-heartbeats
SetHeartbeatsEnabled ==
    /\ ~MidCall
    /\ toggles < MaxToggles /\ toggles' = toggles + 1
    /\ enabled' = ~enabled
    /\ UNCHANGED <<wakeVars, stopped, agents, due, armed, call>>

-----------------------------------------------------------------------------
(* A call of the handler: run(). *)

\* The wake layer's timer fires; a batch it takes calls the handler at once.
WakeTimerFires ==
    /\ ~MidCall
    /\ TimerFires
    /\ call' = [b \in Batches |-> IF batch[b] = Free /\ batch'[b] # Free THEN Entry ELSE call[b]]
    /\ UNCHANGED <<stopped, agents, due, armed, enabled, toggles>>

\* The handler answers; the next wake of the batch is a new call.
Answer(b, inFlight) ==
    /\ CallReturns(b, inFlight)
    /\ call' = [call EXCEPT ![b] = IF batch'[b] = Free THEN NoCall ELSE Entry]

\* Nothing is to be done; only a wake for an unknown agent sets the interval timer again.
Refuse(b) ==
    LET h == batch[b].handler
        t == batch[b].current
    IN  /\ call[b].at = "entry"
        /\ \/ /\ h \in stopped \/ ~enabled \/ agents[h] = {}
              /\ UNCHANGED armed
           \/ /\ h \notin stopped /\ enabled /\ agents[h] # {}
              /\ t # Everyone /\ t \notin agents[h]
              /\ armed' = ScheduleNext(h, agents[h])
        /\ Answer(b, FALSE)
        /\ UNCHANGED <<stopped, agents, due, enabled, toggles>>

\* The agents to run: the one that is asked for, or all (for an interval wake: all that are due).
Enter(b) ==
    LET h == batch[b].handler
        t == batch[b].current
    IN  /\ call[b].at = "entry"
        /\ h \notin stopped /\ enabled /\ agents[h] # {}
        /\ t = Everyone \/ t \in agents[h]
        /\ call' = [call EXCEPT ![b] =
                      [NoCall EXCEPT !.at = "loop",
                          !.todo = IF t # Everyone THEN {t}
                                   ELSE IF batch[b].wakes[t] = Interval THEN due[h]
                                   ELSE agents[h]]]
        /\ UNCHANGED <<wakeVars, stopped, agents, due, armed, enabled, toggles>>

\* advanceAgentSchedule, which after updateConfig changes an object nobody looks at any more.
Advance(b, a) ==
    IF call[b].stale THEN due ELSE [due EXCEPT ![batch[b].handler] = @ \ {a}]

\* runOnce finds heartbeats disabled, or the agent gone from the configuration.
SkipDisabled(b) ==
    /\ call[b].at = "loop"
    /\ \E a \in call[b].todo :
          /\ ~enabled \/ a \notin agents[batch[b].handler]
          /\ call' = [call EXCEPT ![b].todo = @ \ {a}]
    /\ UNCHANGED <<wakeVars, stopped, agents, due, armed, enabled, toggles>>

\* runOnce finds the main lane busy: the whole wake is put back.  A targeted one counts as run.
SkipInFlight(b) ==
    LET h == batch[b].handler
    IN  /\ call[b].at = "loop"
        /\ \E a \in call[b].todo :
              /\ enabled /\ a \in agents[h]
              /\ \/ /\ batch[b].current = Everyone
                    /\ UNCHANGED <<due, armed>>
                 \/ /\ batch[b].current # Everyone
                    /\ due' = Advance(b, a) /\ armed' = ScheduleNext(h, agents[h])
        /\ Answer(b, TRUE)
        /\ UNCHANGED <<stopped, agents, enabled, toggles>>

\* runOnce starts a heartbeat of agent a and awaits it ...
RunOnce(b, a) ==
    /\ call[b].at = "loop" /\ a \in call[b].todo
    /\ enabled /\ a \in agents[batch[b].handler]
    /\ call' = [call EXCEPT ![b].at = "running", ![b].todo = @ \ {a}, ![b].agent = a]
    /\ UNCHANGED <<wakeVars, stopped, agents, due, armed, enabled, toggles>>

\* ... which ran, was skipped for another reason, failed or threw.
RunEnds(b) ==
    /\ ~MidCall
    /\ call[b].at = "running"
    /\ call' = [call EXCEPT ![b].at = "loop", ![b].agent = NoTarget]
    /\ due' = Advance(b, call[b].agent)
    /\ UNCHANGED <<wakeVars, stopped, agents, armed, enabled, toggles>>

\* Mutant: a run that leaves nobody to run does not set the interval timer again.
LeaveLoop_NoSchedule(b) ==
    /\ call[b].at = "loop" /\ call[b].todo = {}
    /\ Answer(b, FALSE)
    /\ UNCHANGED <<stopped, agents, due, armed, enabled, toggles>>

\* All are served: set the interval timer again.
LeaveLoop(b) ==
    LET h == batch[b].handler
    IN  /\ call[b].at = "loop" /\ call[b].todo = {}
        /\ armed' = ScheduleNext(h, agents[h])
        /\ Answer(b, FALSE)
        /\ UNCHANGED <<stopped, agents, due, enabled, toggles>>

-----------------------------------------------------------------------------
CallStep(b) == \/ Refuse(b) \/ Enter(b) \/ SkipDisabled(b) \/ SkipInFlight(b) \/ RunEnds(b) \/ LeaveLoop(b)
               \/ \E a \in Agents : RunOnce(b, a)

RunnerNext ==
    \/ WakeTimerFires
    \/ \E w \in Requested : RequestWake(w[1], w[2])
    \/ \E A \in Configs : StartRunner(A)
    \/ \E h \in Lives : \/ IntervalFires(h) \/ StopRunner(h)
                       \/ \E a \in Agents : BecomesDue(h, a)
                       \/ \E A \in Configs, D \in SUBSET Agents : UpdateConfig(h, A, D)
    \/ SetHeartbeatsEnabled
    \/ \E b \in Batches : CallStep(b)

RunnerSpec == RunnerInit /\ [][RunnerNext]_vars

\* Timers fire, heartbeats end (they have a timeout), and the main lane is not busy for ever
\* whenever an agent's turn comes.  Strong, because calls under way keep disabling the other steps.
RunnerFairness ==
    /\ SF_vars(WakeTimerFires)
    /\ \A h \in Lives : SF_vars(IntervalFires(h))
    /\ \A b \in Batches : /\ WF_vars(CallStep(b)) /\ SF_vars(RunEnds(b))
                          /\ \A a \in Agents : SF_vars(RunOnce(b, a))

FairRunnerSpec == RunnerSpec /\ RunnerFairness

-----------------------------------------------------------------------------
(* Properties. *)

\* As long as heartbeats are never paused, the heartbeat of the runner that was started last cannot
\* die before that runner is stopped.  It is the one that is woken, also when an older one is
\* stopped only after it was started; and its interval timer is set, or a wake for everyone is on
\* its way, whatever the runs in between found (nobody due, requests in flight, an unknown agent,
\* a new configuration).
IntervalIsArmed ==
    toggles = 0 /\ lives > 0 /\ lives \notin stopped /\ agents[lives] # {} =>
        /\ handler = lives
        /\ \/ lives \in armed
           \/ pending[Everyone] # NoWake
           \/ \E b \in Busy : /\ batch[b].handler = lives
                              /\ Everyone \in batch[b].left \cup {batch[b].current}

\* An agent that is due gets its heartbeat, unless its runner is stopped or heartbeats are paused.
Served(h, a) == a \notin due[h] \/ \E b \in Busy : batch[b].handler = h /\ call[b].agent = a

DueIsServed ==
    \A h \in Lives, a \in Agents :
        handler = h /\ a \in due[h] ~> handler # h \/ Served(h, a) \/ toggles > 0

-----------------------------------------------------------------------------
(* What documents say, and the code does not do: see the README. *)

\* Enabled for good, an agent that is due gets its heartbeat (docs/cli/system.md:41, "turn
\* heartbeats back on (use this if they were disabled)").
HeartbeatsResume ==
    \A h \in Lives, a \in Agents :
        handler = h /\ a \in due[h] /\ enabled /\ toggles = MaxToggles
            ~> handler # h \/ Served(h, a)
=============================================================================
