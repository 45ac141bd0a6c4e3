---------------------------- MODULE CommandQueue ----------------------------
(***************************************************************************)
(* The in-process command queue of src/process/command-queue.ts: named     *)
(* lanes, each a FIFO with a concurrency limit, drained by a synchronous   *)
(* "pump".  One action is one run-to-completion JavaScript job: a call of  *)
(* an exported function, the settling of a task's promise, or a timer      *)
(* callback of waitForActiveTasks.                                         *)
(*                                                                         *)
(* A member of Tasks is a slot for one queue entry (its task closure and   *)
(* its promise).  A settled slot may be submitted again as a new command,  *)
(* so a small set of slots stands for an unbounded stream of commands.     *)
(* An entry is started at most once, so the slot also stands for the       *)
(* unique number nextTaskId gives it.  LaneState.draining is TRUE only     *)
(* while a pump is on the call stack: no action begins or ends inside one. *)
(***************************************************************************)
EXTENDS Integers, Sequences, FiniteSets

CONSTANTS
    Lanes,           \* the lane names in use
    Tasks,           \* slots for queue entries
    Waiters,         \* slots for calls of waitForActiveTasks
    MaxConcurrency,  \* bound on the concurrency a caller asks for
    MaxGeneration,   \* bound on the number of lane resets
    NoLane           \* "this slot has never been submitted"

ASSUME CommandQueueAssumption ==
    /\ IsFiniteSet(Tasks)
    /\ MaxConcurrency \in Nat \ {0}
    /\ MaxGeneration \in Nat
    /\ NoLane \notin Lanes

VARIABLES
    gatewayDraining,  \* queueState.gatewayDraining
    queue,            \* LaneState.queue, per lane
    activeTaskIds,    \* LaneState.activeTaskIds, per lane
    maxConcurrent,    \* LaneState.maxConcurrent, per lane
    generation,       \* LaneState.generation, per lane
    command,          \* per slot: where its promise is, and what its closure captured
    waiter            \* per call of waitForActiveTasks: its answer and activeAtStart

vars == <<gatewayDraining, queue, activeTaskIds, maxConcurrent, generation, command, waiter>>

-----------------------------------------------------------------------------
(* Phases of a command's promise. *)

Settled == {"idle", "resolved", "rejected", "cleared", "refused"}

\* A command that waits or runs is in a lane.
Command == [phase : Settled, lane : Lanes \cup {NoLane}, generation : 0..MaxGeneration]
      \cup [phase : {"queued", "running"}, lane : Lanes, generation : 0..MaxGeneration]
Waiter  == [answer : {"none", "waiting", "drained", "timedOut"}, activeAtStart : SUBSET Tasks]

TypeOK ==
    /\ gatewayDraining \in BOOLEAN
    /\ queue \in [Lanes -> Seq(Tasks)]
    /\ activeTaskIds \in [Lanes -> SUBSET Tasks]
    /\ maxConcurrent \in [Lanes -> 1..MaxConcurrency]
    /\ generation \in [Lanes -> 0..MaxGeneration]
    /\ command \in [Tasks -> Command]
    /\ waiter \in [Waiters -> Waiter]

Init ==
    /\ gatewayDraining = FALSE
    /\ queue = [l \in Lanes |-> <<>>]
    /\ activeTaskIds = [l \in Lanes |-> {}]
    /\ maxConcurrent = [l \in Lanes |-> 1]
    /\ generation = [l \in Lanes |-> 0]
    /\ command = [t \in Tasks |-> [phase |-> "idle", lane |-> NoLane, generation |-> 0]]
    /\ waiter = [w \in Waiters |-> [answer |-> "none", activeAtStart |-> {}]]

-----------------------------------------------------------------------------
(* The pump.  `while (active < max && queue not empty) shift and start`    *)
(* starts a prefix of the queue whose length is known beforehand.          *)

\* Mutant: the pump compares with <= and starts one entry too many.
PumpCount_OneTooMany(q, busy, limit) ==
    LET free == IF busy <= limit THEN limit - busy + 1 ELSE 0
    IN  IF Len(q) < free THEN Len(q) ELSE free

PumpCount(q, busy, limit) ==
    LET free == IF busy < limit THEN limit - busy ELSE 0
    IN  IF Len(q) < free THEN Len(q) ELSE free

FirstOf(q, k)  == {q[i] : i \in 1..k}
AfterOf(q, k)  == SubSeq(q, k + 1, Len(q))

\* Mutant: the pump pops the newest entry instead of shifting the oldest.
DrainLanes_Pop(L, q, a, m, g, c) ==
    LET n == [l \in Lanes |-> IF l \in L THEN PumpCount(q[l], Cardinality(a[l]), m[l]) ELSE 0]
        Popped(l) == {q[l][i] : i \in (Len(q[l]) - n[l] + 1)..Len(q[l])}
    IN  /\ queue' = [l \in Lanes |-> SubSeq(q[l], 1, Len(q[l]) - n[l])]
        /\ activeTaskIds' = [l \in Lanes |-> a[l] \cup Popped(l)]
        /\ command' = [t \in Tasks |->
                          IF \E l \in L : t \in Popped(l)
                          THEN [c[t] EXCEPT !.phase = "running", !.generation = g[c[t].lane]]
                          ELSE c[t]]

\* drainLane(l) for every l in L, applied to the lane state the caller has just written:
\* queues q, active sets a, limits m, generations g and commands c.
DrainLanes(L, q, a, m, g, c) ==
    LET n == [l \in Lanes |-> IF l \in L THEN PumpCount(q[l], Cardinality(a[l]), m[l]) ELSE 0]
        Starts(t) == \E l \in L : t \in FirstOf(q[l], n[l])
    IN  /\ queue' = [l \in Lanes |-> AfterOf(q[l], n[l])]
        /\ activeTaskIds' = [l \in Lanes |-> a[l] \cup FirstOf(q[l], n[l])]
        /\ command' = [t \in Tasks |->
                          IF Starts(t)
                          THEN [phase |-> "running", lane |-> c[t].lane, generation |-> g[c[t].lane]]
                          ELSE c[t]]

-----------------------------------------------------------------------------
(* Exported operations. *)

AllActive == UNION {activeTaskIds[l] : l \in Lanes}

\* The slot is free for a new command; a waiter still holding the old task number keeps it.
Submittable(t) ==
    /\ command[t].phase \in Settled
    /\ \A w \in Waiters : t \notin waiter[w].activeAtStart

\* enqueueCommandInLane while the gateway accepts work.
Enqueue(t, l) ==
    /\ ~gatewayDraining
    /\ Submittable(t)
    /\ DrainLanes({l}, [queue EXCEPT ![l] = Append(@, t)], activeTaskIds, maxConcurrent, generation,
                  [command EXCEPT ![t] = [phase |-> "queued", lane |-> l, generation |-> 0]])
    /\ UNCHANGED <<gatewayDraining, maxConcurrent, generation, waiter>>

\* enqueueCommandInLane while the gateway drains for a restart: GatewayDrainingError.
EnqueueRefused(t, l) ==
    /\ gatewayDraining
    /\ Submittable(t)
    /\ command' = [command EXCEPT ![t] = [phase |-> "refused", lane |-> l, generation |-> 0]]
    /\ UNCHANGED <<gatewayDraining, queue, activeTaskIds, maxConcurrent, generation, waiter>>

\* A task started in the lane's current generation settles: completeTask, then pump.
SettleCurrent(t, outcome) ==
    LET l == command[t].lane
    IN  /\ command[t].phase = "running"
        /\ command[t].generation = generation[l]
        /\ DrainLanes({l}, queue, [activeTaskIds EXCEPT ![l] = @ \ {t}], maxConcurrent, generation,
                      [command EXCEPT ![t].phase = outcome])
        /\ UNCHANGED <<gatewayDraining, maxConcurrent, generation, waiter>>

\* A task of an earlier generation settles: completeTask returns false, its promise still settles.
SettleStale(t, outcome) ==
    /\ command[t].phase = "running"
    /\ command[t].generation # generation[command[t].lane]
    /\ command' = [command EXCEPT ![t].phase = outcome]
    /\ UNCHANGED <<gatewayDraining, queue, activeTaskIds, maxConcurrent, generation, waiter>>

SetCommandLaneConcurrency(l, n) ==
    LET m == [maxConcurrent EXCEPT ![l] = IF n < 1 THEN 1 ELSE n]
    IN  /\ maxConcurrent' = m
        /\ DrainLanes({l}, queue, activeTaskIds, m, generation, command)
        /\ UNCHANGED <<gatewayDraining, generation, waiter>>

\* Mutant: the entries are dropped and their promises never settle.
ClearCommandLane_Silent(l) ==
    /\ queue[l] # <<>>
    /\ queue' = [queue EXCEPT ![l] = <<>>]
    /\ UNCHANGED <<gatewayDraining, activeTaskIds, maxConcurrent, generation, command, waiter>>

\* Every pending entry of the lane is rejected with CommandLaneClearedError.
ClearCommandLane(l) ==
    /\ queue[l] # <<>>
    /\ queue' = [queue EXCEPT ![l] = <<>>]
    /\ command' = [t \in Tasks |-> IF t \in FirstOf(queue[l], Len(queue[l]))
                                   THEN [command[t] EXCEPT !.phase = "cleared"]
                                   ELSE command[t]]
    /\ UNCHANGED <<gatewayDraining, activeTaskIds, maxConcurrent, generation, waiter>>

MarkGatewayDraining ==
    /\ gatewayDraining' = TRUE
    /\ UNCHANGED <<queue, activeTaskIds, maxConcurrent, generation, command, waiter>>

\* Mutant: the active ids survive the reset.
ResetAllLanes_KeepsActive ==
    LET g == [l \in Lanes |-> generation[l] + 1]
    IN  /\ \A l \in Lanes : generation[l] < MaxGeneration
        /\ gatewayDraining' = FALSE
        /\ generation' = g
        /\ DrainLanes({l \in Lanes : queue[l] # <<>>}, queue, activeTaskIds, maxConcurrent, g, command)
        /\ UNCHANGED <<maxConcurrent, waiter>>

\* Mutant: the preserved queues are not pumped after the reset.
ResetAllLanes_NoPump ==
    /\ \A l \in Lanes : generation[l] < MaxGeneration
    /\ gatewayDraining' = FALSE
    /\ generation' = [l \in Lanes |-> generation[l] + 1]
    /\ activeTaskIds' = [l \in Lanes |-> {}]
    /\ UNCHANGED <<queue, maxConcurrent, command, waiter>>

\* Mutant: the reset does not bump the generation, so old and new tasks look alike.
ResetAllLanes_SameGeneration ==
    /\ gatewayDraining /\ gatewayDraining' = FALSE
    /\ DrainLanes({l \in Lanes : queue[l] # <<>>}, queue, [l \in Lanes |-> {}], maxConcurrent,
                  generation, command)
    /\ UNCHANGED <<maxConcurrent, generation, waiter>>

\* After an in-process restart: new generation, no active ids, queued entries pumped at once.
ResetAllLanes ==
    LET g == [l \in Lanes |-> generation[l] + 1]
    IN  /\ \A l \in Lanes : generation[l] < MaxGeneration
        /\ gatewayDraining' = FALSE
        /\ generation' = g
        /\ DrainLanes({l \in Lanes : queue[l] # <<>>}, queue, [l \in Lanes |-> {}], maxConcurrent,
                      g, command)
        /\ UNCHANGED <<maxConcurrent, waiter>>

-----------------------------------------------------------------------------
(* waitForActiveTasks: a poll over the ids that were active at the call.   *)
(* The snapshot is dead once the promise has its answer.                   *)

Answer(w, answer, pending) ==
    waiter' = [waiter EXCEPT ![w] = [answer |-> answer, activeAtStart |-> pending]]

\* Mutant: every task of the snapshot must be active, not some.
StillActive_Every(w) == waiter[w].activeAtStart \subseteq AllActive

\* Mutant: the check looks at all that runs now, not at the snapshot.
StillActive_Anything(w) == AllActive # {}

StillActive(w) == waiter[w].activeAtStart \cap AllActive # {}

\* The call, with the first synchronous check(): a zero timeout is answered at once.
StartWaiting(w) ==
    /\ waiter[w].answer # "waiting"
    /\ \/ AllActive = {} /\ Answer(w, "drained", {})
       \/ AllActive # {} /\ Answer(w, "waiting", AllActive)
       \/ AllActive # {} /\ Answer(w, "timedOut", {})
    /\ UNCHANGED <<gatewayDraining, queue, activeTaskIds, maxConcurrent, generation, command>>

\* A later check() finds none of the snapshot still active.
PollDrained(w) ==
    /\ waiter[w].answer = "waiting"
    /\ ~StillActive(w)
    /\ Answer(w, "drained", {})
    /\ UNCHANGED <<gatewayDraining, queue, activeTaskIds, maxConcurrent, generation, command>>

\* A later check() finds one, past the deadline.
PollTimedOut(w) ==
    /\ waiter[w].answer = "waiting"
    /\ StillActive(w)
    /\ Answer(w, "timedOut", {})
    /\ UNCHANGED <<gatewayDraining, queue, activeTaskIds, maxConcurrent, generation, command>>

-----------------------------------------------------------------------------
SettleAny(t) ==
    \E outcome \in {"resolved", "rejected"} : SettleCurrent(t, outcome) \/ SettleStale(t, outcome)

Next ==
    \/ \E t \in Tasks, l \in Lanes : Enqueue(t, l) \/ EnqueueRefused(t, l)
    \/ \E t \in Tasks, outcome \in {"resolved", "rejected"} : SettleCurrent(t, outcome)
    \/ \E t \in Tasks, outcome \in {"resolved", "rejected"} : SettleStale(t, outcome)
    \/ \E l \in Lanes, n \in 0..MaxConcurrency : SetCommandLaneConcurrency(l, n)
    \/ \E l \in Lanes : ClearCommandLane(l)
    \/ MarkGatewayDraining
    \/ ResetAllLanes
    \/ \E w \in Waiters : StartWaiting(w) \/ PollDrained(w) \/ PollTimedOut(w)

Spec == Init /\ [][Next]_vars

\* Every task settles (agent runs carry their own timeout) and the 50 ms poll keeps firing.
Fairness ==
    /\ \A t \in Tasks : WF_vars(SettleAny(t))
    /\ \A w \in Waiters : WF_vars(PollDrained(w))

FairSpec == Spec /\ Fairness

-----------------------------------------------------------------------------
(* Properties. *)

\* A queued command sits in exactly one place of exactly one lane queue, its own lane's:
\* no promise is left without an entry and no entry can be started twice.
QueueConsistent ==
    /\ \A l \in Lanes : \A i \in 1..Len(queue[l]) :
          command[queue[l][i]].phase = "queued" /\ command[queue[l][i]].lane = l
    /\ \A l \in Lanes : \A i, j \in 1..Len(queue[l]) : queue[l][i] = queue[l][j] => i = j
    /\ \A t \in Tasks : command[t].phase = "queued" =>
          t \in FirstOf(queue[command[t].lane], Len(queue[command[t].lane]))

\* The ids that occupy a lane are exactly the running commands of its current generation:
\* a completion never leaves a ghost id behind (the lane would lose a slot for ever), and a
\* reset never leaves one of the old lifecycle's tasks holding a slot.
ActiveIsCurrent ==
    \A l \in Lanes : activeTaskIds[l] =
        {t \in Tasks : /\ command[t].phase = "running"
                       /\ command[t].lane = l
                       /\ command[t].generation = generation[l]}

\* Between any two jobs, a lane with work waiting is saturated: no enqueue, completion,
\* limit change or restart ends with an entry queued beside a free slot, which nothing
\* would pump until the next call (the comment on resetAllLanes names this hazard).
WorkConserving ==
    \A l \in Lanes : queue[l] # <<>> => Cardinality(activeTaskIds[l]) >= maxConcurrent[l]

\* Whenever a step starts a command, the lane ends within its limit as it stands after the
\* step, even when the limit was lowered while more tasks than that were running.
StartsWithinLimit ==
    [][\A l \in Lanes : activeTaskIds'[l] \ activeTaskIds[l] # {}
          => Cardinality(activeTaskIds'[l]) <= maxConcurrent'[l]]_vars

\* Lanes are FIFO: a step that starts a command, a new one or a queued one, leaves no earlier
\* entry of its lane queued.
NoOvertaking ==
    [][\A t \in Tasks : command[t].phase # "running" /\ command'[t].phase = "running" =>
          LET l == command'[t].lane
          IN  \A i \in 1..Len(queue[l]) :
                 command'[queue[l][i]].phase = "queued" => t \in FirstOf(queue[l], i - 1)]_vars

\* waitForActiveTasks answers drained only when every task of its snapshot has settled,
\* unless a reset has disowned that task in the meantime.
DrainedMeansSettled ==
    [][\A w \in Waiters : waiter[w].answer = "waiting" /\ waiter'[w].answer = "drained"
          => \A t \in waiter[w].activeAtStart :
                \/ command[t].phase \in Settled
                \/ command[t].generation # generation[command[t].lane]]_vars

\* Every queued command is eventually started or cleared: a lane never stalls.
QueuedCommandLeaves == \A t \in Tasks : command[t].phase = "queued" ~> command[t].phase # "queued"

\* waitForActiveTasks returns although new commands keep starting all the time: only the
\* tasks that were executing at the call are waited for.
WaiterReturns == \A w \in Waiters : waiter[w].answer = "waiting" ~> waiter[w].answer # "waiting"
=============================================================================
