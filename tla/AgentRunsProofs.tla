--------------------------- MODULE AgentRunsProofs ---------------------------
(***************************************************************************)
(* Proofs about AgentRuns and GatewayLoop for every set of runs, sessions  *)
(* and lanes: what the nesting of lanes is for.  The queue's own invariant *)
(* is carried over from CommandQueueProofs.  RunsNested adds how the runs  *)
(* use the queue: a run's entries are on the lanes of its path, it holds   *)
(* each lane until the inner ones are given back, and the entries that run *)
(* on a session lane are of different generations.  That much survives the *)
(* restarts of GatewayLoop; without restarts all generations are the same, *)
(* which gives one run per session and the refinement of SessionTurns.     *)
(***************************************************************************)
EXTENDS GatewayLoop, CommandQueueProofs, SequenceTheorems

\* A level of a run waits in its lane or occupies it.
InLane(r, k) == PhaseOf(r, k) \in {"queued", "running"}

\* The entries of a run are on the lanes of its path.
OnItsPath ==
    \A r \in Runs : \A k \in 1..Depth(r) : InLane(r, k) => command[<<r, k>>].lane = Path(r)[k]

\* A run keeps an outer lane as long as an inner level waits or works.
HeldThroughout ==
    \A r \in Runs : \A k \in 1..(Depth(r) - 1) : InLane(r, k + 1) => PhaseOf(r, k) = "running"

LevelsEntered == level \in [Runs -> 0..3] /\ \A r \in Runs : Live(r) => level[r] >= 1

\* At most one entry occupies a session lane ...
SessionsExclusive ==
    \A s \in Sessions : maxConcurrent[s] = 1 /\ Cardinality(activeTaskIds[s]) <= 1

\* ... and those that run there without occupying it were started before some restart.
GenerationsDiffer ==
    \A t1, t2 \in Tasks :
        /\ t1 # t2
        /\ command[t1].phase = "running" /\ command[t2].phase = "running"
        /\ command[t1].lane \in Sessions /\ command[t1].lane = command[t2].lane
        => command[t1].generation # command[t2].generation

RunsNested ==
    IInv /\ OnItsPath /\ HeldThroughout /\ LevelsEntered /\ SessionsExclusive /\ GenerationsDiffer

\* The command of slot u stays as it is, or a pump starts it.
Advanced(u) ==
    \/ command'[u] = command[u]
    \/ /\ command[u].phase = "queued"
       /\ command'[u] = [phase |-> "running", lane |-> command[u].lane,
                         generation |-> generation'[command[u].lane]]

AdvancedExcept(t) == \A u \in Tasks \ {t} : Advanced(u)

\* The command of slot u stays as it is, or is cleared while it waits.
KeptOrCleared(u) ==
    \/ command'[u] = command[u]
    \/ command[u].phase = "queued" /\ command'[u].phase = "cleared"

\* A pump of the queues q[l], l \in L, that was given the commands c and generations g touches
\* entries of those queues only.
PumpMoves(L, q, g, c) ==
    \A u \in Tasks :
        \/ command'[u] = c[u]
        \/ /\ \E l \in L : \E i \in 1..Len(q[l]) : q[l][i] = u
           /\ command'[u] = [phase |-> "running", lane |-> c[u].lane, generation |-> g[c[u].lane]]

-----------------------------------------------------------------------------
(* What an operation of the queue does to each slot. *)

\* A pump starts entries of the queues it is given, and touches no other slot.
LEMMA DrainLanesMoves ==
    ASSUME NEW L \in SUBSET Lanes,
           NEW q \in [Lanes -> Seq(Tasks)], NEW a \in [Lanes -> SUBSET Tasks],
           NEW m \in [Lanes -> 1..MaxConcurrency], NEW g, NEW c,
           DrainLanes(L, q, a, m, g, c)
    PROVE  PumpMoves(L, q, g, c)
<1> DEFINE n == [l \in Lanes |-> IF l \in L THEN PumpCount(q[l], Cardinality(a[l]), m[l]) ELSE 0]
           Starts(t) == \E l \in L : t \in FirstOf(q[l], n[l])
<1>1. \A l \in Lanes : \A i \in 1..n[l] : i \in 1..Len(q[l])
  <2> TAKE l \in Lanes
  <2>1. q[l] \in Seq(Tasks) /\ Len(q[l]) \in Nat /\ m[l] \in Nat
    BY CommandQueueAssumption
  <2>2. Cardinality(a[l]) \in Nat
    BY CommandQueueAssumption, FS_Subset, FS_CardinalityType
  <2>3. PumpCount(q[l], Cardinality(a[l]), m[l]) \in 0..Len(q[l])
    BY <2>1, <2>2, PumpCountBounds
  <2>4. n[l] \in 0..Len(q[l])
    BY <2>1, <2>3
  <2> HIDE DEF n
  <2> QED
    BY <2>1, <2>4
<1> HIDE DEF n
<1>2. command' = [t \in Tasks |-> IF Starts(t)
                                  THEN [phase |-> "running", lane |-> c[t].lane, generation |-> g[c[t].lane]]
                                  ELSE c[t]]
  BY DEF DrainLanes, n
<1>3. \A u \in Tasks : Starts(u) => \E l \in L : \E i \in 1..Len(q[l]) : q[l][i] = u
  BY <1>1 DEF FirstOf
<1> HIDE DEF Starts
<1> QED
  BY <1>2, <1>3 DEF PumpMoves

\* Pumping the queues as they are advances every slot.
LEMMA PumpAdvances ==
    ASSUME IInv, NEW L \in SUBSET Lanes, NEW a \in [Lanes -> SUBSET Tasks],
           NEW m \in [Lanes -> 1..MaxConcurrency], DrainLanes(L, queue, a, m, generation', command)
    PROVE  \A u \in Tasks : Advanced(u)
<1>1. queue \in [Lanes -> Seq(Tasks)] /\ Consistent(queue, command)
  BY InvParts DEF IInv, TypeOK
<1>2. \A u \in Tasks : (\E l \in L : \E i \in 1..Len(queue[l]) : queue[l][i] = u)
                          => command[u].phase = "queued"
  BY <1>1 DEF Consistent
<1>3. PumpMoves(L, queue, generation', command)
  BY <1>1, DrainLanesMoves
<1> QED
  BY <1>2, <1>3 DEF Advanced, PumpMoves

\* Enqueueing puts the slot on the lane, waiting or at work, and may start others.
LEMMA EnqueueMoves ==
    ASSUME IInv, NEW t \in Tasks, NEW l \in Lanes, Enqueue(t, l)
    PROVE  /\ AdvancedExcept(t)
           /\ command[t].phase \in Settled
           /\ command'[t].phase \in {"queued", "running"} /\ command'[t].lane = l
           /\ command'[t].phase = "running" => command'[t].generation = generation'[l]
<1> DEFINE q == [queue EXCEPT ![l] = Append(@, t)]
           c == [command EXCEPT ![t] = [phase |-> "queued", lane |-> l, generation |-> 0]]
<1>1. /\ queue \in [Lanes -> Seq(Tasks)] /\ command \in [Tasks -> Command]
      /\ activeTaskIds \in [Lanes -> SUBSET Tasks] /\ maxConcurrent \in [Lanes -> 1..MaxConcurrency]
      /\ Consistent(queue, command)
  BY InvParts DEF IInv, TypeOK
<1>2. /\ DrainLanes({l}, q, activeTaskIds, maxConcurrent, generation, c)
      /\ generation' = generation /\ command[t].phase \in Settled
  BY DEF Enqueue, Submittable
<1>3. q \in [Lanes -> Seq(Tasks)] /\ q[l] = Append(queue[l], t)
  BY <1>1
<1>4. c[t] = [phase |-> "queued", lane |-> l, generation |-> 0] /\ \A u \in Tasks \ {t} : c[u] = command[u]
  BY <1>1
<1> HIDE DEF q, c
<1>8. {l} \in SUBSET Lanes
  OBVIOUS
<1>5. \A u \in Tasks \ {t} : (\E i \in 1..Len(q[l]) : q[l][i] = u) => command[u].phase = "queued"
  <2> SUFFICES ASSUME NEW u \in Tasks \ {t}, NEW i \in 1..Len(q[l]), q[l][i] = u
               PROVE  command[u].phase = "queued"
    OBVIOUS
  <2>1. queue[l] \in Seq(Tasks) /\ Len(queue[l]) \in Nat
    BY <1>1
  <2>2. i \in 1..Len(queue[l]) /\ queue[l][i] = u
    BY <2>1, <1>3
  <2> QED
    BY <2>2, <1>1 DEF Consistent
<1>6. PumpMoves({l}, q, generation, c)
  BY <1>1, <1>2, <1>3, <1>8, DrainLanesMoves
<1>7. AdvancedExcept(t)
  BY <1>2, <1>4, <1>5, <1>6 DEF AdvancedExcept, Advanced, PumpMoves
<1>9. \/ command'[t] = c[t]
      \/ command'[t] = [phase |-> "running", lane |-> c[t].lane, generation |-> generation[c[t].lane]]
  BY <1>6 DEF PumpMoves
<1> QED
  BY <1>2, <1>4, <1>7, <1>9

\* A refused command is settled, and nothing else moves.
LEMMA EnqueueRefusedMoves ==
    ASSUME IInv, NEW t \in Tasks, NEW l \in Lanes, EnqueueRefused(t, l)
    PROVE  AdvancedExcept(t) /\ command[t].phase \in Settled /\ command'[t].phase = "refused"
    BY DEF EnqueueRefused, Submittable, IInv, TypeOK, AdvancedExcept, Advanced

\* A completion settles the slot and may start others.
LEMMA SettleMoves ==
    ASSUME IInv, NEW t \in Tasks, NEW outcome \in {"resolved", "rejected"},
           SettleCurrent(t, outcome) \/ SettleStale(t, outcome)
    PROVE  /\ AdvancedExcept(t)
           /\ command[t].phase = "running" /\ command'[t].phase = outcome
<1>1. /\ queue \in [Lanes -> Seq(Tasks)] /\ command \in [Tasks -> Command]
      /\ activeTaskIds \in [Lanes -> SUBSET Tasks] /\ maxConcurrent \in [Lanes -> 1..MaxConcurrency]
      /\ Consistent(queue, command)
  BY InvParts DEF IInv, TypeOK
<1>2. CASE SettleStale(t, outcome)
  BY <1>1, <1>2 DEF SettleStale, AdvancedExcept, Advanced, Command
<1>3. CASE SettleCurrent(t, outcome)
  <2> DEFINE l == command[t].lane
             a == [activeTaskIds EXCEPT ![l] = @ \ {t}]
             c == [command EXCEPT ![t].phase = outcome]
  <2>1. /\ DrainLanes({l}, queue, a, maxConcurrent, generation, c)
        /\ generation' = generation /\ command[t].phase = "running"
    BY <1>3 DEF SettleCurrent
  <2>2. l \in Lanes /\ {l} \in SUBSET Lanes
    BY <2>1, <1>1, CommandLane
  <2>3. c[t].phase = outcome /\ \A u \in Tasks \ {t} : c[u] = command[u]
    BY <1>1 DEF Command
  <2>7. a \in [Lanes -> SUBSET Tasks]
    BY <1>1
  <2> HIDE DEF l, a, c
  <2>4. \A u \in Tasks : (\E i \in 1..Len(queue[l]) : queue[l][i] = u) => command[u].phase = "queued"
    BY <1>1, <2>2 DEF Consistent
  <2>5. PumpMoves({l}, queue, generation, c)
    BY <1>1, <2>1, <2>2, <2>7, DrainLanesMoves
  <2>6. AdvancedExcept(t)
    BY <2>1, <2>3, <2>4, <2>5 DEF AdvancedExcept, Advanced, PumpMoves
  <2>8. command'[t] = c[t]
    <3>1. ~ \E k \in {l} : \E i \in 1..Len(queue[k]) : queue[k][i] = t
      BY <2>1, <2>4
    <3> QED
      BY <2>5, <3>1 DEF PumpMoves
  <2> QED
    BY <2>1, <2>3, <2>6, <2>8
<1> QED
  BY <1>2, <1>3

\* A clear settles entries that wait.
LEMMA ClearMoves ==
    ASSUME IInv, NEW l \in Lanes, ClearCommandLane(l)
    PROVE  \A u \in Tasks : KeptOrCleared(u)
<1>1. command \in [Tasks -> Command] /\ Consistent(queue, command)
  BY InvParts DEF IInv, TypeOK
<1>2. \A u \in FirstOf(queue[l], Len(queue[l])) : command[u].phase = "queued"
  BY <1>1 DEF Consistent, FirstOf
<1> QED
  BY <1>1, <1>2 DEF ClearCommandLane, Command, KeptOrCleared

\* A change of a limit and a reset advance every slot.
LEMMA LimitAndResetAdvance ==
    ASSUME IInv, (\E l \in Lanes, n \in 0..MaxConcurrency : SetCommandLaneConcurrency(l, n))
                   \/ ResetAllLanes
    PROVE  \A u \in Tasks : Advanced(u)
<1>0. activeTaskIds \in [Lanes -> SUBSET Tasks] /\ maxConcurrent \in [Lanes -> 1..MaxConcurrency]
  BY DEF IInv, TypeOK
<1>1. ASSUME NEW l \in Lanes, NEW n \in 0..MaxConcurrency, SetCommandLaneConcurrency(l, n)
      PROVE  \A u \in Tasks : Advanced(u)
  <2> DEFINE m == [maxConcurrent EXCEPT ![l] = IF n < 1 THEN 1 ELSE n]
  <2>1. DrainLanes({l}, queue, activeTaskIds, m, generation', command)
    BY <1>1 DEF SetCommandLaneConcurrency
  <2>2. m \in [Lanes -> 1..MaxConcurrency] /\ {l} \in SUBSET Lanes
    BY <1>0, CommandQueueAssumption
  <2> HIDE DEF m
  <2> QED
    BY <1>0, <2>1, <2>2, PumpAdvances
<1>2. CASE ResetAllLanes
  <2>1. PICK L \in SUBSET Lanes, a \in {[l \in Lanes |-> {}]} :
           DrainLanes(L, queue, a, maxConcurrent, generation', command)
    BY <1>2 DEF ResetAllLanes
  <2>2. a \in [Lanes -> SUBSET Tasks]
    OBVIOUS
  <2> QED
    BY <1>0, <2>1, <2>2, PumpAdvances
<1> QED
  BY <1>1, <1>2
-----------------------------------------------------------------------------
(* The lanes of a run. *)

LEMMA Paths ==
    ASSUME NEW r \in Runs
    PROVE  /\ Depth(r) \in {2, 3}
           /\ SessionOf[r] \in Sessions /\ Path(r)[Depth(r) - 1] = SessionOf[r]
           /\ \A k \in 1..Depth(r) : /\ Path(r)[k] \in Lanes
                                     /\ <<r, k>> \in Tasks
                                     /\ Path(r)[k] \in Sessions => k = Depth(r) - 1
<1>1. /\ SessionOf[r] \in Sessions /\ LaneOf[r] \in GlobalLanes
      /\ Sessions \subseteq Lanes /\ GlobalLanes \subseteq Lanes
      /\ \A l \in GlobalLanes : l \notin Sessions
      /\ LaneOf[r] = "cron" => "nested" \in GlobalLanes
  BY AgentRunsAssumption
<1>2. \A k \in 1..Depth(r) : <<r, k>> \in Tasks
  BY AgentRunsAssumption DEF Slots
<1>3. CASE LaneOf[r] = "cron"
  <2>1. Path(r) = <<"cron", SessionOf[r], "nested">>
    BY <1>3 DEF Path, ResolveGlobalLane
  <2>2. Depth(r) = 3
    BY <2>1 DEF Depth
  <2>3. Path(r)[1] = "cron" /\ Path(r)[2] = SessionOf[r] /\ Path(r)[3] = "nested"
    BY <2>1
  <2>4. \A k \in 1..3 : k = 1 \/ k = 2 \/ k = 3
    OBVIOUS
  <2> QED
    BY <1>1, <1>2, <1>3, <2>2, <2>3, <2>4
<1>4. CASE LaneOf[r] # "cron"
  <2>1. Path(r) = <<SessionOf[r], LaneOf[r]>>
    BY <1>4 DEF Path, ResolveGlobalLane
  <2>2. Depth(r) = 2
    BY <2>1 DEF Depth
  <2> QED
    BY <1>1, <1>2, <2>1, <2>2
<1> QED
  BY <1>3, <1>4

LEMMA SlotIsALevel ==
    ASSUME NEW t \in Tasks PROVE \E r \in Runs : \E k \in 1..Depth(r) : t = <<r, k>>
    BY AgentRunsAssumption DEF Slots

-----------------------------------------------------------------------------
(* What the runs keep. *)

LEMMA OnlyOne ==
    ASSUME NEW S, IsFiniteSet(S), Cardinality(S) <= 1, NEW x \in S, NEW y \in S
    PROVE  x = y
<1>1. IsFiniteSet({x}) /\ Cardinality({x}) = 1 /\ {x} \in SUBSET S
  BY FS_Singleton
<1>2. Cardinality({x}) <= Cardinality(S) /\ Cardinality(S) \in Nat
  BY <1>1, FS_Subset, FS_CardinalityType
<1>3. Cardinality(S) = Cardinality({x})
  BY <1>1, <1>2
<1>4. S = {x}
  BY <1>1, <1>3, FS_Subset
<1> QED
  BY <1>4

\* Whatever starts, starts in the generation its lane is in.
StartsCurrent ==
    \A u \in Tasks : command'[u].phase = "running" =>
        command'[u] = command[u] \/ command'[u].generation = generation'[command'[u].lane]

\* Two entries of one generation on a session lane would both occupy it.
LEMMA ExclusionKeeps ==
    ASSUME RunsNested, [Next]_vars, StartsCurrent,
           \A s \in Sessions : maxConcurrent'[s] = maxConcurrent[s]
    PROVE  SessionsExclusive' /\ GenerationsDiffer'
<1>1. IInv /\ IInv' /\ LimitStep
  BY NextKeeps DEF RunsNested, StepOK
<1>2. /\ activeTaskIds \in [Lanes -> SUBSET Tasks] /\ activeTaskIds' \in [Lanes -> SUBSET Tasks]
      /\ ActiveIsCurrent'
  BY <1>1 DEF IInv, TypeOK
<1>3. Sessions \subseteq Lanes
  BY AgentRunsAssumption
<1>4. \A s \in Sessions : IsFiniteSet(activeTaskIds[s]) /\ IsFiniteSet(activeTaskIds'[s])
  BY <1>2, <1>3, CommandQueueAssumption, FS_Subset
<1>5. \A s \in Sessions : maxConcurrent'[s] = 1 /\ Cardinality(activeTaskIds'[s]) <= 1
  <2> TAKE s \in Sessions
  <2>1. maxConcurrent'[s] = 1 /\ Cardinality(activeTaskIds[s]) <= 1
    BY DEF RunsNested, SessionsExclusive
  <2>2. CASE activeTaskIds'[s] \ activeTaskIds[s] # {}
    BY <1>1, <1>3, <2>1, <2>2 DEF LimitStep
  <2>3. CASE activeTaskIds'[s] \subseteq activeTaskIds[s]
    <3>1. Cardinality(activeTaskIds'[s]) <= Cardinality(activeTaskIds[s])
      BY <1>4, <2>3, FS_Subset
    <3>2. Cardinality(activeTaskIds'[s]) \in Nat /\ Cardinality(activeTaskIds[s]) \in Nat
      BY <1>4, FS_CardinalityType
    <3> QED
      BY <2>1, <3>1, <3>2
  <2> QED
    BY <2>2, <2>3
<1>6. ASSUME NEW s \in Sessions, NEW t1 \in activeTaskIds'[s], NEW t2 \in activeTaskIds'[s]
      PROVE  t1 = t2
  BY <1>4, <1>5, <1>6, OnlyOne
<1>7. ASSUME NEW t1 \in Tasks, NEW t2 \in Tasks, t1 # t2,
             command'[t1].phase = "running", command'[t2].phase = "running",
             command'[t1].lane \in Sessions, command'[t1].lane = command'[t2].lane,
             command'[t1].generation = command'[t2].generation
      PROVE  FALSE
  <2>1. CASE command'[t1].generation = generation'[command'[t1].lane]
    <3>1. t1 \in activeTaskIds'[command'[t1].lane] /\ t2 \in activeTaskIds'[command'[t1].lane]
      <4>1. command'[t1].lane \in Lanes
        BY <1>3, <1>7
      <4>2. activeTaskIds'[command'[t1].lane]
              = {t \in Tasks : /\ command'[t].phase = "running"
                               /\ command'[t].lane = command'[t1].lane
                               /\ command'[t].generation = generation'[command'[t1].lane]}
        BY <1>2, <4>1 DEF ActiveIsCurrent
      <4> QED
        BY <1>7, <2>1, <4>2
    <3> QED
      BY <1>6, <1>7, <3>1
  <2>2. CASE command'[t1] = command[t1] /\ command'[t2] = command[t2]
    BY <1>7, <2>2 DEF RunsNested, GenerationsDiffer
  <2> QED
    BY <1>7, <2>1, <2>2 DEF StartsCurrent
<1> QED
  BY <1>5, <1>7 DEF SessionsExclusive, GenerationsDiffer

LEMMA AdvancedSlot ==
    ASSUME NEW u, Advanced(u)
    PROVE  /\ command'[u].phase \in {"queued", "running"} <=> command[u].phase \in {"queued", "running"}
           /\ command'[u].lane = command[u].lane
           /\ command[u].phase = "running" => command'[u] = command[u]
           /\ command'[u].phase = "running" =>
                 command'[u] = command[u] \/ command'[u].generation = generation'[command'[u].lane]
    BY DEF Advanced

\* An operation on the slot of level k of run r respects the nesting when it puts the level on
\* its lane only under a running outer level, and takes it off only when no inner level is left.
LEMMA NestingKeeps ==
    ASSUME OnItsPath, HeldThroughout, NEW r \in Runs, NEW k \in 1..Depth(r), AdvancedExcept(<<r, k>>),
           command'[<<r, k>>].phase \in {"queued", "running"} =>
               /\ command'[<<r, k>>].lane = Path(r)[k]
               /\ k > 1 => PhaseOf(r, k - 1) = "running",
           k < Depth(r) /\ command'[<<r, k>>].phase # "running" => ~InLane(r, k + 1)
    PROVE  OnItsPath' /\ HeldThroughout'
<1> DEFINE t == <<r, k>>
<1>1. ASSUME NEW r2 \in Runs, NEW k2 \in 1..Depth(r2),
             command'[<<r2, k2>>].phase \in {"queued", "running"}
      PROVE  command'[<<r2, k2>>].lane = Path(r2)[k2]
  <2>1. CASE <<r2, k2>> = t
    BY <1>1, <2>1
  <2>2. CASE <<r2, k2>> # t
    <3>1. Advanced(<<r2, k2>>)
      BY <2>2, Paths DEF AdvancedExcept
    <3> QED
      BY <1>1, <3>1, AdvancedSlot DEF OnItsPath, InLane, PhaseOf
  <2> QED
    BY <2>1, <2>2
<1>2. ASSUME NEW r2 \in Runs, NEW k2 \in 1..(Depth(r2) - 1),
             command'[<<r2, k2 + 1>>].phase \in {"queued", "running"}
      PROVE  command'[<<r2, k2>>].phase = "running"
  <2>0. /\ <<r2, k2>> \in Tasks /\ <<r2, k2 + 1>> \in Tasks /\ <<r2, k2>> # <<r2, k2 + 1>>
        /\ k2 \in Int /\ Depth(r2) \in Int
    BY Paths
  <2>1. CASE <<r2, k2 + 1>> = t
    <3>1. r2 = r /\ k = k2 + 1 /\ k > 1 /\ k - 1 = k2
      BY <2>0, <2>1
    <3>2. command[<<r2, k2>>].phase = "running"
      BY <1>2, <2>1, <3>1 DEF PhaseOf
    <3>3. Advanced(<<r2, k2>>)
      BY <2>0, <2>1 DEF AdvancedExcept
    <3> QED
      BY <3>2, <3>3, AdvancedSlot
  <2>2. CASE <<r2, k2>> = t
    <3>1. r2 = r /\ k2 = k /\ k < Depth(r)
      BY <2>0, <2>2
    <3>2. Advanced(<<r2, k2 + 1>>)
      BY <2>0, <2>2 DEF AdvancedExcept
    <3>3. InLane(r, k + 1)
      BY <1>2, <3>1, <3>2, AdvancedSlot DEF InLane, PhaseOf
    <3> QED
      BY <3>1, <3>3
  <2>3. CASE <<r2, k2>> # t /\ <<r2, k2 + 1>> # t
    <3>1. Advanced(<<r2, k2>>) /\ Advanced(<<r2, k2 + 1>>)
      BY <2>0, <2>3 DEF AdvancedExcept
    <3>2. command[<<r2, k2>>].phase = "running"
      BY <1>2, <3>1, AdvancedSlot DEF HeldThroughout, InLane, PhaseOf
    <3> QED
      BY <3>1, <3>2, AdvancedSlot
  <2> QED
    BY <2>1, <2>2, <2>3
<1> QED
  BY <1>1, <1>2 DEF OnItsPath, HeldThroughout, InLane, PhaseOf

\* The task of a level, or the caller of a run, submits the next level.
LEMMA EnqueueLevelKeeps ==
    ASSUME RunsNested, NEW r \in Runs, NEW k \in 1..Depth(r), EnqueueLevel(r, k),
           k > 1 => PhaseOf(r, k - 1) = "running"
    PROVE  RunsNested'
<1> DEFINE t == <<r, k>>
           l == Path(r)[k]
<1>1. IInv /\ OnItsPath /\ HeldThroughout /\ LevelsEntered
  BY DEF RunsNested
<1>2. t \in Tasks /\ l \in Lanes /\ Depth(r) \in {2, 3}
  BY Paths
<1>3. Enqueue(t, l) \/ EnqueueRefused(t, l)
  BY DEF EnqueueLevel
<1> HIDE DEF t, l
<1>4. Next /\ maxConcurrent' = maxConcurrent
  BY <1>2, <1>3 DEF Next, Enqueue, EnqueueRefused
<1>5. IInv'
  BY <1>1, <1>4, NextKeeps
<1>6. /\ AdvancedExcept(t) /\ command[t].phase \in Settled
      /\ command'[t].phase \in {"queued", "running"} => command'[t].lane = l
      /\ command'[t].phase = "running" => command'[t].generation = generation'[command'[t].lane]
  BY <1>1, <1>2, <1>3, EnqueueMoves, EnqueueRefusedMoves
<1>7. k < Depth(r) => ~InLane(r, k + 1)
  <2> SUFFICES ASSUME k < Depth(r), InLane(r, k + 1) PROVE FALSE
    OBVIOUS
  <2>1. k \in 1..(Depth(r) - 1)
    BY <1>2
  <2>2. PhaseOf(r, k) = "running"
    BY <1>1, <2>1 DEF HeldThroughout
  <2> QED
    BY <2>2, <1>6 DEF PhaseOf, t, Settled
<1>8. OnItsPath' /\ HeldThroughout'
  BY <1>1, <1>6, <1>7, NestingKeeps DEF t, l
<1>9. StartsCurrent
  <2> SUFFICES ASSUME NEW u \in Tasks, command'[u].phase = "running"
               PROVE  command'[u] = command[u] \/ command'[u].generation = generation'[command'[u].lane]
    BY DEF StartsCurrent
  <2>1. CASE u = t
    BY <1>6, <2>1
  <2>2. CASE u # t
    BY <1>6, <2>2, AdvancedSlot DEF AdvancedExcept
  <2> QED
    BY <2>1, <2>2
<1>10. SessionsExclusive' /\ GenerationsDiffer'
  BY <1>4, <1>9, ExclusionKeeps
<1>11. LevelsEntered'
  <2>1. level' = [level EXCEPT ![r] = k] /\ level \in [Runs -> 0..3]
    BY <1>1 DEF EnqueueLevel, LevelsEntered
  <2>2. level' \in [Runs -> 0..3] /\ level'[r] >= 1
    BY <2>1, <1>2
  <2>3. ASSUME NEW r2 \in Runs, Live(r2)', r2 # r PROVE level'[r2] >= 1
    <3>1. <<r2, 1>> # t /\ <<r2, 1>> \in Tasks
      BY <2>3, Paths DEF t
    <3>2. Advanced(<<r2, 1>>)
      BY <1>6, <3>1 DEF AdvancedExcept
    <3>3. Live(r2)
      BY <2>3, <3>2, AdvancedSlot DEF Live, PhaseOf
    <3> QED
      BY <1>1, <2>1, <2>3, <3>3 DEF LevelsEntered
  <2> QED
    BY <2>2, <2>3 DEF LevelsEntered
<1> QED
  BY <1>5, <1>8, <1>10, <1>11 DEF RunsNested

\* A level settles when no inner level of its run is left.
LEMMA SettleLevelKeeps ==
    ASSUME RunsNested, NEW r \in Runs, NEW k \in 1..Depth(r), NEW outcome \in {"resolved", "rejected"},
           SettleLevel(r, k, outcome), k < Depth(r) => ~InLane(r, k + 1)
    PROVE  RunsNested'
<1> DEFINE t == <<r, k>>
<1>1. IInv /\ OnItsPath /\ HeldThroughout /\ LevelsEntered
  BY DEF RunsNested
<1>2. t \in Tasks /\ level' = level
  BY Paths DEF SettleLevel, runVars
<1>3. SettleCurrent(t, outcome) \/ SettleStale(t, outcome)
  BY DEF SettleLevel
<1> HIDE DEF t
<1>4. Next /\ maxConcurrent' = maxConcurrent
  BY <1>2, <1>3 DEF Next, SettleCurrent, SettleStale
<1>5. IInv'
  BY <1>1, <1>4, NextKeeps
<1>6. /\ AdvancedExcept(t) /\ command[t].phase = "running"
      /\ command'[t].phase = outcome
  BY <1>1, <1>2, <1>3, SettleMoves
<1>7. command'[t].phase \notin {"queued", "running"}
  BY <1>6
<1>8. OnItsPath' /\ HeldThroughout'
  BY <1>1, <1>6, <1>7, NestingKeeps DEF t
<1>9. StartsCurrent
  BY <1>6, <1>7, AdvancedSlot DEF StartsCurrent, AdvancedExcept
<1>10. SessionsExclusive' /\ GenerationsDiffer'
  BY <1>4, <1>9, ExclusionKeeps
<1>11. \A r2 \in Runs : Live(r2)' => Live(r2)
  <2> SUFFICES ASSUME NEW r2 \in Runs, command'[<<r2, 1>>].phase \in {"queued", "running"}
               PROVE  command[<<r2, 1>>].phase \in {"queued", "running"}
    BY DEF Live, PhaseOf
  <2>1. <<r2, 1>> \in Tasks /\ <<r2, 1>> # t
    BY <1>7, Paths
  <2> QED
    BY <2>1, <1>6, AdvancedSlot DEF AdvancedExcept
<1>12. LevelsEntered'
  BY <1>1, <1>2, <1>11 DEF LevelsEntered
<1> QED
  BY <1>5, <1>8, <1>10, <1>12 DEF RunsNested

\* A step of the queue that advances every slot, as a pump or a reset does, keeps the nesting.
LEMMA AdvanceKeeps ==
    ASSUME RunsNested, [Next]_vars, level' = level, \A u \in Tasks : Advanced(u),
           \A s \in Sessions : maxConcurrent'[s] = maxConcurrent[s]
    PROVE  RunsNested'
<1>1. IInv /\ OnItsPath /\ HeldThroughout /\ LevelsEntered
  BY DEF RunsNested
<1>2. IInv'
  BY <1>1, NextKeeps
<1>3. OnItsPath'
  BY <1>1, Paths, AdvancedSlot DEF OnItsPath, InLane, PhaseOf
<1>4. HeldThroughout'
  <2> SUFFICES ASSUME NEW r \in Runs, NEW k \in 1..(Depth(r) - 1),
                      command'[<<r, k + 1>>].phase \in {"queued", "running"}
               PROVE  command'[<<r, k>>].phase = "running"
    BY DEF HeldThroughout, InLane, PhaseOf
  <2>1. <<r, k>> \in Tasks /\ <<r, k + 1>> \in Tasks
    BY Paths
  <2>2. command[<<r, k>>].phase = "running"
    BY <1>1, <2>1, AdvancedSlot DEF HeldThroughout, InLane, PhaseOf
  <2> QED
    BY <2>1, <2>2, AdvancedSlot
<1>5. StartsCurrent
  BY AdvancedSlot DEF StartsCurrent
<1>6. SessionsExclusive' /\ GenerationsDiffer'
  BY <1>5, ExclusionKeeps
<1>7. LevelsEntered'
  BY <1>1, Paths, AdvancedSlot DEF LevelsEntered, Live, PhaseOf
<1> QED
  BY <1>2, <1>3, <1>4, <1>6, <1>7 DEF RunsNested

\* A clear takes waiting entries off their lane: nothing is nested in them.
LEMMA ClearKeeps ==
    ASSUME RunsNested, NEW l \in Lanes, ClearCommandLane(l), level' = level PROVE RunsNested'
<1>1. IInv /\ OnItsPath /\ HeldThroughout /\ LevelsEntered
  BY DEF RunsNested
<1>2. Next /\ maxConcurrent' = maxConcurrent
  BY DEF Next, ClearCommandLane
<1>3. IInv'
  BY <1>1, <1>2, NextKeeps
<1>4. \A u \in Tasks : KeptOrCleared(u)
  BY <1>1, ClearMoves
<1>5. OnItsPath'
  BY <1>1, <1>4, Paths DEF OnItsPath, InLane, PhaseOf, KeptOrCleared
<1>6. HeldThroughout'
  <2> SUFFICES ASSUME NEW r \in Runs, NEW k \in 1..(Depth(r) - 1),
                      command'[<<r, k + 1>>].phase \in {"queued", "running"}
               PROVE  command'[<<r, k>>].phase = "running"
    BY DEF HeldThroughout, InLane, PhaseOf
  <2>1. <<r, k>> \in Tasks /\ <<r, k + 1>> \in Tasks
    BY Paths
  <2>2. command[<<r, k>>].phase = "running"
    BY <1>1, <1>4, <2>1 DEF HeldThroughout, InLane, PhaseOf, KeptOrCleared
  <2> QED
    BY <1>4, <2>1, <2>2 DEF KeptOrCleared
<1>7. StartsCurrent
  BY <1>4 DEF StartsCurrent, KeptOrCleared
<1>8. SessionsExclusive' /\ GenerationsDiffer'
  BY <1>2, <1>7, ExclusionKeeps
<1>9. LevelsEntered'
  BY <1>1, <1>4, Paths DEF LevelsEntered, Live, PhaseOf, KeptOrCleared
<1> QED
  BY <1>3, <1>5, <1>6, <1>8, <1>9 DEF RunsNested

\* The runs keep the nesting, and use the queue by its own operations only.
LEMMA AgentNextKeeps == ASSUME RunsNested, AgentNext PROVE RunsNested' /\ [Next]_vars
<1>0. IInv /\ HeldThroughout /\ LevelsEntered
  BY DEF RunsNested
<1>1. ASSUME NEW r \in Runs, NEW k \in 1..Depth(r), EnqueueLevel(r, k) PROVE [Next]_vars
  BY <1>1, Paths DEF EnqueueLevel, Next
<1>2. ASSUME NEW r \in Runs, NEW k \in 1..Depth(r), NEW outcome \in {"resolved", "rejected"},
             SettleLevel(r, k, outcome)
      PROVE  [Next]_vars
  BY <1>2, Paths DEF SettleLevel, Next
<1>3. ASSUME NEW r \in Runs, Submit(r) PROVE RunsNested' /\ [Next]_vars
  <2>1. 1 \in 1..Depth(r)
    BY Paths
  <2> QED
    BY <1>3, <1>1, <2>1, EnqueueLevelKeeps DEF Submit
<1>4. ASSUME NEW r \in Runs, Descend(r) PROVE RunsNested' /\ [Next]_vars
  <2> DEFINE k == level[r] + 1
  <2>1. k \in 1..Depth(r) /\ k - 1 = level[r]
    BY <1>0, <1>4, Paths DEF LevelsEntered, Descend
  <2>2. EnqueueLevel(r, k) /\ PhaseOf(r, k - 1) = "running"
    BY <1>4, <2>1 DEF Descend
  <2> HIDE DEF k
  <2> QED
    BY <1>1, <2>1, <2>2, EnqueueLevelKeeps
<1>5. ASSUME UNCHANGED <<vars, level>> PROVE RunsNested' /\ [Next]_vars
  BY <1>5, AdvanceKeeps DEF Advanced, vars
<1>6. ASSUME NEW r \in Runs, Finish(r) PROVE RunsNested' /\ [Next]_vars
  <2>1. Depth(r) \in 1..Depth(r) /\ ~(Depth(r) < Depth(r))
    BY Paths
  <2> QED
    BY <1>6, <1>2, <2>1, SettleLevelKeeps DEF Finish
<1>7. ASSUME NEW r \in Runs, Return(r) PROVE RunsNested' /\ [Next]_vars
  <2>1. PICK k \in 1..(Depth(r) - 1), outcome \in {"resolved", "rejected"} :
           PhaseOf(r, k + 1) \in Settled /\ SettleLevel(r, k, outcome)
    BY <1>7 DEF Return
  <2>2. k \in 1..Depth(r)
    BY Paths
  <2>3. ~InLane(r, k + 1)
    BY <2>1 DEF InLane, Settled
  <2> QED
    BY <1>2, <2>1, <2>2, <2>3, SettleLevelKeeps
<1>8. ASSUME NEW s \in Sessions, ClearSession(s) PROVE RunsNested' /\ [Next]_vars
  <2>1. s \in Lanes
    BY AgentRunsAssumption
  <2> QED
    BY <1>8, <2>1, ClearKeeps DEF ClearSession, runVars, Next
<1>9. ASSUME NEW l \in GlobalLanes, NEW n \in 1..MaxConcurrency, ConfigureLane(l, n)
      PROVE  RunsNested' /\ [Next]_vars
  <2>1. l \in Lanes /\ l \notin Sessions /\ n \in 0..MaxConcurrency
    BY AgentRunsAssumption, CommandQueueAssumption
  <2>2. SetCommandLaneConcurrency(l, n) /\ level' = level
    BY <1>9 DEF ConfigureLane, runVars
  <2>3. Next /\ \A u \in Tasks : Advanced(u)
    BY <1>0, <2>1, <2>2, LimitAndResetAdvance DEF Next
  <2>4. \A s \in Sessions : maxConcurrent'[s] = maxConcurrent[s]
    BY <1>0, <2>1, <2>2, AgentRunsAssumption DEF SetCommandLaneConcurrency, IInv, TypeOK
  <2> QED
    BY <2>2, <2>3, <2>4, AdvanceKeeps
<1> QED
  BY <1>3, <1>4, <1>5, <1>6, <1>7, <1>8, <1>9 DEF AgentNext, StartAttempt, EndAttempt

LEMMA RunsNestedInit == AgentInit => RunsNested
<1> SUFFICES ASSUME AgentInit PROVE RunsNested
  OBVIOUS
<1>1. Init /\ IInv
  BY InitInv DEF AgentInit
<1>2. \A t \in Tasks : command[t].phase = "idle"
  BY <1>1 DEF Init
<1>3. OnItsPath /\ HeldThroughout /\ LevelsEntered /\ GenerationsDiffer
  BY <1>2, Paths DEF AgentInit, OnItsPath, HeldThroughout, LevelsEntered, GenerationsDiffer, InLane,
                     Live, PhaseOf
<1>4. SessionsExclusive
  BY <1>1, AgentRunsAssumption, FS_EmptySet DEF Init, SessionsExclusive
<1> QED
  BY <1>1, <1>3, <1>4 DEF RunsNested

\* A reset of the lanes, the mark of the gateway and the waiters leave the runs where they are.
LEMMA LifecycleKeeps ==
    ASSUME RunsNested, level' = level,
           \/ ResetAllLanes \/ MarkGatewayDraining \/ UNCHANGED vars
           \/ StartWaiting("drain") \/ PollDrained("drain") \/ PollTimedOut("drain")
    PROVE  RunsNested'
<1>1. [Next]_vars /\ maxConcurrent' = maxConcurrent
  BY GatewayLoopAssumption
     DEF Next, vars, ResetAllLanes, MarkGatewayDraining, StartWaiting, PollDrained, PollTimedOut
<1>2. CASE ResetAllLanes
  BY <1>1, <1>2, LimitAndResetAdvance, AdvanceKeeps DEF RunsNested
<1>3. CASE command' = command
  BY <1>1, <1>3, AdvanceKeeps DEF Advanced
<1> QED
  BY <1>2, <1>3 DEF vars, MarkGatewayDraining, StartWaiting, PollDrained, PollTimedOut

LEMMA LoopNextKeeps == ASSUME RunsNested, [LoopNext]_gatewayVars PROVE RunsNested'
<1>1. CASE RunsGoOn
  BY <1>1, AgentNextKeeps DEF RunsGoOn
<1>2. ASSUME UNCHANGED agentVars PROVE RunsNested'
  BY <1>2, LifecycleKeeps DEF agentVars, runVars
<1>3. CASE SignalStop \/ ForceExit \/ StartSucceeds \/ StartFails \/ LockIsReleased \/ ScheduleRestart
            \/ UNCHANGED gatewayVars
  BY <1>2, <1>3 DEF SignalStop, ForceExit, StartSucceeds, StartFails, LockIsReleased, ScheduleRestart,
                    gatewayVars
<1>4. CASE StartDrain \/ PollTasks
  BY <1>4, LifecycleKeeps DEF StartDrain, PollTasks, runVars
<1>5. CASE PollRuns \/ DrainEnds \/ CloseServer \/ ExitAfterClose \/ RestartInProcess
  BY <1>2, <1>5 DEF PollRuns, DrainEnds, CloseServer, ExitAfterClose, RestartInProcess
<1>6. CASE ResetLanes
  BY <1>6, LifecycleKeeps DEF ResetLanes, runVars
<1>7. CASE RestartTimerFires \/ ConfigChangeRestarts \/ PollerEmits
  <2>1. level' = level
    BY <1>7 DEF RestartTimerFires, ConfigChangeRestarts, PollerEmits, runVars
  <2>2. MarkGatewayDraining \/ UNCHANGED vars
    BY <1>7 DEF RestartTimerFires, ConfigChangeRestarts, PollerEmits, RestartWhenIdle, RequestRestart
  <2> QED
    BY <2>1, <2>2, LifecycleKeeps
<1> QED
  BY <1>1, <1>3, <1>4, <1>5, <1>6, <1>7 DEF LoopNext, ShutdownStep

-----------------------------------------------------------------------------
(* One run per session. *)

\* A run that has reached its innermost lane occupies its session's lane.
LEMMA InnermostHoldsSession ==
    ASSUME RunsNested, NEW r \in Runs, InLane(r, Depth(r))
    PROVE  /\ <<r, Depth(r) - 1>> \in Tasks
           /\ SessionEntry(r).phase = "running" /\ SessionEntry(r).lane = SessionOf[r]
           /\ SessionOf[r] \in Sessions
<1>1. Depth(r) \in {2, 3} /\ SessionOf[r] \in Sessions /\ Path(r)[Depth(r) - 1] = SessionOf[r]
  BY Paths
<1>2. Depth(r) - 1 \in 1..Depth(r) /\ Depth(r) - 1 \in 1..(Depth(r) - 1) /\ (Depth(r) - 1) + 1 = Depth(r)
  BY <1>1
<1>3. <<r, Depth(r) - 1>> \in Tasks
  BY <1>2, Paths
<1>4. PhaseOf(r, Depth(r) - 1) = "running"
  BY <1>2 DEF RunsNested, HeldThroughout
<1>5. command[<<r, Depth(r) - 1>>].lane = SessionOf[r]
  BY <1>1, <1>2, <1>4 DEF RunsNested, OnItsPath, InLane
<1> QED
  BY <1>1, <1>3, <1>4, <1>5 DEF SessionEntry, PhaseOf

LEMMA ExecutingHoldsSession ==
    ASSUME RunsNested, NEW r \in Runs, Executing(r)
    PROVE  /\ <<r, Depth(r) - 1>> \in Tasks
           /\ SessionEntry(r).phase = "running" /\ SessionEntry(r).lane = SessionOf[r]
           /\ SessionOf[r] \in Sessions
    BY InnermostHoldsSession DEF Executing, InLane

LEMMA NestedRunsExclude == RunsNested => OneRunPerSessionAndLife
<1> SUFFICES ASSUME RunsNested, NEW r1 \in Runs, NEW r2 \in Runs, r1 # r2,
                    SessionOf[r1] = SessionOf[r2], Executing(r1), Executing(r2)
             PROVE  SessionEntry(r1).generation # SessionEntry(r2).generation
  BY DEF OneRunPerSessionAndLife
<1>1. <<r1, Depth(r1) - 1>> # <<r2, Depth(r2) - 1>>
  OBVIOUS
<1> QED
  BY <1>1, ExecutingHoldsSession DEF RunsNested, GenerationsDiffer, SessionEntry

\* Without restarts, there is one life ...
OneLife == gatewayDraining = FALSE /\ \A l \in Lanes : generation[l] = 0

\* ... and the handle of an attempt is registered while its run executes.
HandlesRegistered ==
    /\ attempting \subseteq Runs /\ activeRuns \in [Sessions -> Runs \cup {NoRun}]
    /\ \A r \in attempting : Executing(r) /\ activeRuns[SessionOf[r]] = r

AgentInv == RunsNested /\ OneLife /\ HandlesRegistered

LEMMA AgentNextLeaves == ASSUME AgentNext PROVE UNCHANGED <<gatewayDraining, generation, waiter>>
<1>1. ASSUME NEW r \in Runs, NEW k, EnqueueLevel(r, k)
      PROVE  UNCHANGED <<gatewayDraining, generation, waiter>>
  BY <1>1 DEF EnqueueLevel, Enqueue, EnqueueRefused
<1>2. ASSUME NEW r \in Runs, NEW k, NEW outcome, SettleLevel(r, k, outcome)
      PROVE  UNCHANGED <<gatewayDraining, generation, waiter>>
  BY <1>2 DEF SettleLevel, SettleCurrent, SettleStale
<1>3. ASSUME NEW r \in Runs, Submit(r) \/ Descend(r) \/ Finish(r) \/ Return(r)
      PROVE  UNCHANGED <<gatewayDraining, generation, waiter>>
  BY <1>1, <1>2, <1>3 DEF Submit, Descend, Finish, Return
<1>4. ASSUME NEW r \in Runs, StartAttempt(r) \/ EndAttempt(r)
      PROVE  UNCHANGED <<gatewayDraining, generation, waiter>>
  BY <1>4 DEF StartAttempt, EndAttempt, vars
<1>5. ASSUME NEW s \in Sessions, ClearSession(s) PROVE UNCHANGED <<gatewayDraining, generation, waiter>>
  BY <1>5 DEF ClearSession, ClearCommandLane
<1>6. ASSUME NEW l \in GlobalLanes, NEW n \in 1..MaxConcurrency, ConfigureLane(l, n)
      PROVE  UNCHANGED <<gatewayDraining, generation, waiter>>
  BY <1>6 DEF ConfigureLane, SetCommandLaneConcurrency
<1> QED
  BY <1>3, <1>4, <1>5, <1>6 DEF AgentNext

\* Only a run's own completion ends its execution, and none completes in the middle of an attempt.
LEMMA ExecutionGoesOn ==
    ASSUME RunsNested, AgentNext, NEW r \in Runs, Executing(r), r \in attempting PROVE Executing(r)'
<1> DEFINE u == <<r, Depth(r)>>
<1>0. /\ IInv /\ LevelsEntered /\ u \in Tasks /\ command[u].phase = "running"
      /\ Depth(r) \in {2, 3}
  BY Paths DEF RunsNested, Executing, PhaseOf
<1>1. ASSUME NEW t \in Tasks, AdvancedExcept(t), t # u PROVE command'[u].phase = "running"
  BY <1>0, <1>1, AdvancedSlot DEF AdvancedExcept
<1> HIDE DEF u
<1>2. ASSUME NEW r2 \in Runs, NEW k \in 1..Depth(r2), EnqueueLevel(r2, k)
      PROVE  command'[u].phase = "running"
  <2>1. <<r2, k>> \in Tasks /\ Path(r2)[k] \in Lanes
    BY Paths
  <2>2. AdvancedExcept(<<r2, k>>) /\ command[<<r2, k>>].phase \in Settled
    BY <1>0, <1>2, <2>1, EnqueueMoves, EnqueueRefusedMoves DEF EnqueueLevel
  <2>3. <<r2, k>> # u
    BY <1>0, <2>2 DEF Settled
  <2> QED
    BY <1>1, <2>1, <2>2, <2>3
<1>3. ASSUME NEW r2 \in Runs, NEW k \in 1..Depth(r2), NEW outcome \in {"resolved", "rejected"},
             SettleLevel(r2, k, outcome), <<r2, k>> # u
      PROVE  command'[u].phase = "running"
  <2>1. <<r2, k>> \in Tasks
    BY Paths
  <2>2. AdvancedExcept(<<r2, k>>)
    BY <1>0, <1>3, <2>1, SettleMoves DEF SettleLevel
  <2> QED
    BY <1>1, <1>3, <2>1, <2>2
<1>4. ASSUME NEW r2 \in Runs, Submit(r2) \/ Descend(r2) PROVE command'[u].phase = "running"
  <2>1. 1 \in 1..Depth(r2) /\ (Live(r2) /\ level[r2] < Depth(r2) => level[r2] + 1 \in 1..Depth(r2))
    BY <1>0, Paths DEF LevelsEntered
  <2> QED
    BY <1>2, <1>4, <2>1 DEF Submit, Descend
<1>5. ASSUME NEW r2 \in Runs, Finish(r2) PROVE command'[u].phase = "running"
  <2>1. Depth(r2) \in 1..Depth(r2)
    BY Paths
  <2>2. <<r2, Depth(r2)>> # u
    BY <1>5 DEF Finish, u
  <2> QED
    BY <1>3, <1>5, <2>1, <2>2 DEF Finish
<1>6. ASSUME NEW r2 \in Runs, Return(r2) PROVE command'[u].phase = "running"
  <2>1. PICK k \in 1..(Depth(r2) - 1), outcome \in {"resolved", "rejected"} : SettleLevel(r2, k, outcome)
    BY <1>6 DEF Return
  <2>2. k \in 1..Depth(r2) /\ <<r2, k>> # u
    BY Paths DEF u
  <2> QED
    BY <1>3, <2>1, <2>2
<1>7. ASSUME NEW s \in Sessions, ClearSession(s) PROVE command'[u].phase = "running"
  <2>1. s \in Lanes
    BY AgentRunsAssumption
  <2> QED
    BY <1>0, <1>7, <2>1, ClearMoves DEF ClearSession, KeptOrCleared
<1>8. ASSUME NEW l \in GlobalLanes, NEW n \in 1..MaxConcurrency, ConfigureLane(l, n)
      PROVE  command'[u].phase = "running"
  <2>1. l \in Lanes /\ n \in 0..MaxConcurrency
    BY AgentRunsAssumption, CommandQueueAssumption
  <2> QED
    BY <1>0, <1>8, <2>1, LimitAndResetAdvance, AdvancedSlot DEF ConfigureLane
<1> QED
  BY <1>0, <1>4, <1>5, <1>6, <1>7, <1>8
     DEF AgentNext, StartAttempt, EndAttempt, vars, u, Executing, PhaseOf

\* Without restarts the lives that OneRunPerSessionAndLife tells apart are one.
LEMMA OneLifeExcludes ==
    ASSUME RunsNested, OneLife, NEW r1 \in Runs, NEW r2 \in Runs, SessionOf[r1] = SessionOf[r2],
           Executing(r1), Executing(r2)
    PROVE  r1 = r2
<1>1. \A r \in {r1, r2} : SessionEntry(r).generation = 0
  <2> TAKE r \in {r1, r2}
  <2>1. /\ <<r, Depth(r) - 1>> \in Tasks /\ SessionOf[r] \in Lanes
        /\ SessionEntry(r).phase = "running" /\ SessionEntry(r).lane = SessionOf[r]
    BY ExecutingHoldsSession, AgentRunsAssumption
  <2>2. SessionEntry(r).generation \in 0..MaxGeneration
    BY <2>1, CommandLane DEF SessionEntry, RunsNested, IInv, TypeOK
  <2>3. SessionEntry(r).generation <= 0
    BY <2>1 DEF SessionEntry, RunsNested, IInv, NoneFromTheFuture, Past, OneLife
  <2> QED
    BY <2>2, <2>3, CommandQueueAssumption
<1> QED
  BY <1>1, NestedRunsExclude DEF OneRunPerSessionAndLife

LEMMA AgentInvKeeps == ASSUME AgentInv, [AgentNext]_agentVars PROVE AgentInv'
<1>0. RunsNested /\ OneLife /\ HandlesRegistered /\ SessionOf \in [Runs -> Sessions]
  BY AgentRunsAssumption DEF AgentInv
<1>1. CASE UNCHANGED agentVars
  <2>1. RunsNested'
    BY <1>0, <1>1, LifecycleKeeps DEF agentVars, runVars
  <2> QED
    BY <1>0, <1>1, <2>1 DEF AgentInv, OneLife, HandlesRegistered, agentVars, vars, runVars, Executing,
                            PhaseOf
<1>2. CASE AgentNext
  <2>1. RunsNested'
    BY <1>0, <1>2, AgentNextKeeps
  <2>2. OneLife'
    BY <1>0, <1>2, AgentNextLeaves DEF OneLife
  <2>3. \A r \in attempting : Executing(r)'
    BY <1>0, <1>2, ExecutionGoesOn DEF HandlesRegistered
  <2>4. HandlesRegistered'
    <3>1. CASE UNCHANGED <<attempting, activeRuns>>
      BY <1>0, <2>3, <3>1 DEF HandlesRegistered
    <3>2. ASSUME NEW r \in Runs, StartAttempt(r) PROVE HandlesRegistered'
      <4>1. /\ Executing(r) /\ attempting' = attempting \cup {r}
            /\ activeRuns' = [activeRuns EXCEPT ![SessionOf[r]] = r]
        BY <3>2 DEF StartAttempt
      <4>2. Executing(r)'
        BY <3>2 DEF StartAttempt, Executing, PhaseOf, vars
      <4>3. \A r2 \in attempting : activeRuns'[SessionOf[r2]] = r2
        <5> TAKE r2 \in attempting
        <5>1. r2 \in Runs /\ Executing(r2) /\ activeRuns[SessionOf[r2]] = r2
          BY <1>0 DEF HandlesRegistered
        <5>2. SessionOf[r2] = SessionOf[r] => r2 = r
          BY <1>0, <4>1, <5>1, OneLifeExcludes
        <5> QED
          BY <1>0, <4>1, <5>1, <5>2 DEF HandlesRegistered
      <4> QED
        BY <1>0, <2>3, <4>1, <4>2, <4>3 DEF HandlesRegistered
    <3>3. ASSUME NEW r \in Runs, EndAttempt(r) PROVE HandlesRegistered'
      <4>1. /\ r \in attempting /\ attempting' = attempting \ {r}
            /\ activeRuns' = [activeRuns EXCEPT ![SessionOf[r]] = IF @ = r THEN NoRun ELSE @]
        BY <3>3 DEF EndAttempt
      <4>2. \A r2 \in attempting \ {r} : activeRuns'[SessionOf[r2]] = r2
        <5> TAKE r2 \in attempting \ {r}
        <5>1. r2 \in Runs /\ Executing(r2) /\ Executing(r) /\ activeRuns[SessionOf[r2]] = r2
          BY <1>0, <4>1 DEF HandlesRegistered
        <5>2. SessionOf[r2] # SessionOf[r]
          BY <1>0, <4>1, <5>1, OneLifeExcludes
        <5> QED
          BY <1>0, <4>1, <5>1, <5>2 DEF HandlesRegistered
      <4> QED
        BY <1>0, <2>3, <4>1, <4>2 DEF HandlesRegistered
    <3> QED
      BY <1>2, <3>1, <3>2, <3>3
         DEF AgentNext, Submit, Descend, Finish, Return, EnqueueLevel, SettleLevel, ClearSession,
             ConfigureLane, runVars
  <2> QED
    BY <2>1, <2>2, <2>4 DEF AgentInv
<1> QED
  BY <1>1, <1>2

LEMMA AgentInvInit == AgentInit => AgentInv
  BY RunsNestedInit, AgentRunsAssumption
     DEF AgentInit, Init, AgentInv, OneLife, HandlesRegistered

-----------------------------------------------------------------------------
(* What a drain hands over. *)

\* The session entry of the run was started in the life its lane is in.
OfThisLife(r) == SessionEntry(r).generation = generation[SessionOf[r]]

\* From the start of a restart's drain to the reset of the lanes.
Restarting ==
    \/ request = "restart" /\ shutdown \in {"draining", "closesServer", "closesNothing", "closed"}
    \/ loop = "resetting"

\* Where the loop and the shutdown procedure can be together.
ShutdownOrder ==
    /\ request = "restart" \/ loop = "resetting" => gatewayDraining
    /\ loop = "resetting" => shutdown = "none"
    /\ shutdown = "none" => request = "none"
    /\ shutdown \in {"marked", "draining"} => request = "restart"
    /\ waiter["drain"].answer = "waiting" => shutdown = "draining"

\* While it restarts, a run of this life that has reached its innermost lane is part of the
\* snapshot being waited for, unless the wait has timed out: no run gets there any more.
SnapshotCovers ==
    Restarting => \A r \in Runs : InLane(r, Depth(r)) /\ OfThisLife(r) =>
        \/ waiter["drain"].answer = "timedOut"
        \/ waiter["drain"].answer = "waiting" /\ <<r, Depth(r) - 1>> \in waiter["drain"].activeAtStart

\* A gateway that drains takes nothing in: what is on a lane after a step was there before it.
LEMMA NoneEnters ==
    ASSUME RunsNested, gatewayDraining, AgentNext
    PROVE  \A u \in Tasks : command'[u].phase \in {"queued", "running"} => Advanced(u)
<1>0. IInv /\ LevelsEntered
  BY DEF RunsNested
<1> SUFFICES ASSUME NEW u \in Tasks, command'[u].phase \in {"queued", "running"}, ~Advanced(u)
             PROVE  FALSE
  OBVIOUS
<1>1. ASSUME NEW r \in Runs, NEW k \in 1..Depth(r), EnqueueLevel(r, k) PROVE FALSE
  <2>1. <<r, k>> \in Tasks /\ Path(r)[k] \in Lanes /\ EnqueueRefused(<<r, k>>, Path(r)[k])
    BY <1>1, Paths DEF EnqueueLevel, Enqueue
  <2>2. AdvancedExcept(<<r, k>>) /\ command'[<<r, k>>].phase = "refused"
    BY <1>0, <2>1, EnqueueRefusedMoves
  <2> QED
    BY <2>2 DEF AdvancedExcept
<1>2. ASSUME NEW r \in Runs, NEW k \in 1..Depth(r), NEW outcome \in {"resolved", "rejected"},
             SettleLevel(r, k, outcome)
      PROVE  FALSE
  <2>1. <<r, k>> \in Tasks
    BY Paths
  <2>2. AdvancedExcept(<<r, k>>) /\ command'[<<r, k>>].phase = outcome
    BY <1>0, <1>2, <2>1, SettleMoves DEF SettleLevel
  <2> QED
    BY <2>2 DEF AdvancedExcept
<1>3. ASSUME NEW r \in Runs, Submit(r) \/ Descend(r) PROVE FALSE
  <2>1. 1 \in 1..Depth(r) /\ (Live(r) /\ level[r] < Depth(r) => level[r] + 1 \in 1..Depth(r))
    BY <1>0, Paths DEF LevelsEntered
  <2> QED
    BY <1>1, <1>3, <2>1 DEF Submit, Descend
<1>4. ASSUME NEW r \in Runs, Finish(r) \/ Return(r) PROVE FALSE
  <2>1. Depth(r) \in 1..Depth(r) /\ \A k \in 1..(Depth(r) - 1) : k \in 1..Depth(r)
    BY Paths
  <2> QED
    BY <1>2, <1>4, <2>1 DEF Finish, Return
<1>5. ASSUME NEW r \in Runs, StartAttempt(r) \/ EndAttempt(r) PROVE FALSE
  BY <1>5 DEF StartAttempt, EndAttempt, vars, Advanced
<1>6. ASSUME NEW s \in Sessions, ClearSession(s) PROVE FALSE
  <2>1. s \in Lanes
    BY AgentRunsAssumption
  <2> QED
    BY <1>0, <1>6, <2>1, ClearMoves DEF ClearSession, KeptOrCleared, Advanced
<1>7. ASSUME NEW l \in GlobalLanes, NEW n \in 1..MaxConcurrency, ConfigureLane(l, n) PROVE FALSE
  <2>1. l \in Lanes /\ n \in 0..MaxConcurrency
    BY AgentRunsAssumption, CommandQueueAssumption
  <2> QED
    BY <1>0, <1>7, <2>1, LimitAndResetAdvance DEF ConfigureLane
<1> QED
  BY <1>3, <1>4, <1>5, <1>6, <1>7 DEF AgentNext

\* So a run that is at its innermost lane after the step was there before it, let in by the same life.
LEMMA NoneReachesTheInnermost ==
    ASSUME RunsNested, RunsNested', gatewayDraining, AgentNext, NEW r \in Runs,
           InLane(r, Depth(r))', OfThisLife(r)'
    PROVE  InLane(r, Depth(r)) /\ OfThisLife(r)
<1>1. /\ Depth(r) \in {2, 3} /\ <<r, Depth(r)>> \in Tasks /\ <<r, Depth(r) - 1>> \in Tasks
      /\ Depth(r) - 1 \in 1..(Depth(r) - 1) /\ (Depth(r) - 1) + 1 = Depth(r)
  BY Paths
<1>2. InLane(r, Depth(r))
  BY <1>1, NoneEnters, AdvancedSlot DEF InLane, PhaseOf
<1>3. PhaseOf(r, Depth(r) - 1) = "running" /\ PhaseOf(r, Depth(r) - 1)' = "running"
  BY <1>1, <1>2 DEF RunsNested, HeldThroughout
<1>4. command'[<<r, Depth(r) - 1>>] = command[<<r, Depth(r) - 1>>]
  BY <1>1, <1>3, NoneEnters, AdvancedSlot DEF PhaseOf
<1>5. generation' = generation
  BY AgentNextLeaves
<1> QED
  BY <1>2, <1>4, <1>5 DEF OfThisLife, SessionEntry

\* A run of this life that has reached its innermost lane is among what waitForActiveTasks sees.
LEMMA InnermostIsActive ==
    ASSUME RunsNested, NEW r \in Runs, InLane(r, Depth(r)), OfThisLife(r)
    PROVE  <<r, Depth(r) - 1>> \in AllActive
<1>1. /\ <<r, Depth(r) - 1>> \in Tasks /\ SessionOf[r] \in Lanes
      /\ SessionEntry(r).phase = "running" /\ SessionEntry(r).lane = SessionOf[r]
  BY InnermostHoldsSession, AgentRunsAssumption
<1>2. <<r, Depth(r) - 1>> \in activeTaskIds[SessionOf[r]]
  BY <1>1 DEF RunsNested, IInv, ActiveIsCurrent, SessionEntry, OfThisLife
<1> QED
  BY <1>1, <1>2 DEF AllActive

LEMMA ShutdownOrderKeeps ==
    ASSUME RunsNested, ShutdownOrder, [LoopNext]_gatewayVars PROVE ShutdownOrder'
<1>0. waiter \in [Waiters -> Waiter] /\ "drain" \in Waiters
  BY GatewayLoopAssumption DEF RunsNested, IInv, TypeOK
<1>1. CASE RunsGoOn
  <2>1. UNCHANGED <<gatewayDraining, waiter, loop, shutdown, request>>
    BY <1>1, AgentNextLeaves DEF RunsGoOn, loopVars
  <2> QED
    BY <2>1 DEF ShutdownOrder
<1>2. CASE UNCHANGED gatewayVars
  BY <1>2 DEF ShutdownOrder, gatewayVars, agentVars, vars, loopVars
<1>3. CASE SignalStop \/ ForceExit
  BY <1>3 DEF SignalStop, ForceExit, Exit, MidJob, Closing, ShutdownOrder, agentVars, vars
<1>4. CASE StartSucceeds \/ StartFails \/ LockIsReleased \/ ScheduleRestart
  BY <1>4 DEF StartSucceeds, StartFails, LockIsReleased, ScheduleRestart, Exit, ShutdownOrder,
              agentVars, vars
<1>5. CASE StartDrain
  BY <1>5, <1>0 DEF StartDrain, StartWaiting, Answer, Closing, ShutdownOrder, vars
<1>6. CASE PollTasks
  <2>1. UNCHANGED <<gatewayDraining, loop, shutdown, request>>
    BY <1>6 DEF PollTasks, PollDrained, PollTimedOut, loopVars
  <2>2. waiter'["drain"].answer # "waiting"
    BY <1>6, <1>0 DEF PollTasks, PollDrained, PollTimedOut, Answer
  <2> QED
    BY <2>1, <2>2 DEF ShutdownOrder
<1>7. CASE PollRuns \/ DrainEnds
  BY <1>7 DEF PollRuns, DrainEnds, Closing, ShutdownOrder, agentVars, vars
<1>8. CASE CloseServer \/ ExitAfterClose \/ RestartInProcess
  BY <1>8 DEF CloseServer, ExitAfterClose, Exit, RestartInProcess, ShutdownOrder, agentVars, vars
<1>9. CASE ResetLanes
  BY <1>9 DEF ResetLanes, ResetAllLanes, ShutdownOrder
<1>10. CASE RestartTimerFires \/ ConfigChangeRestarts \/ PollerEmits
  <2>1. loop' = loop /\ loop # "resetting"
    BY <1>10 DEF RestartTimerFires, ConfigChangeRestarts, PollerEmits, MidJob
  <2>2. RequestRestart \/ UNCHANGED <<vars, shutdown, request>>
    BY <1>10 DEF RestartTimerFires, ConfigChangeRestarts, PollerEmits, RestartWhenIdle
  <2> QED
    BY <2>1, <2>2 DEF RequestRestart, MarkGatewayDraining, ShutdownOrder, vars
<1> QED
  BY <1>1, <1>2, <1>3, <1>4, <1>5, <1>6, <1>7, <1>8, <1>9, <1>10 DEF LoopNext, ShutdownStep

LEMMA SnapshotCoversKeeps ==
    ASSUME RunsNested, RunsNested', ShutdownOrder, ShutdownOrder', SnapshotCovers,
           [LoopNext]_gatewayVars
    PROVE  SnapshotCovers'
<1> SUFFICES ASSUME Restarting', NEW r \in Runs, InLane(r, Depth(r))', OfThisLife(r)'
             PROVE  \/ waiter'["drain"].answer = "timedOut"
                    \/ /\ waiter'["drain"].answer = "waiting"
                       /\ <<r, Depth(r) - 1>> \in waiter'["drain"].activeAtStart
  BY DEF SnapshotCovers
<1>0. waiter \in [Waiters -> Waiter] /\ "drain" \in Waiters
  BY GatewayLoopAssumption DEF RunsNested, IInv, TypeOK
<1>1. ASSUME Restarting, waiter' = waiter, InLane(r, Depth(r)), OfThisLife(r)
      PROVE  \/ waiter'["drain"].answer = "timedOut"
             \/ /\ waiter'["drain"].answer = "waiting"
                /\ <<r, Depth(r) - 1>> \in waiter'["drain"].activeAtStart
  BY <1>1 DEF SnapshotCovers
<1>2. ASSUME UNCHANGED <<command, generation>> PROVE InLane(r, Depth(r)) /\ OfThisLife(r)
  BY <1>2 DEF InLane, PhaseOf, OfThisLife, SessionEntry
<1>3. CASE RunsGoOn
  <2>1. UNCHANGED <<waiter, loop, shutdown, request>> /\ AgentNext
    BY <1>3, AgentNextLeaves DEF RunsGoOn, loopVars
  <2>2. Restarting
    BY <2>1 DEF Restarting
  <2>3. gatewayDraining
    BY <2>2 DEF Restarting, ShutdownOrder
  <2> QED
    BY <1>1, <2>1, <2>2, <2>3, NoneReachesTheInnermost
<1>4. CASE UNCHANGED gatewayVars
  BY <1>1, <1>2, <1>4 DEF gatewayVars, agentVars, vars, loopVars, Restarting
<1>5. CASE SignalStop \/ ForceExit \/ StartSucceeds \/ StartFails \/ LockIsReleased \/ ScheduleRestart
  BY <1>1, <1>2, <1>5 DEF SignalStop, ForceExit, Exit, StartSucceeds, StartFails, LockIsReleased,
                          ScheduleRestart, Restarting, agentVars, vars
<1>6. CASE StartDrain
  <2>1. UNCHANGED <<command, generation, activeTaskIds>>
    BY <1>6 DEF StartDrain, StartWaiting, vars
  <2>2. <<r, Depth(r) - 1>> \in AllActive
    BY <1>2, <2>1, InnermostIsActive
  <2> QED
    BY <1>0, <1>6, <2>2 DEF StartDrain, StartWaiting, Answer
<1>7. CASE PollTasks
  <2>1. UNCHANGED <<command, generation, activeTaskIds>> /\ Restarting
    BY <1>7 DEF PollTasks, PollDrained, PollTimedOut, ShutdownOrder, Restarting, loopVars
  <2>2. InLane(r, Depth(r)) /\ OfThisLife(r) /\ <<r, Depth(r) - 1>> \in AllActive
    BY <1>2, <2>1, InnermostIsActive
  <2>3. waiter["drain"].answer = "waiting"
    BY <1>7 DEF PollTasks, PollDrained, PollTimedOut
  <2>4. StillActive("drain")
    BY <2>1, <2>2, <2>3 DEF SnapshotCovers, StillActive
  <2> QED
    BY <1>0, <1>7, <2>4 DEF PollTasks, PollDrained, PollTimedOut, Answer
<1>8. CASE PollRuns \/ DrainEnds \/ CloseServer \/ ExitAfterClose
  <2>1. UNCHANGED <<command, generation, waiter>>
    BY <1>8 DEF PollRuns, DrainEnds, CloseServer, ExitAfterClose, agentVars, vars
  <2>2. Restarting
    BY <1>8 DEF PollRuns, DrainEnds, CloseServer, ExitAfterClose, Exit, Closing, Restarting
  <2> QED
    BY <1>1, <1>2, <2>1, <2>2
<1>9. CASE RestartInProcess
  <2>1. UNCHANGED <<command, generation, waiter>> /\ Restarting
    BY <1>9 DEF RestartInProcess, Restarting, agentVars, vars
  <2> QED
    BY <1>1, <1>2, <2>1
<1>10. CASE ResetLanes
  BY <1>10 DEF ResetLanes, Restarting, ShutdownOrder
<1>11. CASE RestartTimerFires \/ ConfigChangeRestarts \/ PollerEmits
  <2>1. loop' = loop
    BY <1>11 DEF RestartTimerFires, ConfigChangeRestarts, PollerEmits
  <2>2. RequestRestart \/ UNCHANGED <<vars, shutdown, request>>
    BY <1>11 DEF RestartTimerFires, ConfigChangeRestarts, PollerEmits, RestartWhenIdle
  <2>3. UNCHANGED <<command, generation, waiter>> /\ Restarting
    BY <2>1, <2>2 DEF RequestRestart, MarkGatewayDraining, Restarting, ShutdownOrder, vars
  <2> QED
    BY <1>1, <1>2, <2>3
<1> QED
  BY <1>3, <1>4, <1>5, <1>6, <1>7, <1>8, <1>9, <1>10, <1>11 DEF LoopNext, ShutdownStep

\* What CleanHandover says of a step.
HandoverStep ==
    /\ loop = "resetting" /\ loop' = "starting"
    /\ waiter["drain"].answer # "timedOut" /\ runsDrain = "drained"
    => \A r \in Runs : Executing(r) => SessionEntry(r).generation # generation[SessionOf[r]]

LEMMA CoveredHandover == ASSUME ShutdownOrder, SnapshotCovers PROVE HandoverStep
<1> SUFFICES ASSUME loop = "resetting", waiter["drain"].answer # "timedOut",
                    NEW r \in Runs, Executing(r), OfThisLife(r)
             PROVE  FALSE
  BY DEF HandoverStep, OfThisLife
<1>1. InLane(r, Depth(r)) /\ Restarting
  BY DEF Executing, InLane, Restarting
<1> QED
  BY <1>1 DEF SnapshotCovers, ShutdownOrder

-----------------------------------------------------------------------------
(* The refinement of SessionTurns. *)

\* The abstract turns as functions of the active sets and the queues.
HolderOf(a)  == IF a = {} THEN NoRun ELSE RunOf(CHOOSE t \in a : TRUE)
WaitingOf(q) == [i \in 1..Len(q) |-> RunOf(q[i])]

TurnHolder  == [s \in Sessions |-> HolderOf(activeTaskIds[s])]
TurnWaiting == [s \in Sessions |-> WaitingOf(queue[s])]

\* The actions of the abstract specification in these terms.
LEMMA TurnsMapping ==
    /\ Turns!Init <=> /\ TurnHolder = [s \in Sessions |-> NoRun]
                      /\ TurnWaiting = [s \in Sessions |-> <<>>]
    /\ UNCHANGED Turns!turnVars <=> TurnHolder' = TurnHolder /\ TurnWaiting' = TurnWaiting
    /\ \A s \in Sessions : Turns!SendAway(s) <=>
          TurnWaiting' = [TurnWaiting EXCEPT ![s] = <<>>] /\ TurnHolder' = TurnHolder
    /\ \A s \in Sessions : Turns!Yield(s) <=>
          /\ TurnHolder[s] # NoRun
          /\ \/ /\ TurnWaiting[s] = <<>>
                /\ TurnHolder' = [TurnHolder EXCEPT ![s] = NoRun]
                /\ TurnWaiting' = TurnWaiting
             \/ /\ TurnWaiting[s] # <<>>
                /\ TurnHolder' = [TurnHolder EXCEPT ![s] = Head(TurnWaiting[s])]
                /\ TurnWaiting' = [TurnWaiting EXCEPT ![s] = Tail(@)]
    /\ \A r \in Runs, s \in Sessions : Turns!Ask(r, s) <=>
          /\ TurnHolder[s] # r
          /\ \A i \in 1..Len(TurnWaiting[s]) : TurnWaiting[s][i] # r
          /\ \/ /\ TurnHolder[s] = NoRun
                /\ TurnHolder' = [TurnHolder EXCEPT ![s] = r]
                /\ TurnWaiting' = TurnWaiting
             \/ /\ TurnHolder[s] # NoRun
                /\ TurnWaiting' = [TurnWaiting EXCEPT ![s] = Append(@, r)]
                /\ TurnHolder' = TurnHolder
<1>1. Turns!Init <=> /\ TurnHolder = [s \in Sessions |-> NoRun]
                     /\ TurnWaiting = [s \in Sessions |-> <<>>]
  BY DEF Turns!Init, TurnHolder, TurnWaiting, HolderOf, WaitingOf
<1>2. UNCHANGED Turns!turnVars <=> TurnHolder' = TurnHolder /\ TurnWaiting' = TurnWaiting
  BY DEF Turns!turnVars, TurnHolder, TurnWaiting, HolderOf, WaitingOf
<1>3. \A s \in Sessions : Turns!SendAway(s) <=>
         TurnWaiting' = [TurnWaiting EXCEPT ![s] = <<>>] /\ TurnHolder' = TurnHolder
  BY DEF Turns!SendAway, TurnHolder, TurnWaiting, HolderOf, WaitingOf
<1>4. \A s \in Sessions : Turns!Yield(s) <=>
         /\ TurnHolder[s] # NoRun
         /\ \/ /\ TurnWaiting[s] = <<>>
               /\ TurnHolder' = [TurnHolder EXCEPT ![s] = NoRun]
               /\ TurnWaiting' = TurnWaiting
            \/ /\ TurnWaiting[s] # <<>>
               /\ TurnHolder' = [TurnHolder EXCEPT ![s] = Head(TurnWaiting[s])]
               /\ TurnWaiting' = [TurnWaiting EXCEPT ![s] = Tail(@)]
  BY DEF Turns!Yield, TurnHolder, TurnWaiting, HolderOf, WaitingOf
<1>5. \A r \in Runs, s \in Sessions : Turns!Ask(r, s) <=>
         /\ TurnHolder[s] # r
         /\ \A i \in 1..Len(TurnWaiting[s]) : TurnWaiting[s][i] # r
         /\ \/ /\ TurnHolder[s] = NoRun
               /\ TurnHolder' = [TurnHolder EXCEPT ![s] = r]
               /\ TurnWaiting' = TurnWaiting
            \/ /\ TurnHolder[s] # NoRun
               /\ TurnWaiting' = [TurnWaiting EXCEPT ![s] = Append(@, r)]
               /\ TurnHolder' = TurnHolder
  BY DEF Turns!Ask, TurnHolder, TurnWaiting, HolderOf, WaitingOf
<1> QED
  BY <1>1, <1>2, <1>3, <1>4, <1>5

\* A run that waits or works on a session lane is there with its session entry.
LEMMA SessionSlot ==
    ASSUME RunsNested, NEW t \in Tasks, InLane(t[1], t[2]), command[t].lane \in Sessions
    PROVE  RunOf(t) \in Runs /\ t = <<RunOf(t), Depth(RunOf(t)) - 1>>
<1>1. PICK r \in Runs : \E k \in 1..Depth(r) : t = <<r, k>>
  BY SlotIsALevel
<1>2. PICK k \in 1..Depth(r) : t = <<r, k>>
  BY <1>1
<1>3. Path(r)[k] \in Sessions
  BY <1>2 DEF RunsNested, OnItsPath
<1> QED
  BY <1>2, <1>3, Paths DEF RunOf

LEMMA RunOfTask == ASSUME NEW t \in Tasks PROVE RunOf(t) \in Runs
  BY SlotIsALevel DEF RunOf

LEMMA WaitingOfSeq ==
    ASSUME NEW q \in Seq(Tasks)
    PROVE  /\ WaitingOf(q) \in Seq(Runs) /\ Len(WaitingOf(q)) = Len(q)
           /\ \A i \in 1..Len(q) : WaitingOf(q)[i] = RunOf(q[i])
<1>1. \A i \in 1..Len(q) : RunOf(q[i]) \in Runs
  BY RunOfTask
<1> QED
  BY <1>1 DEF WaitingOf

LEMMA WaitingOfAppend ==
    ASSUME NEW q \in Seq(Tasks), NEW t \in Tasks
    PROVE  WaitingOf(Append(q, t)) = Append(WaitingOf(q), RunOf(t))
<1> DEFINE qt == Append(q, t)
           w == WaitingOf(q)
<1>1. qt \in Seq(Tasks) /\ Len(qt) = Len(q) + 1 /\ RunOf(t) \in Runs /\ Len(q) \in Nat
  BY RunOfTask
<1>2. w \in Seq(Runs) /\ Len(w) = Len(q) /\ \A i \in 1..Len(q) : w[i] = RunOf(q[i])
  BY WaitingOfSeq
<1>3. /\ WaitingOf(qt) \in Seq(Runs) /\ Len(WaitingOf(qt)) = Len(q) + 1
      /\ \A i \in 1..(Len(q) + 1) : WaitingOf(qt)[i] = RunOf(qt[i])
  BY <1>1, WaitingOfSeq
<1>4. \A i \in 1..(Len(q) + 1) : RunOf(qt[i]) = IF i = Len(q) + 1 THEN RunOf(t) ELSE RunOf(q[i])
  OBVIOUS
<1> HIDE DEF w, qt
<1>5. /\ Append(w, RunOf(t)) \in Seq(Runs) /\ Len(Append(w, RunOf(t))) = Len(q) + 1
      /\ \A i \in 1..(Len(q) + 1) : Append(w, RunOf(t))[i] = IF i = Len(q) + 1 THEN RunOf(t) ELSE w[i]
  BY <1>1, <1>2
<1>6. \A i \in 1..(Len(q) + 1) : WaitingOf(qt)[i] = Append(w, RunOf(t))[i]
  BY <1>1, <1>2, <1>3, <1>4, <1>5
<1>7. WaitingOf(qt) = Append(w, RunOf(t))
  BY <1>3, <1>5, <1>6, SeqEqual
<1> QED
  BY <1>7 DEF w, qt

\* Shifting the first entry off a queue shifts the first run off the waiting ones.
LEMMA WaitingOfRest ==
    ASSUME NEW q \in Seq(Tasks), q # <<>>
    PROVE  /\ AfterOf(q, 1) \in Seq(Tasks)
           /\ WaitingOf(q) # <<>>
           /\ Head(WaitingOf(q)) = RunOf(q[1])
           /\ WaitingOf(AfterOf(q, 1)) = Tail(WaitingOf(q))
<1> DEFINE rest == AfterOf(q, 1)
           w == WaitingOf(q)
<1>1. Len(q) \in Nat \ {0} /\ 1 \in 0..Len(q)
  OBVIOUS
<1>2. rest \in Seq(Tasks) /\ Len(rest) = Len(q) - 1 /\ \A i \in 1..(Len(q) - 1) : rest[i] = q[i + 1]
  BY <1>1, AfterOfIndices
<1>3. w \in Seq(Runs) /\ Len(w) = Len(q) /\ \A i \in 1..Len(q) : w[i] = RunOf(q[i])
  BY WaitingOfSeq
<1> HIDE DEF rest, w
<1>4. /\ WaitingOf(rest) \in Seq(Runs) /\ Len(WaitingOf(rest)) = Len(q) - 1
      /\ \A i \in 1..(Len(q) - 1) : WaitingOf(rest)[i] = RunOf(q[i + 1])
  BY <1>2, WaitingOfSeq
<1>5. w # <<>> /\ Head(w) = RunOf(q[1])
  BY <1>1, <1>3
<1>6. Tail(w) \in Seq(Runs) /\ Len(Tail(w)) = Len(q) - 1 /\ \A i \in 1..(Len(q) - 1) : Tail(w)[i] = w[i + 1]
  BY <1>1, <1>3, <1>5
<1>7. \A i \in 1..(Len(q) - 1) : WaitingOf(rest)[i] = Tail(w)[i]
  <2> TAKE i \in 1..(Len(q) - 1)
  <2>1. i + 1 \in 1..Len(q)
    BY <1>1
  <2> QED
    BY <2>1, <1>3, <1>4, <1>6
<1>8. WaitingOf(rest) = Tail(w)
  BY <1>4, <1>6, <1>7, SeqEqual
<1> QED
  BY <1>2, <1>5, <1>8 DEF w, rest

\* A step on the lane of session s is a step of the turns of s.
LEMMA TurnsElsewhere ==
    ASSUME NEW s \in Sessions,
           \A k \in Sessions \ {s} : queue'[k] = queue[k] /\ activeTaskIds'[k] = activeTaskIds[k]
    PROVE  /\ TurnHolder[s] = HolderOf(activeTaskIds[s]) /\ TurnWaiting[s] = WaitingOf(queue[s])
           /\ TurnHolder' = [TurnHolder EXCEPT ![s] = HolderOf(activeTaskIds'[s])]
           /\ TurnWaiting' = [TurnWaiting EXCEPT ![s] = WaitingOf(queue'[s])]
    BY DEF TurnHolder, TurnWaiting

LEMMA TurnsUntouched ==
    ASSUME \A s \in Sessions : queue'[s] = queue[s] /\ activeTaskIds'[s] = activeTaskIds[s]
    PROVE  UNCHANGED Turns!turnVars
<1>1. TurnHolder' = TurnHolder /\ TurnWaiting' = TurnWaiting
  BY DEF TurnHolder, TurnWaiting
<1> QED
  BY <1>1, TurnsMapping

LEMMA HolderOfOne == ASSUME NEW t PROVE HolderOf({t}) = RunOf(t) /\ HolderOf({}) = NoRun
<1>1. (CHOOSE u \in {t} : TRUE) = t
  OBVIOUS
<1> QED
  BY <1>1 DEF HolderOf

\* n entries of lane l, of the queues q and active sets a, are started, and the other lanes stay.
PumpsAlone(l, q, a, n) ==
    /\ queue'[l] = AfterOf(q[l], n) /\ activeTaskIds'[l] = a[l] \cup FirstOf(q[l], n)
    /\ \A k \in Lanes \ {l} : queue'[k] = q[k] /\ activeTaskIds'[k] = a[k]

\* Pumping one lane starts as many of its entries as fit and leaves the other lanes alone.
LEMMA PumpOneLane ==
    ASSUME NEW l \in Lanes, NEW q \in [Lanes -> Seq(Tasks)], NEW a \in [Lanes -> SUBSET Tasks],
           NEW m, NEW g, NEW c, DrainLanes({l}, q, a, m, g, c),
           NEW n, n = PumpCount(q[l], Cardinality(a[l]), m[l])
    PROVE  PumpsAlone(l, q, a, n)
<1>1. queue'[l] = AfterOf(q[l], n) /\ activeTaskIds'[l] = a[l] \cup FirstOf(q[l], n)
  BY DEF DrainLanes
<1>2. ASSUME NEW k \in Lanes \ {l} PROVE queue'[k] = q[k] /\ activeTaskIds'[k] = a[k]
  <2>1. queue'[k] = AfterOf(q[k], 0) /\ activeTaskIds'[k] = a[k] \cup FirstOf(q[k], 0)
    BY DEF DrainLanes
  <2>2. AfterOf(q[k], 0) = q[k] /\ FirstOf(q[k], 0) = {}
    BY DEF AfterOf, FirstOf
  <2> QED
    BY <2>1, <2>2
<1> QED
  BY <1>1, <1>2 DEF PumpsAlone

\* A session lane is free, with nobody waiting, or one entry occupies it.
LEMMA FreeOrHeld ==
    ASSUME RunsNested, NEW s \in Sessions
    PROVE  \/ activeTaskIds[s] = {} /\ queue[s] = <<>>
           \/ \E u \in Tasks : activeTaskIds[s] = {u}
<1>1. s \in Lanes /\ activeTaskIds[s] \in SUBSET Tasks /\ IsFiniteSet(activeTaskIds[s])
  BY AgentRunsAssumption, CommandQueueAssumption, FS_Subset DEF RunsNested, IInv, TypeOK
<1>2. maxConcurrent[s] = 1 /\ Cardinality(activeTaskIds[s]) <= 1
  BY DEF RunsNested, SessionsExclusive
<1>3. CASE activeTaskIds[s] = {}
  <2>1. Cardinality(activeTaskIds[s]) = 0
    BY <1>3, FS_EmptySet
  <2>2. queue[s] # <<>> => Cardinality(activeTaskIds[s]) >= maxConcurrent[s]
    BY <1>1 DEF RunsNested, IInv, WorkConserving
  <2>3. queue[s] = <<>>
    BY <1>2, <2>1, <2>2
  <2> QED
    BY <1>3, <2>3
<1>4. CASE activeTaskIds[s] # {}
  <2>1. PICK u \in activeTaskIds[s] : TRUE
    BY <1>4
  <2>2. \A v \in activeTaskIds[s] : v = u
    BY <1>1, <1>2, OnlyOne
  <2>3. u \in Tasks /\ activeTaskIds[s] = {u}
    BY <1>1, <2>1, <2>2
  <2> QED
    BY <2>3
<1> QED
  BY <1>3, <1>4

LEMMA PumpCountOfSession ==
    ASSUME NEW q \in Seq(Tasks)
    PROVE  /\ PumpCount(q, 1, 1) = 0
           /\ q # <<>> => PumpCount(q, 0, 1) = 1
           /\ q = <<>> => PumpCount(q, 0, 1) = 0
    BY DEF PumpCount

\* Nobody holds or awaits a session's turn whose session entry is settled.
LEMMA NotInTheTurns ==
    ASSUME RunsNested, NEW r \in Runs, NEW s \in Sessions, s = SessionOf[r],
           command[<<r, Depth(r) - 1>>].phase \in Settled
    PROVE  /\ \A u \in activeTaskIds[s] : RunOf(u) # r
           /\ \A i \in 1..Len(queue[s]) : RunOf(queue[s][i]) # r
<1>1. s \in Lanes /\ queue[s] \in Seq(Tasks) /\ activeTaskIds[s] \in SUBSET Tasks
  BY AgentRunsAssumption DEF RunsNested, IInv, TypeOK
<1>2. ASSUME NEW u \in Tasks, command[u].phase \in {"queued", "running"}, command[u].lane = s
      PROVE  RunOf(u) # r
  <2>1. InLane(u[1], u[2])
    <3>1. u = <<u[1], u[2]>>
      BY SlotIsALevel
    <3> QED
      BY <1>2, <3>1 DEF InLane, PhaseOf
  <2>2. u = <<RunOf(u), Depth(RunOf(u)) - 1>>
    BY <1>2, <2>1, SessionSlot
  <2> QED
    BY <1>2, <2>2 DEF Settled
<1>3. \A u \in activeTaskIds[s] : command[u].phase = "running" /\ command[u].lane = s
  BY <1>1 DEF RunsNested, IInv, ActiveIsCurrent
<1>4. \A i \in 1..Len(queue[s]) : /\ queue[s][i] \in Tasks
                                  /\ command[queue[s][i]].phase = "queued"
                                  /\ command[queue[s][i]].lane = s
  BY <1>1 DEF RunsNested, IInv, QueueConsistent
<1> QED
  BY <1>1, <1>2, <1>3, <1>4

\* Enqueueing on a session lane asks for the session's turn.
LEMMA EnqueueAsks ==
    ASSUME RunsNested, NEW r \in Runs, NEW s \in Sessions, s = SessionOf[r], NEW t \in Tasks,
           t = <<r, Depth(r) - 1>>, Enqueue(t, s)
    PROVE  Turns!Ask(r, s)
<1> DEFINE q == [queue EXCEPT ![s] = Append(@, t)]
           c == [command EXCEPT ![t] = [phase |-> "queued", lane |-> s, generation |-> 0]]
<1>1. /\ s \in Lanes /\ Sessions \subseteq Lanes /\ queue \in [Lanes -> Seq(Tasks)]
      /\ activeTaskIds \in [Lanes -> SUBSET Tasks] /\ maxConcurrent \in [Lanes -> 1..MaxConcurrency]
      /\ maxConcurrent[s] = 1
  BY AgentRunsAssumption DEF RunsNested, IInv, TypeOK, SessionsExclusive
<1>2. DrainLanes({s}, q, activeTaskIds, maxConcurrent, generation, c) /\ command[t].phase \in Settled
  BY DEF Enqueue, Submittable
<1>3. /\ q \in [Lanes -> Seq(Tasks)] /\ q[s] = Append(queue[s], t) /\ q[s] \in Seq(Tasks)
      /\ \A k \in Lanes \ {s} : q[k] = queue[k]
  BY <1>1
<1> HIDE DEF q, c
<1>4. PICK n : n = PumpCount(q[s], Cardinality(activeTaskIds[s]), maxConcurrent[s])
  OBVIOUS
<1>4a. PumpsAlone(s, q, activeTaskIds, n)
  BY <1>1, <1>2, <1>3, <1>4, PumpOneLane
<1>5. /\ queue'[s] = AfterOf(q[s], n) /\ activeTaskIds'[s] = activeTaskIds[s] \cup FirstOf(q[s], n)
      /\ \A k \in Sessions \ {s} : queue'[k] = queue[k] /\ activeTaskIds'[k] = activeTaskIds[k]
  BY <1>1, <1>3, <1>4a DEF PumpsAlone
<1>6. /\ TurnHolder[s] = HolderOf(activeTaskIds[s]) /\ TurnWaiting[s] = WaitingOf(queue[s])
      /\ TurnHolder' = [TurnHolder EXCEPT ![s] = HolderOf(activeTaskIds'[s])]
      /\ TurnWaiting' = [TurnWaiting EXCEPT ![s] = WaitingOf(queue'[s])]
  BY <1>5, TurnsElsewhere
<1>7. /\ \A u \in activeTaskIds[s] : RunOf(u) # r
      /\ \A i \in 1..Len(queue[s]) : RunOf(queue[s][i]) # r
  BY <1>2, NotInTheTurns
<1>8. RunOf(t) = r /\ NoRun # r
  BY AgentRunsAssumption DEF RunOf
<1>9. \A i \in 1..Len(TurnWaiting[s]) : TurnWaiting[s][i] # r
  BY <1>1, <1>6, <1>7, WaitingOfSeq
<1>10. CASE activeTaskIds[s] = {} /\ queue[s] = <<>>
  <2>1. q[s] = <<t>> /\ q[s] # <<>> /\ Cardinality(activeTaskIds[s]) = 0
    BY <1>3, <1>10, FS_EmptySet
  <2>2. n = 1
    BY <1>1, <1>3, <1>4, <2>1, PumpCountOfSession
  <2>3. queue'[s] = <<>> /\ activeTaskIds'[s] = {t}
    BY <1>5, <1>10, <2>1, <2>2 DEF AfterOf, FirstOf
  <2>4. HolderOf(activeTaskIds[s]) = NoRun /\ HolderOf(activeTaskIds'[s]) = r
    BY <1>8, <1>10, <2>3, HolderOfOne
  <2>5. TurnWaiting' = TurnWaiting
    BY <1>6, <1>10, <2>3 DEF TurnWaiting
  <2>6. TurnHolder[s] = NoRun /\ TurnHolder' = [TurnHolder EXCEPT ![s] = r]
    BY <1>6, <2>4
  <2> QED
    BY <1>8, <1>9, <2>5, <2>6, TurnsMapping
<1>11. CASE \E u \in Tasks : activeTaskIds[s] = {u}
  <2>1. PICK u \in Tasks : activeTaskIds[s] = {u}
    BY <1>11
  <2>2. Cardinality(activeTaskIds[s]) = 1
    BY <2>1, FS_Singleton
  <2>3. n = 0
    BY <1>1, <1>3, <1>4, <2>2, PumpCountOfSession
  <2>4. queue'[s] = Append(queue[s], t) /\ activeTaskIds'[s] = activeTaskIds[s]
    BY <1>3, <1>5, <2>3 DEF AfterOf, FirstOf
  <2>5. WaitingOf(queue'[s]) = Append(TurnWaiting[s], r)
    BY <1>1, <1>6, <1>8, <2>4, WaitingOfAppend
  <2>6. TurnHolder' = TurnHolder
    BY <1>6, <2>4 DEF TurnHolder
  <2>7. TurnHolder[s] = RunOf(u) /\ RunOf(u) \in Runs
    BY <1>6, <2>1, HolderOfOne, RunOfTask
  <2>8. TurnHolder[s] # r /\ TurnHolder[s] # NoRun
    BY <1>7, <2>1, <2>7, AgentRunsAssumption
  <2>9. TurnWaiting' = [TurnWaiting EXCEPT ![s] = Append(@, r)]
    BY <1>6, <2>5
  <2> QED
    BY <1>9, <2>6, <2>8, <2>9, TurnsMapping
<1> QED
  BY <1>10, <1>11, FreeOrHeld

\* The settling of a session entry passes the turn to the first waiter.
LEMMA SettleYields ==
    ASSUME RunsNested, NEW s \in Sessions, NEW t \in Tasks, NEW outcome, SettleCurrent(t, outcome),
           command[t].lane = s
    PROVE  Turns!Yield(s)
<1> DEFINE a == [activeTaskIds EXCEPT ![s] = @ \ {t}]
           c == [command EXCEPT ![t].phase = outcome]
<1>1. /\ s \in Lanes /\ Sessions \subseteq Lanes /\ queue \in [Lanes -> Seq(Tasks)]
      /\ activeTaskIds \in [Lanes -> SUBSET Tasks] /\ maxConcurrent \in [Lanes -> 1..MaxConcurrency]
      /\ maxConcurrent[s] = 1
  BY AgentRunsAssumption DEF RunsNested, IInv, TypeOK, SessionsExclusive
<1>2. DrainLanes({s}, queue, a, maxConcurrent, generation, c)
  BY DEF SettleCurrent
<1>3. t \in activeTaskIds[s]
  BY <1>1 DEF SettleCurrent, RunsNested, IInv, ActiveIsCurrent
<1>4. activeTaskIds[s] = {t}
  BY <1>3, FreeOrHeld
<1>5. a \in [Lanes -> SUBSET Tasks] /\ a[s] = {} /\ \A k \in Lanes \ {s} : a[k] = activeTaskIds[k]
  BY <1>1, <1>4
<1> HIDE DEF a, c
<1>6. PICK n : n = PumpCount(queue[s], Cardinality(a[s]), maxConcurrent[s])
  OBVIOUS
<1>6a. PumpsAlone(s, queue, a, n)
  BY <1>1, <1>2, <1>5, <1>6, PumpOneLane
<1>7. /\ queue'[s] = AfterOf(queue[s], n) /\ activeTaskIds'[s] = a[s] \cup FirstOf(queue[s], n)
      /\ \A k \in Sessions \ {s} : queue'[k] = queue[k] /\ activeTaskIds'[k] = activeTaskIds[k]
  BY <1>1, <1>5, <1>6a DEF PumpsAlone
<1>8. /\ TurnHolder[s] = HolderOf(activeTaskIds[s]) /\ TurnWaiting[s] = WaitingOf(queue[s])
      /\ TurnHolder' = [TurnHolder EXCEPT ![s] = HolderOf(activeTaskIds'[s])]
      /\ TurnWaiting' = [TurnWaiting EXCEPT ![s] = WaitingOf(queue'[s])]
  BY <1>7, TurnsElsewhere
<1>9. TurnHolder[s] # NoRun
  BY <1>4, <1>8, HolderOfOne, RunOfTask, AgentRunsAssumption
<1>10. queue[s] \in Seq(Tasks) /\ Cardinality(a[s]) = 0
  BY <1>1, <1>5, FS_EmptySet
<1>11. CASE queue[s] = <<>>
  <2>1. n = 0
    BY <1>1, <1>6, <1>10, <1>11, PumpCountOfSession
  <2>2. queue'[s] = queue[s] /\ activeTaskIds'[s] = {}
    BY <1>5, <1>7, <1>11, <2>1 DEF AfterOf, FirstOf
  <2>3. TurnHolder' = [TurnHolder EXCEPT ![s] = NoRun]
    BY <1>8, <2>2, HolderOfOne
  <2>4. TurnWaiting' = TurnWaiting
    BY <1>8, <2>2 DEF TurnWaiting
  <2>5. TurnWaiting[s] = <<>>
    BY <1>8, <1>11 DEF WaitingOf
  <2> QED
    BY <1>9, <2>3, <2>4, <2>5, TurnsMapping
<1>12. CASE queue[s] # <<>>
  <2>1. n = 1
    BY <1>1, <1>6, <1>10, <1>12, PumpCountOfSession
  <2>2. queue'[s] = AfterOf(queue[s], 1) /\ activeTaskIds'[s] = {queue[s][1]}
    BY <1>5, <1>7, <2>1 DEF FirstOf
  <2>3. /\ TurnWaiting[s] # <<>> /\ Head(TurnWaiting[s]) = RunOf(queue[s][1])
        /\ WaitingOf(queue'[s]) = Tail(TurnWaiting[s])
    BY <1>8, <1>10, <1>12, <2>2, WaitingOfRest
  <2>4. TurnHolder' = [TurnHolder EXCEPT ![s] = Head(TurnWaiting[s])]
    BY <1>8, <2>2, <2>3, HolderOfOne
  <2>5. TurnWaiting' = [TurnWaiting EXCEPT ![s] = Tail(@)]
    BY <1>8, <2>3
  <2> QED
    BY <1>9, <2>3, <2>4, <2>5, TurnsMapping
<1> QED
  BY <1>11, <1>12

\* A clear of a session lane sends the waiting runs away.
LEMMA ClearSendsAway ==
    ASSUME RunsNested, NEW s \in Sessions, ClearCommandLane(s) PROVE Turns!SendAway(s)
<1>1. s \in Lanes /\ Sessions \subseteq Lanes /\ queue \in [Lanes -> Seq(Tasks)]
  BY AgentRunsAssumption DEF RunsNested, IInv, TypeOK
<1>2. /\ activeTaskIds' = activeTaskIds /\ queue'[s] = <<>>
      /\ \A k \in Lanes \ {s} : queue'[k] = queue[k]
  BY <1>1 DEF ClearCommandLane
<1>3. TurnWaiting' = [TurnWaiting EXCEPT ![s] = WaitingOf(queue'[s])]
  BY <1>1, <1>2, TurnsElsewhere
<1>4. WaitingOf(queue'[s]) = <<>>
  BY <1>2 DEF WaitingOf
<1>5. TurnHolder' = TurnHolder
  BY <1>2 DEF TurnHolder
<1> QED
  BY <1>3, <1>4, <1>5, TurnsMapping

\* A pump of a global lane is no step of the turns.
LEMMA GlobalPumpStutters ==
    ASSUME NEW l \in Lanes, l \notin Sessions, NEW q \in [Lanes -> Seq(Tasks)],
           NEW a \in [Lanes -> SUBSET Tasks], NEW m, NEW g, NEW c, DrainLanes({l}, q, a, m, g, c),
           \A k \in Lanes \ {l} : q[k] = queue[k] /\ a[k] = activeTaskIds[k]
    PROVE  UNCHANGED Turns!turnVars
<1>1. PICK n : n = PumpCount(q[l], Cardinality(a[l]), m[l])
  OBVIOUS
<1>2. PumpsAlone(l, q, a, n)
  BY <1>1, PumpOneLane
<1>3. Sessions \subseteq Lanes \ {l}
  BY AgentRunsAssumption
<1>4. \A s \in Sessions : queue'[s] = queue[s] /\ activeTaskIds'[s] = activeTaskIds[s]
  BY <1>2, <1>3 DEF PumpsAlone
<1> QED
  BY <1>4, TurnsUntouched

LEMMA EnqueueLevelTurns ==
    ASSUME RunsNested, NEW r \in Runs, NEW k \in 1..Depth(r), EnqueueLevel(r, k)
    PROVE  [Turns!Next]_(Turns!turnVars)
<1> DEFINE t == <<r, k>>
           l == Path(r)[k]
<1>1. /\ t \in Tasks /\ l \in Lanes
      /\ l \in Sessions => k = Depth(r) - 1
      /\ SessionOf[r] \in Sessions /\ Path(r)[Depth(r) - 1] = SessionOf[r]
  BY Paths
<1>2. CASE EnqueueRefused(t, l)
  BY <1>2, TurnsUntouched DEF EnqueueRefused
<1>3. CASE Enqueue(t, l) /\ l \in Sessions
  <2>1. k = Depth(r) - 1 /\ l = SessionOf[r]
    BY <1>1, <1>3
  <2> HIDE DEF l
  <2>2. Turns!Ask(r, SessionOf[r])
    BY <1>1, <1>3, <2>1, EnqueueAsks
  <2> QED
    BY <1>1, <2>2 DEF Turns!Next
<1>4. CASE Enqueue(t, l) /\ l \notin Sessions
  <2> HIDE DEF t, l
  <2> DEFINE q == [queue EXCEPT ![l] = Append(@, t)]
             c == [command EXCEPT ![t] = [phase |-> "queued", lane |-> l, generation |-> 0]]
  <2>1. DrainLanes({l}, q, activeTaskIds, maxConcurrent, generation, c)
    BY <1>4 DEF Enqueue
  <2>2. queue \in [Lanes -> Seq(Tasks)] /\ activeTaskIds \in [Lanes -> SUBSET Tasks]
    BY DEF RunsNested, IInv, TypeOK
  <2>3. q \in [Lanes -> Seq(Tasks)] /\ \A m \in Lanes \ {l} : q[m] = queue[m]
    BY <1>1, <2>2
  <2> HIDE DEF q, c
  <2> QED
    BY <1>1, <1>4, <2>1, <2>2, <2>3, GlobalPumpStutters
<1> QED
  BY <1>2, <1>3, <1>4 DEF EnqueueLevel

LEMMA SettleLevelTurns ==
    ASSUME RunsNested, NEW r \in Runs, NEW k \in 1..Depth(r), NEW outcome \in {"resolved", "rejected"},
           SettleLevel(r, k, outcome)
    PROVE  [Turns!Next]_(Turns!turnVars)
<1> DEFINE t == <<r, k>>
<1>1. t \in Tasks /\ command \in [Tasks -> Command] /\ command[t].phase = "running"
  BY Paths DEF RunsNested, IInv, TypeOK, SettleLevel, SettleCurrent, SettleStale
<1>2. PICK l \in Lanes : l = command[t].lane
  BY <1>1, CommandLane
<1>3. SettleCurrent(t, outcome) \/ SettleStale(t, outcome)
  BY DEF SettleLevel
<1>4. CASE SettleStale(t, outcome)
  BY <1>4, TurnsUntouched DEF SettleStale
<1>5. ASSUME SettleCurrent(t, outcome), l \notin Sessions PROVE UNCHANGED Turns!turnVars
  <2> HIDE DEF t
  <2> DEFINE a == [activeTaskIds EXCEPT ![l] = @ \ {t}]
             c == [command EXCEPT ![t].phase = outcome]
  <2>1. DrainLanes({l}, queue, a, maxConcurrent, generation, c)
    BY <1>2, <1>5 DEF SettleCurrent
  <2>2. queue \in [Lanes -> Seq(Tasks)] /\ activeTaskIds \in [Lanes -> SUBSET Tasks]
    BY DEF RunsNested, IInv, TypeOK
  <2>3. a \in [Lanes -> SUBSET Tasks] /\ \A m \in Lanes \ {l} : a[m] = activeTaskIds[m]
    BY <2>2
  <2>4. \A m \in Lanes \ {l} : queue[m] = queue[m] /\ a[m] = activeTaskIds[m]
    BY <2>3
  <2> HIDE DEF a, c
  <2> QED
    BY <1>5, <2>1, <2>2, <2>3, <2>4, GlobalPumpStutters
<1>6. CASE SettleCurrent(t, outcome) /\ l \in Sessions
  <2>1. Turns!Yield(l)
    BY <1>1, <1>2, <1>6, SettleYields
  <2> QED
    BY <1>6, <2>1 DEF Turns!Next
<1> QED
  BY <1>3, <1>4, <1>5, <1>6

\* Every step of the runs is a step of the turns or none.
LEMMA AgentStepTurns ==
    ASSUME RunsNested, [AgentNext]_agentVars PROVE [Turns!Next]_(Turns!turnVars)
<1>0. LevelsEntered
  BY DEF RunsNested
<1>1. ASSUME UNCHANGED vars PROVE [Turns!Next]_(Turns!turnVars)
  BY <1>1, TurnsUntouched DEF vars
<1>2. ASSUME NEW r \in Runs, Submit(r) \/ Descend(r) PROVE [Turns!Next]_(Turns!turnVars)
  <2>1. 1 \in 1..Depth(r) /\ (Live(r) /\ level[r] < Depth(r) => level[r] + 1 \in 1..Depth(r))
    BY <1>0, Paths DEF LevelsEntered
  <2>2. PICK k \in 1..Depth(r) : EnqueueLevel(r, k)
    BY <1>2, <2>1 DEF Submit, Descend
  <2> QED
    BY <2>2, EnqueueLevelTurns
<1>3. ASSUME NEW r \in Runs, Finish(r) \/ Return(r) PROVE [Turns!Next]_(Turns!turnVars)
  <2>1. Depth(r) \in 1..Depth(r) /\ \A k \in 1..(Depth(r) - 1) : k \in 1..Depth(r)
    BY Paths
  <2>2. PICK k \in 1..Depth(r), outcome \in {"resolved", "rejected"} : SettleLevel(r, k, outcome)
    BY <1>3, <2>1 DEF Finish, Return
  <2> QED
    BY <2>2, SettleLevelTurns
<1>4. ASSUME NEW s \in Sessions, ClearSession(s) PROVE [Turns!Next]_(Turns!turnVars)
  <2>1. Turns!SendAway(s)
    BY <1>4, ClearSendsAway DEF ClearSession
  <2> QED
    BY <2>1 DEF Turns!Next
<1>5. ASSUME NEW l \in GlobalLanes, NEW n \in 1..MaxConcurrency, ConfigureLane(l, n)
      PROVE  [Turns!Next]_(Turns!turnVars)
  <2>1. l \in Lanes /\ l \notin Sessions
    BY AgentRunsAssumption
  <2>2. PICK m : DrainLanes({l}, queue, activeTaskIds, m, generation, command)
    BY <1>5 DEF ConfigureLane, SetCommandLaneConcurrency
  <2>3. queue \in [Lanes -> Seq(Tasks)] /\ activeTaskIds \in [Lanes -> SUBSET Tasks]
    BY DEF RunsNested, IInv, TypeOK
  <2> QED
    BY <2>1, <2>2, <2>3, GlobalPumpStutters
<1> QED
  BY <1>1, <1>2, <1>3, <1>4, <1>5 DEF AgentNext, StartAttempt, EndAttempt, agentVars

LEMMA AgentInitTurns == AgentInit => Turns!Init
<1> SUFFICES ASSUME AgentInit PROVE Turns!Init
  OBVIOUS
<1>1. \A s \in Sessions : queue[s] = <<>> /\ activeTaskIds[s] = {}
  BY AgentRunsAssumption DEF AgentInit, Init
<1>2. TurnHolder = [s \in Sessions |-> NoRun]
  BY <1>1, HolderOfOne DEF TurnHolder
<1>3. WaitingOf(<<>>) = <<>>
  BY DEF WaitingOf
<1>4. TurnWaiting = [s \in Sessions |-> <<>>]
  BY <1>1, <1>3 DEF TurnWaiting
<1> QED
  BY <1>2, <1>4, TurnsMapping

-----------------------------------------------------------------------------
(* The steps of the gateway as steps of the queue and of the turns. *)

LEMMA StartOverMapping ==
    Turns!StartOver <=>
        /\ TurnHolder' = [s \in Sessions |-> IF TurnWaiting[s] = <<>> THEN NoRun
                                             ELSE Head(TurnWaiting[s])]
        /\ TurnWaiting' = [s \in Sessions |-> IF TurnWaiting[s] = <<>> THEN <<>>
                                              ELSE Tail(TurnWaiting[s])]
  BY DEF Turns!StartOver, TurnHolder, TurnWaiting, HolderOf, WaitingOf

\* A reset of the lanes starts the first entry of every session lane, and no other.
LEMMA ResetStartsOver == ASSUME RunsNested, ResetAllLanes PROVE Turns!StartOver
<1> DEFINE a == [l \in Lanes |-> {}]
           g == [l \in Lanes |-> generation[l] + 1]
           L == {l \in Lanes : queue[l] # <<>>}
<1>1. /\ Sessions \subseteq Lanes /\ queue \in [Lanes -> Seq(Tasks)]
      /\ \A s \in Sessions : maxConcurrent[s] = 1
  BY AgentRunsAssumption DEF RunsNested, IInv, TypeOK, SessionsExclusive
<1>2. DrainLanes(L, queue, a, maxConcurrent, g, command)
  BY DEF ResetAllLanes
<1>3. Cardinality({}) = 0
  BY FS_EmptySet
<1>4. ASSUME NEW s \in Sessions, queue[s] = <<>>
      PROVE  queue'[s] = <<>> /\ activeTaskIds'[s] = {}
  <2>1. queue'[s] = AfterOf(queue[s], 0) /\ activeTaskIds'[s] = a[s] \cup FirstOf(queue[s], 0)
    BY <1>1, <1>2, <1>4 DEF DrainLanes
  <2> QED
    BY <1>1, <1>4, <2>1 DEF AfterOf, FirstOf
<1>5. ASSUME NEW s \in Sessions, queue[s] # <<>>
      PROVE  queue'[s] = AfterOf(queue[s], 1) /\ activeTaskIds'[s] = {queue[s][1]}
  <2>1. s \in L /\ s \in Lanes /\ a[s] = {} /\ maxConcurrent[s] = 1
    BY <1>1, <1>5
  <2> HIDE DEF L, a
  <2>2. PICK n : n = PumpCount(queue[s], Cardinality(a[s]), maxConcurrent[s])
    OBVIOUS
  <2>3. queue'[s] = AfterOf(queue[s], n) /\ activeTaskIds'[s] = a[s] \cup FirstOf(queue[s], n)
    BY <1>2, <2>1, <2>2 DEF DrainLanes
  <2>4. n = 1
    BY <1>1, <1>3, <1>5, <2>1, <2>2, PumpCountOfSession
  <2> QED
    BY <2>1, <2>3, <2>4 DEF FirstOf
<1>6. ASSUME NEW s \in Sessions
      PROVE  /\ TurnHolder'[s] = IF TurnWaiting[s] = <<>> THEN NoRun ELSE Head(TurnWaiting[s])
             /\ TurnWaiting'[s] = IF TurnWaiting[s] = <<>> THEN <<>> ELSE Tail(TurnWaiting[s])
  <2>1. TurnWaiting[s] = WaitingOf(queue[s]) /\ TurnWaiting'[s] = WaitingOf(queue'[s])
        /\ TurnHolder'[s] = HolderOf(activeTaskIds'[s])
    BY DEF TurnWaiting, TurnHolder
  <2>2. CASE queue[s] = <<>>
    <3>1. WaitingOf(<<>>) = <<>>
      BY DEF WaitingOf
    <3> QED
      BY <1>4, <2>1, <2>2, <3>1, HolderOfOne
  <2>3. CASE queue[s] # <<>>
    <3>1. queue[s] \in Seq(Tasks)
      BY <1>1
    <3>2. /\ WaitingOf(queue[s]) # <<>> /\ Head(WaitingOf(queue[s])) = RunOf(queue[s][1])
          /\ WaitingOf(AfterOf(queue[s], 1)) = Tail(WaitingOf(queue[s]))
      BY <2>3, <3>1, WaitingOfRest
    <3> QED
      BY <1>5, <2>1, <2>3, <3>2, HolderOfOne
  <2> QED
    BY <2>2, <2>3
<1>7. /\ TurnHolder' = [s \in Sessions |-> TurnHolder'[s]]
      /\ TurnWaiting' = [s \in Sessions |-> TurnWaiting'[s]]
  BY DEF TurnHolder, TurnWaiting
<1> HIDE DEF a, g, L
<1> QED
  BY <1>6, <1>7, StartOverMapping

\* The gateway steps on the queue by way of its runs, or by one of the lifecycle's operations.
LEMMA LoopStepCases ==
    ASSUME [LoopNext]_gatewayVars
    PROVE  \/ AgentNext
           \/ MarkGatewayDraining \/ UNCHANGED vars
           \/ StartWaiting("drain") \/ PollDrained("drain") \/ PollTimedOut("drain")
           \/ ResetAllLanes /\ loop = "resetting" /\ loop' = "starting"
<1>1. CASE SignalStop \/ ForceExit \/ StartSucceeds \/ StartFails \/ LockIsReleased \/ ScheduleRestart
            \/ UNCHANGED gatewayVars
  BY <1>1 DEF SignalStop, ForceExit, StartSucceeds, StartFails, LockIsReleased, ScheduleRestart,
              gatewayVars, agentVars
<1>2. CASE StartDrain \/ PollTasks
  BY <1>2 DEF StartDrain, PollTasks
<1>3. CASE PollRuns \/ DrainEnds \/ CloseServer \/ ExitAfterClose \/ RestartInProcess
  BY <1>3 DEF PollRuns, DrainEnds, CloseServer, ExitAfterClose, RestartInProcess, agentVars
<1>4. CASE RestartTimerFires \/ ConfigChangeRestarts \/ PollerEmits
  BY <1>4 DEF RestartTimerFires, ConfigChangeRestarts, PollerEmits, RestartWhenIdle, RequestRestart
<1> QED
  BY <1>1, <1>2, <1>3, <1>4 DEF LoopNext, ShutdownStep, RunsGoOn, ResetLanes

\* Every step of the gateway uses the queue by the queue's own operations.
LEMMA LoopStepQueue == ASSUME RunsNested, [LoopNext]_gatewayVars PROVE [Next]_vars
<1>1. CASE AgentNext
  BY <1>1, AgentNextKeeps
<1> QED
  BY <1>1, LoopStepCases, GatewayLoopAssumption DEF Next

\* Every step of the gateway is a step of the turns, or begins their next life.
LEMMA LoopStepTurns ==
    ASSUME RunsNested, [LoopNext]_gatewayVars
    PROVE  [Turns!Next \/ Turns!StartOver]_(Turns!turnVars)
<1>1. CASE AgentNext
  BY <1>1, AgentStepTurns
<1>2. CASE ResetAllLanes
  BY <1>2, ResetStartsOver
<1>3. CASE queue' = queue /\ activeTaskIds' = activeTaskIds
  BY <1>3, TurnsUntouched
<1> QED
  BY <1>1, <1>2, <1>3, LoopStepCases DEF vars, MarkGatewayDraining, StartWaiting, PollDrained, PollTimedOut

-----------------------------------------------------------------------------
(* Types. *)

RunTypes ==
    /\ attempts \in [Runs -> 0..MaxAttempts] /\ attempting \subseteq Runs
    /\ activeRuns \in [Sessions -> Runs \cup {NoRun}]

LEMMA AgentTypesKeep == ASSUME RunTypes, [AgentNext]_agentVars PROVE RunTypes'
<1>1. CASE \E r \in Runs : Submit(r)
  <2>1. PICK r \in Runs : attempts' = [attempts EXCEPT ![r] = 0] /\ UNCHANGED <<attempting, activeRuns>>
    BY <1>1 DEF Submit, EnqueueLevel
  <2> QED
    BY <2>1, AgentRunsAssumption DEF RunTypes
<1>2. CASE \E r \in Runs : StartAttempt(r)
  <2>1. PICK r \in Runs : StartAttempt(r)
    BY <1>2
  <2>2. attempts[r] + 1 \in 0..MaxAttempts
    BY <2>1, AgentRunsAssumption DEF RunTypes, StartAttempt
  <2> QED
    BY <2>1, <2>2 DEF RunTypes, StartAttempt
<1>3. CASE \E r \in Runs : EndAttempt(r)
  <2>1. PICK r \in Runs : EndAttempt(r)
    BY <1>3
  <2> QED
    BY <2>1 DEF EndAttempt, RunTypes
<1>4. CASE UNCHANGED <<attempts, attempting, activeRuns>>
  BY <1>4 DEF RunTypes
<1> QED
  BY <1>1, <1>2, <1>3, <1>4 DEF AgentNext, Descend, EnqueueLevel, Finish, Return, SettleLevel,
                                ClearSession, ConfigureLane, runVars, agentVars

PhaseTypes ==
    /\ loop \in {"resetting", "starting", "releasing", "waiting", "exited"}
    /\ shutdown \in {"none", "marked", "draining", "closesServer", "closesNothing", "closed"}
    /\ request \in {"none", "restart", "stop"}
    /\ runsDrain \in {"none", "waiting", "drained", "timedOut"}

FlagTypes ==
    /\ server \in BOOLEAN /\ listening \in BOOLEAN /\ lock \in BOOLEAN /\ started \in BOOLEAN
    /\ timer \in BOOLEAN /\ stopAsked \in BOOLEAN
    /\ pollers \in 0..MaxPollers

LoopTypes == PhaseTypes /\ FlagTypes

LEMMA RunTypesKeep ==
    ASSUME RunTypes, [LoopNext]_gatewayVars PROVE RunTypes'
<1>1. CASE RunsGoOn
  BY <1>1, AgentTypesKeep DEF RunsGoOn
<1>2. ASSUME UNCHANGED runVars PROVE RunTypes'
  BY <1>2 DEF runVars, RunTypes
<1>3. CASE ~RunsGoOn
  <2>1. SignalStop \/ ForceExit \/ StartSucceeds \/ StartFails \/ LockIsReleased \/ ScheduleRestart
            \/ UNCHANGED gatewayVars => UNCHANGED runVars
    BY DEF SignalStop, ForceExit, StartSucceeds, StartFails, LockIsReleased, ScheduleRestart,
           gatewayVars, agentVars
  <2>2. ShutdownStep \/ ResetLanes => UNCHANGED runVars
    BY DEF ShutdownStep, StartDrain, PollTasks, PollRuns, DrainEnds, CloseServer, ExitAfterClose,
           RestartInProcess, ResetLanes, agentVars
  <2>3. RestartTimerFires \/ ConfigChangeRestarts \/ PollerEmits => UNCHANGED runVars
    BY DEF RestartTimerFires, ConfigChangeRestarts, PollerEmits
  <2> QED
    BY <1>2, <1>3, <2>1, <2>2, <2>3 DEF LoopNext
<1> QED
  BY <1>1, <1>3

LEMMA PhaseTypesKeep ==
    ASSUME PhaseTypes, [LoopNext]_gatewayVars PROVE PhaseTypes'
<1>1. ASSUME UNCHANGED loopVars PROVE PhaseTypes'
  BY <1>1 DEF loopVars, PhaseTypes
<1>2. CASE RunsGoOn \/ PollTasks \/ UNCHANGED gatewayVars
  BY <1>1, <1>2 DEF RunsGoOn, PollTasks, gatewayVars
<1>3. CASE SignalStop
  BY <1>3 DEF SignalStop, Closing, PhaseTypes
<1>4. CASE ForceExit \/ ScheduleRestart
  BY <1>4 DEF ForceExit, ScheduleRestart, Exit, PhaseTypes
<1>5. CASE StartSucceeds \/ LockIsReleased
  BY <1>5 DEF StartSucceeds, LockIsReleased, PhaseTypes
<1>6. CASE StartFails
  BY <1>6 DEF StartFails, Exit, PhaseTypes
<1>7. CASE StartDrain
  BY <1>7 DEF StartDrain, Closing, PhaseTypes
<1>8. CASE PollRuns \/ DrainEnds
  BY <1>8 DEF PollRuns, DrainEnds, Closing, PhaseTypes
<1>9. CASE CloseServer \/ ExitAfterClose
  BY <1>9 DEF CloseServer, ExitAfterClose, Exit, PhaseTypes
<1>10. CASE RestartInProcess \/ ResetLanes
  BY <1>10 DEF RestartInProcess, ResetLanes, PhaseTypes
<1>11. CASE RestartTimerFires \/ ConfigChangeRestarts \/ PollerEmits
  <2>1. UNCHANGED <<loop, runsDrain>>
    BY <1>11 DEF RestartTimerFires, ConfigChangeRestarts, PollerEmits
  <2>2. shutdown' \in {shutdown, "marked"} /\ request' \in {request, "restart"}
    BY <1>11 DEF RestartTimerFires, ConfigChangeRestarts, PollerEmits, RestartWhenIdle, RequestRestart
  <2> QED
    BY <2>1, <2>2 DEF PhaseTypes
<1> QED
  BY <1>2, <1>3, <1>4, <1>5, <1>6, <1>7, <1>8, <1>9, <1>10, <1>11 DEF LoopNext, ShutdownStep

LEMMA FlagTypesKeep ==
    ASSUME FlagTypes, [LoopNext]_gatewayVars PROVE FlagTypes'
<1>1. ASSUME UNCHANGED <<serverVars, requestVars>> PROVE FlagTypes'
  BY <1>1 DEF serverVars, requestVars, FlagTypes
<1>2. CASE RunsGoOn \/ PollTasks \/ UNCHANGED gatewayVars
  BY <1>1, <1>2 DEF RunsGoOn, PollTasks, gatewayVars, loopVars
<1>3. CASE StartDrain \/ PollRuns \/ DrainEnds \/ ForceExit \/ RestartInProcess \/ ResetLanes
  BY <1>1, <1>3 DEF StartDrain, PollRuns, DrainEnds, ForceExit, RestartInProcess, ResetLanes
<1>4. CASE SignalStop \/ ScheduleRestart
  BY <1>4 DEF SignalStop, ScheduleRestart, serverVars, FlagTypes
<1>5. CASE CloseServer
  <2>1. listening' \in BOOLEAN
    BY <1>5 DEF CloseServer
  <2>2. server' = FALSE /\ UNCHANGED <<lock, started, requestVars>>
    BY <1>5 DEF CloseServer
  <2> QED
    BY <2>1, <2>2 DEF requestVars, FlagTypes
<1>6. CASE StartSucceeds
  BY <1>6 DEF StartSucceeds, requestVars, FlagTypes
<1>7. CASE StartFails
  <2>1. server' = FALSE /\ UNCHANGED <<listening, started, requestVars>>
    BY <1>7 DEF StartFails
  <2>2. lock' \in BOOLEAN
    BY <1>7 DEF StartFails, FlagTypes
  <2> QED
    BY <2>1, <2>2 DEF requestVars, FlagTypes
<1>8. CASE LockIsReleased \/ ExitAfterClose
  <2>1. lock' = FALSE /\ UNCHANGED <<server, listening, started, requestVars>>
    BY <1>8 DEF LockIsReleased, ExitAfterClose
  <2> QED
    BY <2>1 DEF requestVars, FlagTypes
<1>9. CASE RestartTimerFires \/ ConfigChangeRestarts \/ PollerEmits
  <2>1. UNCHANGED <<serverVars, stopAsked>>
    BY <1>9 DEF RestartTimerFires, ConfigChangeRestarts, PollerEmits
  <2>2. timer' \in BOOLEAN
    <3>1. ASSUME NEW t \in BOOLEAN, RestartWhenIdle(t) PROVE timer' \in BOOLEAN
      BY <3>1, Zenon DEF RestartWhenIdle
    <3>2. timer \in BOOLEAN
      BY DEF FlagTypes
    <3> QED
      BY <1>9, <3>1, <3>2, Zenon DEF RestartTimerFires, ConfigChangeRestarts, PollerEmits
  <2>3. pollers' \in 0..MaxPollers
    <3>1. \/ pollers' = pollers
          \/ pollers < MaxPollers /\ pollers' = pollers + 1
          \/ pollers > 0 /\ pollers' = pollers - 1
      BY <1>9 DEF RestartTimerFires, ConfigChangeRestarts, PollerEmits, RestartWhenIdle
    <3>2. pollers \in 0..MaxPollers
      BY DEF FlagTypes
    <3> QED
      BY <3>1, <3>2, GatewayLoopAssumption
  <2> QED
    BY <2>1, <2>2, <2>3 DEF serverVars, FlagTypes
<1> QED
  BY <1>2, <1>3, <1>4, <1>5, <1>6, <1>7, <1>8, <1>9 DEF LoopNext, ShutdownStep

-----------------------------------------------------------------------------
(* The theorems. *)

\* The runs, their attempts and handles, the loop, its shutdown and its requests have their
\* types, and attempts and pollers stay within their bounds.
THEOREM LoopTypeCorrect == LoopSpec => []LoopTypeOK
<1>1. LoopInit => RunsNested /\ RunTypes /\ LoopTypes
  <2>1. LoopInit => RunTypes
    <3>1. 0 \in 0..MaxAttempts
      BY AgentRunsAssumption
    <3>2. LoopInit => /\ attempts = [r \in Runs |-> 0] /\ attempting = {}
                      /\ activeRuns = [s \in Sessions |-> NoRun]
      BY DEF LoopInit, AgentInit
    <3> QED
      BY <3>1, <3>2 DEF RunTypes
  <2>2. LoopInit => LoopTypes
    <3>1. 0 \in 0..MaxPollers
      BY GatewayLoopAssumption
    <3> QED
      BY <3>1, Zenon DEF LoopInit, LoopTypes, PhaseTypes, FlagTypes
  <2> QED
    BY <2>1, <2>2, RunsNestedInit DEF LoopInit
<1>2. RunsNested /\ [LoopNext]_gatewayVars => RunsNested'
  BY LoopNextKeeps
<1>3. RunTypes /\ LoopTypes /\ [LoopNext]_gatewayVars => RunTypes' /\ LoopTypes'
  BY RunTypesKeep, PhaseTypesKeep, FlagTypesKeep DEF LoopTypes
<1>4. RunsNested /\ RunTypes /\ LoopTypes => LoopTypeOK
  BY DEF RunsNested, LevelsEntered, IInv, RunTypes, LoopTypes, PhaseTypes, FlagTypes, AgentTypeOK,
         LoopTypeOK
<1> QED
  BY <1>1, <1>2, <1>3, <1>4, PTL DEF LoopSpec

\* The gateway uses its lanes only as enqueueCommandInLane, drainLane, resetAllLanes and the
\* other operations of command-queue.ts have them: its behaviours are behaviours of the queue,
\* whose theorems hold of the gateway in all its lives.
THEOREM GatewayUsesTheQueue == LoopSpec => Spec
<1>1. LoopInit => Init /\ RunsNested
  BY RunsNestedInit DEF LoopInit, AgentInit
<1>2. RunsNested /\ [LoopNext]_gatewayVars => RunsNested'
  BY LoopNextKeeps
<1>3. RunsNested /\ [LoopNext]_gatewayVars => [Next]_vars
  BY LoopStepQueue
<1> QED
  BY <1>1, <1>2, <1>3, PTL DEF LoopSpec, Spec

\* In every life of the gateway the runs of a session take turns in the order they asked, and
\* who waits when the lanes are reset keeps the place: the gateway implements SessionTurns with
\* restarts, whatever drains time out and whatever runs outlive their life.
THEOREM TurnsOutlastRestarts == LoopSpec => ImplementsTurnsOfLives
<1>1. LoopInit => Turns!Init /\ RunsNested
  BY RunsNestedInit, AgentInitTurns DEF LoopInit
<1>2. RunsNested /\ [LoopNext]_gatewayVars => RunsNested'
  BY LoopNextKeeps
<1>3. RunsNested /\ [LoopNext]_gatewayVars => [Turns!Next \/ Turns!StartOver]_(Turns!turnVars)
  BY LoopStepTurns
<1> QED
  BY <1>1, <1>2, <1>3, PTL DEF LoopSpec, ImplementsTurnsOfLives, Turns!SpecOfLives

\* Across any number of restarts, drains and deadlines, two runs at work on one session are never
\* both of the same life of the gateway.
THEOREM LivesExclude == LoopSpec => []OneRunPerSessionAndLife
<1>1. LoopInit => RunsNested
  BY RunsNestedInit DEF LoopInit
<1>2. RunsNested /\ [LoopNext]_gatewayVars => RunsNested'
  BY LoopNextKeeps
<1> QED
  BY <1>1, <1>2, NestedRunsExclude, PTL DEF LoopSpec

\* A drain that did not time out leaves no run of the ending life at work, although queued entries
\* went on starting while it waited for its snapshot only.
THEOREM DrainsHandOverNothing == LoopSpec => CleanHandover
<1>1. LoopInit => RunsNested /\ ShutdownOrder /\ SnapshotCovers
  <2>1. LoopInit => waiter["drain"].answer = "none"
    BY GatewayLoopAssumption DEF LoopInit, AgentInit, Init
  <2> QED
    BY <2>1, RunsNestedInit DEF LoopInit, AgentInit, Init, ShutdownOrder, SnapshotCovers, Restarting
<1>2. RunsNested /\ [LoopNext]_gatewayVars => RunsNested'
  BY LoopNextKeeps
<1>3. RunsNested /\ ShutdownOrder /\ [LoopNext]_gatewayVars => ShutdownOrder'
  BY ShutdownOrderKeeps
<1>4. RunsNested /\ RunsNested' /\ ShutdownOrder /\ ShutdownOrder' /\ SnapshotCovers
      /\ [LoopNext]_gatewayVars => SnapshotCovers'
  BY SnapshotCoversKeeps
<1>5. ShutdownOrder /\ SnapshotCovers => HandoverStep
  BY CoveredHandover
<1>6. CleanHandover <=> [][HandoverStep]_gatewayVars
  BY PTL DEF CleanHandover, HandoverStep
<1> QED
  BY <1>1, <1>2, <1>3, <1>4, <1>5, <1>6, PTL DEF LoopSpec

\* While the gateway lives, a session has at most one run at work, and the run that attempts a
\* turn is the one that abort, steer and the drain find.
THEOREM SessionsAreExclusive == AgentSpec => []OneRunPerSession
<1>1. AgentInv => OneRunPerSession
  <2>1. AgentInv => \A r1, r2 \in Runs :
          r1 # r2 /\ SessionOf[r1] = SessionOf[r2] => ~(Executing(r1) /\ Executing(r2))
    BY OneLifeExcludes DEF AgentInv
  <2> QED
    BY <2>1 DEF AgentInv, HandlesRegistered, OneRunPerSession
<1>2. AgentInv /\ [AgentNext]_agentVars => AgentInv'
  BY AgentInvKeeps
<1> QED
  BY AgentInvInit, <1>1, <1>2, PTL DEF AgentSpec

\* The session lanes hand out turns one at a time, in the order asked for, whatever goes on in the
\* global lanes: the runs implement SessionTurns.
THEOREM TurnsAreFair == AgentSpec => ImplementsTurns
<1>1. AgentInv /\ [AgentNext]_agentVars => AgentInv'
  BY AgentInvKeeps
<1>2. AgentInv /\ [AgentNext]_agentVars => [Turns!Next]_(Turns!turnVars)
  BY AgentStepTurns DEF AgentInv
<1> QED
  BY AgentInvInit, AgentInitTurns, <1>1, <1>2, PTL DEF AgentSpec, ImplementsTurns, Turns!Spec
=============================================================================
