------------------------- MODULE CommandQueueProofs -------------------------
(***************************************************************************)
(* Proofs about CommandQueue for every set of lanes, slots and waiters and *)
(* every bound.  The inductive invariant is the conjunction of the type    *)
(* invariant and the three state properties the runs check: a pump keeps   *)
(* them because the entries it starts are exactly the first PumpCount of   *)
(* the queue, distinct, and not yet running.  SnapshotsHaveStarted is what *)
(* the answers of waitForActiveTasks need: no slot that a waiter still     *)
(* watches has been submitted again.                                       *)
(***************************************************************************)
EXTENDS CommandQueue, FiniteSetTheorems, TLAPS

(* The state properties as predicates of the values a pump works on. *)

Consistent(q, c) ==
    /\ \A l \in Lanes : \A i \in 1..Len(q[l]) :
          c[q[l][i]].phase = "queued" /\ c[q[l][i]].lane = l
    /\ \A l \in Lanes : \A i, j \in 1..Len(q[l]) : q[l][i] = q[l][j] => i = j
    /\ \A t \in Tasks : c[t].phase = "queued" =>
          t \in FirstOf(q[c[t].lane], Len(q[c[t].lane]))

Occupants(l, g, c) == {t \in Tasks : c[t].phase = "running" /\ c[t].lane = l /\ c[t].generation = g[l]}

Current(a, g, c) == \A l \in Lanes : a[l] = Occupants(l, g, c)

Past(g, c) == \A t \in Tasks : c[t].phase = "running" => c[t].generation <= g[c[t].lane]

Saturated(q, a, m) == q # <<>> => Cardinality(a) >= m

\* No task was started in a generation its lane has not reached: what makes the tasks running
\* at a reset strangers to the lane's new generation.
NoneFromTheFuture == Past(generation, command)

IInv == TypeOK /\ QueueConsistent /\ ActiveIsCurrent /\ WorkConserving /\ NoneFromTheFuture

\* A lane that starts something ends the step within its limit.
LimitStep ==
    \A l \in Lanes : activeTaskIds'[l] \ activeTaskIds[l] # {}
        => Cardinality(activeTaskIds'[l]) <= maxConcurrent'[l]

\* A command that starts leaves no earlier entry of its lane queued.
OrderStep ==
    \A t \in Tasks : command[t].phase # "running" /\ command'[t].phase = "running" =>
        LET l == command'[t].lane
        IN  \A i \in 1..Len(queue[l]) :
               command'[queue[l][i]].phase = "queued" => t \in FirstOf(queue[l], i - 1)

StepOK == LimitStep /\ OrderStep

\* A waiter that is told "drained" has no task of its snapshot still running in this lifecycle.
DrainedStep ==
    \A w \in Waiters : waiter[w].answer = "waiting" /\ waiter'[w].answer = "drained"
        => \A t \in waiter[w].activeAtStart :
              \/ command[t].phase \in Settled
              \/ command[t].generation # generation[command[t].lane]

\* What a job may write before it pumps: entries at the end of a queue, and no start.
Prolongs(q) == \A l \in Lanes : /\ Len(queue[l]) \in 0..Len(q[l])
                                /\ \A i \in 1..Len(queue[l]) : q[l][i] = queue[l][i]
StartsNone(c) == \A t \in Tasks : c[t].phase = "running" => command[t].phase = "running"

\* An entry that is part of a snapshot is not queued anew.
SnapshotsHaveStarted == \A w \in Waiters : \A t \in waiter[w].activeAtStart : command[t].phase # "queued"

-----------------------------------------------------------------------------
(* What a pump does to one queue. *)

\* A command that waits or runs is in a lane.
LEMMA CommandLane ==
    ASSUME NEW c \in [Tasks -> Command], NEW t \in Tasks, c[t].phase \in {"queued", "running"}
    PROVE  c[t].lane \in Lanes /\ c[t].generation \in 0..MaxGeneration
<1>1. c[t] \in Command
  OBVIOUS
<1> QED
  BY <1>1 DEF Command, Settled

\* The pump starts no more entries than there are, and then stops only at the limit.
LEMMA PumpCountBounds ==
    ASSUME NEW q \in Seq(Tasks), NEW busy \in Nat, NEW limit \in Nat
    PROVE  /\ PumpCount(q, busy, limit) \in 0..Len(q)
           /\ PumpCount(q, busy, limit) > 0 => busy + PumpCount(q, busy, limit) <= limit
           /\ PumpCount(q, busy, limit) < Len(q) => busy + PumpCount(q, busy, limit) >= limit
    BY DEF PumpCount

\* What is left of a queue when its first k entries are shifted off.
LEMMA AfterOfIndices ==
    ASSUME NEW q \in Seq(Tasks), NEW k \in 0..Len(q)
    PROVE  /\ AfterOf(q, k) \in Seq(Tasks)
           /\ Len(AfterOf(q, k)) = Len(q) - k
           /\ \A i \in 1..(Len(q) - k) : AfterOf(q, k)[i] = q[i + k]
    BY DEF AfterOf

\* The first k entries of a queue without repetitions are k different slots.
LEMMA FirstOfCardinality ==
    ASSUME NEW q \in Seq(Tasks), NEW k \in 0..Len(q),
           \A i, j \in 1..Len(q) : q[i] = q[j] => i = j
    PROVE  /\ FirstOf(q, k) \subseteq Tasks
           /\ IsFiniteSet(FirstOf(q, k))
           /\ Cardinality(FirstOf(q, k)) = k
<1>1. FirstOf(q, k) \subseteq Tasks
  BY DEF FirstOf
<1> DEFINE f == [i \in 1..k |-> q[i]]
<1>2. f \in Bijection(1..k, FirstOf(q, k))
  <2>1. f \in [1..k -> FirstOf(q, k)]
    BY DEF FirstOf
  <2>2. \A i, j \in 1..k : f[i] = f[j] => i = j
    OBVIOUS
  <2>3. \A t \in FirstOf(q, k) : \E i \in 1..k : f[i] = t
    BY DEF FirstOf
  <2> QED
    BY <2>1, <2>2, <2>3 DEF Bijection, Injection, Surjection, IsInjective
<1>3. ExistsBijection(1..k, FirstOf(q, k))
  BY <1>2 DEF ExistsBijection
<1>4. IsFiniteSet(1..k) /\ Cardinality(1..k) = k
  BY FS_Interval
<1> QED
  BY <1>1, <1>3, <1>4, FS_Bijection

-----------------------------------------------------------------------------
(* What a pump does to the lane state its caller has written. *)

\* Pumping the lanes of L keeps queues, active sets and promises consistent with each other,
\* and saturates the lanes of L.
LEMMA DrainLanesKeeps ==
    ASSUME NEW L \in SUBSET Lanes,
           NEW q \in [Lanes -> Seq(Tasks)], NEW a \in [Lanes -> SUBSET Tasks],
           NEW m \in [Lanes -> 1..MaxConcurrency], NEW g \in [Lanes -> 0..MaxGeneration],
           NEW c \in [Tasks -> Command],
           Consistent(q, c), Current(a, g, c), Past(g, c),
           DrainLanes(L, q, a, m, g, c)
    PROVE  /\ queue' \in [Lanes -> Seq(Tasks)]
           /\ activeTaskIds' \in [Lanes -> SUBSET Tasks]
           /\ command' \in [Tasks -> Command]
           /\ Consistent(queue', command')
           /\ Current(activeTaskIds', g, command')
           /\ Past(g, command')
           /\ \A l \in L : Saturated(queue'[l], activeTaskIds'[l], m[l])
           /\ \A l \in Lanes \ L : queue'[l] = q[l] /\ activeTaskIds'[l] = a[l]
           /\ \A l \in Lanes : activeTaskIds'[l] \ a[l] # {} => Cardinality(activeTaskIds'[l]) <= m[l]
<1> DEFINE n == [l \in Lanes |-> IF l \in L THEN PumpCount(q[l], Cardinality(a[l]), m[l]) ELSE 0]
           started == {t \in Tasks : \E l \in L : t \in FirstOf(q[l], n[l])}
<1>1. \A l \in Lanes : IsFiniteSet(a[l]) /\ Cardinality(a[l]) \in Nat
  BY CommandQueueAssumption, FS_Subset, FS_CardinalityType
<1>2. \A l \in Lanes : n[l] \in 0..Len(q[l])
  <2> TAKE l \in Lanes
  <2>1. CASE l \in L
    BY <2>1, <1>1, CommandQueueAssumption, PumpCountBounds
  <2>2. CASE l \notin L
    BY <2>2
  <2> QED
    BY <2>1, <2>2
<1>3. /\ queue' = [l \in Lanes |-> AfterOf(q[l], n[l])]
      /\ activeTaskIds' = [l \in Lanes |-> a[l] \cup FirstOf(q[l], n[l])]
      /\ command' = [t \in Tasks |-> IF t \in started
                                     THEN [phase |-> "running", lane |-> c[t].lane,
                                           generation |-> g[c[t].lane]]
                                     ELSE c[t]]
  BY DEF DrainLanes
<1> HIDE DEF n
<1>4. \A l \in Lanes : /\ queue'[l] = AfterOf(q[l], n[l])
                        /\ queue'[l] \in Seq(Tasks)
                        /\ Len(queue'[l]) = Len(q[l]) - n[l]
                        /\ \A i \in 1..Len(queue'[l]) : queue'[l][i] = q[l][i + n[l]]
  BY <1>2, <1>3, AfterOfIndices
<1>5. \A l \in Lanes : /\ FirstOf(q[l], n[l]) \subseteq Tasks
                        /\ IsFiniteSet(FirstOf(q[l], n[l]))
                        /\ Cardinality(FirstOf(q[l], n[l])) = n[l]
  BY <1>2, FirstOfCardinality DEF Consistent
<1>6. \A l \in Lanes : \A t \in FirstOf(q[l], n[l]) : c[t].phase = "queued" /\ c[t].lane = l
  BY <1>2 DEF Consistent, FirstOf
<1>7. \A t \in started : c[t].phase = "queued" /\ c[t].lane \in Lanes
                           /\ t \in FirstOf(q[c[t].lane], n[c[t].lane])
  BY <1>6
<1>8. \A l \in Lanes \ L : n[l] = 0
  BY DEF n
<1>9. \A l \in Lanes : FirstOf(q[l], n[l]) \subseteq started
  <2>1. \A l \in Lanes \ L : FirstOf(q[l], n[l]) = {}
    BY <1>8 DEF FirstOf
  <2> QED
    BY <2>1, <1>5
<1> HIDE DEF started
<1>10. queue' \in [Lanes -> Seq(Tasks)] /\ activeTaskIds' \in [Lanes -> SUBSET Tasks]
  BY <1>3, <1>4, <1>5
<1>11. command' \in [Tasks -> Command]
  BY <1>3, <1>7 DEF Command, Settled
<1>12. /\ \A t \in started : /\ command'[t].phase = "running"
                              /\ command'[t].lane = c[t].lane
                              /\ command'[t].generation = g[c[t].lane]
       /\ \A t \in Tasks \ started : command'[t] = c[t]
  BY <1>3, <1>7 DEF started, Command
<1>13. Consistent(queue', command')
  <2>0. ASSUME NEW l \in Lanes, NEW i \in 1..Len(queue'[l])
        PROVE  queue'[l][i] = q[l][i + n[l]] /\ i + n[l] \in 1..Len(q[l])
    <3>1. queue'[l][i] = q[l][i + n[l]]
      BY <1>4
    <3>2. Len(queue'[l]) = Len(q[l]) - n[l]
      BY <1>4
    <3>3. n[l] \in 0..Len(q[l])
      BY <1>2
    <3>4. Len(q[l]) \in Nat
      OBVIOUS
    <3>5. i + n[l] \in 1..Len(q[l])
      BY <3>2, <3>3, <3>4
    <3> QED
      BY <3>1, <3>5
  <2>1. \A l \in Lanes : \A i \in 1..Len(queue'[l]) : queue'[l][i] \in Tasks \ started
    <3> TAKE l \in Lanes
    <3> TAKE i \in 1..Len(queue'[l])
    <3>1. queue'[l][i] = q[l][i + n[l]] /\ i + n[l] \in 1..Len(q[l])
      BY <2>0
    <3>2. q[l][i + n[l]] \in Tasks /\ c[q[l][i + n[l]]].lane = l
      BY <3>1 DEF Consistent
    <3>3. q[l][i + n[l]] \notin FirstOf(q[l], n[l])
      BY <3>1, <1>2 DEF Consistent, FirstOf
    <3> QED
      BY <3>1, <3>2, <3>3, <1>7
  <2>2. ASSUME NEW l \in Lanes, NEW i \in 1..Len(queue'[l])
        PROVE  command'[queue'[l][i]].phase = "queued" /\ command'[queue'[l][i]].lane = l
    <3>1. queue'[l][i] = q[l][i + n[l]] /\ i + n[l] \in 1..Len(q[l])
      BY <2>0
    <3>2. c[q[l][i + n[l]]].phase = "queued" /\ c[q[l][i + n[l]]].lane = l
      BY <3>1 DEF Consistent
    <3> QED
      BY <2>1, <3>1, <3>2, <1>12
  <2>3. ASSUME NEW l \in Lanes, NEW i \in 1..Len(queue'[l]), NEW j \in 1..Len(queue'[l]),
               queue'[l][i] = queue'[l][j]
        PROVE  i = j
    <3>1. queue'[l][i] = q[l][i + n[l]] /\ i + n[l] \in 1..Len(q[l])
      BY <2>0
    <3>2. queue'[l][j] = q[l][j + n[l]] /\ j + n[l] \in 1..Len(q[l])
      BY <2>0
    <3>3. i + n[l] = j + n[l]
      BY <2>3, <3>1, <3>2 DEF Consistent
    <3>4. n[l] \in Nat /\ i \in Int /\ j \in Int
      BY <1>2
    <3> QED
      BY <3>3, <3>4
  <2>4. ASSUME NEW t \in Tasks, command'[t].phase = "queued"
        PROVE  /\ command'[t].lane \in Lanes
               /\ t \in FirstOf(queue'[command'[t].lane], Len(queue'[command'[t].lane]))
    <3>1. t \notin started /\ command'[t] = c[t]
      BY <2>4, <1>12
    <3> DEFINE l == c[t].lane
    <3>2. l \in Lanes /\ t \in FirstOf(q[l], Len(q[l]))
      BY <2>4, <3>1, CommandLane DEF Consistent
    <3>3. PICK i \in 1..Len(q[l]) : q[l][i] = t
      BY <3>2 DEF FirstOf
    <3>4. i > n[l]
      BY <3>1, <3>2, <3>3, <1>2, <1>9 DEF FirstOf
    <3>5. i - n[l] \in 1..Len(queue'[l]) /\ (i - n[l]) + n[l] = i
      <4>1. n[l] \in Nat /\ Len(q[l]) \in Nat /\ Len(queue'[l]) = Len(q[l]) - n[l]
        BY <3>2, <1>2, <1>4
      <4> QED
        BY <3>4, <4>1
    <3>6. queue'[l][i - n[l]] = t
      BY <3>2, <3>3, <3>5, <1>4
    <3> QED
      BY <3>1, <3>2, <3>5, <3>6 DEF FirstOf
  <2> QED
    BY <2>2, <2>3, <2>4 DEF Consistent
<1>14. Current(activeTaskIds', g, command')
  <2> SUFFICES ASSUME NEW l \in Lanes
               PROVE  activeTaskIds'[l] = Occupants(l, g, command')
    BY DEF Current
  <2>1. activeTaskIds'[l] = a[l] \cup FirstOf(q[l], n[l]) /\ a[l] = Occupants(l, g, c)
    BY <1>3 DEF Current
  <2>2. ASSUME NEW t \in a[l] PROVE t \in Occupants(l, g, command')
    BY <2>1, <1>7, <1>12 DEF Occupants
  <2>3. ASSUME NEW t \in FirstOf(q[l], n[l]) PROVE t \in Occupants(l, g, command')
    BY <1>5, <1>6, <1>9, <1>12 DEF Occupants
  <2>4. ASSUME NEW t \in Occupants(l, g, command') PROVE t \in a[l] \cup FirstOf(q[l], n[l])
    <3>1. CASE t \in started
      BY <3>1, <1>7, <1>12, <2>4 DEF Occupants
    <3>2. CASE t \notin started
      BY <3>2, <1>12, <2>1, <2>4 DEF Occupants
    <3> QED
      BY <3>1, <3>2
  <2> QED
    BY <2>1, <2>2, <2>3, <2>4
<1>15. \A l \in Lanes : Cardinality(activeTaskIds'[l]) = Cardinality(a[l]) + n[l]
  <2> TAKE l \in Lanes
  <2>1. a[l] \cap FirstOf(q[l], n[l]) = {}
    BY <1>6 DEF Current, Occupants
  <2>2. Cardinality({}) = 0
    BY FS_EmptySet
  <2>3. Cardinality(a[l] \cup FirstOf(q[l], n[l])) =
           Cardinality(a[l]) + Cardinality(FirstOf(q[l], n[l])) - Cardinality({})
    BY <2>1, <1>1, <1>5, FS_Union
  <2>4. activeTaskIds'[l] = a[l] \cup FirstOf(q[l], n[l])
    BY <1>3
  <2>5. Cardinality(FirstOf(q[l], n[l])) = n[l] /\ n[l] \in Nat /\ Cardinality(a[l]) \in Nat
    BY <1>1, <1>2, <1>5
  <2> QED
    BY <2>2, <2>3, <2>4, <2>5
<1>16. \A l \in L : Saturated(queue'[l], activeTaskIds'[l], m[l])
  <2> SUFFICES ASSUME NEW l \in L, queue'[l] # <<>>
               PROVE  Cardinality(activeTaskIds'[l]) >= m[l]
    BY DEF Saturated
  <2>1. n[l] < Len(q[l])
    BY <1>2, <1>4
  <2>2. n[l] = PumpCount(q[l], Cardinality(a[l]), m[l])
    BY DEF n
  <2>3. q[l] \in Seq(Tasks) /\ m[l] \in Nat
    BY CommandQueueAssumption
  <2> QED
    BY <2>1, <2>2, <2>3, <1>1, <1>15, PumpCountBounds
<1>17. \A l \in Lanes \ L : queue'[l] = q[l] /\ activeTaskIds'[l] = a[l]
  <2> TAKE l \in Lanes \ L
  <2>1. n[l] = 0 /\ FirstOf(q[l], n[l]) = {}
    BY <1>8 DEF FirstOf
  <2>2. queue'[l] = AfterOf(q[l], 0) /\ q[l] \in Seq(Tasks)
    BY <2>1, <1>4
  <2>3. AfterOf(q[l], 0) = q[l]
    BY <2>2 DEF AfterOf
  <2> QED
    BY <2>1, <2>2, <2>3, <1>3
<1>18. ASSUME NEW l \in Lanes, activeTaskIds'[l] \ a[l] # {}
       PROVE  Cardinality(activeTaskIds'[l]) <= m[l]
  <2>1. l \in L
    BY <1>17, <1>18
  <2>2. n[l] = PumpCount(q[l], Cardinality(a[l]), m[l])
    BY <2>1 DEF n
  <2>3. FirstOf(q[l], n[l]) # {}
    BY <1>18, <1>3
  <2>4. n[l] > 0
    BY <2>3, <1>2 DEF FirstOf
  <2>5. q[l] \in Seq(Tasks) /\ m[l] \in Nat
    BY CommandQueueAssumption
  <2> QED
    BY <2>2, <2>4, <2>5, <1>1, <1>15, PumpCountBounds
<1>19. Past(g, command')
  <2> SUFFICES ASSUME NEW t \in Tasks, command'[t].phase = "running"
               PROVE  command'[t].generation <= g[command'[t].lane]
    BY DEF Past
  <2>1. CASE t \in started
    BY <2>1, <1>7, <1>12
  <2>2. CASE t \notin started
    BY <2>2, <1>12 DEF Past
  <2> QED
    BY <2>1, <2>2
<1> QED
  BY <1>10, <1>11, <1>13, <1>14, <1>16, <1>17, <1>18, <1>19

\* A pump of queues that begin as the queues of the state do starts nothing out of turn.
LEMMA DrainLanesInOrder ==
    ASSUME NEW L \in SUBSET Lanes,
           NEW q \in [Lanes -> Seq(Tasks)], NEW a \in [Lanes -> SUBSET Tasks],
           NEW m \in [Lanes -> 1..MaxConcurrency], NEW g \in [Lanes -> 0..MaxGeneration],
           NEW c \in [Tasks -> Command],
           Prolongs(q), Consistent(q, c), StartsNone(c),
           DrainLanes(L, q, a, m, g, c)
    PROVE  OrderStep
<1> DEFINE n == [l \in Lanes |-> IF l \in L THEN PumpCount(q[l], Cardinality(a[l]), m[l]) ELSE 0]
           started == {t \in Tasks : \E l \in L : t \in FirstOf(q[l], n[l])}
<1>1. \A l \in Lanes : n[l] \in 0..Len(q[l])
  <2> TAKE l \in Lanes
  <2>1. Cardinality(a[l]) \in Nat
    BY CommandQueueAssumption, FS_Subset, FS_CardinalityType
  <2> QED
    BY <2>1, CommandQueueAssumption, PumpCountBounds
<1>2. command' = [t \in Tasks |-> IF t \in started
                                  THEN [phase |-> "running", lane |-> c[t].lane, generation |-> g[c[t].lane]]
                                  ELSE c[t]]
  BY DEF DrainLanes
<1> HIDE DEF n
<1>3. \A t \in started : c[t].lane \in Lanes /\ t \in FirstOf(q[c[t].lane], n[c[t].lane])
  <2>1. \A l \in Lanes : \A t \in FirstOf(q[l], n[l]) : c[t].lane = l
    BY <1>1 DEF Consistent, FirstOf
  <2> QED
    BY <2>1
<1>4. \A l \in L : \A i \in 1..n[l] : q[l][i] \in started
  <2> TAKE l \in L
  <2> TAKE i \in 1..n[l]
  <2>1. q[l] \in Seq(Tasks) /\ n[l] \in 0..Len(q[l])
    BY <1>1
  <2>2. i \in 1..Len(q[l])
    BY <2>1
  <2>3. q[l][i] \in Tasks /\ q[l][i] \in FirstOf(q[l], n[l])
    BY <2>1, <2>2 DEF FirstOf
  <2> QED
    BY <2>3
<1>5. \A l \in Lanes \ L : n[l] = 0
  BY DEF n
<1> SUFFICES ASSUME NEW t \in Tasks, command[t].phase # "running", command'[t].phase = "running",
                    NEW i \in 1..Len(queue[command'[t].lane]),
                    command'[queue[command'[t].lane][i]].phase = "queued"
             PROVE  t \in FirstOf(queue[command'[t].lane], i - 1)
  BY DEF OrderStep
<1> DEFINE l == c[t].lane
<1>6. t \in started /\ l = command'[t].lane
  BY <1>2 DEF StartsNone
<1> HIDE DEF started, l
<1>7. l \in Lanes /\ t \in FirstOf(q[l], n[l])
  BY <1>3, <1>6 DEF l
<1>8. PICK j \in 1..n[l] : t = q[l][j]
  BY <1>7 DEF FirstOf
<1>9. ASSUME l \notin L PROVE FALSE
  BY <1>1, <1>5, <1>7, <1>8, <1>9
<1>10. i \in 1..Len(q[l]) /\ q[l][i] = queue[l][i] /\ q[l][i] \in Tasks
  BY <1>6, <1>7 DEF Prolongs
<1>11. q[l][i] \notin started
  BY <1>2, <1>6, <1>10
<1>12. i > n[l] /\ n[l] \in Nat /\ Len(queue[l]) \in Nat
  BY <1>1, <1>4, <1>6, <1>7, <1>9, <1>10, <1>11 DEF Prolongs
<1>13. j \in 1..(i - 1) /\ j \in 1..Len(queue[l])
  BY <1>6, <1>12
<1>14. t = queue[l][j]
  BY <1>7, <1>8, <1>13 DEF Prolongs
<1> QED
  BY <1>6, <1>13, <1>14 DEF FirstOf

-----------------------------------------------------------------------------
(* The inductive invariant. *)

\* The invariant in terms of the predicates of the pump lemma.
LEMMA InvParts ==
    /\ QueueConsistent <=> Consistent(queue, command)
    /\ ActiveIsCurrent <=> Current(activeTaskIds, generation, command)
    /\ WorkConserving <=> \A l \in Lanes : Saturated(queue[l], activeTaskIds[l], maxConcurrent[l])
    BY DEF QueueConsistent, Consistent, ActiveIsCurrent, Current, Occupants, WorkConserving, Saturated

LEMMA InitInv == Init => IInv
<1> SUFFICES ASSUME Init PROVE IInv
  OBVIOUS
<1>1. TypeOK
  <2>1. queue \in [Lanes -> Seq(Tasks)] /\ activeTaskIds \in [Lanes -> SUBSET Tasks]
    BY DEF Init
  <2>2. maxConcurrent \in [Lanes -> 1..MaxConcurrency] /\ generation \in [Lanes -> 0..MaxGeneration]
    BY CommandQueueAssumption DEF Init
  <2>3. command \in [Tasks -> Command]
    BY CommandQueueAssumption DEF Init, Command, Settled
  <2>4. waiter \in [Waiters -> Waiter]
    BY DEF Init, Waiter
  <2> QED
    BY <2>1, <2>2, <2>3, <2>4 DEF Init, TypeOK
<1>2. QueueConsistent /\ ActiveIsCurrent /\ WorkConserving /\ NoneFromTheFuture
  BY DEF Init, QueueConsistent, ActiveIsCurrent, WorkConserving, NoneFromTheFuture, Past
<1> QED
  BY <1>1, <1>2 DEF IInv

\* A step that pumps the lanes of L after writing lane state that satisfies the pump lemma's
\* hypotheses keeps the invariant, provided the other lanes stay saturated.
LEMMA PumpStepKeeps ==
    ASSUME IInv,
           NEW L \in SUBSET Lanes,
           NEW q \in [Lanes -> Seq(Tasks)], NEW a \in [Lanes -> SUBSET Tasks],
           NEW m \in [Lanes -> 1..MaxConcurrency], NEW g \in [Lanes -> 0..MaxGeneration],
           NEW c \in [Tasks -> Command],
           Consistent(q, c), Current(a, g, c), Past(g, c),
           DrainLanes(L, q, a, m, g, c),
           \A l \in Lanes \ L : Saturated(q[l], a[l], m[l]),
           maxConcurrent' = m, generation' = g,
           gatewayDraining' \in BOOLEAN, waiter' = waiter,
           \A l \in Lanes : a[l] \subseteq activeTaskIds[l],
           Prolongs(q), StartsNone(c)
    PROVE  IInv' /\ StepOK
<1>1. /\ queue' \in [Lanes -> Seq(Tasks)]
      /\ activeTaskIds' \in [Lanes -> SUBSET Tasks]
      /\ command' \in [Tasks -> Command]
      /\ Consistent(queue', command')
      /\ Current(activeTaskIds', g, command')
      /\ Past(g, command')
      /\ \A l \in L : Saturated(queue'[l], activeTaskIds'[l], m[l])
      /\ \A l \in Lanes \ L : queue'[l] = q[l] /\ activeTaskIds'[l] = a[l]
      /\ \A l \in Lanes : activeTaskIds'[l] \ a[l] # {} => Cardinality(activeTaskIds'[l]) <= m[l]
  BY DrainLanesKeeps
<1>2. TypeOK'
  BY <1>1 DEF IInv, TypeOK
<1>3. \A l \in Lanes : Saturated(queue'[l], activeTaskIds'[l], m[l])
  BY <1>1
<1>4. QueueConsistent'
  BY <1>1 DEF QueueConsistent, Consistent
<1>5. ActiveIsCurrent'
  BY <1>1 DEF ActiveIsCurrent, Current, Occupants
<1>6. WorkConserving'
  BY <1>3 DEF WorkConserving, Saturated
<1>7. NoneFromTheFuture'
  BY <1>1 DEF NoneFromTheFuture, Past
<1>8. LimitStep
  BY <1>1 DEF LimitStep
<1>10. OrderStep
  BY DrainLanesInOrder
<1> QED
  BY <1>2, <1>4, <1>5, <1>6, <1>7, <1>8, <1>10 DEF IInv, StepOK

LEMMA EnqueueKeeps ==
    ASSUME IInv, NEW t \in Tasks, NEW l \in Lanes, Enqueue(t, l) PROVE IInv' /\ StepOK
<1> DEFINE q == [queue EXCEPT ![l] = Append(@, t)]
           c == [command EXCEPT ![t] = [phase |-> "queued", lane |-> l, generation |-> 0]]
<1>1. /\ queue \in [Lanes -> Seq(Tasks)] /\ activeTaskIds \in [Lanes -> SUBSET Tasks]
      /\ command \in [Tasks -> Command] /\ maxConcurrent \in [Lanes -> 1..MaxConcurrency]
      /\ generation \in [Lanes -> 0..MaxGeneration] /\ gatewayDraining \in BOOLEAN
  BY DEF IInv, TypeOK
<1>2. DrainLanes({l}, q, activeTaskIds, maxConcurrent, generation, c)
  BY DEF Enqueue
<1>3. command[t].phase \notin {"queued", "running"}
  BY DEF Enqueue, Submittable, Settled
<1>4. q \in [Lanes -> Seq(Tasks)]
  BY <1>1
<1>5. c \in [Tasks -> Command]
  BY <1>1, CommandQueueAssumption DEF Command, Settled
<1>6. Consistent(queue, command) /\ Current(activeTaskIds, generation, command)
  BY InvParts DEF IInv
<1>7. /\ Len(q[l]) = Len(queue[l]) + 1 /\ q[l][Len(q[l])] = t
      /\ \A i \in 1..Len(queue[l]) : q[l][i] = queue[l][i]
      /\ \A k \in Lanes \ {l} : q[k] = queue[k]
  BY <1>1
<1>8. \A k \in Lanes : \A i \in 1..Len(queue[k]) : queue[k][i] \in Tasks /\ queue[k][i] # t
  BY <1>1, <1>3, <1>6 DEF Consistent
<1>9. c[t].phase = "queued" /\ c[t].lane = l /\ \A u \in Tasks \ {t} : c[u] = command[u]
  BY <1>1
<1> HIDE DEF q, c
<1>10. Consistent(q, c)
  <2>1. ASSUME NEW k \in Lanes, NEW i \in 1..Len(q[k])
        PROVE  c[q[k][i]].phase = "queued" /\ c[q[k][i]].lane = k
    <3>1. CASE k = l /\ i = Len(q[l])
      BY <3>1, <1>7, <1>9
    <3>2. CASE ~(k = l /\ i = Len(q[l]))
      <4>1. i \in 1..Len(queue[k]) /\ q[k][i] = queue[k][i]
        <5>1. CASE k # l
          BY <5>1, <1>7
        <5>2. CASE k = l
          BY <5>2, <3>2, <1>1, <1>7
        <5> QED
          BY <5>1, <5>2
      <4> QED
        BY <4>1, <1>6, <1>8, <1>9 DEF Consistent
    <3> QED
      BY <3>1, <3>2
  <2>2. ASSUME NEW k \in Lanes, NEW i \in 1..Len(q[k]), NEW j \in 1..Len(q[k]), q[k][i] = q[k][j]
        PROVE  i = j
    <3>1. CASE k # l
      BY <3>1, <2>2, <1>6, <1>7 DEF Consistent
    <3>2. CASE k = l /\ i # Len(q[l]) /\ j # Len(q[l])
      <4>1. i \in 1..Len(queue[l]) /\ j \in 1..Len(queue[l])
        BY <3>2, <1>1, <1>7
      <4> QED
        BY <4>1, <3>2, <2>2, <1>6, <1>7 DEF Consistent
    <3>3. CASE k = l /\ (i = Len(q[l]) \/ j = Len(q[l])) /\ i # j
      <4>1. i \in 1..Len(queue[l]) \/ j \in 1..Len(queue[l])
        BY <3>3, <1>1, <1>7
      <4> QED
        BY <4>1, <3>3, <2>2, <1>7, <1>8
    <3> QED
      BY <3>1, <3>2, <3>3
  <2>3. ASSUME NEW u \in Tasks, c[u].phase = "queued"
        PROVE  c[u].lane \in Lanes /\ u \in FirstOf(q[c[u].lane], Len(q[c[u].lane]))
    <3>1. CASE u = t
      <4>1. Len(q[l]) \in 1..Len(q[l])
        BY <1>1, <1>7
      <4> QED
        BY <4>1, <3>1, <1>7, <1>9 DEF FirstOf
    <3>2. CASE u # t
      <4>1. c[u] = command[u] /\ c[u].lane \in Lanes
            /\ u \in FirstOf(queue[c[u].lane], Len(queue[c[u].lane]))
        BY <3>2, <2>3, <1>1, <1>6, <1>9, CommandLane DEF Consistent
      <4>2. PICK i \in 1..Len(queue[c[u].lane]) : queue[c[u].lane][i] = u
        BY <4>1 DEF FirstOf
      <4>3. i \in 1..Len(q[c[u].lane]) /\ q[c[u].lane][i] = u
        <5>1. CASE c[u].lane # l
          BY <5>1, <4>1, <4>2, <1>7
        <5>2. CASE c[u].lane = l
          BY <5>2, <4>2, <1>1, <1>7
        <5> QED
          BY <5>1, <5>2
      <4> QED
        BY <4>1, <4>3 DEF FirstOf
    <3> QED
      BY <3>1, <3>2
  <2> QED
    BY <2>1, <2>2, <2>3 DEF Consistent
<1>11. Current(activeTaskIds, generation, c)
  BY <1>3, <1>6, <1>9 DEF Current, Occupants
<1>12. \A k \in Lanes \ {l} : Saturated(q[k], activeTaskIds[k], maxConcurrent[k])
  BY <1>7, InvParts DEF IInv
<1>13. maxConcurrent' = maxConcurrent /\ generation' = generation /\ waiter' = waiter
       /\ gatewayDraining' \in BOOLEAN
  BY <1>1 DEF Enqueue
<1>14. {l} \in SUBSET Lanes
  OBVIOUS
<1>15. Past(generation, c)
  BY <1>9 DEF IInv, NoneFromTheFuture, Past
<1>16. Prolongs(q)
  <2> SUFFICES ASSUME NEW k \in Lanes
               PROVE  Len(queue[k]) \in 0..Len(q[k]) /\ \A i \in 1..Len(queue[k]) : q[k][i] = queue[k][i]
    BY DEF Prolongs
  <2>1. Len(queue[k]) \in Nat
    BY <1>1
  <2> QED
    BY <2>1, <1>7
<1>17. StartsNone(c)
  BY <1>9 DEF StartsNone
<1> QED
  BY <1>1, <1>2, <1>4, <1>5, <1>10, <1>11, <1>12, <1>13, <1>14, <1>15, <1>16, <1>17, PumpStepKeeps

\* When a running command settles no queue is concerned, and it occupies no lane any more.
LEMMA SettledCommand ==
    ASSUME IInv, NEW t \in Tasks, NEW d \in [Tasks -> Command], command[t].phase = "running",
           d[t].phase \in {"resolved", "rejected"}, \A u \in Tasks \ {t} : d[u] = command[u]
    PROVE  /\ Consistent(queue, d) /\ Past(generation, d)
           /\ \A l \in Lanes : Occupants(l, generation, d) = Occupants(l, generation, command) \ {t}
<1>0. /\ queue \in [Lanes -> Seq(Tasks)] /\ command \in [Tasks -> Command]
      /\ Consistent(queue, command) /\ Past(generation, command)
  BY InvParts DEF IInv, TypeOK, NoneFromTheFuture
<1>1. \A l \in Lanes : \A i \in 1..Len(queue[l]) : queue[l][i] \in Tasks \ {t}
  BY <1>0 DEF Consistent
<1>2. \A l \in Lanes : \A i \in 1..Len(queue[l]) : d[queue[l][i]].phase = "queued" /\ d[queue[l][i]].lane = l
  BY <1>0, <1>1 DEF Consistent
<1>3. \A u \in Tasks : d[u].phase = "queued" => d[u] = command[u]
  OBVIOUS
<1>4. \A u \in Tasks : d[u].phase = "queued" => u \in FirstOf(queue[d[u].lane], Len(queue[d[u].lane]))
  BY <1>0, <1>3 DEF Consistent
<1>5. Consistent(queue, d)
  BY <1>0, <1>2, <1>4 DEF Consistent
<1>6. Past(generation, d)
  BY <1>0 DEF Past
<1>7. \A l \in Lanes : Occupants(l, generation, d) = Occupants(l, generation, command) \ {t}
  BY DEF Occupants
<1> QED
  BY <1>5, <1>6, <1>7

LEMMA SettleCurrentKeeps ==
    ASSUME IInv, NEW t \in Tasks, NEW outcome \in {"resolved", "rejected"}, SettleCurrent(t, outcome)
    PROVE  IInv' /\ StepOK
<1> DEFINE l == command[t].lane
           a == [activeTaskIds EXCEPT ![l] = @ \ {t}]
           c == [command EXCEPT ![t].phase = outcome]
<1>1. /\ queue \in [Lanes -> Seq(Tasks)] /\ activeTaskIds \in [Lanes -> SUBSET Tasks]
      /\ command \in [Tasks -> Command] /\ maxConcurrent \in [Lanes -> 1..MaxConcurrency]
      /\ generation \in [Lanes -> 0..MaxGeneration] /\ gatewayDraining \in BOOLEAN
  BY DEF IInv, TypeOK
<1>2. DrainLanes({l}, queue, a, maxConcurrent, generation, c)
  BY DEF SettleCurrent
<1>3. command[t].phase = "running"
  BY DEF SettleCurrent
<1>4. l \in Lanes
  BY <1>1, <1>3, CommandLane
<1>5. Consistent(queue, command) /\ Current(activeTaskIds, generation, command)
      /\ Past(generation, command)
  BY InvParts DEF IInv, NoneFromTheFuture
<1>6. /\ c \in [Tasks -> Command] /\ Consistent(queue, c) /\ Past(generation, c)
      /\ \A k \in Lanes : Occupants(k, generation, c) = Occupants(k, generation, command) \ {t}
  <2>1. c \in [Tasks -> Command]
    BY <1>1 DEF Command, Settled
  <2>2. c[t].phase \in {"resolved", "rejected"} /\ \A u \in Tasks \ {t} : c[u] = command[u]
    BY <1>1 DEF Command
  <2> HIDE DEF c
  <2> QED
    BY <1>3, <2>1, <2>2, SettledCommand
<1>7. a \in [Lanes -> SUBSET Tasks]
  BY <1>1
<1>8. a[l] = activeTaskIds[l] \ {t} /\ \A k \in Lanes \ {l} : a[k] = activeTaskIds[k]
  BY <1>1, <1>4
<1> HIDE DEF a, c
<1>9. Current(a, generation, c)
  <2> SUFFICES ASSUME NEW k \in Lanes PROVE a[k] = Occupants(k, generation, c)
    BY DEF Current
  <2>1. activeTaskIds[k] = Occupants(k, generation, command)
    BY <1>5 DEF Current
  <2>2. CASE k = l
    BY <2>1, <2>2, <1>6, <1>8
  <2>3. CASE k # l
    BY <2>1, <2>3, <1>6, <1>8 DEF Occupants
  <2> QED
    BY <2>2, <2>3
<1>10. \A k \in Lanes \ {l} : Saturated(queue[k], a[k], maxConcurrent[k])
  BY <1>8, InvParts DEF IInv
<1>11. maxConcurrent' = maxConcurrent /\ generation' = generation /\ waiter' = waiter
       /\ gatewayDraining' \in BOOLEAN
  BY <1>1 DEF SettleCurrent
<1>12. {l} \in SUBSET Lanes
  BY <1>4
<1>13. \A k \in Lanes : a[k] \subseteq activeTaskIds[k]
  BY <1>8
<1>14. StartsNone(c)
  BY <1>1, <1>3 DEF StartsNone, c
<1>15. Prolongs(queue)
  BY <1>1 DEF Prolongs
<1>16. /\ queue \in [Lanes -> Seq(Tasks)] /\ maxConcurrent \in [Lanes -> 1..MaxConcurrency]
       /\ generation \in [Lanes -> 0..MaxGeneration] /\ c \in [Tasks -> Command]
       /\ Consistent(queue, c) /\ Past(generation, c)
  BY <1>1, <1>6
<1> HIDE DEF l
<1> QED
  BY <1>2, <1>7, <1>9, <1>10, <1>11, <1>12, <1>13, <1>14, <1>15, <1>16, PumpStepKeeps

LEMMA SettleStaleKeeps ==
    ASSUME IInv, NEW t \in Tasks, NEW outcome \in {"resolved", "rejected"}, SettleStale(t, outcome)
    PROVE  IInv' /\ StepOK
<1>1. /\ queue \in [Lanes -> Seq(Tasks)] /\ command \in [Tasks -> Command]
      /\ generation \in [Lanes -> 0..MaxGeneration]
  BY DEF IInv, TypeOK
<1>2. command[t].phase = "running" /\ command' = [command EXCEPT ![t].phase = outcome]
  BY DEF SettleStale
<1>3. Consistent(queue, command) /\ Current(activeTaskIds, generation, command)
      /\ Past(generation, command)
  BY InvParts DEF IInv, NoneFromTheFuture
<1>4. /\ command' \in [Tasks -> Command] /\ Consistent(queue, command') /\ Past(generation, command')
      /\ \A k \in Lanes : Occupants(k, generation, command') = Occupants(k, generation, command) \ {t}
  <2>1. command' \in [Tasks -> Command]
    BY <1>1, <1>2 DEF Command, Settled
  <2>2. command'[t].phase \in {"resolved", "rejected"} /\ \A u \in Tasks \ {t} : command'[u] = command[u]
    BY <1>1, <1>2 DEF Command
  <2> QED
    BY <1>2, <2>1, <2>2, SettledCommand
<1>5. \A k \in Lanes : t \notin Occupants(k, generation, command)
  BY DEF SettleStale, Occupants
<1>6. Current(activeTaskIds, generation, command')
  BY <1>3, <1>4, <1>5 DEF Current
<1>7. UNCHANGED <<gatewayDraining, queue, activeTaskIds, maxConcurrent, generation, waiter>>
  BY DEF SettleStale
<1>8. TypeOK'
  BY <1>4, <1>7 DEF IInv, TypeOK
<1>9. QueueConsistent'
  BY <1>4, <1>7 DEF QueueConsistent, Consistent
<1>10. ActiveIsCurrent'
  BY <1>6, <1>7 DEF ActiveIsCurrent, Current, Occupants
<1>11. WorkConserving'
  BY <1>7 DEF IInv, WorkConserving
<1>12. NoneFromTheFuture'
  BY <1>4, <1>7 DEF NoneFromTheFuture, Past
<1> QED
  BY <1>2, <1>1, <1>7, <1>8, <1>9, <1>10, <1>11, <1>12 DEF IInv, StepOK, LimitStep, OrderStep

LEMMA SetCommandLaneConcurrencyKeeps ==
    ASSUME IInv, NEW l \in Lanes, NEW n \in 0..MaxConcurrency, SetCommandLaneConcurrency(l, n)
    PROVE  IInv' /\ StepOK
<1> DEFINE m == [maxConcurrent EXCEPT ![l] = IF n < 1 THEN 1 ELSE n]
<1>1. /\ queue \in [Lanes -> Seq(Tasks)] /\ activeTaskIds \in [Lanes -> SUBSET Tasks]
      /\ command \in [Tasks -> Command] /\ maxConcurrent \in [Lanes -> 1..MaxConcurrency]
      /\ generation \in [Lanes -> 0..MaxGeneration] /\ gatewayDraining \in BOOLEAN
  BY DEF IInv, TypeOK
<1>2. m \in [Lanes -> 1..MaxConcurrency] /\ \A k \in Lanes \ {l} : m[k] = maxConcurrent[k]
  BY <1>1, CommandQueueAssumption
<1>3. /\ DrainLanes({l}, queue, activeTaskIds, m, generation, command)
      /\ maxConcurrent' = m /\ generation' = generation /\ waiter' = waiter
      /\ gatewayDraining' \in BOOLEAN
  BY <1>1 DEF SetCommandLaneConcurrency
<1> HIDE DEF m
<1>4. Consistent(queue, command) /\ Current(activeTaskIds, generation, command)
      /\ Past(generation, command)
  BY InvParts DEF IInv, NoneFromTheFuture
<1>5. \A k \in Lanes \ {l} : Saturated(queue[k], activeTaskIds[k], m[k])
  BY <1>2, InvParts DEF IInv
<1>6. {l} \in SUBSET Lanes /\ Prolongs(queue) /\ StartsNone(command)
  BY <1>1 DEF Prolongs, StartsNone
<1> QED
  BY <1>1, <1>2, <1>3, <1>4, <1>5, <1>6, PumpStepKeeps

LEMMA ClearCommandLaneKeeps ==
    ASSUME IInv, NEW l \in Lanes, ClearCommandLane(l) PROVE IInv' /\ StepOK
<1>1. queue \in [Lanes -> Seq(Tasks)] /\ command \in [Tasks -> Command]
  BY DEF IInv, TypeOK
<1>2. Consistent(queue, command) /\ Current(activeTaskIds, generation, command)
      /\ Past(generation, command)
  BY InvParts DEF IInv, NoneFromTheFuture
<1> DEFINE gone == {t \in Tasks : t \in FirstOf(queue[l], Len(queue[l]))}
<1>3. \A t \in gone : command[t].phase = "queued" /\ command[t].lane = l
  BY <1>2 DEF Consistent, FirstOf
<1>4. /\ queue'[l] = <<>> /\ \A k \in Lanes \ {l} : queue'[k] = queue[k]
      /\ queue' \in [Lanes -> Seq(Tasks)]
  BY <1>1 DEF ClearCommandLane
<1>5. command' = [t \in Tasks |-> IF t \in gone THEN [command[t] EXCEPT !.phase = "cleared"]
                                                ELSE command[t]]
  BY DEF ClearCommandLane
<1>6. \A t \in Tasks : t \in gone => [command[t] EXCEPT !.phase = "cleared"] \in Command
  BY <1>1, <1>3 DEF Command, Settled
<1> HIDE DEF gone
<1>7. command' \in [Tasks -> Command]
  BY <1>1, <1>5, <1>6
<1>8. /\ \A t \in Tasks \ gone : command'[t] = command[t]
      /\ \A t \in Tasks : t \in gone => command'[t].phase = "cleared"
  BY <1>1, <1>5 DEF Command
<1>9. Consistent(queue', command')
  <2>1. ASSUME NEW k \in Lanes, NEW i \in 1..Len(queue'[k])
        PROVE  command'[queue'[k][i]].phase = "queued" /\ command'[queue'[k][i]].lane = k
    <3>1. k # l /\ queue'[k] = queue[k]
      BY <2>1, <1>4
    <3>2. queue[k][i] \in Tasks \ gone
      BY <3>1, <1>1, <1>2, <1>3 DEF Consistent
    <3> QED
      BY <3>1, <3>2, <1>2, <1>8 DEF Consistent
  <2>2. ASSUME NEW k \in Lanes, NEW i \in 1..Len(queue'[k]), NEW j \in 1..Len(queue'[k]),
               queue'[k][i] = queue'[k][j]
        PROVE  i = j
    <3>1. k # l /\ queue'[k] = queue[k]
      BY <2>2, <1>4
    <3> QED
      BY <3>1, <2>2, <1>2 DEF Consistent
  <2>3. ASSUME NEW t \in Tasks, command'[t].phase = "queued"
        PROVE  t \in FirstOf(queue'[command'[t].lane], Len(queue'[command'[t].lane]))
    <3>1. t \notin gone /\ command'[t] = command[t] /\ command[t].lane \in Lanes
      BY <2>3, <1>1, <1>8, CommandLane
    <3>2. t \in FirstOf(queue[command[t].lane], Len(queue[command[t].lane]))
      BY <2>3, <3>1, <1>2 DEF Consistent
    <3>3. command[t].lane # l
      BY <3>1, <3>2 DEF gone
    <3> QED
      BY <3>1, <3>2, <3>3, <1>4
  <2> QED
    BY <2>1, <2>2, <2>3 DEF Consistent
<1>10. Current(activeTaskIds, generation, command')
  BY <1>2, <1>3, <1>8 DEF Current, Occupants
<1>11. UNCHANGED <<gatewayDraining, activeTaskIds, maxConcurrent, generation, waiter>>
  BY DEF ClearCommandLane
<1>12. TypeOK'
  BY <1>4, <1>7, <1>11 DEF IInv, TypeOK
<1>13. QueueConsistent'
  BY <1>9 DEF QueueConsistent, Consistent
<1>14. ActiveIsCurrent'
  BY <1>10, <1>11 DEF ActiveIsCurrent, Current, Occupants
<1>15. WorkConserving'
  BY <1>4, <1>11 DEF IInv, WorkConserving
<1>16. NoneFromTheFuture'
  BY <1>3, <1>2, <1>8, <1>11 DEF NoneFromTheFuture, Past
<1> QED
  BY <1>8, <1>11, <1>12, <1>13, <1>14, <1>15, <1>16 DEF IInv, StepOK, LimitStep, OrderStep

\* The reset empties every active set; a lane with a queue is pumped, one without is saturated.
LEMMA ResetAllLanesKeeps == ASSUME IInv, ResetAllLanes PROVE IInv' /\ StepOK
<1> DEFINE g == [l \in Lanes |-> generation[l] + 1]
           a == [l \in Lanes |-> {}]
           L == {l \in Lanes : queue[l] # <<>>}
<1>1. /\ queue \in [Lanes -> Seq(Tasks)]
      /\ command \in [Tasks -> Command] /\ maxConcurrent \in [Lanes -> 1..MaxConcurrency]
      /\ generation \in [Lanes -> 0..MaxGeneration]
  BY DEF IInv, TypeOK
<1>2. g \in [Lanes -> 0..MaxGeneration]
  BY <1>1, CommandQueueAssumption DEF ResetAllLanes
<1>3. a \in [Lanes -> SUBSET Tasks]
  OBVIOUS
<1>4. Consistent(queue, command) /\ Current(activeTaskIds, generation, command)
      /\ Past(generation, command)
  BY InvParts DEF IInv, NoneFromTheFuture
<1>5. /\ DrainLanes(L, queue, a, maxConcurrent, g, command)
      /\ maxConcurrent' = maxConcurrent /\ generation' = g /\ waiter' = waiter
      /\ gatewayDraining' \in BOOLEAN
  BY DEF ResetAllLanes
<1>6. Current(a, g, command) /\ Past(g, command)
  <2>1. ASSUME NEW t \in Tasks, command[t].phase = "running"
        PROVE  command[t].generation < g[command[t].lane]
    <3>1. command[t].lane \in Lanes /\ command[t].generation \in 0..MaxGeneration
      BY <2>1, <1>1, CommandLane
    <3>2. generation[command[t].lane] \in 0..MaxGeneration
      BY <1>1, <3>1
    <3>3. command[t].generation \in Nat /\ generation[command[t].lane] \in Nat
      BY <3>1, <3>2, CommandQueueAssumption
    <3>4. command[t].generation <= generation[command[t].lane]
      BY <1>4, <2>1 DEF Past
    <3> QED
      BY <3>1, <3>3, <3>4
  <2>2. \A t \in Tasks : command[t].phase = "running" =>
           command[t].generation \in Nat /\ g[command[t].lane] \in Nat
    BY <1>1, <1>2, CommandLane, CommandQueueAssumption
  <2>3. Past(g, command)
    BY <2>1, <2>2 DEF Past
  <2> HIDE DEF g
  <2>4. \A l \in Lanes : Occupants(l, g, command) = {}
    <3> TAKE l \in Lanes
    <3>1. ASSUME NEW t \in Tasks, command[t].phase = "running", command[t].lane = l,
                 command[t].generation = g[l]
          PROVE  FALSE
      <4>1. command[t].generation < g[command[t].lane]
        BY <3>1, <2>1
      <4> QED
        BY <4>1, <3>1, <2>2
    <3> QED
      BY <3>1 DEF Occupants
  <2> QED
    BY <2>3, <2>4 DEF Current
<1>7. \A l \in Lanes \ L : Saturated(queue[l], a[l], maxConcurrent[l])
  BY DEF Saturated
<1>8. /\ L \in SUBSET Lanes
      /\ \A l \in Lanes : a[l] \subseteq activeTaskIds[l]
      /\ Prolongs(queue) /\ StartsNone(command)
  BY <1>1 DEF Prolongs, StartsNone
<1> HIDE DEF g, a, L
<1> QED
  BY <1>1, <1>2, <1>3, <1>4, <1>5, <1>6, <1>7, <1>8, PumpStepKeeps

\* Refusing a command, marking the gateway as draining and the waiters leave the lanes alone.
LEMMA EnqueueRefusedKeeps ==
    ASSUME IInv, NEW t \in Tasks, NEW l \in Lanes, EnqueueRefused(t, l) PROVE IInv' /\ StepOK
<1>1. queue \in [Lanes -> Seq(Tasks)] /\ command \in [Tasks -> Command]
  BY DEF IInv, TypeOK
<1>2. Consistent(queue, command) /\ Current(activeTaskIds, generation, command)
      /\ Past(generation, command)
  BY InvParts DEF IInv, NoneFromTheFuture
<1>3. command[t].phase \notin {"queued", "running"}
  BY DEF EnqueueRefused, Submittable, Settled
<1>4. command' \in [Tasks -> Command]
  BY <1>1, CommandQueueAssumption DEF EnqueueRefused, Command, Settled
<1>5. command'[t].phase = "refused" /\ \A u \in Tasks \ {t} : command'[u] = command[u]
  BY <1>1 DEF EnqueueRefused
<1>6. UNCHANGED <<gatewayDraining, queue, activeTaskIds, maxConcurrent, generation, waiter>>
  BY DEF EnqueueRefused
<1>7. \A k \in Lanes : \A i \in 1..Len(queue[k]) : queue[k][i] \in Tasks \ {t}
  BY <1>1, <1>2, <1>3 DEF Consistent
<1>8. Consistent(queue, command')
  <2>1. \A k \in Lanes : \A i \in 1..Len(queue[k]) :
           command'[queue[k][i]].phase = "queued" /\ command'[queue[k][i]].lane = k
    BY <1>2, <1>5, <1>7 DEF Consistent
  <2>2. \A u \in Tasks : command'[u].phase = "queued" =>
           u \in FirstOf(queue[command'[u].lane], Len(queue[command'[u].lane]))
    BY <1>2, <1>5 DEF Consistent
  <2> QED
    BY <2>1, <2>2, <1>2 DEF Consistent
<1>9. Current(activeTaskIds, generation, command') /\ Past(generation, command')
  BY <1>2, <1>3, <1>5 DEF Current, Occupants, Past
<1>10. TypeOK'
  BY <1>4, <1>6 DEF IInv, TypeOK
<1>11. QueueConsistent'
  BY <1>6, <1>8 DEF QueueConsistent, Consistent
<1>12. ActiveIsCurrent' /\ NoneFromTheFuture'
  BY <1>6, <1>9 DEF ActiveIsCurrent, Current, Occupants, NoneFromTheFuture, Past
<1>13. WorkConserving'
  BY <1>6 DEF IInv, WorkConserving
<1> QED
  BY <1>5, <1>6, <1>10, <1>11, <1>12, <1>13 DEF IInv, StepOK, LimitStep, OrderStep

LEMMA LanesUntouchedKeeps ==
    ASSUME IInv, UNCHANGED <<queue, activeTaskIds, maxConcurrent, generation, command>>,
           gatewayDraining' \in BOOLEAN, waiter' \in [Waiters -> Waiter]
    PROVE  IInv' /\ StepOK
<1>1. TypeOK'
  BY DEF IInv, TypeOK
<1>2. QueueConsistent' /\ ActiveIsCurrent' /\ WorkConserving' /\ NoneFromTheFuture'
  BY DEF IInv, QueueConsistent, ActiveIsCurrent, WorkConserving, NoneFromTheFuture, Past
<1> QED
  BY <1>1, <1>2 DEF IInv, StepOK, LimitStep, OrderStep

\* A call of waitForActiveTasks and its polls only write the waiter.
LEMMA WaiterKeeps ==
    ASSUME IInv, NEW w \in Waiters, StartWaiting(w) \/ PollDrained(w) \/ PollTimedOut(w)
    PROVE  IInv' /\ StepOK
<1>1. waiter \in [Waiters -> Waiter] /\ gatewayDraining \in BOOLEAN
      /\ activeTaskIds \in [Lanes -> SUBSET Tasks]
  BY DEF IInv, TypeOK
<1>2. AllActive \subseteq Tasks
  BY <1>1 DEF AllActive
<1>3. waiter' \in [Waiters -> Waiter]
  BY <1>1, <1>2 DEF StartWaiting, PollDrained, PollTimedOut, Answer, Waiter
<1>4. UNCHANGED <<gatewayDraining, queue, activeTaskIds, maxConcurrent, generation, command>>
  BY DEF StartWaiting, PollDrained, PollTimedOut
<1> QED
  BY <1>1, <1>3, <1>4, LanesUntouchedKeeps

\* The invariant is inductive, and from it every step starts within the limits.
LEMMA NextKeeps == ASSUME IInv, [Next]_vars PROVE IInv' /\ StepOK
<1>1. ASSUME NEW t \in Tasks, NEW l \in Lanes, Enqueue(t, l) PROVE IInv' /\ StepOK
  BY <1>1, EnqueueKeeps
<1>2. ASSUME NEW t \in Tasks, NEW l \in Lanes, EnqueueRefused(t, l) PROVE IInv' /\ StepOK
  BY <1>2, EnqueueRefusedKeeps
<1>3. ASSUME NEW t \in Tasks, NEW outcome \in {"resolved", "rejected"}, SettleCurrent(t, outcome)
      PROVE  IInv' /\ StepOK
  BY <1>3, SettleCurrentKeeps
<1>4. ASSUME NEW t \in Tasks, NEW outcome \in {"resolved", "rejected"}, SettleStale(t, outcome)
      PROVE  IInv' /\ StepOK
  BY <1>4, SettleStaleKeeps
<1>5. ASSUME NEW l \in Lanes, NEW n \in 0..MaxConcurrency, SetCommandLaneConcurrency(l, n)
      PROVE  IInv' /\ StepOK
  BY <1>5, SetCommandLaneConcurrencyKeeps
<1>6. ASSUME NEW l \in Lanes, ClearCommandLane(l) PROVE IInv' /\ StepOK
  BY <1>6, ClearCommandLaneKeeps
<1>7. CASE MarkGatewayDraining
  BY <1>7, LanesUntouchedKeeps DEF MarkGatewayDraining, IInv, TypeOK
<1>8. CASE ResetAllLanes
  BY <1>8, ResetAllLanesKeeps
<1>9. ASSUME NEW w \in Waiters, StartWaiting(w) \/ PollDrained(w) \/ PollTimedOut(w)
      PROVE  IInv' /\ StepOK
  BY <1>9, WaiterKeeps
<1>10. CASE UNCHANGED vars
  BY <1>10, LanesUntouchedKeeps DEF vars, IInv, TypeOK
<1> QED
  BY <1>1, <1>2, <1>3, <1>4, <1>5, <1>6, <1>7, <1>8, <1>9, <1>10 DEF Next

LEMMA InvariantHolds == Spec => []IInv
<1>1. IInv /\ [Next]_vars => IInv'
  BY NextKeeps
<1> QED
  BY InitInv, <1>1, PTL DEF Spec

-----------------------------------------------------------------------------
(* The snapshots of waitForActiveTasks. *)

\* A pump queues nothing.
LEMMA DrainLanesQueuesNone ==
    ASSUME NEW L, NEW q, NEW a, NEW m, NEW g, NEW c, DrainLanes(L, q, a, m, g, c)
    PROVE  \A u \in Tasks : command'[u].phase = "queued" => c[u].phase = "queued"
<1> DEFINE n == [l \in Lanes |-> IF l \in L THEN PumpCount(q[l], Cardinality(a[l]), m[l]) ELSE 0]
           Starts(t) == \E l \in L : t \in FirstOf(q[l], n[l])
<1> HIDE DEF n
<1>1. command' = [t \in Tasks |-> IF Starts(t)
                                  THEN [phase |-> "running", lane |-> c[t].lane, generation |-> g[c[t].lane]]
                                  ELSE c[t]]
  BY DEF DrainLanes, n
<1> HIDE DEF Starts
<1> QED
  BY <1>1

\* Only an enqueue queues a slot, and it takes none that a snapshot holds.
LEMMA OnlyFreeSlotsAreQueued ==
    ASSUME TypeOK, Next, NEW u \in Tasks, command'[u].phase = "queued", command[u].phase # "queued"
    PROVE  Submittable(u) /\ waiter' = waiter
<1>0. command \in [Tasks -> Command]
  BY DEF TypeOK
<1>1. ASSUME NEW t \in Tasks, NEW l \in Lanes, Enqueue(t, l) PROVE Submittable(u) /\ waiter' = waiter
  <2> DEFINE q == [queue EXCEPT ![l] = Append(@, t)]
             c == [command EXCEPT ![t] = [phase |-> "queued", lane |-> l, generation |-> 0]]
  <2>0. DrainLanes({l}, q, activeTaskIds, maxConcurrent, generation, c)
    BY <1>1 DEF Enqueue
  <2> HIDE DEF q, c
  <2>1. c[u].phase = "queued"
    BY <2>0, DrainLanesQueuesNone
  <2> USE DEF c
  <2>2. u = t
    BY <1>0, <2>1
  <2> QED
    BY <1>1, <2>2 DEF Enqueue
<1>2. ASSUME NEW t \in Tasks, NEW l \in Lanes, EnqueueRefused(t, l) PROVE FALSE
  BY <1>0, <1>2 DEF EnqueueRefused
<1>3. ASSUME NEW t \in Tasks, NEW outcome \in {"resolved", "rejected"}, SettleCurrent(t, outcome)
      PROVE  FALSE
  <2> DEFINE a == [activeTaskIds EXCEPT ![command[t].lane] = @ \ {t}]
             c == [command EXCEPT ![t].phase = outcome]
  <2>0. DrainLanes({command[t].lane}, queue, a, maxConcurrent, generation, c)
    BY <1>3 DEF SettleCurrent
  <2> HIDE DEF a, c
  <2>1. c[u].phase = "queued"
    BY <2>0, DrainLanesQueuesNone
  <2> USE DEF c
  <2> QED
    BY <1>0, <2>1 DEF Command
<1>4. ASSUME NEW t \in Tasks, NEW outcome \in {"resolved", "rejected"}, SettleStale(t, outcome)
      PROVE  FALSE
  BY <1>0, <1>4 DEF SettleStale, Command
<1>5. ASSUME NEW l \in Lanes, NEW n \in 0..MaxConcurrency, SetCommandLaneConcurrency(l, n) PROVE FALSE
  BY <1>5, DrainLanesQueuesNone DEF SetCommandLaneConcurrency
<1>6. ASSUME NEW l \in Lanes, ClearCommandLane(l) PROVE FALSE
  BY <1>0, <1>6 DEF ClearCommandLane, Command
<1>7. CASE MarkGatewayDraining
  BY <1>7 DEF MarkGatewayDraining
<1>8. CASE ResetAllLanes
  BY <1>8, DrainLanesQueuesNone DEF ResetAllLanes
<1>9. ASSUME NEW w \in Waiters, StartWaiting(w) \/ PollDrained(w) \/ PollTimedOut(w) PROVE FALSE
  BY <1>9 DEF StartWaiting, PollDrained, PollTimedOut
<1> QED
  BY <1>1, <1>2, <1>3, <1>4, <1>5, <1>6, <1>7, <1>8, <1>9 DEF Next

\* A waiter's snapshot is the one it had, or nothing, or tasks that run.
LEMMA SnapshotsGrowByRunningTasks ==
    ASSUME IInv, [Next]_vars, NEW w \in Waiters, NEW t \in waiter'[w].activeAtStart
    PROVE  \/ t \in waiter[w].activeAtStart
           \/ command'[t].phase = "running"
<1>1. /\ waiter \in [Waiters -> Waiter] /\ activeTaskIds \in [Lanes -> SUBSET Tasks]
      /\ ActiveIsCurrent
  BY DEF IInv, TypeOK
<1>2. CASE waiter' = waiter
  BY <1>2
<1>3. CASE ~(waiter' = waiter)
  <2>1. PICK v \in Waiters : StartWaiting(v) \/ PollDrained(v) \/ PollTimedOut(v)
    BY <1>3 DEF Next, vars, Enqueue, EnqueueRefused, SettleCurrent, SettleStale,
                SetCommandLaneConcurrency, ClearCommandLane, MarkGatewayDraining, ResetAllLanes
  <2>2. command' = command
    BY <2>1 DEF StartWaiting, PollDrained, PollTimedOut
  <2>3. waiter'[w] = waiter[w] \/ waiter'[w].activeAtStart = {} \/ waiter'[w].activeAtStart = AllActive
    BY <1>1, <2>1 DEF StartWaiting, PollDrained, PollTimedOut, Answer
  <2>4. \A u \in AllActive : command[u].phase = "running"
    BY <1>1 DEF AllActive, ActiveIsCurrent
  <2> QED
    BY <2>2, <2>3, <2>4
<1> QED
  BY <1>2, <1>3

LEMMA SnapshotsKeep ==
    ASSUME IInv, IInv', SnapshotsHaveStarted, [Next]_vars PROVE SnapshotsHaveStarted'
<1> SUFFICES ASSUME NEW w \in Waiters, NEW t \in waiter'[w].activeAtStart, command'[t].phase = "queued"
             PROVE  FALSE
  BY DEF SnapshotsHaveStarted
<1>1. t \in waiter[w].activeAtStart /\ command[t].phase # "queued"
  BY SnapshotsGrowByRunningTasks DEF SnapshotsHaveStarted
<1>2. t \in Tasks
  BY <1>1 DEF IInv, TypeOK, Waiter
<1>3. Next
  BY <1>1 DEF vars
<1>4. Submittable(t)
  BY <1>1, <1>2, <1>3, OnlyFreeSlotsAreQueued DEF IInv
<1> QED
  BY <1>1, <1>4 DEF Submittable

\* Only PollDrained turns a waiting waiter into a drained one.
LEMMA DrainedStepHolds == ASSUME IInv, SnapshotsHaveStarted, [Next]_vars PROVE DrainedStep
<1> SUFFICES ASSUME NEW w \in Waiters, waiter[w].answer = "waiting", waiter'[w].answer = "drained",
                    NEW t \in waiter[w].activeAtStart,
                    command[t].phase \notin Settled,
                    command[t].generation = generation[command[t].lane]
             PROVE  FALSE
  BY DEF DrainedStep
<1>1. /\ waiter \in [Waiters -> Waiter] /\ activeTaskIds \in [Lanes -> SUBSET Tasks]
      /\ command \in [Tasks -> Command] /\ ActiveIsCurrent
  BY DEF IInv, TypeOK
<1>2. t \in Tasks
  BY <1>1 DEF Waiter
<1>3. command[t].phase = "running"
  BY <1>1, <1>2 DEF SnapshotsHaveStarted, Command
<1>4. t \in activeTaskIds[command[t].lane] /\ command[t].lane \in Lanes
  BY <1>1, <1>2, <1>3, CommandLane DEF ActiveIsCurrent
<1>5. PICK v \in Waiters : StartWaiting(v) \/ PollDrained(v) \/ PollTimedOut(v)
  BY DEF Next, vars, Enqueue, EnqueueRefused, SettleCurrent, SettleStale,
         SetCommandLaneConcurrency, ClearCommandLane, MarkGatewayDraining, ResetAllLanes
<1>6. v = w
  BY <1>1, <1>5 DEF StartWaiting, PollDrained, PollTimedOut, Answer
<1>7. ~StillActive(w)
  BY <1>1, <1>5, <1>6 DEF StartWaiting, PollDrained, PollTimedOut, Answer
<1> QED
  BY <1>4, <1>7 DEF StillActive, AllActive

-----------------------------------------------------------------------------
(* The theorems. *)

\* Every variable keeps its type, and a command that waits or runs is always in a lane.
THEOREM TypeCorrect == Spec => []TypeOK
  BY InvariantHolds, PTL DEF IInv

\* A queued command is in exactly one place of exactly one queue, whatever mix of enqueues,
\* completions, clears, limit changes and restarts came before.
THEOREM QueuesConsistent == Spec => []QueueConsistent
  BY InvariantHolds, PTL DEF IInv

\* No completion or reset leaves a ghost id, or an unregistered task of this lifecycle.
THEOREM OccupancyIsCurrent == Spec => []ActiveIsCurrent
  BY InvariantHolds, PTL DEF IInv

\* No lane is ever left with an entry queued beside a free slot.
THEOREM LanesWorkConserving == Spec => []WorkConserving
  BY InvariantHolds, PTL DEF IInv

\* No step that starts a command leaves its lane above the limit in force.
THEOREM LimitsRespected == Spec => StartsWithinLimit
<1>1. IInv /\ [Next]_vars => [LimitStep]_vars
  BY NextKeeps DEF StepOK
<1>2. StartsWithinLimit <=> [][LimitStep]_vars
  BY PTL DEF StartsWithinLimit, LimitStep
<1> QED
  BY InvariantHolds, <1>1, <1>2, PTL DEF Spec

\* Lanes are first in, first out, across clears, limit changes and restarts.
THEOREM LanesAreFIFO == Spec => NoOvertaking
<1>1. IInv /\ [Next]_vars => [OrderStep]_vars
  BY NextKeeps DEF StepOK
<1>2. NoOvertaking <=> [][OrderStep]_vars
  BY PTL DEF NoOvertaking, OrderStep
<1> QED
  BY InvariantHolds, <1>1, <1>2, PTL DEF Spec

\* waitForActiveTasks answers drained only when every task it was waiting for has settled or was
\* disowned by a reset: a slot number is never taken over by a task that has yet to start.
THEOREM DrainIsComplete == Spec => DrainedMeansSettled
<1>1. Init => SnapshotsHaveStarted
  BY DEF Init, SnapshotsHaveStarted
<1>2. IInv /\ IInv' /\ SnapshotsHaveStarted /\ [Next]_vars => SnapshotsHaveStarted'
  BY SnapshotsKeep
<1>3. IInv /\ SnapshotsHaveStarted /\ [Next]_vars => [DrainedStep]_vars
  BY DrainedStepHolds
<1>4. DrainedMeansSettled <=> [][DrainedStep]_vars
  BY PTL DEF DrainedMeansSettled, DrainedStep
<1> QED
  BY InvariantHolds, <1>1, <1>2, <1>3, <1>4, PTL DEF Spec
=============================================================================
