------------------------ MODULE FollowupQueueProofs ------------------------
(***************************************************************************)
(* What is proved of the followup queue, for any messages, objects, cap,   *)
(* modes and drop policies.                                                *)
(*                                                                         *)
(* A step writes its own changes, to queues Q and drains D, and then does  *)
(* the drain's housekeeping (ScheduleDrain, EndDrain, NextIteration) on    *)
(* them.  The inductive invariant is therefore an operator of the queues,  *)
(* the drains and the rest of the state: each step is shown to be sound    *)
(* after its own writes, and the housekeeping to keep what is sound.       *)
(***************************************************************************)
EXTENDS FollowupQueue, FiniteSetTheorems, SequenceTheorems, TLAPS

QueueState == [items : Seq(Messages), draining : BOOLEAN, droppedCount : Nat,
               summaryLines : Seq(Messages), hasLastRun : BOOLEAN,
               mode : Modes, dropPolicy : DropPolicies]
DrainState == [at : {"idle", "debounce", "skipped", "running"}, individually : BOOLEAN,
               kind : {"none", "one", "summary", "batch"}, turn : Seq(Messages),
               summary : BOOLEAN]

\* How many entries the turn of drain d takes off its queue when it succeeds.
Taken(d) == IF d.kind = "batch" THEN Len(d.turn) ELSE 1

-----------------------------------------------------------------------------
(* The invariant, of queues Q, drains D, the registered object R, the phases ph, the recent
   messages rec, the overflow flag over and the number of clears c. *)

Typed(Q, D, R, ph, rec, over) ==
    /\ Q \in [Objects -> QueueState] /\ D \in [Objects -> DrainState]
    /\ R \in Objects \cup {NoQueue}
    /\ ph \in [Messages -> Phases] /\ rec \subseteq Messages /\ over \in BOOLEAN

\* Nothing is longer than the cap, and what was dropped was once enqueued.
Bounded(Q, rec) ==
    \A o \in Objects : /\ Len(Q[o].items) <= Cap /\ Len(Q[o].summaryLines) <= Cap
                       /\ Q[o].droppedCount <= Cardinality(rec)

\* The flag of a queue agrees with its drain, and only a running drain has a turn.
InStep(Q, D) ==
    \A o \in Objects : /\ Q[o].draining = (D[o].at # "idle")
                       /\ D[o].at # "running" => D[o].turn = <<>>
                       /\ D[o].at = "idle" => D[o] = Idle

\* What waits has been enqueued and not yet been settled.
WaitersQueued(Q, ph, rec) ==
    \A o \in Objects : \A i \in DOMAIN Q[o].items :
        Q[o].items[i] \in rec /\ ph[Q[o].items[i]] = "queued"

TurnsEnqueued(D, rec) == \A o \in Objects : \A i \in DOMAIN D[o].turn : D[o].turn[i] \in rec

Once(Q) ==
    \A o, p \in Objects : \A i \in DOMAIN Q[o].items, j \in DOMAIN Q[p].items :
        Q[o].items[i] = Q[p].items[j] => o = p /\ i = j

\* A message of a running turn that still waits does so where the turn came from, among the
\* entries that the turn's success takes off.
TurnsAhead(Q, D) ==
    \A o, p \in Objects : \A i \in DOMAIN D[o].turn, j \in DOMAIN Q[p].items :
        D[o].turn[i] = Q[p].items[j] => p = o /\ j <= Taken(D[o])

\* Without a /stop, only the registered object is in use.
OnlyRegistered(Q, D, R, c) ==
    c = 0 => \A o \in Objects : Q[o].items # <<>> \/ D[o] # Idle => o = R

\* The entries that drain d takes off q are messages of its turn.
TakesItsTurn(q, d) ==
    Taken(d) <= Len(q.items) /\ \A j \in 1..Taken(d) : \E i \in DOMAIN d.turn : q.items[j] = d.turn[i]

\* Until an overflow a running turn takes off no message but its own, or runs for a queue that
\* was cleared.
NothingSpilled(Q, D, R, ph, over) ==
    ~over => /\ \A o \in Objects :
                   /\ Q[o].droppedCount = 0
                   /\ D[o].at = "running" => /\ D[o].kind # "summary"
                                             /\ TakesItsTurn(Q[o], D[o]) \/ (o # R /\ Q[o].items = <<>>)
             /\ \A m \in Messages : ph[m] = "queued" =>
                   \E o \in Objects : \E i \in DOMAIN Q[o].items : Q[o].items[i] = m

Sound(Q, D, R, ph, rec, over, c) ==
    /\ Typed(Q, D, R, ph, rec, over)
    /\ Bounded(Q, rec) /\ InStep(Q, D)
    /\ WaitersQueued(Q, ph, rec) /\ TurnsEnqueued(D, rec)
    /\ Once(Q) /\ TurnsAhead(Q, D)
    /\ OnlyRegistered(Q, D, R, c) /\ NothingSpilled(Q, D, R, ph, over)

IInv == /\ Sound(queue, drain, registered, phase, recent, overflowed, clears)
        /\ hasCallback \in BOOLEAN /\ clears \in 0..MaxClears
-----------------------------------------------------------------------------
(* Sequences and records. *)

LEMMA NewQueueType == NewQueue \in QueueState /\ Idle \in DrainState /\ Empty(NewQueue)
<1>1. /\ (CHOOSE m \in Modes : TRUE) \in Modes
      /\ (CHOOSE p \in DropPolicies : TRUE) \in DropPolicies
  BY FollowupQueueAssumption
<1>2. <<>> \in Seq(Messages)
  BY EmptySeq
<1> QED  BY <1>1, <1>2 DEF NewQueue, Idle, QueueState, DrainState, Empty

LEMMA InRange ==
    ASSUME NEW s \in Seq(Messages), NEW m
    PROVE  m \in Range(s) <=> \E i \in DOMAIN s : s[i] = m
BY DEF Range

\* What remains of a sequence without its first n elements.
LEMMA Remainder ==
    ASSUME NEW s \in Seq(Messages), NEW n \in Nat
    PROVE  LET r == SubSeq(s, n + 1, Len(s))
           IN  /\ r \in Seq(Messages)
               /\ Len(r) = (IF n <= Len(s) THEN Len(s) - n ELSE 0)
               /\ \A i \in DOMAIN r : n + i \in DOMAIN s /\ r[i] = s[n + i]
<1> DEFINE r == SubSeq(s, n + 1, Len(s))
<1>1. Len(s) \in Nat /\ n + 1 \in Int /\ DOMAIN s = 1..Len(s)
  BY LenProperties
<1>2. \A i \in (n + 1)..Len(s) : s[i] \in Messages
  BY <1>1, LenProperties, ElementOfSeq
<1>3. /\ r \in Seq(Messages) /\ Len(r) = IF n + 1 <= Len(s) THEN Len(s) - (n + 1) + 1 ELSE 0
      /\ \A i \in 1..(Len(s) - (n + 1) + 1) : r[i] = s[n + 1 + i - 1]
  BY <1>1, <1>2, SubSeqProperties
<1>4. DOMAIN r = 1..Len(r)
  BY <1>3, LenProperties
<1> HIDE DEF r
<1>5. ASSUME NEW i \in DOMAIN r PROVE n + i \in DOMAIN s /\ r[i] = s[n + i]
  <2>0. i \in 1..Len(r)
    BY <1>4
  <2>1. n + 1 <= Len(s)
    <3>1. Len(r) # 0
      BY <2>0
    <3> QED  BY <1>3, <3>1
  <2>2. Len(r) = Len(s) - n
    BY <1>1, <1>3, <2>1
  <2>3. i \in Int /\ 1 <= i /\ i <= Len(s) - n
    BY <1>1, <1>4, <1>5, <2>2
  <2>4. i \in 1..(Len(s) - (n + 1) + 1) /\ n + 1 + i - 1 = n + i /\ n + i \in 1..Len(s)
    BY <1>1, <2>3
  <2> QED  BY <2>4, <1>1, <1>3
<1> QED  BY <1>1, <1>3, <1>5 DEF r

\* The fields of a queue and of a drain.
LEMMA QueueFields ==
    ASSUME NEW q \in QueueState
    PROVE  /\ q.items \in Seq(Messages) /\ q.draining \in BOOLEAN /\ q.droppedCount \in Nat
           /\ q.summaryLines \in Seq(Messages) /\ Len(q.items) \in Nat /\ DOMAIN q.items = 1..Len(q.items)
           /\ (q.items = <<>> <=> Len(q.items) = 0)
           /\ Len(q.summaryLines) \in Nat
<1>1. q.items \in Seq(Messages) /\ q.summaryLines \in Seq(Messages)
      /\ q.draining \in BOOLEAN /\ q.droppedCount \in Nat
  BY DEF QueueState
<1> QED  BY <1>1, LenProperties, EmptySeq

LEMMA DrainFields ==
    ASSUME NEW d \in DrainState
    PROVE  /\ d.at \in {"idle", "debounce", "skipped", "running"} /\ d.individually \in BOOLEAN
           /\ d.turn \in Seq(Messages) /\ Len(d.turn) \in Nat /\ DOMAIN d.turn = 1..Len(d.turn)
           /\ Taken(d) \in Nat
<1>1. /\ d.at \in {"idle", "debounce", "skipped", "running"} /\ d.individually \in BOOLEAN
      /\ d.turn \in Seq(Messages)
  BY DEF DrainState
<1> QED  BY <1>1, LenProperties DEF Taken

-----------------------------------------------------------------------------
(* Housekeeping keeps what is sound. *)

\* Queues and drains P, E are Q, D but for flags, what is left of the summary and drains without
\* a turn.
Alike(Q, D, P, E) ==
    \A o \in Objects : /\ P[o].items = Q[o].items /\ P[o].droppedCount \in {0, Q[o].droppedCount}
                       /\ Len(P[o].summaryLines) <= Cap
                       /\ E[o] = D[o] \/ (E[o].at # "running" /\ E[o].turn = <<>>)

\* An object with drain E that comes to be registered, as S in place of R, runs no turn.
NoTakeover(E, R, S) == \A o \in Objects : o = S => o = R \/ E[o].at # "running"

LEMMA AlikeIsSound ==
    ASSUME NEW Q, NEW D, NEW R, NEW ph, NEW rec, NEW over, NEW c,
           Sound(Q, D, R, ph, rec, over, c),
           NEW P, NEW E, NEW S,
           Typed(P, E, S, ph, rec, over), Alike(Q, D, P, E), InStep(P, E),
           OnlyRegistered(P, E, S, c), NoTakeover(E, R, S)
    PROVE  Sound(P, E, S, ph, rec, over, c)
<1>1. \A o \in Objects : P[o].items = Q[o].items /\ P[o].droppedCount \in {0, Q[o].droppedCount}
  BY DEF Alike
<1>8. rec \in SUBSET Messages
  BY DEF Typed
<1>9. Cardinality(rec) \in Nat
  BY <1>8, FollowupQueueAssumption, FS_Subset, FS_CardinalityType
<1>2. \A o \in Objects : \A i \in DOMAIN E[o].turn : i \in DOMAIN D[o].turn /\ E[o] = D[o]
  BY DEF Alike
<1>3. Bounded(P, rec)
  BY <1>1, <1>9 DEF Alike, Sound, Bounded
<1>4. WaitersQueued(P, ph, rec) /\ Once(P)
  BY <1>1 DEF Sound, WaitersQueued, Once
<1>5. TurnsEnqueued(E, rec)
  BY <1>2 DEF Sound, TurnsEnqueued
<1>6. TurnsAhead(P, E)
  BY <1>1, <1>2 DEF Sound, TurnsAhead
<1>7. NothingSpilled(P, E, S, ph, over)
  <2> SUFFICES ASSUME ~over PROVE NothingSpilled(P, E, S, ph, FALSE)
    BY DEF NothingSpilled
  <2>1. ASSUME NEW o \in Objects, E[o].at = "running"
        PROVE  /\ E[o].kind # "summary"
               /\ TakesItsTurn(P[o], E[o]) \/ (o # S /\ P[o].items = <<>>)
    <3>1. E[o] = D[o]
      BY <2>1 DEF Alike
    <3>2. o = S => o = R
      BY <2>1 DEF NoTakeover
    <3> QED  BY <1>1, <2>1, <3>1, <3>2 DEF Sound, NothingSpilled, TakesItsTurn
  <2>2. \A o \in Objects : P[o].droppedCount = 0
    BY <1>1 DEF Sound, NothingSpilled
  <2>3. \A m \in Messages : ph[m] = "queued" =>
            \E o \in Objects : \E i \in DOMAIN P[o].items : P[o].items[i] = m
    BY <1>1 DEF Sound, NothingSpilled
  <2> QED  BY <2>1, <2>2, <2>3 DEF NothingSpilled
<1> QED  BY <1>3, <1>4, <1>5, <1>6, <1>7 DEF Sound

\* The drain that has finished an iteration.
Pausing(d) == [Idle EXCEPT !.at = "debounce", !.individually = d.individually]

\* A drain whose turn is over, or has not begun, may go on without it.
LEMMA LettingGoIsSound ==
    ASSUME NEW Q, NEW D, NEW R, NEW ph, NEW rec, NEW over, NEW c,
           Sound(Q, D, R, ph, rec, over, c),
           NEW o \in Objects, D[o].at # "idle",
           NEW d \in DrainState, d.at \in {"debounce", "skipped"}, d.turn = <<>>
    PROVE  Sound(Q, [D EXCEPT ![o] = d], R, ph, rec, over, c)
<1> DEFINE E == [D EXCEPT ![o] = d]
<1>1. /\ E \in [Objects -> DrainState] /\ E[o] = d
      /\ \A p \in Objects \ {o} : E[p] = D[p]
  BY DEF Sound, Typed
<1> HIDE DEF E
<1>2. Typed(Q, E, R, ph, rec, over)
  BY <1>1 DEF Sound, Typed
<1>3. Alike(Q, D, Q, E)
  BY <1>1 DEF Alike, Sound, Bounded
<1>4. InStep(Q, E)
  BY <1>1 DEF InStep, Sound
<1>5. D[o] # Idle
  BY DEF Idle
<1>6. OnlyRegistered(Q, E, R, c)
  BY <1>1, <1>5 DEF Sound, OnlyRegistered
<1>7. NoTakeover(E, R, R)
  BY DEF NoTakeover
<1> QED  BY <1>2, <1>3, <1>4, <1>6, <1>7, AlikeIsSound DEF E

LEMMA PausingFields ==
    ASSUME NEW d \in DrainState
    PROVE  Pausing(d) \in DrainState /\ Pausing(d).at = "debounce" /\ Pausing(d).turn = <<>>
<1>1. Idle \in DrainState /\ d.individually \in BOOLEAN
  BY NewQueueType, DrainFields
<1> QED  BY <1>1 DEF Pausing, Idle, DrainState

LEMMA ScheduleDrainIsSound ==
    ASSUME NEW Q, NEW D, NEW R, NEW ph, NEW rec, NEW over, NEW c,
           Sound(Q, D, R, ph, rec, over, c), hasCallback \in BOOLEAN, ScheduleDrain(Q, D, R)
    PROVE  Sound(queue', drain', registered', ph, rec, over, c) /\ hasCallback' \in BOOLEAN
<1> DEFINE begins == R # NoQueue /\ ~Q[R].draining
           works  == begins /\ ~Empty(Q[R])
           ready  == [Idle EXCEPT !.at = "debounce"]
<1>0. /\ Q \in [Objects -> QueueState] /\ D \in [Objects -> DrainState]
      /\ R \in Objects \cup {NoQueue}
  BY DEF Sound, Typed
<1>1. hasCallback' \in BOOLEAN
  BY DEF ScheduleDrain
<1>2. CASE ~begins
  <2>1. queue' = Q /\ drain' = D /\ registered' = R
    BY <1>2 DEF ScheduleDrain
  <2> QED  BY <1>1, <2>1
<1>3. CASE works
  <2>0. R \in Objects
    BY <1>0, <1>3
  <2>1. /\ queue' = [Q EXCEPT ![R].draining = TRUE] /\ drain' = [D EXCEPT ![R] = ready]
        /\ registered' = R
    BY <1>3 DEF ScheduleDrain
  <2>2. ready \in DrainState /\ ready.at = "debounce" /\ ready.turn = <<>>
    BY EmptySeq DEF Idle, DrainState
  <2> HIDE DEF ready
  <2>3. /\ drain' \in [Objects -> DrainState] /\ drain'[R] = ready
        /\ \A p \in Objects \ {R} : drain'[p] = D[p]
    BY <1>0, <2>0, <2>1, <2>2
  <2>4. [Q[R] EXCEPT !.draining = TRUE] \in QueueState
    BY <1>0, <2>0 DEF QueueState
  <2>5. queue' = [Q EXCEPT ![R] = [Q[R] EXCEPT !.draining = TRUE]]
    BY <2>1
  <2>6. /\ queue' \in [Objects -> QueueState] /\ queue'[R] = [Q[R] EXCEPT !.draining = TRUE]
        /\ \A p \in Objects \ {R} : queue'[p] = Q[p]
    BY <1>0, <2>0, <2>4, <2>5
  <2>7. /\ queue'[R].items = Q[R].items /\ queue'[R].droppedCount = Q[R].droppedCount
        /\ queue'[R].summaryLines = Q[R].summaryLines /\ queue'[R].draining = TRUE
    BY <1>0, <2>0, <2>6 DEF QueueState
  <2>8. Typed(queue', drain', registered', ph, rec, over)
    BY <1>0, <2>1, <2>3, <2>6 DEF Sound, Typed
  <2>9. Alike(Q, D, queue', drain')
    BY <2>2, <2>3, <2>6, <2>7 DEF Alike, Sound, Bounded
  <2>10. InStep(queue', drain')
    <3>1. queue'[R].draining = (drain'[R].at # "idle")
      BY <2>2, <2>3, <2>7
    <3>2. \A p \in Objects \ {R} : queue'[p] = Q[p] /\ drain'[p] = D[p]
      BY <2>3, <2>6
    <3>3. InStep(Q, D) /\ drain'[R].at = "debounce" /\ drain'[R].turn = <<>>
      BY <2>2, <2>3 DEF Sound
    <3> QED  BY <3>1, <3>2, <3>3 DEF InStep
  <2>11. OnlyRegistered(queue', drain', registered', c)
    BY <2>1, <2>3, <2>6, <2>7 DEF Sound, OnlyRegistered
  <2>12. NoTakeover(drain', R, registered')
    BY <2>1 DEF NoTakeover
  <2> QED  BY <1>1, <2>8, <2>9, <2>10, <2>11, <2>12, AlikeIsSound
<1>4. CASE begins /\ ~works
  <2>0. R \in Objects /\ Empty(Q[R])
    BY <1>0, <1>4
  <2>1. queue' = [Q EXCEPT ![R] = NewQueue] /\ drain' = D /\ registered' = NoQueue
    BY <1>4 DEF ScheduleDrain
  <2>2. /\ queue' \in [Objects -> QueueState] /\ queue'[R] = NewQueue
        /\ \A p \in Objects \ {R} : queue'[p] = Q[p]
    BY <1>0, <2>0, <2>1, NewQueueType
  <2>3. /\ NewQueue.items = Q[R].items /\ NewQueue.droppedCount = Q[R].droppedCount
        /\ NewQueue.items = <<>> /\ NewQueue.summaryLines = <<>> /\ NewQueue.draining = FALSE
    BY <2>0 DEF Empty, NewQueue
  <2>4. Len(NewQueue.summaryLines) <= Cap
    BY <2>3, FollowupQueueAssumption, EmptySeq
  <2>5. Q[R].draining = FALSE
    BY <1>4, <1>0, <2>0 DEF QueueState
  <2>6. D[R] = Idle
    BY <2>0, <2>5 DEF Sound, InStep
  <2>7. Typed(queue', drain', registered', ph, rec, over)
    BY <1>0, <2>1, <2>2 DEF Sound, Typed
  <2>8. Alike(Q, D, queue', drain')
    BY <2>1, <2>2, <2>3, <2>4 DEF Alike, Sound, Bounded
  <2>9. InStep(queue', drain')
    BY <2>1, <2>2, <2>3, <2>5 DEF InStep, Sound
  <2>10. OnlyRegistered(queue', drain', registered', c)
    BY <2>1, <2>2, <2>3, <2>6 DEF Sound, OnlyRegistered
  <2>11. NoTakeover(drain', R, registered')
    BY <2>1, FollowupQueueAssumption DEF NoTakeover
  <2> QED  BY <1>1, <2>7, <2>8, <2>9, <2>10, <2>11, AlikeIsSound
<1> QED  BY <1>2, <1>3, <1>4

\* A drain at o ends after an iteration that has left the queues Q.
LEMMA EndDrainIsSound ==
    ASSUME NEW Q, NEW ph, NEW rec, NEW over, NEW c, NEW o \in Objects,
           drain \in [Objects -> DrainState],
           Sound(Q, [drain EXCEPT ![o] = Pausing(drain[o])], registered, ph, rec, over, c),
           hasCallback \in BOOLEAN, EndDrain(o, Q)
    PROVE  Sound(queue', drain', registered', ph, rec, over, c) /\ hasCallback' \in BOOLEAN
<1> DEFINE W == [drain EXCEPT ![o] = Pausing(drain[o])]
           D == [drain EXCEPT ![o] = Idle]
<1>0. Q \in [Objects -> QueueState] /\ registered \in Objects \cup {NoQueue}
  BY DEF Sound, Typed
<1>1. /\ W[o] = Pausing(drain[o]) /\ W[o].at = "debounce" /\ W[o] # Idle
      /\ \A p \in Objects \ {o} : W[p] = drain[p]
  BY PausingFields DEF Idle
<1>2. /\ D \in [Objects -> DrainState] /\ D[o] = Idle
      /\ \A p \in Objects \ {o} : D[p] = drain[p]
  BY NewQueueType
<1>3. Idle.at = "idle" /\ Idle.turn = <<>>
  BY DEF Idle
<1>4. Sound(Q, W, registered, ph, rec, over, c)
  OBVIOUS
<1>5. c = 0 => o = registered /\ \A p \in Objects \ {o} : Q[p].items = <<>> /\ D[p] = Idle
  BY <1>1, <1>2, <1>4 DEF Sound, OnlyRegistered
<1>6. CASE Empty(Q[o])
  <2>1. queue' = [Q EXCEPT ![o] = NewQueue] /\ drain' = D /\ registered' = NoQueue
        /\ hasCallback' = hasCallback
    BY <1>6 DEF EndDrain
  <2> HIDE DEF W, D
  <2>2. /\ queue' \in [Objects -> QueueState] /\ queue'[o] = NewQueue
        /\ \A p \in Objects \ {o} : queue'[p] = Q[p]
    BY <1>0, <2>1, NewQueueType
  <2>3. /\ NewQueue.items = Q[o].items /\ NewQueue.droppedCount = Q[o].droppedCount
        /\ NewQueue.items = <<>> /\ NewQueue.summaryLines = <<>> /\ NewQueue.draining = FALSE
    BY <1>6 DEF Empty, NewQueue
  <2>4. Len(NewQueue.summaryLines) <= Cap
    BY <2>3, FollowupQueueAssumption, EmptySeq
  <2>5. Typed(queue', drain', registered', ph, rec, over)
    BY <1>2, <1>4, <2>1, <2>2 DEF Sound, Typed
  <2>6. Alike(Q, W, queue', drain')
    <3>1. /\ queue'[o].items = Q[o].items /\ queue'[o].droppedCount = Q[o].droppedCount
          /\ Len(queue'[o].summaryLines) <= Cap
          /\ drain'[o].at # "running" /\ drain'[o].turn = <<>>
      BY <1>2, <1>3, <2>1, <2>2, <2>3, <2>4
    <3>2. \A p \in Objects \ {o} : queue'[p] = Q[p] /\ drain'[p] = W[p]
      BY <1>1, <1>2, <2>1, <2>2
    <3>3. \A p \in Objects : Len(Q[p].summaryLines) <= Cap
      BY <1>4 DEF Sound, Bounded
    <3> QED  BY <3>1, <3>2, <3>3 DEF Alike
  <2>7. InStep(queue', drain')
    <3>1. /\ queue'[o].draining = (drain'[o].at # "idle")
          /\ drain'[o] = Idle /\ drain'[o].turn = <<>>
      BY <1>2, <1>3, <2>1, <2>2, <2>3
    <3>2. \A p \in Objects \ {o} : queue'[p] = Q[p] /\ drain'[p] = W[p]
      BY <1>1, <1>2, <2>1, <2>2
    <3>3. InStep(Q, W)
      BY <1>4 DEF Sound
    <3>4. ASSUME NEW p \in Objects \ {o}
          PROVE  /\ queue'[p].draining = (drain'[p].at # "idle")
                 /\ drain'[p].at # "running" => drain'[p].turn = <<>>
                 /\ drain'[p].at = "idle" => drain'[p] = Idle
      BY <3>2, <3>3 DEF InStep
    <3> QED  BY <3>1, <3>4 DEF InStep
  <2>8. OnlyRegistered(queue', drain', registered', c)
    BY <1>2, <1>5, <2>1, <2>2, <2>3 DEF OnlyRegistered
  <2>9. NoTakeover(drain', registered, registered')
    BY <2>1, FollowupQueueAssumption DEF NoTakeover
  <2> QED  BY <1>4, <2>1, <2>5, <2>6, <2>7, <2>8, <2>9, AlikeIsSound
<1>7. CASE ~Empty(Q[o])
  <2> DEFINE P == [Q EXCEPT ![o].draining = FALSE]
  <2>1. ScheduleDrain(P, D, registered)
    BY <1>7 DEF EndDrain
  <2> HIDE DEF W, D
  <2>2. [Q[o] EXCEPT !.draining = FALSE] \in QueueState
    BY <1>0 DEF QueueState
  <2>3. P = [Q EXCEPT ![o] = [Q[o] EXCEPT !.draining = FALSE]]
    OBVIOUS
  <2>4. /\ P \in [Objects -> QueueState] /\ P[o] = [Q[o] EXCEPT !.draining = FALSE]
        /\ \A p \in Objects \ {o} : P[p] = Q[p]
    BY <1>0, <2>2, <2>3
  <2> HIDE DEF P
  <2>5. /\ P[o].items = Q[o].items /\ P[o].droppedCount = Q[o].droppedCount
        /\ P[o].summaryLines = Q[o].summaryLines /\ P[o].draining = FALSE
    BY <1>0, <2>4 DEF QueueState
  <2>6. Typed(P, D, registered, ph, rec, over)
    BY <1>2, <1>4, <2>4 DEF Sound, Typed
  <2>7. Alike(Q, W, P, D)
    BY <1>1, <1>2, <1>3, <1>4, <2>4, <2>5 DEF Alike, Sound, Bounded
  <2>8. InStep(P, D)
    <3>1. P[o].draining = (D[o].at # "idle")
      BY <1>2, <1>3, <2>5
    <3>2. \A p \in Objects \ {o} : P[p] = Q[p] /\ D[p] = W[p]
      BY <1>1, <1>2, <2>4
    <3>3. InStep(Q, W) /\ D[o] = Idle /\ D[o].turn = <<>>
      BY <1>2, <1>3, <1>4 DEF Sound
    <3> QED  BY <3>1, <3>2, <3>3 DEF InStep
  <2>9. OnlyRegistered(P, D, registered, c)
    BY <1>2, <1>5, <2>4 DEF OnlyRegistered
  <2>10. NoTakeover(D, registered, registered)
    BY DEF NoTakeover
  <2>11. Sound(P, D, registered, ph, rec, over, c)
    BY <1>4, <2>6, <2>7, <2>8, <2>9, <2>10, AlikeIsSound
  <2> QED  BY <2>1, <2>11, ScheduleDrainIsSound
<1> QED  BY <1>6, <1>7

LEMMA NextIterationIsSound ==
    ASSUME NEW Q, NEW ph, NEW rec, NEW over, NEW c, NEW o \in Objects,
           drain \in [Objects -> DrainState],
           Sound(Q, [drain EXCEPT ![o] = Pausing(drain[o])], registered, ph, rec, over, c),
           hasCallback \in BOOLEAN, NextIteration(o, Q)
    PROVE  Sound(queue', drain', registered', ph, rec, over, c) /\ hasCallback' \in BOOLEAN
<1>1. CASE Empty(Q[o])
  BY <1>1, EndDrainIsSound DEF NextIteration
<1>2. CASE ~Empty(Q[o])
  BY <1>2 DEF NextIteration, Pausing
<1> QED  BY <1>1, <1>2

\* The drain at o, whatever it has been doing, ends.
LEMMA LeavingIsSound ==
    ASSUME NEW o \in Objects, IInv, drain[o].at # "idle", EndDrain(o, queue)
    PROVE  /\ Sound(queue', drain', registered', phase, recent, overflowed, clears)
           /\ hasCallback' \in BOOLEAN
<1>1. drain \in [Objects -> DrainState]
  BY DEF IInv, Sound, Typed
<1>2. /\ Pausing(drain[o]) \in DrainState /\ Pausing(drain[o]).at \in {"debounce", "skipped"}
      /\ Pausing(drain[o]).turn = <<>>
  BY <1>1, PausingFields
<1>3. Sound(queue, [drain EXCEPT ![o] = Pausing(drain[o])], registered, phase, recent, overflowed, clears)
  BY <1>2, LettingGoIsSound DEF IInv
<1> QED  BY <1>1, <1>3, EndDrainIsSound DEF IInv

-----------------------------------------------------------------------------
(* Messages that are settled without having waited. *)

LEMMA RephasedIsSound ==
    ASSUME NEW Q, NEW D, NEW R, NEW ph, NEW rec, NEW over, NEW c,
           Sound(Q, D, R, ph, rec, over, c),
           NEW m \in Messages, ph[m] # "queued", NEW s \in Phases, s # "queued"
    PROVE  Sound(Q, D, R, [ph EXCEPT ![m] = s], rec, over, c)
<1> DEFINE new == [ph EXCEPT ![m] = s]
<1>1. /\ new \in [Messages -> Phases] /\ new[m] = s
      /\ \A n \in Messages \ {m} : new[n] = ph[n]
  BY DEF Sound, Typed
<1> HIDE DEF new
<1>2. \A n \in Messages : new[n] = "queued" <=> ph[n] = "queued"
  BY <1>1
<1>3. Typed(Q, D, R, new, rec, over)
  BY <1>1 DEF Sound, Typed
<1>4. \A o \in Objects : \A i \in DOMAIN Q[o].items : Q[o].items[i] \in Messages
  <2> TAKE o \in Objects
  <2> TAKE i \in DOMAIN Q[o].items
  <2>1. Q[o].items \in Seq(Messages)
    BY QueueFields DEF Sound, Typed
  <2> QED  BY <2>1, ElementOfSeq, LenProperties
<1>5. WaitersQueued(Q, new, rec)
  BY <1>2, <1>4 DEF Sound, WaitersQueued
<1>6. NothingSpilled(Q, D, R, new, over)
  BY <1>2 DEF Sound, NothingSpilled
<1> QED  BY <1>3, <1>5, <1>6 DEF Sound, new

LEMMA InitIsSound == Init => IInv
<1> SUFFICES ASSUME Init PROVE IInv
  OBVIOUS
<1>1. /\ registered = NoQueue /\ recent = {} /\ clears = 0 /\ overflowed = FALSE
      /\ hasCallback = FALSE /\ phase = [m \in Messages |-> "new"]
      /\ \A o \in Objects : queue[o] = NewQueue /\ drain[o] = Idle
  BY DEF Init
<1>2. /\ NewQueue.items = <<>> /\ NewQueue.summaryLines = <<>> /\ NewQueue.droppedCount = 0
      /\ NewQueue.draining = FALSE /\ Idle.turn = <<>> /\ Idle.at = "idle"
  BY DEF NewQueue, Idle
<1>3. Typed(queue, drain, registered, phase, recent, overflowed)
  BY <1>1, NewQueueType DEF Init, Typed, Phases
<1>4. Cardinality(recent) = 0 /\ Len(NewQueue.items) = 0 /\ Len(NewQueue.summaryLines) = 0
  BY <1>1, <1>2, FS_EmptySet, EmptySeq
<1>5. Bounded(queue, recent)
  BY <1>1, <1>2, <1>4, FollowupQueueAssumption DEF Bounded
<1>6. InStep(queue, drain)
  BY <1>1, <1>2 DEF InStep
<1>7. \A o \in Objects : DOMAIN queue[o].items = {} /\ DOMAIN drain[o].turn = {}
  BY <1>1, <1>2
<1>8. /\ WaitersQueued(queue, phase, recent) /\ TurnsEnqueued(drain, recent) /\ Once(queue)
      /\ TurnsAhead(queue, drain)
  BY <1>7 DEF WaitersQueued, TurnsEnqueued, Once, TurnsAhead
<1>9. OnlyRegistered(queue, drain, registered, clears)
  BY <1>1, <1>2 DEF OnlyRegistered
<1>10. NothingSpilled(queue, drain, registered, phase, overflowed)
  BY <1>1, <1>2 DEF NothingSpilled
<1>11. clears \in 0..MaxClears /\ hasCallback \in BOOLEAN
  <2>1. MaxClears \in Nat
    BY FollowupQueueAssumption
  <2>2. clears \in 0..MaxClears
    BY <1>1, <2>1
  <2>3. hasCallback \in BOOLEAN
    BY <1>1
  <2> QED  BY <2>2, <2>3
<1>12. Sound(queue, drain, registered, phase, recent, overflowed, clears)
  BY <1>3, <1>5, <1>6, <1>8, <1>9, <1>10 DEF Sound
<1> QED  BY <1>11, <1>12 DEF IInv

\* The message's own run.
LEMMA OwnRunIsSound ==
    ASSUME NEW m \in Messages, IInv,
           OwnRunStarts(m) \/ OwnRunEnds(m) \/ Finalize(m) \/ SeesActiveRun(m)
    PROVE  IInv'
<1>1. \A s \in {"active", "ending", "ownTurn", "checked"} : s \in Phases /\ s # "queued"
  BY DEF Phases
<1>2. PICK s \in {"active", "ending", "ownTurn", "checked"} :
          phase[m] # "queued" /\ phase' = [phase EXCEPT ![m] = s]
  BY DEF OwnRunStarts, OwnRunEnds, Finalize, SeesActiveRun
<1>3. Sound(queue, drain, registered, phase', recent, overflowed, clears)
  BY <1>1, <1>2, RephasedIsSound DEF IInv
<1>4. recent' = recent /\ clears' = clears /\ overflowed' = overflowed
  BY DEF OwnRunStarts, OwnRunEnds, Finalize, SeesActiveRun
<1>5. CASE Finalize(m)
  <2>1. ScheduleDrain(queue, drain, registered) /\ hasCallback \in BOOLEAN
    BY <1>5 DEF Finalize, IInv
  <2>2. /\ Sound(queue', drain', registered', phase', recent, overflowed, clears)
        /\ hasCallback' \in BOOLEAN
    BY <1>3, <2>1, ScheduleDrainIsSound
  <2> QED  BY <1>4, <2>2 DEF IInv
<1>6. CASE OwnRunStarts(m) \/ OwnRunEnds(m) \/ SeesActiveRun(m)
  <2>1. UNCHANGED <<registered, queue, drain, hasCallback>>
    BY <1>6 DEF OwnRunStarts, OwnRunEnds, SeesActiveRun
  <2> QED  BY <1>3, <1>4, <2>1 DEF IInv
<1> QED  BY <1>5, <1>6

-----------------------------------------------------------------------------
(* Clearing. *)

LEMMA ClearIsSound ==
    ASSUME IInv, ClearSessionQueues
    PROVE  IInv'
<1> DEFINE R == registered
           cleared == [queue[R] EXCEPT !.items = <<>>, !.droppedCount = 0, !.summaryLines = <<>>,
                                       !.hasLastRun = FALSE]
<1>0. Sound(queue, drain, R, phase, recent, overflowed, clears)
  BY DEF IInv
<1>1. /\ clears' \in 0..MaxClears /\ clears' # 0 /\ hasCallback' = FALSE /\ registered' = NoQueue
      /\ drain' = drain /\ recent' = recent /\ overflowed' = overflowed
  BY FollowupQueueAssumption DEF ClearSessionQueues, IInv
<1>2. \A o \in Objects : o # NoQueue
  BY FollowupQueueAssumption
<1>3. OnlyRegistered(queue', drain', registered', clears')
  BY <1>1 DEF OnlyRegistered
<1>4. CASE R = NoQueue
  <2>1. queue' = queue /\ phase' = phase
    BY <1>4 DEF ClearSessionQueues
  <2> QED  BY <1>0, <1>1, <1>3, <1>4, <2>1 DEF IInv, Sound
<1>5. CASE R # NoQueue
  <2>0. R \in Objects /\ queue \in [Objects -> QueueState] /\ phase \in [Messages -> Phases]
    BY <1>0, <1>5 DEF Sound, Typed
  <2>1. /\ queue' = [queue EXCEPT ![R] = cleared]
        /\ phase' = [m \in Messages |-> IF m \in Range(queue[R].items) THEN "cleared" ELSE phase[m]]
    BY <1>5 DEF ClearSessionQueues
  <2>2. /\ cleared \in QueueState /\ cleared.items = <<>> /\ cleared.droppedCount = 0
        /\ cleared.summaryLines = <<>> /\ cleared.draining = queue[R].draining
    BY <2>0, EmptySeq DEF QueueState
  <2> HIDE DEF cleared
  <2>3. /\ queue' \in [Objects -> QueueState] /\ queue'[R] = cleared
        /\ \A p \in Objects \ {R} : queue'[p] = queue[p]
    BY <2>0, <2>1, <2>2
  <2>4. queue[R].items \in Seq(Messages)
    BY <2>0, QueueFields
  <2>5. phase' \in [Messages -> Phases]
    BY <2>0, <2>1 DEF Phases
  <2>6. \A m \in Messages : ~(\E i \in DOMAIN queue[R].items : queue[R].items[i] = m) => phase'[m] = phase[m]
    BY <2>1, <2>4, InRange
  <2>7. \A m \in Messages : phase'[m] = "queued" =>
            phase[m] = "queued" /\ ~\E i \in DOMAIN queue[R].items : queue[R].items[i] = m
    BY <2>1, <2>4, InRange
  <2>8. Typed(queue', drain', registered', phase', recent', overflowed')
    BY <1>0, <1>1, <2>3, <2>5 DEF Sound, Typed
  <2>9. Cardinality(recent) \in Nat /\ Len(cleared.items) = 0 /\ Len(cleared.summaryLines) = 0
    <3>1. recent \in SUBSET Messages
      BY <1>0 DEF Sound, Typed
    <3> QED  BY <2>2, <3>1, EmptySeq, FollowupQueueAssumption, FS_Subset, FS_CardinalityType
  <2>10. Bounded(queue', recent')
    BY <1>0, <1>1, <2>2, <2>3, <2>9, FollowupQueueAssumption DEF Sound, Bounded
  <2>11. InStep(queue', drain')
    <3>1. InStep(queue, drain) /\ queue'[R].draining = queue[R].draining
      BY <1>0, <2>2, <2>3 DEF Sound
    <3> QED  BY <1>1, <2>3, <3>1 DEF InStep
  <2>12. DOMAIN queue'[R].items = {}
    BY <2>2, <2>3
  <2>13. WaitersQueued(queue', phase', recent')
    <3> SUFFICES ASSUME NEW o \in Objects, NEW i \in DOMAIN queue'[o].items
                 PROVE  queue'[o].items[i] \in recent' /\ phase'[queue'[o].items[i]] = "queued"
      BY DEF WaitersQueued
    <3> DEFINE m == queue[o].items[i]
    <3>1. o # R /\ queue'[o] = queue[o]
      BY <2>3, <2>12
    <3>2. m \in recent /\ phase[m] = "queued"
      BY <1>0, <3>1 DEF Sound, WaitersQueued
    <3>3. ~\E j \in DOMAIN queue[R].items : queue[R].items[j] = m
      BY <1>0, <2>0, <3>1 DEF Sound, Once
    <3>4. m \in Messages
      BY <1>0, <3>2 DEF Sound, Typed
    <3>5. phase'[m] = "queued"
      BY <2>6, <3>2, <3>3, <3>4
    <3> QED  BY <1>1, <3>1, <3>2, <3>5
  <2>14. TurnsEnqueued(drain', recent')
    BY <1>0, <1>1 DEF Sound, TurnsEnqueued
  <2>15. Once(queue')
    BY <1>0, <2>3, <2>12 DEF Sound, Once
  <2>16. TurnsAhead(queue', drain')
    BY <1>0, <1>1, <2>3, <2>12 DEF Sound, TurnsAhead
  <2>17. NothingSpilled(queue', drain', registered', phase', overflowed')
    <3> SUFFICES ASSUME ~overflowed
                 PROVE  NothingSpilled(queue', drain, NoQueue, phase', FALSE)
      BY <1>1 DEF NothingSpilled
    <3>1. \A o \in Objects : /\ queue[o].droppedCount = 0
                             /\ drain[o].at = "running" =>
                                  /\ drain[o].kind # "summary"
                                  /\ TakesItsTurn(queue[o], drain[o]) \/ (o # R /\ queue[o].items = <<>>)
      BY <1>0 DEF Sound, NothingSpilled
    <3>2. ASSUME NEW o \in Objects
          PROVE  /\ queue'[o].droppedCount = 0
                 /\ drain[o].at = "running" =>
                      /\ drain[o].kind # "summary"
                      /\ TakesItsTurn(queue'[o], drain[o]) \/ (o # NoQueue /\ queue'[o].items = <<>>)
      <4>1. CASE o = R
        BY <1>2, <2>2, <2>3, <3>1, <4>1
      <4>2. CASE o # R
        BY <1>2, <2>3, <3>1, <4>2
      <4> QED  BY <4>1, <4>2
    <3>3. \A m \in Messages : phase'[m] = "queued" =>
              \E o \in Objects : \E i \in DOMAIN queue'[o].items : queue'[o].items[i] = m
      <4> SUFFICES ASSUME NEW m \in Messages, phase'[m] = "queued"
                   PROVE  \E o \in Objects : \E i \in DOMAIN queue'[o].items : queue'[o].items[i] = m
        OBVIOUS
      <4>1. PICK o \in Objects : \E i \in DOMAIN queue[o].items : queue[o].items[i] = m
        BY <1>0, <2>7 DEF Sound, NothingSpilled
      <4>2. o # R
        BY <2>7, <4>1
      <4> QED  BY <2>3, <4>1, <4>2
    <3> QED  BY <3>2, <3>3 DEF NothingSpilled
  <2> QED  BY <1>1, <1>3, <2>8, <2>10, <2>11, <2>13, <2>14, <2>15, <2>16, <2>17 DEF IInv, Sound
<1> QED  BY <1>4, <1>5

-----------------------------------------------------------------------------
(* Enqueueing. *)

\* The settings of the message are applied to the registered object, or to a new one.
LEMMA ConfiguringIsSound ==
    ASSUME NEW mode \in Modes, NEW policy \in DropPolicies, IInv,
           registered # NoQueue \/ \E p \in Objects : Fresh(p)
    PROVE  LET q == Configured(mode, policy)
           IN  /\ Current \in Objects /\ q \in QueueState
               /\ Sound([queue EXCEPT ![Current] = q], drain, Current, phase, recent, overflowed, clears)
<1> DEFINE q == Configured(mode, policy)
           o == Current
           P == [queue EXCEPT ![o] = q]
<1>0. /\ Sound(queue, drain, registered, phase, recent, overflowed, clears)
      /\ queue \in [Objects -> QueueState] /\ drain \in [Objects -> DrainState]
      /\ registered \in Objects \cup {NoQueue}
  BY DEF IInv, Sound, Typed
<1>1. /\ o \in Objects /\ q \in QueueState
      /\ q.items = queue[o].items /\ q.droppedCount \in {0, queue[o].droppedCount}
      /\ Len(q.summaryLines) <= Cap /\ q.draining = queue[o].draining
      /\ o = registered \/ (registered = NoQueue /\ drain[o] = Idle)
  <2>1. CASE registered # NoQueue
    <3>1. o = registered /\ q = [queue[o] EXCEPT !.mode = mode, !.dropPolicy = policy] /\ o \in Objects
      BY <1>0, <2>1 DEF Configured, Current
    <3>2. /\ q \in QueueState /\ q.items = queue[o].items /\ q.droppedCount = queue[o].droppedCount
          /\ q.summaryLines = queue[o].summaryLines /\ q.draining = queue[o].draining
      <4>1. queue[o] \in QueueState
        BY <1>0, <3>1
      <4> HIDE DEF q, o
      <4> QED  BY <3>1, <4>1 DEF QueueState
    <3>3. Len(queue[o].summaryLines) <= Cap
      BY <1>0, <3>1 DEF Sound, Bounded
    <3> QED  BY <3>1, <3>2, <3>3
  <2>2. CASE registered = NoQueue
    <3>1. o \in Objects /\ Fresh(o)
      BY <2>2 DEF Current
    <3>2. queue[o].items = <<>> /\ drain[o] = Idle /\ ~queue[o].draining
      <4>1. queue[o].items = <<>> /\ drain[o] = Idle /\ drain[o].at = "idle"
        BY <3>1 DEF Fresh, Idle
      <4>2. queue[o].draining = (drain[o].at # "idle")
        BY <1>0, <3>1 DEF Sound, InStep
      <4> QED  BY <4>1, <4>2
    <3>3. q = [NewQueue EXCEPT !.mode = mode, !.dropPolicy = policy]
      BY <2>2 DEF Configured
    <3>4. /\ q \in QueueState /\ q.items = <<>> /\ q.droppedCount = 0
          /\ q.summaryLines = <<>> /\ q.draining = FALSE
      <4>1. /\ NewQueue.items = <<>> /\ NewQueue.droppedCount = 0 /\ NewQueue.summaryLines = <<>>
            /\ NewQueue.draining = FALSE
        BY DEF NewQueue
      <4> HIDE DEF q
      <4> QED  BY <3>3, <4>1, NewQueueType DEF QueueState
    <3>5. Len(q.summaryLines) <= Cap
      BY <3>4, FollowupQueueAssumption, EmptySeq
    <3>6. queue[o].draining = FALSE
      BY <1>0, <3>1, <3>2, QueueFields
    <3> QED  BY <2>2, <3>1, <3>2, <3>4, <3>5, <3>6
  <2> QED  BY <2>1, <2>2
<1> HIDE DEF q, o
<1>2. P \in [Objects -> QueueState] /\ P[o] = q /\ \A p \in Objects \ {o} : P[p] = queue[p]
  BY <1>0, <1>1
<1> HIDE DEF P
<1>3. Typed(P, drain, o, phase, recent, overflowed)
  BY <1>0, <1>1, <1>2 DEF Sound, Typed
<1>4. Alike(queue, drain, P, drain)
  BY <1>0, <1>1, <1>2 DEF Alike, Sound, Bounded
<1>5. InStep(P, drain)
  BY <1>0, <1>1, <1>2 DEF Sound, InStep
<1>6. OnlyRegistered(P, drain, o, clears)
  BY <1>0, <1>1, <1>2, FollowupQueueAssumption DEF Sound, OnlyRegistered
<1>7. NoTakeover(drain, registered, o)
  BY <1>1 DEF NoTakeover, Idle
<1>8. Sound(P, drain, o, phase, recent, overflowed, clears)
  BY <1>0, <1>3, <1>4, <1>5, <1>6, <1>7, AlikeIsSound
<1> QED  BY <1>1, <1>8 DEF P, o, q

\* What the drop policy makes of queue q: its first k messages are gone, at most one.
Shortened(q, a, k) ==
    /\ a \in QueueState /\ a.draining = q.draining
    /\ k \in {0, 1} /\ Len(a.items) = Len(q.items) - k /\ Len(a.items) < Cap
    /\ \A i \in DOMAIN a.items : k + i \in DOMAIN q.items /\ a.items[i] = q.items[k + i]
    /\ Len(a.summaryLines) <= Cap /\ a.droppedCount <= q.droppedCount + 1
    /\ k = 0 => a = q
    /\ k # 0 => a.items # q.items

LEMMA KeepLastType ==
    ASSUME NEW s \in Seq(Messages), NEW n \in Nat
    PROVE  KeepLast(s, n) \in Seq(Messages) /\ Len(KeepLast(s, n)) <= n
<1>1. Len(s) \in Nat
  BY LenProperties
<1>2. CASE Len(s) <= n
  BY <1>2 DEF KeepLast
<1>3. CASE Len(s) > n
  <2> DEFINE k == Len(s) - n
  <2>1. k \in Nat /\ k <= Len(s) /\ Len(s) - k = n
    BY <1>1, <1>3
  <2>2. KeepLast(s, n) = SubSeq(s, k + 1, Len(s))
    BY <1>1, <1>3 DEF KeepLast
  <2> HIDE DEF k
  <2>3. SubSeq(s, k + 1, Len(s)) \in Seq(Messages) /\ Len(SubSeq(s, k + 1, Len(s))) = n
    BY <2>1, Remainder
  <2> QED  BY <2>2, <2>3
<1> QED  BY <1>1, <1>2, <1>3

LEMMA ApplyDropPolicyShortens ==
    ASSUME NEW q \in QueueState, Len(q.items) <= Cap, Len(q.summaryLines) <= Cap
    PROVE  \E k \in {0, 1} : Shortened(q, ApplyDropPolicy(q), k)
<1> DEFINE a == ApplyDropPolicy(q)
<1>0. Cap \in Nat /\ Cap > 0
  BY FollowupQueueAssumption
<1>1. /\ q.items \in Seq(Messages) /\ Len(q.items) \in Nat /\ DOMAIN q.items = 1..Len(q.items)
      /\ q.summaryLines \in Seq(Messages) /\ q.droppedCount \in Nat
  BY QueueFields
<1>2. CASE Len(q.items) < Cap
  <2>1. a = q
    BY <1>2 DEF ApplyDropPolicy
  <2>2. \A i \in DOMAIN q.items : 0 + i = i
    BY <1>1
  <2> HIDE DEF a
  <2> QED  BY <1>0, <1>1, <1>2, <2>1, <2>2 DEF Shortened, a
<1>3. CASE Len(q.items) >= Cap
  <2> DEFINE n == Len(q.items) - Cap + 1
             dropped == SubSeq(q.items, 1, n)
             kept == SubSeq(q.items, 1 + 1, Len(q.items))
             lines == KeepLast(q.summaryLines \o dropped, Cap)
  <2>1. n = 1 /\ n + 1 = 1 + 1 /\ Len(q.items) = Cap
    BY <1>0, <1>1, <1>3
  <2>2. /\ kept \in Seq(Messages) /\ Len(kept) = Len(q.items) - 1
        /\ \A i \in DOMAIN kept : 1 + i \in DOMAIN q.items /\ kept[i] = q.items[1 + i]
    <3>1. 1 \in Nat /\ 1 <= Len(q.items)
      BY <1>0, <1>3, <1>1
    <3> HIDE DEF n
    <3> QED  BY <1>1, <3>1, Remainder
  <2>3. dropped \in Seq(Messages)
    <3>1. \A i \in 1..n : q.items[i] \in Messages
      BY <1>0, <1>1, <2>1, ElementOfSeq
    <3>2. 1 \in Int /\ n \in Int
      BY <2>1
    <3> HIDE DEF n
    <3> QED  BY <3>1, <3>2, SubSeqProperties
  <2> HIDE DEF dropped
  <2>4. lines \in Seq(Messages) /\ Len(lines) <= Cap
    <3>1. q.summaryLines \o dropped \in Seq(Messages)
      BY <1>1, <2>3, ConcatProperties
    <3> QED  BY <1>0, <3>1, KeepLastType
  <2>5. /\ q.dropPolicy = "summarize" =>
              a = [q EXCEPT !.items = kept, !.droppedCount = @ + 1, !.summaryLines = lines]
        /\ q.dropPolicy # "summarize" => a = [q EXCEPT !.items = kept]
    <3>1. ~(Len(q.items) < Cap) /\ SubSeq(q.items, n + 1, Len(q.items)) = kept
      BY <1>0, <1>1, <1>3, <2>1
    <3>2. q.droppedCount + n = q.droppedCount + 1
      BY <2>1
    <3> HIDE DEF n, kept
    <3> QED  BY <3>1, <3>2 DEF ApplyDropPolicy, dropped, n
  <2> HIDE DEF a, kept, lines, n
  <2>6. /\ a \in QueueState /\ a.items = kept /\ a.draining = q.draining
        /\ a.droppedCount \in {q.droppedCount, q.droppedCount + 1}
        /\ a.summaryLines \in {q.summaryLines, lines}
    <3>1. CASE q.dropPolicy = "summarize"
      <4>1. a = [q EXCEPT !.items = kept, !.droppedCount = @ + 1, !.summaryLines = lines]
        BY <2>5, <3>1
      <4>2. q.droppedCount + 1 \in Nat
        BY <1>1
      <4> QED  BY <2>2, <2>4, <4>1, <4>2 DEF QueueState
    <3>2. CASE q.dropPolicy # "summarize"
      <4>1. a = [q EXCEPT !.items = kept]
        BY <2>5, <3>2
      <4> QED  BY <2>2, <4>1 DEF QueueState
    <3> QED  BY <3>1, <3>2
  <2>7. Len(kept) < Cap /\ kept # q.items
    BY <1>1, <2>1, <2>2
  <2>8. a.droppedCount <= q.droppedCount + 1
    BY <1>1, <2>6
  <2>9. Len(a.summaryLines) <= Cap
    BY <2>4, <2>6
  <2>10. Shortened(q, a, 1)
    BY <2>2, <2>6, <2>7, <2>8, <2>9 DEF Shortened
  <2> QED  BY <2>10 DEF a
<1> QED  BY <1>0, <1>1, <1>2, <1>3

\* The queue after the message m was pushed.
Pushed(a, m) == [a EXCEPT !.items = Append(@, m), !.hasLastRun = TRUE]

LEMMA PushedFields ==
    ASSUME NEW q \in QueueState, NEW a, NEW k, Shortened(q, a, k), NEW m \in Messages
    PROVE  LET b == Pushed(a, m)
               n == Len(q.items) - k + 1
           IN  /\ b \in QueueState /\ b.draining = q.draining /\ b.droppedCount = a.droppedCount
               /\ b.summaryLines = a.summaryLines
               /\ n \in Nat /\ Len(b.items) = n /\ DOMAIN b.items = 1..n /\ n <= Cap
               /\ n \in DOMAIN b.items /\ b.items[n] = m
               /\ \A i \in DOMAIN b.items : i # n =>
                     /\ i \in DOMAIN a.items /\ b.items[i] = a.items[i]
                     /\ k + i \in DOMAIN q.items /\ b.items[i] = q.items[k + i]
<1> DEFINE b == Pushed(a, m)
           n == Len(q.items) - k + 1
<1>1. /\ a \in QueueState /\ a.items \in Seq(Messages) /\ Len(a.items) \in Nat
      /\ DOMAIN a.items = 1..Len(a.items) /\ Len(q.items) \in Nat /\ k \in {0, 1}
  BY QueueFields DEF Shortened
<1>2. n \in Nat /\ n = Len(a.items) + 1 /\ n <= Cap
  BY <1>1, FollowupQueueAssumption DEF Shortened
<1> HIDE DEF n
<1>3. /\ Append(a.items, m) \in Seq(Messages) /\ Len(Append(a.items, m)) = Len(a.items) + 1
      /\ \A i \in 1..Len(a.items) : Append(a.items, m)[i] = a.items[i]
      /\ Append(a.items, m)[Len(a.items) + 1] = m
  BY <1>1, AppendProperties
<1>4. /\ b \in QueueState /\ b.items = Append(a.items, m) /\ b.droppedCount = a.droppedCount
      /\ b.draining = a.draining /\ b.summaryLines = a.summaryLines
  BY <1>1, <1>3 DEF Pushed, QueueState
<1> HIDE DEF b
<1>5. Len(b.items) = n /\ DOMAIN b.items = 1..n /\ b.items[n] = m
  BY <1>2, <1>3, <1>4, LenProperties
<1>6. ASSUME NEW i \in DOMAIN b.items, i # n
      PROVE  /\ i \in DOMAIN a.items /\ b.items[i] = a.items[i]
             /\ k + i \in DOMAIN q.items /\ b.items[i] = q.items[k + i]
  <2>1. i \in 1..Len(a.items)
    BY <1>1, <1>2, <1>5, <1>6
  <2>2. i \in DOMAIN a.items /\ b.items[i] = a.items[i]
    BY <1>1, <1>3, <1>4, <2>1
  <2> QED  BY <2>2 DEF Shortened
<1>7. n \in DOMAIN b.items
  BY <1>2, <1>5
<1> QED  BY <1>2, <1>4, <1>5, <1>6, <1>7 DEF Shortened, b, n

\* Of the messages other than m, those that are in s and no longer in r cease to be queued.
OnlyDropped(ph, new, m, s, r) ==
    \A n \in Messages \ {m} :
        /\ new[n] = "queued" => ph[n] = "queued"
        /\ ph[n] = "queued" /\ (n \in Range(s) => n \in Range(r)) => new[n] = "queued"

\* The overflow flag, over before, records whether r is what remains of s.
Spills(spilled, over, s, r) == spilled \in BOOLEAN /\ (~spilled => ~over /\ s = r)

\* The message m is pushed to queue o, after the drop policy has made room for it.
LEMMA PushingIsSound ==
    ASSUME NEW Q, NEW D, NEW o \in Objects, NEW ph, NEW rec, NEW over, NEW c,
           Sound(Q, D, o, ph, rec, over, c),
           NEW a, NEW k, Shortened(Q[o], a, k),
           NEW m \in Messages, m \notin rec, NEW new \in [Messages -> Phases], new[m] = "queued",
           OnlyDropped(ph, new, m, Q[o].items, a.items),
           NEW spilled, Spills(spilled, over, Q[o].items, a.items)
    PROVE  Sound([Q EXCEPT ![o] = Pushed(a, m)], D, o, new, rec \cup {m}, spilled, c)
<1> DEFINE b == Pushed(a, m)
           n == Len(Q[o].items) - k + 1
           P == [Q EXCEPT ![o] = b]
           all == rec \cup {m}
<1>0. /\ Q \in [Objects -> QueueState] /\ D \in [Objects -> DrainState]
      /\ ph \in [Messages -> Phases] /\ rec \in SUBSET Messages /\ over \in BOOLEAN
  BY DEF Sound, Typed
<1>1. /\ b \in QueueState /\ b.draining = Q[o].draining /\ b.droppedCount = a.droppedCount
      /\ b.summaryLines = a.summaryLines
      /\ n \in Nat /\ Len(b.items) = n /\ DOMAIN b.items = 1..n /\ n <= Cap
      /\ n \in DOMAIN b.items /\ b.items[n] = m
      /\ \A i \in DOMAIN b.items : i # n =>
            /\ i \in DOMAIN a.items /\ b.items[i] = a.items[i]
            /\ k + i \in DOMAIN Q[o].items /\ b.items[i] = Q[o].items[k + i]
  <2>1. Q[o] \in QueueState
    BY <1>0
  <2> QED  BY <2>1, PushedFields
<1> HIDE DEF b, n
<1>2. P \in [Objects -> QueueState] /\ P[o] = b /\ \A p \in Objects \ {o} : P[p] = Q[p]
  BY <1>0, <1>1
<1> HIDE DEF P
<1>3. spilled \in BOOLEAN /\ (~spilled => ~over /\ k = 0 /\ a = Q[o])
  <2>1. k = 0 => a = Q[o]
    BY DEF Shortened
  <2>2. k # 0 => a.items # Q[o].items
    BY DEF Shortened
  <2> QED  BY <1>0, <2>1, <2>2 DEF Spills
<1>4. k \in {0, 1} /\ Len(a.summaryLines) <= Cap /\ a.droppedCount <= Q[o].droppedCount + 1
      /\ a \in QueueState
  BY DEF Shortened
<1>5. /\ \A p \in Objects : DOMAIN Q[p].items = 1..Len(Q[p].items) /\ Len(Q[p].items) \in Nat
      /\ a.items \in Seq(Messages) /\ a.droppedCount \in Nat /\ Q[o].droppedCount \in Nat
      /\ Q[o].items \in Seq(Messages)
  BY <1>0, <1>4, QueueFields
\* An entry of the new queue is m, or was one of the old queue.
<1>6. \A p \in Objects : \A i \in DOMAIN P[p].items :
          \/ p = o /\ i = n /\ P[p].items[i] = m
          \/ /\ p = o /\ i # n /\ k + i \in DOMAIN Q[p].items /\ P[p].items[i] = Q[p].items[k + i]
             /\ P[p].items[i] \in Range(a.items)
          \/ p # o /\ i \in DOMAIN Q[p].items /\ P[p].items[i] = Q[p].items[i]
  <2> SUFFICES ASSUME NEW p \in Objects, NEW i \in DOMAIN P[p].items
               PROVE  \/ p = o /\ i = n /\ P[p].items[i] = m
                      \/ /\ p = o /\ i # n /\ k + i \in DOMAIN Q[p].items
                         /\ P[p].items[i] = Q[p].items[k + i]
                         /\ P[p].items[i] \in Range(a.items)
                      \/ p # o /\ i \in DOMAIN Q[p].items /\ P[p].items[i] = Q[p].items[i]
    OBVIOUS
  <2>1. CASE p # o
    BY <1>2, <2>1
  <2>2. CASE p = o /\ i = n
    BY <1>1, <1>2, <2>2
  <2>3. CASE p = o /\ i # n
    <3>1. i \in DOMAIN a.items /\ b.items[i] = a.items[i] /\ k + i \in DOMAIN Q[o].items
          /\ b.items[i] = Q[o].items[k + i]
      BY <1>1, <1>2, <2>3
    <3>2. b.items[i] \in Range(a.items)
      BY <1>5, <3>1, InRange
    <3> QED  BY <1>2, <2>3, <3>1, <3>2
  <2> QED  BY <2>1, <2>2, <2>3
<1>7. \A p \in Objects : \A i \in DOMAIN Q[p].items :
          Q[p].items[i] \in rec /\ Q[p].items[i] \in Messages /\ Q[p].items[i] # m /\ ph[Q[p].items[i]] = "queued"
  BY <1>0 DEF Sound, WaitersQueued
<1>8. Typed(P, D, o, new, all, spilled)
  BY <1>0, <1>2, <1>3 DEF Typed
<1>9. Cardinality(all) = Cardinality(rec) + 1 /\ Cardinality(rec) \in Nat
  <2>1. IsFiniteSet(rec)
    BY <1>0, FollowupQueueAssumption, FS_Subset
  <2> QED  BY <2>1, FS_AddElement, FS_CardinalityType
<1>10. Bounded(P, all)
  <2> SUFFICES ASSUME NEW p \in Objects
               PROVE  /\ Len(P[p].items) <= Cap /\ Len(P[p].summaryLines) <= Cap
                      /\ P[p].droppedCount <= Cardinality(all)
    BY DEF Bounded
  <2>1. /\ Len(Q[p].items) <= Cap /\ Len(Q[p].summaryLines) <= Cap
        /\ Q[p].droppedCount <= Cardinality(rec) /\ Q[o].droppedCount <= Cardinality(rec)
    BY DEF Sound, Bounded
  <2>2. Q[p].droppedCount \in Nat
    BY <1>0, QueueFields
  <2>3. CASE p = o
    <3>1. P[p].droppedCount = a.droppedCount /\ P[p].summaryLines = a.summaryLines /\ Len(P[p].items) <= Cap
      BY <1>1, <1>2, <2>3
    <3>2. a.droppedCount <= Cardinality(all)
      BY <1>4, <1>5, <1>9, <2>1
    <3> QED  BY <1>4, <3>1, <3>2
  <2>4. CASE p # o
    <3>1. P[p] = Q[p]
      BY <1>2, <2>4
    <3> QED  BY <1>9, <2>1, <2>2, <3>1
  <2> QED  BY <2>3, <2>4
<1>11. InStep(P, D)
  <2>1. P[o].draining = Q[o].draining /\ InStep(Q, D)
    BY <1>1, <1>2 DEF Sound
  <2> QED  BY <1>2, <2>1 DEF InStep
<1>12. WaitersQueued(P, new, all)
  <2> SUFFICES ASSUME NEW p \in Objects, NEW i \in DOMAIN P[p].items
               PROVE  P[p].items[i] \in all /\ new[P[p].items[i]] = "queued"
    BY DEF WaitersQueued
  <2>1. CASE P[p].items[i] = m
    BY <2>1
  <2>2. CASE p = o /\ P[p].items[i] # m
    <3>1. PICK j \in DOMAIN Q[o].items : P[p].items[i] = Q[o].items[j] /\ Q[o].items[j] \in Range(a.items)
      BY <1>6, <2>2
    <3> QED  BY <1>7, <3>1 DEF OnlyDropped
  <2>3. CASE p # o /\ P[p].items[i] # m
    <3>1. i \in DOMAIN Q[p].items /\ P[p].items[i] = Q[p].items[i]
      BY <1>6, <2>3
    <3>2. ~\E j \in DOMAIN Q[o].items : Q[o].items[j] = Q[p].items[i]
      BY <2>3, <3>1 DEF Sound, Once
    <3>3. Q[p].items[i] \notin Range(Q[o].items)
      BY <1>5, <3>2, InRange
    <3> QED  BY <1>7, <3>1, <3>3 DEF OnlyDropped
  <2> QED  BY <2>1, <2>2, <2>3
<1>13. TurnsEnqueued(D, all)
  BY DEF Sound, TurnsEnqueued
<1>14. Once(P)
  <2> SUFFICES ASSUME NEW p \in Objects, NEW r \in Objects,
                      NEW i \in DOMAIN P[p].items, NEW j \in DOMAIN P[r].items,
                      P[p].items[i] = P[r].items[j]
               PROVE  p = r /\ i = j
    BY DEF Once
  <2> DEFINE u == IF p = o THEN k + i ELSE i
             v == IF r = o THEN k + j ELSE j
  <2>1. CASE P[p].items[i] = m
    <3>1. \A x \in Objects : \A y \in DOMAIN P[x].items : P[x].items[y] = m => x = o /\ y = n
      <4> TAKE x \in Objects
      <4> TAKE y \in DOMAIN P[x].items
      <4>1. CASE x = o
        <5>1. y # n => k + y \in DOMAIN Q[o].items /\ P[x].items[y] = Q[o].items[k + y]
          BY <1>6, <4>1
        <5> QED  BY <1>7, <4>1, <5>1
      <4>2. CASE x # o
        BY <1>2, <1>7, <4>2
      <4> QED  BY <4>1, <4>2
    <3> QED  BY <2>1, <3>1
  <2>2. CASE P[p].items[i] # m
    <3>1. /\ u \in DOMAIN Q[p].items /\ P[p].items[i] = Q[p].items[u]
          /\ v \in DOMAIN Q[r].items /\ P[r].items[j] = Q[r].items[v]
      BY <1>6, <2>2
    <3>2. p = r /\ u = v
      <4> HIDE DEF u, v
      <4>1. Q[p].items[u] = Q[r].items[v]
        BY <3>1
      <4>2. Once(Q)
        BY DEF Sound
      <4> QED  BY <3>1, <4>1, <4>2 DEF Once
    <3>3. i \in Int /\ j \in Int
      <4>1. \A x \in Objects : \A y \in DOMAIN P[x].items : y \in Int
        BY <1>1, <1>2, <1>5
      <4> QED  BY <4>1
    <3> QED  BY <1>4, <3>2, <3>3
  <2> QED  BY <2>1, <2>2
<1>15. TurnsAhead(P, D)
  <2> SUFFICES ASSUME NEW x \in Objects, NEW p \in Objects,
                      NEW i \in DOMAIN D[x].turn, NEW j \in DOMAIN P[p].items,
                      D[x].turn[i] = P[p].items[j]
               PROVE  p = x /\ j <= Taken(D[x])
    BY DEF TurnsAhead
  <2>1. D[x].turn[i] \in rec /\ D[x].turn[i] # m
    BY DEF Sound, TurnsEnqueued
  <2>2. Taken(D[x]) \in Nat
    BY <1>0, DrainFields
  <2>3. CASE p = o
    <3>1. k + j \in DOMAIN Q[p].items /\ D[x].turn[i] = Q[p].items[k + j]
      BY <1>6, <2>1, <2>3
    <3>2. p = x /\ k + j <= Taken(D[x])
      BY <3>1 DEF Sound, TurnsAhead
    <3>3. j \in Int
      BY <1>1, <1>2, <2>3
    <3> QED  BY <1>4, <2>2, <3>2, <3>3
  <2>4. CASE p # o
    BY <1>2, <2>4 DEF Sound, TurnsAhead
  <2> QED  BY <2>3, <2>4
<1>16. OnlyRegistered(P, D, o, c)
  BY <1>2 DEF Sound, OnlyRegistered
<1>17. NothingSpilled(P, D, o, new, spilled)
  <2> SUFFICES ASSUME ~spilled PROVE NothingSpilled(P, D, o, new, FALSE)
    BY <1>3 DEF NothingSpilled
  <2>0. k = 0 /\ a = Q[o] /\ ~over
    BY <1>3
  <2>1. NothingSpilled(Q, D, o, ph, FALSE)
    BY <2>0 DEF Sound, NothingSpilled
  <2>2. n = Len(Q[o].items) + 1 /\ \A i \in DOMAIN Q[o].items : i \in DOMAIN b.items /\ b.items[i] = Q[o].items[i]
    <3>1. n = Len(Q[o].items) + 1
      BY <1>5, <2>0 DEF n
    <3>2. ASSUME NEW i \in DOMAIN Q[o].items
          PROVE  i \in DOMAIN b.items /\ b.items[i] = Q[o].items[i]
      <4>1. i \in 1..n /\ i # n
        BY <1>5, <3>1, <3>2
      <4> QED  BY <1>1, <2>0, <4>1
    <3> QED  BY <3>1, <3>2
  <2>3. ASSUME NEW p \in Objects
        PROVE  /\ P[p].droppedCount = 0
               /\ D[p].at = "running" => /\ D[p].kind # "summary"
                                         /\ TakesItsTurn(P[p], D[p]) \/ (p # o /\ P[p].items = <<>>)
    <3>1. /\ Q[p].droppedCount = 0
          /\ D[p].at = "running" => /\ D[p].kind # "summary"
                                    /\ TakesItsTurn(Q[p], D[p]) \/ (p # o /\ Q[p].items = <<>>)
      BY <2>1 DEF NothingSpilled
    <3>2. CASE p = o
      <4>1. P[p].droppedCount = 0
        BY <1>1, <1>2, <2>0, <3>1, <3>2
      <4>2. ASSUME D[o].at = "running" PROVE TakesItsTurn(b, D[o])
        <5>1. TakesItsTurn(Q[o], D[o]) /\ Taken(D[o]) \in Nat
          BY <1>0, <3>1, <3>2, <4>2, DrainFields
        <5>2. Taken(D[o]) <= Len(Q[o].items) /\ Taken(D[o]) <= Len(b.items)
          BY <1>1, <1>5, <2>2, <5>1 DEF TakesItsTurn
        <5>3. \A j \in 1..Taken(D[o]) : j \in DOMAIN Q[o].items
          BY <1>5, <5>1, <5>2
        <5> QED  BY <2>2, <5>1, <5>2, <5>3 DEF TakesItsTurn
      <4> QED  BY <1>2, <3>1, <3>2, <4>1, <4>2
    <3>3. CASE p # o
      BY <1>2, <3>1, <3>3
    <3> QED  BY <3>2, <3>3
  <2>4. ASSUME NEW x \in Messages, new[x] = "queued"
        PROVE  \E p \in Objects : \E i \in DOMAIN P[p].items : P[p].items[i] = x
    <3>1. CASE x = m
      BY <1>1, <1>2, <3>1
    <3>2. CASE x # m
      <4>1. ph[x] = "queued"
        BY <2>4, <3>2 DEF OnlyDropped
      <4>2. PICK p \in Objects : \E i \in DOMAIN Q[p].items : Q[p].items[i] = x
        BY <2>1, <4>1 DEF NothingSpilled
      <4>3. CASE p = o
        BY <1>2, <2>2, <4>2, <4>3
      <4>4. CASE p # o
        BY <1>2, <4>2, <4>4
      <4> QED  BY <4>3, <4>4
    <3> QED  BY <3>1, <3>2
  <2> QED  BY <2>3, <2>4 DEF NothingSpilled
<1>18. Sound(P, D, o, new, all, spilled, c)
  BY <1>8, <1>10, <1>11, <1>12, <1>13, <1>14, <1>15, <1>16, <1>17 DEF Sound
<1> QED  BY <1>18 DEF P, b

LEMMA EnqueueIsSound ==
    ASSUME NEW m \in Messages, NEW mode \in Modes, NEW policy \in DropPolicies, IInv,
           Enqueue(m, mode, policy)
    PROVE  IInv'
<1> DEFINE q == Configured(mode, policy)
           o == Current
           a == ApplyDropPolicy(q)
           P == [queue EXCEPT ![o] = q]
<1>0. /\ queue \in [Objects -> QueueState] /\ phase \in [Messages -> Phases]
      /\ clears' = clears /\ clears \in 0..MaxClears /\ hasCallback \in BOOLEAN
  BY DEF IInv, Sound, Typed, Enqueue
<1>1. registered # NoQueue \/ \E p \in Objects : Fresh(p)
  BY DEF Enqueue
<1>2. /\ o \in Objects /\ q \in QueueState
      /\ Sound(P, drain, o, phase, recent, overflowed, clears)
  BY <1>1, ConfiguringIsSound
<1>3. \/ /\ Duplicate(m)
         /\ queue' = P /\ registered' = o
         /\ UNCHANGED <<drain, hasCallback, recent, phase, overflowed>>
      \/ /\ ~Duplicate(m) /\ policy = "new" /\ Len(q.items) >= Cap
         /\ queue' = [queue EXCEPT ![o] = [q EXCEPT !.hasLastRun = TRUE]] /\ registered' = o
         /\ phase' = [phase EXCEPT ![m] = "refused"]
         /\ UNCHANGED <<drain, hasCallback, recent, overflowed>>
      \/ /\ ~Duplicate(m)
         /\ \/ ScheduleDrain([queue EXCEPT ![o] = Pushed(a, m)], drain, o)
            \/ /\ queue' = [queue EXCEPT ![o] = Pushed(a, m)] /\ registered' = o
               /\ UNCHANGED <<drain, hasCallback>>
         /\ recent' = recent \cup {m}
         /\ overflowed' = (overflowed \/ q.items # a.items)
         /\ phase' = [n \in Messages |->
                        IF n = m THEN "queued"
                        ELSE IF n \in Range(q.items) \ Range(a.items) THEN "overflowed"
                        ELSE phase[n]]
  BY DEF Enqueue, Pushed
<1>4. Duplicate(m) \/ phase[m] = "checked"
  BY DEF Enqueue, Duplicate
<1> HIDE DEF q, o
<1>5. P \in [Objects -> QueueState] /\ P[o] = q /\ \A p \in Objects \ {o} : P[p] = queue[p]
  BY <1>0, <1>2
<1>6. CASE /\ Duplicate(m)
           /\ queue' = P /\ registered' = o
           /\ UNCHANGED <<drain, hasCallback, recent, phase, overflowed>>
  BY <1>0, <1>2, <1>6 DEF IInv
<1>7. CASE /\ ~Duplicate(m) /\ policy = "new" /\ Len(q.items) >= Cap
           /\ queue' = [queue EXCEPT ![o] = [q EXCEPT !.hasLastRun = TRUE]] /\ registered' = o
           /\ phase' = [phase EXCEPT ![m] = "refused"]
           /\ UNCHANGED <<drain, hasCallback, recent, overflowed>>
  <2> DEFINE r == [q EXCEPT !.hasLastRun = TRUE]
  <2>1. /\ r \in QueueState /\ r.items = q.items /\ r.droppedCount = q.droppedCount
        /\ r.summaryLines = q.summaryLines /\ r.draining = q.draining
    BY <1>2 DEF QueueState
  <2> HIDE DEF r
  <2>2. queue' = [queue EXCEPT ![o] = r]
    BY <1>7 DEF r
  <2>3. /\ queue' \in [Objects -> QueueState] /\ queue'[o] = r
        /\ \A p \in Objects \ {o} : queue'[p] = P[p]
    BY <1>0, <1>2, <1>5, <2>1, <2>2
  <2> HIDE DEF P
  <2>4. Typed(queue', drain, o, phase, recent, overflowed)
    BY <1>2, <2>3 DEF Sound, Typed
  <2>5. Alike(P, drain, queue', drain)
    BY <1>2, <1>5, <2>1, <2>3 DEF Alike, Sound, Bounded
  <2>6. InStep(queue', drain)
    BY <1>2, <1>5, <2>1, <2>3 DEF InStep, Sound
  <2>7. OnlyRegistered(queue', drain, o, clears)
    BY <1>2, <1>5, <2>1, <2>3 DEF OnlyRegistered, Sound
  <2>8. NoTakeover(drain, o, o)
    BY DEF NoTakeover
  <2>9. Sound(queue', drain, o, phase, recent, overflowed, clears)
    BY <1>2, <2>4, <2>5, <2>6, <2>7, <2>8, AlikeIsSound
  <2>10. "refused" \in Phases /\ "refused" # "queued" /\ phase[m] # "queued"
    BY <1>4, <1>7 DEF Phases
  <2>11. Sound(queue', drain, o, phase', recent, overflowed, clears)
    BY <1>7, <2>9, <2>10, RephasedIsSound
  <2> QED  BY <1>0, <1>7, <2>11 DEF IInv
<1>8. CASE /\ ~Duplicate(m)
           /\ \/ ScheduleDrain([queue EXCEPT ![o] = Pushed(a, m)], drain, o)
              \/ /\ queue' = [queue EXCEPT ![o] = Pushed(a, m)] /\ registered' = o
                 /\ UNCHANGED <<drain, hasCallback>>
           /\ recent' = recent \cup {m}
           /\ overflowed' = (overflowed \/ q.items # a.items)
           /\ phase' = [n \in Messages |->
                          IF n = m THEN "queued"
                          ELSE IF n \in Range(q.items) \ Range(a.items) THEN "overflowed"
                          ELSE phase[n]]
  <2> DEFINE Z == [queue EXCEPT ![o] = Pushed(a, m)]
  <2>1. Len(q.items) <= Cap /\ Len(q.summaryLines) <= Cap
    BY <1>2, <1>5 DEF Sound, Bounded
  <2>2. PICK k \in {0, 1} : Shortened(q, a, k)
    BY <1>2, <2>1, ApplyDropPolicyShortens
  <2> HIDE DEF a
  <2>3. m \notin recent /\ phase[m] = "checked"
    BY <1>4, <1>8 DEF Duplicate
  <2>4. phase' \in [Messages -> Phases] /\ phase'[m] = "queued"
    BY <1>0, <1>8 DEF Phases
  <2>5. OnlyDropped(phase, phase', m, P[o].items, a.items)
    BY <1>5, <1>8 DEF OnlyDropped
  <2>6. Z = [P EXCEPT ![o] = Pushed(a, m)]
    <3>1. Pushed(a, m) \in QueueState
      BY <1>2, <2>2, PushedFields
    <3> QED  BY <1>0, <1>2, <1>5, <3>1
  <2>7. P[o] = q
    BY <1>5
  <2> HIDE DEF P, Z
  <2>8. Spills(overflowed', overflowed, P[o].items, a.items)
    BY <1>8, <2>7 DEF Spills
  <2>9. Sound(Z, drain, o, phase', recent', overflowed', clears)
    <3>1. Shortened(P[o], a, k)
      BY <2>2, <2>7
    <3>2. Sound([P EXCEPT ![o] = Pushed(a, m)], drain, o, phase', recent \cup {m}, overflowed', clears)
      BY <1>2, <2>3, <2>4, <2>5, <2>8, <3>1, PushingIsSound
    <3>3. recent' = recent \cup {m}
      BY <1>8
    <3> QED  BY <2>6, <3>2, <3>3
  <2>10. ScheduleDrain(Z, drain, o) \/ (queue' = Z /\ registered' = o /\ UNCHANGED <<drain, hasCallback>>)
    BY <1>8 DEF Z
  <2>11. CASE ScheduleDrain(Z, drain, o)
    <3>1. Sound(queue', drain', registered', phase', recent', overflowed', clears) /\ hasCallback' \in BOOLEAN
      BY <1>0, <2>9, <2>11, ScheduleDrainIsSound
    <3> QED  BY <1>0, <3>1 DEF IInv
  <2>12. CASE queue' = Z /\ registered' = o /\ UNCHANGED <<drain, hasCallback>>
    BY <1>0, <2>9, <2>12 DEF IInv
  <2> QED  BY <2>10, <2>11, <2>12
<1> QED  BY <1>3, <1>6, <1>7, <1>8

-----------------------------------------------------------------------------
(* Turns. *)

\* What a drain may make a turn of: messages that wait in its queue, among those that it will
\* take off, and unless some have been dropped all of those.
LEMMA StartIsSound ==
    ASSUME NEW o \in Objects, IInv, drain[o].at # "idle",
           NEW kind \in {"one", "summary", "batch"}, NEW turn \in Seq(Messages), NEW alone \in BOOLEAN,
           Start(o, kind, turn, alone), UNCHANGED <<recent, phase, clears, overflowed>>,
           kind = "summary" => queue[o].droppedCount > 0 /\ turn = <<>>,
           kind = "one" => queue[o].items # <<>> /\ turn = <<queue[o].items[1]>>,
           kind = "batch" => turn = queue[o].items
    PROVE  IInv'
<1> DEFINE d == [at |-> "running", individually |-> alone, kind |-> kind, turn |-> turn,
                 summary |-> SummaryDue(queue[o])]
           q == queue[o]
<1>0. /\ Sound(queue, drain, registered, phase, recent, overflowed, clears)
      /\ queue \in [Objects -> QueueState] /\ drain \in [Objects -> DrainState]
      /\ clears \in 0..MaxClears /\ hasCallback \in BOOLEAN
  BY DEF IInv, Sound, Typed
<1>1. /\ drain' = [drain EXCEPT ![o] = d]
      /\ UNCHANGED <<registered, queue, hasCallback, recent, phase, clears, overflowed>>
  BY DEF Start
<1>2. /\ d \in DrainState /\ d.at = "running" /\ d.kind = kind /\ d.turn = turn /\ d # Idle
      /\ Taken(d) = IF kind = "batch" THEN Len(turn) ELSE 1
  BY DEF DrainState, SummaryDue, Idle, Taken
<1> HIDE DEF d
<1>3. drain' \in [Objects -> DrainState] /\ drain'[o] = d /\ \A p \in Objects \ {o} : drain'[p] = drain[p]
  BY <1>0, <1>1, <1>2
<1>4. q.items \in Seq(Messages) /\ Len(q.items) \in Nat /\ DOMAIN q.items = 1..Len(q.items)
      /\ (q.items = <<>> <=> Len(q.items) = 0) /\ q.droppedCount \in Nat
  BY <1>0, QueueFields
<1>5. \A i \in DOMAIN turn : i \in DOMAIN q.items /\ turn[i] = q.items[i] /\ i <= Taken(d)
  <2>1. CASE kind = "summary"
    BY <2>1
  <2>2. CASE kind = "one"
    BY <1>2, <1>4, <2>2
  <2>3. CASE kind = "batch"
    BY <1>2, <1>4, <2>3
  <2> QED  BY <2>1, <2>2, <2>3
<1>6. Typed(queue, drain', registered, phase, recent, overflowed)
  BY <1>0, <1>3 DEF Sound, Typed
<1>7. InStep(queue, drain')
  <2>1. queue[o].draining = (drain'[o].at # "idle")
    BY <1>0, <1>2, <1>3 DEF Sound, InStep
  <2> QED  BY <1>0, <1>2, <1>3, <2>1 DEF Sound, InStep
<1>8. TurnsEnqueued(drain', recent)
  BY <1>0, <1>2, <1>3, <1>5 DEF Sound, TurnsEnqueued, WaitersQueued
<1>9. TurnsAhead(queue, drain')
  <2> SUFFICES ASSUME NEW x \in Objects, NEW p \in Objects,
                      NEW i \in DOMAIN drain'[x].turn, NEW j \in DOMAIN queue[p].items,
                      drain'[x].turn[i] = queue[p].items[j]
               PROVE  p = x /\ j <= Taken(drain'[x])
    BY DEF TurnsAhead
  <2>1. CASE x = o
    <3>1. i \in DOMAIN queue[o].items /\ queue[o].items[i] = queue[p].items[j] /\ i <= Taken(d)
      BY <1>2, <1>3, <1>5, <2>1
    <3>2. p = o /\ j = i
      BY <1>0, <3>1 DEF Sound, Once
    <3> QED  BY <1>3, <2>1, <3>1, <3>2
  <2>2. CASE x # o
    BY <1>0, <1>3, <2>2 DEF Sound, TurnsAhead
  <2> QED  BY <2>1, <2>2
<1>10. OnlyRegistered(queue, drain', registered, clears)
  <2>1. drain[o] # Idle
    BY DEF Idle
  <2> QED  BY <1>0, <1>3, <2>1 DEF Sound, OnlyRegistered
<1>11. NothingSpilled(queue, drain', registered, phase, overflowed)
  <2> SUFFICES ASSUME ~overflowed PROVE NothingSpilled(queue, drain', registered, phase, FALSE)
    BY DEF NothingSpilled
  <2>1. NothingSpilled(queue, drain, registered, phase, FALSE)
    BY <1>0 DEF Sound, NothingSpilled
  <2>2. d.kind # "summary" /\ TakesItsTurn(queue[o], d)
    <3>1. kind # "summary"
      BY <1>4, <2>1 DEF NothingSpilled
    <3>2. CASE kind = "one"
      <4>1. Taken(d) = 1 /\ d.turn = <<queue[o].items[1]>> /\ Len(queue[o].items) >= 1
        BY <1>2, <1>4, <3>2
      <4>2. 1 \in DOMAIN d.turn /\ d.turn[1] = queue[o].items[1]
        BY <4>1
      <4>3. \A j \in 1..Taken(d) : queue[o].items[j] = d.turn[1]
        BY <4>1, <4>2
      <4>4. TakesItsTurn(queue[o], d)
        BY <1>4, <4>1, <4>2, <4>3 DEF TakesItsTurn
      <4> QED  BY <1>2, <3>2, <4>4
    <3>3. CASE kind = "batch"
      <4>1. Taken(d) = Len(queue[o].items) /\ d.turn = queue[o].items
        BY <1>2, <3>3
      <4>2. TakesItsTurn(queue[o], d)
        BY <1>4, <4>1 DEF TakesItsTurn
      <4> QED  BY <1>2, <3>3, <4>2
    <3> QED  BY <1>2, <3>1, <3>2, <3>3
  <2> QED  BY <1>3, <2>1, <2>2 DEF NothingSpilled
<1>12. Sound(queue, drain', registered, phase, recent, overflowed, clears)
  BY <1>0, <1>6, <1>7, <1>8, <1>9, <1>10, <1>11 DEF Sound
<1> QED  BY <1>0, <1>1, <1>12 DEF IInv

LEMMA StartOneIsSound ==
    ASSUME NEW o \in Objects, IInv, drain[o].at # "idle", NEW alone \in BOOLEAN,
           StartOne(o, alone), UNCHANGED <<recent, phase, clears, overflowed>>
    PROVE  IInv'
<1>1. queue[o].items \in Seq(Messages)
  BY QueueFields DEF IInv, Sound, Typed
<1>2. CASE queue[o].items = <<>>
  <2>1. EndDrain(o, queue)
    BY <1>2 DEF StartOne
  <2>2. Sound(queue', drain', registered', phase, recent, overflowed, clears) /\ hasCallback' \in BOOLEAN
    BY <2>1, LeavingIsSound
  <2> QED  BY <2>2 DEF IInv
<1>3. CASE queue[o].items # <<>>
  <2> DEFINE turn == <<queue[o].items[1]>>
  <2>1. Head(queue[o].items) = queue[o].items[1] /\ queue[o].items[1] \in Messages
    BY <1>1, <1>3
  <2>2. Start(o, "one", turn, alone)
    BY <1>3, <2>1 DEF StartOne
  <2>3. turn \in Seq(Messages) /\ "one" \in {"one", "summary", "batch"}
    BY <2>1
  <2> QED  BY <1>3, <2>2, <2>3, StartIsSound
<1> QED  BY <1>2, <1>3

LEMMA DebouncedIsSound ==
    ASSUME NEW o \in Objects, IInv, Debounced(o)
    PROVE  IInv'
<1> DEFINE q == queue[o]
           individually == drain[o].individually \/ CrossChannel(q)
<1>0. /\ Sound(queue, drain, registered, phase, recent, overflowed, clears)
      /\ drain \in [Objects -> DrainState] /\ drain[o] \in DrainState /\ q \in QueueState
  BY DEF IInv, Sound, Typed
<1>1. /\ drain[o].at = "debounce" /\ UNCHANGED <<recent, phase, clears, overflowed>>
      /\ individually \in BOOLEAN /\ drain[o].individually \in BOOLEAN
  BY <1>0, DrainFields DEF Debounced
<1>2. \/ StartOne(o, TRUE) \/ StartOne(o, drain[o].individually)
      \/ drain' = [drain EXCEPT ![o].at = "skipped"] /\ UNCHANGED <<registered, queue, hasCallback>>
      \/ SummaryDue(q) /\ EndDrain(o, queue)
      \/ SummaryDue(q) /\ Start(o, "summary", <<>>, drain[o].individually)
  BY DEF Debounced
<1>3. CASE StartOne(o, TRUE)
  BY <1>1, <1>3, StartOneIsSound
<1>4. CASE StartOne(o, drain[o].individually)
  BY <1>1, <1>4, StartOneIsSound
<1>5. CASE drain' = [drain EXCEPT ![o].at = "skipped"] /\ UNCHANGED <<registered, queue, hasCallback>>
  <2> DEFINE d == [drain[o] EXCEPT !.at = "skipped"]
  <2>1. drain[o].turn = <<>>
    BY <1>0, <1>1 DEF Sound, InStep
  <2>2. d \in DrainState /\ d.at \in {"debounce", "skipped"} /\ d.turn = <<>>
    BY <1>0, <2>1 DEF DrainState
  <2>3. drain' = [drain EXCEPT ![o] = d]
    BY <1>5
  <2> HIDE DEF d
  <2>4. Sound(queue, drain', registered, phase, recent, overflowed, clears)
    BY <1>0, <1>1, <2>2, <2>3, LettingGoIsSound
  <2> QED  BY <1>1, <1>5, <2>4 DEF IInv
<1>6. CASE SummaryDue(q) /\ EndDrain(o, queue)
  <2>1. Sound(queue', drain', registered', phase, recent, overflowed, clears) /\ hasCallback' \in BOOLEAN
    BY <1>1, <1>6, LeavingIsSound
  <2> QED  BY <1>1, <2>1 DEF IInv
<1>7. CASE SummaryDue(q) /\ Start(o, "summary", <<>>, drain[o].individually)
  <2>1. queue[o].droppedCount > 0 /\ <<>> \in Seq(Messages) /\ "summary" \in {"one", "summary", "batch"}
    BY <1>7, EmptySeq DEF SummaryDue
  <2> QED  BY <1>1, <1>7, <2>1, StartIsSound
<1> QED  BY <1>2, <1>3, <1>4, <1>5, <1>6, <1>7

LEMMA StartBatchIsSound ==
    ASSUME NEW o \in Objects, IInv, StartBatch(o)
    PROVE  IInv'
<1>1. /\ drain[o].at = "skipped" /\ UNCHANGED <<recent, phase, clears, overflowed>>
      /\ EndDrain(o, queue) \/ Start(o, "batch", queue[o].items, drain[o].individually)
  BY DEF StartBatch
<1>2. drain[o].individually \in BOOLEAN /\ queue[o].items \in Seq(Messages)
  BY DrainFields, QueueFields DEF IInv, Sound, Typed
<1>3. CASE EndDrain(o, queue)
  <2>1. Sound(queue', drain', registered', phase, recent, overflowed, clears) /\ hasCallback' \in BOOLEAN
    BY <1>1, <1>3, LeavingIsSound
  <2> QED  BY <1>1, <2>1 DEF IInv
<1>4. CASE Start(o, "batch", queue[o].items, drain[o].individually)
  <2>1. "batch" \in {"one", "summary", "batch"}
    OBVIOUS
  <2> QED  BY <1>1, <1>2, <1>4, <2>1, StartIsSound
<1> QED  BY <1>1, <1>3, <1>4

LEMMA TurnFailsIsSound ==
    ASSUME NEW o \in Objects, IInv, TurnFails(o)
    PROVE  IInv'
<1>1. /\ drain[o].at # "idle" /\ UNCHANGED <<recent, phase, clears, overflowed>>
      /\ EndDrain(o, queue)
  BY DEF TurnFails
<1>2. Sound(queue', drain', registered', phase, recent, overflowed, clears) /\ hasCallback' \in BOOLEAN
  BY <1>1, LeavingIsSound
<1> QED  BY <1>1, <1>2 DEF IInv

\* What the success of a turn leaves of queue q: r, whose entries are those of q but for the
\* first n.
Relieved(q, r, n) ==
    /\ r \in QueueState /\ r.draining = q.draining /\ r.droppedCount \in {0, q.droppedCount}
    /\ Len(r.items) = (IF n <= Len(q.items) THEN Len(q.items) - n ELSE 0)
    /\ \A i \in DOMAIN r.items : n + i \in DOMAIN q.items /\ r.items[i] = q.items[n + i]
    /\ r.summaryLines \in {q.summaryLines, <<>>}

LEMMA RelievedFields ==
    ASSUME NEW q \in QueueState, NEW n \in Nat, NEW told
    PROVE  LET rest == SubSeq(q.items, n + 1, Len(q.items))
           IN  Relieved(q, IF told THEN [q EXCEPT !.items = rest, !.droppedCount = 0, !.summaryLines = <<>>]
                           ELSE [q EXCEPT !.items = rest], n)
<1> DEFINE rest == SubSeq(q.items, n + 1, Len(q.items))
           r == IF told THEN [q EXCEPT !.items = rest, !.droppedCount = 0, !.summaryLines = <<>>]
                ELSE [q EXCEPT !.items = rest]
<1>1. /\ rest \in Seq(Messages)
      /\ Len(rest) = (IF n <= Len(q.items) THEN Len(q.items) - n ELSE 0)
      /\ \A i \in DOMAIN rest : n + i \in DOMAIN q.items /\ rest[i] = q.items[n + i]
  <2>1. q.items \in Seq(Messages)
    BY QueueFields
  <2> QED  BY <2>1, Remainder
<1> HIDE DEF rest
<1>2. /\ r \in QueueState /\ r.items = rest /\ r.draining = q.draining
      /\ r.droppedCount \in {0, q.droppedCount} /\ r.summaryLines \in {q.summaryLines, <<>>}
  <2>1. CASE told
    <3>1. r = [q EXCEPT !.items = rest, !.droppedCount = 0, !.summaryLines = <<>>]
      BY <2>1
    <3> HIDE DEF r
    <3> QED  BY <1>1, <3>1, EmptySeq DEF QueueState
  <2>2. CASE ~told
    <3>1. r = [q EXCEPT !.items = rest]
      BY <2>2
    <3> HIDE DEF r
    <3> QED  BY <1>1, <3>1 DEF QueueState
  <2> QED  BY <2>1, <2>2
<1> HIDE DEF r
<1>3. Relieved(q, r, n)
  BY <1>1, <1>2 DEF Relieved
<1> QED  BY <1>3 DEF r, rest

\* The messages of the turn are answered, its entries are gone, and the drain goes on.
LEMMA TakingIsSound ==
    ASSUME NEW o \in Objects, IInv, drain[o].at = "running",
           NEW r, Relieved(queue[o], r, Taken(drain[o])),
           phase' = [m \in Messages |-> IF m \in Range(drain[o].turn) THEN "answered" ELSE phase[m]]
    PROVE  Sound([queue EXCEPT ![o] = r], [drain EXCEPT ![o] = Pausing(drain[o])], registered,
                 phase', recent, overflowed, clears)
<1> DEFINE q == queue[o]
           n == Taken(drain[o])
           P == [queue EXCEPT ![o] = r]
           D == [drain EXCEPT ![o] = Pausing(drain[o])]
<1>0. /\ Sound(queue, drain, registered, phase, recent, overflowed, clears)
      /\ queue \in [Objects -> QueueState] /\ drain \in [Objects -> DrainState]
      /\ drain[o] \in DrainState /\ q \in QueueState /\ phase \in [Messages -> Phases]
      /\ recent \in SUBSET Messages
  BY DEF IInv, Sound, Typed
<1>1. /\ P \in [Objects -> QueueState] /\ P[o] = r /\ \A p \in Objects \ {o} : P[p] = queue[p]
  BY <1>0 DEF Relieved
<1>2. /\ Pausing(drain[o]).at = "debounce" /\ Pausing(drain[o]).turn = <<>>
      /\ Pausing(drain[o]) # Idle /\ drain[o] # Idle
      /\ D \in [Objects -> DrainState] /\ D[o] = Pausing(drain[o])
      /\ \A p \in Objects \ {o} : D[p] = drain[p]
  BY <1>0, PausingFields DEF Idle
<1>3. /\ n \in Nat /\ drain[o].turn \in Seq(Messages)
      /\ q.items \in Seq(Messages) /\ Len(q.items) \in Nat /\ DOMAIN q.items = 1..Len(q.items)
      /\ (q.items = <<>> <=> Len(q.items) = 0) /\ q.droppedCount \in Nat
  BY <1>0, DrainFields, QueueFields
<1>4. /\ r \in QueueState /\ r.draining = q.draining /\ r.droppedCount \in {0, q.droppedCount}
      /\ Len(r.items) = (IF n <= Len(q.items) THEN Len(q.items) - n ELSE 0)
      /\ \A i \in DOMAIN r.items : n + i \in DOMAIN q.items /\ r.items[i] = q.items[n + i]
      /\ r.summaryLines \in {q.summaryLines, <<>>}
  BY DEF Relieved
<1>5. r.items \in Seq(Messages) /\ DOMAIN r.items = 1..Len(r.items) /\ (r.items = <<>> <=> Len(r.items) = 0)
  BY <1>4, QueueFields
<1> HIDE DEF P, D, n
<1>6. /\ phase' \in [Messages -> Phases]
      /\ \A m \in Messages : ~(\E i \in DOMAIN drain[o].turn : drain[o].turn[i] = m) => phase'[m] = phase[m]
      /\ \A m \in Messages : phase'[m] = "queued" =>
            phase[m] = "queued" /\ ~\E i \in DOMAIN drain[o].turn : drain[o].turn[i] = m
  <2>1. phase' \in [Messages -> Phases]
    BY <1>0 DEF Phases
  <2>2. \A m \in Messages : m \in Range(drain[o].turn) <=> \E i \in DOMAIN drain[o].turn : drain[o].turn[i] = m
    BY <1>3, InRange
  <2> QED  BY <2>1, <2>2
\* An entry of the new queue was one of the old.
<1>7. \A p \in Objects : \A i \in DOMAIN P[p].items :
          \/ p = o /\ n + i \in DOMAIN queue[p].items /\ P[p].items[i] = queue[p].items[n + i] /\ i \in Nat \ {0}
          \/ p # o /\ i \in DOMAIN queue[p].items /\ P[p].items[i] = queue[p].items[i]
  BY <1>1, <1>4, <1>5
<1>8. Typed(P, D, registered, phase', recent, overflowed)
  BY <1>0, <1>1, <1>2, <1>6 DEF Sound, Typed
<1>9. Bounded(P, recent)
  <2>1. Cardinality(recent) \in Nat
    BY <1>0, FollowupQueueAssumption, FS_Subset, FS_CardinalityType
  <2>2. \A p \in Objects : /\ Len(queue[p].items) <= Cap /\ Len(queue[p].summaryLines) <= Cap
                           /\ queue[p].droppedCount <= Cardinality(recent)
    BY <1>0 DEF Sound, Bounded
  <2>3. Len(r.items) <= Cap
    BY <1>3, <1>4, <2>2, FollowupQueueAssumption
  <2>4. Len(r.summaryLines) <= Cap
    BY <1>4, <2>2, EmptySeq, FollowupQueueAssumption
  <2>5. r.droppedCount <= Cardinality(recent)
    BY <1>4, <2>1, <2>2
  <2> QED  BY <1>1, <2>2, <2>3, <2>4, <2>5 DEF Bounded
<1>10. InStep(P, D)
  <2>1. P[o].draining = queue[o].draining /\ InStep(queue, drain)
    BY <1>0, <1>1, <1>4 DEF Sound
  <2>2. P[o].draining = (D[o].at # "idle")
    BY <1>2, <2>1 DEF InStep
  <2> QED  BY <1>1, <1>2, <2>1, <2>2 DEF InStep
<1>11. WaitersQueued(P, phase', recent)
  <2> SUFFICES ASSUME NEW p \in Objects, NEW i \in DOMAIN P[p].items
               PROVE  P[p].items[i] \in recent /\ phase'[P[p].items[i]] = "queued"
    BY DEF WaitersQueued
  <2> DEFINE m == P[p].items[i]
  <2>1. PICK j \in DOMAIN queue[p].items : m = queue[p].items[j] /\ (p = o => j > n)
    <3>1. CASE p = o
      <4>1. n + i \in DOMAIN queue[p].items /\ m = queue[p].items[n + i] /\ i \in Nat \ {0}
        BY <1>7, <3>1
      <4>2. n + i > n
        BY <1>3, <4>1
      <4> QED  BY <4>1, <4>2
    <3>2. CASE p # o
      BY <1>7, <3>2
    <3> QED  BY <3>1, <3>2
  <2>2. m \in recent /\ phase[m] = "queued" /\ m \in Messages
    BY <1>0, <2>1 DEF Sound, WaitersQueued
  <2>3. j \in Int
    BY <1>0, <2>1, QueueFields
  <2>4. ~\E x \in DOMAIN drain[o].turn : drain[o].turn[x] = m
    <3> SUFFICES ASSUME NEW x \in DOMAIN drain[o].turn, drain[o].turn[x] = queue[p].items[j]
                 PROVE  FALSE
      BY <2>1
    <3>1. p = o /\ j <= n
      BY <1>0 DEF Sound, TurnsAhead, n
    <3> QED  BY <1>3, <2>1, <2>3, <3>1
  <2> QED  BY <1>6, <2>2, <2>4
<1>12. TurnsEnqueued(D, recent)
  <2>1. DOMAIN D[o].turn = {}
    BY <1>2
  <2> QED  BY <1>0, <1>2, <2>1 DEF Sound, TurnsEnqueued
<1>13. Once(P)
  <2> SUFFICES ASSUME NEW p \in Objects, NEW x \in Objects,
                      NEW i \in DOMAIN P[p].items, NEW j \in DOMAIN P[x].items,
                      P[p].items[i] = P[x].items[j]
               PROVE  p = x /\ i = j
    BY DEF Once
  <2> DEFINE u == IF p = o THEN n + i ELSE i
             v == IF x = o THEN n + j ELSE j
  <2>1. /\ u \in DOMAIN queue[p].items /\ P[p].items[i] = queue[p].items[u] /\ (p = o => i \in Nat)
        /\ v \in DOMAIN queue[x].items /\ P[x].items[j] = queue[x].items[v] /\ (x = o => j \in Nat)
    BY <1>7
  <2>2. p = x /\ u = v
    <3> HIDE DEF u, v
    <3>1. queue[p].items[u] = queue[x].items[v]
      BY <2>1
    <3>2. Once(queue)
      BY <1>0 DEF Sound
    <3> QED  BY <2>1, <3>1, <3>2 DEF Once
  <2> QED  BY <1>3, <2>1, <2>2
<1>14. TurnsAhead(P, D)
  <2> SUFFICES ASSUME NEW x \in Objects, NEW p \in Objects,
                      NEW i \in DOMAIN D[x].turn, NEW j \in DOMAIN P[p].items,
                      D[x].turn[i] = P[p].items[j]
               PROVE  p = x /\ j <= Taken(D[x])
    BY DEF TurnsAhead
  <2>1. x # o /\ D[x] = drain[x]
    BY <1>2
  <2>2. CASE p = o
    <3>1. n + j \in DOMAIN queue[p].items /\ drain[x].turn[i] = queue[p].items[n + j]
      BY <1>7, <2>1, <2>2
    <3>2. p = x
      BY <1>0, <2>1, <3>1 DEF Sound, TurnsAhead
    <3> QED  BY <2>1, <2>2, <3>2
  <2>3. CASE p # o
    BY <1>0, <1>1, <2>1, <2>3 DEF Sound, TurnsAhead
  <2> QED  BY <2>2, <2>3
<1>15. OnlyRegistered(P, D, registered, clears)
  BY <1>0, <1>1, <1>2 DEF Sound, OnlyRegistered
<1>16. NothingSpilled(P, D, registered, phase', overflowed)
  <2> SUFFICES ASSUME ~overflowed PROVE NothingSpilled(P, D, registered, phase', FALSE)
    BY DEF NothingSpilled
  <2>1. NothingSpilled(queue, drain, registered, phase, FALSE)
    BY <1>0 DEF Sound, NothingSpilled
  <2>2. ASSUME NEW p \in Objects
        PROVE  /\ P[p].droppedCount = 0
               /\ D[p].at = "running" =>
                    /\ D[p].kind # "summary"
                    /\ TakesItsTurn(P[p], D[p]) \/ (p # registered /\ P[p].items = <<>>)
    <3>1. CASE p = o
      BY <1>1, <1>2, <1>4, <2>1, <3>1 DEF NothingSpilled
    <3>2. CASE p # o
      BY <1>1, <1>2, <2>1, <3>2 DEF NothingSpilled
    <3> QED  BY <3>1, <3>2
  <2>3. ASSUME NEW m \in Messages, phase'[m] = "queued"
        PROVE  \E p \in Objects : \E i \in DOMAIN P[p].items : P[p].items[i] = m
    <3>1. phase[m] = "queued" /\ ~\E i \in DOMAIN drain[o].turn : drain[o].turn[i] = m
      BY <1>6, <2>3
    <3>2. PICK p \in Objects : \E i \in DOMAIN queue[p].items : queue[p].items[i] = m
      BY <2>1, <3>1 DEF NothingSpilled
    <3>3. CASE p = o
      <4>1. PICK j \in DOMAIN q.items : q.items[j] = m
        BY <3>2, <3>3
      <4>2. TakesItsTurn(q, drain[o])
        BY <2>1, <4>1 DEF NothingSpilled
      <4>3. n <= Len(q.items) /\ j \in Int /\ 1 <= j /\ j <= Len(q.items)
        BY <1>3, <4>1, <4>2 DEF TakesItsTurn, n
      <4>4. ~(j <= n)
        <5> SUFFICES ASSUME j <= n PROVE FALSE
          OBVIOUS
        <5>1. j \in 1..Taken(drain[o])
          BY <1>3, <4>3 DEF n
        <5> QED  BY <3>1, <4>1, <4>2, <5>1 DEF TakesItsTurn
      <4>5. j - n \in DOMAIN r.items /\ n + (j - n) = j
        BY <1>3, <1>4, <1>5, <4>3, <4>4
      <4>6. r.items[j - n] = q.items[j]
        BY <1>4, <4>5
      <4> QED  BY <1>1, <4>1, <4>5, <4>6
    <3>4. CASE p # o
      BY <1>1, <3>2, <3>4
    <3> QED  BY <3>3, <3>4
  <2> QED  BY <2>2, <2>3 DEF NothingSpilled
<1>17. Sound(P, D, registered, phase', recent, overflowed, clears)
  BY <1>8, <1>9, <1>10, <1>11, <1>12, <1>13, <1>14, <1>15, <1>16 DEF Sound
<1> QED  BY <1>17 DEF P, D

LEMMA TurnSucceedsIsSound ==
    ASSUME NEW o \in Objects, IInv, TurnSucceeds(o)
    PROVE  IInv'
<1> DEFINE q == queue[o]
           told == drain[o].kind # "one" /\ drain[o].summary
           rest == SubSeq(q.items, Taken(drain[o]) + 1, Len(q.items))
           r == IF told THEN [q EXCEPT !.items = rest, !.droppedCount = 0, !.summaryLines = <<>>]
                ELSE [q EXCEPT !.items = rest]
<1>1. /\ drain[o].at = "running" /\ UNCHANGED <<recent, clears, overflowed>>
      /\ phase' = [m \in Messages |-> IF m \in Range(drain[o].turn) THEN "answered" ELSE phase[m]]
      /\ NextIteration(o, [queue EXCEPT ![o] = r])
  BY DEF TurnSucceeds, Taken
<1>2. /\ queue \in [Objects -> QueueState] /\ drain \in [Objects -> DrainState]
      /\ clears \in 0..MaxClears /\ hasCallback \in BOOLEAN
  BY DEF IInv, Sound, Typed
<1>3. Relieved(q, r, Taken(drain[o]))
  <2>1. q \in QueueState /\ Taken(drain[o]) \in Nat
    BY <1>2, DrainFields
  <2> HIDE DEF told, q
  <2> QED  BY <2>1, RelievedFields
<1> HIDE DEF r
<1>4. Sound([queue EXCEPT ![o] = r], [drain EXCEPT ![o] = Pausing(drain[o])], registered,
            phase', recent, overflowed, clears)
  BY <1>1, <1>3, TakingIsSound
<1>5. Sound(queue', drain', registered', phase', recent, overflowed, clears) /\ hasCallback' \in BOOLEAN
  BY <1>1, <1>2, <1>4, NextIterationIsSound
<1> QED  BY <1>1, <1>2, <1>5 DEF IInv

LEMMA NextIsSound == IInv /\ [Next]_vars => IInv'
<1> SUFFICES ASSUME IInv, [Next]_vars PROVE IInv'
  OBVIOUS
<1>1. ASSUME NEW m \in Messages, OwnRunStarts(m) \/ OwnRunEnds(m) \/ Finalize(m) \/ SeesActiveRun(m)
      PROVE  IInv'
  BY <1>1, OwnRunIsSound
<1>2. ASSUME NEW m \in Messages, NEW mode \in Modes, NEW policy \in DropPolicies, Enqueue(m, mode, policy)
      PROVE  IInv'
  BY <1>2, EnqueueIsSound
<1>3. CASE ClearSessionQueues
  BY <1>3, ClearIsSound
<1>4. ASSUME NEW o \in Objects, Debounced(o) PROVE IInv'
  BY <1>4, DebouncedIsSound
<1>5. ASSUME NEW o \in Objects, StartBatch(o) PROVE IInv'
  BY <1>5, StartBatchIsSound
<1>6. ASSUME NEW o \in Objects, TurnSucceeds(o) PROVE IInv'
  BY <1>6, TurnSucceedsIsSound
<1>7. ASSUME NEW o \in Objects, TurnFails(o) PROVE IInv'
  BY <1>7, TurnFailsIsSound
<1>8. CASE UNCHANGED vars
  BY <1>8 DEF vars, IInv
<1> QED  BY <1>1, <1>2, <1>3, <1>4, <1>5, <1>6, <1>7, <1>8 DEF Next

LEMMA AlwaysSound == Spec => []IInv
BY InitIsSound, NextIsSound, PTL DEF Spec

-----------------------------------------------------------------------------
(* What the invariant gives. *)

\* The state keeps its types; queue and summary never outgrow the cap, a queue does not count
\* more dropped messages than there are, and its draining flag agrees with its drain, whatever
\* messages, settings, clears and failing turns come.
THEOREM QueueTypeCorrect == Spec => []TypeOK
<1>1. IInv => TypeOK
  <2> SUFFICES ASSUME IInv PROVE TypeOK
    OBVIOUS
  <2>1. /\ Typed(queue, drain, registered, phase, recent, overflowed) /\ Bounded(queue, recent)
        /\ InStep(queue, drain) /\ hasCallback \in BOOLEAN /\ clears \in 0..MaxClears
    BY DEF IInv, Sound
  <2>2. Cardinality(recent) \in Nat /\ Cardinality(Messages) \in Nat /\ Cardinality(recent) <= Cardinality(Messages)
    <3>1. recent \in SUBSET Messages
      BY <2>1 DEF Typed
    <3> QED  BY <3>1, FollowupQueueAssumption, FS_Subset, FS_CardinalityType
  <2>3. ASSUME NEW o \in Objects
        PROVE  /\ queue[o].items \in Seq(Messages) /\ Len(queue[o].items) <= Cap
               /\ queue[o].summaryLines \in Seq(Messages) /\ Len(queue[o].summaryLines) <= Cap
               /\ queue[o].droppedCount \in 0..Cardinality(Messages)
               /\ queue[o].draining = (drain[o].at # "idle")
               /\ drain[o].at \in {"idle", "debounce", "skipped", "running"}
               /\ drain[o].kind \in {"none", "one", "summary", "batch"}
    <3>1. queue[o] \in QueueState /\ drain[o] \in DrainState
      BY <2>1 DEF Typed
    <3>2. /\ Len(queue[o].items) <= Cap /\ Len(queue[o].summaryLines) <= Cap
          /\ queue[o].droppedCount <= Cardinality(recent)
      BY <2>1 DEF Bounded
    <3>3. queue[o].droppedCount \in 0..Cardinality(Messages)
      <4>1. queue[o].droppedCount \in Nat
        BY <3>1, QueueFields
      <4> QED  BY <2>2, <3>2, <4>1
    <3>4. queue[o].items \in Seq(Messages) /\ queue[o].summaryLines \in Seq(Messages)
      BY <3>1, QueueFields
    <3>5. /\ drain[o].at \in {"idle", "debounce", "skipped", "running"}
          /\ drain[o].kind \in {"none", "one", "summary", "batch"}
      BY <3>1 DEF DrainState
    <3>6. queue[o].draining = (drain[o].at # "idle")
      BY <2>1 DEF InStep
    <3> QED  BY <3>2, <3>3, <3>4, <3>5, <3>6
  <2> QED  BY <2>1, <2>3 DEF TypeOK, Typed
<1> QED  BY <1>1, AlwaysSound, PTL

\* A message never waits twice, however often it is delivered, in the object that a cleared
\* queue has left to its drain or in the one that has taken its place.
THEOREM NoMessageWaitsTwice == Spec => []WaitsOnce
<1>1. IInv => WaitsOnce
  BY DEF IInv, Sound, Once, WaitsOnce
<1> QED  BY <1>1, AlwaysSound, PTL

\* Without a /stop no queue is abandoned with messages in it: only the registered object, the
\* one that the next drain looks into, ever holds any.
THEOREM MessagesWaitWhereDrainsLook == Spec => []NothingIsAbandoned
<1>1. IInv => NothingIsAbandoned
  BY DEF IInv, Sound, OnlyRegistered, NothingIsAbandoned
<1> QED  BY <1>1, AlwaysSound, PTL

\* As long as nothing overflows, a message that was queued waits in a queue until a turn has
\* answered it or a /stop has cleared it: what a turn's success takes off is what the turn
\* carried, though the queue was appended to, cleared and replaced while it ran.
THEOREM QueuedMessagesKeepWaiting == Spec => []NothingVanishes
<1>1. IInv => NothingVanishes
  <2> SUFFICES ASSUME IInv, ~overflowed, NEW m \in Messages, phase[m] = "queued"
               PROVE  \E o \in Objects : Waits(m, o)
    BY DEF NothingVanishes, NothingIsLost
  <2>1. PICK o \in Objects : \E i \in DOMAIN queue[o].items : queue[o].items[i] = m
    BY DEF IInv, Sound, NothingSpilled
  <2>2. queue[o].items \in Seq(Messages)
    BY QueueFields DEF IInv, Sound, Typed
  <2>3. Waits(m, o)
    BY <2>1, <2>2, InRange DEF Waits
  <2> QED  BY <2>3
<1> QED  BY <1>1, AlwaysSound, PTL

-----------------------------------------------------------------------------
(* Turns that start. *)

\* No drain but those that D has running runs a turn afterwards.
StartsNone(D) == \A o \in Objects : drain'[o].at = "running" => D[o].at = "running"

LEMMA SchedulingStartsNone ==
    ASSUME NEW Q, NEW D \in [Objects -> DrainState], NEW R \in Objects \cup {NoQueue}, ScheduleDrain(Q, D, R)
    PROVE  StartsNone(D)
<1> DEFINE ready == [Idle EXCEPT !.at = "debounce"]
<1>1. drain' = D \/ (R # NoQueue /\ drain' = [D EXCEPT ![R] = ready])
  BY DEF ScheduleDrain
<1>2. ready.at = "debounce"
  BY DEF Idle
<1> HIDE DEF ready
<1> QED  BY <1>1, <1>2 DEF StartsNone

LEMMA EndingStartsNone ==
    ASSUME NEW Q, NEW o \in Objects, drain \in [Objects -> DrainState],
           registered \in Objects \cup {NoQueue}, EndDrain(o, Q)
    PROVE  StartsNone(drain)
<1> DEFINE D == [drain EXCEPT ![o] = Idle]
<1>1. D \in [Objects -> DrainState] /\ D[o] = Idle /\ \A p \in Objects \ {o} : D[p] = drain[p]
  BY NewQueueType
<1>2. Idle.at = "idle"
  BY DEF Idle
<1>3. drain' = D \/ \E P : ScheduleDrain(P, D, registered)
  BY DEF EndDrain
<1> HIDE DEF D
<1>4. StartsNone(D)
  <2>1. CASE drain' = D
    BY <2>1 DEF StartsNone
  <2>2. CASE \E P : ScheduleDrain(P, D, registered)
    BY <1>1, <2>2, SchedulingStartsNone
  <2> QED  BY <1>3, <2>1, <2>2
<1> QED  BY <1>1, <1>2, <1>4 DEF StartsNone

\* What the turn of a step that starts one carries.
LEMMA StartCarriesWaiting ==
    ASSUME NEW o \in Objects, IInv, NEW kind, NEW turn, NEW alone, Start(o, kind, turn, alone),
           \A x \in Range(turn) : \E j \in DOMAIN queue[o].items : x = queue[o].items[j],
           NEW p \in Objects, drain[p].at # "running", drain'[p].at = "running",
           NEW m \in Range(drain'[p].turn)
    PROVE  phase[m] = "queued"
<1> DEFINE d == [at |-> "running", individually |-> alone, kind |-> kind, turn |-> turn,
                 summary |-> SummaryDue(queue[o])]
<1>1. drain' = [drain EXCEPT ![o] = d] /\ d.turn = turn
  BY DEF Start
<1> HIDE DEF d
<1>2. drain \in [Objects -> DrainState]
  BY DEF IInv, Sound, Typed
<1>3. p = o /\ drain'[p].turn = turn
  BY <1>1, <1>2
<1>4. PICK j \in DOMAIN queue[o].items : m = queue[o].items[j]
  BY <1>3
<1> QED  BY <1>4 DEF IInv, Sound, WaitersQueued

\* A turn that starts carries only messages that wait for one: none that was answered, that gave
\* way to the cap or that a /stop has cleared, although the drain may have outlived its queue and
\* decided on the turn's kind before an await.
THEOREM TurnsCarryWhatWaits == Spec => TurnsCarryWaitingMessages
<1> DEFINE Carry == \A o \in Objects : drain[o].at # "running" /\ drain'[o].at = "running"
                        => \A m \in Range(drain'[o].turn) : phase[m] = "queued"
<1>1. IInv /\ [Next]_vars => Carry
  <2> SUFFICES ASSUME IInv, [Next]_vars,
                      NEW p \in Objects, drain[p].at # "running", drain'[p].at = "running",
                      NEW m \in Range(drain'[p].turn)
               PROVE  phase[m] = "queued"
    OBVIOUS
  <2>0. /\ drain \in [Objects -> DrainState] /\ registered \in Objects \cup {NoQueue}
        /\ \A o \in Objects : queue[o].items \in Seq(Messages)
    BY QueueFields DEF IInv, Sound, Typed
  <2>1. ~StartsNone(drain) /\ drain' # drain
    BY DEF StartsNone
  <2>2. ASSUME NEW n \in Messages PROVE ~(OwnRunStarts(n) \/ OwnRunEnds(n) \/ Finalize(n) \/ SeesActiveRun(n))
    BY <2>0, <2>1, SchedulingStartsNone DEF OwnRunStarts, OwnRunEnds, Finalize, SeesActiveRun
  <2>3. ASSUME NEW n \in Messages, NEW mode \in Modes, NEW policy \in DropPolicies PROVE ~Enqueue(n, mode, policy)
    <3> SUFFICES ASSUME Enqueue(n, mode, policy) PROVE FALSE
      OBVIOUS
    <3>1. Current \in Objects
      BY ConfiguringIsSound DEF Enqueue
    <3>2. \E Q : ScheduleDrain(Q, drain, Current)
      BY <2>1 DEF Enqueue
    <3> QED  BY <2>0, <2>1, <3>1, <3>2, SchedulingStartsNone
  <2>4. ~ClearSessionQueues /\ ~UNCHANGED vars
    BY <2>1 DEF ClearSessionQueues, vars
  <2>5. ASSUME NEW o \in Objects, NEW Q PROVE ~EndDrain(o, Q)
    BY <2>0, <2>1, EndingStartsNone
  <2>6. ASSUME NEW o \in Objects PROVE ~TurnFails(o) /\ ~TurnSucceeds(o)
    <3>1. ~TurnFails(o)
      BY <2>5 DEF TurnFails
    <3>2. ASSUME NEW Q, NextIteration(o, Q) PROVE FALSE
      <4>1. drain' = [drain EXCEPT ![o] = Pausing(drain[o])]
        BY <2>5, <3>2 DEF NextIteration, Pausing
      <4>2. Pausing(drain[o]).at = "debounce"
        BY <2>0, PausingFields
      <4> QED  BY <2>0, <2>1, <4>1, <4>2 DEF StartsNone
    <3>3. ~TurnSucceeds(o)
      BY <3>2 DEF TurnSucceeds
    <3> QED  BY <3>1, <3>3
  <2>7. ASSUME NEW o \in Objects, NEW alone, StartOne(o, alone) PROVE phase[m] = "queued"
    <3> DEFINE turn == <<Head(queue[o].items)>>
    <3>1. Start(o, "one", turn, alone) /\ queue[o].items # <<>>
      BY <2>5, <2>7 DEF StartOne
    <3>2. 1 \in DOMAIN queue[o].items /\ Head(queue[o].items) = queue[o].items[1]
      BY <2>0, <3>1, EmptySeq, LenProperties
    <3>3. \A x \in Range(turn) : \E j \in DOMAIN queue[o].items : x = queue[o].items[j]
      BY <3>2 DEF Range
    <3> HIDE DEF turn
    <3> QED  BY <3>1, <3>3, StartCarriesWaiting
  <2>8. ASSUME NEW o \in Objects, Debounced(o) PROVE phase[m] = "queued"
    <3> DEFINE alone == drain[o].individually
    <3>1. StartOne(o, TRUE) \/ StartOne(o, alone) \/ Start(o, "summary", <<>>, alone)
          \/ drain' = [drain EXCEPT ![o].at = "skipped"]
      BY <2>5, <2>8 DEF Debounced
    <3>2. CASE StartOne(o, TRUE) \/ StartOne(o, alone)
      BY <2>7, <3>2
    <3>3. CASE Start(o, "summary", <<>>, alone)
      <4>1. \A x \in Range(<<>>) : \E j \in DOMAIN queue[o].items : x = queue[o].items[j]
        BY DEF Range
      <4> QED  BY <3>3, <4>1, StartCarriesWaiting
    <3>4. CASE drain' = [drain EXCEPT ![o].at = "skipped"]
      <4>1. [drain[o] EXCEPT !.at = "skipped"].at = "skipped"
        BY <2>0 DEF DrainState
      <4> QED  BY <2>0, <2>1, <3>4, <4>1 DEF StartsNone
    <3> QED  BY <3>1, <3>2, <3>3, <3>4
  <2>9. ASSUME NEW o \in Objects, StartBatch(o) PROVE phase[m] = "queued"
    <3>1. Start(o, "batch", queue[o].items, drain[o].individually)
      BY <2>5, <2>9 DEF StartBatch
    <3>2. \A x \in Range(queue[o].items) : \E j \in DOMAIN queue[o].items : x = queue[o].items[j]
      BY DEF Range
    <3> QED  BY <3>1, <3>2, StartCarriesWaiting
  <2> QED  BY <2>2, <2>3, <2>4, <2>6, <2>8, <2>9 DEF Next
<1>2. IInv /\ [Next]_vars => [Carry]_vars
  BY <1>1
<1> QED  BY <1>2, AlwaysSound, PTL DEF Spec, TurnsCarryWaitingMessages

=============================================================================
