-------------------------- MODULE HeartbeatProofs --------------------------
(***************************************************************************)
(* Proofs about the heartbeat: of the wake layer for any targets,          *)
(* priorities, batch slots and number of lives, and of the runner on top   *)
(* of it for any agents, configurations and other wakes.                   *)
(*                                                                         *)
(* PendingIsTimed is not inductive: a wake that is put back keeps a timer  *)
(* busy only if it is a wake at all, so the invariant also says that the   *)
(* current wake of a batch, and those left in it, have a priority; and the *)
(* finally block, which schedules again when `scheduled` is set, finds     *)
(* pending wakes then because a timer is set then, too.                    *)
(*                                                                         *)
(* The runner's steps are steps of the wake layer or leave it alone, so it *)
(* has the wake layer's invariant for free.  Its own types add that a call *)
(* is under way exactly in a batch, and that only runners that are started *)
(* and not stopped have an interval timer.                                 *)
(***************************************************************************)
EXTENDS HeartbeatRunner, FiniteSetTheorems, TLAPS

BatchesCarryWakes ==
    \A b \in Batches : batch[b].handler # NoHandler =>
        /\ batch[b].current \in Targets
        /\ batch[b].left \cup {batch[b].current} \subseteq Waiting(batch[b].wakes)

ScheduledIsTimed == scheduled => timer # "none"

IInv == WakeTypeOK /\ BatchesCarryWakes /\ ScheduledIsTimed /\ PendingIsTimed /\ BatchesAreSerial

\* What the record types mean, field by field.
BatchType == [handler : 0..MaxLives, wakes : Wakes, left : SUBSET Targets,
              current : Targets \cup {NoTarget}]

-----------------------------------------------------------------------------
\* A wake that is coalesced into pending wakes is one of them, and none is lost.
LEMMA CoalesceAdds ==
    ASSUME NEW P \in Wakes, NEW t \in Targets, NEW p \in Priorities
    PROVE  /\ Coalesce(P, t, p) \in Wakes
           /\ Waiting(Coalesce(P, t, p)) = Waiting(P) \cup {t}
  BY HeartbeatWakeAssumption DEF Coalesce, Wakes, Waiting, NoWake

LEMMA ScheduleSets ==
    ASSUME NEW T \in {"none", "normal", "retry"}, NEW kind \in {"normal", "retry"}
    PROVE  Schedule(T, kind) \in {"normal", "retry"}
  BY DEF Schedule

\* An empty slot is a batch record.
LEMMA FreeType == Free \in BatchType
  BY HeartbeatWakeAssumption DEF Free, BatchType, Wakes, NoHandler, NoWake, NoTarget

\* The batches under way can be counted.
LEMMA BusyIsFinite == IsFiniteSet(Busy) /\ Cardinality(Busy) \in Nat
<1>1. Busy \in SUBSET Batches
  BY DEF Busy
<1> QED
  BY <1>1, HeartbeatWakeAssumption, FS_Subset, FS_CardinalityType

\* What every step may rely on.
LEMMA TypeFacts ==
    ASSUME WakeTypeOK
    PROVE  /\ handler \in Nat /\ lives \in Nat /\ handler <= lives /\ lives <= MaxLives /\ MaxLives \in Nat
           /\ pending \in Wakes /\ timer \in {"none", "normal", "retry"}
           /\ batch \in [Batches -> BatchType] /\ cooling \subseteq Targets
           /\ scheduled \in BOOLEAN /\ running \in BOOLEAN /\ interrupted \in Nat
  BY HeartbeatWakeAssumption DEF WakeTypeOK, BatchType

-----------------------------------------------------------------------------
\* Nothing waits and nothing is under way at the start.
LEMMA InitIInv == WakeInit => IInv
<1> SUFFICES ASSUME WakeInit PROVE IInv
  OBVIOUS
<1>1. batch \in [Batches -> BatchType] /\ \A b \in Batches : batch[b].handler = NoHandler
  BY FreeType DEF WakeInit, Free
<1>2. pending \in Wakes /\ Waiting(pending) = {}
  BY DEF WakeInit, Wakes, Waiting
<1>3. WakeTypeOK
  <2>1. handler \in 0..lives /\ lives \in 0..MaxLives
    BY HeartbeatWakeAssumption DEF WakeInit, NoHandler
  <2>2. /\ timer \in {"none", "normal", "retry"} /\ cooling \subseteq Targets
        /\ {scheduled, running} \subseteq BOOLEAN
    BY DEF WakeInit
  <2>3. interrupted \in 0..lives
    BY DEF WakeInit
  <2> QED
    BY <1>1, <1>2, <2>1, <2>2, <2>3 DEF WakeTypeOK, BatchType
<1>4. BatchesCarryWakes
  BY <1>1 DEF BatchesCarryWakes
<1>5. PendingIsTimed
  BY <1>2 DEF PendingIsTimed, WakeInit
<1>6. BatchesAreSerial
  <2>1. Busy = {}
    BY <1>1 DEF Busy
  <2> QED
    BY <2>1, FS_EmptySet DEF BatchesAreSerial, WakeInit
<1>7. ScheduledIsTimed
  BY DEF ScheduledIsTimed, WakeInit
<1> QED
  BY <1>3, <1>4, <1>5, <1>6, <1>7 DEF IInv

\* A request puts a wake under the timer.
LEMMA RequestStep ==
    ASSUME IInv, NEW t \in Targets, NEW p \in Priorities, RequestHeartbeatNow(t, p)
    PROVE  IInv'
<1> USE DEF IInv
<1>1. pending' \in Wakes /\ Waiting(pending') # {}
  <2>1. pending \in Wakes
    BY TypeFacts
  <2>2. /\ Coalesce(pending, t, p) \in Wakes
        /\ Waiting(Coalesce(pending, t, p)) = Waiting(pending) \cup {t}
    BY <2>1, CoalesceAdds
  <2> QED
    BY <2>2 DEF RequestHeartbeatNow, Waiting
<1>2. timer' \in {"normal", "retry"}
  BY TypeFacts, ScheduleSets DEF RequestHeartbeatNow
<1>3. UNCHANGED <<handler, lives, scheduled, running, batch, cooling, interrupted>>
  BY DEF RequestHeartbeatNow
<1>4. WakeTypeOK'
  BY <1>1, <1>2, <1>3 DEF WakeTypeOK, Wakes
<1>5. BatchesCarryWakes'
  BY <1>3 DEF BatchesCarryWakes, Waiting
<1>6. PendingIsTimed'
  BY <1>1, <1>2 DEF PendingIsTimed
<1>7. BatchesAreSerial'
  BY <1>3 DEF BatchesAreSerial, Busy
<1>8. ScheduledIsTimed'
  BY <1>2 DEF ScheduledIsTimed
<1> QED
  BY <1>4, <1>5, <1>6, <1>7, <1>8

\* A new handler takes over what waits; a batch that loses the running flag counts as interrupted.
LEMMA SetHandlerStep ==
    ASSUME IInv, SetHandler
    PROVE  IInv'
<1> USE DEF IInv
<1>1. /\ lives' = lives + 1 /\ handler' = lives + 1 /\ lives < MaxLives
      /\ timer' = IF Waiting(pending) # {} THEN "normal" ELSE "none"
      /\ scheduled' = FALSE /\ running' = FALSE /\ cooling' = {}
      /\ interrupted' = IF running THEN interrupted + 1 ELSE interrupted
      /\ pending' = pending /\ batch' = batch
  BY DEF SetHandler
<1>2. WakeTypeOK'
  <2>1. lives' \in 0..MaxLives /\ handler' \in 0..lives'
    BY <1>1, TypeFacts
  <2>2. interrupted' \in 0..lives' /\ timer' \in {"none", "normal", "retry"}
    BY <1>1, TypeFacts DEF WakeTypeOK
  <2> QED
    BY <1>1, <2>1, <2>2 DEF WakeTypeOK, Wakes
<1>3. BatchesCarryWakes'
  BY <1>1 DEF BatchesCarryWakes, Waiting
<1>4. PendingIsTimed'
  <2>1. Waiting(pending') = Waiting(pending)
    BY <1>1
  <2> QED
    BY <1>1, <2>1 DEF PendingIsTimed
<1>5. BatchesAreSerial'
  <2>1. Busy' = Busy
    BY <1>1 DEF Busy
  <2> QED
    BY <1>1, <2>1, TypeFacts, BusyIsFinite DEF BatchesAreSerial
<1>6. ScheduledIsTimed'
  BY <1>1 DEF ScheduledIsTimed
<1> QED
  BY <1>2, <1>3, <1>4, <1>5, <1>6

\* A disposer can only leave the system without a handler.
LEMMA DisposeStep ==
    ASSUME IInv, NEW h \in 1..MaxLives, DisposeHandler(h)
    PROVE  IInv'
<1> USE DEF IInv
<1>1. /\ handler' = handler \/ handler' = NoHandler
      /\ UNCHANGED <<lives, pending, timer, scheduled, running, batch, cooling, interrupted>>
  BY DEF DisposeHandler
<1>2. WakeTypeOK'
  <2>1. handler' \in 0..lives'
    BY <1>1, TypeFacts DEF NoHandler
  <2> QED
    BY <1>1, <2>1 DEF WakeTypeOK, Wakes
<1>3. BatchesCarryWakes' /\ BatchesAreSerial' /\ ScheduledIsTimed'
  BY <1>1 DEF BatchesCarryWakes, Waiting, BatchesAreSerial, Busy, ScheduledIsTimed
<1>4. PendingIsTimed'
  BY <1>1 DEF PendingIsTimed, Waiting
<1> QED
  BY <1>2, <1>3, <1>4

-----------------------------------------------------------------------------
\* The batch that is taken consists of wakes, and it is the only one of its life.
LEMMA TakeBatchStep ==
    ASSUME IInv, TakeBatch, UNCHANGED <<handler, lives, interrupted>>
    PROVE  IInv'
<1> USE DEF IInv
<1>1. PICK b \in Batches \ Busy, t \in Waiting(pending) :
         batch' = [batch EXCEPT ![b] = [handler |-> handler, wakes |-> pending,
                                        left |-> Waiting(pending) \ {t}, current |-> t]]
  BY DEF TakeBatch
<1> DEFINE B == [handler |-> handler, wakes |-> pending, left |-> Waiting(pending) \ {t}, current |-> t]
<1>2. B \in BatchType /\ b \in Batches /\ Batches # {}
  BY <1>1, TypeFacts DEF BatchType, Waiting, TakeBatch, Busy
<1>3. /\ timer' = "none" /\ scheduled' = FALSE /\ running' = TRUE /\ cooling' = {}
      /\ handler' = handler /\ lives' = lives /\ interrupted' = interrupted
      /\ handler # NoHandler /\ running = FALSE
  BY TypeFacts DEF TakeBatch
<1>4. pending' \in Wakes /\ Waiting(pending') = {}
  BY DEF TakeBatch, Wakes, Waiting
<1> HIDE DEF B
<1>5. batch' = [batch EXCEPT ![b] = B]
  BY <1>1 DEF B
<1>6. WakeTypeOK'
  <2>1. batch' \in [Batches -> BatchType]
    BY <1>2, <1>5, TypeFacts
  <2> QED
    BY <1>3, <1>4, <2>1 DEF WakeTypeOK, BatchType, Wakes
<1>7. BatchesCarryWakes'
  <2>1. B.current \in Targets /\ B.left \cup {B.current} \subseteq Waiting(B.wakes)
    BY <1>1 DEF B, Waiting
  <2>2. ASSUME NEW c \in Batches PROVE batch'[c] = IF c = b THEN B ELSE batch[c]
    BY <1>5, TypeFacts
  <2> QED
    BY <2>1, <2>2 DEF BatchesCarryWakes, Waiting
<1>8. PendingIsTimed'
  BY <1>3, <1>4 DEF PendingIsTimed
<1>9. BatchesAreSerial'
  <2>1. B.handler # NoHandler
    BY <1>3 DEF B
  <2>2. ASSUME NEW c \in Batches PROVE batch'[c] = IF c = b THEN B ELSE batch[c]
    BY <1>5, TypeFacts
  <2>3. Busy' = Busy \cup {b}
    BY <1>2, <2>1, <2>2 DEF Busy
  <2>4. Cardinality(Busy') = Cardinality(Busy) + 1
    BY <1>1, <2>3, BusyIsFinite, FS_AddElement
  <2>5. Cardinality(Busy) <= interrupted
    BY <1>3, TypeFacts, BusyIsFinite DEF BatchesAreSerial
  <2>6. Cardinality(Busy') <= interrupted' + 1
    BY <1>3, <2>4, <2>5, TypeFacts, BusyIsFinite
  <2> QED
    BY <1>3, <2>3, <2>6 DEF BatchesAreSerial
<1>10. ScheduledIsTimed'
  BY <1>3 DEF ScheduledIsTimed
<1> QED
  BY <1>6, <1>7, <1>8, <1>9, <1>10

\* The timer fires without a handler, during a batch, or for a batch.
LEMMA TimerStep ==
    ASSUME IInv, TimerFires
    PROVE  IInv'
<1> USE DEF IInv
<1>1. CASE handler = NoHandler /\ timer' = "none" /\ scheduled' = FALSE
           /\ UNCHANGED <<pending, running, batch, cooling, handler, lives, interrupted>>
  <2>1. WakeTypeOK'
    BY <1>1 DEF WakeTypeOK, Wakes
  <2>2. BatchesCarryWakes' /\ BatchesAreSerial'
    BY <1>1 DEF BatchesCarryWakes, Waiting, BatchesAreSerial, Busy
  <2>3. PendingIsTimed' /\ ScheduledIsTimed'
    BY <1>1 DEF PendingIsTimed, ScheduledIsTimed
  <2> QED
    BY <2>1, <2>2, <2>3
<1>2. CASE scheduled' = TRUE /\ timer # "none"
           /\ UNCHANGED <<timer, pending, running, batch, cooling, handler, lives, interrupted>>
  <2>1. WakeTypeOK'
    BY <1>2 DEF WakeTypeOK, Wakes
  <2>2. BatchesCarryWakes' /\ BatchesAreSerial' /\ PendingIsTimed' /\ ScheduledIsTimed'
    BY <1>2 DEF BatchesCarryWakes, Waiting, BatchesAreSerial, Busy, PendingIsTimed, ScheduledIsTimed
  <2> QED
    BY <2>1, <2>2
<1>3. CASE TakeBatch /\ UNCHANGED <<handler, lives, interrupted>>
  BY <1>3, TakeBatchStep
<1> QED
  BY <1>1, <1>2, <1>3 DEF TimerFires

-----------------------------------------------------------------------------
\* A batch ends and leaves pending wakes that are under a timer.
LEMMA EndBatchStep ==
    ASSUME IInv, NEW b \in Busy, NEW P \in Wakes, NEW T \in {"none", "normal", "retry"},
           EndBatch(b, P, T), T # "none" => Waiting(P) # {}, scheduled => Waiting(P) # {},
           cooling' \subseteq Targets, UNCHANGED <<handler, lives, scheduled, interrupted>>
    PROVE  IInv'
<1> USE DEF IInv
<1>1. /\ batch' = [batch EXCEPT ![b] = Free] /\ pending' = P /\ running' = FALSE
      /\ handler' = handler /\ lives' = lives /\ scheduled' = scheduled /\ interrupted' = interrupted
      /\ timer' = IF Waiting(P) # {} \/ scheduled THEN Schedule(T, "normal") ELSE T
  BY DEF EndBatch
<1>2. timer' \in {"none", "normal", "retry"} /\ (timer' # "none" <=> Waiting(P) # {})
  <2>1. Schedule(T, "normal") \in {"normal", "retry"}
    BY ScheduleSets
  <2> QED
    BY <1>1, <2>1
<1>3. batch \in [Batches -> BatchType] /\ b \in Batches
  BY TypeFacts DEF Busy
<1>4. WakeTypeOK'
  <2>1. batch' \in [Batches -> BatchType]
    BY <1>1, <1>3, FreeType
  <2> QED
    BY <1>1, <1>2, <2>1 DEF WakeTypeOK, BatchType, Wakes
<1>5. \A c \in Batches : batch'[c] = IF c = b THEN Free ELSE batch[c]
  BY <1>1, <1>3
<1>6. Free.handler = NoHandler
  BY DEF Free
<1>7. BatchesCarryWakes'
  BY <1>5, <1>6 DEF BatchesCarryWakes, Waiting
<1>8. PendingIsTimed'
  BY <1>1, <1>2 DEF PendingIsTimed
<1>9. BatchesAreSerial'
  <2>1. Busy' = Busy \ {b}
    BY <1>5, <1>6 DEF Busy
  <2>2. Cardinality(Busy') = Cardinality(Busy) - 1
    BY <2>1, BusyIsFinite, FS_RemoveElement
  <2>3. Cardinality(Busy') <= interrupted'
    BY <1>1, <2>2, TypeFacts, BusyIsFinite DEF BatchesAreSerial
  <2> QED
    BY <1>1, <2>3, TypeFacts DEF BatchesAreSerial
<1>10. ScheduledIsTimed'
  BY <1>1, <1>2 DEF ScheduledIsTimed
<1> QED
  BY <1>4, <1>7, <1>8, <1>9, <1>10

\* The handler answers: the wake that met requests in flight is put back under a timer.
LEMMA CallReturnsStep ==
    ASSUME IInv, NEW b \in Batches, NEW inFlight \in BOOLEAN, CallReturns(b, inFlight)
    PROVE  IInv'
<1> USE DEF IInv
<1> DEFINE B == batch[b]
           P == IF inFlight THEN Coalesce(pending, B.current, B.wakes[B.current]) ELSE pending
           T == IF inFlight THEN Schedule(timer, "retry") ELSE timer
<1>1. b \in Busy /\ UNCHANGED <<handler, lives, scheduled, interrupted>>
  BY DEF CallReturns
<1>2. /\ B \in BatchType /\ B.handler # NoHandler /\ B.current \in Targets
      /\ B.wakes[B.current] \in Priorities /\ B.left \subseteq Waiting(B.wakes)
  BY <1>1, TypeFacts DEF BatchesCarryWakes, Busy, BatchType, Wakes, Waiting
<1>3. pending \in Wakes /\ timer \in {"none", "normal", "retry"}
  BY TypeFacts
<1>4. P \in Wakes /\ (inFlight => Waiting(P) = Waiting(pending) \cup {B.current})
  BY <1>2, <1>3, CoalesceAdds
<1>5. T \in {"none", "normal", "retry"} /\ (inFlight => T # "none")
  BY <1>3, ScheduleSets
<1>6. /\ T # "none" => Waiting(P) # {}
      /\ handler # NoHandler /\ Waiting(P) # {} => T # "none"
      /\ scheduled => Waiting(P) # {} /\ T # "none"
  BY <1>4, <1>5 DEF PendingIsTimed, ScheduledIsTimed
<1>7. cooling' \subseteq Targets
  BY <1>2, TypeFacts DEF CallReturns
<1>8. CASE EndBatch(b, P, T)
  <2> HIDE DEF P, T
  <2> QED
    BY <1>1, <1>4, <1>5, <1>6, <1>7, <1>8, EndBatchStep
<1>9. CASE /\ \E t \in B.left : batch' = [batch EXCEPT ![b].current = t, ![b].left = B.left \ {t}]
           /\ pending' = P /\ timer' = T /\ UNCHANGED running
  <2>1. PICK t \in B.left : batch' = [batch EXCEPT ![b].current = t, ![b].left = B.left \ {t}]
    BY <1>9
  <2>2. t \in Targets /\ t \in Waiting(B.wakes)
    BY <1>2 DEF Waiting
  <2> DEFINE C == [B EXCEPT !.current = t, !.left = B.left \ {t}]
  <2>3. /\ C \in BatchType /\ C.handler = B.handler /\ C.wakes = B.wakes
        /\ C.current = t /\ C.left = B.left \ {t}
    BY <1>2, <2>2 DEF BatchType
  <2>4. batch' = [batch EXCEPT ![b] = C]
    BY <2>1, TypeFacts
  <2> HIDE DEF C, P, T
  <2>5. \A c \in Batches : batch'[c] = IF c = b THEN C ELSE batch[c]
    BY <2>4, TypeFacts
  <2>6. WakeTypeOK'
    <3>1. batch' \in [Batches -> BatchType]
      BY <2>3, <2>4, TypeFacts
    <3> QED
      BY <1>1, <1>4, <1>5, <1>7, <1>9, <3>1 DEF WakeTypeOK, BatchType, Wakes
  <2>7. BatchesCarryWakes'
    BY <1>2, <2>2, <2>3, <2>5 DEF BatchesCarryWakes, Waiting
  <2>8. PendingIsTimed' /\ ScheduledIsTimed'
    <3>1. Waiting(pending)' = Waiting(P)
      BY <1>9 DEF Waiting
    <3> QED
      BY <1>1, <1>6, <1>9, <3>1 DEF PendingIsTimed, ScheduledIsTimed
  <2>9. BatchesAreSerial'
    <3>1. Busy' = Busy
      BY <1>2, <2>3, <2>5 DEF Busy
    <3> QED
      BY <1>1, <1>9, <3>1 DEF BatchesAreSerial
  <2> QED
    BY <2>6, <2>7, <2>8, <2>9
<1> QED
  BY <1>8, <1>9 DEF CallReturns

\* The handler throws: the whole batch is put back under a retry timer.
LEMMA CallThrowsStep ==
    ASSUME IInv, NEW b \in Batches, CallThrows(b)
    PROVE  IInv'
<1> USE DEF IInv
<1> DEFINE W == batch[b].wakes
           P == [t \in Targets |-> IF W[t] = NoWake THEN pending[t] ELSE Coalesce(pending, t, W[t])[t]]
           T == Schedule(timer, "retry")
<1>1. b \in Busy /\ EndBatch(b, P, T) /\ cooling' = cooling \cup Waiting(W)
      /\ UNCHANGED <<handler, lives, scheduled, interrupted>>
  BY DEF CallThrows
<1>2. W \in Wakes /\ batch[b].current \in Waiting(W) /\ batch[b].current \in Targets
  BY <1>1, TypeFacts DEF BatchesCarryWakes, Busy, BatchType
<1>3. pending \in Wakes
  BY TypeFacts
<1> HIDE DEF W
<1>4. ASSUME NEW t \in Targets, W[t] # NoWake
      PROVE  Coalesce(pending, t, W[t])[t] \in Priorities
  <2>1. W[t] \in Priorities /\ pending[t] \in Priorities \cup {NoWake} /\ Priorities \subseteq 0..3
    BY <1>2, <1>3, <1>4, HeartbeatWakeAssumption DEF Wakes
  <2>2. Coalesce(pending, t, W[t])[t] = IF W[t] >= pending[t] THEN W[t] ELSE pending[t]
    BY <1>3 DEF Coalesce, Wakes
  <2>3. W[t] \in 0..3
    BY <2>1
  <2>4. CASE pending[t] = NoWake
    <3>1. W[t] >= pending[t]
      BY <2>3, <2>4 DEF NoWake
    <3> QED
      BY <2>1, <2>2, <3>1
  <2>5. CASE pending[t] # NoWake
    BY <2>1, <2>2, <2>5
  <2> QED
    BY <2>4, <2>5
<1>5. NoWake \notin Priorities
  BY HeartbeatWakeAssumption DEF NoWake
<1>6. P \in Wakes /\ batch[b].current \in Waiting(P)
  BY <1>2, <1>3, <1>4, <1>5 DEF Wakes, Waiting
<1>7. T \in {"none", "normal", "retry"}
  BY TypeFacts, ScheduleSets
<1>8. cooling' \subseteq Targets
  BY <1>1, TypeFacts DEF Waiting
<1> HIDE DEF P, T
<1> QED
  BY <1>1, <1>6, <1>7, <1>8, EndBatchStep

-----------------------------------------------------------------------------
\* IInv is inductive.
LEMMA NextIInv == IInv /\ [WakeNext]_wakeVars => IInv'
<1> SUFFICES ASSUME IInv, [WakeNext]_wakeVars PROVE IInv'
  OBVIOUS
<1>1. ASSUME NEW t \in Targets, NEW p \in Priorities, RequestHeartbeatNow(t, p) PROVE IInv'
  BY <1>1, RequestStep
<1>2. CASE SetHandler
  BY <1>2, SetHandlerStep
<1>3. ASSUME NEW h \in 1..MaxLives, DisposeHandler(h) PROVE IInv'
  BY <1>3, DisposeStep
<1>4. CASE TimerFires
  BY <1>4, TimerStep
<1>5. ASSUME NEW b \in Batches, CallThrows(b) PROVE IInv'
  BY <1>5, CallThrowsStep
<1>6. ASSUME NEW b \in Batches, NEW inFlight \in BOOLEAN, CallReturns(b, inFlight) PROVE IInv'
  BY <1>6, CallReturnsStep
<1>7. CASE UNCHANGED wakeVars
  BY <1>7 DEF wakeVars, IInv, WakeTypeOK, Wakes, BatchesCarryWakes, Waiting, ScheduledIsTimed,
              PendingIsTimed, BatchesAreSerial, Busy
<1> QED
  BY <1>1, <1>2, <1>3, <1>4, <1>5, <1>6, <1>7 DEF WakeNext

LEMMA Inductive == WakeSpec => []IInv
  BY InitIInv, NextIInv, PTL DEF WakeSpec

\* The wake layer's variables keep their types.
THEOREM WakeTypeCorrect == WakeSpec => []WakeTypeOK
  BY Inductive, PTL DEF IInv

\* Under a registered handler a pending wake always has a timer, and a timer always has a wake,
\* for any number of handovers and any way the handler answers.
THEOREM WakesAreTimed == WakeSpec => []PendingIsTimed
  BY Inductive, PTL DEF IInv

\* As many batches as handovers have interrupted, and one more: a flag that is dropped by one
\* that belongs to an earlier life costs one overlap each time, however many lives there are.
THEOREM OneBatchAtATime == WakeSpec => []BatchesAreSerial
  BY Inductive, PTL DEF IInv
-----------------------------------------------------------------------------
(* The runner uses the wake layer as it is meant to be used. *)

LEMMA RunnerFacts == Everyone \in Targets /\ Interval \in Priorities
BY HeartbeatRunnerAssumption

\* What the steps of the runner do to the wake layer.
LEMMA RunnerStepIsWakeStep == RunnerNext => [WakeNext]_wakeVars
<1> SUFFICES ASSUME RunnerNext PROVE [WakeNext]_wakeVars
  OBVIOUS
<1>1. CASE WakeTimerFires
  BY <1>1 DEF WakeTimerFires, WakeNext
<1>2. ASSUME NEW w \in Requested, RequestWake(w[1], w[2]) PROVE WakeNext
  <2>1. w[1] \in Targets /\ w[2] \in Priorities
    BY HeartbeatRunnerAssumption
  <2> QED  BY <1>2, <2>1 DEF RequestWake, WakeNext
<1>3. ASSUME NEW A \in Configs, StartRunner(A) PROVE WakeNext
  BY <1>3 DEF StartRunner, WakeNext
<1>4. ASSUME NEW h \in Lives, IntervalFires(h) PROVE WakeNext
  BY <1>4, RunnerFacts DEF IntervalFires, WakeNext
<1>5. ASSUME NEW h \in Lives, StopRunner(h) PROVE WakeNext
  BY <1>5 DEF StopRunner, WakeNext, Lives
<1>6. ASSUME NEW h \in Lives, NEW a \in Agents, BecomesDue(h, a) PROVE UNCHANGED wakeVars
  BY <1>6 DEF BecomesDue
<1>7. ASSUME NEW h \in Lives, NEW A, NEW D, UpdateConfig(h, A, D) PROVE UNCHANGED wakeVars
  BY <1>7 DEF UpdateConfig
<1>8. CASE SetHeartbeatsEnabled
  BY <1>8 DEF SetHeartbeatsEnabled
<1>9. ASSUME NEW b \in Batches, CallStep(b) PROVE [WakeNext]_wakeVars
  <2>1. ASSUME NEW f \in BOOLEAN, Answer(b, f) PROVE WakeNext
    BY <2>1 DEF Answer, WakeNext
  <2>2. CASE Refuse(b) \/ LeaveLoop(b)
    BY <2>1, <2>2 DEF Refuse, LeaveLoop
  <2>3. CASE SkipInFlight(b)
    BY <2>1, <2>3 DEF SkipInFlight
  <2>4. CASE Enter(b) \/ SkipDisabled(b) \/ RunEnds(b) \/ \E a \in Agents : RunOnce(b, a)
    BY <2>4 DEF Enter, SkipDisabled, RunEnds, RunOnce
  <2> QED  BY <1>9, <2>2, <2>3, <2>4 DEF CallStep
<1> QED  BY <1>1, <1>2, <1>3, <1>4, <1>5, <1>6, <1>7, <1>8, <1>9 DEF RunnerNext

\* A runner, whatever its agents, timers, configurations and answers, behaves towards the wake
\* layer as one of the callers that WakeSpec allows: what is proved of WakeSpec holds under it.
THEOREM RunnerRefinesWakeLayer == RunnerSpec => WakeSpec
<1>1. RunnerInit => WakeInit
  BY DEF RunnerInit
<1>2. [RunnerNext]_vars => [WakeNext]_wakeVars
  BY RunnerStepIsWakeStep DEF vars
<1> QED  BY <1>1, <1>2, PTL DEF RunnerSpec, WakeSpec

-----------------------------------------------------------------------------
(* The runner's invariant. *)

\* The runner that was started last is the one that is woken.
LastIsRegistered == lives > 0 /\ lives \notin stopped => handler = lives

\* Its interval will come: its timer is set, or a wake for everyone is pending or in its hands.
WakeComes ==
    \/ lives \in armed
    \/ pending[Everyone] # NoWake
    \/ \E b \in Busy : batch[b].handler = lives /\ Everyone \in batch[b].left \cup {batch[b].current}

RunnerInv ==
    /\ IInv
    /\ stopped \subseteq 1..lives /\ agents \in [Lives -> SUBSET Agents]
    /\ toggles \in 0..MaxToggles /\ enabled \in BOOLEAN /\ (toggles = 0 => enabled)
    /\ LastIsRegistered
    /\ toggles = 0 /\ lives > 0 /\ lives \notin stopped /\ agents[lives] # {} => WakeComes

LEMMA RunnerInitSound == RunnerInit => RunnerInv
<1> SUFFICES ASSUME RunnerInit PROVE RunnerInv
  OBVIOUS
<1>1. IInv
  BY InitIInv DEF RunnerInit
<1>2. lives = 0 /\ stopped = {} /\ toggles = 0 /\ enabled = TRUE /\ agents = [h \in Lives |-> {}]
  BY DEF RunnerInit, WakeInit
<1>3. MaxToggles \in Nat
  BY HeartbeatRunnerAssumption
<1>4. stopped \subseteq 1..lives /\ agents \in [Lives -> SUBSET Agents] /\ toggles \in 0..MaxToggles
  BY <1>2, <1>3
<1>5. enabled \in BOOLEAN /\ (toggles = 0 => enabled)
  BY <1>2
<1> QED  BY <1>1, <1>2, <1>4, <1>5 DEF RunnerInv, LastIsRegistered

\* A runner that is woken and not stopped sets its timer, if it has agents; no other runner's
\* timer is touched.
LEMMA ScheduleArms ==
    ASSUME NEW h, NEW A, NEW n, n \notin stopped, n = h => A # {}
    PROVE  /\ n = h => n \in ScheduleNext(h, A)
           /\ n \in armed => n \in ScheduleNext(h, A)
BY DEF ScheduleNext

\* Requests do not take pending wakes away.
LEMMA CoalesceKeeps ==
    ASSUME NEW P \in Wakes, NEW t \in Targets, NEW p \in Priorities
    PROVE  /\ Coalesce(P, t, p)[t] # NoWake
           /\ \A x \in Targets : P[x] # NoWake => Coalesce(P, t, p)[x] # NoWake
BY CoalesceAdds DEF Waiting

\* The answer to a call.  Its wake leaves the batch; if it is put back, it is pending again.
LEMMA AnswerKeeps ==
    ASSUME IInv, NEW b \in Batches, NEW inFlight \in BOOLEAN, CallReturns(b, inFlight), WakeComes,
           armed' = armed \/ \E h \in Lives \ {lives} : \E A : armed' = ScheduleNext(h, A),
           batch[b].handler = lives => batch[b].current # Everyone \/ inFlight
    PROVE  WakeComes'
<1> DEFINE B == batch[b]
           P == IF inFlight THEN Coalesce(pending, B.current, B.wakes[B.current]) ELSE pending
<1>0. b \in Busy /\ B.current \in Targets /\ B.wakes[B.current] \in Priorities /\ pending \in Wakes
  <2>1. b \in Busy
    BY DEF CallReturns
  <2>2. B.current \in Targets /\ B.current \in Waiting(B.wakes)
    BY <2>1 DEF IInv, BatchesCarryWakes, Busy
  <2>3. B.wakes \in Wakes /\ pending \in Wakes
    BY TypeFacts DEF IInv, BatchType
  <2> QED  BY <2>1, <2>2, <2>3 DEF Waiting, Wakes
<1>1. /\ pending' = P /\ lives' = lives
      /\ \/ \E t \in B.left : batch' = [batch EXCEPT ![b].current = t, ![b].left = B.left \ {t}]
         \/ B.left = {} /\ batch' = [batch EXCEPT ![b] = Free]
  BY DEF CallReturns, EndBatch
<1>2. batch \in [Batches -> BatchType]
  BY TypeFacts DEF IInv
<1>3. /\ pending[Everyone] # NoWake => P[Everyone] # NoWake
      /\ inFlight /\ B.current = Everyone => P[Everyone] # NoWake
  BY <1>0, RunnerFacts, CoalesceKeeps
<1> HIDE DEF P
<1>4. CASE lives \in armed
  <2>1. lives \in armed'
    BY <1>4 DEF ScheduleNext
  <2> QED  BY <1>1, <2>1 DEF WakeComes
<1>5. CASE pending[Everyone] # NoWake
  BY <1>1, <1>3, <1>5 DEF WakeComes
<1>6. CASE \E c \in Busy : batch[c].handler = lives /\ Everyone \in batch[c].left \cup {batch[c].current}
  <2>1. PICK c \in Busy : batch[c].handler = lives /\ Everyone \in batch[c].left \cup {batch[c].current}
    BY <1>6
  <2>2. CASE c # b
    <3>1. c \in Batches /\ batch'[c] = batch[c]
      BY <1>1, <1>2, <2>2 DEF Busy
    <3>2. c \in Busy'
      BY <2>1, <3>1 DEF Busy
    <3> QED  BY <1>1, <2>1, <3>1, <3>2 DEF WakeComes
  <2>3. CASE c = b /\ Everyone = B.current
    BY <1>1, <1>3, <2>1, <2>3 DEF WakeComes
  <2>4. CASE c = b /\ Everyone \in B.left
    <3>1. PICK t \in B.left : batch' = [batch EXCEPT ![b].current = t, ![b].left = B.left \ {t}]
      BY <1>1, <2>4
    <3>2. batch' = [batch EXCEPT ![b] = [B EXCEPT !.current = t, !.left = B.left \ {t}]]
      BY <3>1
    <3>3. B \in BatchType
      BY <1>2
    <3> DEFINE N == [B EXCEPT !.current = t, !.left = B.left \ {t}]
    <3>4. N.handler = B.handler /\ N.current = t /\ N.left = B.left \ {t}
      BY <3>3 DEF BatchType
    <3> HIDE DEF N
    <3>5. batch'[b] = N
      BY <1>2, <3>2 DEF N
    <3>6. b \in Busy' /\ batch'[b].handler = lives'
      BY <1>0, <1>1, <2>1, <2>4, <3>4, <3>5 DEF Busy
    <3>7. Everyone \in batch'[b].left \cup {batch'[b].current}
      BY <2>4, <3>4, <3>5
    <3> QED  BY <3>6, <3>7 DEF WakeComes
  <2> QED  BY <2>1, <2>2, <2>3, <2>4
<1> QED  BY <1>4, <1>5, <1>6 DEF WakeComes

-----------------------------------------------------------------------------
(* Its steps. *)

\* A call step, which leaves the runners' lives as they are.
LEMMA CallStepSound ==
    ASSUME RunnerInv, IInv', NEW b \in Batches, CallStep(b)
    PROVE  RunnerInv'
<1> DEFINE h == batch[b].handler
<1>1. UNCHANGED <<stopped, agents, enabled, toggles>> /\ UNCHANGED <<handler, lives>>
  BY DEF CallStep, Refuse, Enter, SkipDisabled, SkipInFlight, RunOnce, RunEnds, LeaveLoop, Answer,
         CallReturns, wakeVars
<1>2. LastIsRegistered'
  BY <1>1 DEF RunnerInv, LastIsRegistered
<1>3. ASSUME toggles = 0, lives > 0, lives \notin stopped, agents[lives] # {} PROVE WakeComes'
  <2>1. IInv /\ WakeComes /\ enabled
    BY <1>3 DEF RunnerInv
  <2>2. CASE Enter(b) \/ SkipDisabled(b) \/ RunEnds(b) \/ \E a \in Agents : RunOnce(b, a)
    <3>1. UNCHANGED wakeVars /\ UNCHANGED armed
      BY <2>2 DEF Enter, SkipDisabled, RunEnds, RunOnce
    <3> QED  BY <2>1, <3>1 DEF wakeVars, WakeComes, Busy
  <2>3. CASE Refuse(b) \/ SkipInFlight(b) \/ LeaveLoop(b)
    <3>1. PICK f \in BOOLEAN : CallReturns(b, f) /\ (SkipInFlight(b) => f)
      BY <2>3 DEF Refuse, SkipInFlight, LeaveLoop, Answer
    <3>2. h \in Lives
      <4>1. b \in Busy /\ batch \in [Batches -> BatchType] /\ MaxLives \in Nat
        BY <2>1, <3>1, TypeFacts DEF CallReturns, IInv
      <4> QED  BY <4>1 DEF Busy, BatchType, NoHandler, Lives
    <3>3. armed' = armed \/ armed' = ScheduleNext(h, agents[h])
      BY <2>3 DEF Refuse, SkipInFlight, LeaveLoop
    <3>4. CASE h # lives
      BY <2>1, <3>1, <3>2, <3>3, <3>4, AnswerKeeps
    <3>5. CASE h = lives /\ armed' = ScheduleNext(h, agents[h])
      <4>1. lives \in armed'
        BY <1>3, <3>5, ScheduleArms
      <4> QED  BY <1>1, <4>1 DEF WakeComes
    <3>6. CASE h = lives /\ armed' # ScheduleNext(h, agents[h])
      <4>1. ~Refuse(b) /\ ~LeaveLoop(b)
        BY <1>3, <2>1, <3>6 DEF Refuse, LeaveLoop
      <4>2. f
        BY <2>3, <3>1, <4>1
      <4> QED  BY <2>1, <3>1, <3>3, <3>6, <4>2, AnswerKeeps
    <3> QED  BY <3>3, <3>4, <3>5, <3>6
  <2> QED  BY <2>2, <2>3 DEF CallStep
<1> QED  BY <1>1, <1>2, <1>3 DEF RunnerInv

\* Taking a batch moves pending wakes into the hands of the registered runner.
LEMMA WakeTimerFiresSound ==
    ASSUME RunnerInv, IInv', WakeTimerFires
    PROVE  RunnerInv'
<1>1. UNCHANGED <<stopped, agents, armed, enabled, toggles, handler, lives>> /\ TimerFires
  BY DEF WakeTimerFires, TimerFires
<1>2. LastIsRegistered'
  BY <1>1 DEF RunnerInv, LastIsRegistered
<1>3. ASSUME toggles = 0, lives > 0, lives \notin stopped, agents[lives] # {} PROVE WakeComes'
  <2>1. IInv /\ WakeComes /\ handler = lives /\ batch \in [Batches -> BatchType]
    BY <1>3, TypeFacts DEF RunnerInv, LastIsRegistered, IInv
  <2>2. CASE UNCHANGED <<pending, batch>>
    BY <1>1, <2>1, <2>2 DEF WakeComes, Busy
  <2>3. CASE TakeBatch
    <3>1. PICK b \in Batches \ Busy : \E t \in Waiting(pending) :
              batch' = [batch EXCEPT ![b] = [handler |-> handler, wakes |-> pending,
                                             left |-> Waiting(pending) \ {t}, current |-> t]]
      BY <2>3 DEF TakeBatch
    <3>2. PICK t \in Waiting(pending) :
              batch' = [batch EXCEPT ![b] = [handler |-> handler, wakes |-> pending,
                                             left |-> Waiting(pending) \ {t}, current |-> t]]
      BY <3>1
    <3>3. /\ batch'[b].handler = lives /\ batch'[b].left \cup {batch'[b].current} = Waiting(pending)
          /\ \A c \in Batches \ {b} : batch'[c] = batch[c]
      BY <2>1, <3>2
    <3>4. b \in Busy' /\ Busy \subseteq Busy'
      <4>1. lives # NoHandler
        BY <2>1, TypeFacts, <1>3 DEF NoHandler, IInv
      <4> QED  BY <3>1, <3>3, <4>1 DEF Busy
    <3>5. CASE lives \in armed
      BY <1>1, <3>5 DEF WakeComes
    <3>6. CASE pending[Everyone] # NoWake
      <4>1. Everyone \in Waiting(pending)
        BY <3>6, RunnerFacts DEF Waiting
      <4> QED  BY <1>1, <3>3, <3>4, <4>1 DEF WakeComes
    <3>7. CASE \E c \in Busy : batch[c].handler = lives /\ Everyone \in batch[c].left \cup {batch[c].current}
      <4>1. PICK c \in Busy : batch[c].handler = lives /\ Everyone \in batch[c].left \cup {batch[c].current}
        BY <3>7
      <4>2. batch'[c] = batch[c] /\ c \in Busy'
        BY <3>1, <3>3, <3>4 DEF Busy
      <4> QED  BY <1>1, <4>1, <4>2 DEF WakeComes
    <3> QED  BY <2>1, <3>5, <3>6, <3>7 DEF WakeComes
  <2>4. handler # NoHandler
    BY <2>1, <1>3, TypeFacts DEF NoHandler, IInv
  <2> QED  BY <1>1, <2>2, <2>3, <2>4 DEF TimerFires
<1> QED  BY <1>1, <1>2, <1>3 DEF RunnerInv

\* Wakes that are requested, by the interval timer or by others, are pending.
LEMMA RequestSound ==
    ASSUME RunnerInv, IInv', NEW t \in Targets, NEW p \in Priorities, RequestHeartbeatNow(t, p),
           UNCHANGED <<stopped, agents, enabled, toggles>>,
           armed' = armed \/ t = Everyone
    PROVE  RunnerInv'
<1>1. UNCHANGED <<handler, lives, batch>> /\ pending' = Coalesce(pending, t, p)
  BY DEF RequestHeartbeatNow
<1>2. pending \in Wakes
  BY TypeFacts DEF RunnerInv, IInv
<1>3. /\ pending'[t] # NoWake
      /\ \A x \in Targets : pending[x] # NoWake => pending'[x] # NoWake
  BY <1>1, <1>2, CoalesceKeeps
<1>4. WakeComes => WakeComes'
  BY <1>1, <1>3, RunnerFacts DEF WakeComes, Busy
<1> QED  BY <1>1, <1>4 DEF RunnerInv, LastIsRegistered

\* A runner starts, the one that is woken from now on, with its timer set if it has agents.
LEMMA StartRunnerSound ==
    ASSUME RunnerInv, IInv', NEW A \in Configs, StartRunner(A)
    PROVE  RunnerInv'
<1>1. /\ lives' = lives + 1 /\ handler' = lives + 1 /\ lives < MaxLives
      /\ agents' = [agents EXCEPT ![lives + 1] = A]
      /\ armed' = (IF A = {} THEN armed ELSE armed \cup {lives + 1})
      /\ UNCHANGED <<stopped, enabled, toggles>>
  BY DEF StartRunner, SetHandler
<1>2. lives \in Nat /\ MaxLives \in Nat /\ lives + 1 \in Lives
  BY <1>1, TypeFacts DEF RunnerInv, IInv, Lives
<1>3. A \subseteq Agents
  BY HeartbeatRunnerAssumption
<1>4. agents' \in [Lives -> SUBSET Agents] /\ agents'[lives'] = A
  BY <1>1, <1>2, <1>3 DEF RunnerInv
<1>5. stopped' \subseteq 1..lives'
  BY <1>1, <1>2 DEF RunnerInv
<1>6. agents'[lives'] # {} => WakeComes'
  BY <1>1, <1>4 DEF WakeComes
<1> QED  BY <1>1, <1>4, <1>5, <1>6 DEF RunnerInv, LastIsRegistered

\* A runner is stopped: the last, or an older one, which leaves the last in its place.
LEMMA StopRunnerSound ==
    ASSUME RunnerInv, IInv', NEW h \in Lives, StopRunner(h)
    PROVE  RunnerInv'
<1>1. /\ h \in 1..lives /\ stopped' = stopped \cup {h}
      /\ handler' = (IF handler = h THEN NoHandler ELSE handler) /\ armed' = armed \ {h}
      /\ UNCHANGED <<lives, pending, batch, agents, enabled, toggles>>
  BY DEF StopRunner, DisposeHandler
<1>2. ASSUME lives > 0, lives \notin stopped'
      PROVE  lives # h /\ lives \notin stopped /\ handler' = lives /\ (WakeComes => WakeComes')
  <2>1. lives # h /\ lives \notin stopped
    BY <1>1, <1>2
  <2>2. handler = lives
    BY <1>2, <2>1 DEF RunnerInv, LastIsRegistered
  <2> QED  BY <1>1, <2>1, <2>2 DEF WakeComes, Busy
<1>3. stopped' \subseteq 1..lives'
  BY <1>1 DEF RunnerInv
<1> QED  BY <1>1, <1>2, <1>3 DEF RunnerInv, LastIsRegistered

\* A new configuration sets the timer of its runner if it names agents.
LEMMA UpdateConfigSound ==
    ASSUME RunnerInv, IInv', NEW h \in Lives, NEW A \in Configs, NEW D, UpdateConfig(h, A, D)
    PROVE  RunnerInv'
<1>1. /\ h \in (1..lives) \ stopped /\ agents' = [agents EXCEPT ![h] = A]
      /\ armed' = ScheduleNext(h, A)
      /\ UNCHANGED <<handler, lives, pending, batch, stopped, enabled, toggles>>
  BY DEF UpdateConfig, wakeVars
<1>2. A \subseteq Agents
  BY HeartbeatRunnerAssumption
<1>3. agents' \in [Lives -> SUBSET Agents] /\ agents'[h] = A /\ \A x \in Lives \ {h} : agents'[x] = agents[x]
  BY <1>1, <1>2 DEF RunnerInv
<1>4. ASSUME toggles = 0, lives > 0, lives \notin stopped, agents'[lives] # {} PROVE WakeComes'
  <2>1. lives \in Lives
    BY <1>4, TypeFacts DEF RunnerInv, IInv, Lives
  <2>2. CASE h = lives
    <3>1. lives \in armed'
      BY <1>1, <1>3, <1>4, <2>2, ScheduleArms
    <3> QED  BY <1>1, <3>1 DEF WakeComes
  <2>3. CASE h # lives
    <3>1. WakeComes
      BY <1>3, <1>4, <2>1, <2>3 DEF RunnerInv
    <3>2. lives \in armed => lives \in armed'
      BY <1>1, <1>4, <2>3, ScheduleArms
    <3> QED  BY <1>1, <3>1, <3>2 DEF WakeComes, Busy
  <2> QED  BY <2>2, <2>3
<1> QED  BY <1>1, <1>3, <1>4 DEF RunnerInv, LastIsRegistered

LEMMA RunnerNextSound == RunnerInv /\ [RunnerNext]_vars => RunnerInv'
<1> SUFFICES ASSUME RunnerInv, [RunnerNext]_vars PROVE RunnerInv'
  OBVIOUS
<1>0. IInv'
  <2>1. [WakeNext]_wakeVars
    BY RunnerStepIsWakeStep DEF vars
  <2> QED  BY <2>1, NextIInv DEF RunnerInv
<1>1. CASE WakeTimerFires
  BY <1>0, <1>1, WakeTimerFiresSound
<1>2. ASSUME NEW w \in Requested, RequestWake(w[1], w[2]) PROVE RunnerInv'
  <2>1. w[1] \in Targets /\ w[2] \in Priorities
    BY HeartbeatRunnerAssumption
  <2>2. /\ RequestHeartbeatNow(w[1], w[2])
        /\ UNCHANGED <<stopped, agents, enabled, toggles>> /\ armed' = armed
    BY <1>2 DEF RequestWake, runnerVars
  <2> QED  BY <1>0, <2>1, <2>2, RequestSound
<1>3. ASSUME NEW A \in Configs, StartRunner(A) PROVE RunnerInv'
  BY <1>0, <1>3, StartRunnerSound
<1>4. ASSUME NEW h \in Lives, IntervalFires(h) PROVE RunnerInv'
  <2>1. /\ RequestHeartbeatNow(Everyone, Interval)
        /\ UNCHANGED <<stopped, agents, enabled, toggles>>
    BY <1>4 DEF IntervalFires
  <2> QED  BY <1>0, <2>1, RunnerFacts, RequestSound
<1>5. ASSUME NEW h \in Lives, StopRunner(h) PROVE RunnerInv'
  BY <1>0, <1>5, StopRunnerSound
<1>6. ASSUME NEW h \in Lives, NEW A \in Configs, NEW D, UpdateConfig(h, A, D) PROVE RunnerInv'
  BY <1>0, <1>6, UpdateConfigSound
<1>7. CASE SetHeartbeatsEnabled
  <2>1. /\ toggles < MaxToggles /\ toggles' = toggles + 1 /\ enabled' = ~enabled
        /\ UNCHANGED <<handler, lives, stopped, agents>>
    BY <1>7 DEF SetHeartbeatsEnabled, wakeVars
  <2>2. toggles' \in 0..MaxToggles /\ toggles' # 0
    BY <2>1, HeartbeatRunnerAssumption DEF RunnerInv
  <2>3. enabled' \in BOOLEAN
    BY <2>1
  <2> QED  BY <1>0, <2>1, <2>2, <2>3 DEF RunnerInv, LastIsRegistered
<1>8. ASSUME UNCHANGED <<wakeVars, stopped, agents, armed, enabled, toggles>> PROVE RunnerInv'
  BY <1>0, <1>8 DEF wakeVars, RunnerInv, LastIsRegistered, WakeComes, Busy
<1>9. ASSUME NEW h \in Lives, NEW a \in Agents, BecomesDue(h, a) PROVE RunnerInv'
  BY <1>8, <1>9 DEF BecomesDue
<1>10. CASE UNCHANGED vars
  BY <1>8, <1>10 DEF vars, runnerVars
<1>11. ASSUME NEW b \in Batches, CallStep(b) PROVE RunnerInv'
  BY <1>0, <1>11, CallStepSound
<1> QED  BY <1>1, <1>2, <1>3, <1>4, <1>5, <1>6, <1>7, <1>9, <1>10, <1>11 DEF RunnerNext

\* As long as heartbeats are never paused, the heartbeat of the last runner cannot die: it is the
\* one that is woken, and its timer is set or a wake for everyone is pending or in its hands,
\* through restarts with overlapping lives, new configurations, unknown agents, busy lanes and
\* any number of batches.
THEOREM HeartbeatsGoOn == RunnerSpec => []IntervalIsArmed
<1>1. RunnerInv => IntervalIsArmed
  BY DEF RunnerInv, IntervalIsArmed, WakeComes, LastIsRegistered
<1> QED  BY <1>1, RunnerInitSound, RunnerNextSound, PTL DEF RunnerSpec

-----------------------------------------------------------------------------
(* The runner's types. *)

CallType == [at : {"none", "entry", "loop", "running"}, todo : SUBSET Agents,
             agent : Agents \cup {NoTarget}, stale : BOOLEAN]

\* A timer is set for a runner that was started and not stopped; only started runners have agents.
Schedules ==
    /\ armed \subseteq (1..lives) \ stopped
    /\ due \in [Lives -> SUBSET Agents]
    /\ \A h \in Lives : due[h] \subseteq agents[h] /\ (h > lives => agents[h] = {})

\* A batch under way, and no other, has a call, of a runner that was started.
Calls ==
    /\ call \in [Batches -> CallType]
    /\ \A b \in Batches : call[b].at = "none" <=> b \notin Busy
    /\ \A b \in Batches : b \notin Busy => batch[b] = Free
    /\ \A b \in Busy : batch[b].handler \in 1..lives

RTypes == Schedules /\ Calls

LEMMA NoCallType == NoCall \in CallType /\ Entry \in CallType /\ NoCall.at = "none" /\ Entry.at = "entry"
  BY DEF NoCall, Entry, CallType

LEMMA FreeIsIdle == Free.handler = NoHandler
  BY DEF Free

LEMMA InitRTypes == RunnerInit => RTypes
<1> SUFFICES ASSUME RunnerInit PROVE RTypes
  OBVIOUS
<1>1. /\ batch = [b \in Batches |-> Free] /\ call = [b \in Batches |-> NoCall]
      /\ lives = 0 /\ stopped = {} /\ armed = {}
      /\ agents = [h \in Lives |-> {}] /\ due = [h \in Lives |-> {}]
  BY DEF RunnerInit, WakeInit
<1>2. Calls
  <2>1. \A b \in Batches : b \notin Busy /\ batch[b] = Free /\ call[b] = NoCall
    BY <1>1, FreeIsIdle DEF Busy
  <2> QED  BY <1>1, <2>1, NoCallType DEF Calls, Busy
<1>3. Schedules
  BY <1>1 DEF Schedules
<1> QED  BY <1>2, <1>3 DEF RTypes

\* The steps that leave the calls alone.
LEMMA CallsKept ==
    ASSUME RunnerInv, RTypes, UNCHANGED <<batch, call>>, lives' \in Nat, lives' >= lives
    PROVE  Calls'
<1>1. Busy' = Busy
  BY DEF Busy
<1>2. lives \in Nat
  BY TypeFacts DEF RunnerInv, IInv
<1> QED  BY <1>1, <1>2 DEF RTypes, Calls

LEMMA ScheduleNextIs ==
    ASSUME NEW h, NEW A, Schedules, h \in 1..lives
    PROVE  ScheduleNext(h, A) \subseteq (1..lives) \ stopped
  BY DEF ScheduleNext, Schedules

\* A batch is taken, and its first wake makes a call.
LEMMA WakeTimerFiresTypes ==
    ASSUME RunnerInv, RTypes, WakeTimerFires
    PROVE  RTypes'
<1>1. /\ UNCHANGED <<stopped, agents, due, armed, lives>> /\ TimerFires
      /\ call' = [b \in Batches |-> IF batch[b] = Free /\ batch'[b] # Free THEN Entry ELSE call[b]]
  BY DEF WakeTimerFires, TimerFires
<1>2. Schedules'
  BY <1>1 DEF RTypes, Schedules
<1>3. batch \in [Batches -> BatchType] /\ handler \in 0..lives /\ lives \in Nat
  BY TypeFacts DEF RunnerInv, IInv
<1>4. call' \in [Batches -> CallType]
  BY <1>1, NoCallType DEF RTypes, Calls
<1>5. CASE batch' = batch
  <2>1. call' = call
    BY <1>1, <1>5 DEF RTypes, Calls
  <2> QED  BY <1>1, <1>2, <1>3, <1>5, <2>1, CallsKept DEF RTypes
<1>6. CASE batch' # batch
  <2>1. handler # NoHandler /\ \E b \in Batches \ Busy : \E w, l, t :
            batch' = [batch EXCEPT ![b] = [handler |-> handler, wakes |-> w, left |-> l, current |-> t]]
    BY <1>1, <1>6 DEF TimerFires, TakeBatch
  <2>2. PICK b \in Batches \ Busy : \E w, l, t :
            batch' = [batch EXCEPT ![b] = [handler |-> handler, wakes |-> w, left |-> l, current |-> t]]
    BY <2>1
  <2>3. batch'[b].handler = handler /\ \A c \in Batches \ {b} : batch'[c] = batch[c]
    BY <1>3, <2>2
  <2>4. batch[b] = Free /\ batch'[b] # Free
    BY <2>1, <2>2, <2>3, FreeIsIdle DEF RTypes, Calls
  <2>5. call'[b] = Entry /\ \A c \in Batches \ {b} : call'[c] = call[c]
    BY <1>1, <2>3, <2>4
  <2>6. Busy' = Busy \cup {b}
    BY <2>1, <2>2, <2>3 DEF Busy
  <2>7. handler \in 1..lives
    BY <1>3, <2>1 DEF NoHandler
  <2>8. \A c \in Batches : call'[c].at = "none" <=> c \notin Busy'
    BY <2>5, <2>6, NoCallType DEF RTypes, Calls
  <2>9. \A c \in Batches : c \notin Busy' => batch'[c] = Free
    BY <2>3, <2>6 DEF RTypes, Calls
  <2>10. \A c \in Busy' : batch'[c].handler \in 1..lives'
    BY <1>1, <2>3, <2>6, <2>7 DEF Busy, RTypes, Calls
  <2> QED  BY <1>2, <1>4, <2>8, <2>9, <2>10 DEF RTypes, Calls
<1> QED  BY <1>5, <1>6

\* A call goes on within its batch.
LEMMA CallGoesOn ==
    ASSUME RunnerInv, RTypes, NEW b \in Batches, call[b].at # "none", NEW c \in CallType, c.at # "none",
           call' = [call EXCEPT ![b] = c], UNCHANGED <<batch, lives>>
    PROVE  Calls'
<1>1. Busy' = Busy /\ call' \in [Batches -> CallType]
  BY DEF Busy, RTypes, Calls
<1>2. \A d \in Batches : call'[d].at = "none" <=> call[d].at = "none"
  BY DEF RTypes, Calls
<1> QED  BY <1>1, <1>2 DEF RTypes, Calls

\* A call is answered: its batch makes the next one, or is done.
LEMMA AnswerTypes ==
    ASSUME RunnerInv, RTypes, NEW b \in Batches, NEW f \in BOOLEAN, Answer(b, f)
    PROVE  Calls' /\ b \in Busy /\ UNCHANGED <<lives>>
<1>1. /\ b \in Busy /\ lives' = lives
      /\ call' = [call EXCEPT ![b] = IF batch'[b] = Free THEN NoCall ELSE Entry]
      /\ batch \in [Batches -> BatchType]
  BY TypeFacts DEF Answer, CallReturns, RunnerInv, IInv
<1>2. /\ batch'[b] = Free \/ batch'[b].handler = batch[b].handler
      /\ \A c \in Batches \ {b} : batch'[c] = batch[c]
  <2>1. \/ batch' = [batch EXCEPT ![b] = Free]
        \/ \E t \in batch[b].left :
              batch' = [batch EXCEPT ![b].current = t, ![b].left = batch[b].left \ {t}]
    BY DEF Answer, CallReturns, EndBatch
  <2> QED  BY <1>1, <2>1 DEF BatchType
<1>3. batch[b].handler # NoHandler
  BY <1>1 DEF Busy
<1>4. /\ call' \in [Batches -> CallType] /\ call'[b] = (IF batch'[b] = Free THEN NoCall ELSE Entry)
      /\ \A c \in Batches \ {b} : call'[c] = call[c]
  BY <1>1, NoCallType DEF RTypes, Calls
<1>5. CASE batch'[b] = Free
  <2>1. Busy' = Busy \ {b}
    BY <1>2, <1>5, FreeIsIdle DEF Busy
  <2>2. \A c \in Batches : call'[c].at = "none" <=> c \notin Busy'
    BY <1>4, <1>5, <2>1, NoCallType DEF RTypes, Calls
  <2>3. \A c \in Batches : c \notin Busy' => batch'[c] = Free
    BY <1>2, <1>5, <2>1 DEF RTypes, Calls
  <2>4. \A c \in Busy' : batch'[c].handler \in 1..lives'
    BY <1>1, <1>2, <2>1 DEF RTypes, Calls, Busy
  <2> QED  BY <1>1, <1>4, <2>2, <2>3, <2>4 DEF Calls
<1>6. CASE batch'[b] # Free
  <2>1. Busy' = Busy
    BY <1>1, <1>2, <1>3, <1>6 DEF Busy
  <2>2. \A c \in Batches : call'[c].at = "none" <=> c \notin Busy'
    BY <1>1, <1>4, <1>6, <2>1, NoCallType DEF RTypes, Calls
  <2>3. \A c \in Batches : c \notin Busy' => batch'[c] = Free
    BY <1>1, <1>2, <2>1 DEF RTypes, Calls
  <2>4. \A c \in Busy' : batch'[c].handler \in 1..lives'
    BY <1>1, <1>2, <1>6, <2>1 DEF RTypes, Calls, Busy
  <2> QED  BY <1>1, <1>4, <2>2, <2>3, <2>4 DEF Calls
<1> QED  BY <1>1, <1>5, <1>6

LEMMA CallStepTypes ==
    ASSUME RunnerInv, RTypes, NEW b \in Batches, CallStep(b)
    PROVE  RTypes'
<1> DEFINE h == batch[b].handler
<1>1. UNCHANGED <<stopped, agents, lives>> /\ call[b].at # "none"
  BY DEF CallStep, Refuse, Enter, SkipDisabled, SkipInFlight, RunOnce, RunEnds, LeaveLoop, Answer,
         CallReturns, wakeVars
<1>2. b \in Busy /\ h \in 1..lives /\ h \in Lives /\ agents[h] \subseteq Agents
  <2>1. b \in Busy /\ h \in 1..lives
    BY <1>1 DEF RTypes, Calls
  <2>2. lives \in Nat /\ lives <= MaxLives /\ MaxLives \in Nat
    BY TypeFacts DEF RunnerInv, IInv
  <2> QED  BY <2>1, <2>2 DEF Lives, RunnerInv
<1>3. call[b] \in CallType
  BY DEF RTypes, Calls
<1>4. Schedules'
  <2>1. armed' = armed \/ armed' = ScheduleNext(h, agents[h])
    BY DEF CallStep, Refuse, Enter, SkipDisabled, SkipInFlight, RunOnce, RunEnds, LeaveLoop
  <2>2. armed' \subseteq (1..lives) \ stopped
    <3>1. Schedules
      BY DEF RTypes
    <3>2. ScheduleNext(h, agents[h]) \subseteq (1..lives) \ stopped
      BY <1>2, <3>1, ScheduleNextIs
    <3> QED  BY <2>1, <3>1, <3>2 DEF Schedules
  <2>3. due' = due \/ \E a : due' = Advance(b, a)
    BY DEF CallStep, Refuse, Enter, SkipDisabled, SkipInFlight, RunOnce, RunEnds, LeaveLoop
  <2>4. due' = due \/ \E a : due' = [due EXCEPT ![h] = @ \ {a}]
    BY <2>3 DEF Advance
  <2>5. due' \in [Lives -> SUBSET Agents] /\ \A k \in Lives : due'[k] \subseteq due[k]
    BY <1>2, <2>4 DEF RTypes, Schedules
  <2> QED  BY <1>1, <2>2, <2>5 DEF RTypes, Schedules
<1>5. CASE Refuse(b) \/ SkipInFlight(b) \/ LeaveLoop(b)
  <2>1. PICK f \in BOOLEAN : Answer(b, f)
    BY <1>5 DEF Refuse, SkipInFlight, LeaveLoop
  <2> QED  BY <1>4, <2>1, AnswerTypes DEF RTypes
<1>6. CASE Enter(b)
  <2> DEFINE todo == IF batch[b].current # Everyone THEN {batch[b].current}
                     ELSE IF batch[b].wakes[batch[b].current] = Interval THEN due[h]
                     ELSE agents[h]
             c    == [NoCall EXCEPT !.at = "loop", !.todo = todo]
  <2>1. call' = [call EXCEPT ![b] = c] /\ UNCHANGED <<batch, lives>>
    BY <1>6 DEF Enter, wakeVars
  <2>2. todo \subseteq Agents
    BY <1>2, <1>6 DEF Enter, RTypes, Schedules
  <2>3. c \in CallType /\ c.at # "none"
    BY <2>2 DEF NoCall, CallType
  <2> HIDE DEF c
  <2> QED  BY <1>1, <1>4, <2>1, <2>3, CallGoesOn DEF RTypes
<1>7. CASE SkipDisabled(b) \/ RunEnds(b) \/ \E a \in Agents : RunOnce(b, a)
  <2>1. UNCHANGED <<batch, lives>>
    BY <1>7 DEF SkipDisabled, RunEnds, RunOnce, wakeVars
  <2>2. PICK c : c \in CallType /\ c.at # "none" /\ call' = [call EXCEPT ![b] = c]
    <3>1. CASE SkipDisabled(b)
      <4>1. PICK a \in call[b].todo : call' = [call EXCEPT ![b].todo = @ \ {a}]
        BY <3>1 DEF SkipDisabled
      <4>2. [call[b] EXCEPT !.todo = @ \ {a}] \in CallType /\ [call[b] EXCEPT !.todo = @ \ {a}].at # "none"
        BY <1>1, <1>3 DEF CallType
      <4> QED  BY <4>1, <4>2
    <3>2. CASE RunEnds(b)
      <4>1. call' = [call EXCEPT ![b] = [call[b] EXCEPT !.at = "loop", !.agent = NoTarget]]
        BY <3>2 DEF RunEnds, RTypes, Calls
      <4>2. [call[b] EXCEPT !.at = "loop", !.agent = NoTarget] \in CallType
        BY <1>3 DEF CallType
      <4>3. [call[b] EXCEPT !.at = "loop", !.agent = NoTarget].at = "loop"
        BY <1>3 DEF CallType
      <4> QED  BY <4>1, <4>2, <4>3
    <3>3. ASSUME NEW a \in Agents, RunOnce(b, a)
          PROVE  \E c : c \in CallType /\ c.at # "none" /\ call' = [call EXCEPT ![b] = c]
      <4> DEFINE c == [call[b] EXCEPT !.at = "running", !.todo = @ \ {a}, !.agent = a]
      <4>1. call' = [call EXCEPT ![b] = c]
        BY <3>3 DEF RunOnce, RTypes, Calls
      <4>2. c \in CallType /\ c.at # "none"
        BY <1>3 DEF CallType
      <4> QED  BY <4>1, <4>2
    <3> QED  BY <1>7, <3>1, <3>2, <3>3
  <2> QED  BY <1>1, <1>4, <2>1, <2>2, CallGoesOn DEF RTypes
<1> QED  BY <1>5, <1>6, <1>7 DEF CallStep

LEMMA RunnerNextTypes == RunnerInv /\ RunnerInv' /\ RTypes /\ [RunnerNext]_vars => RTypes'
<1> SUFFICES ASSUME RunnerInv, RunnerInv', RTypes, [RunnerNext]_vars PROVE RTypes'
  OBVIOUS
<1>0. /\ lives \in Nat /\ lives' \in Nat /\ lives <= MaxLives /\ MaxLives \in Nat
      /\ agents \in [Lives -> SUBSET Agents] /\ due \in [Lives -> SUBSET Agents]
  <2>1. lives' \in Nat
    BY HeartbeatWakeAssumption DEF RunnerInv, IInv, WakeTypeOK
  <2> QED  BY <2>1, TypeFacts DEF RunnerInv, IInv, RTypes, Schedules
<1>1. CASE WakeTimerFires
  BY <1>1, WakeTimerFiresTypes
<1>2. ASSUME UNCHANGED <<batch, call, lives>>, Schedules' PROVE RTypes'
  BY <1>0, <1>2, CallsKept DEF RTypes
<1>3. ASSUME NEW w \in Requested, RequestWake(w[1], w[2]) PROVE RTypes'
  <2>1. UNCHANGED <<batch, call, lives, stopped, agents, due, armed>>
    BY <1>3 DEF RequestWake, RequestHeartbeatNow, runnerVars
  <2> QED  BY <1>2, <2>1 DEF RTypes, Schedules
<1>4. ASSUME NEW A \in Configs, StartRunner(A) PROVE RTypes'
  <2>1. /\ UNCHANGED <<batch, call, stopped, due>> /\ lives' = lives + 1 /\ lives < MaxLives
        /\ agents' = [agents EXCEPT ![lives + 1] = A]
        /\ armed' = (IF A = {} THEN armed ELSE armed \cup {lives + 1})
    BY <1>4 DEF StartRunner, SetHandler
  <2>2. Calls'
    BY <1>0, <2>1, CallsKept
  <2>3. lives + 1 \in Lives /\ A \subseteq Agents /\ lives + 1 \notin stopped
    BY <1>0, <2>1, HeartbeatRunnerAssumption DEF Lives, RunnerInv
  <2>4. armed' \subseteq (1..lives') \ stopped'
    BY <1>0, <2>1, <2>3 DEF RTypes, Schedules
  <2>5. ASSUME NEW h \in Lives PROVE due'[h] \subseteq agents'[h] /\ (h > lives' => agents'[h] = {})
    <3>1. CASE h = lives + 1
      <4>1. due[h] = {}
        BY <1>0, <3>1 DEF RTypes, Schedules
      <4> QED  BY <1>0, <2>1, <3>1, <4>1
    <3>2. CASE h # lives + 1
      <4>1. agents'[h] = agents[h] /\ (h > lives' => h > lives)
        BY <1>0, <2>1, <3>2 DEF Lives
      <4> QED  BY <2>1, <4>1 DEF RTypes, Schedules
    <3> QED  BY <3>1, <3>2
  <2> QED  BY <1>0, <2>1, <2>2, <2>4, <2>5 DEF RTypes, Schedules
<1>5. ASSUME NEW h \in Lives, IntervalFires(h) PROVE RTypes'
  <2>1. UNCHANGED <<batch, call, lives, stopped, agents, due>> /\ armed' = armed \ {h}
    BY <1>5 DEF IntervalFires, RequestHeartbeatNow
  <2> QED  BY <1>2, <2>1 DEF RTypes, Schedules
<1>6. ASSUME NEW h \in Lives, StopRunner(h) PROVE RTypes'
  <2>1. /\ UNCHANGED <<batch, call, lives, agents>> /\ stopped' = stopped \cup {h}
        /\ armed' = armed \ {h} /\ due' = [due EXCEPT ![h] = {}]
    BY <1>6 DEF StopRunner, DisposeHandler
  <2>2. due' \in [Lives -> SUBSET Agents] /\ \A k \in Lives : due'[k] \subseteq due[k]
    BY <1>0, <2>1
  <2> QED  BY <1>2, <2>1, <2>2 DEF RTypes, Schedules
<1>7. ASSUME NEW h \in Lives, NEW A \in Configs, NEW D, UpdateConfig(h, A, D) PROVE RTypes'
  <2>1. /\ h \in (1..lives) \ stopped /\ D \subseteq A \cap agents[h]
        /\ agents' = [agents EXCEPT ![h] = A] /\ due' = [due EXCEPT ![h] = D]
        /\ armed' = ScheduleNext(h, A) /\ UNCHANGED <<batch, lives, stopped>>
        /\ call' = [b \in Batches |-> IF batch[b].handler = h THEN [call[b] EXCEPT !.stale = TRUE]
                                      ELSE call[b]]
    BY <1>7 DEF UpdateConfig, wakeVars
  <2>2. A \subseteq Agents
    BY HeartbeatRunnerAssumption
  <2>3. armed' \subseteq (1..lives) \ stopped
    BY <2>1, ScheduleNextIs DEF RTypes
  <2>4. due' \in [Lives -> SUBSET Agents] /\ \A k \in Lives : due'[k] \subseteq agents'[k] /\ (k > lives => agents'[k] = {})
    BY <1>0, <2>1, <2>2 DEF RTypes, Schedules
  <2>5. \A b \in Batches : [call[b] EXCEPT !.stale = TRUE] \in CallType /\ [call[b] EXCEPT !.stale = TRUE].at = call[b].at
    <3> TAKE b \in Batches
    <3>1. call[b] \in CallType
      BY DEF RTypes, Calls
    <3> QED  BY <3>1 DEF CallType
  <2>6. call' \in [Batches -> CallType] /\ \A b \in Batches : call'[b].at = call[b].at
    <3>1. call \in [Batches -> CallType]
      BY DEF RTypes, Calls
    <3>2. \A b \in Batches : call'[b] \in CallType /\ call'[b].at = call[b].at
      BY <2>1, <2>5, <3>1
    <3> QED  BY <2>1, <3>2
  <2>7. Busy' = Busy
    BY <2>1 DEF Busy
  <2>8. Calls'
    BY <2>1, <2>6, <2>7 DEF RTypes, Calls
  <2> QED  BY <2>1, <2>3, <2>4, <2>8 DEF RTypes, Schedules
<1>8. ASSUME NEW h \in Lives, NEW a \in Agents, BecomesDue(h, a) PROVE RTypes'
  <2>1. /\ UNCHANGED <<batch, call, lives, stopped, agents, armed>> /\ a \in agents[h]
        /\ due' = [due EXCEPT ![h] = @ \cup {a}]
    BY <1>8 DEF BecomesDue, wakeVars
  <2>2. due' \in [Lives -> SUBSET Agents] /\ \A k \in Lives : due'[k] \subseteq due[k] \cup agents[k]
    BY <1>0, <2>1
  <2> QED  BY <1>2, <2>1, <2>2 DEF RTypes, Schedules
<1>9. CASE SetHeartbeatsEnabled
  <2>1. UNCHANGED <<batch, call, lives, stopped, agents, due, armed>>
    BY <1>9 DEF SetHeartbeatsEnabled, wakeVars
  <2> QED  BY <1>2, <2>1 DEF RTypes, Schedules
<1>10. CASE UNCHANGED vars
  <2>1. UNCHANGED <<batch, call, lives, stopped, agents, due, armed>>
    BY <1>10 DEF vars, wakeVars, runnerVars
  <2> QED  BY <1>2, <2>1 DEF RTypes, Schedules
<1>11. ASSUME NEW b \in Batches, CallStep(b) PROVE RTypes'
  BY <1>11, CallStepTypes
<1> QED  BY <1>1, <1>3, <1>4, <1>5, <1>6, <1>7, <1>8, <1>9, <1>10, <1>11 DEF RunnerNext

\* The runner's variables have their types: a timer is set only for a runner that was started and
\* not stopped, what is due are agents the runner has, and a batch is under way exactly while the
\* handler is in a call for it.
THEOREM RunnerTypesHold == RunnerSpec => []RunnerTypeOK
<1>1. RunnerInv /\ RTypes => RunnerTypeOK
  BY DEF RunnerInv, IInv, RTypes, Schedules, Calls, CallType, RunnerTypeOK
<1> QED  BY <1>1, RunnerInitSound, RunnerNextSound, InitRTypes, RunnerNextTypes, PTL DEF RunnerSpec

=============================================================================
