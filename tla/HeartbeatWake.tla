--------------------------- MODULE HeartbeatWake ---------------------------
(***************************************************************************)
(* The heartbeat wake layer (src/infra/heartbeat-wake.ts): requests to     *)
(* wake the agent are coalesced per target, a timer takes them as a batch  *)
(* to the registered handler one after the other, and what the handler     *)
(* could not do yet is put back and retried.                               *)
(*                                                                         *)
(* All state is global to the process, but a batch outlives a change of    *)
(* handler: its closure keeps the handler it was started with.  Handlers   *)
(* are numbered in the order of their registration.                        *)
(***************************************************************************)
EXTENDS Integers, FiniteSets

CONSTANTS
    Targets,     \* wake target keys: agent and session, or neither
    Priorities,  \* REASON_PRIORITY of the reasons in use
    Batches,     \* slots for batches under way, a finite set of naturals: a bound
    MaxLives     \* bound on the handlers registered

NoHandler == 0
NoWake    == -1
NoTarget  == "none"

ASSUME HeartbeatWakeAssumption ==
    /\ Priorities \subseteq 0..3
    /\ Batches \subseteq Nat /\ IsFiniteSet(Batches) /\ MaxLives \in Nat
    /\ NoTarget \notin Targets

VARIABLES
    handler,      \* the registered handler, or NoHandler
    lives,        \* how many handlers have been registered
    pending,      \* pendingWakes: the priority of the wake per target, or NoWake
    timer,        \* timerKind: "normal", "retry", or "none" for no timer
    scheduled, running,
    batch,        \* per slot: the state of the timer callback's loop
    cooling,      \* history: the pending targets that were put back for a retry
    interrupted   \* history: how often a new handler was registered while the running flag was up

wakeVars == <<handler, lives, pending, timer, scheduled, running, batch, cooling, interrupted>>

Free  == [handler |-> NoHandler, wakes |-> [t \in Targets |-> NoWake], left |-> {}, current |-> NoTarget]
Wakes == [Targets -> Priorities \cup {NoWake}]

Waiting(P) == {t \in Targets : P[t] # NoWake}
Busy       == {b \in Batches : batch[b].handler # NoHandler}

WakeTypeOK ==
    /\ handler \in 0..lives /\ lives \in 0..MaxLives
    /\ pending \in Wakes
    /\ timer \in {"none", "normal", "retry"}
    /\ {scheduled, running} \subseteq BOOLEAN /\ interrupted \in 0..lives
    /\ batch \in [Batches -> [handler : 0..MaxLives, wakes : Wakes, left : SUBSET Targets,
                              current : Targets \cup {NoTarget}]]
    /\ cooling \subseteq Targets

WakeInit ==
    /\ handler = NoHandler /\ lives = 0
    /\ pending = [t \in Targets |-> NoWake]
    /\ timer = "none" /\ scheduled = FALSE /\ running = FALSE
    /\ batch = [b \in Batches |-> Free]
    /\ cooling = {} /\ interrupted = 0

-----------------------------------------------------------------------------
\* Mutant: the latest reason wins.
Coalesce_Latest(P, t, p) == [P EXCEPT ![t] = p]

\* queuePendingWakeReason: a wake of lower priority does not replace a waiting one.
Coalesce(P, t, p) == [P EXCEPT ![t] = IF p >= @ THEN p ELSE @]

\* schedule(): a retry timer is left alone; a normal one that fires later than now wanted is
\* replaced by another normal one (a retry never is the sooner: delays are 0, 250 and 1000 ms).
Schedule(current, kind) == IF current = "none" THEN kind ELSE current

RequestHeartbeatNow(t, p) ==
    /\ pending' = Coalesce(pending, t, p)
    /\ timer' = Schedule(timer, "normal")
    /\ UNCHANGED <<handler, lives, scheduled, running, batch, cooling, interrupted>>

\* Mutant: pending wakes are left to the next request.
SetHandler_NoSchedule ==
    /\ lives < MaxLives /\ lives' = lives + 1 /\ handler' = lives + 1
    /\ timer' = "none" /\ scheduled' = FALSE /\ running' = FALSE
    /\ cooling' = {} /\ interrupted' = IF running THEN interrupted + 1 ELSE interrupted
    /\ UNCHANGED <<pending, batch>>

\* setHeartbeatWakeHandler(next): a new life; nothing of the old one's execution state stays.
SetHandler ==
    /\ lives < MaxLives /\ lives' = lives + 1 /\ handler' = lives + 1
    /\ timer' = IF Waiting(pending) # {} THEN "normal" ELSE "none"
    /\ scheduled' = FALSE /\ running' = FALSE
    /\ cooling' = {} /\ interrupted' = IF running THEN interrupted + 1 ELSE interrupted
    /\ UNCHANGED <<pending, batch>>

\* Mutant: the disposer does not look whose handler is registered.
DisposeHandler_Any(h) ==
    /\ h \in 1..lives
    /\ handler' = NoHandler
    /\ UNCHANGED <<lives, pending, timer, scheduled, running, batch, cooling, interrupted>>

\* The disposer of handler h, a no-op when another one has been registered since.
DisposeHandler(h) ==
    /\ h \in 1..lives
    /\ handler' = IF handler = h THEN NoHandler ELSE handler
    /\ UNCHANGED <<lives, pending, timer, scheduled, running, batch, cooling, interrupted>>

-----------------------------------------------------------------------------
(* The timer callback. *)

\* Mutant: the batch under way is not waited for.
TakeBatch_Concurrent ==
    /\ handler # NoHandler
    /\ \E b \in Batches \ Busy, t \in Waiting(pending) :
          batch' = [batch EXCEPT ![b] = [handler |-> handler, wakes |-> pending,
                                         left |-> Waiting(pending) \ {t}, current |-> t]]
    /\ pending' = [t \in Targets |-> NoWake]
    /\ timer' = "none" /\ scheduled' = FALSE /\ running' = TRUE
    /\ cooling' = {}

\* The wakes that wait become a batch, in an order that is left open.
TakeBatch ==
    /\ handler # NoHandler /\ ~running
    /\ \E b \in Batches \ Busy, t \in Waiting(pending) :
          /\ \A c \in Batches \ Busy : b <= c
          /\ batch' = [batch EXCEPT ![b] = [handler |-> handler, wakes |-> pending,
                                            left |-> Waiting(pending) \ {t}, current |-> t]]
    /\ pending' = [t \in Targets |-> NoWake]
    /\ timer' = "none" /\ scheduled' = FALSE /\ running' = TRUE
    /\ cooling' = {}

\* (There are pending wakes whenever there is a timer: PendingIsTimed.)
TimerFires ==
    /\ timer # "none"
    /\ \/ /\ handler = NoHandler
          /\ timer' = "none" /\ scheduled' = FALSE
          /\ UNCHANGED <<pending, running, batch, cooling>>
       \/ /\ handler # NoHandler /\ running
          /\ scheduled' = TRUE
          /\ UNCHANGED <<timer, pending, running, batch, cooling>>
       \/ TakeBatch
    /\ UNCHANGED <<handler, lives, interrupted>>

\* The finally block, with the pending wakes P and the timer T the batch leaves.
EndBatch(b, P, T) ==
    /\ batch' = [batch EXCEPT ![b] = Free]
    /\ pending' = P
    /\ timer' = IF Waiting(P) # {} \/ scheduled THEN Schedule(T, "normal") ELSE T
    /\ running' = FALSE

\* The handler answers for the current wake: requests are in flight, or anything else.  The loop
\* goes on with the next wake in the same job.
CallReturns(b, inFlight) ==
    LET B == batch[b]
        P == IF inFlight THEN Coalesce(pending, B.current, B.wakes[B.current]) ELSE pending
        T == IF inFlight THEN Schedule(timer, "retry") ELSE timer
    IN  /\ b \in Busy
        /\ \/ /\ B.left # {}
              /\ \E t \in B.left :
                    batch' = [batch EXCEPT ![b].current = t, ![b].left = B.left \ {t}]
              /\ pending' = P /\ timer' = T
              /\ UNCHANGED running
           \/ /\ B.left = {}
              /\ EndBatch(b, P, T)
        /\ cooling' = IF inFlight THEN cooling \cup {B.current} ELSE cooling
        /\ UNCHANGED <<handler, lives, scheduled, interrupted>>

\* The handler throws: the whole batch is put back, the wakes it has already served too.
CallThrows(b) ==
    LET W == batch[b].wakes
    IN  /\ b \in Busy
        /\ EndBatch(b, [t \in Targets |-> IF W[t] = NoWake THEN pending[t]
                                          ELSE Coalesce(pending, t, W[t])[t]],
                    Schedule(timer, "retry"))
        /\ cooling' = cooling \cup Waiting(W)
        /\ UNCHANGED <<handler, lives, scheduled, interrupted>>

-----------------------------------------------------------------------------
WakeNext ==
    \/ \E t \in Targets, p \in Priorities : RequestHeartbeatNow(t, p)
    \/ SetHandler
    \/ \E h \in 1..MaxLives : DisposeHandler(h)
    \/ TimerFires
    \/ \E b \in Batches : CallThrows(b) \/ \E inFlight \in BOOLEAN : CallReturns(b, inFlight)

WakeSpec == WakeInit /\ [][WakeNext]_wakeVars

\* Timers fire and every call of the handler ends (a heartbeat run has a timeout), but not in an
\* exception for ever: the wakes behind it in the batch would starve.
WakeFairness ==
    /\ WF_wakeVars(TimerFires)
    /\ \A b \in Batches : SF_wakeVars(\E inFlight \in BOOLEAN : CallReturns(b, inFlight))

FairWakeSpec == WakeSpec /\ WakeFairness

-----------------------------------------------------------------------------
(* Properties. *)

\* While a handler is registered, no pending wake waits without a timer: whichever way a wake
\* came to wait (requested, put back, left by an earlier life), something will take it.  And no
\* timer, not even one that outlives its handler, fires for nothing.
PendingIsTimed ==
    /\ handler # NoHandler /\ Waiting(pending) # {} => timer # "none"
    /\ timer # "none" => Waiting(pending) # {}

\* The running flag keeps batches apart, and it is never left up with no batch to take it down.
\* Registering a new handler drops it, and so does the finally block of a batch of the old one:
\* the batch of the new life then has no flag and another can start.  But such overlaps do not
\* build up: an interruption makes room for one batch more, and without any there is one at a time.
BatchesAreSerial ==
    /\ Cardinality(Busy) <= interrupted + (IF running THEN 1 ELSE 0)
    /\ running => Busy # {}

\* A requested wake reaches the handler with at least the priority it was requested with, or no
\* handler is left: coalescing, retries and changes of handler do not lose it.
WakeIsServed ==
    \A t \in Targets : \A p \in Priorities :
        handler # NoHandler /\ pending[t] = p
            ~> handler = NoHandler
               \/ \E b \in Busy : batch[b].current = t /\ batch[b].wakes[t] >= p

-----------------------------------------------------------------------------
\* What a comment says, and the code does not do: see the README.  A wake that was put back is
\* not tried again before its cooldown is over (heartbeat-wake.ts:123-124, "hard minimum delay").
RetryWaitsForCooldown ==
    [][\A t \in cooling : pending[t] # NoWake /\ pending'[t] = NoWake => timer = "retry"]_wakeVars
=============================================================================
