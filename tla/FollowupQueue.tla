--------------------------- MODULE FollowupQueue ---------------------------
(***************************************************************************)
(* The followup queue of one session (src/auto-reply/reply/queue and       *)
(* src/utils/queue-helpers.ts): messages that arrive while a run of the    *)
(* session is active wait in a queue object, and an asynchronous drain     *)
(* turns them into followup turns, one by one or collected in one prompt.  *)
(*                                                                         *)
(* A Map holds the object registered for the session's key.  A drain keeps *)
(* its own reference to the object it was started on, so objects have an   *)
(* identity here: an object that is no longer registered may still be      *)
(* drained.  A message's own run goes through new, active, ending (its     *)
(* handle is cleared, finalizeWithFollowup is yet to come), ownTurn.       *)
(***************************************************************************)
EXTENDS Integers, Sequences, FiniteSets, Functions

CONSTANTS
    Messages,      \* inbound messages, each with its own message id
    TargetOf,      \* [Messages -> targets]: channel, recipient, account and thread
    Modes,         \* the queue modes in use: "collect", "followup"
    DropPolicies,  \* "summarize", "old", "new"
    Cap,           \* settings.cap
    Objects,       \* identities of queue objects: a bound
    MaxClears,     \* bound on clearSessionQueues
    NoQueue        \* the Map has no entry

ASSUME FollowupQueueAssumption ==
    /\ Modes \subseteq {"collect", "followup"} /\ Modes # {}
    /\ DropPolicies \subseteq {"summarize", "old", "new"} /\ DropPolicies # {}
    /\ Cap \in Nat \ {0} /\ MaxClears \in Nat
    /\ IsFiniteSet(Messages) /\ NoQueue \notin Objects

VARIABLES
    registered,   \* FOLLOWUP_QUEUES.get(key)
    queue,        \* per object: FollowupQueueState
    drain,        \* per object: where its drain is, and the turn it runs
    hasCallback,  \* FOLLOWUP_RUN_CALLBACKS.has(key)
    recent,       \* RECENT_QUEUE_MESSAGE_IDS, within its time to live
    phase,        \* per message: what has become of it
    clears,       \* number of clearSessionQueues so far
    overflowed    \* history: a message has given way to the cap

vars == <<registered, queue, drain, hasCallback, recent, phase, clears, overflowed>>

Phases == {"new", "active", "ending", "ownTurn", "checked", "queued",
           "answered", "overflowed", "refused", "cleared"}

NewQueue == [items |-> <<>>, draining |-> FALSE, droppedCount |-> 0, summaryLines |-> <<>>,
             hasLastRun |-> FALSE, mode |-> CHOOSE m \in Modes : TRUE,
             dropPolicy |-> CHOOSE p \in DropPolicies : TRUE]
Idle     == [at |-> "idle", individually |-> FALSE, kind |-> "none", turn |-> <<>>, summary |-> FALSE]

TypeOK ==
    /\ registered \in Objects \cup {NoQueue}
    /\ \A o \in Objects :
          /\ queue[o].items \in Seq(Messages) /\ Len(queue[o].items) <= Cap
          /\ queue[o].summaryLines \in Seq(Messages) /\ Len(queue[o].summaryLines) <= Cap
          /\ queue[o].droppedCount \in 0..Cardinality(Messages)
          /\ queue[o].draining = (drain[o].at # "idle")
          /\ drain[o].at \in {"idle", "debounce", "skipped", "running"}
          /\ drain[o].kind \in {"none", "one", "summary", "batch"}
    /\ hasCallback \in BOOLEAN /\ recent \subseteq Messages
    /\ phase \in [Messages -> Phases] /\ clears \in 0..MaxClears /\ overflowed \in BOOLEAN

Init ==
    /\ registered = NoQueue
    /\ queue = [o \in Objects |-> NewQueue]
    /\ drain = [o \in Objects |-> Idle]
    /\ hasCallback = FALSE
    /\ recent = {}
    /\ phase = [m \in Messages |-> "new"]
    /\ clears = 0 /\ overflowed = FALSE

-----------------------------------------------------------------------------
(* scheduleFollowupDrain and the frame of its loop, applied to the queues Q and drains D the
   caller has just written. *)

Empty(q) == q.items = <<>> /\ q.droppedCount = 0

SummaryDue(q) == q.dropPolicy = "summarize" /\ q.droppedCount > 0

\* Begins the drain of the registered object; one that is empty is deleted at once.  (An object
\* nobody refers to any more is as good as new.)
ScheduleDrain(Q, D, R) ==
    LET begins == R # NoQueue /\ ~Q[R].draining
        works  == begins /\ ~Empty(Q[R])
    IN  /\ queue' = IF works THEN [Q EXCEPT ![R].draining = TRUE]
                    ELSE IF begins THEN [Q EXCEPT ![R] = NewQueue] ELSE Q
        /\ drain' = IF works THEN [D EXCEPT ![R] = [Idle EXCEPT !.at = "debounce"]] ELSE D
        /\ registered' = IF begins /\ ~works THEN NoQueue ELSE R
        /\ hasCallback' = (hasCallback \/ begins)

\* Mutant: a drain that ends leaves what has come in the meantime to somebody else.
EndDrain_NoReschedule(o, Q) ==
    /\ queue' = [Q EXCEPT ![o].draining = FALSE]
    /\ drain' = [drain EXCEPT ![o] = Idle]
    /\ registered' = IF Empty(Q[o]) THEN NoQueue ELSE registered
    /\ UNCHANGED hasCallback

\* Mutant: the finally block deletes the entry without looking into the queue.
EndDrain_AlwaysDelete(o, Q) ==
    /\ queue' = [Q EXCEPT ![o].draining = FALSE]
    /\ drain' = [drain EXCEPT ![o] = Idle]
    /\ registered' = NoQueue
    /\ UNCHANGED hasCallback

\* The finally block: delete whatever is registered under the key, or schedule again.
EndDrain(o, Q) ==
    LET D == [drain EXCEPT ![o] = Idle]
    IN  IF Empty(Q[o])
        THEN /\ queue' = [Q EXCEPT ![o] = NewQueue] /\ drain' = D /\ registered' = NoQueue
             /\ UNCHANGED hasCallback
        ELSE ScheduleDrain([Q EXCEPT ![o].draining = FALSE], D, registered)

\* Back to the loop's condition.
NextIteration(o, Q) ==
    IF Empty(Q[o]) THEN EndDrain(o, Q)
    ELSE /\ queue' = Q
         /\ drain' = [drain EXCEPT ![o] =
                        [Idle EXCEPT !.at = "debounce", !.individually = drain[o].individually]]
         /\ UNCHANGED <<registered, hasCallback>>

-----------------------------------------------------------------------------
(* Inbound messages: runReplyAgent. *)

\* isEmbeddedPiRunActive(sessionId): the session's own run, or a followup turn.
RunActive == \/ \E m \in Messages : phase[m] = "active"
             \/ \E o \in Objects : drain[o].at = "running"

\* The message found no active run: it runs itself.  A followup turn need not be registered yet.
OwnRunStarts(m) ==
    /\ phase[m] = "new" /\ \A n \in Messages : phase[n] # "active"
    /\ phase' = [phase EXCEPT ![m] = "active"]
    /\ UNCHANGED <<registered, queue, drain, hasCallback, recent, clears, overflowed>>

OwnRunEnds(m) ==
    /\ phase[m] = "active"
    /\ phase' = [phase EXCEPT ![m] = "ending"]
    /\ UNCHANGED <<registered, queue, drain, hasCallback, recent, clears, overflowed>>

\* finalizeWithFollowup.
Finalize(m) ==
    /\ phase[m] = "ending"
    /\ phase' = [phase EXCEPT ![m] = "ownTurn"]
    /\ ScheduleDrain(queue, drain, registered)
    /\ UNCHANGED <<recent, clears, overflowed>>

\* The message found a run active; the enqueue comes after an await.
SeesActiveRun(m) ==
    /\ phase[m] = "new" /\ RunActive
    /\ phase' = [phase EXCEPT ![m] = "checked"]
    /\ UNCHANGED <<registered, queue, drain, hasCallback, recent, clears, overflowed>>

\* An object that nobody refers to any more: the identity of the next new object.
Fresh(o) == o # registered /\ queue[o].items = <<>> /\ drain[o] = Idle
Current  == IF registered # NoQueue THEN registered
            ELSE CHOOSE o \in Objects : Fresh(o)

\* getFollowupQueue: the registered object with the settings applied, or a new one.
Configured(mode, policy) ==
    [(IF registered # NoQueue THEN queue[registered] ELSE NewQueue)
        EXCEPT !.mode = mode, !.dropPolicy = policy]

KeepLast(s, n) == IF Len(s) <= n THEN s ELSE SubSeq(s, Len(s) - n + 1, Len(s))

\* applyQueueDropPolicy for a policy that admits the message.
ApplyDropPolicy(q) ==
    LET n       == Len(q.items) - Cap + 1
        dropped == SubSeq(q.items, 1, n)
        kept    == SubSeq(q.items, n + 1, Len(q.items))
    IN  IF Len(q.items) < Cap THEN q
        ELSE IF q.dropPolicy = "summarize"
        THEN [q EXCEPT !.items = kept, !.droppedCount = @ + n,
                       !.summaryLines = KeepLast(@ \o dropped, Cap)]
        ELSE [q EXCEPT !.items = kept]

\* Mutant: a redelivered message is queued again.
Duplicate_Never(m) == FALSE

Duplicate(m) == m \in recent

\* enqueueFollowupRun, which also applies the settings when it rejects the message.
Enqueue(m, mode, policy) ==
    LET q == Configured(mode, policy)
        o == Current
        a == ApplyDropPolicy(q)
    IN  /\ phase[m] = "checked" \/ m \in recent
        /\ registered # NoQueue \/ \E p \in Objects : Fresh(p)
        /\ \/ /\ Duplicate(m)
              /\ queue' = [queue EXCEPT ![o] = q] /\ registered' = o
              /\ UNCHANGED <<drain, hasCallback, recent, phase, overflowed>>
           \/ /\ ~Duplicate(m) /\ policy = "new" /\ Len(q.items) >= Cap
              /\ queue' = [queue EXCEPT ![o] = [q EXCEPT !.hasLastRun = TRUE]] /\ registered' = o
              /\ phase' = [phase EXCEPT ![m] = "refused"]
              /\ UNCHANGED <<drain, hasCallback, recent, overflowed>>
           \/ /\ ~Duplicate(m) /\ ~(policy = "new" /\ Len(q.items) >= Cap)
              /\ LET Q == [queue EXCEPT ![o] =
                             [a EXCEPT !.items = Append(@, m), !.hasLastRun = TRUE]]
                 IN  IF ~q.draining /\ hasCallback
                     THEN ScheduleDrain(Q, drain, o)
                     ELSE queue' = Q /\ registered' = o /\ UNCHANGED <<drain, hasCallback>>
              /\ recent' = recent \cup {m}
              /\ overflowed' = (overflowed \/ q.items # a.items)
              /\ phase' = [n \in Messages |->
                             IF n = m THEN "queued"
                             ELSE IF n \in Range(q.items) \ Range(a.items) THEN "overflowed"
                             ELSE phase[n]]
        /\ UNCHANGED clears

\* Mutant: the waiting messages stay in the object that is being drained.
ClearSessionQueues_KeepsItems ==
    /\ clears < MaxClears /\ clears' = clears + 1
    /\ registered # NoQueue
    /\ phase' = [m \in Messages |-> IF m \in Range(queue[registered].items) THEN "cleared" ELSE phase[m]]
    /\ registered' = NoQueue /\ hasCallback' = FALSE
    /\ UNCHANGED <<queue, drain, recent, overflowed>>

\* clearSessionQueues, of /stop and a session reset.
ClearSessionQueues ==
    /\ clears < MaxClears /\ clears' = clears + 1
    /\ hasCallback' = FALSE /\ registered' = NoQueue
    /\ IF registered = NoQueue
       THEN UNCHANGED <<queue, phase>>
       ELSE /\ queue' = [queue EXCEPT ![registered] =
                           [@ EXCEPT !.items = <<>>, !.droppedCount = 0, !.summaryLines = <<>>,
                                     !.hasLastRun = FALSE]]
            /\ phase' = [m \in Messages |->
                           IF m \in Range(queue[registered].items) THEN "cleared" ELSE phase[m]]
    /\ UNCHANGED <<drain, recent, overflowed>>

-----------------------------------------------------------------------------
(* The drain. *)

Start(o, kind, turn, individually) ==
    /\ drain' = [drain EXCEPT ![o] = [at |-> "running", individually |-> individually, kind |-> kind,
                                      turn |-> turn, summary |-> SummaryDue(queue[o])]]
    /\ UNCHANGED <<registered, queue, hasCallback>>

CrossChannel(q) == \E m, n \in Range(q.items) : TargetOf[m] # TargetOf[n]

\* The head of the queue gets a turn of its own; without a head the loop is left.
StartOne(o, individually) ==
    IF queue[o].items = <<>> THEN EndDrain(o, queue)
    ELSE Start(o, "one", <<Head(queue[o].items)>>, individually)

\* waitForQueueDebounce is over: choose what the next turn is.
Debounced(o) ==
    LET q == queue[o]
        individually == drain[o].individually \/ CrossChannel(q)
    IN  /\ drain[o].at = "debounce"
        /\ \/ /\ q.mode = "collect" /\ individually
              /\ StartOne(o, TRUE)
           \/ /\ q.mode = "collect" /\ ~individually
              /\ drain' = [drain EXCEPT ![o].at = "skipped"]
              /\ UNCHANGED <<registered, queue, hasCallback>>
           \/ /\ q.mode # "collect" /\ SummaryDue(q)
              /\ IF q.items = <<>> \/ ~q.hasLastRun THEN EndDrain(o, queue)
                 ELSE Start(o, "summary", <<>>, drain[o].individually)
           \/ /\ q.mode # "collect" /\ ~SummaryDue(q)
              /\ StartOne(o, drain[o].individually)
        /\ UNCHANGED <<recent, phase, clears, overflowed>>

\* After the await of drainCollectQueueStep: collect what waits now.
StartBatch(o) ==
    LET q == queue[o]
    IN  /\ drain[o].at = "skipped"
        /\ IF q.items = <<>> /\ ~q.hasLastRun THEN EndDrain(o, queue)
           ELSE Start(o, "batch", q.items, drain[o].individually)
        /\ UNCHANGED <<recent, phase, clears, overflowed>>

\* Mutant: the entry stays at the head of the queue.
TurnSucceeds_KeepsHead(o) ==
    /\ drain[o].at = "running"
    /\ phase' = [m \in Messages |-> IF m \in Range(drain[o].turn) THEN "answered" ELSE phase[m]]
    /\ NextIteration(o, queue)
    /\ UNCHANGED <<recent, clears, overflowed>>

\* Mutant: all that waits is taken off with the batch.
TurnSucceeds_TakesAll(o) ==
    /\ drain[o].at = "running"
    /\ phase' = [m \in Messages |-> IF m \in Range(drain[o].turn) THEN "answered" ELSE phase[m]]
    /\ NextIteration(o, [queue EXCEPT ![o].items = <<>>])
    /\ UNCHANGED <<recent, clears, overflowed>>

\* runFollowup resolves: take off as many entries as the turn was made of, whatever they are now.
TurnSucceeds(o) ==
    LET q      == queue[o]
        taken  == IF drain[o].kind = "batch" THEN Len(drain[o].turn) ELSE 1
        rest   == SubSeq(q.items, taken + 1, Len(q.items))
        summaryTold == drain[o].kind # "one" /\ drain[o].summary
    IN  /\ drain[o].at = "running"
        /\ phase' = [m \in Messages |-> IF m \in Range(drain[o].turn) THEN "answered" ELSE phase[m]]
        /\ NextIteration(o, [queue EXCEPT ![o] =
               IF summaryTold THEN [q EXCEPT !.items = rest, !.droppedCount = 0, !.summaryLines = <<>>]
               ELSE [q EXCEPT !.items = rest]])
        /\ UNCHANGED <<recent, clears, overflowed>>

\* runFollowup rejects: nothing is taken off.
TurnFails(o) ==
    /\ drain[o].at = "running"
    /\ EndDrain(o, queue)
    /\ UNCHANGED <<recent, phase, clears, overflowed>>

-----------------------------------------------------------------------------
DrainStep(o) == Debounced(o) \/ StartBatch(o) \/ TurnSucceeds(o)

Next ==
    \/ \E m \in Messages : OwnRunStarts(m) \/ OwnRunEnds(m) \/ Finalize(m) \/ SeesActiveRun(m)
    \/ \E m \in Messages, mode \in Modes, policy \in DropPolicies : Enqueue(m, mode, policy)
    \/ ClearSessionQueues
    \/ \E o \in Objects : Debounced(o) \/ StartBatch(o) \/ TurnSucceeds(o) \/ TurnFails(o)

Spec == Init /\ [][Next]_vars

\* Runs and followup turns end, timers and promises fire, and a turn that is tried again and
\* again does not fail for ever.
Fairness ==
    /\ \A m \in Messages : WF_vars(OwnRunEnds(m)) /\ WF_vars(Finalize(m))
    /\ \A o \in Objects : WF_vars(Debounced(o)) /\ WF_vars(StartBatch(o)) /\ SF_vars(TurnSucceeds(o))

FairSpec == Spec /\ Fairness

-----------------------------------------------------------------------------
(* Properties. *)

Waits(m, o) == m \in Range(queue[o].items)

\* A turn that starts carries only messages that still wait for one: none that was answered
\* before (by a turn that succeeded), that gave way to the cap, or that /stop has cleared, not
\* even by a drain that was in flight when the queue was cleared.
TurnsCarryWaitingMessages ==
    [][\A o \in Objects : drain[o].at # "running" /\ drain'[o].at = "running"
          => \A m \in Range(drain'[o].turn) : phase[m] = "queued"]_vars

\* One message never waits twice: redeliveries and retries do not duplicate it.
WaitsOnce ==
    \A o, p \in Objects : \A i \in DOMAIN queue[o].items, j \in DOMAIN queue[p].items :
        queue[o].items[i] = queue[p].items[j] => o = p /\ i = j

\* As long as nothing has been cleared, messages wait only where a drain will find them: in the
\* registered object.  Without it a queue is abandoned while it still holds messages.
NothingIsAbandoned ==
    clears = 0 => \A o \in Objects : queue[o].items # <<>> => o = registered

\* Every queued message waits in some queue (reply-flow.test.ts:1316, "without losing queued items").
NothingIsLost == \A m \in Messages : phase[m] = "queued" => \E o \in Objects : Waits(m, o)

\* Until the queue overflows, a queued message waits in some queue until a turn has answered it
\* or /stop has cleared it: no turn, failure, retry or change of settings takes it away unseen.
\* (What an overflow does to the messages that wait is another matter: see the last section.)
NothingVanishes == ~overflowed => NothingIsLost

\* Once a drain has been started for the session (the callback is cached), a message that waits
\* is answered, unless /stop or an overflow intervenes: one that arrives just after a drain has
\* emptied and deleted the queue restarts it.
WaitingIsAnswered ==
    \A m \in Messages : phase[m] = "queued" /\ hasCallback
        ~> phase[m] = "answered" \/ clears > 0 \/ overflowed

\* A drain comes to rest when no more messages arrive, unless it is left with a summary.
DrainComesToRest ==
    (\E o \in Objects : queue[o].draining) ~> (\A o \in Objects : ~queue[o].draining) \/ overflowed

-----------------------------------------------------------------------------
(* What comments, tests and documents say, and the code does not do: see the README. *)

\* The turn that tells the summary of the dropped messages is an extra turn: no message that
\* waits leaves the queue with it (queue.md:69, "a synthetic followup prompt").
SummaryTurnTakesNoMessage ==
    [][\A o \in Objects : drain[o].kind = "summary" /\ drain'[o].kind # "summary"
          => \A m \in Range(queue[o].items) :
                phase'[m] = "queued" => m \in Range(queue'[o].items)]_vars

\* A drain comes to rest, with a summary too: it is told in a turn (queue.md:69).
DrainAlwaysRests ==
    (\E o \in Objects : queue[o].draining) ~> (\A o \in Objects : ~queue[o].draining)

\* A queue that still holds messages is registered or being drained (enqueue.ts:98-100).
NothingIsStranded ==
    \A o \in Objects : queue[o].items # <<>> => o = registered \/ queue[o].draining

\* Messages to different targets are never collected in one prompt (queue.md:31).
BatchesHaveOneTarget ==
    \A o \in Objects : drain[o].at = "running" =>
        \A m, n \in Range(drain[o].turn) : TargetOf[m] = TargetOf[n]
=============================================================================
