---------------------------- MODULE CronService ----------------------------
(***************************************************************************)
(* The cron service (src/cron/service: ops.ts, timer.ts, store.ts,         *)
(* locked.ts): it keeps the jobs in memory and in a file, runs the missed  *)
(* ones when it starts, arms a timer for the next one, runs what is due on *)
(* each tick, and serves add, update, remove, list and manual runs.        *)
(*                                                                         *)
(* locked() serializes sections per store file, over every service that    *)
(* uses the file, so a section is one step: what it reads and changes in   *)
(* memory, and the write of the file (saveCronStore renames, so a crash    *)
(* leaves the old file or the new one).  Runs of jobs are outside the      *)
(* lock.  Memory is trusted: only sections with forceReload read the file. *)
(***************************************************************************)
EXTENDS CronJobs

CONSTANTS
    Services,       \* the services of the process that share the file
    Stored,         \* the jobs the file holds at first; the others can be added
    Outlasting,     \* the jobs whose runs may last longer than STUCK_RUN_MS
    Edited,         \* the jobs whose enabled flag and schedule are patched
    Manuals,        \* the manual runs that can be queued or going on at once: a bound
    JobOf,          \* the job of each
    MaxConcurrent,  \* cronConfig.maxConcurrentRuns: of a tick, and of the cron lane
    MaxTime,        \* bound on the clock
    MaxEvents,      \* bound on calls that write, manual runs, aged markers and crashes, together
    NoStore         \* state.store = null

ASSUME CronServiceAssumption ==
    /\ Stored \subseteq Jobs /\ Outlasting \subseteq Jobs
    /\ Edited \subseteq Jobs /\ JobOf \in [Manuals -> Jobs]
    /\ MaxConcurrent \in Nat \ {0} /\ MaxTime \in Nat \ {0}
    /\ MaxEvents \in Nat

VARIABLES
    now,      \* deps.nowMs()
    disk,     \* the store file
    memory,   \* state.store of each service, NoStore while it is null
    timer,    \* the services whose state.timer is set
    boot,     \* where the start() of each service is
    tick,     \* where the tick of each service is; state.running unless "idle"
    manual,   \* where each manual run is
    fresh,    \* the jobs that can still be added
    events,   \* how many of the bounded events there have been
    cut,      \* history: the jobs whose last run a crash cut short
    excused   \* history: the jobs that were patched, or whose marker aged

cronVars == <<now, disk, memory, timer, boot, tick, manual, fresh, events, cut, excused>>

NoRuns  == <<>>        \* a function with an empty domain
Idle    == [at |-> "idle", todo |-> <<>>, active |-> NoRuns, done |-> NoRuns]
Off     == [at |-> "off", skip |-> {}, deferred |-> <<>>,
            todo |-> <<>>, active |-> NoRuns, done |-> NoRuns]
NoRun   == [at |-> "none", s |-> 0, force |-> FALSE, run |-> 0]

Set(seq) == {seq[i] : i \in 1..Len(seq)}

\* The job as createJob makes it, and as an earlier life left it on disk.
NewJob(j, t) ==
    LET st == [enabled |-> TRUE, next |-> 0, running |-> "none", lastRun |-> 0,
               status |-> "none", errors |-> 0]
    IN  [st EXCEPT !.next = ComputeNext(j, st, t)]

CronInit ==
    /\ now = 1
    /\ disk = [j \in Stored |-> NewJob(j, 1)]
    /\ memory = [s \in Services |-> NoStore]
    /\ timer = {}
    /\ boot = [s \in Services |-> [Off EXCEPT !.at = "clear"]]
    /\ tick = [s \in Services |-> Idle]
    /\ manual = [m \in Manuals |-> NoRun]
    /\ fresh = Jobs \ Stored
    /\ events = 0 /\ cut = {} /\ excused = {}

-----------------------------------------------------------------------------
(* Sections. *)

\* start() takes its place in the queue of the lock before anything else can call the service:
\* its first section is the one whose ensureLoaded reads the file.
Callable(s) == boot[s].at \notin {"off", "clear"}

\* The section of service s ends with this store in memory and on disk.
Persist(s, store) == memory' = [memory EXCEPT ![s] = store] /\ disk' = store

\* armTimer: clears the timer, and sets it if some job has a next run.
ArmTimer(s, store) == timer' = IF HasNextWake(store) THEN timer \cup {s} ELSE timer \ {s}

\* The bound on what comes from outside.
Event == events < MaxEvents /\ events' = events + 1

\* runningAtMs and lastError of jobs about to run
Marked(store, J) == [j \in DOMAIN store |->
    IF j \in J THEN [store[j] EXCEPT !.running = "recent"] ELSE store[j]]

\* executeJobCoreWithTimeout begins for, and returns to, a batch of runs.
Begin(batch, j)    == [batch EXCEPT !.todo = Tail(@), !.active = Put(@, j, now)]
End(batch, j, res) ==
    [batch EXCEPT !.active = [k \in DOMAIN @ \ {j} |-> @[k]],
                  !.done = Put(@, j, [result |-> res, started |-> batch.active[j], ended |-> now])]

-----------------------------------------------------------------------------
(* start() *)

\* Mutant: startup keeps the running markers of the process that crashed.
StartClear_Keep(s) ==
    /\ boot[s].at = "clear"
    /\ Persist(s, disk)
    /\ boot' = [boot EXCEPT ![s].at = "plan", ![s].skip = {}]
    /\ UNCHANGED <<now, timer, tick, manual, fresh, events, cut, excused>>

\* The markers on disk are of runs that an earlier process did not finish.
StartClear(s) ==
    /\ boot[s].at = "clear"
    /\ Persist(s, [j \in DOMAIN disk |-> [disk[j] EXCEPT !.running = "none"]])
    /\ boot' = [boot EXCEPT ![s].at = "plan",
                            ![s].skip = {j \in DOMAIN disk : disk[j].running # "none"}]
    /\ UNCHANGED <<now, timer, tick, manual, fresh, events, cut, excused>>

\* planStartupCatchup: the first MaxImmediate missed jobs are marked, the others deferred.
\* Jobs with the same slot keep the order of the file, which is any.
StartPlan(s) ==
    LET store     == memory[s]
        missed    == {j \in DOMAIN store \ boot[s].skip : IsMissed(j, store[j], now)}
        Sorted(q) == \A i, k \in 1..Len(q) : i < k => store[q[i]].next <= store[q[k]].next
        Immediate(q) == SubSeq(q, 1, IF Len(q) < MaxImmediate THEN Len(q) ELSE MaxImmediate)
    IN  /\ boot[s].at = "plan"
        /\ \E sorted \in {q \in SetToSeqs(missed) : Sorted(q)} :
              LET todo == Immediate(sorted)
              IN  /\ IF missed = {} THEN UNCHANGED <<memory, disk>>
                     ELSE Persist(s, Marked(store, Set(todo)))
                  /\ boot' = [boot EXCEPT ![s] =
                        [Off EXCEPT !.at = IF missed = {} THEN "arm" ELSE "run", !.todo = todo,
                                    !.deferred = SubSeq(sorted, Len(todo) + 1, Len(sorted))]]
        /\ UNCHANGED <<now, timer, tick, manual, fresh, events, cut, excused>>

\* executeStartupCatchupPlan: one after the other.
StartRun(s) ==
    /\ boot[s].at = "run" /\ boot[s].todo # <<>> /\ DOMAIN boot[s].active = {}
    /\ boot' = [boot EXCEPT ![s] = Begin(@, Head(@.todo))]
    /\ cut' = cut \ {Head(boot[s].todo)}
    /\ UNCHANGED <<now, disk, memory, timer, tick, manual, fresh, events, excused>>

StartRunEnds(s, res) ==
    /\ boot[s].at = "run"
    /\ \E j \in DOMAIN boot[s].active : boot' = [boot EXCEPT ![s] = End(@, j, res)]
    /\ UNCHANGED <<now, disk, memory, timer, tick, manual, fresh, events, cut, excused>>

\* applyStartupCatchupOutcomes: reload, apply, give the deferred jobs staggered slots.
StartOutcomes(s) ==
    LET applied    == ApplyOutcomes(disk, boot[s].done)
        deferred   == SelectSeq(boot[s].deferred,
                                LAMBDA j : j \in DOMAIN applied /\ applied[j].enabled)
        staggered  == [j \in DOMAIN applied |->
            IF j \in Set(deferred)
            THEN [applied[j] EXCEPT !.next = now + (CHOOSE i \in 1..Len(deferred) : deferred[i] = j)]
            ELSE applied[j]]
    IN  /\ boot[s].at = "run" /\ boot[s].todo = <<>> /\ DOMAIN boot[s].active = {}
        /\ Persist(s, Maintain(staggered, now, FALSE))
        /\ boot' = [boot EXCEPT ![s] = [Off EXCEPT !.at = "arm"]]
        /\ UNCHANGED <<now, timer, tick, manual, fresh, events, cut, excused>>

\* The last section of start(): reload and recompute, whatever fell due meanwhile.
StartArm(s) ==
    LET store == Recompute(disk, now)
    IN  /\ boot[s].at = "arm"
        /\ Persist(s, store) /\ ArmTimer(s, store)
        /\ boot' = [boot EXCEPT ![s].at = "up"]
        /\ UNCHANGED <<now, tick, manual, fresh, events, cut, excused>>

-----------------------------------------------------------------------------
(* onTimer() *)

\* Mutant: a tick that meets a running one leaves no timer behind.
TimerFires_Dies(s) ==
    /\ s \in timer
    /\ IF tick[s].at = "idle" THEN /\ tick' = [tick EXCEPT ![s].at = "collect"]
                                   /\ UNCHANGED timer
       ELSE timer' = timer \ {s} /\ UNCHANGED tick
    /\ UNCHANGED <<now, disk, memory, boot, manual, fresh, events, cut, excused>>

\* The timer fires, early or late; either way armRunningRecheckTimer sets it again.
TimerFires(s) ==
    /\ s \in timer /\ tick[s].at = "idle"
    /\ tick' = [tick EXCEPT ![s].at = "collect"]
    /\ UNCHANGED <<now, disk, memory, timer, boot, manual, fresh, events, cut, excused>>

\* The first section: reload, mark what is due, in the order of the file, which is any.
Collect(s) ==
    LET due == {j \in DOMAIN disk : IsRunnable(j, disk[j], now)}
    IN  /\ tick[s].at = "collect"
        /\ Persist(s, IF due = {} THEN Maintain(disk, now, TRUE) ELSE Marked(disk, due))
        /\ \E todo \in SetToSeqs(due) :
              tick' = [tick EXCEPT ![s].at = IF due = {} THEN "end" ELSE "run", ![s].todo = todo]
        /\ UNCHANGED <<now, timer, boot, manual, fresh, events, cut, excused>>

\* A worker takes the next due job.  It stamps the marker of the job object it was given,
\* which is the one in memory unless memory has been reloaded since.
RunDueJob(s) ==
    /\ tick[s].at = "run" /\ tick[s].todo # <<>>
    /\ Cardinality(DOMAIN tick[s].active) < MaxConcurrent
    /\ tick' = [tick EXCEPT ![s] = Begin(@, Head(@.todo))]
    /\ cut' = cut \ {Head(tick[s].todo)}
    /\ memory' \in {memory, [memory EXCEPT ![s] = Marked(@, {Head(tick[s].todo)})]}
    /\ UNCHANGED <<now, disk, timer, boot, manual, fresh, events, excused>>

DueJobEnds(s, j, res) ==
    /\ tick[s].at = "run" /\ j \in DOMAIN tick[s].active
    /\ tick' = [tick EXCEPT ![s] = End(@, j, res)]
    /\ UNCHANGED <<now, disk, memory, timer, boot, manual, fresh, events, cut, excused>>

\* The last section, when every worker has returned: reload, apply.
Finish(s) ==
    /\ tick[s].at = "run" /\ tick[s].todo = <<>> /\ DOMAIN tick[s].active = {}
    /\ Persist(s, Maintain(ApplyOutcomes(disk, tick[s].done), now, FALSE))
    /\ tick' = [tick EXCEPT ![s] = [Idle EXCEPT !.at = "end"]]
    /\ UNCHANGED <<now, timer, boot, manual, fresh, events, cut, excused>>

\* finally: running = false; the timer is armed, even if stop() has been called.
TickEnds(s) ==
    /\ tick[s].at = "end"
    /\ tick' = [tick EXCEPT ![s] = Idle]
    /\ ArmTimer(s, memory[s])
    /\ UNCHANGED <<now, disk, memory, boot, manual, fresh, events, cut, excused>>

-----------------------------------------------------------------------------
(* Calls. *)

\* add(): every missing or past-due slot is recomputed.
Add(s, j) ==
    LET store == Recompute(Put(memory[s], j, NewJob(j, now)), now)
    IN  /\ Event /\ j \in fresh /\ fresh' = fresh \ {j}
        /\ Persist(s, store) /\ ArmTimer(s, store)
        /\ UNCHANGED <<now, boot, tick, manual, cut, excused>>

\* update(): patches of enabled and schedule compute the slot, others repair a missing one.
Update(s, j, patch) ==
    LET store == memory[s]
        st    == [store[j] EXCEPT !.enabled = CASE patch = "enable"  -> TRUE
                                                   [] patch = "disable" -> FALSE
                                                   [] OTHER             -> @]
        anew  == IF ~st.enabled THEN [st EXCEPT !.next = 0, !.running = "none"]
                 ELSE [st EXCEPT !.next = ComputeNext(j, st, now)]
        after == [store EXCEPT ![j] = IF patch = "edit" /\ (~st.enabled \/ st.next # 0)
                                      THEN st ELSE anew]
    IN  /\ Event /\ j \in DOMAIN store
        /\ Persist(s, after) /\ ArmTimer(s, after)
        /\ excused' = IF patch = "edit" THEN excused ELSE excused \cup {j}
        /\ UNCHANGED <<now, boot, tick, manual, fresh, cut>>

Patches(j) == IF j \in Edited THEN {"enable", "disable", "schedule", "edit"} ELSE {"edit"}

\* remove(), also of a job that is not there
RemoveJob(s, j) ==
    LET after == [k \in DOMAIN memory[s] \ {j} |-> memory[s][k]]
    IN  /\ Event
        /\ Persist(s, after) /\ ArmTimer(s, after)
        /\ UNCHANGED <<now, boot, tick, manual, fresh, cut, excused>>

\* list(), listPage() and status(): a repair is persisted.
List(s) ==
    /\ Maintain(memory[s], now, FALSE) # memory[s]
    /\ Persist(s, Maintain(memory[s], now, FALSE))
    /\ UNCHANGED <<now, timer, boot, tick, manual, fresh, events, cut, excused>>

-----------------------------------------------------------------------------
(* Manual runs. *)

\* inspectManualRunPreflight: the repair stays in memory.
Preflight(s) == memory' = [memory EXCEPT ![s] = Maintain(memory[s], now, FALSE)]

\* enqueueRun: a job that passes the preflight goes to the cron lane.
EnqueueRun(s, m, force) ==
    LET j == JobOf[m] IN
    /\ Event /\ manual[m].at = "none"
    /\ Preflight(s)
    /\ j \in DOMAIN memory'[s] /\ IsDue(memory'[s][j], now, force)
    /\ manual' = [manual EXCEPT ![m] = [NoRun EXCEPT !.at = "queued", !.s = s, !.force = force]]
    /\ UNCHANGED <<now, disk, timer, boot, tick, fresh, cut, excused>>

\* The lane starts the run: its own preflight passes, or it is over.
ManualPreflight(m) ==
    LET s == manual[m].s
        j == JobOf[m]
    IN  /\ manual[m].at = "queued"
        /\ Cardinality({k \in Manuals : manual[k].at \in {"ready", "run", "finish"}}) < MaxConcurrent
        /\ Preflight(s)
        /\ manual' = [manual EXCEPT ![m] =
               IF j \in DOMAIN memory'[s] /\ IsDue(memory'[s][j], now, manual[m].force)
               THEN [@ EXCEPT !.at = "ready", !.run = now] ELSE NoRun]
        /\ UNCHANGED <<now, disk, timer, boot, tick, fresh, events, cut, excused>>

\* Mutant: the reservation trusts the preflight, a section ago.
Reserve_Trusts(m) ==
    LET s == manual[m].s
        j == JobOf[m]
    IN  /\ manual[m].at = "ready"
        /\ IF j \in DOMAIN memory[s]
           THEN /\ Persist(s, Marked(memory[s], {j}))
                /\ manual' = [manual EXCEPT ![m].at = "run"]
           ELSE manual' = [manual EXCEPT ![m] = NoRun] /\ UNCHANGED <<disk, memory>>
        /\ UNCHANGED <<now, timer, boot, tick, fresh, events, cut, excused>>

\* The second section of prepareManualRun: mark and persist before the lock is released.
Reserve(m) ==
    LET s == manual[m].s
        j == JobOf[m]
    IN  /\ manual[m].at = "ready"
        /\ IF j \in DOMAIN memory[s] /\ memory[s][j].running = "none"
           THEN /\ Persist(s, Marked(memory[s], {j}))
                /\ manual' = [manual EXCEPT ![m].at = "run"]
           ELSE manual' = [manual EXCEPT ![m] = NoRun] /\ UNCHANGED <<disk, memory>>
        /\ UNCHANGED <<now, timer, boot, tick, fresh, events, cut, excused>>

\* executeJobCoreWithTimeout returns to the manual run.
ManualEnds(m, res) ==
    /\ manual[m].at = "run"
    /\ manual' = [manual EXCEPT ![m].at = "finish",
                     ![m].run = [result |-> res, started |-> @, ended |-> now]]
    /\ UNCHANGED <<now, disk, memory, timer, boot, tick, fresh, events, cut, excused>>

\* finishPreparedManualRun: the job as memory has it takes the result; its enabled flag and
\* state go over the reloaded one.
FinishManual(m) ==
    LET s      == manual[m].s
        j      == JobOf[m]
        run    == manual[m].run
        mine   == Applied(j, memory[s][j], run, manual[m].force)
        merged == IF Deletes(j, run.result) THEN [k \in DOMAIN disk \ {j} |-> disk[k]]
                  ELSE [k \in DOMAIN disk |-> IF k = j THEN mine ELSE disk[k]]
        store  == Maintain(merged, now, TRUE)
    IN  /\ manual[m].at = "finish"
        /\ IF j \in DOMAIN memory[s] THEN Persist(s, store) /\ ArmTimer(s, store)
           ELSE UNCHANGED <<disk, memory, timer>>
        /\ manual' = [manual EXCEPT ![m] = NoRun]
        /\ UNCHANGED <<now, boot, tick, fresh, events, cut, excused>>

-----------------------------------------------------------------------------
(* Time and crashes. *)

\* The runs of job j that are going on.
Executions(j) == {<<"tick", s>> : s \in {t \in Services : j \in DOMAIN tick[t].active}}
            \cup {<<"boot", s>> : s \in {t \in Services : j \in DOMAIN boot[t].active}}
            \cup {<<"hand", m>> : m \in {n \in Manuals : JobOf[n] = j /\ manual[n].at = "run"}}

Advance ==
    /\ now < MaxTime /\ now' = now + 1
    /\ UNCHANGED <<disk, memory, timer, boot, tick, manual, fresh, events, cut, excused>>

\* A marker becomes older than STUCK_RUN_MS, in every copy of the job.
Aged(store, j) == IF j \in DOMAIN store /\ store[j].running = "recent"
                  THEN [store EXCEPT ![j].running = "old"] ELSE store
MarkerAges(j) ==
    /\ Event /\ j \in DOMAIN disk /\ disk[j].running = "recent"
    /\ disk' = Aged(disk, j)
    /\ memory' = [s \in Services |-> IF memory[s] = NoStore THEN NoStore ELSE Aged(memory[s], j)]
    /\ excused' = excused \cup {j}
    /\ UNCHANGED <<now, timer, boot, tick, manual, fresh, cut>>

\* The process crashes; the services of the next one start on the same file.
Crash ==
    /\ Event
    /\ memory' = [s \in Services |-> NoStore]
    /\ timer' = {}
    /\ boot' = [s \in Services |-> [Off EXCEPT !.at = "clear"]]
    /\ tick' = [s \in Services |-> Idle]
    /\ manual' = [m \in Manuals |-> NoRun]
    /\ cut' = cut \cup {j \in Jobs : Executions(j) # {}}
    /\ UNCHANGED <<now, disk, fresh, excused>>

Starts(s) == \/ StartClear(s) \/ StartPlan(s) \/ StartRun(s) \/ StartOutcomes(s) \/ StartArm(s)
             \/ \E res \in Results : StartRunEnds(s, res)
Ticks(s)  == \/ TimerFires(s) \/ Collect(s) \/ RunDueJob(s) \/ Finish(s) \/ TickEnds(s)
             \/ \E j \in Jobs, res \in Results : DueJobEnds(s, j, res)
Manual(m) == \/ ManualPreflight(m) \/ Reserve(m) \/ FinishManual(m)
             \/ \E res \in Results : ManualEnds(m, res)
Calls(s)  == /\ Callable(s)
             /\ \/ List(s)
                \/ \E j \in Jobs : \/ Add(s, j) \/ RemoveJob(s, j)
                                   \/ \E patch \in Patches(j) : Update(s, j, patch)
                \/ \E m \in Manuals, force \in BOOLEAN : EnqueueRun(s, m, force)

CronNext ==
    \/ \E s \in Services : Starts(s) \/ Ticks(s) \/ Calls(s)
    \/ \E m \in Manuals : Manual(m)
    \/ \E j \in Outlasting : MarkerAges(j)
    \/ Advance \/ Crash

CronSpec == CronInit /\ [][CronNext]_cronVars

\* The runtime runs what is ready: timers fire, sections get their turn, runs end (their
\* timeouts see to that; a run with timeoutSeconds 0 is trusted to).  Nothing makes time
\* pass, users call or processes crash.
CronFairness ==
    /\ \A s \in Services : WF_cronVars(Starts(s)) /\ WF_cronVars(Ticks(s))
    /\ \A m \in Manuals : WF_cronVars(Manual(m))

FairCronSpec == CronSpec /\ CronFairness

-----------------------------------------------------------------------------
(* Properties *)

Batch(b, phases) == /\ b.at \in phases /\ Set(b.todo) \subseteq Jobs
                    /\ DOMAIN b.active \subseteq Jobs /\ DOMAIN b.done \subseteq Jobs

\* The variables have their types.
CronTypeOK ==
    /\ now \in 1..MaxTime /\ IsStore(disk) /\ timer \subseteq Services
    /\ \A s \in Services : /\ memory[s] = NoStore \/ IsStore(memory[s])
                          /\ Batch(boot[s], {"off", "clear", "plan", "run", "arm", "up"})
                          /\ Batch(tick[s], {"idle", "collect", "run", "end"})
    /\ \A m \in Manuals : manual[m].at \in {"none", "queued", "ready", "run", "finish"}
    /\ fresh \subseteq Jobs \ Stored /\ cut \subseteq Jobs
    /\ events \in 0..MaxEvents

\* A tick, the catch-up of a start and manual runs never run the same job at once, unless its
\* marker was lifted under a run: by a patch, two hours into it, or, while forced manual runs
\* have a disabled job, by the repairs of other calls, which leave such a job no marker.
Dormant(store, j) == j \in DOMAIN store => ~store[j].enabled
OneExecutionPerJob ==
    \A j \in Jobs \ excused :
        \/ Cardinality(Executions(j)) <= 1
        \/ Dormant(disk, j) /\ \A x \in Executions(j) : x[1] = "hand"

\* A started service with a job to wake for has its timer set, also while a tick is under
\* way, whose runs may hang: no path through onTimer, calls and manual runs loses it, and
\* no repair of a slot is left without one.  Only between the last section of a tick and
\* its finally block, where nothing can hang, it may be missing.
SchedulerLives ==
    \A s \in Services : boot[s].at = "up" /\ tick[s].at # "end" /\ HasNextWake(memory[s])
                            => s \in timer

\* A due slot gives way to a later one only when a run of the job ends, or when a call
\* that recomputes slots comes before the timer: add, update, and the end of start.
Overtaken(j) == /\ j \in DOMAIN disk /\ j \in DOMAIN disk'
                /\ disk[j].enabled /\ disk[j].next # 0 /\ now >= disk[j].next
                /\ disk[j].next < disk'[j].next
SlotsAreRun ==
    [][\A j \in Jobs \ excused : Overtaken(j) =>
            \/ disk'[j].lastRun # disk[j].lastRun \/ disk[j].lastRun >= disk[j].next
            \/ disk[j].running # "none"
            \/ \E s \in Services : \/ StartOutcomes(s) \/ StartArm(s) \/ \E k \in fresh : Add(s, k)
                                   \/ \E p \in Patches(j) : Update(s, j, p)]_cronVars

\* The scheduler never starts a one-shot again that succeeded, was skipped or used up
\* its retries.
Begins(j) == \E s \in Services : \/ j \in DOMAIN tick'[s].active \ DOMAIN tick[s].active
                                \/ j \in DOMAIN boot'[s].active \ DOMAIN boot[s].active
Settled(j) == /\ Kind[j] = "at" /\ j \in DOMAIN disk
              /\ \/ disk[j].status \in {"ok", "skipped"}
                 \/ disk[j].status = "error" /\ disk[j].errors > MaxAttempts
OneShotsDoNotRepeat ==
    [][\A j \in Jobs \ excused : Begins(j) => ~Settled(j)]_cronVars

\* Due jobs are run, or taken out of the schedule: as the clock is bounded, none is due
\* in the end.
Waiting(j) == /\ j \in DOMAIN disk
              /\ disk[j].enabled /\ disk[j].next # 0 /\ now >= disk[j].next
DueJobsRun == []<>(\A j \in Jobs : ~Waiting(j))

-----------------------------------------------------------------------------
(* What documents say, and the code does not do: see the README. *)

\* A one-shot job whose run a crash cut short is not replayed.
InterruptedOneShotsStay ==
    [][\A j \in Jobs : Kind[j] = "at" /\ j \in cut => ~Begins(j)]_cronVars

\* Past-due slots are never advanced without a run.
NoSlotIsSkipped ==
    [][\A j \in Jobs \ excused : Overtaken(j) =>
            disk'[j].lastRun # disk[j].lastRun \/ disk[j].lastRun >= disk[j].next]_cronVars

\* Nothing makes two runs of one job overlap.
NoOverlap == \A j \in Jobs : Cardinality(Executions(j)) <= 1

=============================================================================
