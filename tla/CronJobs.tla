------------------------------ MODULE CronJobs ------------------------------
(***************************************************************************)
(* The schedule state of the cron jobs and the pure functions over it      *)
(* (src/cron/service/jobs.ts and the decisions of timer.ts): when a job    *)
(* runs next, which jobs are due, and what the result of a run does to a   *)
(* job.  A store is a function from the ids of the jobs it holds to their  *)
(* states; removing a job restricts it.                                    *)
(*                                                                         *)
(* Times are ticks of a clock that starts at 1; 0 stands for an undefined  *)
(* time.  What happens within a tick is not told apart: the two seconds    *)
(* of MIN_REFIRE_GAP_MS and the stagger of cron slots are shorter.         *)
(* Schedules are valid expressions: none throws.                           *)
(***************************************************************************)
EXTENDS Naturals, FiniteSets, SequencesExt

CONSTANTS
    Jobs,            \* job ids
    Kind,            \* schedule.kind of each job: "at", "every" or "cron"
    When,            \* its period, for "at" its time
    DeleteAfterRun,  \* the one-shot jobs with deleteAfterRun
    Backoff,         \* errorBackoffMs: a sequence of delays, by consecutive errors
    MaxAttempts,     \* retry.maxAttempts of one-shot jobs
    MaxImmediate,    \* maxMissedJobsPerRestart
    Results          \* how runs end: status, for "error" whether it is transient

ASSUME CronJobsAssumption ==
    /\ IsFiniteSet(Jobs)
    /\ Kind \in [Jobs -> {"at", "every", "cron"}]
    /\ When \in [Jobs -> Nat \ {0}]
    /\ DeleteAfterRun \subseteq {j \in Jobs : Kind[j] = "at"}
    /\ Backoff \in Seq(Nat \ {0}) /\ Backoff # <<>>
    /\ MaxAttempts \in Nat /\ MaxImmediate \in Nat
    /\ Results \subseteq {"ok", "skipped", "transient", "permanent"}

Markers == {"none", "recent", "old"}   \* runningAtMs: unset, set, set more than STUCK_RUN_MS ago
Times   == Nat

JobState == [enabled : BOOLEAN, next : Times, running : Markers, lastRun : Times,
             status : {"none", "ok", "skipped", "error"}, errors : Nat]

IsStore(store) == /\ DOMAIN store \subseteq Jobs
                  /\ \A j \in DOMAIN store : store[j] \in JobState

\* f with value v for k
Put(f, k, v)   == [x \in DOMAIN f \cup {k} |-> IF x = k THEN v ELSE f[x]]
Later(a, b)    == IF a < b THEN b ELSE a
Rounded(t, p)  == ((t + p - 1) \div p) * p     \* the first multiple of p not before t
BackoffAfter(n) == Backoff[IF n = 0 THEN 1 ELSE IF n > Len(Backoff) THEN Len(Backoff) ELSE n]

-----------------------------------------------------------------------------
(* The next run. *)

\* computeJobNextRunAtMs
ComputeNext(j, st, t) ==
    IF ~st.enabled THEN 0
    ELSE CASE Kind[j] = "every" -> IF st.lastRun # 0 /\ st.lastRun + When[j] > t
                                   THEN st.lastRun + When[j]
                                   ELSE Later(When[j], Rounded(t, When[j]))
           [] Kind[j] = "at"    -> IF st.status = "ok" /\ st.lastRun # 0 /\ When[j] <= st.lastRun
                                   THEN 0 ELSE When[j]
           [] Kind[j] = "cron"  -> (t \div When[j] + 1) * When[j]

\* computeJobPreviousRunAtMs: the last slot before t, 0 if there is none.
PreviousRun(j, t) == ((t - 1) \div When[j]) * When[j]

\* normalizeJobTickState: a disabled job has neither a slot nor a marker, a stuck marker goes.
Normalized(st) ==
    IF ~st.enabled THEN [st EXCEPT !.next = 0, !.running = "none"]
    ELSE [st EXCEPT !.running = IF @ = "old" THEN "none" ELSE @]

\* recomputeNextRuns: a missing or past-due slot is computed anew.
Recompute(store, t) ==
    [j \in DOMAIN store |->
        LET st == Normalized(store[j])
        IN  IF st.next = 0 \/ t >= st.next THEN [st EXCEPT !.next = ComputeNext(j, st, t)] ELSE st]

\* Mutant: maintenance recomputes every past-due slot, as recomputeNextRuns does.
Maintain_Recompute(store, t, expired) == Recompute(store, t)

\* recomputeNextRunsForMaintenance: a missing slot is repaired; with recomputeExpired
\* a past-due one that has been executed is computed anew.
Maintain(store, t, expired) ==
    [j \in DOMAIN store |->
        LET st   == Normalized(store[j])
            done == t >= st.next /\ st.running = "none" /\ st.lastRun # 0 /\ st.lastRun >= st.next
        IN  IF st.next = 0 \/ (expired /\ done) THEN [st EXCEPT !.next = ComputeNext(j, st, t)]
            ELSE st]

\* nextWakeAtMs: some enabled job has a next run.
HasNextWake(store) == \E j \in DOMAIN store : store[j].enabled /\ store[j].next # 0

-----------------------------------------------------------------------------
(* Which jobs run. *)

\* isRunnableJob as the timer asks it
IsRunnable(j, st, t) ==
    st.enabled /\ st.running = "none" /\ st.next # 0 /\ t >= st.next

\* isJobDue, asked by a manual run
IsDue(st, t, forced) ==
    st.running = "none" /\ (forced \/ (st.enabled /\ st.next # 0 /\ t >= st.next))

\* isErrorBackoffPending
BackoffPending(j, st, t) ==
    /\ Kind[j] # "at" /\ st.status = "error"
    /\ st.lastRun # 0 /\ t < st.lastRun + BackoffAfter(st.errors)

\* isRunnableJob as startup asks it: a one-shot that already ran only for a retry, a cron
\* job also for a slot after its last run.
IsMissed(j, st, t) ==
    /\ st.enabled /\ st.running = "none"
    /\ IF Kind[j] = "at" /\ st.status # "none"
       THEN st.status = "error" /\ st.lastRun # 0 /\ st.next > st.lastRun /\ t >= st.next
       ELSE \/ st.next # 0 /\ t >= st.next
            \/ /\ Kind[j] = "cron" /\ ~(st.next > t /\ BackoffPending(j, st, t))
               /\ st.lastRun # 0 /\ PreviousRun(j, t) > st.lastRun

-----------------------------------------------------------------------------
(* What a result does. *)

\* applyJobResult deletes the job.
Deletes(j, result) == j \in DeleteAfterRun /\ result = "ok"

\* Mutant: a one-shot that succeeded stays enabled, its slot past due.
OneShotApplied_Enabled(st, result, ended) ==
    IF result = "transient" /\ st.errors <= MaxAttempts
    THEN [st EXCEPT !.next = ended + BackoffAfter(st.errors)]
    ELSE [st EXCEPT !.enabled = result = "ok"]

\* applyJobResult, one-shot: done and skipped ones are disabled, transient errors retried.
OneShotApplied(st, result, ended) ==
    IF result = "transient" /\ st.errors <= MaxAttempts
    THEN [st EXCEPT !.next = ended + BackoffAfter(st.errors)]
    ELSE [st EXCEPT !.enabled = FALSE, !.next = 0]

\* applyJobResult, recurring: the natural next slot, after an error no sooner than the
\* backoff; keep is preserveSchedule, which computes it from the previous last run.
RecurringApplied(j, st, before, result, ended, keep) ==
    LET from == IF keep /\ Kind[j] = "every" THEN [st EXCEPT !.lastRun = before] ELSE st
        next == ComputeNext(j, from, ended)
    IN  [st EXCEPT !.next = IF ~st.enabled THEN 0
                            ELSE IF result \in {"transient", "permanent"}
                            THEN Later(next, ended + BackoffAfter(st.errors)) ELSE next]

\* applyJobResult for a job that is not deleted: run is [result, started, ended].
Applied(j, st, run, keep) ==
    LET failed == run.result \in {"transient", "permanent"}
        st1 == [st EXCEPT !.running = "none", !.lastRun = run.started,
                          !.status = IF failed THEN "error" ELSE run.result,
                          !.errors = IF ~failed THEN 0 ELSE IF @ > MaxAttempts THEN @ ELSE @ + 1]
    IN  IF Kind[j] = "at" THEN OneShotApplied(st1, run.result, run.ended)
        ELSE RecurringApplied(j, st1, st.lastRun, run.result, run.ended, keep)

\* applyOutcomeToStoredJob for every outcome: one of a job the store no longer has is discarded.
ApplyOutcomes(store, runs) ==
    [j \in {k \in DOMAIN store : k \in DOMAIN runs => ~Deletes(k, runs[k].result)} |->
        IF j \in DOMAIN runs THEN Applied(j, store[j], runs[j], FALSE) ELSE store[j]]

=============================================================================
