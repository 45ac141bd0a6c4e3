-------------------------- MODULE SubagentRegistry --------------------------
(***************************************************************************)
(* The registry of subagent runs (src/agents/subagent-registry.ts): a      *)
(* session spawns a subagent in a session of its own, whose result is      *)
(* announced to the requester when the run has ended and everything it     *)
(* spawned itself has settled.                                             *)
(*                                                                         *)
(* An end is learnt twice, from the lifecycle events of the run and from   *)
(* agent.wait; the completion, the announce flow and its finalization      *)
(* await in between.  Failed announces are retried by timers; a steer      *)
(* replaces a run; runs.json survives a crash, what was awaited does not.  *)
(*                                                                         *)
(* Every run expects a completion message, as each caller of the spawn     *)
(* asks for one.  Prompts, texts, hooks and attachments are left out; the  *)
(* awaits on them are not.                                                 *)
(***************************************************************************)
EXTENDS Naturals, FiniteSets, TLC

CONSTANTS
    Runs,         \* run ids
    Sessions,     \* child sessions
    Root,         \* the session of the user
    Home,         \* the childSessionKey of each run
    Requester,    \* the requesterSessionKey of each child session
    Deleting,     \* the sessions spawned with cleanup "delete"
    Archived,     \* the sessions whose archiveAtMs may come
    Persistent,   \* the sessions spawned with spawnMode "session"
    MaxRetries,   \* MAX_ANNOUNCE_RETRY_COUNT
    Erring,       \* the runs whose model may err and be tried again
    Outlasting,   \* the runs that may outlast their agent.wait
    Expiring,     \* the runs that may take longer than the hard expiry to settle
    MaxEvents     \* bound on the steers, kills, sweeps, crashes and failed deletes, together

ASSUME SubagentAssumption ==
    /\ Home \in [Runs -> Sessions] /\ Root \notin Sessions
    /\ Requester \in [Sessions -> Sessions \cup {Root}]
    /\ Deleting \subseteq Sessions /\ Archived \subseteq Sessions \ Persistent
    /\ Erring \subseteq Runs /\ Outlasting \subseteq Runs /\ Expiring \subseteq Runs
    /\ MaxRetries \in Nat \ {0} /\ MaxEvents \in Nat

VARIABLES
    runs,        \* subagentRuns
    disk,        \* runs.json
    resumed,     \* resumedRuns
    timers,      \* the setTimeout calls of retries, <<run, kind>>; those of a kind are one
    errors,      \* pendingLifecycleErrorByRunId
    waits,       \* the runs an agent.wait is under way for
    completing,  \* how many completeSubagentRun of each run await the frozen result
    flow,        \* where the announce flow of each run, with its finalization, is
    calls,       \* agent calls that will replace a run, <<run, "steer" or "recover">>
    sessions,    \* the child sessions in the session store
    sweeping,    \* the sessions of swept runs, still to be deleted
    agent,       \* the agent run itself
    events,      \* how many of the bounded events there have been
    announced,   \* history: how often each run was announced
    cut,         \* history: runs whose announce or steer a crash cut short
    steered      \* history: runs a steer interrupted and replaced

regVars == <<runs, disk, resumed, timers, errors, waits, completing, flow, calls, sessions,
             sweeping, agent, events, announced, cut, steered>>

\* SubagentRunRecord; cool: within the delay after lastAnnounceRetryAt; old: ended longer
\* ago than ANNOUNCE_COMPLETION_HARD_EXPIRY_MS; late: endedAt is after cleanupCompletedAt;
\* woken: the id ends in ":wake".
NewRun(woken) == [ended |-> FALSE, outcome |-> "none", handled |-> FALSE, done |-> FALSE,
                  suppress |-> "none", retries |-> 0, cool |-> FALSE, old |-> FALSE,
                  late |-> FALSE, wake |-> FALSE, woken |-> woken]
Record == [ended : BOOLEAN, outcome : {"none", "ok", "error"}, handled : BOOLEAN,
           done : BOOLEAN, suppress : {"none", "steer", "killed"}, retries : 0..MaxRetries,
           cool : BOOLEAN, old : BOOLEAN, late : BOOLEAN, wake : BOOLEAN, woken : BOOLEAN]

\* subagentRuns.delete and subagentRuns.set
Without(store, i) == [k \in DOMAIN store \ {i} |-> store[k]]
Put(store, i, record) == [k \in DOMAIN store \cup {i} |-> IF k = i THEN record ELSE store[k]]

RegInit ==
    /\ runs = <<>> /\ disk = <<>>
    /\ resumed = {} /\ timers = {} /\ errors = {} /\ waits = {}
    /\ completing = [i \in Runs |-> 0]
    /\ flow = [i \in Runs |-> "none"]
    /\ calls = {} /\ sessions = {} /\ sweeping = {}
    /\ agent = [i \in Runs |-> "none"]
    /\ events = 0
    /\ announced = [i \in Runs |-> 0] /\ cut = {} /\ steered = {}

\* The bound on what comes from outside.
Event == events < MaxEvents /\ events' = events + 1

\* persistSubagentRuns: the map as this step leaves it.
Persist == disk' = runs'

-----------------------------------------------------------------------------
(* Queries. *)

\* getSubagentRunsSnapshotForRead
Snapshot == runs @@ disk

\* forEachDescendantRun: s and the sessions the runs of store lead to from it.
Below(store, s) ==
    {t \in Sessions :
        \A S \in SUBSET Sessions :
            s \in S /\ (\A k \in DOMAIN store : Requester[Home[k]] \in S => Home[k] \in S) => t \in S}

\* countPendingDescendantRuns is not 0.
Pending(store, s) ==
    \E k \in DOMAIN store : /\ Requester[Home[k]] \in Below(store, s)
                            /\ ~(store[k].ended /\ store[k].done)

\* isEmbeddedPiRunActive
ActiveIn(s) == \E k \in Runs : Home[k] = s /\ agent[k] \in {"running", "failing"}

\* listSubagentRunsForRequester finds children with findings.  (That it takes only those created
\* during the run is left out: FlowGoesOn stands for a run that has none of its own.)
HasFindings(s) == \E k \in DOMAIN runs : Requester[Home[k]] = s /\ runs[k].ended

\* shouldIgnorePostCompletionAnnounceForSession may answer so: by the latest run of the session.
\* Its records are copies of one, equally old (a steer and a recovery may each leave one), so
\* that the latest is any of them.
RequesterIsDone(s, answer) ==
    LET Latest == {k \in DOMAIN Snapshot : Home[k] = Requester[s]}
    IN  \/ Latest = {} /\ answer = FALSE
        \/ \E k \in Latest : answer = (/\ Home[k] \notin Persistent
                                       /\ Snapshot[k].done /\ ~Snapshot[k].late)

-----------------------------------------------------------------------------
(* Beginning and resuming announces. *)

\* Mutant: a cleanup already handled is begun again.
MayBegin_Handled(store, i) == i \in DOMAIN store /\ ~store[i].done

\* beginSubagentCleanup succeeds.
MayBegin(store, i) == i \in DOMAIN store /\ ~store[i].done /\ ~store[i].handled

\* What resumeSubagentRun does with run i.
Fate(store, i) ==
    IF Home[i] \notin sessions               THEN "orphan"
    ELSE IF store[i].done                    THEN "over"
    ELSE IF store[i].retries >= MaxRetries   THEN "spent"
    ELSE IF store[i].cool                    THEN "backoff"
    ELSE IF ~store[i].ended                  THEN "wait"
    ELSE IF store[i].suppress = "steer"      THEN "parked"
    ELSE IF MayBegin(store, i)               THEN "announce"
    ELSE "busy"

\* The bookkeeping a resume starts from.
Now == [resumed |-> resumed, timers |-> timers, waits |-> waits, flow |-> flow]

\* resumeSubagentRun for each run of J; the map is store before, the bookkeeping base.
Resume(store, J, base) ==
    LET With(f) == {i \in (J \cap DOMAIN store) \ base.resumed : Fate(store, i) = f}
    IN  /\ runs' = [i \in DOMAIN store \ With("orphan") |->
                       IF i \in With("spent") THEN [store[i] EXCEPT !.done = TRUE]
                       ELSE IF i \in With("announce") THEN [store[i] EXCEPT !.handled = TRUE]
                       ELSE store[i]]
        /\ resumed' = UNION {base.resumed, With("backoff"), With("wait"), With("parked"), With("announce")}
        /\ timers' = base.timers \cup {<<i, "clearing">> : i \in With("backoff")}
        /\ waits' = base.waits \cup With("wait")
        /\ flow' = [i \in Runs |-> IF i \in With("announce") THEN "announce" ELSE base.flow[i]]

-----------------------------------------------------------------------------
(* Runs. *)

\* registerSubagentRun, by a run of the requester.
Register(i) ==
    LET s == Home[i] IN
    /\ \A k \in Runs : Home[k] = s => agent[k] = "none"
    /\ Requester[s] # Root => \E k \in Runs : Home[k] = Requester[s] /\ agent[k] = "running"
    /\ runs' = Put(runs, i, NewRun(FALSE)) /\ Persist
    /\ waits' = waits \cup {i}
    /\ agent' = [agent EXCEPT ![i] = "running"] /\ sessions' = sessions \cup {s}
    /\ UNCHANGED <<resumed, timers, errors, completing, flow, calls, sweeping, events,
                   announced, cut, steered>>

\* completeSubagentRun until it awaits: the end is noted; a killed run is opened again by a
\* late completion.
Ended(store, i, outcome) ==
    [store EXCEPT ![i] =
        LET again == outcome = "ok" /\ @.suppress = "killed" /\ (@.handled \/ @.done)
            open  == IF again THEN [@ EXCEPT !.suppress = "none", !.handled = FALSE, !.done = FALSE] ELSE @
        IN  [open EXCEPT !.ended = TRUE, !.outcome = outcome, !.old = @ /\ ~again,
                         !.late = open.done /\ (@ \/ agent[i] \in {"running", "failing"})]]

Complete(i, outcome) ==
    /\ errors' = errors \ {i}
    /\ IF i \in DOMAIN runs
       THEN /\ runs' = Ended(runs, i, outcome)
            /\ completing' = [completing EXCEPT ![i] = @ + 1]
       ELSE UNCHANGED <<runs, completing>>

\* Mutant: the run a steer interrupted is announced like any other.
CompletionGoesOn_Steered(i) ==
    /\ completing[i] > 0 /\ completing' = [completing EXCEPT ![i] = @ - 1]
    /\ IF MayBegin(runs, i)
       THEN /\ runs' = [runs EXCEPT ![i].handled = TRUE]
            /\ flow' = [flow EXCEPT ![i] = "announce"]
       ELSE UNCHANGED <<runs, flow>>
    /\ Persist
    /\ UNCHANGED <<resumed, timers, errors, waits, calls, sessions, sweeping, agent, events,
                   announced, cut, steered>>

\* completeSubagentRun has frozen the result: the announce begins unless a steer is on.
CompletionGoesOn(i) ==
    /\ completing[i] > 0 /\ completing' = [completing EXCEPT ![i] = @ - 1]
    /\ IF MayBegin(runs, i) /\ runs[i].suppress # "steer"
       THEN /\ runs' = [runs EXCEPT ![i].handled = TRUE]
            /\ flow' = [flow EXCEPT ![i] = "announce"]
       ELSE UNCHANGED <<runs, flow>>
    /\ Persist
    /\ UNCHANGED <<resumed, timers, errors, waits, calls, sessions, sweeping, agent, events,
                   announced, cut, steered>>

\* agent.wait answers: "ok" also for its own timeout; when the call fails nothing follows.
WaitReturns(i, answer) ==
    /\ i \in waits \cap DOMAIN runs /\ waits' = waits \ {i}
    /\ IF answer = "error" THEN agent[i] \in {"failing", "failed"}
       ELSE agent[i] \in {"finished", "lost"} \/ i \in Outlasting
    /\ agent' = IF answer = "error" THEN [agent EXCEPT ![i] = "failed"] ELSE agent
    /\ disk' = [runs EXCEPT ![i].ended = TRUE, ![i].outcome = answer]
    /\ Complete(i, answer)
    /\ UNCHANGED <<resumed, timers, flow, calls, sessions, sweeping, events,
                   announced, cut, steered>>

-----------------------------------------------------------------------------
(* Lifecycle events. *)

\* Mutant: the start of a retry leaves the pending error alone.
AgentStarts_KeepsError(i) ==
    /\ agent[i] = "failing" /\ agent' = [agent EXCEPT ![i] = "running"]
    /\ disk' = IF i \in DOMAIN runs THEN runs ELSE disk
    /\ UNCHANGED <<errors, runs, resumed, timers, waits, completing, flow, calls, sessions, sweeping,
                   events, announced, cut, steered>>

\* "start": the model is retried after an error.
AgentStarts(i) ==
    /\ agent[i] = "failing" /\ agent' = [agent EXCEPT ![i] = "running"]
    /\ IF i \in DOMAIN runs THEN disk' = runs /\ errors' = errors \ {i} ELSE UNCHANGED <<errors, disk>>
    /\ UNCHANGED <<runs, resumed, timers, waits, completing, flow, calls, sessions, sweeping,
                   events, announced, cut, steered>>

\* "error": held back for LIFECYCLE_ERROR_RETRY_GRACE_MS.
AgentErrs(i) ==
    /\ i \in Erring /\ agent[i] = "running"
    /\ agent' = [agent EXCEPT ![i] = "failing"]
    /\ errors' = IF i \in DOMAIN runs THEN errors \cup {i} ELSE errors
    /\ UNCHANGED <<runs, disk, resumed, timers, waits, completing, flow, calls, sessions, sweeping,
                   events, announced, cut, steered>>

\* "end"
AgentEnds(i) ==
    /\ agent[i] = "running" /\ agent' = [agent EXCEPT ![i] = "finished"]
    /\ IF i \in DOMAIN runs THEN Complete(i, "ok") ELSE UNCHANGED <<runs, errors, completing>>
    /\ UNCHANGED <<disk, resumed, timers, waits, flow, calls, sessions, sweeping, events,
                   announced, cut, steered>>

\* The grace is over, and no further try of the model has come or will come.
ErrorTimerFires(i) ==
    /\ i \in errors
    /\ agent' = [agent EXCEPT ![i] = IF @ = "failing" THEN "failed" ELSE @]
    /\ IF i \in DOMAIN runs /\ runs[i].outcome # "ok" THEN Complete(i, "error")
       ELSE errors' = errors \ {i} /\ UNCHANGED <<runs, completing>>
    /\ UNCHANGED <<disk, resumed, timers, waits, flow, calls, sessions, sweeping, events,
                   announced, cut, steered>>

-----------------------------------------------------------------------------
(* The announce flow and its finalization. *)

\* replaceSubagentRunAfterSteer: run j of the same session takes the place of run i.
Replace(i, j, woken) ==
    /\ agent[j] = "none" /\ Home[j] = Home[i]
    /\ runs' = Put(Without(runs, i), j, NewRun(woken)) /\ Persist
    /\ errors' = errors \ {i} /\ resumed' = resumed \ {i}
    /\ waits' = waits \cup {j}
    /\ agent' = [agent EXCEPT ![j] = "running"] /\ sessions' = sessions \cup {Home[i]}

\* finalizeSubagentCleanup after an announce that did not succeed.
NotAnnounced(i) ==
    LET pending == Pending(Snapshot, Home[i])
        tries   == runs[i].retries + (IF pending THEN 0 ELSE 1)
        giveUp  == runs[i].old \/ (~pending /\ tries >= MaxRetries)
        tried   == [runs[i] EXCEPT !.retries = tries, !.cool = IF giveUp /\ pending THEN @ ELSE TRUE]
    IN  IF i \notin DOMAIN runs
        THEN flow' = [flow EXCEPT ![i] = "none"] /\ UNCHANGED <<runs, disk, resumed, timers>>
        ELSE IF giveUp
        THEN /\ runs' = [runs EXCEPT ![i] = [tried EXCEPT !.wake = FALSE]]
             /\ flow' = [flow EXCEPT ![i] = "giveup"]
             /\ UNCHANGED <<disk, resumed, timers>>
        ELSE /\ runs' = [runs EXCEPT ![i] = [tried EXCEPT !.handled = FALSE, !.wake = @ \/ pending]]
             /\ Persist /\ resumed' = resumed \ {i}
             /\ timers' = timers \cup {<<i, "plain">>}
             /\ flow' = [flow EXCEPT ![i] = "none"]

\* finalizeSubagentCleanup after an announce that succeeded, or that nobody waits for.
Announced(i) ==
    /\ runs' = [k \in DOMAIN runs |-> IF k = i THEN [runs[k] EXCEPT !.wake = FALSE] ELSE runs[k]]
    /\ flow' = [flow EXCEPT ![i] = IF i \in DOMAIN runs THEN "closing" ELSE "none"]
    /\ UNCHANGED <<disk, resumed, timers>>

\* A flow that deletes its session does so whether or not it could deliver.  It stays when
\* sessions.delete fails, which is ignored, or when nobody is left to tell: one of the events.
DropSession(i) ==
    \/ Home[i] \notin Deleting /\ UNCHANGED <<sessions, events>>
    \/ Home[i] \in Deleting /\ sessions' = sessions \ {Home[i]} /\ UNCHANGED events
    \/ Home[i] \in Deleting /\ Event /\ UNCHANGED sessions

\* runSubagentAnnounceFlow looks at the run, the requester and the descendants: it returns
\* false, or true at once, or wakes the run again with the findings, or goes on.
FlowStops(i) ==
    /\ flow[i] = "announce"
    /\ ActiveIn(Home[i]) \/ (RequesterIsDone(Home[i], FALSE) /\ Pending(Snapshot, Home[i]))
    /\ NotAnnounced(i)
    /\ UNCHANGED <<errors, waits, completing, calls, sessions, sweeping, agent, events,
                   announced, cut, steered>>

FlowIsIgnored(i) ==
    /\ flow[i] = "announce" /\ ~ActiveIn(Home[i]) /\ RequesterIsDone(Home[i], TRUE)
    /\ DropSession(i) /\ Announced(i)
    /\ UNCHANGED <<errors, waits, completing, calls, sweeping, agent, announced, cut, steered>>

MayAnnounce(i) == /\ flow[i] = "announce" /\ ~ActiveIn(Home[i])
                  /\ RequesterIsDone(Home[i], FALSE) /\ ~Pending(Snapshot, Home[i])

FlowWakes(i, j) ==
    /\ MayAnnounce(i) /\ flow' = [flow EXCEPT ![i] = "none"]
    /\ Home[i] \in sessions /\ HasFindings(Home[i])
    /\ i \in DOMAIN runs /\ runs[i].wake /\ ~runs[i].woken
    /\ Replace(i, j, TRUE)
    /\ UNCHANGED <<timers, completing, calls, sweeping, events, announced, cut, steered>>

FlowGoesOn(i) ==
    /\ MayAnnounce(i) /\ flow' = [flow EXCEPT ![i] = "deliver"]
    /\ UNCHANGED <<runs, disk, resumed, timers, errors, waits, completing, calls, sessions,
                   sweeping, agent, events, announced, cut, steered>>

\* The announcement is delivered, or dropped because the requester is done.
FlowSucceeds(i) ==
    /\ flow[i] = "deliver"
    /\ \/ RequesterIsDone(Home[i], TRUE) /\ UNCHANGED announced
       \/ RequesterIsDone(Home[i], FALSE) /\ announced' = [announced EXCEPT ![i] = @ + 1]
    /\ DropSession(i) /\ Announced(i)
    /\ UNCHANGED <<errors, waits, completing, calls, sweeping, agent, cut, steered>>

FlowFails(i) ==
    /\ flow[i] = "deliver"
    /\ DropSession(i) /\ NotAnnounced(i)
    /\ UNCHANGED <<errors, waits, completing, calls, sweeping, agent, announced, cut, steered>>

\* completeCleanupBookkeeping, when the hook and the attachments have been awaited: the run
\* is done or deleted, and the announces that were put off are resumed.
Close(i) ==
    LET delete == flow[i] = "closing" /\ Home[i] \in Deleting
        store  == IF delete THEN Without(runs, i)
                  ELSE [k \in DOMAIN runs |-> IF k = i THEN [runs[k] EXCEPT !.done = TRUE] ELSE runs[k]]
        others == {k \in DOMAIN store \ {i} : store[k].ended /\ MayBegin(store, k)
                                              /\ store[k].suppress # "steer"}
    IN  /\ flow[i] \in {"closing", "giveup"}
        /\ errors' = IF delete THEN errors \ {i} ELSE errors
        /\ Resume(store, others, [Now EXCEPT !.resumed = @ \ others, !.flow[i] = "none"])
        /\ Persist
        /\ UNCHANGED <<completing, calls, sessions, sweeping, agent, events, announced, cut, steered>>

\* Time has passed until a retry of run i: the backoff is over, or it is not (the delay of a
\* deferral is shorter than that of a later attempt, and a new backoff may have begun since).
Elapsed(store, i, over) == IF over /\ i \in DOMAIN store THEN [store EXCEPT ![i].cool = FALSE] ELSE store

\* What a retry that is due does, with the marks it leaves.
Retry(i, over, marks, left) ==
    /\ Resume(Elapsed(runs, i, over), {i}, [Now EXCEPT !.timers = left, !.resumed = marks])
    /\ over \/ <<i, "plain">> \in timers
    /\ disk' = IF runs' = Elapsed(runs, i, over) THEN Elapsed(disk, i, over) ELSE runs'
    /\ UNCHANGED <<errors, completing, calls, sessions, sweeping, agent, events,
                   announced, cut, steered>>

\* Mutant: a retry timer does not lift the mark that resumeSubagentRun left.
RetryTimerFires_KeepsMark(i, kind) ==
    /\ <<i, kind>> \in timers
    /\ \E over \in BOOLEAN : Retry(i, over, resumed, timers \ {<<i, kind>>})

\* A retry is due; the one that resumeSubagentRun scheduled itself lifts its mark.
RetryTimerFires(i, kind) ==
    /\ <<i, kind>> \in timers
    /\ \E over \in BOOLEAN :
          Retry(i, over, IF kind = "clearing" THEN resumed \ {i} ELSE resumed, timers \ {<<i, kind>>})

-----------------------------------------------------------------------------
(* Steering, killing, sweeping. *)

\* steerControlledSubagentRun: the run is marked and aborted, an agent call is to replace it.
Steer(i) ==
    /\ Event /\ i \in DOMAIN runs /\ ~runs[i].ended
    /\ runs' = [runs EXCEPT ![i].suppress = "steer"] /\ Persist
    /\ <<i, "steer">> \notin calls /\ calls' = calls \cup {<<i, "steer">>}
    /\ UNCHANGED <<resumed, timers, errors, waits, completing, flow, sessions, sweeping, agent,
                   announced, cut, steered>>

\* recoverOrphanedSubagentSessions: a run that a restart aborted is to be replaced, too.
Recover(i) ==
    /\ i \in DOMAIN runs /\ ~runs[i].ended /\ agent[i] = "lost"
    /\ <<i, "recover">> \notin calls /\ calls' = calls \cup {<<i, "recover">>}
    /\ UNCHANGED <<runs, disk, resumed, timers, errors, waits, completing, flow, sessions,
                   sweeping, agent, events, announced, cut, steered>>

\* The agent call is accepted.
CallReturns(i, kind, j) ==
    /\ <<i, kind>> \in calls /\ calls' = calls \ {<<i, kind>>}
    /\ Replace(i, j, FALSE)
    /\ steered' = IF i \in DOMAIN runs /\ runs[i].suppress = "steer" /\ kind = "steer"
                  THEN steered \cup {i} ELSE steered
    /\ UNCHANGED <<timers, completing, flow, sweeping, events, announced, cut>>

\* It fails: clearSubagentRunSteerRestart lets a run that ended meanwhile be announced.
CallFails(i, kind) ==
    /\ <<i, kind>> \in calls /\ calls' = calls \ {<<i, kind>>}
    /\ IF kind = "steer" /\ i \in DOMAIN runs /\ runs[i].suppress = "steer"
       THEN LET store == [runs EXCEPT ![i].suppress = "none"]
            IN  /\ Resume(store, IF runs[i].ended /\ ~runs[i].done THEN {i} ELSE {},
                          [Now EXCEPT !.resumed = @ \ {i}])
                /\ Persist
       ELSE UNCHANGED <<runs, disk, resumed, timers, waits, flow>>
    /\ UNCHANGED <<errors, completing, sessions, sweeping, agent, events, announced, cut, steered>>

\* markSubagentRunTerminated
Kill(s) ==
    LET J == {i \in DOMAIN runs : Home[i] = s /\ ~runs[i].ended}
    IN  /\ Event /\ J # {}
        /\ runs' = [i \in DOMAIN runs |->
               IF i \in J THEN [runs[i] EXCEPT !.ended = TRUE, !.outcome = "error", !.handled = TRUE,
                                              !.done = TRUE, !.suppress = "killed"]
               ELSE runs[i]]
        /\ Persist /\ errors' = errors \ J
        /\ UNCHANGED <<resumed, timers, waits, completing, flow, calls, sessions, sweeping, agent,
                       announced, cut, steered>>

\* sweepSubagentRuns deletes the run, and later its session; then it persists.
SweepDeletes(i) ==
    /\ Event /\ i \in DOMAIN runs /\ Home[i] \in Archived
    /\ runs' = Without(runs, i) /\ errors' = errors \ {i}
    /\ sweeping' = sweeping \cup {Home[i]}
    /\ UNCHANGED <<disk, resumed, timers, waits, completing, flow, calls, sessions, agent, announced, cut, steered>>

SweepEnds(s) ==
    /\ s \in sweeping /\ sweeping' = sweeping \ {s}
    /\ sessions' = sessions \ {s} /\ disk' = runs
    /\ UNCHANGED <<runs, resumed, timers, errors, waits, completing, flow, calls, agent, events,
                   announced, cut, steered>>

-----------------------------------------------------------------------------
(* Time, crashes. *)

\* A run that is still to settle reaches the hard expiry, which is no sooner than half an
\* hour after its end: not in the short awaits that only one step follows.
Expire(i) ==
    /\ i \in Expiring \cap DOMAIN runs /\ runs[i].ended /\ ~runs[i].done /\ ~runs[i].old
    /\ completing[i] = 0 /\ flow[i] \in {"none", "announce", "deliver"}
    /\ runs' = [runs EXCEPT ![i].old = TRUE]
    /\ disk' = IF i \in DOMAIN disk THEN [disk EXCEPT ![i].old = @ \/ disk[i].ended] ELSE disk
    /\ UNCHANGED <<resumed, timers, errors, waits, completing, flow, calls, sessions, sweeping,
                   agent, events, announced, cut, steered>>

\* The process crashes; the next one restores the runs from disk (restoreSubagentRunsOnce):
\* a run without a session is pruned, the others are resumed.
Crash ==
    /\ Event
    /\ Resume(disk, DOMAIN disk, [resumed |-> {}, timers |-> {}, waits |-> {},
                                  flow |-> [i \in Runs |-> "none"]])
    /\ Persist
    /\ errors' = {} /\ calls' = {} /\ sweeping' = {}
    /\ completing' = [i \in Runs |-> 0]
    /\ agent' = [i \in Runs |-> IF agent[i] = "none" THEN "none" ELSE "lost"]
    /\ cut' = cut \cup {i \in DOMAIN disk : disk[i].suppress = "steer" \/ (disk[i].handled /\ ~disk[i].done)}
    /\ UNCHANGED <<sessions, announced, steered>>

Flow(i) == \/ FlowStops(i) \/ FlowIsIgnored(i) \/ FlowGoesOn(i) \/ FlowSucceeds(i) \/ FlowFails(i)
           \/ Close(i) \/ \E j \in Runs : FlowWakes(i, j)

CallEnds(i, kind) == CallFails(i, kind) \/ \E j \in Runs : CallReturns(i, kind, j)

Kinds == {"steer", "recover"}

RegNext ==
    \/ \E i \in Runs :
          \/ Register(i) \/ CompletionGoesOn(i) \/ \E a \in {"ok", "error"} : WaitReturns(i, a)
          \/ AgentStarts(i) \/ AgentErrs(i) \/ AgentEnds(i) \/ ErrorTimerFires(i)
          \/ Flow(i) \/ \E k \in {"plain", "clearing"} : RetryTimerFires(i, k)
          \/ Steer(i) \/ Recover(i) \/ \E k \in Kinds : CallEnds(i, k)
          \/ SweepDeletes(i) \/ Expire(i)
    \/ \E s \in Sessions : Kill(s) \/ SweepEnds(s)
    \/ Crash

RegSpec == RegInit /\ [][RegNext]_regVars

\* The runtime goes on with what was awaited, calls have timeouts, timers fire and time
\* passes.  Agents need not end, and nobody has to steer, kill or crash.
RegFairness ==
    \A i \in Runs :
        /\ WF_regVars(CompletionGoesOn(i)) /\ WF_regVars(Flow(i))
        /\ \A k \in {"plain", "clearing"} : WF_regVars(RetryTimerFires(i, k))
        /\ \A k \in Kinds : WF_regVars(CallEnds(i, k))
        /\ WF_regVars(Expire(i))

FairRegSpec == RegSpec /\ RegFairness

-----------------------------------------------------------------------------
(* Properties *)

\* The variables have their types.
RegTypeOK ==
    /\ DOMAIN runs \subseteq Runs /\ \A i \in DOMAIN runs : runs[i] \in Record
    /\ DOMAIN disk \subseteq Runs /\ \A i \in DOMAIN disk : disk[i] \in Record
    /\ resumed \subseteq Runs /\ timers \subseteq Runs \X {"plain", "clearing"}
    /\ errors \subseteq Runs /\ waits \subseteq Runs /\ completing \in [Runs -> Nat]
    /\ flow \in [Runs -> {"none", "announce", "deliver", "closing", "giveup"}]
    /\ calls \subseteq Runs \X Kinds /\ sessions \subseteq Sessions /\ sweeping \subseteq Sessions
    /\ agent \in [Runs -> {"none", "running", "failing", "failed", "finished", "lost"}]
    /\ events \in 0..MaxEvents /\ announced \in [Runs -> Nat]
    /\ cut \subseteq Runs /\ steered \subseteq Runs

\* A run is announced to its requester at most once, although its end is learnt twice,
\* announces are retried and registries restored.
AnnouncedOnce == \A i \in Runs : announced[i] <= 1

\* A run that a steer interrupted and replaced never speaks: only its replacement does.
InterruptedStaysSilent == \A i \in steered : announced[i] = 0 /\ flow[i] = "none"

\* An announce that starts out to tell of a failure tells of a run that has failed for
\* good: no retry of the model is under way that may still succeed.
Begins(i) == flow[i] = "none" /\ flow'[i] = "announce"
FailuresAreFinal ==
    [][\A i \in Runs : Begins(i) /\ runs'[i].outcome = "error" => agent[i] \in {"failed", "lost"}]_regVars

\* A run that has ended and is not settled is in somebody's hands: its completion, its
\* announce, a retry or the call that is to replace it is under way.  Nothing looks for a
\* run that was let go, before the next start; only a crash may have cut its announce or
\* its steer short.
Open(i) == i \in DOMAIN runs /\ runs[i].ended /\ ~runs[i].done /\ i \notin cut
EndedRunIsInHand ==
    \A i \in Runs : Open(i) =>
        \/ completing[i] > 0 \/ flow[i] # "none" \/ \E k \in Kinds : <<i, k>> \in calls
        \/ \E k \in {"plain", "clearing"} : <<i, k>> \in timers

\* And it settles: it is announced, given up, replaced or removed.
EndedRunSettles == \A i \in Runs : Open(i) ~> ~Open(i)

-----------------------------------------------------------------------------
(* What documents say, and the code does not do: see the README. *)

\* A run in delete mode is finalized only when it was announced or given up: until then
\* its session, without which it is pruned, stays.
DeleteModeIsRetried ==
    \A i \in DOMAIN runs : announced[i] = 0 /\ flow[i] = "none" /\ ~runs[i].done
                              => Home[i] \in sessions

=============================================================================
