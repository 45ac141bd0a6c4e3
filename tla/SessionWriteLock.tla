-------------------------- MODULE SessionWriteLock --------------------------
(***************************************************************************)
(* The write lock of one session file (src/agents/session-write-lock.ts):  *)
(* a file next to it, created exclusively, that says which process owns    *)
(* it.  Callers of one process share a hold (HELD_LOCKS counts them); a    *)
(* caller that finds the file inspects it, removes it if its owner seems   *)
(* gone, or tries again later.  A watchdog takes holds that last too long, *)
(* termination signals take all, and a gateway that starts sweeps what     *)
(* earlier processes left.                                                 *)
(*                                                                         *)
(* An action is one file operation and what follows it up to the next      *)
(* await.  Removing names the path, so it removes whatever lock is there.  *)
(* A lock is the file a creation made, by an id that is used again when    *)
(* nothing refers to it any more.  A process that comes back has the pid   *)
(* of the one before it, as in a container; one that does not leaves a     *)
(* dead pid.                                                               *)
(***************************************************************************)
EXTENDS Naturals, FiniteSets

CONSTANTS
    Procs,       \* processes, by pid (not 0)
    Clients,     \* calls of acquireSessionWriteLock and what they do with the lock
    ProcOf,      \* [Clients -> Procs]
    Reentrant,   \* the clients that allow a shared hold
    Patient,     \* the clients whose timeoutMs is infinite
    Gateways,    \* the processes that sweep when they start
    StartTimes,  \* getProcessStartTime has an answer: Linux
    LongHolds,   \* holds may last longer than staleMs (maxHoldMs is beyond it)
    MaxEvents    \* bound on crashes, signals, overlong holds and failing writes, together

ASSUME SessionWriteLockAssumption ==
    /\ ProcOf \in [Clients -> Procs]
    /\ Reentrant \subseteq Clients /\ Patient \subseteq Clients /\ Gateways \subseteq Procs
    /\ StartTimes \in BOOLEAN /\ LongHolds \in BOOLEAN /\ MaxEvents \in Nat
    /\ IsFiniteSet(Clients) /\ IsFiniteSet(Procs) /\ 0 \notin Procs

VARIABLES
    file,      \* the lock file: which lock it is, the pid and start time in it, whether it is old
    up,        \* the processes that run
    life,      \* the start time of each process
    held,      \* HELD_LOCKS of each process: the lock it holds, 0 if none
    count,     \* how many clients share that hold
    client,    \* where each client is, and the lock it is about
    closing,   \* the locks whose file the watchdog of each process is about to remove
    sweep,     \* where the sweep of each gateway is
    stolen,    \* history: a file was removed while its lock was in use
    events     \* how many of the bounded events there have been

lockVars == <<file, up, life, held, count, client, closing, sweep, stolen, events>>

NoFile  == [lock |-> 0, by |-> 0, life |-> 0, old |-> FALSE]
Present == file.lock # 0
Empty   == file.by = 0          \* no file, or one whose payload has not been written

At(c, a)       == client[c].at = a
Goes(c, a)     == client' = [client EXCEPT ![c].at = a]
Idle           == [at |-> "idle", lock |-> 0]
Shares(c)      == ProcOf[c] \in up /\ held[ProcOf[c]] = client[c].lock
Event          == events < MaxEvents /\ events' = events + 1

\* A running process still has business with the lock's file.
InUse(l) == \/ \E c \in Clients : /\ client[c].lock = l
                                  /\ client[c].at \in {"write", "register", "undo", "holding", "close"}
            \/ \E p \in Procs : l \in closing[p]

\* The ids that something refers to, and one that nothing does.
Known == {file.lock} \cup {held[p] : p \in Procs} \cup {client[c].lock : c \in Clients}
         \cup (UNION {closing[p] : p \in Procs})
Fresh == CHOOSE l \in 1..(Cardinality(Known) + 1) : l \notin Known

Init ==
    /\ file = NoFile
    /\ up = Procs /\ life = [p \in Procs |-> 1]
    /\ held = [p \in Procs |-> 0] /\ count = [p \in Procs |-> 0]
    /\ client = [c \in Clients |-> Idle]
    /\ closing = [p \in Procs |-> {}]
    /\ sweep = [p \in Procs |-> IF p \in Gateways THEN "list" ELSE "done"]
    /\ stolen = FALSE /\ events = 0

-----------------------------------------------------------------------------
(* acquireSessionWriteLock *)

\* The call: a hold of the process is shared, or the loop begins.
Acquire(c) ==
    LET p == ProcOf[c] IN
    /\ At(c, "idle") /\ p \in up
    /\ IF c \in Reentrant /\ held[p] # 0
       THEN /\ client' = [client EXCEPT ![c] = [at |-> "holding", lock |-> held[p]]]
            /\ count' = [count EXCEPT ![p] = @ + 1]
       ELSE Goes(c, "open") /\ UNCHANGED count
    /\ UNCHANGED <<file, up, life, held, closing, sweep, stolen, events>>

\* open(lockPath, "wx") creates the file, or finds one.
Open(c) ==
    /\ At(c, "open")
    /\ IF Present THEN Goes(c, "read") /\ UNCHANGED file
       ELSE /\ client' = [client EXCEPT ![c] = [at |-> "write", lock |-> Fresh]]
            /\ file' = [NoFile EXCEPT !.lock = Fresh]
    /\ UNCHANGED <<up, life, held, count, closing, sweep, stolen, events>>

\* The payload goes to the file that was created, which need not be at the path any more.
Write(c) ==
    /\ At(c, "write")
    /\ Goes(c, "register")
    /\ file' = IF file.lock = client[c].lock
               THEN [file EXCEPT !.by = ProcOf[c], !.life = life[ProcOf[c]]] ELSE file
    /\ UNCHANGED <<up, life, held, count, closing, sweep, stolen, events>>

\* HELD_LOCKS.set
Register(c) ==
    /\ At(c, "register")
    /\ Goes(c, "holding")
    /\ held' = [held EXCEPT ![ProcOf[c]] = client[c].lock]
    /\ count' = [count EXCEPT ![ProcOf[c]] = 1]
    /\ UNCHANGED <<file, up, life, closing, sweep, stolen, events>>

WriteFails(c) ==
    /\ Event /\ At(c, "write")
    /\ Goes(c, "undo")
    /\ UNCHANGED <<file, up, life, held, count, closing, sweep, stolen>>

\* The call fails, and removes the file before it throws.
Undo(c) ==
    /\ At(c, "undo")
    /\ client' = [client EXCEPT ![c] = Idle] /\ file' = NoFile
    /\ UNCHANGED <<up, life, held, count, closing, sweep, stolen, events>>

\* inspectLockPayload: the owner is dead, its pid has been given away, or the lock is too old.
Stale == \/ file.by \notin up
         \/ StartTimes /\ file.life # life[file.by]
         \/ file.old

\* shouldTreatAsOrphanSelfLock: our pid, no start time, and nothing we hold.
OrphanSelf(p) == file.by = p /\ ~StartTimes /\ held[p] = 0

\* Mutant: what has no payload is removed at once, as the sweep does.
Inspect_NoFallback(c) ==
    /\ At(c, "read")
    /\ client' = [client EXCEPT ![c] =
           IF Empty \/ Stale \/ OrphanSelf(ProcOf[c])
           THEN [at |-> "remove", lock |-> file.lock] ELSE [at |-> "open", lock |-> 0]]
    /\ UNCHANGED <<file, up, life, held, count, closing, sweep, stolen, events>>

\* The payload is read and judged; without one the age of the file decides.
Inspect(c) ==
    /\ At(c, "read")
    /\ client' = [client EXCEPT ![c] =
           IF Empty THEN [at |-> "stat", lock |-> 0]
           ELSE IF Stale \/ OrphanSelf(ProcOf[c]) THEN [at |-> "remove", lock |-> file.lock]
           ELSE [at |-> "open", lock |-> 0]]
    /\ UNCHANGED <<file, up, life, held, count, closing, sweep, stolen, events>>

\* Mutant: a file without a payload is never reclaimed.
Stat_Never(c) ==
    /\ At(c, "stat")
    /\ client' = [client EXCEPT ![c] = [at |-> "open", lock |-> 0]]
    /\ UNCHANGED <<file, up, life, held, count, closing, sweep, stolen, events>>

\* shouldReclaimContendedLockFile: the mtime of what is there now.
Stat(c) ==
    /\ At(c, "stat")
    /\ client' = [client EXCEPT ![c] =
           IF file.old THEN [at |-> "remove", lock |-> file.lock] ELSE [at |-> "open", lock |-> 0]]
    /\ UNCHANGED <<file, up, life, held, count, closing, sweep, stolen, events>>

\* Whoever judged a lock removes the file at the path, and is a thief if that one is in use.
Removes == /\ file' = NoFile
           /\ stolen' = (stolen \/ (Present /\ InUse(file.lock)))

Remove(c) ==
    /\ At(c, "remove") /\ Removes
    /\ client' = [client EXCEPT ![c] = [at |-> "open", lock |-> 0]]
    /\ UNCHANGED <<up, life, held, count, closing, sweep, events>>

\* The time is over before the next attempt.
GiveUp(c) ==
    /\ At(c, "open") /\ c \notin Patient
    /\ client' = [client EXCEPT ![c] = Idle]
    /\ UNCHANGED <<file, up, life, held, count, closing, sweep, stolen, events>>

-----------------------------------------------------------------------------
(* releaseHeldLock *)

\* Mutant: a handle releases whatever its process holds by then.
Release_Any(c) ==
    LET p == ProcOf[c] IN
    /\ client[c].at \in {"holding", "taken"}
    /\ IF held[p] # 0 /\ count[p] = 1
       THEN Goes(c, "close") /\ held' = [held EXCEPT ![p] = 0] /\ count' = [count EXCEPT ![p] = 0]
       ELSE /\ client' = [client EXCEPT ![c] = Idle]
            /\ count' = IF held[p] # 0 THEN [count EXCEPT ![p] = @ - 1] ELSE count
            /\ UNCHANGED held
    /\ UNCHANGED <<file, up, life, closing, sweep, stolen, events>>

\* A handle whose hold is gone does nothing; the last one of a hold closes the file.
Release(c) ==
    LET p == ProcOf[c] IN
    /\ client[c].at \in {"holding", "taken"}
    /\ IF Shares(c) /\ count[p] = 1
       THEN Goes(c, "close") /\ held' = [held EXCEPT ![p] = 0] /\ count' = [count EXCEPT ![p] = 0]
       ELSE /\ client' = [client EXCEPT ![c] = Idle]
            /\ count' = IF Shares(c) THEN [count EXCEPT ![p] = @ - 1] ELSE count
            /\ UNCHANGED held
    /\ UNCHANGED <<file, up, life, closing, sweep, stolen, events>>

\* The handle is closed; the file goes.
Unlink(c) ==
    /\ At(c, "close")
    /\ client' = [client EXCEPT ![c] = Idle] /\ file' = NoFile
    /\ UNCHANGED <<up, life, held, count, closing, sweep, stolen, events>>

\* The hold of p ends under the clients that share it: their handles are void.
Takes(p) == client' = [c \in Clients |-> IF At(c, "holding") /\ Shares(c) /\ ProcOf[c] = p
                                          THEN [client[c] EXCEPT !.at = "taken"] ELSE client[c]]

\* runLockWatchdogCheck finds a hold that has lasted longer than its maxHoldMs.
WatchdogForces(p) ==
    /\ Event /\ held[p] # 0
    /\ held' = [held EXCEPT ![p] = 0] /\ count' = [count EXCEPT ![p] = 0]
    /\ closing' = [closing EXCEPT ![p] = @ \cup {held[p]}]
    /\ Takes(p)
    /\ UNCHANGED <<file, up, life, sweep, stolen>>

WatchdogUnlinks(p) ==
    /\ \E l \in closing[p] : closing' = [closing EXCEPT ![p] = @ \ {l}]
    /\ file' = NoFile
    /\ UNCHANGED <<up, life, held, count, client, sweep, stolen, events>>

-----------------------------------------------------------------------------
(* Processes. *)

Dies(p) == /\ up' = up \ {p}
           /\ client' = [c \in Clients |-> IF ProcOf[c] = p THEN Idle ELSE client[c]]
           /\ closing' = [closing EXCEPT ![p] = {}] /\ sweep' = [sweep EXCEPT ![p] = "done"]

\* releaseAllLocksSync, on exit or by handleTerminationSignal; a process with a handler of its
\* own for the signal goes on.
ReleaseAll(p) ==
    /\ Event /\ held[p] # 0
    /\ held' = [held EXCEPT ![p] = 0] /\ count' = [count EXCEPT ![p] = 0]
    /\ file' = NoFile
    /\ Dies(p) \/ (Takes(p) /\ UNCHANGED <<up, closing, sweep>>)
    /\ UNCHANGED <<life, stolen>>

\* SIGKILL, or a power failure: the file stays.
Crash(p) ==
    /\ Event /\ p \in up /\ Dies(p)
    /\ held' = [held EXCEPT ![p] = 0] /\ count' = [count EXCEPT ![p] = 0]
    /\ UNCHANGED <<file, life, stolen>>

Restart(p) ==
    /\ p \notin up /\ up' = up \cup {p}
    /\ life' = [life EXCEPT ![p] = @ + 1]
    /\ sweep' = [sweep EXCEPT ![p] = IF p \in Gateways THEN "list" ELSE "done"]
    /\ UNCHANGED <<file, held, count, client, closing, stolen, events>>

\* cleanStaleLockFiles lists the files, reads this one, and removes it if it seems stale.
SweepLists(p) ==
    /\ sweep[p] = "list"
    /\ sweep' = [sweep EXCEPT ![p] = IF Present THEN "read" ELSE "done"]
    /\ UNCHANGED <<file, up, life, held, count, client, closing, stolen, events>>

SweepReads(p) ==
    /\ sweep[p] = "read"
    /\ sweep' = [sweep EXCEPT ![p] = IF Empty \/ Stale THEN "remove" ELSE "done"]
    /\ UNCHANGED <<file, up, life, held, count, client, closing, stolen, events>>

SweepRemoves(p) ==
    /\ sweep[p] = "remove" /\ Removes
    /\ sweep' = [sweep EXCEPT ![p] = "done"]
    /\ UNCHANGED <<up, life, held, count, client, closing, events>>

\* staleMs passes.  Holds end before, by themselves or by the watchdog, unless LongHolds.
FileAges ==
    /\ Present /\ ~file.old
    /\ LongHolds \/ ~InUse(file.lock)
    /\ file' = [file EXCEPT !.old = TRUE]
    /\ UNCHANGED <<up, life, held, count, client, closing, sweep, stolen, events>>

Progress(c) == \/ Open(c) \/ Write(c) \/ Register(c) \/ Undo(c) \/ Inspect(c) \/ Stat(c)
               \/ Remove(c) \/ Release(c) \/ Unlink(c)
Sweeps(p)   == SweepLists(p) \/ SweepReads(p) \/ SweepRemoves(p)

LockNext ==
    \/ \E c \in Clients : Acquire(c) \/ WriteFails(c) \/ GiveUp(c) \/ Progress(c)
    \/ \E p \in Procs : \/ WatchdogForces(p) \/ WatchdogUnlinks(p) \/ Sweeps(p)
                        \/ ReleaseAll(p) \/ Crash(p) \/ Restart(p)
    \/ FileAges

LockSpec == Init /\ [][LockNext]_lockVars

\* File operations return, clients release what they hold, and time passes.
LockFairness ==
    /\ \A c \in Clients : WF_lockVars(Progress(c))
    /\ \A p \in Procs : WF_lockVars(WatchdogUnlinks(p)) /\ WF_lockVars(Sweeps(p))
    /\ WF_lockVars(FileAges)

FairLockSpec == LockSpec /\ LockFairness

-----------------------------------------------------------------------------
(* Properties *)

\* The variables have their types.
LockTypeOK ==
    /\ file \in [lock : Nat, by : Procs \cup {0}, life : Nat, old : BOOLEAN]
    /\ up \subseteq Procs /\ life \in [Procs -> Nat]
    /\ held \in [Procs -> Nat] /\ count \in [Procs -> Nat]
    /\ client \in [Clients -> [at : {"idle", "open", "write", "register", "undo", "read", "stat",
                                     "remove", "holding", "taken", "close"}, lock : Nat]]
    /\ closing \in [Procs -> SUBSET Nat]
    /\ sweep \in [Procs -> {"done", "list", "read", "remove"}]
    /\ stolen \in BOOLEAN /\ events \in 0..MaxEvents

\* Two clients that both hold the lock share one hold: neither a handle that outlived its hold,
\* nor a shared release, a failed creation or a crash lets a second writer in.  Taken from it
\* by the watchdog or a signal, a client is no longer a holder; after a theft all is open.
SingleWriter ==
    ~stolen => \A c, d \in Clients : At(c, "holding") /\ At(d, "holding") => client[c].lock = client[d].lock

\* A caller never condemns a lock that is in use: what it is about to remove, if it is still
\* the file it judged, has no owner.  (Theft takes a second caller that removes and creates
\* between the judgement and the removal.)
JudgementIsSound ==
    \A c \in Clients : At(c, "remove") /\ client[c].lock = file.lock => ~InUse(file.lock)

\* As long as a caller that never gives up tries to get the lock, somebody gets it: a file that
\* a crash left, with or without a payload, under a pid that is dead or given away, does not
\* block the session for ever.
Trying(c) == client[c].at \in {"open", "read", "stat", "remove", "write", "register", "undo"}
SomebodyGetsIn ==
    \A c \in Patient : Trying(c) ~> ~Trying(c) \/ \E d \in Clients : At(d, "holding")

-----------------------------------------------------------------------------
(* What documents say, and the code does not do: see the README. *)

\* Sessions have a single writer.
AlwaysSingleWriter ==
    \A c, d \in Clients : At(c, "holding") /\ At(d, "holding") => client[c].lock = client[d].lock
=============================================================================
